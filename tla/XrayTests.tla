------------------------------ MODULE XrayTests ------------------------------
(***************************************************************************)
(* legacy-python/engine.py from the Xray binary to the verdict: the binary  *)
(* is found, or downloaded and unpacked, then repeated_test measures every  *)
(* endpoint in a pool thread, through an Xray process of its own on a port  *)
(* the system has just called free, or by a direct connection.  The program *)
(* may be killed at any point and is started again on the files it left.    *)
(***************************************************************************)
EXTENDS Integers, FiniteSets

CONSTANTS
  Jobs,         \* the endpoints of stage 2, each tested by a pool thread
  Kind,         \* what each of them is: "v2ray", "socks" or "mtproto"
  Supported,    \* those build_xray_outbound makes an outbound for
  Behaviours,   \* how the servers of the endpoints may behave
  Hosts,        \* the machines: pairs <<system, processor>>
  Ports,        \* the ephemeral ports
  Modes,        \* values of TEST_MODE
  Attempts,     \* PING_ATTEMPTS
  AutoDownload, \* AUTO_DOWNLOAD_XRAY
  MaxLaunches,  \* bound: starts of the program
  MaxCleanups,  \* bound: calls of cleanup_xray_processes in a run
  None

ASSUME XrayAssumption ==
  /\ Kind \in [Jobs -> {"v2ray", "socks", "mtproto"}]
  /\ Supported \subseteq {j \in Jobs : Kind[j] = "v2ray"}
  /\ Behaviours \subseteq [Jobs -> {"tunnel", "silent", "closes", "dead"}]
  /\ Modes \subseteq {"auto", "xray", "tcp"}
  /\ Attempts \in Nat \ {0} /\ MaxLaunches \in Nat /\ MaxCleanups \in Nat
  /\ AutoDownload \in BOOLEAN
  /\ None \notin Ports \cup {"configured", "bundle"}

VARIABLES
  main,     \* where the main thread (in the window: the worker) stands
  front,    \* "cli", "window", or "prepare" for --download-xray-only
  mode,     \* TEST_MODE
  again,    \* ensure_xray_binary is still to be called a second time
  launches,
  cleanups,
  host,     \* the machine
  nature,   \* how the server of each endpoint behaves
  file,     \* the binary at each place find_xray_binary looks at
  zip,      \* core/xray_latest.zip
  path,     \* what ensure_xray_binary returned last
  job       \* the call of repeated_test for each endpoint

fileVars == <<file, zip>>
fixedVars == <<front, mode, launches, host, nature>>
vars == <<main, again, cleanups, path, fileVars, fixedVars, job>>

Places == {"configured", "bundle"}
FileStates == {"absent", "partial", "foreign", "whole"}
Stages == {"queued", "attempt", "port", "config", "wait", "probe", "finally", "raise", "raised", "done"}
Ended == {"down", "done", "failed", "closed"}

\* What a call has: its port, its core, its configuration on disk, the attempts
\* and samples so far, the exception that ended it ("dump": from json.dump), and
\* whether it took a sample while another call held the same port.
Fresh == [at |-> "queued", port |-> None, core |-> "none", tmp |-> FALSE, tries |-> 0, good |-> 0,
          error |-> "none", mixed |-> FALSE]

Init ==
  /\ main = "down" /\ front = "cli" /\ mode \in Modes /\ again = FALSE
  /\ launches = 0 /\ cleanups = 0
  /\ host \in Hosts /\ nature \in Behaviours
  /\ \E b \in {"absent", "whole"} : file = [configured |-> "absent", bundle |-> b]
  /\ zip = "absent" /\ path = None
  /\ job = [j \in Jobs |-> Fresh]

-----------------------------------------------------------------------------
\* main or CheckerWorker.run begins; outputs were cleared and settings loaded.
Launch ==
  /\ main \in Ended /\ launches < MaxLaunches
  /\ \E f \in {"cli", "window", "prepare"} : front' = f /\ again' = (f = "cli")
  /\ mode' \in Modes
  /\ main' = "find" /\ launches' = launches + 1 /\ cleanups' = 0 /\ path' = None
  /\ job' = [j \in Jobs |-> Fresh]
  /\ UNCHANGED <<fileVars, host, nature>>

\* The end of ensure_xray_binary.  The command line calls it before the
\* collection and again in stage2_test; --download-xray-only ends with it.
Ensured(p) ==
  /\ path' = p /\ again' = FALSE
  /\ main' = IF again THEN "find"
             ELSE IF front # "prepare" THEN "test"
             ELSE IF p = None THEN "failed" ELSE "done"
  /\ UNCHANGED <<cleanups, fixedVars, job>>

\* Mutant: the configured place is not looked at.
ExistingBundled == {p \in {"bundle"} : file[p] # "absent"}

\* is_file is all that is asked of a candidate.
Existing == {p \in Places : file[p] # "absent"}

Find ==
  /\ main = "find"
  /\ \/ /\ Existing # {}
        /\ Ensured(IF "configured" \in Existing THEN "configured" ELSE "bundle")
     \/ Existing = {} /\ ~AutoDownload /\ Ensured(None)
     \/ /\ Existing = {} /\ AutoDownload /\ main' = "asset"
        /\ UNCHANGED <<again, path, cleanups, fixedVars, job>>
  /\ UNCHANGED fileVars

\* The release asset platform_xray_asset_keyword names for a machine: any
\* processor with "arm" in its name gets the 64-bit build, an unknown system
\* the one for Windows.
Keyword(h) ==
  LET arm == h[2] \in {"arm64", "armv7"} IN
  CASE h[1] = "linux" -> <<"linux", IF arm THEN "arm64" ELSE IF h[2] = "x86" THEN "x86" ELSE "x64">>
    [] h[1] = "darwin" -> <<"darwin", IF arm THEN "arm64" ELSE "x64">>
    [] OTHER -> <<"windows", IF arm THEN "arm64" ELSE IF h[2] = "x86" THEN "x86" ELSE "x64">>

\* The asset get_latest_xray_asset takes from those a release lists: the one of
\* this machine, else the first 64-bit package of any system.
Chosen(listed) ==
  IF Keyword(host) \in listed THEN {Keyword(host)}
  ELSE LET of(s) == {a \in listed : a[1] = s /\ a[2] # "x86"} IN
       IF of("windows") # {} THEN of("windows")
       ELSE IF of("linux") # {} THEN of("linux") ELSE of("darwin")

Releases == {{}, {Keyword(host)}, {<<"windows", "x64">>, <<"linux", "x64">>}}

\* get_latest_xray_asset and the start of the download: the old archive is
\* truncated when the answer has come.
Asset ==
  /\ main = "asset"
  /\ \/ /\ \E listed \in Releases : Chosen(listed) # {}
        /\ zip' = "partial" /\ main' = "download" /\ UNCHANGED <<again, path, cleanups, fixedVars, job>>
     \/ UNCHANGED zip /\ Ensured(None)
  /\ UNCHANGED file

Download ==
  /\ main = "download"
  /\ \/ /\ \E listed \in Releases : \E a \in Chosen(listed) : zip' = IF a = host THEN "whole" ELSE "foreign"
        /\ main' = "extract" /\ UNCHANGED <<again, path, cleanups, fixedVars, job>>
     \/ UNCHANGED zip /\ Ensured(None)
  /\ UNCHANGED file

\* extract_xray_from_zip truncates its target before it copies the binary.
ExtractBegins ==
  /\ main = "extract"
  /\ \/ /\ file' = [file EXCEPT !["configured"] = "partial"] /\ main' = "copy"
        /\ UNCHANGED <<again, path, cleanups, fixedVars, job>>
     \/ UNCHANGED file /\ Ensured(None)
  /\ UNCHANGED zip

ExtractEnds ==
  /\ main = "copy"
  /\ \/ file' = [file EXCEPT !["configured"] = zip] /\ zip' = "absent" /\ Ensured("configured")
     \/ UNCHANGED fileVars /\ Ensured(None)

-----------------------------------------------------------------------------
Goes(j, r) == job' = [job EXCEPT ![j] = r] /\ UNCHANGED <<main, again, cleanups, path, fileVars, fixedVars>>
Testing == main \in {"test", "closing"}
In(j, stage) == Testing /\ job[j].at = stage

UseXray(j) == j \in Supported /\ mode \in {"auto", "xray"} /\ path # None

\* Mutant: in strict mode too the direct check is the fallback.
BeginLenient(j) == In(j, "queued") /\ Goes(j, [job[j] EXCEPT !.at = "attempt"])

\* repeated_test begins; in strict mode a v2ray endpoint is never tested otherwise.
Begin(j) ==
  /\ In(j, "queued")
  /\ Goes(j, [job[j] EXCEPT !.at =
       IF mode = "xray" /\ Kind[j] = "v2ray" /\ ~UseXray(j) THEN "done" ELSE "attempt"])

\* The end of an attempt: a sample or an error, then the next one or the verdict.
Attempted(j, sample) ==
  [Fresh EXCEPT !.tries = job[j].tries + 1, !.good = job[j].good + (IF sample THEN 1 ELSE 0),
                !.mixed = job[j].mixed, !.at = IF job[j].tries + 1 < Attempts THEN "attempt" ELSE "done"]

\* An exception leaves repeated_test; what the call holds no more is gone.
Raised(j, error) ==
  [Fresh EXCEPT !.tries = job[j].tries, !.good = job[j].good, !.mixed = job[j].mixed,
                !.at = "raised", !.error = error]

\* Whether a server of this nature can give a direct check a sample: a bare
\* connection, a SOCKS5 tunnel to Telegram, a socket that is not closed at once.
Reaches(j) ==
  CASE Kind[j] = "v2ray" -> nature[j] # "dead"
    [] Kind[j] = "socks" -> nature[j] = "tunnel"
    [] Kind[j] = "mtproto" -> nature[j] \in {"tunnel", "silent"}

Direct(j) ==
  /\ In(j, "attempt") /\ ~UseXray(j)
  /\ \E sample \in {FALSE, Reaches(j)} : Goes(j, Attempted(j, sample))

Bound == {job[k].port : k \in {i \in Jobs : job[i].core = "serving"}}

\* free_port: any port nobody listens on, since its own socket is closed before
\* the core binds the port; a call may be given the port of another.
Free == Ports \ Bound

\* xray_attempt up to its try: the port, or the exception of free_port.
TakePort(j) ==
  /\ In(j, "attempt") /\ UseXray(j)
  /\ \/ \E p \in Free : Goes(j, [job[j] EXCEPT !.at = "port", !.port = p])
     \/ Goes(j, Raised(j, "other"))

\* The configuration in a temporary file.  No file can be made; or json.dump
\* raises (a link may say half of a surrogate pair) before tmp_path is assigned,
\* so that the finally does not know the file; or the file is complete.
WriteConfig(j) ==
  /\ In(j, "port")
  /\ \/ Goes(j, Raised(j, "other"))
     \/ Goes(j, [Raised(j, "dump") EXCEPT !.tmp = TRUE])
     \/ Goes(j, [job[j] EXCEPT !.at = "config", !.tmp = TRUE])

\* Closing the file and Popen, which may raise whatever the binary is
\* (permissions, limits); a file that is no program of this machine may also
\* end at once.
Spawn(j) ==
  /\ In(j, "config")
  /\ \/ file[path] = "whole" /\ Goes(j, [job[j] EXCEPT !.at = "wait", !.core = "starting"])
     \/ file[path] # "whole" /\ Goes(j, [job[j] EXCEPT !.at = "wait", !.core = "gone"])
     \/ Goes(j, [job[j] EXCEPT !.at = "raise"])

\* The core binds its port, or ends: the port is taken, the outbound refused.
Listen(j) ==
  /\ Testing /\ job[j].core = "starting"
  /\ \/ job[j].port \notin Bound /\ Goes(j, [job[j] EXCEPT !.core = "serving"])
     \/ Goes(j, [job[j] EXCEPT !.core = "gone"])

\* wait_port_open sees a listener on the port, whoever it is.
PortOpen(j) ==
  In(j, "wait") /\ job[j].port \in Bound /\ Goes(j, [job[j] EXCEPT !.at = "probe"])

\* Mutant: the wait ends only with the core.
PortClosedOnExit(j) ==
  /\ In(j, "wait") /\ job[j].port \notin Bound /\ job[j].core = "gone"
  /\ Goes(j, [job[j] EXCEPT !.at = "finally"])

PortClosed(j) ==
  In(j, "wait") /\ job[j].port \notin Bound /\ Goes(j, [job[j] EXCEPT !.at = "finally"])

\* socks5_http_delay_ms: the request goes through the core that listens there.
Probe(j) ==
  /\ In(j, "probe")
  /\ \E sample \in {FALSE, \E k \in Jobs : /\ job[k].core = "serving" /\ job[k].port = job[j].port
                                           /\ nature[k] = "tunnel"} :
       Goes(j, [job[j] EXCEPT
         !.at = "finally", !.good = job[j].good + (IF sample THEN 1 ELSE 0),
         !.mixed = job[j].mixed \/ (sample /\ \E k \in Jobs \ {j} : job[k].port = job[j].port)])

\* Mutant: the file is removed and the process ended only after a sample.
FinallyOnSample(j) ==
  /\ In(j, "finally")
  /\ Goes(j, [Attempted(j, FALSE) EXCEPT
       !.tmp = job[j].good = 0, !.core = IF job[j].good = 0 THEN job[j].core ELSE "none"])

\* Mutant: one attempt too many.
FinallyLate(j) ==
  /\ In(j, "finally")
  /\ Goes(j, [Attempted(j, FALSE) EXCEPT !.at = IF job[j].tries < Attempts THEN "attempt" ELSE "done"])

\* The finally of xray_attempt: terminate_process, unlink, and the attempt ends.
\* Both swallow their exceptions and are taken to succeed.
Finally(j) == In(j, "finally") /\ Goes(j, Attempted(j, FALSE))

\* The same with an exception, which leaves repeated_test.
Raise(j) == In(j, "raise") /\ Goes(j, Raised(j, "other"))

\* All futures are done.  A raised one makes stage2_test and main fail; the
\* window records an internal failure instead.
Collected ==
  /\ main = "test" /\ \A j \in Jobs : job[j].at \in {"done", "raised"}
  /\ main' = IF front = "cli" /\ \E j \in Jobs : job[j].at = "raised" THEN "failed" ELSE "done"
  /\ UNCHANGED <<again, cleanups, path, fileVars, fixedVars, job>>

Killed == [j \in Jobs |-> IF job[j].core = "none" THEN job[j] ELSE [job[j] EXCEPT !.core = "gone"]]

\* cleanup_xray_processes, from a pause or a reset of the window.
Cleanup ==
  /\ main = "test" /\ front = "window" /\ cleanups < MaxCleanups /\ cleanups' = cleanups + 1
  /\ job' = Killed
  /\ UNCHANGED <<main, again, path, fileVars, fixedVars>>

\* closeEvent during the tests: the same cleanup, once, of the cores that are
\* there; the pool threads go on with their attempts and launch others.
Close ==
  /\ main = "test" /\ front = "window" /\ main' = "closing"
  /\ job' = Killed
  /\ UNCHANGED <<again, cleanups, path, fileVars, fixedVars>>

\* The interpreter joins the threads of the pool before the process ends: the
\* calls that were begun end first, and no other is submitted after the abort.
Closed ==
  /\ main = "closing" /\ \A j \in Jobs : job[j].at \in {"queued", "done", "raised"}
  /\ main' = "closed"
  /\ UNCHANGED <<again, cleanups, path, fileVars, fixedVars, job>>

\* The program is killed; what its files hold then stays.  The cores and
\* configurations it leaves behind are not followed: they keep ports that the
\* system does not hand out.
Crash ==
  /\ main \notin Ended /\ main' = "down" /\ job' = [j \in Jobs |-> Fresh]
  /\ UNCHANGED <<again, cleanups, path, fileVars, fixedVars>>

MainStep == Find \/ Asset \/ Download \/ ExtractBegins \/ ExtractEnds \/ Collected \/ Closed
JobStep(j) ==
  \/ Begin(j) \/ Direct(j) \/ TakePort(j) \/ WriteConfig(j) \/ Spawn(j) \/ PortOpen(j)
  \/ PortClosed(j) \/ Probe(j) \/ Finally(j) \/ Raise(j)

Next == Launch \/ Cleanup \/ Close \/ Crash \/ MainStep \/ \E j \in Jobs : JobStep(j) \/ Listen(j)

Spec == Init /\ [][Next]_vars

\* Every call of the program has a timeout; a core owes nothing.
FairSpec == Spec /\ WF_vars(MainStep) /\ \A j \in Jobs : WF_vars(JobStep(j))

-----------------------------------------------------------------------------
TypeOK ==
  /\ main \in Ended \cup {"find", "asset", "download", "extract", "copy", "test", "closing"}
  /\ front \in {"cli", "window", "prepare"} /\ mode \in Modes /\ again \in BOOLEAN
  /\ launches \in 0..MaxLaunches /\ cleanups \in 0..MaxCleanups
  /\ host \in Hosts /\ nature \in Behaviours
  /\ file \in [Places -> FileStates] /\ zip \in FileStates /\ path \in Places \cup {None}
  /\ job \in [Jobs -> [at : Stages, port : Ports \cup {None}, tmp : BOOLEAN,
                       core : {"none", "starting", "serving", "gone"},
                       tries : 0..Attempts, good : 0..Attempts,
                       error : {"none", "dump", "other"}, mixed : BOOLEAN]]

\* A sample says what its tester claims (engine.py:1822-1824): through Xray, or
\* in strict mode at all, a v2ray server that relays the request; else one that
\* the direct check of its kind reaches.  Only a call that shared its port with
\* another while it took a sample may have measured the other's server.
GoodIsReal ==
  \A j \in Jobs : job[j].good > 0 /\ ~job[j].mixed =>
    /\ Reaches(j)
    /\ Kind[j] = "v2ray" /\ (UseXray(j) \/ mode = "xray") => nature[j] = "tunnel"

\* When the tests have ended, with an error too, after a cleanup in the middle of
\* attempts and in a window that closes, where threads launch cores after the
\* snapshot of the cleanup, none of their cores runs (finally of xray_attempt),
\* and the only configuration, with the credentials of an endpoint, that is left
\* on disk is one that json.dump did not finish.
NoneLeft ==
  main \in {"done", "failed", "closed"} =>
    \A j \in Jobs : job[j].core = "none" /\ (job[j].tmp => job[j].error = "dump")

\* A complete binary is never overwritten, removed or damaged: neither a second
\* call in the same run nor a start after a crash downloads over it.
CoreKept == [][\A p \in Places : file[p] = "whole" => file'[p] = "whole"]_vars

\* Every start ends: no missing answer, core that never listens, unusable binary
\* or cleanup keeps the preparation or the tests from their end.
RunEnds == main \notin Ended ~> main \in Ended

\* engine.py:1822 says that the xray-http tester requests CHECK_URL through the
\* candidate config: a v2ray endpoint with a sample is one that relays.
OwnConfig ==
  \A j \in Jobs : UseXray(j) /\ job[j].good > 0 => nature[j] = "tunnel"
=============================================================================
