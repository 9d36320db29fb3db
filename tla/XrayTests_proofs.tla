--------------------------- MODULE XrayTests_proofs ---------------------------
(***************************************************************************)
(* For any set of endpoints, whatever their kinds, natures and outbounds,   *)
(* any machines and ports, and any numbers of attempts, starts and cleanups *)
(* of XrayTests.                                                            *)
(***************************************************************************)
EXTENDS XrayTests, TLAPS

JobRecords ==
  [at : Stages, port : Ports \cup {None}, tmp : BOOLEAN,
   core : {"none", "starting", "serving", "gone"}, tries : 0..Attempts, good : 0..Attempts,
   error : {"none", "dump", "other"}, mixed : BOOLEAN]

Running == {"wait", "probe", "finally"}
ThroughXray == Running \cup {"config", "raise"}

(* What a call holds at each stage: a port from TakePort to the finally, a  *)
(* configuration file from WriteConfig to it, a core from Spawn to it, and  *)
(* nothing elsewhere but the file that json.dump did not finish.            *)
Holds(r) ==
  /\ r.tmp = TRUE <=> (r.at \in ThroughXray \/ r.error = "dump")
  /\ r.port # None <=> (r.at \in ThroughXray \/ r.at = "port")
  /\ r.core # "none" <=> r.at \in Running
  /\ r.error # "none" <=> r.at = "raised"

(* A call that is not over has an attempt left; the sample of the attempt   *)
(* that is in its finally is counted before the attempt.                    *)
Counted(r) ==
  /\ r.at \notin {"done", "raised"} => r.tries < Attempts
  /\ r.good <= r.tries + (IF r.at = "finally" THEN 1 ELSE 0)

(* A call goes through Xray only if it may, and in strict mode no v2ray     *)
(* endpoint is attempted otherwise.                                         *)
Routed(j, r) ==
  /\ r.at \in ThroughXray \/ r.at = "port" => UseXray(j)
  /\ r.at = "attempt" /\ mode = "xray" /\ Kind[j] = "v2ray" => UseXray(j)

JobOK(j, r) == r \in JobRecords /\ Holds(r) /\ Counted(r) /\ Routed(j, r)
JobsInv == \A j \in Jobs : JobOK(j, job[j])

(* No call is in an attempt when the tests have ended, and none has begun   *)
(* before them, so that neither the path nor the mode changes under one.    *)
QuietInv ==
  /\ main \in {"done", "failed", "closed"} => \A j \in Jobs : job[j].at \in {"queued", "done", "raised"}
  /\ main \notin {"test", "closing", "closed", "done", "failed"} => \A j \in Jobs : job[j] = Fresh

(* A download is under way only if no binary was there at all.              *)
FilesInv ==
  /\ main \in {"asset", "download", "extract"} => Existing = {}
  /\ main = "copy" => file["configured"] # "whole"

CallsInv == JobsInv /\ QuietInv

-----------------------------------------------------------------------------
LEMMA FreshOK == ASSUME NEW j \in Jobs PROVE JobOK(j, Fresh)
BY XrayAssumption DEF Fresh, JobOK, JobRecords, Holds, Counted, Routed, Stages, ThroughXray, Running

LEMMA FreshQueued == Fresh.at = "queued" /\ Fresh.good = 0
BY DEF Fresh

LEMMA RecordKept ==
  ASSUME NEW r \in JobRecords, NEW at \in Stages, NEW n \in 0..Attempts, NEW m \in 0..Attempts, NEW x \in BOOLEAN
  PROVE  [r EXCEPT !.tries = n, !.good = m, !.mixed = x, !.at = at] \in JobRecords
         /\ [r EXCEPT !.at = at, !.good = m, !.mixed = x] \in JobRecords
BY Zenon DEF JobRecords

LEMMA ReachesType == \A j \in Jobs : Reaches(j) \in BOOLEAN
<1> TAKE j \in Jobs
<1>1. Kind[j] \in {"v2ray", "socks", "mtproto"}
  BY XrayAssumption
<1>2. CASE Kind[j] = "v2ray"
  BY <1>2 DEF Reaches
<1>3. CASE Kind[j] = "socks"
  BY <1>3 DEF Reaches
<1>4. CASE Kind[j] = "mtproto"
  BY <1>4 DEF Reaches
<1> QED
  BY <1>1, <1>2, <1>3, <1>4

LEMMA InitTypeOK == Init => TypeOK
<1> SUFFICES ASSUME Init PROVE TypeOK
  OBVIOUS
<1>1. job \in [Jobs -> JobRecords]
  BY FreshOK DEF Init, JobOK
<1>2. file \in [Places -> FileStates]
  BY DEF Init, Places, FileStates
<1>3. launches \in 0..MaxLaunches /\ cleanups \in 0..MaxCleanups
  BY XrayAssumption DEF Init
<1>4. /\ main \in Ended /\ zip \in FileStates /\ path = None /\ again \in BOOLEAN
      /\ front \in {"cli", "window", "prepare"} /\ mode \in Modes /\ host \in Hosts /\ nature \in Behaviours
  BY DEF Init, Ended, FileStates
<1> QED
  BY <1>1, <1>2, <1>3, <1>4 DEF TypeOK, JobRecords

LEMMA InitCalls == Init => CallsInv
BY FreshOK, FreshQueued DEF Init, CallsInv, JobsInv, QuietInv

(* The parts that several actions share.  A step of one call keeps the      *)
(* invariant of the calls if its record does.                               *)
LEMMA GoesKeeps ==
  ASSUME TypeOK, CallsInv, main \in {"test", "closing"}, NEW j \in Jobs, NEW r, Goes(j, r), JobOK(j, r)
  PROVE  TypeOK' /\ CallsInv'
<1>1. UNCHANGED <<main, again, cleanups, path, file, zip, front, mode, launches, host, nature>>
  BY DEF Goes, fileVars, fixedVars
<1>2. job \in [Jobs -> JobRecords] /\ job' = [job EXCEPT ![j] = r]
  BY DEF TypeOK, JobRecords, Goes
<1>3. \A k \in Jobs : job'[k] = IF k = j THEN r ELSE job[k]
  BY <1>2
<1>4. job' \in [Jobs -> JobRecords]
  BY <1>2 DEF JobOK
<1>5. \A k \in Jobs : \A q : JobOK(k, q) => JobOK(k, q)'
  BY <1>1 DEF JobOK, Routed, UseXray
<1>6. JobsInv'
  BY <1>3, <1>5 DEF JobsInv, CallsInv
<1>7. QuietInv'
  BY <1>1 DEF QuietInv
<1> QED
  BY <1>1, <1>4, <1>6, <1>7 DEF TypeOK, JobRecords, CallsInv

LEMMA EnsuredKeeps ==
  ASSUME TypeOK, CallsInv, main \in {"find", "asset", "download", "extract", "copy"},
         NEW p \in Places \cup {None}, Ensured(p),
         file' \in [Places -> FileStates], zip' \in FileStates
  PROVE  TypeOK' /\ CallsInv'
<1>1. UNCHANGED <<cleanups, front, mode, launches, host, nature, job>> /\ path' = p /\ again' = FALSE
  BY DEF Ensured, fixedVars
<1>2. main' \in {"find", "test", "failed", "done"}
  BY DEF Ensured
<1>3. \A j \in Jobs : job[j] = Fresh
  BY DEF CallsInv, QuietInv
<1>4. JobsInv'
  <2>1. ASSUME NEW j \in Jobs PROVE JobOK(j, Fresh)'
    BY XrayAssumption DEF Fresh, JobOK, JobRecords, Holds, Counted, Routed, Stages, ThroughXray, Running
  <2> QED
    BY <1>1, <1>3, <2>1 DEF JobsInv
<1>5. QuietInv'
  BY <1>1, <1>2, <1>3, FreshQueued DEF QuietInv
<1> QED
  BY <1>1, <1>2, <1>4, <1>5 DEF TypeOK, CallsInv, Ended

LEMMA PhaseKeeps ==
  ASSUME TypeOK, CallsInv, main \in {"find", "asset", "download", "extract", "copy"},
         main' \in {"asset", "download", "extract", "copy"},
         UNCHANGED <<again, path, cleanups, fixedVars, job>>,
         file' \in [Places -> FileStates], zip' \in FileStates
  PROVE  TypeOK' /\ CallsInv'
<1>1. UNCHANGED <<again, path, cleanups, front, mode, launches, host, nature, job>>
  BY DEF fixedVars
<1>2. JobsInv'
  BY <1>1 DEF CallsInv, JobsInv, JobOK, Routed, UseXray
<1>3. QuietInv'
  BY <1>1 DEF CallsInv, QuietInv
<1> QED
  BY <1>1, <1>2, <1>3 DEF TypeOK, CallsInv

LEMMA RestartKeeps ==
  ASSUME job' = [j \in Jobs |-> Fresh] PROVE CallsInv' /\ job' \in [Jobs -> JobRecords]
<1>1. \A j \in Jobs : JobOK(j, Fresh)'
  BY XrayAssumption DEF Fresh, JobOK, JobRecords, Holds, Counted, Routed, Stages, ThroughXray, Running
<1> QED
  BY <1>1 DEF CallsInv, JobsInv, QuietInv, Fresh, JobOK

LEMMA StepMain ==
  ASSUME TypeOK, CallsInv, MainStep PROVE TypeOK' /\ CallsInv'
<1>1. file \in [Places -> FileStates] /\ zip \in FileStates
  BY DEF TypeOK
<1>2. CASE Find
  <2>1. UNCHANGED <<file, zip>> /\ main = "find"
    BY <1>2 DEF Find, fileVars
  <2>2. CASE main' = "asset" /\ UNCHANGED <<again, path, cleanups, fixedVars, job>>
    BY <1>1, <2>1, <2>2, PhaseKeeps
  <2>3. ASSUME NEW p \in Places \cup {None}, Ensured(p) PROVE TypeOK' /\ CallsInv'
    BY <1>1, <2>1, <2>3, EnsuredKeeps
  <2> QED
    BY <1>2, <2>2, <2>3 DEF Find, Places
<1>3. CASE Asset
  BY <1>1, <1>3, PhaseKeeps, EnsuredKeeps DEF Asset, FileStates
<1>4. CASE Download
  BY <1>1, <1>4, PhaseKeeps, EnsuredKeeps DEF Download, FileStates
<1>5. CASE ExtractBegins
  BY <1>1, <1>5, PhaseKeeps, EnsuredKeeps DEF ExtractBegins, FileStates, Places
<1>6. CASE ExtractEnds
  BY <1>1, <1>6, EnsuredKeeps DEF ExtractEnds, FileStates, Places, fileVars
<1>7. CASE Collected
  <2>1. UNCHANGED <<again, path, cleanups, file, zip, front, mode, launches, host, nature, job>>
    BY <1>7 DEF Collected, fileVars, fixedVars
  <2>2. main' \in {"done", "failed"}
    BY <1>7 DEF Collected
  <2>3. JobsInv'
    BY <2>1 DEF CallsInv, JobsInv, JobOK, Routed, UseXray
  <2>4. QuietInv'
    BY <1>7, <2>1, <2>2 DEF Collected, QuietInv
  <2> QED
    BY <2>1, <2>2, <2>3, <2>4 DEF TypeOK, CallsInv, Ended
<1>8. CASE Closed
  <2>1. UNCHANGED <<again, cleanups, path, file, zip, front, mode, launches, host, nature, job>> /\ main' = "closed"
    BY <1>8 DEF Closed, fileVars, fixedVars
  <2>2. JobsInv' /\ QuietInv'
    BY <1>8, <2>1 DEF Closed, CallsInv, JobsInv, QuietInv, JobOK, Routed, UseXray
  <2> QED
    BY <2>1, <2>2 DEF TypeOK, CallsInv, Ended
<1> QED
  BY <1>2, <1>3, <1>4, <1>5, <1>6, <1>7, <1>8 DEF MainStep

(* The record an attempt leaves holds nothing.                              *)
LEMMA AttemptedOK ==
  ASSUME TypeOK, CallsInv, NEW j \in Jobs, NEW s \in BOOLEAN,
         job[j].at \in {"attempt", "finally"}, job[j].at = "finally" => ~s,
         mode = "xray" /\ Kind[j] = "v2ray" => UseXray(j)
  PROVE  JobOK(j, Attempted(j, s))
<1> DEFINE r == Attempted(j, s)
<1>1. job[j] \in JobRecords /\ Counted(job[j]) /\ job[j].tries < Attempts
  BY DEF CallsInv, JobsInv, JobOK, Counted
<1>2. /\ job[j].tries \in Nat /\ job[j].good \in Nat
      /\ job[j].good + (IF s THEN 1 ELSE 0) <= job[j].tries + 1
  BY <1>1 DEF JobRecords, Counted
<1>3. /\ r.at = (IF job[j].tries + 1 < Attempts THEN "attempt" ELSE "done")
      /\ r.port = None /\ r.core = "none" /\ r.tmp = FALSE /\ r.error = "none"
      /\ r.tries = job[j].tries + 1 /\ r.good = job[j].good + (IF s THEN 1 ELSE 0)
  BY DEF Attempted, Fresh
<1>4. r \in JobRecords
  <2>1. job[j].tries + 1 \in 0..Attempts /\ job[j].good + (IF s THEN 1 ELSE 0) \in 0..Attempts
    BY <1>1, <1>2, XrayAssumption
  <2>2. (IF job[j].tries + 1 < Attempts THEN "attempt" ELSE "done") \in Stages
    BY DEF Stages
  <2>3. job[j].mixed \in BOOLEAN
    BY <1>1 DEF JobRecords
  <2> QED
    BY <2>1, <2>2, <2>3, FreshOK, RecordKept DEF Attempted, JobOK
<1>5. Holds(r) /\ Counted(r) /\ Routed(j, r)
  BY <1>1, <1>2, <1>3, XrayAssumption DEF Holds, Counted, Routed, ThroughXray, Running
<1> QED
  BY <1>4, <1>5 DEF JobOK

(* The record an exception leaves holds at most the file of the dump.       *)
LEMMA RaisedOK ==
  ASSUME TypeOK, CallsInv, NEW j \in Jobs, job[j].at \in {"attempt", "port", "raise"}
  PROVE  /\ JobOK(j, Raised(j, "other"))
         /\ JobOK(j, [Raised(j, "dump") EXCEPT !.tmp = TRUE])
<1> DEFINE E == {"none", "dump", "other"}
           t == job[j].tries
           g == job[j].good
           m == job[j].mixed
<1>1. job[j] \in JobRecords /\ Counted(job[j])
  BY DEF CallsInv, JobsInv, JobOK
<1>2. t \in 0..Attempts /\ g \in 0..Attempts /\ m \in BOOLEAN
  BY <1>1 DEF JobRecords
<1>3. g <= t
  BY <1>1, <1>2, XrayAssumption DEF Counted
<1>4. Fresh \in JobRecords
  BY FreshOK DEF JobOK
<1>5. ASSUME NEW r, NEW e \in {"dump", "other"}, NEW b \in BOOLEAN, b <=> e = "dump",
             r \in JobRecords, r.at = "raised", r.port = None, r.core = "none", r.tmp = b,
             r.tries = t, r.good = g, r.error = e
      PROVE  JobOK(j, r)
  <2> HIDE DEF t, g
  <2>1. Holds(r)
    BY <1>5 DEF Holds, ThroughXray, Running
  <2>2. Counted(r)
    BY <1>2, <1>3, <1>5 DEF Counted
  <2>3. Routed(j, r)
    BY <1>5 DEF Routed, ThroughXray, Running
  <2> QED
    BY <1>5, <2>1, <2>2, <2>3 DEF JobOK
<1>6. ASSUME NEW e \in {"dump", "other"} PROVE
        /\ Raised(j, e) \in JobRecords
        /\ Raised(j, e).at = "raised" /\ Raised(j, e).port = None /\ Raised(j, e).core = "none"
        /\ Raised(j, e).tmp = FALSE /\ Raised(j, e).tries = t /\ Raised(j, e).good = g /\ Raised(j, e).error = e
  <2>1. Raised(j, e) = [Fresh EXCEPT !.tries = t, !.good = g, !.mixed = m, !.at = "raised", !.error = e]
    BY DEF Raised
  <2>2. "raised" \in Stages /\ e \in E
    BY DEF Stages
  <2> HIDE DEF t, g, m
  <2>3. [Fresh EXCEPT !.tries = t, !.good = g, !.mixed = m, !.at = "raised", !.error = e] \in JobRecords
    BY <1>2, <1>4, <2>2, Zenon DEF JobRecords
  <2>4. LET r == [Fresh EXCEPT !.tries = t, !.good = g, !.mixed = m, !.at = "raised", !.error = e] IN
        /\ r.at = "raised" /\ r.port = None /\ r.core = "none"
        /\ r.tmp = FALSE /\ r.tries = t /\ r.good = g /\ r.error = e
    BY DEF Fresh
  <2> QED
    BY <2>1, <2>3, <2>4
<1>7. JobOK(j, Raised(j, "other"))
  <2> HIDE DEF t, g
  <2> QED
    BY <1>5, <1>6
<1>8. JobOK(j, [Raised(j, "dump") EXCEPT !.tmp = TRUE])
  <2> DEFINE q == Raised(j, "dump")
             d == [q EXCEPT !.tmp = TRUE]
  <2>1. q \in JobRecords /\ q.at = "raised" /\ q.port = None /\ q.core = "none" /\ q.tries = t /\ q.good = g
        /\ q.error = "dump"
    BY <1>6
  <2> HIDE DEF q, t, g
  <2>2. d \in JobRecords
    BY <2>1, Zenon DEF JobRecords
  <2>3. d.at = "raised" /\ d.port = None /\ d.core = "none" /\ d.tmp = TRUE /\ d.tries = t /\ d.good = g
        /\ d.error = "dump"
    BY <2>1 DEF JobRecords
  <2> HIDE DEF d
  <2>4. JobOK(j, d)
    BY <1>5, <2>2, <2>3
  <2> QED
    BY <2>4 DEF d, q
<1> QED
  BY <1>7, <1>8

LEMMA StepJob ==
  ASSUME TypeOK, CallsInv, NEW j \in Jobs, JobStep(j) PROVE TypeOK' /\ CallsInv'
<1> USE DEF In
<1>1. JobOK(j, job[j])
  BY DEF CallsInv, JobsInv
<1>2. job[j] \in JobRecords /\ main \in {"test", "closing"}
  BY <1>1 DEF JobOK, JobStep, Testing, Begin, Direct, TakePort, WriteConfig, Spawn, PortOpen, PortClosed, Probe, Finally, Raise
<1> DEFINE Kept(r) == Goes(j, r) /\ JobOK(j, r)
<1>3. SUFFICES \E r : Kept(r)
  BY <1>2, GoesKeeps
<1>4. CASE Begin(j)
  BY <1>1, <1>2, <1>4 DEF Begin, JobOK, JobRecords, Holds, Counted, Routed, Stages, ThroughXray, Running
<1>5. CASE Direct(j)
  <2>1. PICK s \in {FALSE, Reaches(j)} : Goes(j, Attempted(j, s))
    BY <1>5 DEF Direct
  <2>2. s \in BOOLEAN
    BY ReachesType
  <2>3. job[j].at = "attempt" /\ (mode = "xray" /\ Kind[j] = "v2ray" => UseXray(j))
    BY <1>1, <1>5 DEF Direct, JobOK, Routed
  <2> QED
    BY <2>1, <2>2, <2>3, AttemptedOK
<1>6. CASE TakePort(j)
  <2>1. CASE \E p \in Free : Goes(j, [job[j] EXCEPT !.at = "port", !.port = p])
    BY <1>1, <1>2, <1>6, <2>1, XrayAssumption
       DEF TakePort, Free, JobOK, JobRecords, Holds, Counted, Routed, Stages, ThroughXray, Running
  <2> QED
    BY <1>6, <2>1, RaisedOK DEF TakePort
<1>12. CASE WriteConfig(j)
  <2>1. CASE Goes(j, [job[j] EXCEPT !.at = "config", !.tmp = TRUE])
    BY <1>1, <1>2, <1>12, <2>1
       DEF WriteConfig, JobOK, JobRecords, Holds, Counted, Routed, Stages, ThroughXray, Running
  <2> QED
    BY <1>12, <2>1, RaisedOK DEF WriteConfig
<1>7. CASE Spawn(j)
  BY <1>1, <1>2, <1>7 DEF Spawn, JobOK, JobRecords, Holds, Counted, Routed, Stages, ThroughXray, Running
<1>8. CASE PortOpen(j) \/ PortClosed(j)
  BY <1>1, <1>2, <1>8 DEF PortOpen, PortClosed, JobOK, JobRecords, Holds, Counted, Routed, Stages, ThroughXray, Running
<1>9. CASE Probe(j)
  <2> DEFINE Other == \E k \in Jobs \ {j} : job[k].port = job[j].port
  <2>1. PICK s \in BOOLEAN : Goes(j, [job[j] EXCEPT !.at = "finally", !.good = job[j].good + (IF s THEN 1 ELSE 0),
                                                    !.mixed = job[j].mixed \/ (s /\ Other)])
    BY <1>9 DEF Probe
  <2> DEFINE g == job[j].good + (IF s THEN 1 ELSE 0)
             x == job[j].mixed \/ (s /\ Other)
  <2> DEFINE r == [job[j] EXCEPT !.at = "finally", !.good = g, !.mixed = x]
  <2>2. g \in 0..Attempts /\ g <= job[j].tries + 1
    BY <1>1, <1>2, <1>9, XrayAssumption DEF Probe, JobOK, JobRecords, Counted
  <2>3. r \in JobRecords
    <3>1. "finally" \in Stages
      BY DEF Stages
    <3>2. x \in BOOLEAN
      OBVIOUS
    <3> HIDE DEF g, x
    <3> QED
      BY <1>2, <2>2, <3>1, <3>2, RecordKept
  <2>4. /\ r.at = "finally" /\ r.good = g /\ r.tries = job[j].tries
        /\ r.port = job[j].port /\ r.core = job[j].core /\ r.tmp = job[j].tmp /\ r.error = job[j].error
    BY <1>2 DEF JobRecords
  <2>5. JobOK(j, r)
    <3> HIDE DEF r, g
    <3> QED
      BY <1>1, <1>9, <2>2, <2>3, <2>4 DEF Probe, JobOK, Holds, Counted, Routed, ThroughXray, Running
  <2> QED
    BY <2>1, <2>5
<1>10. CASE Finally(j)
  <2>1. job[j].at = "finally" /\ UseXray(j)
    BY <1>1, <1>10 DEF Finally, JobOK, Routed, ThroughXray, Running
  <2> QED
    BY <1>10, <2>1, AttemptedOK DEF Finally
<1>11. CASE Raise(j)
  BY <1>11, RaisedOK DEF Raise
<1> QED
  BY <1>4, <1>5, <1>6, <1>7, <1>8, <1>9, <1>10, <1>11, <1>12 DEF JobStep

LEMMA KilledKeeps ==
  ASSUME CallsInv, job' = Killed, UNCHANGED <<path, mode>>, NEW j \in Jobs
  PROVE  JobOK(j, job[j])' /\ job'[j] \in JobRecords
<1>1. JobOK(j, job[j])
  BY DEF CallsInv, JobsInv
<1>2. \A r : JobOK(j, r)' = JobOK(j, r)
  BY DEF JobOK, Routed, UseXray
<1>3. job'[j] = IF job[j].core = "none" THEN job[j] ELSE [job[j] EXCEPT !.core = "gone"]
  BY DEF Killed
<1>4. CASE job[j].core = "none"
  BY <1>1, <1>2, <1>3, <1>4 DEF JobOK
<1>5. CASE job[j].core # "none"
  <2>1. job'[j] = [job[j] EXCEPT !.core = "gone"]
    BY <1>3, <1>5
  <2>2. JobOK(j, job'[j])
    BY <1>1, <1>5, <2>1 DEF JobOK, JobRecords, Holds, Counted, Routed
  <2> QED
    BY <1>2, <2>2 DEF JobOK
<1> QED
  BY <1>4, <1>5

LEMMA StepCalls == TypeOK /\ CallsInv /\ [Next]_vars => TypeOK' /\ CallsInv'
<1> SUFFICES ASSUME TypeOK, CallsInv, [Next]_vars PROVE TypeOK' /\ CallsInv'
  OBVIOUS
<1>1. CASE Launch
  <2>1. CallsInv' /\ job' \in [Jobs -> JobRecords]
    BY <1>1, RestartKeeps DEF Launch
  <2>2. launches' \in 0..MaxLaunches /\ cleanups' \in 0..MaxCleanups
    BY <1>1, XrayAssumption DEF Launch, TypeOK
  <2> QED
    BY <1>1, <2>1, <2>2 DEF Launch, TypeOK, JobRecords, fileVars
<1>2. CASE Cleanup \/ Close
  <2>1. UNCHANGED <<again, path, file, zip, front, mode, launches, host, nature>> /\ job' = Killed
    BY <1>2 DEF Cleanup, Close, fileVars, fixedVars
  <2>2. main = "test" /\ main' \in {"test", "closing"}
    BY <1>2 DEF Cleanup, Close
  <2>3. \A j \in Jobs : JobOK(j, job[j])' /\ job'[j] \in JobRecords
    BY <2>1, KilledKeeps
  <2>4. job' \in [Jobs -> JobRecords]
    BY <2>1, <2>3 DEF Killed
  <2>5. QuietInv'
    BY <2>2 DEF QuietInv
  <2>6. cleanups' \in 0..MaxCleanups
    BY <1>2, XrayAssumption DEF Cleanup, Close, TypeOK
  <2> QED
    BY <2>1, <2>2, <2>3, <2>4, <2>5, <2>6 DEF TypeOK, JobRecords, CallsInv, JobsInv
<1>3. CASE Crash
  <2>1. CallsInv' /\ job' \in [Jobs -> JobRecords]
    BY <1>3, RestartKeeps DEF Crash
  <2> QED
    BY <1>3, <2>1 DEF Crash, TypeOK, JobRecords, Ended, fileVars, fixedVars
<1>4. CASE MainStep
  BY <1>4, StepMain
<1>5. ASSUME NEW j \in Jobs, JobStep(j) PROVE TypeOK' /\ CallsInv'
  BY <1>5, StepJob
<1>6. ASSUME NEW j \in Jobs, Listen(j) PROVE TypeOK' /\ CallsInv'
  <2>1. JobOK(j, job[j]) /\ main \in {"test", "closing"}
    BY <1>6 DEF CallsInv, JobsInv, Listen, Testing
  <2>2. PICK c \in {"serving", "gone"} : Goes(j, [job[j] EXCEPT !.core = c])
    BY <1>6 DEF Listen
  <2>3. JobOK(j, [job[j] EXCEPT !.core = c])
    BY <1>6, <2>1 DEF Listen, JobOK, JobRecords, Holds, Counted, Routed
  <2> QED
    BY <2>1, <2>2, <2>3, GoesKeeps
<1>7. CASE UNCHANGED vars
  BY <1>7 DEF vars, fileVars, fixedVars, TypeOK, CallsInv, JobsInv, QuietInv, JobOK, Routed, UseXray
<1> QED
  BY <1>1, <1>2, <1>3, <1>4, <1>5, <1>6, <1>7 DEF Next

-----------------------------------------------------------------------------
(* A complete binary is at no place when a download begins, and what the    *)
(* copy overwrites is the file it has truncated.                            *)
LEMMA StepFiles ==
  TypeOK /\ FilesInv /\ [Next]_vars
    => FilesInv' /\ (\A p \in Places : file[p] = "whole" => file'[p] = "whole")
<1> SUFFICES ASSUME TypeOK, FilesInv, [Next]_vars
             PROVE  FilesInv' /\ (\A p \in Places : file[p] = "whole" => file'[p] = "whole")
  OBVIOUS
<1> DEFINE Goal == FilesInv' /\ (\A p \in Places : file[p] = "whole" => file'[p] = "whole")
<1>1. ASSUME UNCHANGED file, main' = main \/ main' \notin {"asset", "download", "extract", "copy"} PROVE Goal
  BY <1>1 DEF FilesInv, Existing
<1>2. ASSUME UNCHANGED file, NEW p, Ensured(p) PROVE Goal
  BY <1>1, <1>2 DEF Ensured
<1>3. CASE MainStep
  <2>1. CASE Find
    BY <1>1, <1>2, <2>1 DEF Find, fileVars, FilesInv, Existing
  <2>2. CASE Asset \/ Download
    BY <1>2, <2>2 DEF Asset, Download, FilesInv, Existing
  <2>3. CASE ExtractBegins
    <3>1. CASE file' = [file EXCEPT !["configured"] = "partial"] /\ main' = "copy"
      <4>1. "configured" \in Places /\ Existing = {}
        BY <2>3 DEF ExtractBegins, FilesInv, Places
      <4>2. \A p \in Places : file[p] = "absent"
        BY <4>1 DEF Existing
      <4> QED
        BY <3>1, <4>1, <4>2 DEF FilesInv, TypeOK
    <3> QED
      BY <1>2, <2>3, <3>1 DEF ExtractBegins
  <2>4. CASE ExtractEnds
    <3>1. ASSUME file' = [file EXCEPT !["configured"] = zip], Ensured("configured") PROVE Goal
      <4>1. file["configured"] # "whole"
        BY <2>4 DEF ExtractEnds, FilesInv
      <4>2. main' \notin {"asset", "download", "extract", "copy"}
        BY <3>1 DEF Ensured
      <4> QED
        BY <3>1, <4>1, <4>2 DEF FilesInv, TypeOK
    <3> QED
      BY <1>2, <2>4, <3>1 DEF ExtractEnds, fileVars
  <2>5. CASE Collected \/ Closed
    BY <1>1, <2>5 DEF Collected, Closed, fileVars
  <2> QED
    BY <1>3, <2>1, <2>2, <2>3, <2>4, <2>5 DEF MainStep
<1>4. CASE Launch \/ Cleanup \/ Close \/ Crash
  BY <1>1, <1>4 DEF Launch, Cleanup, Close, Crash, fileVars
<1>5. ASSUME NEW j \in Jobs, JobStep(j) \/ Listen(j) PROVE Goal
  <2>1. UNCHANGED <<file, main>>
    BY <1>5 DEF JobStep, Listen, Begin, Direct, TakePort, WriteConfig, Spawn, PortOpen, PortClosed, Probe, Finally, Raise, Goes, fileVars
  <2> QED
    BY <1>1, <2>1
<1>6. CASE UNCHANGED vars
  BY <1>1, <1>6 DEF vars, fileVars
<1> QED
  BY <1>3, <1>4, <1>5, <1>6 DEF Next

-----------------------------------------------------------------------------
(* What a sample of an unmixed call claims.                                 *)
Real(j) ==
  Reaches(j) /\ (Kind[j] = "v2ray" /\ (UseXray(j) \/ mode = "xray") => nature[j] = "tunnel")

LEMMA RealDef == GoodIsReal <=> \A j \in Jobs : job[j].good > 0 /\ ~job[j].mixed => Real(j)
BY DEF GoodIsReal, Real

(* A step that leaves every call as it was, or begins it anew, and changes  *)
(* neither the mode nor the path under one that has a sample.               *)
LEMMA QuietKeeps ==
  ASSUME GoodIsReal, UNCHANGED nature,
         \/ job' = [j \in Jobs |-> Fresh]
         \/ job' = job /\ (UNCHANGED <<mode, path>> \/ \A j \in Jobs : job[j] = Fresh)
  PROVE  GoodIsReal'
<1>1. Fresh.good = 0
  BY DEF Fresh
<1>2. CASE job' = [j \in Jobs |-> Fresh]
  BY <1>1, <1>2 DEF GoodIsReal
<1>3. CASE job' = job /\ UNCHANGED <<mode, path>>
  BY <1>3 DEF GoodIsReal, Reaches, UseXray
<1>4. CASE job' = job /\ \A j \in Jobs : job[j] = Fresh
  BY <1>1, <1>4 DEF GoodIsReal
<1> QED
  BY <1>2, <1>3, <1>4

(* A step of one call: it takes no sample, or a real one, or the call is    *)
(* mixed from then on.                                                      *)
LEMMA RecordKeeps ==
  ASSUME TypeOK, GoodIsReal, NEW j \in Jobs, NEW r, Goes(j, r),
         job[j].mixed => r.mixed,
         r.good <= job[j].good \/ r.mixed \/ Real(j),
         r.good \in Nat
  PROVE  GoodIsReal'
<1>1. UNCHANGED <<mode, path, nature>>
  BY DEF Goes, fixedVars
<1>2. \A k \in Jobs : job'[k] = IF k = j THEN r ELSE job[k]
  BY DEF Goes, TypeOK
<1>3. job[j].good \in Nat
  BY DEF TypeOK
<1>4. \A k \in Jobs : Real(k)' = Real(k)
  BY <1>1 DEF Real, Reaches, UseXray
<1>5. r.good > 0 /\ ~r.mixed => Real(j)
  <2>1. CASE r.good <= job[j].good
    BY <1>3, <2>1, RealDef
  <2> QED
    BY <2>1
<1>6. \A k \in Jobs : job'[k].good > 0 /\ ~job'[k].mixed => Real(k)
  BY <1>2, <1>5, RealDef
<1> QED
  BY <1>4, <1>6 DEF GoodIsReal, Real

LEMMA StepGood == ASSUME TypeOK, CallsInv, GoodIsReal, [Next]_vars PROVE GoodIsReal'
<1> USE DEF In
<1>1. CASE Launch \/ Crash
  BY <1>1, QuietKeeps DEF Launch, Crash, fixedVars
<1>2. CASE Cleanup \/ Close
  <2>1. UNCHANGED <<mode, path, nature>> /\ job' = Killed
    BY <1>2 DEF Cleanup, Close, fixedVars
  <2>2. \A j \in Jobs : job'[j].good = job[j].good /\ job'[j].mixed = job[j].mixed
    BY <2>1 DEF Killed, TypeOK
  <2> QED
    BY <2>1, <2>2 DEF GoodIsReal, Reaches, UseXray
<1>3. CASE MainStep
  <2>1. UNCHANGED <<job, mode, nature>>
    BY <1>3 DEF MainStep, Find, Asset, Download, ExtractBegins, ExtractEnds, Collected, Closed, Ensured, fixedVars
  <2>2. CASE Collected \/ Closed
    BY <2>1, <2>2, QuietKeeps DEF Collected, Closed
  <2>3. CASE ~(Collected \/ Closed)
    <3>1. main \in {"find", "asset", "download", "extract", "copy"}
      BY <1>3, <2>3 DEF MainStep, Find, Asset, Download, ExtractBegins, ExtractEnds
    <3> QED
      BY <2>1, <3>1, QuietKeeps DEF CallsInv, QuietInv
  <2> QED
    BY <2>2, <2>3
<1>4. ASSUME NEW j \in Jobs, JobStep(j) PROVE GoodIsReal'
  <2>1. /\ JobOK(j, job[j]) /\ job[j] \in JobRecords /\ job[j].good \in Nat /\ job[j].tries \in Nat
        /\ job[j].mixed \in BOOLEAN
    BY DEF CallsInv, JobsInv, JobOK, JobRecords
  <2>2. ASSUME NEW r, Goes(j, r), r.good = job[j].good, r.mixed = job[j].mixed PROVE GoodIsReal'
    BY <2>1, <2>2, RecordKeeps
  <2>3. ASSUME NEW e, Goes(j, Raised(j, e)) \/ Goes(j, [Raised(j, e) EXCEPT !.tmp = TRUE]) PROVE GoodIsReal'
    <3> DEFINE q == Raised(j, e)
               d == [Raised(j, e) EXCEPT !.tmp = TRUE]
    <3>1. q.good = job[j].good /\ q.mixed = job[j].mixed /\ d.good = job[j].good /\ d.mixed = job[j].mixed
      BY DEF Raised, Fresh
    <3>2. Goes(j, q) \/ Goes(j, d)
      BY <2>3
    <3> HIDE DEF q, d
    <3> QED
      BY <2>2, <3>1, <3>2
  <2>4. ASSUME NEW at, NEW port, NEW core, NEW tmp,
               \/ Goes(j, [job[j] EXCEPT !.at = at, !.port = port])
               \/ Goes(j, [job[j] EXCEPT !.at = at, !.tmp = tmp])
               \/ Goes(j, [job[j] EXCEPT !.at = at, !.core = core])
               \/ Goes(j, [job[j] EXCEPT !.at = at])
        PROVE  GoodIsReal'
    <3> DEFINE q1 == [job[j] EXCEPT !.at = at, !.port = port]
               q2 == [job[j] EXCEPT !.at = at, !.tmp = tmp]
               q3 == [job[j] EXCEPT !.at = at, !.core = core]
               q4 == [job[j] EXCEPT !.at = at]
    <3>1. /\ q1.good = job[j].good /\ q1.mixed = job[j].mixed
          /\ q2.good = job[j].good /\ q2.mixed = job[j].mixed
          /\ q3.good = job[j].good /\ q3.mixed = job[j].mixed
          /\ q4.good = job[j].good /\ q4.mixed = job[j].mixed
      BY <2>1 DEF JobRecords
    <3>2. Goes(j, q1) \/ Goes(j, q2) \/ Goes(j, q3) \/ Goes(j, q4)
      BY <2>4
    <3> HIDE DEF q1, q2, q3, q4
    <3> QED
      BY <2>2, <3>1, <3>2
  <2>5. CASE Begin(j) \/ Spawn(j) \/ PortOpen(j) \/ PortClosed(j)
    BY <2>4, <2>5 DEF Begin, Spawn, PortOpen, PortClosed
  <2>6. CASE TakePort(j)
    BY <2>3, <2>4, <2>6 DEF TakePort
  <2>7. CASE WriteConfig(j)
    BY <2>3, <2>4, <2>7 DEF WriteConfig
  <2>8. CASE Raise(j)
    BY <2>3, <2>8 DEF Raise
  <2>9. CASE Direct(j)
    <3>1. PICK s \in {FALSE, Reaches(j)} : Goes(j, Attempted(j, s))
      BY <2>9 DEF Direct
    <3>2. s \in BOOLEAN /\ (s => Reaches(j))
      BY <3>1, ReachesType
    <3>3. /\ Attempted(j, s).good = job[j].good + (IF s THEN 1 ELSE 0)
          /\ Attempted(j, s).mixed = job[j].mixed
      BY DEF Attempted, Fresh
    <3>4. ~(Kind[j] = "v2ray" /\ (UseXray(j) \/ mode = "xray"))
      BY <2>1, <2>9 DEF Direct, JobOK, Routed
    <3>5. s => Real(j)
      BY <3>2, <3>4 DEF Real
    <3>6. s \/ Attempted(j, s).good <= job[j].good
      BY <2>1, <3>2, <3>3
    <3>7. Attempted(j, s).good \in Nat
      BY <2>1, <3>3
    <3> HIDE DEF Attempted
    <3> QED
      BY <3>1, <3>3, <3>5, <3>6, <3>7, RecordKeeps
  <2>10. CASE Probe(j)
    <3> DEFINE Through == \E k \in Jobs : /\ job[k].core = "serving" /\ job[k].port = job[j].port
                                          /\ nature[k] = "tunnel"
               Other == \E k \in Jobs \ {j} : job[k].port = job[j].port
    <3> DEFINE r(s) == [job[j] EXCEPT !.at = "finally", !.good = job[j].good + (IF s THEN 1 ELSE 0),
                                      !.mixed = job[j].mixed \/ (s /\ Other)]
    <3>1. PICK s \in {FALSE, Through} : Goes(j, r(s))
      BY <2>10 DEF Probe
    <3>2. UseXray(j)
      BY <2>1, <2>10 DEF Probe, JobOK, Routed, ThroughXray, Running
    <3>3. Through => Other \/ nature[j] = "tunnel"
      OBVIOUS
    <3>4. nature[j] = "tunnel" => Real(j)
      BY <3>2, XrayAssumption DEF UseXray, Reaches, Real
    <3>5. /\ r(s).good = job[j].good + (IF s THEN 1 ELSE 0)
          /\ r(s).mixed = (job[j].mixed \/ (s /\ Other))
      BY <2>1 DEF JobRecords
    <3> HIDE DEF r, Through
    <3>6. s => r(s).mixed \/ Real(j)
      BY <3>1, <3>3, <3>4, <3>5
    <3>7. s \/ r(s).good <= job[j].good
      BY <2>1, <3>1, <3>5
    <3>8. r(s).good \in Nat
      BY <2>1, <3>5
    <3>9. job[j].mixed => r(s).mixed
      BY <3>5
    <3> QED
      BY <3>1, <3>6, <3>7, <3>8, <3>9, RecordKeeps
  <2>11. CASE Finally(j)
    <3> DEFINE r == Attempted(j, FALSE)
    <3>1. Goes(j, r)
      BY <2>11 DEF Finally
    <3>2. r.good = job[j].good /\ r.mixed = job[j].mixed
      BY <2>1 DEF Attempted, Fresh
    <3> HIDE DEF r
    <3> QED
      BY <2>2, <3>1, <3>2
  <2> QED
    BY <1>4, <2>5, <2>6, <2>7, <2>8, <2>9, <2>10, <2>11 DEF JobStep
<1>5. ASSUME NEW j \in Jobs, Listen(j) PROVE GoodIsReal'
  <2>1. job[j] \in JobRecords
    BY DEF TypeOK, JobRecords
  <2>2. PICK r : Goes(j, r) /\ r.good = job[j].good /\ r.mixed = job[j].mixed
    BY <1>5, <2>1 DEF Listen, JobRecords
  <2>3. job[j].good \in Nat
    BY <2>1 DEF JobRecords
  <2> QED
    BY <2>2, <2>3, RecordKeeps
<1>6. CASE UNCHANGED vars
  BY <1>6, QuietKeeps DEF vars, fixedVars
<1> QED
  BY <1>1, <1>2, <1>3, <1>4, <1>5, <1>6 DEF Next

-----------------------------------------------------------------------------
\* Every variable keeps its type: among others no call makes more attempts than
\* PING_ATTEMPTS or counts more samples than attempts (engine.py repeated_test).
THEOREM AlwaysTyped == Spec => []TypeOK
BY InitTypeOK, InitCalls, StepCalls, PTL DEF Spec

\* When the tests have ended, whatever was raised and whatever cleanup came in
\* between, that of a closing window included, no core of theirs runs, and a configuration is left on disk only
\* where json.dump raised before the finally knew the file (engine.py:1542).
THEOREM NothingLeft == Spec => []NoneLeft
<1>1. CallsInv => NoneLeft
  BY DEF CallsInv, QuietInv, JobsInv, JobOK, JobRecords, Holds, NoneLeft, ThroughXray, Running
<1> QED
  BY <1>1, InitTypeOK, InitCalls, StepCalls, PTL DEF Spec

\* A complete binary is never overwritten, removed or damaged, by any sequence
\* of calls of ensure_xray_binary, crashes and starts.
THEOREM BinaryStays == Spec => CoreKept
<1>1. Init => FilesInv
  BY DEF Init, FilesInv
<1>2. TypeOK /\ FilesInv /\ [Next]_vars
        => FilesInv' /\ [\A p \in Places : file[p] = "whole" => file'[p] = "whole"]_vars
  BY StepFiles
<1> QED
  BY <1>1, <1>2, InitTypeOK, StepCalls, InitCalls, PTL DEF Spec, CoreKept

\* A counted sample is what its tester claims, from a server that relays or a
\* direct check that reached it, although any port may be handed out again before
\* a core binds it: only a call that took a sample while another call held its
\* port (the race of free_port, engine.py:1343) may have measured the other's.
THEOREM SamplesAreReal == Spec => []GoodIsReal
<1>1. Init => GoodIsReal
  BY DEF Init, Fresh, GoodIsReal
<1>2. TypeOK /\ CallsInv /\ GoodIsReal /\ [Next]_vars => GoodIsReal'
  BY StepGood
<1> QED
  BY <1>1, <1>2, InitTypeOK, InitCalls, StepCalls, PTL DEF Spec
=============================================================================
