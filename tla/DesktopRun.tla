----------------------------- MODULE DesktopRun -----------------------------
(***************************************************************************)
(* The operations of MainWindow: collect, test, stop, save, publish, and    *)
(* the output files they share.  The handlers run on the user-interface     *)
(* thread and give way to each other at every await; ChannelCollector runs  *)
(* on pool threads; what TestAsync returns is any verdict on the collected  *)
(* links.  Nothing but the buttons keeps operations apart, and the Publish  *)
(* button and the settings are usable during every operation.               *)
(***************************************************************************)
EXTENDS ChannelCollector

CONSTANTS
  Proxies,      \* the links that are Telegram proxies
  Saved,        \* the settings the program may start with
  Torn,         \* what a file holds while it is being written
  MaxTests,     \* bound: tests that produce results
  Changeable,   \* bound: the controls the user changes
  MaxChanges,   \* bound: how often the user changes a control
  MaxExits      \* bound: how often the program ends

\* What one output file holds once it is written.
Contents == [test : Nat, links : SUBSET Links]

ASSUME DesktopAssumption ==
  /\ Saved \subseteq [configs : BOOLEAN, proxies : BOOLEAN, token : BOOLEAN]
  /\ Torn \notin Contents
  /\ Changeable \subseteq {"configs", "proxies", "token"}

VARIABLES
  op,         \* what _operation is doing
  controls,   \* the values on the settings page
  changes,    \* how often the user changed one
  settings,   \* _settings, and settings.json
  collected,  \* _collected
  results,    \* _results: the links tested and those found alive
  test,       \* number of the last test that produced results
  options,    \* the output options of the current WriteAsync
  file,       \* how many of its files WriteAsync has finished
  disk,       \* the output files
  shown,      \* ConfigOutput and ProxyOutput
  given,      \* what the end of a test gave to the publisher
  exits,      \* how often the program ended
  interrupted \* the last write was cut short by the end of the program

userVars == <<controls, changes, settings, exits, interrupted>>
callVars == <<options, file, given>>
deskVars == <<op, userVars, collected, results, test, callVars, disk, shown>>
vars == <<collectVars, deskVars>>

-----------------------------------------------------------------------------
(* WriteAsync writes seven files one after another: sub.txt, proxy.txt and  *)
(* five more, which "report" stands for.                                    *)
Names == <<"sub", "proxy", "report">>
Files == {Names[i] : i \in DOMAIN Names}

\* settings.json unreadable: the default settings.
Defaults == [configs |-> TRUE, proxies |-> TRUE, token |-> FALSE]
Settings == [configs : BOOLEAN, proxies : BOOLEAN, token : BOOLEAN]
NoResults == [tested |-> {}, alive |-> {}]
NoPair == [sub |-> Torn, proxy |-> Torn]

\* The kinds of links the settings s ask for.
Wanted(s) == {k \in Links : IF k \in Proxies THEN s.proxies ELSE s.configs}

\* Mutant: the proxies are left in the list of configurations.
ContentMixed(f) ==
  [test |-> test,
   links |-> CASE f = "sub" -> results.alive \cap Wanted(options)
               [] f = "proxy" -> results.alive \cap Wanted(options) \cap Proxies
               [] f = "report" -> results.tested]

\* What one file holds for the last test under the options of the write.
Content(f) ==
  [test |-> test,
   links |-> CASE f = "sub" -> (results.alive \cap Wanted(options)) \ Proxies
               [] f = "proxy" -> results.alive \cap Wanted(options) \cap Proxies
               [] f = "report" -> results.tested]

Outputs == [sub |-> disk["sub"], proxy |-> disk["proxy"]]

Init ==
  /\ CollectInit
  /\ op = "none"
  /\ settings \in Saved
  /\ controls = settings /\ changes = 0
  /\ collected = {} /\ results = NoResults
  /\ test = 0 /\ options = Defaults /\ file = 0
  /\ disk = [f \in Files |-> [test |-> 0, links |-> {}]]
  /\ shown = Outputs
  /\ given = NoPair
  /\ exits = 0 /\ interrupted = FALSE

Up == op # "closed"

\* EndOperation: the locals of the handler and of its calls are gone.
EndOperation(next) ==
  /\ op' = next
  /\ Fresh("idle")
  /\ options' = Defaults /\ file' = 0 /\ given' = NoPair

-----------------------------------------------------------------------------
\* The user changes a control of the settings page.
Change(field) ==
  /\ Up /\ changes < MaxChanges
  /\ controls' = [controls EXCEPT ![field] = ~@] /\ changes' = changes + 1
  /\ UNCHANGED <<collectVars, op, settings, exits, interrupted, collected,
                 results, test, callVars, disk, shown>>

(* SaveState alone: the Save button, a click that is refused after it, the  *)
(* beginning of a publication and its end when it succeeds.  Connect and    *)
(* Publish hand over the files as they are at that moment.                  *)
Save ==
  /\ Up /\ settings' = controls
  /\ UNCHANGED <<collectVars, op, controls, changes, exits, interrupted,
                 collected, results, test, callVars, disk, shown>>

\* Collect_Click up to its await.
Collect ==
  /\ op = "none"
  /\ settings' = controls /\ (controls.configs \/ controls.proxies)
  /\ op' = "collect" /\ collected' = {} /\ results' = NoResults
  /\ Fresh("fetching")
  /\ UNCHANGED <<controls, changes, exits, interrupted, test, callVars, disk,
                 shown>>

Collecting ==
  /\ op = "collect" /\ CollectStep
  /\ UNCHANGED deskVars

\* The continuation of the await: the settings of that moment select.
Collected ==
  /\ op = "collect" /\ phase = "returned"
  /\ collected' = Found \cap Wanted(settings)
  /\ EndOperation("none")
  /\ UNCHANGED <<userVars, results, test, disk, shown>>

\* OperationCanceledException: _collected stays empty.
CollectStopped ==
  /\ op = "collect" /\ phase = "cancelled"
  /\ EndOperation("none")
  /\ UNCHANGED <<userVars, collected, results, test, disk, shown>>

\* Test_Click up to its await.
Test ==
  /\ op = "none" /\ collected # {} /\ test < MaxTests
  /\ settings' = controls
  /\ op' = "test"
  /\ UNCHANGED <<collectVars, controls, changes, exits, interrupted, collected,
                 results, test, callVars, disk, shown>>

(* TestAsync returned a result for every collected link (OneResultEach of   *)
(* LatencyBatch), perhaps after Stop.  The finally block sorts them and     *)
(* WriteAsync begins with the settings of this moment.                      *)
TestReturns(A) ==
  /\ op = "test"
  /\ results' = [tested |-> collected, alive |-> A]
  /\ test' = test + 1
  /\ options' = settings
  /\ op' = "write"
  /\ UNCHANGED <<collectVars, userVars, collected, file, disk, shown, given>>

\* TestAsync threw because of Stop: nothing is written.
TestStopped ==
  /\ op = "test" /\ stop
  /\ EndOperation("none")
  /\ UNCHANGED <<userVars, collected, results, test, disk, shown>>

-----------------------------------------------------------------------------
Writing(f) == op = "write" /\ file < Len(Names) /\ f = Names[file + 1]

\* WriteAllTextAsync opens the next file, which empties it, ...
OpenFile(f) ==
  /\ Writing(f) /\ disk[f] # Torn
  /\ disk' = [disk EXCEPT ![f] = Torn]
  /\ UNCHANGED <<collectVars, userVars, op, collected, results, test, callVars,
                 shown>>

\* Mutant: the files are filled with the kinds the settings ask for by now.
FillFileLate(f) ==
  /\ Writing(f) /\ disk[f] = Torn
  /\ disk' = [disk EXCEPT ![f] =
                [Content(f) EXCEPT !.links = @ \cap Wanted(settings)]]
  /\ file' = file + 1
  /\ UNCHANGED <<collectVars, userVars, op, collected, results, test, options,
                 given, shown>>

\* ... and fills it with the text made before the first file was opened.
FillFile(f) ==
  /\ Writing(f) /\ disk[f] = Torn
  /\ disk' = [disk EXCEPT ![f] = Content(f)]
  /\ file' = file + 1
  /\ UNCHANGED <<collectVars, userVars, op, collected, results, test, options,
                 given, shown>>

\* PublishSubscriptionAsync(false) saves the settings, looks at the token
\* again and reads both files; without a token the operation ends.
AutoPublish ==
  /\ settings' = controls
  /\ \/ /\ controls.token
        /\ given' = Outputs
        /\ op' = "publish"
        /\ UNCHANGED <<collectVars, options, file>>
     \/ ~controls.token /\ EndOperation("none")

\* Mutant: the last file is not awaited.
WriteEndsUnawaited ==
  /\ op = "write" /\ file + 1 >= Len(Names)
  /\ shown' = Outputs /\ interrupted' = FALSE
  /\ \/ settings.token /\ AutoPublish
     \/ ~settings.token /\ EndOperation("none") /\ UNCHANGED settings
  /\ UNCHANGED <<controls, changes, exits, collected, results, test, disk>>

\* WriteOutputsAsync returned: RefreshOutputs, and with a token a publication.
WriteEnds ==
  /\ op = "write" /\ file = Len(Names)
  /\ shown' = Outputs /\ interrupted' = FALSE
  /\ \/ settings.token /\ AutoPublish
     \/ ~settings.token /\ EndOperation("none") /\ UNCHANGED settings
  /\ UNCHANGED <<controls, changes, exits, collected, results, test, disk>>

\* The publisher returned, which saves the settings, or threw.
AutoEnds ==
  /\ op = "publish"
  /\ settings' \in {settings, controls}
  /\ EndOperation("none")
  /\ UNCHANGED <<controls, changes, exits, interrupted, collected, results,
                 test, disk, shown>>

-----------------------------------------------------------------------------
\* Stop_Click: the token is cancelled, whatever the operation is doing.
Stop ==
  /\ op \notin {"none", "closed"} /\ ~stop
  /\ stop' = TRUE
  /\ UNCHANGED <<phase, taken, body, looked, count, owner, completed, deskVars>>

\* The page of the configurations or of the proxies is opened.
ShowOutputs ==
  /\ Up /\ shown' = Outputs
  /\ UNCHANGED <<collectVars, op, userVars, collected, results, test, callVars,
                 disk>>

(* The program ends: the window is closed, which saves the settings, the    *)
(* process is killed, perhaps during the write of settings.json, or a file  *)
(* cannot be written or read and the exception leaves an async void handler.*)
Exit ==
  /\ Up /\ exits < MaxExits
  /\ exits' = exits + 1
  /\ interrupted' = IF op = "write" THEN file < Len(Names) ELSE interrupted
  /\ settings' \in {settings, controls, Defaults}
  /\ EndOperation("closed")
  /\ collected' = {} /\ results' = NoResults
  /\ UNCHANGED <<controls, changes, test, disk, shown>>

\* The program starts again: LoadState.
Start ==
  /\ op = "closed"
  /\ op' = "none"
  /\ controls' = settings
  /\ shown' = Outputs
  /\ UNCHANGED <<collectVars, changes, settings, exits, interrupted, collected,
                 results, test, callVars, disk>>

Step ==
  \/ Collecting \/ Collected \/ CollectStopped
  \/ \E A \in SUBSET collected : TestReturns(A)
  \/ TestStopped
  \/ \E f \in Files : OpenFile(f) \/ FillFile(f)
  \/ WriteEnds \/ AutoEnds

User ==
  \/ \E field \in Changeable : Change(field)
  \/ Save \/ Collect \/ Test \/ Stop \/ ShowOutputs \/ Exit \/ Start

Next == Step \/ User

Spec == Init /\ [][Next]_vars

(* Every await of an operation is bounded: a preview request by 15 seconds, *)
(* TestAsync by TestEnds of LatencyBatch, the publisher by CallsEnd of      *)
(* SubscriptionPublish.                                                     *)
FairSpec == Spec /\ WF_vars(Step)

-----------------------------------------------------------------------------
\* Every variable has its type, and each file holds links of its own kind.
TypeOK ==
  /\ op \in {"none", "collect", "test", "write", "publish", "closed"}
  /\ {controls, settings, options} \subseteq Settings
  /\ collected \subseteq Links
  /\ results.tested \subseteq Links /\ results.alive \subseteq results.tested
  /\ {changes, test, file, exits} \subseteq Nat /\ interrupted \in BOOLEAN
  /\ \A f \in Files :
       disk[f] # Torn =>
         /\ disk[f].test \in 0..test
         /\ disk[f].links \subseteq
              CASE f = "sub" -> Links \ Proxies
                [] f = "proxy" -> Links \cap Proxies
                [] f = "report" -> Links
  /\ phase \in {"idle", "fetching", "returned", "cancelled"}
  /\ stop \in BOOLEAN /\ taken \in 0..Len(Lines)
  /\ body \in [Channels -> {"waiting", "first", "second", "parsing", "done"}]
  /\ looked \in [Channels -> Nat] /\ count \in [Channels -> Nat]
  /\ owner \in [Links -> Channels \cup {Invalid}] /\ completed \in Nat

(* The output files belong to the last test whenever none is being written, *)
(* unless the program ended in the middle of that write, and the next write *)
(* repairs even that: an operation that starts, stops or fails never leaves *)
(* files of two tests (ReportWriter.cs:29).  And at any moment, during a    *)
(* write and after one that was cut short, no file is of an older test than *)
(* one written after it: whoever reads the pair then (the output pages, the *)
(* Publish button, MainWindow.axaml.cs:118) may find an older proxy.txt or  *)
(* an empty file, and never a proxy.txt that is newer than sub.txt.         *)
Whole == \A f \in Files : disk[f] # Torn /\ disk[f].test = test
InOrder ==
  \A i, j \in DOMAIN Names :
    i < j /\ disk[Names[i]] # Torn /\ disk[Names[j]] # Torn =>
      disk[Names[i]].test >= disk[Names[j]].test
FilesAgree == (op # "write" /\ ~interrupted => Whole) /\ InOrder

(* The automatic publication hands over both files of the test that has     *)
(* just finished, under the options the write began with, whatever the user *)
(* changed and saved in the meantime (MainWindow.axaml.cs:97-99).           *)
GivenIsTest ==
  op = "publish" => given = [sub |-> Content("sub"), proxy |-> Content("proxy")]

\* Every operation ends, stopped or not: the buttons come back.
OperationsEnd == op \notin {"none", "closed"} ~> op \in {"none", "closed"}

(* MainWindow.axaml.cs:75 says that the completely received data were kept: *)
(* a stopped collection leaves the links of the finished channels in        *)
(* _collected.                                                              *)
KeptOnStop ==
  [][op = "collect" /\ phase = "cancelled" /\ op' = "none" =>
       {k \in Found : body[owner[k]] = "done"} \cap Wanted(settings)
         \subseteq collected']_vars
=============================================================================
