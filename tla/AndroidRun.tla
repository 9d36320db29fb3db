------------------------------ MODULE AndroidRun ------------------------------
(***************************************************************************)
(* The Android application, MainActivity.kt: a screen with its remembered   *)
(* state, the coroutine that collects or tests, its child tasks on IO       *)
(* threads behind a semaphore, and the output files.  When the activity is  *)
(* recreated (a rotation) the screen and its scope are gone, but calls that *)
(* block an IO thread still go on.                                          *)
(***************************************************************************)
EXTENDS Integers, Sequences, FiniteSets

CONSTANTS
  Channels,       \* public names, in lower case
  Links,          \* links that parseCandidate accepts
  Junk,           \* a link that it rejects
  PageOf,         \* the matches in each channel's preview, in order
  KeyOf,          \* what links are merged by
  Proxies,        \* links of Telegram proxies
  Cored,          \* links with a configuration for the core (xrayJson)
  Behaviours,     \* how the servers of the links may behave
  DefaultSettings, DefaultLists,
  Numbers,        \* bound: what the user types into a number field
  Entries,        \* bound: what the user makes of a channel list
  MaxScreens,     \* bound: compositions of the screen
  MaxInputs,      \* bound: what the user does
  Torn, None      \* files that are being written, or not there

Settings ==
  [first : Int, second : Int, workers : Int, attempts : Int, min : Int,
   configs : BOOLEAN, proxies : BOOLEAN]

\* What sub.txt and proxy.txt hold together once both are written.
Outputs == [sub : SUBSET Links, proxy : SUBSET Links]

ASSUME AndroidAssumption ==
  /\ IsFiniteSet(Channels) /\ IsFiniteSet(Links) /\ {Torn, None} \cap Outputs = {}
  /\ PageOf \in [Channels -> Seq(Links \cup {Junk})] /\ Junk \notin Links
  /\ KeyOf \in [Links -> Links] /\ \A l \in Links : KeyOf[KeyOf[l]] = KeyOf[l]
  /\ Proxies \cup Cored \subseteq Links /\ Proxies \cap Cored = {}
  /\ Behaviours \subseteq [Links -> {"relays", "accepts", "dead"}]
  /\ DefaultSettings \in Settings /\ DefaultLists \in [{"p1", "p2"} -> SUBSET Channels]
  /\ Numbers \subseteq Int /\ Entries \subseteq SUBSET Channels
  /\ MaxScreens \in Nat \ {0} /\ MaxInputs \in Nat

VARIABLES
  screen,   \* the composition that is shown, counted from 1
  view,     \* its remembered state
  lists,    \* the two channel lists, which are saved with the activity
  op,       \* the coroutine that each composition launched last
  disk,     \* sub.txt and proxy.txt: the links they name, or Torn, or None
  nature,   \* how the server of each link behaves
  inputs

vars == <<screen, view, lists, op, disk, nature, inputs>>

Screens == 1..MaxScreens
Items == Channels \cup Links

FreshView ==
  [settings |-> DefaultSettings, collected |-> {}, results |-> {}, files |-> FALSE,
   status |-> "ready", progress |-> "none", busy |-> FALSE]

NoOp ==
  [kind |-> "none", began |-> FALSE, settings |-> DefaultSettings, first |-> {},
   stage |-> [x \in Items |-> "none"], looked |-> [c \in Channels |-> 0],
   number |-> [x \in Items |-> 0], done |-> 0, found |-> {}, verdict |-> {}]

Init ==
  /\ screen = 1 /\ view = FreshView /\ lists = DefaultLists
  /\ op = [s \in Screens |-> NoOp]
  /\ disk = None /\ nature \in Behaviours /\ inputs = 0

-----------------------------------------------------------------------------
\* The buttons of the dashboard.

Input == inputs < MaxInputs /\ inputs' = inputs + 1
SetsView(v) == view' = v /\ UNCHANGED <<screen, lists, disk, nature>>
Launches(kind) == op' = [op EXCEPT ![screen] = [NoOp EXCEPT !.kind = kind]]

Collect ==
  /\ ~view.busy /\ Input
  /\ SetsView([view EXCEPT !.busy = TRUE, !.collected = {}, !.results = {},
                           !.files = FALSE, !.progress = "none"])
  /\ Launches("collect")

\* The list of the last outputs stays.
Test ==
  /\ ~view.busy /\ view.collected # {} /\ Input
  /\ SetsView([view EXCEPT !.busy = TRUE, !.progress = "none", !.results = {}])
  /\ Launches("test")

Reset ==
  /\ ~view.busy /\ UNCHANGED op /\ Input
  /\ SetsView([FreshView EXCEPT !.settings = view.settings])

Least(a, b) == IF a < b THEN a ELSE b
Between(x, low, high) == IF x < low THEN low ELSE Least(x, high)

\* The settings page, which can be reached at any time.
Edited(s, n) ==
  {[s EXCEPT !.first = n], [s EXCEPT !.second = n], [s EXCEPT !.workers = n],
   [s EXCEPT !.attempts = n, !.min = Least(s.min, n)], [s EXCEPT !.min = Least(n, s.attempts)],
   [s EXCEPT !.configs = ~@], [s EXCEPT !.proxies = ~@]}

ChangeSettings ==
  /\ Input
  /\ \E n \in Numbers : \E s \in Edited(view.settings, n) : view' = [view EXCEPT !.settings = s]
  /\ UNCHANGED <<screen, lists, op, disk, nature>>

ChangeLists ==
  /\ Input
  /\ \E box \in {"p1", "p2"}, S \in Entries : lists' = [lists EXCEPT ![box] = S]
  /\ UNCHANGED <<screen, view, op, disk, nature>>

-----------------------------------------------------------------------------
\* The coroutine of composition s and its tasks.

Sets(s, o) == op' = [op EXCEPT ![s] = o] /\ UNCHANGED <<screen, lists, disk, nature, inputs>>
Stage(o, x, at) == [o EXCEPT !.stage[x] = at]
Tasks(o) == {x \in Items : o.stage[x] # "none"}

Filtered == {l \in view.collected : IF l \in Proxies THEN view.settings.proxies ELSE view.settings.configs}

\* The launched block is dispatched: it reads the state as it is then.
Begin(s) ==
  /\ op[s].kind # "none" /\ ~op[s].began /\ UNCHANGED view
  /\ LET items == IF op[s].kind = "collect" THEN lists.p1 \cup lists.p2 ELSE Filtered
     IN Sets(s, [op[s] EXCEPT !.began = TRUE, !.settings = view.settings, !.first = lists.p1,
                              !.stage = [x \in Items |-> IF x \in items THEN "waiting" ELSE "none"]])

\* Mutant: the permit is not given back.
InsideForGood(o) == {x \in Tasks(o) : o.stage[x] # "waiting"}

Inside(o) == {x \in Tasks(o) : o.stage[x] = "inside"}
Permits(o) == Between(o.settings.workers, 1, IF o.kind = "collect" THEN 24 ELSE 16)

\* Mutant: tasks start without a permit.
EnterUngated(s, x) ==
  op[s].stage[x] = "waiting" /\ Sets(s, Stage(op[s], x, "inside")) /\ UNCHANGED view

Enter(s, x) ==
  /\ op[s].stage[x] = "waiting" /\ Cardinality(Inside(op[s])) < Permits(op[s])
  /\ Sets(s, Stage(op[s], x, "inside")) /\ UNCHANGED view

\* withPermit returns; then the counter is incremented.
Counted(o, x) == [Stage(o, x, "counted") EXCEPT !.done = o.done + 1, !.number[x] = o.done + 1]

\* A channel of the first list has its limit; it is in the second no more.
Limit(o, c) == IF c \in o.first THEN o.settings.first ELSE o.settings.second

Merged(o, l) == IF \E k \in o.found : KeyOf[k] = KeyOf[l] THEN o ELSE [o EXCEPT !.found = @ \cup {l}]

\* The next match of a preview; the limit counts matches, also rejected ones.
AddLink(s, c) ==
  LET o == op[s]  n == o.looked[c] + 1 IN
  /\ o.kind = "collect" /\ o.stage[c] = "inside"
  /\ n <= Len(PageOf[c]) /\ n <= Limit(o, c)
  /\ LET l == PageOf[c][n]  looked == [o EXCEPT !.looked[c] = n]
     IN Sets(s, IF l = Junk THEN looked ELSE Merged(looked, l))
  /\ UNCHANGED view

\* No match is left; or the request failed, or a negative limit threw.
EndChannel(s, c) ==
  LET o == op[s] IN
  /\ o.kind = "collect" /\ o.stage[c] = "inside"
  /\ o.looked[c] = 0 \/ o.looked[c] = Len(PageOf[c]) \/ o.looked[c] >= Limit(o, c)
  /\ Sets(s, Counted(o, c)) /\ UNCHANGED view

\* testCandidate: through the core where there is a configuration, else TCP.
Reaches(l) == nature[l] = "relays" \/ (l \notin Cored /\ nature[l] = "accepts")
Attempts(st) == Between(st.attempts, 1, 5)
Required(st) == Between(st.min, 1, IF st.attempts < 1 THEN 1 ELSE st.attempts)
Samples(l, st) == IF Reaches(l) THEN 0..Attempts(st) ELSE {0}

EndTest(s, l) ==
  LET o == op[s] IN
  /\ o.kind = "test" /\ o.stage[l] = "inside"
  /\ \E n \in Samples(l, o.settings) :
       Sets(s, [Counted(o, l) EXCEPT !.verdict = @ \cup {[link |-> l, ok |-> n >= Required(o.settings)]}])
  /\ UNCHANGED view

\* update of a task, on its IO thread: another task may have counted since.
Update(s, x) ==
  LET o == op[s] IN
  /\ o.stage[x] = "counted"
  /\ Sets(s, Stage(o, x, "done"))
  /\ view' = IF s # screen THEN view
             ELSE [view EXCEPT !.status = IF o.kind = "collect" THEN "collecting" ELSE "testing",
                               !.progress = IF o.number[x] = Cardinality(Tasks(o)) THEN "full" ELSE "part"]

\* awaitAll and the end of the coroutine scope.
Over(o) == o.began /\ \A x \in Tasks(o) : o.stage[x] \in {"done", "cancelled"}

EndCollect(s) ==
  /\ op[s].kind = "collect" /\ Over(op[s]) /\ s = screen /\ UNCHANGED inputs
  /\ SetsView([view EXCEPT !.collected = op[s].found, !.status = "disconnect",
                           !.progress = "full", !.busy = FALSE])
  /\ op' = [op EXCEPT ![s] = NoOp]

Good(rs) == {r.link : r \in {x \in rs : x.ok}}
Written(rs) == [sub |-> Good(rs) \ Proxies, proxy |-> Good(rs) \cap Proxies]

\* Mutant: the last update is taken for the largest one.
FinishAsUpdated(s) ==
  /\ view' = [view EXCEPT !.results = op[s].verdict, !.files = TRUE, !.status = "finished", !.busy = FALSE]
  /\ disk' = Written(op[s].verdict)
  /\ op' = [op EXCEPT ![s] = NoOp]
  /\ UNCHANGED <<screen, lists, nature, inputs>>

\* onSuccess of a test and writeOutputs.
Finish(s) ==
  /\ view' = [view EXCEPT !.results = op[s].verdict, !.files = TRUE, !.status = "finished",
                          !.progress = "full", !.busy = FALSE]
  /\ disk' = Written(op[s].verdict)
  /\ op' = [op EXCEPT ![s] = NoOp]
  /\ UNCHANGED <<screen, lists, nature, inputs>>

\* Mutant: the block of a cancelled scope goes on to its end.
EndTestsAnyway(s) ==
  /\ op[s].kind = "test" /\ Over(op[s])
  /\ IF s = screen THEN Finish(s)
     ELSE /\ disk' = Written(op[s].verdict) /\ op' = [op EXCEPT ![s] = NoOp]
          /\ UNCHANGED <<screen, view, lists, nature, inputs>>

EndTests(s) == op[s].kind = "test" /\ Over(op[s]) /\ s = screen /\ Finish(s)

\* withContext of a cancelled scope throws once the children have ended; what
\* the handler then sets belongs to a screen that is gone.
EndCancelled(s) ==
  /\ s # screen /\ Over(op[s])
  /\ Sets(s, NoOp) /\ UNCHANGED view

-----------------------------------------------------------------------------
\* Tasks that wait for a permit are cancelled, those that block are not.
Cancelled(o) ==
  IF ~o.began THEN NoOp
  ELSE [o EXCEPT !.stage = [x \in Items |-> IF o.stage[x] = "waiting" THEN "cancelled" ELSE o.stage[x]]]

\* The activity is recreated.
Recreate ==
  /\ screen < MaxScreens /\ screen' = screen + 1
  /\ view' = FreshView
  /\ op' = [op EXCEPT ![screen] = Cancelled(@)]
  /\ UNCHANGED <<lists, disk, nature, inputs>>

\* The process ends and is started again: by the user, by the system, which has
\* saved the lists, or by an exception of writeOutputs, which nobody catches.
Restart(files) ==
  /\ screen < MaxScreens /\ screen' = screen + 1
  /\ view' = FreshView /\ lists' \in {lists, DefaultLists}
  /\ op' = [s \in Screens |-> NoOp]
  /\ disk' = files /\ UNCHANGED <<nature, inputs>>

Kill == Restart(disk)
Crash == op[screen].kind = "test" /\ Over(op[screen]) /\ Restart(Torn)

TaskStep(s) ==
  \/ Begin(s) \/ EndCollect(s) \/ EndTests(s) \/ EndCancelled(s)
  \/ \E x \in Items : Enter(s, x) \/ Update(s, x)
  \/ \E c \in Channels : AddLink(s, c) \/ EndChannel(s, c)
  \/ \E l \in Links : EndTest(s, l)

Next ==
  \/ Collect \/ Test \/ Reset \/ ChangeSettings \/ ChangeLists
  \/ \E s \in Screens : TaskStep(s)
  \/ Recreate \/ Kill \/ Crash

Spec == Init /\ [][Next]_vars

\* Requests and connects have timeouts, and threads go on.
FairSpec == Spec /\ \A s \in Screens : WF_vars(TaskStep(s))

-----------------------------------------------------------------------------
Verdicts == [link : Links, ok : BOOLEAN]

\* Every variable has its type, and no more tasks have a permit than there are.
TypeOK ==
  /\ screen \in Screens /\ lists \in [{"p1", "p2"} -> SUBSET Channels] /\ inputs \in 0..MaxInputs
  /\ view.settings \in Settings /\ view.collected \subseteq Links /\ view.results \subseteq Verdicts
  /\ view.status \in {"ready", "collecting", "disconnect", "testing", "finished"}
  /\ view.progress \in {"none", "part", "full"} /\ {view.files, view.busy} \subseteq BOOLEAN
  /\ \A s \in Screens :
       /\ op[s].found \subseteq Links /\ op[s].verdict \subseteq Verdicts
       /\ op[s].done \in 0..Cardinality(Tasks(op[s]))
       /\ Cardinality(Inside(op[s])) <= Permits(op[s])

(* What the pages show and what their Share button sends are one test: when *)
(* results and files are shown, sub.txt and proxy.txt hold the good links of *)
(* these results, although the same files were written by other screens and *)
(* tests of a gone screen may still run (MainActivity.kt:186-188).           *)
ShownIsShared ==
  /\ view.files => disk \notin {Torn, None}
  /\ view.files /\ view.results # {} => disk = Written(view.results)

(* A finished operation looks finished, although its updates come from       *)
(* several threads in any order: the last one may tell of part of the tasks  *)
(* (MainActivity.kt:383, 396), and a collection may end with none at all.    *)
StatusSettles ==
  ~view.busy =>
    \/ view.status = "ready" /\ view.progress = "none"
    \/ view.status \in {"disconnect", "finished"} /\ view.progress = "full"

\* The buttons come back, on this screen or a new one, whatever servers do.
OperationsEnd == view.busy ~> ~view.busy
=============================================================================
