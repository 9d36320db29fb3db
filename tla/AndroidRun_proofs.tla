--------------------------- MODULE AndroidRun_proofs ---------------------------
(***************************************************************************)
(* For any finite sets of channels and links, any previews, settings and    *)
(* natures of the servers, and any numbers of screens and inputs of          *)
(* AndroidRun.                                                               *)
(***************************************************************************)
EXTENDS AndroidRun, FiniteSetTheorems, TLAPS

Views ==
  [settings : Settings, collected : SUBSET Links, results : SUBSET Verdicts, files : BOOLEAN,
   status : {"ready", "collecting", "disconnect", "testing", "finished"},
   progress : {"none", "part", "full"}, busy : BOOLEAN]

TaskStages == {"none", "waiting", "inside", "counted", "done", "cancelled"}

Ops ==
  [kind : {"none", "collect", "test"}, began : BOOLEAN, settings : Settings, first : SUBSET Channels,
   stage : [Items -> TaskStages], looked : [Channels -> Nat], number : [Items -> Nat],
   done : Nat, found : SUBSET Links, verdict : SUBSET Verdicts]

(* The counter of a coroutine is the number of its tasks that have counted, *)
(* and one that has not begun has no tasks.                                 *)
Past(o) == {x \in Items : o.stage[x] \in {"counted", "done"}}

OpOK(o) ==
  /\ o \in Ops
  /\ o.done = Cardinality(Past(o))
  /\ Cardinality(Inside(o)) <= Permits(o)
  /\ o.kind = "none" => o = NoOp
  /\ o.began = TRUE \/ \A x \in Items : o.stage[x] = "none"

StateOK ==
  /\ screen \in Screens /\ lists \in [{"p1", "p2"} -> SUBSET Channels] /\ inputs \in 0..MaxInputs
  /\ view \in Views /\ disk \in {Torn, None} \cup Outputs
  /\ op \in [Screens -> Ops] /\ \A s \in Screens : OpOK(op[s])

(* The shown screen has a coroutine only while it is busy, and a screen that *)
(* is still to come has none: no update can come after the end.             *)
Placed ==
  /\ ~view.busy => op[screen] = NoOp
  /\ \A s \in Screens : s > screen => op[s] = NoOp

-----------------------------------------------------------------------------
LEMMA ItemsFinite == IsFiniteSet(Items) /\ Channels \subseteq Items /\ Links \subseteq Items
BY AndroidAssumption, FS_Union DEF Items

LEMMA PermitsPositive == ASSUME NEW o \in Ops PROVE Permits(o) \in Nat /\ Permits(o) >= 1
BY DEF Ops, Settings, Permits, Between, Least

LEMMA NoOpKind ==
  NoOp.kind = "none" /\ NoOp.began = FALSE /\ \A x \in Items : NoOp.stage[x] = "none"
BY DEF NoOp

LEMMA NoOpOK == OpOK(NoOp)
<1>1. NoOp \in Ops
  BY AndroidAssumption DEF NoOp, Ops, TaskStages
<1>2. Past(NoOp) = {} /\ Inside(NoOp) = {}
  BY DEF NoOp, Past, Inside, Tasks
<1>3. NoOp.done = 0
  BY DEF NoOp
<1> QED
  BY <1>1, <1>2, <1>3, NoOpKind, FS_EmptySet, PermitsPositive DEF OpOK

LEMMA FreshViewType == FreshView \in Views
BY AndroidAssumption DEF FreshView, Views

LEMMA InitState == Init => StateOK /\ Placed
<1> SUFFICES ASSUME Init PROVE StateOK /\ Placed
  OBVIOUS
<1>1. screen \in Screens /\ inputs \in 0..MaxInputs
  BY AndroidAssumption DEF Init, Screens
<1>2. \A s \in Screens : op[s] = NoOp
  BY DEF Init
<1>3. op \in [Screens -> Ops]
  BY NoOpOK DEF Init, OpOK
<1> QED
  BY <1>1, <1>2, <1>3, NoOpOK, FreshViewType, AndroidAssumption DEF Init, StateOK, Placed

-----------------------------------------------------------------------------
(* A task changes its stage.                                                *)
LEMMA PastCounts ==
  ASSUME NEW o \in Ops, NEW x \in Items, o.stage[x] \notin {"counted", "done"}, o.done = Cardinality(Past(o)),
         NEW f, f = [o.stage EXCEPT ![x] = "counted"]
  PROVE  o.done + 1 = Cardinality({y \in Items : f[y] \in {"counted", "done"}})
<1>1. {y \in Items : f[y] \in {"counted", "done"}} = Past(o) \cup {x} /\ x \notin Past(o)
  BY DEF Ops, Past
<1>2. IsFiniteSet(Past(o))
  BY ItemsFinite, FS_Subset DEF Past
<1> QED
  BY <1>1, <1>2, FS_AddElement

LEMMA InsideFinite == ASSUME NEW o PROVE IsFiniteSet(Inside(o)) /\ Inside(o) \subseteq Items
<1>1. Inside(o) \subseteq Items
  BY DEF Inside, Tasks
<1> QED
  BY <1>1, ItemsFinite, FS_Subset

(* Entering under the guard leaves no more tasks inside than permits.       *)
LEMMA EnterOK ==
  ASSUME NEW o, OpOK(o), NEW x \in Items, o.stage[x] = "waiting", Cardinality(Inside(o)) < Permits(o)
  PROVE  OpOK(Stage(o, x, "inside"))
<1> DEFINE q == Stage(o, x, "inside")
<1>1. o \in Ops
  BY DEF OpOK
<1>2. /\ q \in Ops /\ q.stage = [o.stage EXCEPT ![x] = "inside"]
      /\ q.done = o.done /\ q.settings = o.settings /\ q.kind = o.kind /\ q.began = o.began
  BY <1>1 DEF Ops, Stage, TaskStages
<1>3. Past(q) = Past(o)
  BY <1>1, <1>2 DEF Past, Ops
<1>4. Inside(q) = Inside(o) \cup {x} /\ x \notin Inside(o)
  BY <1>1, <1>2 DEF Inside, Tasks, Ops
<1>5. Cardinality(Inside(q)) = Cardinality(Inside(o)) + 1 /\ Cardinality(Inside(o)) \in Nat
  BY <1>4, InsideFinite, FS_AddElement, FS_CardinalityType
<1>6. Permits(q) = Permits(o) /\ Permits(o) \in Nat
  BY <1>1, <1>2, PermitsPositive DEF Permits
<1>7. q.kind # "none" /\ q.began = TRUE
  BY <1>2, NoOpKind DEF OpOK
<1> QED
  BY <1>2, <1>3, <1>5, <1>6, <1>7 DEF OpOK

(* Any other change of stages that neither counts nor enters.               *)
LEMMA LeavesOK ==
  ASSUME NEW o, OpOK(o), NEW q \in Ops, q.kind = o.kind, o.kind # "none", q.settings = o.settings, q.began = TRUE,
         q.done = Cardinality(Past(q)), Inside(q) \subseteq Inside(o)
  PROVE  OpOK(q)
<1>1. o \in Ops
  BY DEF OpOK
<1>2. Cardinality(Inside(q)) \in Nat /\ Cardinality(Inside(o)) \in Nat /\ Cardinality(Inside(q)) <= Cardinality(Inside(o))
  BY InsideFinite, FS_Subset, FS_CardinalityType
<1>3. Permits(q) = Permits(o) /\ Permits(o) \in Nat
  BY <1>1, PermitsPositive DEF Permits
<1> QED
  BY <1>2, <1>3 DEF OpOK

LEMMA CountedOK ==
  ASSUME NEW o, OpOK(o), NEW x \in Items, o.stage[x] = "inside"
  PROVE  /\ OpOK(Counted(o, x)) /\ Counted(o, x).found = o.found
         /\ Counted(o, x).kind = o.kind /\ Counted(o, x).verdict = o.verdict
<1> DEFINE q == Counted(o, x)
<1>1. o \in Ops /\ o.kind # "none" /\ o.began = TRUE
  BY NoOpKind DEF OpOK
<1>2. /\ q.stage = [o.stage EXCEPT ![x] = "counted"] /\ q.done = o.done + 1 /\ q.began = o.began
      /\ q.settings = o.settings /\ q.kind = o.kind /\ q.found = o.found /\ q.verdict = o.verdict
  BY <1>1 DEF Ops, Counted, Stage
<1>3. q \in Ops
  <2>1. [o.stage EXCEPT ![x] = "counted"] \in [Items -> TaskStages] /\ o.done + 1 \in Nat
        /\ [o.number EXCEPT ![x] = o.done + 1] \in [Items -> Nat]
    BY <1>1 DEF Ops, TaskStages
  <2> QED
    BY <1>1, <2>1, Zenon DEF Counted, Stage, Ops
<1>4. o.done + 1 = Cardinality(Past(q))
  BY <1>1, <1>2, PastCounts DEF Past, OpOK
<1>5. Inside(q) \subseteq Inside(o)
  BY <1>1, <1>2 DEF Inside, Tasks, Ops
<1> HIDE DEF q
<1>6. OpOK(q)
  BY <1>1, <1>2, <1>3, <1>4, <1>5, LeavesOK
<1> QED
  BY <1>2, <1>6 DEF q

-----------------------------------------------------------------------------
(* A step of a coroutine that stays one, or that belongs to a gone screen.  *)
LEMMA SetsKeeps ==
  ASSUME StateOK, Placed, NEW s \in Screens, op[s] # NoOp, NEW o, OpOK(o), Sets(s, o),
         view' \in Views, view'.busy = view.busy
  PROVE  StateOK' /\ Placed'
<1>1. UNCHANGED <<screen, lists, disk, nature, inputs>> /\ op' = [op EXCEPT ![s] = o]
  BY DEF Sets
<1>2. \A t \in Screens : op'[t] = IF t = s THEN o ELSE op[t]
  BY <1>1 DEF StateOK
<1>3. op' \in [Screens -> Ops] /\ \A t \in Screens : OpOK(op'[t])
  BY <1>1, <1>2 DEF StateOK, OpOK
<1>4. ~view'.busy => op'[screen'] = NoOp
  BY <1>1, <1>2 DEF Placed, StateOK
<1>5. \A t \in Screens : t > screen' => op'[t] = NoOp
  BY <1>1, <1>2 DEF Placed
<1> QED
  BY <1>1, <1>3, <1>4, <1>5 DEF StateOK, Placed

(* A step of the shown screen that sets its coroutine and its view.         *)
LEMMA ShownKeeps ==
  ASSUME StateOK, Placed, NEW o, OpOK(o), op' = [op EXCEPT ![screen] = o],
         screen' = screen, lists' \in [{"p1", "p2"} -> SUBSET Channels], inputs' \in 0..MaxInputs,
         disk' \in {Torn, None} \cup Outputs, view' \in Views, ~view'.busy => o = NoOp
  PROVE  StateOK' /\ Placed'
<1>1. \A t \in Screens : op'[t] = IF t = screen THEN o ELSE op[t]
  BY DEF StateOK
<1>2. op' \in [Screens -> Ops] /\ \A t \in Screens : OpOK(op'[t])
  BY <1>1 DEF StateOK, OpOK
<1>3. \A t \in Screens : t > screen' => op'[t] = NoOp
  BY <1>1 DEF Placed, StateOK, Screens
<1> QED
  BY <1>1, <1>2, <1>3 DEF StateOK, Placed

(* A new screen has a fresh view, and no coroutine of its own.              *)
LEMMA NewScreenKeeps ==
  ASSUME StateOK, Placed, screen < MaxScreens, screen' = screen + 1, view' = FreshView,
         lists' \in [{"p1", "p2"} -> SUBSET Channels], UNCHANGED inputs,
         disk' \in {Torn, None} \cup Outputs, op' \in [Screens -> Ops],
         \A s \in Screens : OpOK(op'[s]),
         \A s \in Screens : s > screen => op'[s] = NoOp
  PROVE  StateOK' /\ Placed'
<1>1. screen' \in Screens /\ screen' > screen /\ \A s \in Screens : s > screen' => s > screen
  BY AndroidAssumption DEF StateOK, Screens
<1>2. StateOK'
  BY <1>1, FreshViewType DEF StateOK
<1>3. Placed'
  BY <1>1 DEF Placed
<1> QED
  BY <1>2, <1>3

LEMMA InputType == ASSUME StateOK, Input PROVE inputs' \in 0..MaxInputs
BY AndroidAssumption DEF StateOK, Input

LEMMA LaunchedOK == ASSUME NEW kind \in {"collect", "test"} PROVE OpOK([NoOp EXCEPT !.kind = kind])
<1> DEFINE q == [NoOp EXCEPT !.kind = kind]
<1>1. q \in Ops
  BY NoOpOK DEF OpOK, Ops
<1>2. q.stage = NoOp.stage /\ q.done = 0 /\ q.kind = kind
  BY DEF NoOp
<1>3. Past(q) = {} /\ Inside(q) = {}
  BY <1>2, NoOpKind DEF Past, Inside, Tasks
<1> HIDE DEF q
<1>4. OpOK(q)
  BY <1>1, <1>2, <1>3, NoOpKind, FS_EmptySet, PermitsPositive DEF OpOK
<1> QED
  BY <1>4 DEF q

LEMMA EditedType == ASSUME NEW st \in Settings, NEW n \in Numbers PROVE Edited(st, n) \subseteq Settings
<1>1. n \in Int /\ Least(st.min, n) \in Int /\ Least(n, st.attempts) \in Int
  BY AndroidAssumption DEF Settings, Least
<1> QED
  BY <1>1, Zenon DEF Edited, Settings

LEMMA StepInput ==
  ASSUME StateOK, Placed, Collect \/ Test \/ Reset \/ ChangeSettings \/ ChangeLists
  PROVE  StateOK' /\ Placed'
<1>1. view \in Views /\ inputs' \in 0..MaxInputs
  BY InputType DEF StateOK, Collect, Test, Reset, ChangeSettings, ChangeLists
<1>2. ASSUME UNCHANGED <<screen, lists, op, disk, nature>>, view' \in Views, view'.busy = view.busy
      PROVE  StateOK' /\ Placed'
  BY <1>1, <1>2 DEF StateOK, Placed
<1>3. CASE Collect
  <2>1. view' \in Views /\ view'.busy = TRUE
    BY <1>1, <1>3, Zenon DEF Collect, SetsView, Views
  <2> QED
    BY <1>1, <1>3, <2>1, LaunchedOK, ShownKeeps DEF Collect, SetsView, Launches, StateOK
<1>4. CASE Test
  <2>1. view' \in Views /\ view'.busy = TRUE
    BY <1>1, <1>4, Zenon DEF Test, SetsView, Views
  <2> QED
    BY <1>1, <1>4, <2>1, LaunchedOK, ShownKeeps DEF Test, SetsView, Launches, StateOK
<1>5. CASE Reset
  <2>1. view' \in Views /\ view'.busy = view.busy
    BY <1>1, <1>5, FreshViewType DEF Reset, SetsView, Views, FreshView
  <2> QED
    BY <1>2, <1>5, <2>1 DEF Reset, SetsView
<1>6. CASE ChangeSettings
  <2>1. PICK n \in Numbers : \E st \in Edited(view.settings, n) : view' = [view EXCEPT !.settings = st]
    BY <1>6 DEF ChangeSettings
  <2>2. view.settings \in Settings
    BY <1>1 DEF Views
  <2>3. PICK st \in Settings : view' = [view EXCEPT !.settings = st]
    BY <2>1, <2>2, EditedType
  <2>4. view' \in Views /\ view'.busy = view.busy
    BY <1>1, <2>3 DEF Views
  <2> QED
    BY <1>2, <1>6, <2>4 DEF ChangeSettings
<1>7. CASE ChangeLists
  <2>1. lists' \in [{"p1", "p2"} -> SUBSET Channels]
    BY <1>7, AndroidAssumption DEF ChangeLists, StateOK
  <2> QED
    BY <1>1, <1>7, <2>1 DEF ChangeLists, StateOK, Placed
<1> QED
  BY <1>3, <1>4, <1>5, <1>6, <1>7

LEMMA BeginKeeps ==
  ASSUME StateOK, Placed, NEW s \in Screens, Begin(s) PROVE StateOK' /\ Placed'
<1> DEFINE o == op[s]
           items == IF o.kind = "collect" THEN lists.p1 \cup lists.p2 ELSE Filtered
           f == [x \in Items |-> IF x \in items THEN "waiting" ELSE "none"]
           q == [o EXCEPT !.began = TRUE, !.settings = view.settings, !.first = lists.p1, !.stage = f]
<1>1. o \in Ops /\ o.kind # "none" /\ o # NoOp
  BY NoOpKind DEF StateOK, Begin
<1>2. view.settings \in Settings /\ lists.p1 \in SUBSET Channels /\ f \in [Items -> TaskStages]
  BY DEF StateOK, Views, TaskStages
<1>3. q \in Ops
  <2> HIDE DEF f, o
  <2> QED
    BY <1>1, <1>2, Zenon DEF Ops
<1>4. q.kind = o.kind /\ q.stage = f /\ q.done = o.done /\ q.began = TRUE
  BY <1>1 DEF Ops
<1>5. Past(q) = {} /\ Inside(q) = {}
  BY <1>4 DEF Past, Inside, Tasks
<1>6. o.done = 0
  <2>1. OpOK(o) /\ o.began # TRUE
    BY <1>1 DEF StateOK, Begin, Ops
  <2>2. Past(o) = {}
    BY <2>1 DEF OpOK, Past
  <2> QED
    BY <2>1, <2>2, FS_EmptySet DEF OpOK
<1>7. OpOK(q)
  <2> HIDE DEF q, o
  <2> QED
    BY <1>1, <1>3, <1>4, <1>5, <1>6, FS_EmptySet, PermitsPositive DEF OpOK
<1>8. Sets(s, q) /\ UNCHANGED view
  BY DEF Begin
<1> QED
  <2> HIDE DEF q
  <2> QED
    BY <1>1, <1>7, <1>8, SetsKeeps DEF StateOK

(* A task of a collection finds a link.                                     *)
LEMMA AddLinkKeeps ==
  ASSUME StateOK, Placed, NEW s \in Screens, NEW c \in Channels, AddLink(s, c)
  PROVE  StateOK' /\ Placed'
<1> DEFINE o == op[s]
           n == o.looked[c] + 1
           l == PageOf[c][n]
           q == [o EXCEPT !.looked[c] = n]
           r == Merged(q, l)
<1>1. OpOK(o) /\ o \in Ops /\ o.kind = "collect" /\ o.stage[c] = "inside"
  BY DEF StateOK, AddLink
<1>2. c \in Items /\ o.began = TRUE /\ o.kind # "none" /\ o # NoOp
  BY <1>1, NoOpKind DEF OpOK, Items
<1>3. n \in 1..Len(PageOf[c]) /\ l \in Links \cup {Junk}
  BY <1>1, AndroidAssumption DEF AddLink, Ops
<1>4. /\ q \in Ops /\ q.kind = o.kind /\ q.began = o.began /\ q.settings = o.settings
      /\ q.done = o.done /\ q.stage = o.stage
  <2>1. n \in Nat /\ [o.looked EXCEPT ![c] = n] \in [Channels -> Nat]
    BY <1>1 DEF Ops
  <2> HIDE DEF o, n
  <2> QED
    BY <1>1, <2>1, Zenon DEF Ops
<1>5. ASSUME NEW p \in Ops, p.kind = o.kind, p.began = o.began, p.settings = o.settings,
             p.done = o.done, p.stage = o.stage, Sets(s, p), UNCHANGED view
      PROVE  StateOK' /\ Placed'
  <2>1. Past(p) = Past(o) /\ Inside(p) = Inside(o)
    BY <1>5 DEF Past, Inside, Tasks
  <2>2. OpOK(p)
    BY <1>1, <1>2, <1>5, <2>1, LeavesOK DEF OpOK
  <2> QED
    BY <1>2, <1>5, <2>2, SetsKeeps DEF StateOK
<1>6. Sets(s, IF l = Junk THEN q ELSE r) /\ UNCHANGED view
  BY DEF AddLink
<1>7. CASE l = Junk
  <2> HIDE DEF q, o
  <2> QED
    BY <1>4, <1>5, <1>6, <1>7
<1>8. CASE l # Junk
  <2>1. /\ r \in Ops /\ r.kind = q.kind /\ r.began = q.began /\ r.settings = q.settings
        /\ r.done = q.done /\ r.stage = q.stage
    <3> HIDE DEF q, l
    <3> QED
      BY <1>3, <1>4, <1>8 DEF Ops, Merged
  <2> HIDE DEF q, o, r
  <2> QED
    BY <1>4, <1>5, <1>6, <1>8, <2>1
<1> QED
  BY <1>7, <1>8

LEMMA EndTestKeeps ==
  ASSUME StateOK, Placed, NEW s \in Screens, NEW l \in Links, EndTest(s, l)
  PROVE  StateOK' /\ Placed'
<1> DEFINE o == op[s]
           p == Counted(o, l)
<1>1. OpOK(o) /\ l \in Items /\ o.stage[l] = "inside" /\ o.kind = "test"
  BY DEF StateOK, EndTest, Items
<1>2. OpOK(p) /\ p \in Ops /\ p.kind = "test"
  BY <1>1, CountedOK DEF OpOK
<1>3. PICK v : Sets(s, [p EXCEPT !.verdict = @ \cup {[link |-> l, ok |-> v >= Required(o.settings)]}])
  BY DEF EndTest
<1> DEFINE new == [link |-> l, ok |-> v >= Required(o.settings)]
           q == [p EXCEPT !.verdict = @ \cup {new}]
<1>4. new \in Verdicts
  BY DEF Verdicts
<1>5. /\ q \in Ops /\ q.kind = p.kind /\ q.began = p.began /\ q.settings = p.settings
      /\ q.done = p.done /\ q.stage = p.stage
  <2> HIDE DEF p, new
  <2> QED
    BY <1>2, <1>4 DEF Ops
<1>6. Sets(s, q)
  BY <1>3
<1> HIDE DEF q, p, o
<1>7. Past(q) = Past(p) /\ Inside(q) = Inside(p) /\ p.began = TRUE
  <2>1. \E x \in Items : p.stage[x] # "none"
    BY <1>1 DEF p, Counted, Stage, o, OpOK, Ops
  <2> QED
    BY <1>2, <1>5, <2>1 DEF Past, Inside, Tasks, OpOK
<1>8. OpOK(q)
  BY <1>2, <1>5, <1>7, LeavesOK DEF OpOK
<1>9. op[s] # NoOp /\ UNCHANGED view
  BY <1>1, NoOpKind DEF EndTest, o
<1> QED
  BY <1>6, <1>8, <1>9, SetsKeeps DEF StateOK

LEMMA UpdateKeeps ==
  ASSUME StateOK, Placed, NEW s \in Screens, NEW x \in Items, Update(s, x)
  PROVE  StateOK' /\ Placed'
<1> DEFINE o == op[s]
           q == Stage(o, x, "done")
<1>1. OpOK(o) /\ o \in Ops /\ o.stage[x] = "counted"
  BY DEF StateOK, Update
<1>2. o.began = TRUE /\ o.kind # "none" /\ o # NoOp
  BY <1>1, NoOpKind DEF OpOK
<1>3. /\ q \in Ops /\ q.stage = [o.stage EXCEPT ![x] = "done"] /\ q.kind = o.kind
      /\ q.began = o.began /\ q.settings = o.settings /\ q.done = o.done
  BY <1>1 DEF Ops, Stage, TaskStages
<1>4. Past(q) = Past(o) /\ Inside(q) \subseteq Inside(o)
  BY <1>1, <1>3 DEF Past, Inside, Tasks, Ops
<1>5. view' \in Views /\ view'.busy = view.busy
  <2>1. view \in Views
    BY DEF StateOK
  <2> DEFINE status == IF o.kind = "collect" THEN "collecting" ELSE "testing"
             progress == IF o.number[x] = Cardinality(Tasks(o)) THEN "full" ELSE "part"
  <2>2. view' = view \/ view' = [view EXCEPT !.status = status, !.progress = progress]
    BY DEF Update
  <2>3. /\ status \in {"ready", "collecting", "disconnect", "testing", "finished"}
        /\ progress \in {"none", "part", "full"}
    OBVIOUS
  <2> HIDE DEF status, progress
  <2> QED
    BY <2>1, <2>2, <2>3, Zenon DEF Views
<1>6. Sets(s, q)
  BY DEF Update
<1> HIDE DEF q, o
<1>7. OpOK(q)
  BY <1>1, <1>2, <1>3, <1>4, LeavesOK DEF OpOK
<1> QED
  BY <1>2, <1>5, <1>6, <1>7, SetsKeeps DEF o

LEMMA WrittenType ==
  ASSUME NEW rs \in SUBSET Verdicts PROVE Written(rs) \in Outputs /\ Written(rs) \notin {Torn, None}
<1>1. Good(rs) \subseteq Links
  BY DEF Good, Verdicts
<1>2. Written(rs) \in Outputs
  BY <1>1 DEF Written, Outputs
<1> QED
  BY <1>2, AndroidAssumption

LEMMA EndKeeps ==
  ASSUME StateOK, Placed, NEW s \in Screens, EndCollect(s) \/ EndTests(s) \/ EndCancelled(s)
  PROVE  StateOK' /\ Placed'
<1>1. OpOK(op[s]) /\ op[s] \in Ops /\ view \in Views
  BY DEF StateOK
<1>2. CASE EndCollect(s)
  <2>1. view' \in Views
    BY <1>1, <1>2, Zenon DEF EndCollect, SetsView, Views, Ops
  <2> QED
    BY <1>2, <2>1, NoOpOK, ShownKeeps DEF EndCollect, SetsView, StateOK
<1>3. CASE EndTests(s)
  <2>1. view' \in Views /\ op[s].verdict \in SUBSET Verdicts
    BY <1>1, <1>3, Zenon DEF EndTests, Finish, Views, Ops
  <2>2. disk' \in Outputs
    BY <1>3, <2>1, WrittenType DEF EndTests, Finish
  <2> QED
    BY <1>3, <2>1, <2>2, NoOpOK, ShownKeeps DEF EndTests, Finish, StateOK
<1>4. CASE EndCancelled(s)
  <2>1. op[s] # NoOp
    BY <1>4, NoOpKind DEF EndCancelled, Over
  <2> QED
    BY <1>1, <1>4, <2>1, NoOpOK, SetsKeeps DEF EndCancelled
<1> QED
  BY <1>2, <1>3, <1>4

LEMMA StepTask ==
  ASSUME StateOK, Placed, NEW s \in Screens, TaskStep(s) PROVE StateOK' /\ Placed'
<1>1. OpOK(op[s]) /\ view \in Views
  BY DEF StateOK
<1>2. ASSUME NEW x \in Items, Enter(s, x) PROVE StateOK' /\ Placed'
  <2>1. op[s] # NoOp
    BY <1>2, NoOpKind DEF Enter
  <2> QED
    BY <1>1, <1>2, <2>1, EnterOK, SetsKeeps DEF Enter
<1>3. ASSUME NEW c \in Channels, EndChannel(s, c) PROVE StateOK' /\ Placed'
  <2>1. op[s] # NoOp /\ c \in Items
    BY <1>3, NoOpKind, ItemsFinite DEF EndChannel
  <2> QED
    BY <1>1, <1>3, <2>1, CountedOK, SetsKeeps DEF EndChannel
<1> QED
  BY <1>2, <1>3, BeginKeeps, EndKeeps, UpdateKeeps, AddLinkKeeps, EndTestKeeps DEF TaskStep

LEMMA RestartKeeps ==
  ASSUME StateOK, Placed, NEW files \in {Torn, None} \cup Outputs, Restart(files) PROVE StateOK' /\ Placed'
<1>1. lists' \in [{"p1", "p2"} -> SUBSET Channels]
  BY AndroidAssumption DEF Restart, StateOK
<1>2. op' \in [Screens -> Ops] /\ \A s \in Screens : op'[s] = NoOp
  BY NoOpOK DEF Restart, OpOK
<1> QED
  BY <1>1, <1>2, NoOpOK, NewScreenKeeps DEF Restart

LEMMA CancelledOK == ASSUME NEW o, OpOK(o) PROVE OpOK(Cancelled(o))
<1>1. CASE ~o.began
  BY <1>1, NoOpOK DEF Cancelled
<1>2. CASE o.began
  <2> DEFINE f == [x \in Items |-> IF o.stage[x] = "waiting" THEN "cancelled" ELSE o.stage[x]]
             q == [o EXCEPT !.stage = f]
  <2>1. o \in Ops /\ o.began = TRUE /\ o.kind # "none"
    BY <1>2, NoOpKind DEF OpOK, Ops
  <2>2. f \in [Items -> TaskStages]
    BY <2>1 DEF Ops, TaskStages
  <2>3. q \in Ops /\ q.stage = f /\ q.kind = o.kind /\ q.began = o.began /\ q.settings = o.settings /\ q.done = o.done
    <3> HIDE DEF f
    <3> QED
      BY <2>1, <2>2 DEF Ops
  <2>4. Past(q) = Past(o) /\ Inside(q) \subseteq Inside(o)
    BY <2>3 DEF Past, Inside, Tasks
  <2>5. Cancelled(o) = q
    BY <1>2 DEF Cancelled
  <2> HIDE DEF q
  <2> QED
    BY <2>1, <2>3, <2>4, <2>5, LeavesOK DEF OpOK
<1> QED
  BY <1>1, <1>2

LEMMA StepState == StateOK /\ Placed /\ [Next]_vars => StateOK' /\ Placed'
<1> SUFFICES ASSUME StateOK, Placed, [Next]_vars PROVE StateOK' /\ Placed'
  OBVIOUS
<1>1. CASE Collect \/ Test \/ Reset \/ ChangeSettings \/ ChangeLists
  BY <1>1, StepInput
<1>2. ASSUME NEW s \in Screens, TaskStep(s) PROVE StateOK' /\ Placed'
  BY <1>2, StepTask
<1>3. CASE Recreate
  <2>1. \A s \in Screens : op'[s] = IF s = screen THEN Cancelled(op[s]) ELSE op[s]
    BY <1>3 DEF Recreate, StateOK
  <2>2. op' \in [Screens -> Ops] /\ \A s \in Screens : OpOK(op'[s])
    BY <1>3, <2>1, CancelledOK DEF Recreate, StateOK, OpOK
  <2>3. \A s \in Screens : s > screen => op'[s] = NoOp
    BY <2>1 DEF Placed, StateOK, Screens
  <2> QED
    BY <1>3, <2>2, <2>3, NewScreenKeeps DEF Recreate, StateOK
<1>4. CASE Kill
  BY <1>4, RestartKeeps DEF Kill, StateOK
<1>5. CASE Crash
  BY <1>5, RestartKeeps DEF Crash
<1>6. CASE UNCHANGED vars
  BY <1>6 DEF vars, StateOK, Placed
<1> QED
  BY <1>1, <1>2, <1>3, <1>4, <1>5, <1>6 DEF Next

LEMMA StateTyped == StateOK => TypeOK
<1> SUFFICES ASSUME StateOK PROVE TypeOK
  OBVIOUS
<1>1. ASSUME NEW s \in Screens
      PROVE  /\ op[s].found \subseteq Links /\ op[s].verdict \subseteq Verdicts
             /\ op[s].done \in 0..Cardinality(Tasks(op[s]))
             /\ Cardinality(Inside(op[s])) <= Permits(op[s])
  <2>1. OpOK(op[s]) /\ op[s] \in Ops
    BY DEF StateOK
  <2>2. Past(op[s]) \subseteq Tasks(op[s]) /\ IsFiniteSet(Tasks(op[s]))
    BY ItemsFinite, FS_Subset DEF Past, Tasks
  <2>3. /\ Cardinality(Past(op[s])) <= Cardinality(Tasks(op[s]))
        /\ Cardinality(Past(op[s])) \in Nat /\ Cardinality(Tasks(op[s])) \in Nat
    BY <2>2, FS_Subset, FS_CardinalityType
  <2> QED
    BY <2>1, <2>3 DEF OpOK, Ops
<1>2. view \in Views
  BY DEF StateOK
<1>3. /\ view.settings \in Settings /\ view.collected \subseteq Links /\ view.results \subseteq Verdicts
      /\ view.status \in {"ready", "collecting", "disconnect", "testing", "finished"}
      /\ view.progress \in {"none", "part", "full"} /\ {view.files, view.busy} \subseteq BOOLEAN
  BY <1>2, Zenon DEF Views
<1> QED
  BY <1>1, <1>3 DEF StateOK, TypeOK

-----------------------------------------------------------------------------
(* Only the end of a test of the shown screen writes the files while the    *)
(* activity lives, and it shows what it writes; a restart shows nothing.    *)
LEMMA StepShown ==
  ASSUME StateOK, Placed, ShownIsShared, [Next]_vars PROVE ShownIsShared'
<1>1. view \in Views /\ FreshView.files = FALSE
  BY DEF StateOK, FreshView
<1>2. ASSUME disk' = disk, view'.files = view.files \/ ~view'.files,
             view'.results = view.results \/ view'.results = {}
      PROVE  ShownIsShared'
  BY <1>2 DEF ShownIsShared
<1>3. ASSUME UNCHANGED <<view, disk>> PROVE ShownIsShared'
  BY <1>2, <1>3
<1>4. CASE Collect \/ Test \/ Reset \/ ChangeSettings \/ ChangeLists
  <2>1. disk' = disk
    BY <1>4 DEF Collect, Test, Reset, ChangeSettings, ChangeLists, SetsView
  <2>2. /\ view'.files = view.files \/ view'.files = FALSE
        /\ view'.results = view.results \/ view'.results = {}
    <3>1. CASE Reset
      BY <3>1 DEF Reset, SetsView, FreshView
    <3>2. CASE ~Reset
      BY <1>1, <1>4, <3>2, Zenon DEF Collect, Test, ChangeSettings, ChangeLists, SetsView, Views
    <3> QED
      BY <3>1, <3>2
  <2> QED
    BY <1>2, <2>1, <2>2
<1>5. ASSUME NEW s \in Screens, TaskStep(s) PROVE ShownIsShared'
  <2>1. CASE EndTests(s)
    <3>1. op[s].verdict \in SUBSET Verdicts
      BY DEF StateOK, Ops
    <3>2. disk' = Written(view'.results)
      BY <1>1, <2>1, Zenon DEF EndTests, Finish, Views
    <3>3. view'.results = op[s].verdict
      BY <1>1, <2>1, Zenon DEF EndTests, Finish, Views
    <3> QED
      BY <3>1, <3>2, <3>3, WrittenType DEF ShownIsShared
  <2>2. CASE EndCollect(s)
    <3>1. disk' = disk /\ view'.files = view.files /\ view'.results = view.results
      BY <1>1, <2>2, Zenon DEF EndCollect, SetsView, Views
    <3> QED
      BY <1>2, <3>1
  <2>3. ASSUME NEW x \in Items, Update(s, x) PROVE ShownIsShared'
    <3>1. disk' = disk /\ view'.files = view.files /\ view'.results = view.results
      BY <1>1, <2>3 DEF Update, Sets, Views
    <3> QED
      BY <1>2, <3>1
  <2> QED
    BY <1>3, <1>5, <2>1, <2>2, <2>3
       DEF TaskStep, Begin, Enter, EndChannel, AddLink, EndTest, EndCancelled, Sets
<1>6. CASE Recreate \/ Kill \/ Crash
  BY <1>1, <1>6 DEF Recreate, Kill, Crash, Restart, ShownIsShared
<1>7. CASE UNCHANGED vars
  BY <1>3, <1>7 DEF vars
<1> QED
  BY <1>4, <1>5, <1>6, <1>7 DEF Next

(* An update of the shown screen comes from a task of its coroutine, which  *)
(* is there only while the screen is busy.                                  *)
LEMMA StepSettles ==
  ASSUME StateOK, Placed, StatusSettles, [Next]_vars PROVE StatusSettles'
<1>1. view \in Views
  BY DEF StateOK
<1>2. ASSUME view'.busy = view.busy, view'.status = view.status, view'.progress = view.progress
      PROVE  StatusSettles'
  BY <1>2 DEF StatusSettles
<1>3. CASE Collect \/ Test \/ Reset \/ ChangeSettings \/ ChangeLists
  <2>1. CASE Collect \/ Test
    <3>1. view'.busy = TRUE
      BY <1>1, <2>1, Zenon DEF Collect, Test, SetsView, Views
    <3> QED
      BY <3>1 DEF StatusSettles
  <2>2. CASE Reset
    <3>1. view'.status = "ready" /\ view'.progress = "none"
      BY <2>2 DEF Reset, SetsView, FreshView
    <3> QED
      BY <3>1 DEF StatusSettles
  <2>3. CASE ChangeSettings \/ ChangeLists
    BY <1>1, <1>2, <2>3, Zenon DEF ChangeSettings, ChangeLists, Views
  <2> QED
    BY <1>3, <2>1, <2>2, <2>3
<1>4. ASSUME NEW s \in Screens, TaskStep(s) PROVE StatusSettles'
  <2>1. CASE EndTests(s) \/ EndCollect(s)
    <3>1. view'.status \in {"disconnect", "finished"} /\ view'.progress = "full"
      BY <1>1, <2>1, Zenon DEF EndTests, Finish, EndCollect, SetsView, Views
    <3> QED
      BY <3>1 DEF StatusSettles
  <2>2. ASSUME NEW x \in Items, Update(s, x) PROVE StatusSettles'
    <3>1. CASE s # screen
      BY <1>2, <2>2, <3>1 DEF Update
    <3>2. CASE s = screen
      <4>1. op[s] # NoOp
        BY <2>2, NoOpKind DEF Update
      <4>2. view.busy = TRUE
        BY <1>1, <3>2, <4>1 DEF Placed, Views
      <4>3. view'.busy = view.busy
        BY <1>1, <2>2 DEF Update, Views
      <4> QED
        BY <4>2, <4>3 DEF StatusSettles
    <3> QED
      BY <3>1, <3>2
  <2> QED
    BY <1>2, <1>4, <2>1, <2>2 DEF TaskStep, Begin, Enter, EndChannel, AddLink, EndTest, EndCancelled
<1>5. CASE Recreate \/ Kill \/ Crash
  BY <1>5 DEF Recreate, Kill, Crash, Restart, FreshView, StatusSettles
<1>6. CASE UNCHANGED vars
  BY <1>2, <1>6 DEF vars
<1> QED
  BY <1>3, <1>4, <1>5, <1>6 DEF Next

-----------------------------------------------------------------------------
\* Every variable keeps its type, no coroutine counts more tasks than it has,
\* and no more of its tasks are inside than its semaphore has permits
\* (MainActivity.kt, Semaphore(...).withPermit).
THEOREM AlwaysTyped == Spec => []TypeOK
BY InitState, StepState, StateTyped, PTL DEF Spec

\* What the pages show and what their Share button sends are one test, whatever
\* tasks of gone screens still run and wherever the process is killed.
THEOREM ShownTestIsShared == Spec => []ShownIsShared
<1>1. Init => ShownIsShared
  BY DEF Init, FreshView, ShownIsShared
<1>2. StateOK /\ Placed /\ ShownIsShared /\ [Next]_vars => ShownIsShared'
  BY StepShown
<1> QED
  BY <1>1, <1>2, InitState, StepState, PTL DEF Spec

\* A screen that is not busy looks ready or finished: no late update of a task,
\* of this screen or of a gone one, can make it look as if it still worked.
THEOREM FinishedLooksFinished == Spec => []StatusSettles
<1>1. Init => StatusSettles
  BY DEF Init, FreshView, StatusSettles
<1>2. StateOK /\ Placed /\ StatusSettles /\ [Next]_vars => StatusSettles'
  BY StepSettles
<1> QED
  BY <1>1, <1>2, InitState, StepState, PTL DEF Spec
=============================================================================
