-------------------------- MODULE CheckerRun_proofs --------------------------
(***************************************************************************)
(* For any endpoints, sizes of the pool, attempts per endpoint and numbers  *)
(* of runs, with the pause button or without it.                            *)
(***************************************************************************)
EXTENDS CheckerRun, SequenceTheorems, TLAPS

Kinds == {"ask", "paused", "finished", "failed"}
Labels == Testing \cup {"none", "prepare", "collect", "gate", "ask", "waiting", "failing", "ended"}
Stages == {"absent", "collected", "skipped", "pending", "running", "finished", "recorded"}

Posted(kind) == \E i \in DOMAIN queue : queue[i][1] = kind
AllDone == \A e \in Endpoints : test[e] \in {"absent", "skipped", "recorded"}

TypeInv == TypeOK /\ (wk # "none" => run > 0)

(* An attempt belongs to an endpoint whose test runs, and tests run only    *)
(* while the executor is open; a batch holds what has finished.             *)
PoolInv ==
  /\ \A e \in Endpoints : good[e] <= tries[e]
  /\ \A e \in busy : test[e] = "running" /\ tries[e] < Attempts
  /\ wk \notin {"loop", "wait", "gather", "drain", "failing"} => Running = {}
  /\ batch \subseteq InState("finished")
  /\ wk # "gather" => batch = {}

(* Past the loop of a run that nobody aborted nothing is left to test, and  *)
(* from the last write on the files are what the results say.               *)
ResultInv ==
  /\ wk \in Testing \ {"read"} => InState("collected") = {}
  /\ wk \in {"drain", "final", "report"} /\ ~abort => AllDone
  /\ wk \in {"report", "emit"} => made = run /\ sub = Alive
  /\ wk = "emit" => AllDone
  /\ Pending("finished") => wk = "ended" /\ AllDone /\ made = run /\ sub = Alive

(* Everything that can let a run pass its wait, the click it could come     *)
(* from and the signal that could allow the click, follows a request of the *)
(* window; a start finds no old "paused" signal that would come after it.   *)
ConsentInv ==
  /\ gui = "resetting" => abort
  /\ abort => consent
  /\ IsRunning /\ ~abort => ~startOn /\ step # "idle"
  /\ IsRunning /\ ~abort /\ (consent \/ (contOn /\ ~pause) \/ Posted("paused") \/ wk \in Testing) =>
       step = "done"
  /\ startOn => \A i \in DOMAIN queue : i > due => queue[i][1] # "paused"

(* The request is the last signal of a run that waits: what an older run    *)
(* left in the queue cannot take the Continue button away after it.         *)
WaitInv ==
  /\ wk \in {"prepare", "collect", "gate", "ask"} => ~Pending("ask")
  /\ wk = "waiting" => \A i \in DOMAIN queue : queue[i] = <<"ask", run>> => i = Len(queue)
  /\ ~stopShown => ~pause
  /\ wk = "waiting" /\ ~consent /\ ~stopShown => Pending("ask") \/ (contOn /\ queue = <<>>)

IInv == TypeInv /\ PoolInv /\ ResultInv /\ ConsentInv /\ WaitInv

-----------------------------------------------------------------------------
(* The queue.                                                               *)
LEMMA QueueFacts ==
  ASSUME TypeOK
  PROVE  /\ Len(queue) \in Nat /\ DOMAIN queue = 1..Len(queue)
         /\ \A i \in 1..Len(queue) : queue[i] \in Kinds \X (1..run)
         /\ queue # <<>> => Len(queue) > 0
<1>1. queue \in Seq(Kinds \X (1..run))
  BY DEF TypeOK, Kinds
<1> QED
  BY <1>1, LenProperties, ElementOfSeq, EmptySeq

LEMMA Posting ==
  ASSUME TypeOK, run > 0, NEW kind \in Kinds, Post(kind)
  PROVE  /\ queue' \in Seq(Kinds \X (1..run)) /\ due' = due
         /\ Len(queue') = Len(queue) + 1 /\ DOMAIN queue' = 1..(Len(queue) + 1)
         /\ \A i \in 1..Len(queue) : queue'[i] = queue[i]
         /\ queue'[Len(queue) + 1] = <<kind, run>>
<1>1. queue \in Seq(Kinds \X (1..run)) /\ <<kind, run>> \in Kinds \X (1..run)
  BY DEF TypeOK, Kinds
<1>2. queue' = Append(queue, <<kind, run>>) /\ due' = due
  BY DEF Post
<1>3. queue' \in Seq(Kinds \X (1..run)) /\ Len(queue') = Len(queue) + 1
  BY <1>1, <1>2, AppendProperties
<1>4. DOMAIN queue' = 1..Len(queue')
  BY <1>3, LenProperties
<1> QED
  BY <1>1, <1>2, <1>3, <1>4, AppendProperties

LEMMA Delivering ==
  ASSUME TypeOK, queue # <<>>, queue' = Tail(queue)
  PROVE  /\ queue' \in Seq(Kinds \X (1..run))
         /\ Len(queue') = Len(queue) - 1 /\ DOMAIN queue' = 1..(Len(queue) - 1)
         /\ \A i \in 1..(Len(queue) - 1) : queue'[i] = queue[i + 1]
<1>1. queue \in Seq(Kinds \X (1..run))
  BY DEF TypeOK, Kinds
<1>2. queue' \in Seq(Kinds \X (1..run)) /\ Len(queue') = Len(queue) - 1
  BY <1>1, HeadTailProperties
<1>3. DOMAIN queue' = 1..Len(queue')
  BY <1>2, LenProperties
<1> QED
  BY <1>1, <1>2, <1>3, HeadTailProperties

LEMMA Delivered ==
  ASSUME TypeOK, Deliver
  PROVE  \/ queue[1][1] = "ask" /\ OnAskDisconnect
         \/ queue[1][1] = "paused" /\ OnPaused
         \/ queue[1][1] \in {"finished", "failed"} /\ OnEnd
<1>1. queue[1][1] \in Kinds
  BY QueueFacts DEF Deliver
<1>2. CASE queue[1][1] = "ask"
  BY <1>2, Zenon DEF Deliver
<1>3. CASE queue[1][1] = "paused"
  BY <1>3 DEF Deliver
<1>4. CASE queue[1][1] = "finished" \/ queue[1][1] = "failed"
  BY <1>4 DEF Deliver
<1> QED
  BY <1>1, <1>2, <1>3, <1>4 DEF Kinds

-----------------------------------------------------------------------------
(* Types.                                                                   *)
LEMMA InitType == Init => TypeInv
<1> SUFFICES ASSUME Init PROVE TypeInv
  OBVIOUS
<1>1. queue \in Seq({"ask", "paused", "finished", "failed"} \X (1..run)) /\ Len(queue) = 0
  BY EmptySeq DEF Init
<1>2. 0 \in 0..Attempts /\ 0 \in 0..MaxRuns
  BY CheckerAssumption
<1>3. tries \in [Endpoints -> 0..Attempts] /\ good \in [Endpoints -> 0..Attempts]
  BY <1>2 DEF Init
<1>4. test \in [Endpoints -> Stages]
  BY DEF Init, Stages
<1>5. {abort, pause, consent, announced, startOn, contOn} \subseteq BOOLEAN
  BY DEF Init
<1> QED
  BY <1>1, <1>2, <1>3, <1>4, <1>5 DEF Init, TypeInv, TypeOK, Stages

(* What the actions of the worker keep, with what each of them changes.     *)
LEMMA WorkerKeeps ==
  ASSUME TypeInv, NEW label \in Labels \ {"none"}, wk # "none", WorkerGoto(label),
         UNCHANGED <<tries, good, busy>>, announced' \in BOOLEAN,
         test' \in [Endpoints -> Stages], batch' \subseteq Endpoints, proc' \subseteq proc,
         made' \in {made, run, 0}, sub' \subseteq Endpoints,
         UNCHANGED <<queue, due>> \/ \E kind \in Kinds : Post(kind)
  PROVE  TypeInv'
<1>1. queue' \in Seq(Kinds \X (1..run)) /\ due' \in 0..Len(queue')
  <2>1. CASE UNCHANGED <<queue, due>>
    BY <2>1 DEF TypeInv, TypeOK, Kinds
  <2>2. CASE \E kind \in Kinds : Post(kind)
    BY <2>2, Posting, QueueFacts DEF TypeInv, TypeOK
  <2> QED
    BY <2>1, <2>2
<1>2. run' = run /\ run > 0 /\ run \in 0..MaxRuns /\ MaxRuns \in Nat
  BY CheckerAssumption DEF TypeInv, TypeOK, WorkerGoto
<1>3. made' \in 0..run /\ proc' \subseteq busy'
  BY <1>2 DEF TypeInv, TypeOK
<1> QED
  BY <1>1, <1>2, <1>3 DEF TypeInv, TypeOK, WorkerGoto, guiVars, Labels, Stages, Kinds

LEMMA StepTypeWorker ==
  ASSUME TypeInv, WorkerStep \/ Break PROVE TypeInv'
<1> USE DEF Labels, Testing, Kinds, Stages, poolVars, fileVars
<1>1. /\ announced \in BOOLEAN /\ test \in [Endpoints -> Stages] /\ batch \subseteq Endpoints
      /\ sub \subseteq Endpoints
  BY DEF TypeInv, TypeOK
<1>2. \A e \in Endpoints : [test EXCEPT ![e] = "recorded"] \in [Endpoints -> Stages]
  BY <1>1
<1>3. WriteOutputs => made' = run /\ sub' \subseteq Endpoints
  BY DEF WriteOutputs, InState
<1>4. CASE Prepare
  BY <1>1, <1>4, WorkerKeeps DEF Prepare
<1>5. CASE Collect
  BY <1>1, <1>5, WorkerKeeps DEF Collect
<1>6. CASE Gate \/ Proceed \/ LoopEnd \/ LoopAbort \/ StayPaused \/ Drain \/ Report
  BY <1>1, <1>6, WorkerKeeps DEF Gate, Proceed, LoopEnd, LoopAbort, StayPaused, Drain, Report
<1>7. CASE Ask \/ Finish \/ Fail
  BY <1>1, <1>7, WorkerKeeps DEF Ask, Finish, Fail
<1>8. CASE BeginTest
  BY <1>1, <1>8, WorkerKeeps DEF BeginTest
<1>9. CASE AnnouncePause
  BY <1>1, <1>3, <1>9, WorkerKeeps DEF AnnouncePause, KillAll
<1>10. CASE Submit
  BY <1>1, <1>10, WorkerKeeps DEF Submit, Fill
<1>11. CASE Wait
  BY <1>1, <1>11, WorkerKeeps DEF Wait, InState
<1>12. ASSUME NEW e \in Endpoints, Gather(e) PROVE TypeInv'
  BY <1>1, <1>2, <1>3, <1>12, WorkerKeeps DEF Gather
<1>13. CASE Final
  BY <1>1, <1>3, <1>13, WorkerKeeps DEF Final, KillAll
<1>14. CASE Break
  BY <1>1, <1>14, WorkerKeeps DEF Break
<1> QED
  BY <1>4, <1>5, <1>6, <1>7, <1>8, <1>9, <1>10, <1>11, <1>12, <1>13, <1>14 DEF WorkerStep

LEMMA StepTypePool ==
  ASSUME TypeInv, PoolInv, NEW e \in Endpoints, BeginAttempt(e) \/ EndAttempt(e) \/ Conclude(e)
  PROVE  TypeInv'
<1>1. CASE BeginAttempt(e)
  BY <1>1 DEF BeginAttempt, TypeInv, TypeOK, workerVars, fileVars, guiVars
<1>2. CASE EndAttempt(e)
  <2>1. tries[e] \in 0..Attempts /\ good[e] \in 0..Attempts /\ good[e] <= tries[e] /\ tries[e] < Attempts
    BY <1>2 DEF EndAttempt, TypeInv, TypeOK, PoolInv
  <2>2. tries[e] + 1 \in 0..Attempts /\ good[e] + 1 \in 0..Attempts
    BY <2>1, CheckerAssumption
  <2>3. tries' \in [Endpoints -> 0..Attempts] /\ good' \in [Endpoints -> 0..Attempts]
    BY <1>2, <2>2 DEF EndAttempt, TypeInv, TypeOK
  <2> QED
    BY <1>2, <2>3 DEF EndAttempt, TypeInv, TypeOK, workerVars, fileVars, guiVars
<1>3. CASE Conclude(e)
  BY <1>3 DEF Conclude, TypeInv, TypeOK, poolVars, fileVars, guiVars
<1> QED
  BY <1>1, <1>2, <1>3

LEMMA StepTypeGui ==
  ASSUME TypeInv, GuiStep PROVE TypeInv'
<1> USE DEF workerVars, poolVars, fileVars, guiVars
<1>1. Handled /\ queue' = queue => due' \in 0..Len(queue')
  BY QueueFacts DEF Handled, TypeInv
<1>2. CASE Start
  <2>1. run \in 0..MaxRuns /\ run + 1 \in 0..MaxRuns /\ 0 \in 0..Attempts
    BY <1>2, CheckerAssumption DEF Start, TypeInv, TypeOK
  <2>2. run' = run + 1 /\ queue' = queue
    BY <1>2 DEF Start
  <2>3. queue' \in Seq(Kinds \X (1..run'))
    <3>1. queue \in Seq(Kinds \X (1..run)) /\ Kinds \X (1..run) \subseteq Kinds \X (1..run')
      BY <2>1, <2>2 DEF TypeInv, TypeOK, Kinds
    <3> QED
      BY <2>2, <3>1
  <2>4. tries' \in [Endpoints -> 0..Attempts] /\ good' \in [Endpoints -> 0..Attempts]
    BY <1>2, <2>1 DEF Start
  <2>5. test' \in [Endpoints -> Stages]
    BY <1>2 DEF Start, Stages
  <2>6. made' \in 0..run'
    BY <1>2, <2>1, <2>2 DEF Start, TypeInv, TypeOK
  <2>7. {abort, pause, consent, announced, startOn, contOn}' \subseteq BOOLEAN
    BY <1>2 DEF Start
  <2> QED
    BY <1>1, <1>2, <2>1, <2>2, <2>3, <2>4, <2>5, <2>6, <2>7 DEF Start, TypeInv, TypeOK, Kinds, Stages
<1>3. CASE Continue
  BY <1>1, <1>3 DEF Continue, TypeInv, TypeOK
<1>4. CASE Stop
  BY <1>1, <1>4 DEF Stop, TypeInv, TypeOK
<1>5. CASE Reset \/ Close
  BY <1>5 DEF Reset, Close, RequestAbort, KillAll, TypeInv, TypeOK
<1>6. CASE ResetDone
  BY <1>1, <1>6 DEF ResetDone, TypeInv, TypeOK
<1>7. CASE Quit \/ Acknowledge
  BY <1>7 DEF Quit, Acknowledge, TypeInv, TypeOK
<1>8. CASE Deliver
  <2>1. queue' \in Seq(Kinds \X (1..run)) /\ due' \in 0..Len(queue')
    BY <1>8, Delivering, QueueFacts DEF Deliver, Handled, TypeInv
  <2>2. /\ {startOn, contOn} \subseteq BOOLEAN /\ dialogs \in Nat /\ step \in {"idle", "running", "done"}
    BY DEF TypeInv, TypeOK
  <2>3. CASE OnAskDisconnect
    <3>1. startOn' = FALSE /\ contOn' = TRUE /\ proc' = proc /\ dialogs' \in Nat /\ step' = "done"
      BY <2>2, <2>3 DEF OnAskDisconnect
    <3> QED
      BY <1>8, <2>1, <2>2, <3>1 DEF Deliver, TypeInv, TypeOK, Kinds
  <2>4. CASE OnPaused
    BY <1>8, <2>1, <2>2, <2>4 DEF OnPaused, Deliver, TypeInv, TypeOK, Kinds
  <2>5. CASE OnEnd
    <3>1. contOn' = FALSE /\ proc' = {} /\ dialogs' \in Nat /\ step' = step
      BY <2>2, <2>5 DEF OnEnd, KillAll
    <3>2. startOn' \in BOOLEAN
      <4>1. startOn' = (step = "idle")
        BY <2>5 DEF OnEnd, StartWhenIdle
      <4>2. CASE step = "idle"
        BY <4>1, <4>2
      <4>3. CASE step # "idle"
        BY <4>1, <4>3
      <4> QED
        BY <4>2, <4>3
    <3> QED
      BY <1>8, <2>1, <2>2, <3>1, <3>2 DEF Deliver, TypeInv, TypeOK, Kinds
  <2> QED
    BY <1>8, <2>3, <2>4, <2>5, Delivered DEF TypeInv
<1> QED
  BY <1>2, <1>3, <1>4, <1>5, <1>6, <1>7, <1>8 DEF GuiStep

LEMMA StepType == ASSUME TypeInv, PoolInv, [Next]_vars PROVE TypeInv'
<1>1. CASE UNCHANGED vars
  BY <1>1 DEF TypeInv, TypeOK, vars, workerVars, poolVars, fileVars, guiVars
<1> QED
  BY <1>1, StepTypeWorker, StepTypePool, StepTypeGui DEF Next, PoolStep

-----------------------------------------------------------------------------
(* The pool.                                                                *)
LEMMA StepPool == ASSUME TypeInv, PoolInv, [Next]_vars PROVE PoolInv'
<1> USE DEF InState, Running
<1>1. /\ test \in [Endpoints -> Stages] /\ busy \subseteq Endpoints
      /\ tries \in [Endpoints -> 0..Attempts] /\ good \in [Endpoints -> 0..Attempts]
      /\ Attempts \in Nat \ {0}
  BY CheckerAssumption DEF TypeInv, TypeOK, Stages
<1>2. ASSUME UNCHANGED <<test, tries, good, busy>>, batch' \subseteq InState("finished"),
             wk' # "gather" => batch' = {},
             wk' \notin {"loop", "wait", "gather", "drain", "failing"} => Running = {}
      PROVE  PoolInv'
  BY <1>2 DEF PoolInv
<1>3. ASSUME Running = {}, wk # "gather", batch' = batch, UNCHANGED <<tries, good, busy>>,
             wk' # "gather", Running' = {} \/ wk' = "loop"
      PROVE  PoolInv'
  <2>1. busy = {} /\ batch = {}
    BY <1>1, <1>3 DEF PoolInv
  <2> QED
    BY <1>3, <2>1 DEF PoolInv
<1>4. CASE Prepare \/ Gate \/ Ask \/ Proceed \/ Report \/ Finish \/ Final
  BY <1>2, <1>4 DEF Prepare, Gate, Ask, Proceed, Report, Finish, Final, WorkerGoto, poolVars, PoolInv
<1>5. CASE Collect
  BY <1>3, <1>5 DEF Collect, WorkerGoto, poolVars, PoolInv
<1>6. CASE BeginTest
  BY <1>3, <1>6 DEF BeginTest, WorkerGoto, poolVars, PoolInv
<1>7. CASE LoopEnd \/ LoopAbort \/ StayPaused \/ AnnouncePause \/ Drain \/ Fail
  BY <1>2, <1>7 DEF LoopEnd, LoopAbort, StayPaused, AnnouncePause, Drain, Fail, WorkerGoto, poolVars, PoolInv
<1>8. CASE Submit
  BY <1>1, <1>8 DEF Submit, Fill, WorkerGoto, poolVars, PoolInv
<1>9. CASE Wait
  BY <1>2, <1>9 DEF Wait, WorkerGoto, poolVars, PoolInv
<1>10. ASSUME NEW e \in Endpoints, Gather(e) PROVE PoolInv'
  BY <1>1, <1>10 DEF Gather, WorkerGoto, poolVars, PoolInv
<1>11. CASE Break
  BY <1>2, <1>11 DEF Break, WorkerGoto, poolVars, PoolInv
<1>12. ASSUME NEW e \in Endpoints, BeginAttempt(e) PROVE PoolInv'
  BY <1>1, <1>12 DEF BeginAttempt, workerVars, PoolInv
<1>13. ASSUME NEW e \in Endpoints, EndAttempt(e) PROVE PoolInv'
  <2>1. /\ UNCHANGED <<wk, test, batch>> /\ busy' = busy \ {e}
        /\ tries' = [tries EXCEPT ![e] = @ + 1]
        /\ good' = good \/ good' = [good EXCEPT ![e] = @ + 1]
    BY <1>13 DEF EndAttempt, workerVars
  <2>2. \A d \in Endpoints : good'[d] <= tries'[d]
    BY <1>1, <2>1 DEF PoolInv
  <2>3. \A d \in busy' : test'[d] = "running" /\ tries'[d] < Attempts
    BY <1>1, <2>1 DEF PoolInv
  <2> QED
    BY <2>1, <2>2, <2>3 DEF PoolInv
<1>14. ASSUME NEW e \in Endpoints, Conclude(e) PROVE PoolInv'
  BY <1>1, <1>14 DEF Conclude, poolVars, PoolInv
<1>15. CASE Start
  BY <1>1, <1>15 DEF Start, IsRunning, PoolInv
<1>16. CASE Continue \/ Stop \/ Reset \/ ResetDone \/ Close \/ Quit \/ Acknowledge \/ Deliver \/ UNCHANGED vars
  <2>1. UNCHANGED <<wk, test, batch, tries, good, busy>>
    BY <1>16 DEF Continue, Stop, Reset, ResetDone, Close, Quit, Acknowledge, Deliver, vars, workerVars, poolVars
  <2> QED
    BY <2>1 DEF PoolInv
<1> QED
  BY <1>4, <1>5, <1>6, <1>7, <1>8, <1>9, <1>10, <1>11, <1>12, <1>13, <1>14, <1>15, <1>16
     DEF Next, WorkerStep, PoolStep, GuiStep

-----------------------------------------------------------------------------
(* What becomes of the signals that wait in the queue.                      *)
LEMMA PostedMore ==
  ASSUME TypeInv, wk # "none", NEW kind \in Kinds, Post(kind), run' = run, NEW s \in Kinds
  PROVE  /\ Pending(s)' <=> (Pending(s) \/ s = kind)
         /\ Posted(s)' <=> (Posted(s) \/ s = kind)
<1>1. TypeOK /\ run > 0 /\ Len(queue) \in Nat
  BY QueueFacts DEF TypeInv
<1>2. \A i \in DOMAIN queue' : (i \in DOMAIN queue /\ queue'[i] = queue[i]) \/ queue'[i] = <<kind, run>>
  BY <1>1, Posting, QueueFacts
<1>3. \A i \in DOMAIN queue : i \in DOMAIN queue' /\ queue'[i] = queue[i]
  BY <1>1, Posting, QueueFacts
<1>4. \E i \in DOMAIN queue' : queue'[i] = <<kind, run>>
  BY <1>1, Posting
<1> QED
  BY <1>2, <1>3, <1>4 DEF Pending, Posted

LEMMA PostedLess ==
  ASSUME TypeOK, queue # <<>>, queue' = Tail(queue), run' = run, NEW s \in Kinds
  PROVE  /\ Pending(s)' => Pending(s)
         /\ Posted(s)' => Posted(s)
         /\ Pending(s) => Pending(s)' \/ queue[1] = <<s, run>>
<1>1. \A i \in DOMAIN queue' : i + 1 \in DOMAIN queue /\ queue'[i] = queue[i + 1]
  BY Delivering, QueueFacts
<1>2. \A i \in DOMAIN queue : i = 1 \/ (i - 1 \in DOMAIN queue' /\ queue'[i - 1] = queue[i])
  BY Delivering, QueueFacts
<1> QED
  BY <1>1, <1>2 DEF Pending, Posted

LEMMA NoneOfNextRun ==
  ASSUME TypeOK, queue' = queue, run' = run + 1, NEW s \in Kinds PROVE ~Pending(s)'
<1>1. \A i \in DOMAIN queue : queue[i][2] \in 1..run /\ run \in Nat
  BY QueueFacts, CheckerAssumption DEF TypeOK
<1> QED
  BY <1>1 DEF Pending

-----------------------------------------------------------------------------
(* The results.                                                             *)
LEMMA PoolQuiet ==
  ASSUME TypeInv, PoolInv, NEW e \in Endpoints, BeginAttempt(e) \/ EndAttempt(e) \/ Conclude(e)
  PROVE  test[e] = "running" /\ wk \in {"loop", "wait", "gather", "drain", "failing"}
<1>1. test[e] = "running"
  BY DEF BeginAttempt, EndAttempt, Conclude, PoolInv
<1> QED
  BY <1>1 DEF PoolInv, Running, InState

LEMMA StepResultWorker ==
  ASSUME TypeInv, PoolInv, ResultInv, WorkerStep \/ Break PROVE ResultInv'
<1> USE DEF WorkerGoto, poolVars, fileVars, Testing
<1>1. /\ wk # "ended" /\ wk # "none" /\ run' = run /\ abort' = abort /\ good' = good
      /\ test \in [Endpoints -> Stages]
  BY DEF WorkerStep, Prepare, Collect, Gate, Ask, Proceed, BeginTest, LoopEnd, LoopAbort, AnnouncePause,
         StayPaused, Submit, Wait, Gather, Drain, Final, Report, Finish, Fail, Break, KillAll,
         TypeInv, TypeOK, Stages
<1>2. ~Pending("finished")
  BY <1>1 DEF ResultInv
<1>3. ASSUME UNCHANGED queue \/ \E kind \in Kinds \ {"finished"} : Post(kind) PROVE ~Pending("finished")'
  <2>1. CASE UNCHANGED queue
    BY <1>1, <1>2, <2>1 DEF Pending
  <2>2. ASSUME NEW kind \in Kinds \ {"finished"}, Post(kind) PROVE ~Pending("finished")'
    BY <1>1, <1>2, <2>2, PostedMore DEF Kinds
  <2> QED
    BY <1>3, <2>1, <2>2
<1>4. WriteOutputs => made' = run' /\ sub' = Alive'
  BY <1>1 DEF WriteOutputs, Alive, Ok, InState
<1>5. CASE Prepare \/ Collect \/ Gate \/ Ask \/ Proceed \/ Fail
  BY <1>1, <1>3, <1>5 DEF Prepare, Collect, Gate, Ask, Proceed, Fail, ResultInv, Kinds
<1>6. CASE BeginTest
  BY <1>1, <1>3, <1>6 DEF BeginTest, ResultInv, InState
<1>7. CASE LoopEnd
  <2>1. AllDone
    BY <1>1, <1>7 DEF LoopEnd, WorkLeft, Running, InState, ResultInv, AllDone, Stages
  <2> QED
    BY <1>1, <1>3, <1>7, <2>1 DEF LoopEnd, ResultInv, InState, AllDone
<1>8. CASE LoopAbort \/ StayPaused \/ Wait
  BY <1>1, <1>3, <1>8 DEF LoopAbort, StayPaused, Wait, ResultInv, InState
<1>9. CASE AnnouncePause
  BY <1>1, <1>3, <1>9 DEF AnnouncePause, ResultInv, InState, Kinds
<1>10. CASE Submit
  BY <1>1, <1>3, <1>10 DEF Submit, Fill, ResultInv, InState
<1>11. ASSUME NEW e \in Endpoints, Gather(e) PROVE ResultInv'
  BY <1>1, <1>3, <1>11 DEF Gather, ResultInv, InState
<1>12. CASE Drain
  BY <1>1, <1>3, <1>12 DEF Drain, ResultInv, InState, AllDone
<1>13. CASE Final
  BY <1>1, <1>3, <1>4, <1>13 DEF Final, ResultInv, InState, AllDone
<1>14. CASE Report
  BY <1>1, <1>3, <1>14 DEF Report, ResultInv, InState, AllDone, Alive, Ok
<1>15. CASE Finish
  BY <1>1, <1>15 DEF Finish, ResultInv, InState, AllDone, Alive, Ok
<1>16. CASE Break
  BY <1>1, <1>3, <1>16 DEF Break, ResultInv
<1> QED
  BY <1>5, <1>6, <1>7, <1>8, <1>9, <1>10, <1>11, <1>12, <1>13, <1>14, <1>15, <1>16 DEF WorkerStep

LEMMA StepResult == ASSUME TypeInv, PoolInv, ResultInv, [Next]_vars PROVE ResultInv'
<1>1. ASSUME NEW e \in Endpoints, BeginAttempt(e) \/ EndAttempt(e) \/ Conclude(e) PROVE ResultInv'
  <2>1. /\ test[e] = "running" /\ wk \in {"loop", "wait", "gather", "drain", "failing"}
        /\ UNCHANGED <<wk, abort, run, queue>> /\ test \in [Endpoints -> Stages]
    BY <1>1, PoolQuiet DEF BeginAttempt, EndAttempt, Conclude, workerVars, TypeInv, TypeOK, Stages
  <2>2. InState("collected")' \subseteq InState("collected")
    BY <1>1, <2>1 DEF BeginAttempt, EndAttempt, Conclude, workerVars, InState
  <2>3. ~AllDone /\ ~Pending("finished")'
    BY <2>1 DEF AllDone, ResultInv, Pending
  <2> QED
    BY <2>1, <2>2, <2>3 DEF ResultInv
<1>2. CASE Start
  <2>1. ~Pending("finished")'
    BY <1>2, NoneOfNextRun DEF Start, TypeInv, Kinds
  <2> QED
    BY <1>2, <2>1 DEF Start, ResultInv, Testing
<1>3. ASSUME UNCHANGED <<wk, run, test, good, made, sub>>, abort => abort', Pending("finished")' => Pending("finished")
      PROVE  ResultInv'
  BY <1>3 DEF ResultInv, InState, AllDone, Alive, Ok
<1>4. CASE Continue \/ Stop \/ Reset \/ ResetDone \/ Close \/ Quit \/ Acknowledge \/ UNCHANGED vars
  <2>1. UNCHANGED <<wk, run, test, good, made, sub, queue>> /\ (abort => abort')
    BY <1>4 DEF Continue, Stop, Reset, ResetDone, Close, Quit, Acknowledge, RequestAbort, vars, workerVars,
                poolVars, fileVars
  <2> QED
    BY <1>3, <2>1 DEF Pending
<1>5. CASE Deliver
  BY <1>3, <1>5, PostedLess DEF Deliver, workerVars, fileVars, TypeInv, Kinds
<1> QED
  BY <1>1, <1>2, <1>4, <1>5, StepResultWorker DEF Next, PoolStep, GuiStep

-----------------------------------------------------------------------------
(* The request to disconnect.                                               *)
LEMMA StepConsentWorker ==
  ASSUME TypeInv, ConsentInv, WorkerStep \/ Break PROVE ConsentInv'
<1> USE DEF WorkerGoto
<1>1. /\ wk \notin {"none", "ended"} /\ IsRunning
      /\ UNCHANGED <<run, abort, pause, consent, gui, startOn, contOn, step>>
      /\ wk' \in Testing => wk \in Testing \/ (wk = "waiting" /\ consent)
  BY DEF WorkerStep, Prepare, Collect, Gate, Ask, Proceed, BeginTest, LoopEnd, LoopAbort, AnnouncePause,
         StayPaused, Submit, Wait, Gather, Drain, Final, Report, Finish, Fail, Break, guiVars, IsRunning, Testing
<1>2. UNCHANGED <<queue, due>> \/ \E kind \in Kinds : Post(kind) /\ (kind = "paused" => wk = "loop" /\ ~abort)
  BY DEF WorkerStep, Prepare, Collect, Gate, Ask, Proceed, BeginTest, LoopEnd, LoopAbort, AnnouncePause,
         StayPaused, Submit, Wait, Gather, Drain, Final, Report, Finish, Fail, Break, Kinds
<1>3. Posted("paused")' => Posted("paused") \/ (wk = "loop" /\ ~abort)
  <2>1. CASE UNCHANGED <<queue, due>>
    BY <2>1 DEF Posted
  <2>2. ASSUME NEW kind \in Kinds, Post(kind), kind = "paused" => wk = "loop" /\ ~abort
        PROVE  Posted("paused")' => Posted("paused") \/ (wk = "loop" /\ ~abort)
    BY <1>1, <2>2, PostedMore DEF Kinds
  <2> QED
    BY <1>2, <2>1, <2>2
<1>4. startOn' => \A i \in DOMAIN queue' : i > due' => queue'[i][1] # "paused"
  <2> SUFFICES ASSUME startOn PROVE \A i \in DOMAIN queue' : i > due' => queue'[i][1] # "paused"
    BY <1>1
  <2>1. abort /\ \A i \in DOMAIN queue : i > due => queue[i][1] # "paused"
    BY <1>1 DEF ConsentInv
  <2>2. CASE UNCHANGED <<queue, due>>
    BY <2>1, <2>2
  <2>3. ASSUME NEW kind \in Kinds, Post(kind), kind # "paused"
        PROVE  \A i \in DOMAIN queue' : i > due' => queue'[i][1] # "paused"
    <3>1. run > 0 /\ TypeOK /\ Len(queue) \in Nat /\ DOMAIN queue = 1..Len(queue)
      BY <1>1, QueueFacts DEF TypeInv
    <3>2. \A i \in DOMAIN queue' : (i \in DOMAIN queue /\ queue'[i] = queue[i]) \/ queue'[i] = <<kind, run>>
      BY <2>3, <3>1, Posting
    <3>3. due' = due
      BY <2>3 DEF Post
    <3> QED
      BY <2>1, <2>3, <3>2, <3>3
  <2> QED
    BY <1>2, <2>1, <2>2, <2>3
<1>5. IsRunning /\ ~abort /\ (consent \/ (contOn /\ ~pause) \/ Posted("paused")' \/ wk' \in Testing) => step = "done"
  BY <1>1, <1>3 DEF ConsentInv, Testing
<1> QED
  BY <1>1, <1>4, <1>5 DEF ConsentInv

LEMMA StepConsentGui ==
  ASSUME TypeInv, ConsentInv, GuiStep PROVE ConsentInv'
<1> USE DEF workerVars, poolVars, fileVars, guiVars, Clickable, IsRunning
<1>1. Handled /\ TypeOK' => \A i \in DOMAIN queue' : i > due' => queue'[i][1] # "paused"
  <2>1. TypeOK' => DOMAIN queue' = 1..Len(queue') /\ Len(queue') \in Nat
    <3>1. TypeOK' => queue' \in Seq(Kinds \X (1..run'))
      BY DEF TypeOK, Kinds
    <3> QED
      BY <3>1, LenProperties
  <2> QED
    BY <2>1 DEF Handled
<1>2. TypeOK'
  BY StepTypeGui DEF TypeInv
<1>3. CASE Start
  <2>1. ~Posted("paused")
    BY <1>3, QueueFacts DEF Start, ConsentInv, Posted, TypeInv
  <2>2. ~Posted("paused")'
    BY <1>3, <2>1 DEF Start, Posted
  <2> QED
    BY <1>3, <2>2 DEF Start, ConsentInv, Testing
<1>4. CASE Continue
  BY <1>1, <1>2, <1>4 DEF Continue, ConsentInv, Posted
<1>5. CASE Stop
  BY <1>1, <1>2, <1>5 DEF Stop, ConsentInv, Posted
<1>6. CASE Reset \/ Close
  BY <1>6 DEF Reset, Close, RequestAbort, ConsentInv, Posted
<1>7. CASE ResetDone
  BY <1>1, <1>2, <1>7 DEF ResetDone, ConsentInv, Posted
<1>8. CASE Quit \/ Acknowledge
  BY <1>8 DEF Quit, Acknowledge, ConsentInv, Posted
<1>9. CASE Deliver
  <2>1. /\ Handled /\ gui' = "open" /\ queue # <<>> /\ queue' = Tail(queue)
        /\ UNCHANGED <<wk, run, abort, pause, consent>>
    BY <1>9 DEF Deliver
  <2>2. Posted("paused")' => Posted("paused")
    BY <2>1, PostedLess DEF TypeInv, Kinds
  <2>3. CASE OnAskDisconnect
    BY <1>1, <1>2, <2>1, <2>2, <2>3 DEF OnAskDisconnect, ConsentInv
  <2>4. CASE queue[1][1] = "paused" /\ OnPaused
    <3>1. Posted("paused")
      BY <2>1, <2>4, QueueFacts DEF Posted, TypeInv
    <3> QED
      BY <1>1, <1>2, <2>1, <2>2, <2>4, <3>1 DEF OnPaused, ConsentInv
  <2>5. CASE OnEnd
    BY <1>1, <1>2, <2>1, <2>2, <2>5 DEF OnEnd, StartWhenIdle, ConsentInv
  <2> QED
    BY <1>9, <2>3, <2>4, <2>5, Delivered DEF TypeInv
<1> QED
  BY <1>3, <1>4, <1>5, <1>6, <1>7, <1>8, <1>9 DEF GuiStep

LEMMA StepConsent == ASSUME TypeInv, ConsentInv, [Next]_vars PROVE ConsentInv'
<1>1. ASSUME UNCHANGED <<wk, run, abort, pause, consent, queue, due, gui, startOn, contOn, step>> PROVE ConsentInv'
  BY <1>1 DEF ConsentInv, IsRunning, Posted
<1>2. ASSUME NEW e \in Endpoints, PoolStep(e) PROVE ConsentInv'
  BY <1>1, <1>2 DEF PoolStep, BeginAttempt, EndAttempt, Conclude, workerVars, guiVars
<1>3. CASE UNCHANGED vars
  BY <1>1, <1>3 DEF vars, workerVars, guiVars
<1> QED
  BY <1>2, <1>3, StepConsentWorker, StepConsentGui DEF Next

-----------------------------------------------------------------------------
(* The wait for the user.                                                   *)
LEMMA StepWaitWorker ==
  ASSUME TypeInv, WaitInv, WorkerStep \/ Break, stopShown' = stopShown PROVE WaitInv'
<1> USE DEF WorkerGoto
<1>1. UNCHANGED <<run, pause, consent>>
  BY DEF WorkerStep, Prepare, Collect, Gate, Ask, Proceed, BeginTest, LoopEnd, LoopAbort, AnnouncePause,
         StayPaused, Submit, Wait, Gather, Drain, Final, Report, Finish, Fail, Break
<1>2. CASE Prepare \/ Collect \/ Gate
  BY <1>1, <1>2 DEF Prepare, Collect, Gate, WaitInv, Pending
<1>3. CASE Ask
  <2>1. wk = "ask" /\ wk' = "waiting" /\ Post("ask") /\ ~Pending("ask")
    BY <1>3 DEF Ask, WaitInv
  <2>2. run > 0 /\ TypeOK /\ Len(queue) \in Nat /\ DOMAIN queue = 1..Len(queue)
    BY <2>1, QueueFacts DEF TypeInv
  <2>3. /\ DOMAIN queue' = 1..(Len(queue) + 1) /\ Len(queue') = Len(queue) + 1
        /\ \A i \in 1..Len(queue) : queue'[i] = queue[i]
        /\ queue'[Len(queue) + 1] = <<"ask", run>>
    BY <2>1, <2>2, Posting DEF Kinds
  <2>4. \A i \in DOMAIN queue' : queue'[i] = <<"ask", run>> => i = Len(queue')
    BY <2>1, <2>2, <2>3 DEF Pending
  <2>5. Pending("ask")'
    BY <1>1, <2>2, <2>3 DEF Pending
  <2> QED
    BY <1>1, <2>1, <2>4, <2>5 DEF WaitInv
<1>4. CASE ~(Prepare \/ Collect \/ Gate \/ Ask)
  <2>1. wk' \notin {"prepare", "collect", "gate", "ask", "waiting"}
    BY <1>4 DEF WorkerStep, Proceed, BeginTest, LoopEnd, LoopAbort, AnnouncePause, StayPaused, Submit, Wait,
                Gather, Drain, Final, Report, Finish, Fail, Break
  <2> QED
    BY <1>1, <2>1 DEF WaitInv
<1> QED
  BY <1>2, <1>3, <1>4

LEMMA StepWaitGui ==
  ASSUME TypeInv, ConsentInv, WaitInv, GuiStep PROVE WaitInv'
<1> USE DEF workerVars, poolVars, fileVars, guiVars, IsRunning
<1>1. stopShown' = stopShown
  BY DEF GuiStep
<1>2. CASE Start
  <2>1. ~Pending("ask")'
    BY <1>2, NoneOfNextRun DEF Start, TypeInv, Kinds
  <2> QED
    BY <1>2, <2>1 DEF Start, WaitInv
<1>3. ASSUME UNCHANGED <<wk, run, queue>>, ~stopShown => ~pause',
             wk = "waiting" /\ ~consent' /\ ~stopShown => ~consent /\ (contOn => contOn')
      PROVE  WaitInv'
  BY <1>1, <1>3 DEF WaitInv, Pending
<1>4. CASE Continue \/ Stop \/ Quit \/ Acknowledge
  BY <1>3, <1>4 DEF Continue, Stop, Quit, Acknowledge, WaitInv
<1>5. CASE Reset \/ Close
  BY <1>3, <1>5 DEF Reset, Close, RequestAbort, WaitInv
<1>6. CASE ResetDone
  BY <1>3, <1>6 DEF ResetDone, WaitInv, ConsentInv
<1>7. CASE Deliver
  <2>1. /\ UNCHANGED <<wk, run, pause, consent>> /\ queue # <<>> /\ queue' = Tail(queue) /\ TypeOK
        /\ Len(queue) \in Nat /\ DOMAIN queue = 1..Len(queue)
    BY <1>7, QueueFacts DEF Deliver, TypeInv
  <2>2. /\ Len(queue') = Len(queue) - 1 /\ DOMAIN queue' = 1..(Len(queue) - 1)
        /\ \A i \in 1..(Len(queue) - 1) : queue'[i] = queue[i + 1]
        /\ queue' \in Seq(Kinds \X (1..run))
    BY <2>1, Delivering
  <2>3. Pending("ask")' => Pending("ask")
    BY <2>1, PostedLess DEF Kinds
  <2>4. wk = "waiting" => \A i \in DOMAIN queue' : queue'[i] = <<"ask", run>> => i = Len(queue')
    <3> SUFFICES ASSUME wk = "waiting", NEW i \in DOMAIN queue', queue'[i] = <<"ask", run>>
                 PROVE  i = Len(queue')
      OBVIOUS
    <3>1. i + 1 \in DOMAIN queue /\ queue[i + 1] = <<"ask", run>>
      BY <2>1, <2>2
    <3>2. i + 1 = Len(queue)
      BY <3>1 DEF WaitInv
    <3> QED
      BY <2>1, <2>2, <3>2
  <2>5. ASSUME wk = "waiting", ~consent, ~stopShown PROVE Pending("ask")' \/ (contOn' /\ queue' = <<>>)
    <3>1. Pending("ask")' \/ queue[1] = <<"ask", run>>
      BY <2>1, <2>5, PostedLess DEF WaitInv, Kinds
    <3>2. CASE queue[1] = <<"ask", run>>
      <4>1. 1 \in DOMAIN queue
        BY <2>1, QueueFacts
      <4>2. Len(queue) = 1
        BY <2>5, <3>2, <4>1 DEF WaitInv
      <4>3. queue' = <<>>
        BY <2>2, <4>2, EmptySeq
      <4>4. contOn'
        BY <1>7, <2>1, <3>2, Delivered DEF OnAskDisconnect
      <4> QED
        BY <4>3, <4>4
    <3> QED
      BY <3>1, <3>2
  <2> QED
    BY <1>1, <2>1, <2>3, <2>4, <2>5 DEF WaitInv
<1> QED
  BY <1>2, <1>4, <1>5, <1>6, <1>7 DEF GuiStep

LEMMA StepWait == ASSUME TypeInv, ConsentInv, WaitInv, [Next]_vars PROVE WaitInv'
<1>1. ASSUME UNCHANGED <<wk, run, pause, consent, queue, contOn, stopShown>> PROVE WaitInv'
  BY <1>1 DEF WaitInv, Pending
<1>2. ASSUME NEW e \in Endpoints, PoolStep(e) PROVE WaitInv'
  BY <1>1, <1>2 DEF PoolStep, BeginAttempt, EndAttempt, Conclude, workerVars, guiVars
<1>3. CASE UNCHANGED vars
  BY <1>1, <1>3 DEF vars, workerVars, guiVars
<1> QED
  BY <1>2, <1>3, StepWaitWorker, StepWaitGui DEF Next, WorkerStep

-----------------------------------------------------------------------------
LEMMA InitInv == Init => IInv
<1> SUFFICES ASSUME Init PROVE IInv
  OBVIOUS
<1>1. TypeInv
  BY InitType
<1>2. \A s \in Kinds : ~Pending(s) /\ ~Posted(s)
  BY DEF Init, Pending, Posted
<1>3. PoolInv
  BY DEF Init, PoolInv, InState, Running
<1>4. ResultInv /\ WaitInv /\ ConsentInv
  BY <1>2 DEF Init, ResultInv, WaitInv, ConsentInv, Testing, IsRunning, Kinds
<1> QED
  BY <1>1, <1>3, <1>4 DEF IInv

LEMMA StepInv == IInv /\ [Next]_vars => IInv'
BY StepType, StepPool, StepResult, StepConsent, StepWait DEF IInv

\* Every variable keeps its type: no attempt is made beyond the limit, only a
\* running attempt has a process, and a signal is of a run that was started.
THEOREM AlwaysTyped == Spec => []TypeOK
<1>1. IInv => TypeOK
  BY DEF IInv, TypeInv
<1> QED
  BY <1>1, InitInv, StepInv, PTL DEF Spec

\* No run that was not aborted reaches its real test before the window, since
\* the start of that run, has asked the user to disconnect, whatever signals
\* of older runs are still under way (app.py:158-165).
THEOREM AskedBeforeTest == Spec => []TestAfterConsent
<1>1. IInv => TestAfterConsent
  BY DEF IInv, ConsentInv, TestAfterConsent, IsRunning, Testing
<1> QED
  BY <1>1, InitInv, StepInv, PTL DEF Spec

\* While the end of a run waits to be shown, the files list exactly the good
\* endpoints of that run and every endpoint has its verdict (app.py:166-168).
THEOREM ShownFilesAreComplete == Spec => []FinishedIsComplete
<1>1. IInv => FinishedIsComplete
  BY DEF IInv, ResultInv, FinishedIsComplete, AllDone
<1> QED
  BY <1>1, InitInv, StepInv, PTL DEF Spec

\* A worker that waits for the user is never left without an enabled Continue
\* button or the signal that enables it, unless the pause button was there to
\* take it away.
THEOREM NeverStuckWaiting == Spec => []WaitingCanContinue
<1>1. IInv => WaitingCanContinue
  BY DEF IInv, WaitInv, WaitingCanContinue
<1> QED
  BY <1>1, InitInv, StepInv, PTL DEF Spec
=============================================================================
