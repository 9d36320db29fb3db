--------------------------- MODULE RetryQueue_proofs ---------------------------
(***************************************************************************)
(* For any numbers of names, clicks, starts, writes and nested message      *)
(* boxes, and both readings of a stored False.                              *)
(***************************************************************************)
EXTENDS RetryQueue, SequenceTheorems, TLAPS

(* The flag can be set and a call can be made only while the window exists; *)
(* without that a start could take the timers away from a set flag.         *)
QueueInv ==
  /\ ~up => ~scheduled /\ call = Idle
  /\ FlagMeansTimer

(* A call that has its repository has the stored one, and none is created   *)
(* while one is stored.                                                     *)
RepoInv ==
  stored # None =>
    /\ call.at \in {"store", "compare", "commit", "verify"} => call.repo = stored
    /\ call.at # "create"

(* A publication that began after the worker's end was handled has the files *)
(* of that run; without one, what is not pending is what GitHub holds.      *)
(* Each request is made by the handler that needs it, with a repository.    *)
PublishInv ==
  /\ call.at = "lookup" => stored # None
  /\ call.at \in {"store", "compare", "commit", "verify"} => call.repo # None
  /\ call.at \in {"compare", "commit", "verify"} => call.kind = "publish"
  /\ call.at = "store" => call.kind = "create"
  /\ call.at # "idle" => call.kind # "none"
  /\ wk = "told" /\ call.kind = "publish" =>
       call.sub = files.sub /\ (call.at # "proxy" => call.proxy = files.proxy)
  /\ wk = "told" /\ call.kind # "publish" /\ pending["publish"] # "true" =>
       stored # None /\ remote[stored] = <<files.sub, files.proxy>>

LEMMA IdleType == Idle \in Calls /\ Idle.at = "idle" /\ Idle.repo = None
<1>1. 0 \in Numbers
  BY RetryAssumption DEF Numbers
<1> QED
  BY <1>1 DEF Idle, Calls, Handlers

LEMMA InitTypeOK == Init => TypeOK
<1> SUFFICES ASSUME Init PROVE TypeOK
  OBVIOUS
<1>1. 0 \in Numbers /\ 0 \in 0..MaxStarts /\ 0 \in 0..MaxClicks /\ 0 \in 0..MaxEdits
  BY RetryAssumption DEF Numbers
<1>2. <<>> \in Seq(BoxKinds)
  BY EmptySeq
<1>3. pending \in [Handlers -> Flags] /\ timers \in [Handlers -> Nat]
  BY DEF Init, Handlers, Flags
<1>4. files \in [{"sub", "proxy"} -> Numbers]
  BY <1>1 DEF Init
<1> QED
  BY <1>1, <1>2, <1>3, <1>4, IdleType DEF Init, TypeOK

(* The parts that several actions share keep the types of what they change. *)
LEMMA PushType ==
  ASSUME TypeOK, NEW b \in BoxKinds
  PROVE  Append(boxes, b) \in Seq(BoxKinds)
BY AppendProperties DEF TypeOK

LEMMA BeginType ==
  ASSUME TypeOK, NEW h \in Handlers, NEW by \in {"user", "timer", "finish"}, Begin(h, by)
  PROVE  call' \in Calls /\ boxes' \in Seq(BoxKinds) /\ scheduled' = FALSE
<1>1. files.sub \in Numbers /\ 0 \in Numbers
  BY RetryAssumption DEF TypeOK, Numbers
<1>2. CASE typed
  BY <1>1, <1>2, IdleType DEF Begin, Calls, Idle, TypeOK
<1>3. CASE ~typed
  BY <1>3, PushType DEF Begin, BoxKinds, TypeOK
<1> QED
  BY <1>2, <1>3 DEF Begin

LEMMA ScheduleType ==
  ASSUME TypeOK, NEW h \in Handlers, Schedule(h)
  PROVE  scheduled' \in BOOLEAN /\ timers' \in [Handlers -> Nat]
<1>1. timers \in [Handlers -> Nat] /\ timers[h] + 1 \in Nat /\ scheduled \in BOOLEAN
  BY DEF TypeOK
<1>2. [timers EXCEPT ![h] = @ + 1] \in [Handlers -> Nat]
  BY <1>1
<1> QED
  BY <1>1, <1>2 DEF Schedule, queueVars

LEMMA TimerDown ==
  ASSUME TypeOK, NEW h \in Handlers, timers[h] > 0
  PROVE  [timers EXCEPT ![h] = @ - 1] \in [Handlers -> Nat]
<1>1. timers \in [Handlers -> Nat] /\ timers[h] - 1 \in Nat
  BY DEF TypeOK
<1> QED
  BY <1>1

LEMMA FailType ==
  ASSUME TypeOK, Fail
  PROVE  /\ call' \in Calls /\ boxes' \in Seq(BoxKinds) /\ pending' \in [Handlers -> Flags]
         /\ scheduled' \in BOOLEAN /\ timers' \in [Handlers -> Nat]
<1>1. pending' \in [Handlers -> Flags] /\ call' \in Calls
  BY IdleType DEF Fail, TypeOK, Flags
<1>2. boxes' \in Seq(BoxKinds)
  BY PushType DEF Fail, BoxKinds, TypeOK
<1>3. scheduled' \in BOOLEAN /\ timers' \in [Handlers -> Nat]
  BY ScheduleType DEF Fail, Handlers, queueVars, TypeOK
<1> QED
  BY <1>1, <1>2, <1>3

LEMMA SucceedType ==
  ASSUME TypeOK, Succeed
  PROVE  /\ call' \in Calls /\ boxes' \in Seq(BoxKinds) /\ pending' \in [Handlers -> Flags]
         /\ scheduled' \in BOOLEAN /\ timers' = timers /\ stored' \in Repos \cup {None}
<1>1. pending' \in [Handlers -> Flags] /\ call' \in Calls /\ stored' \in Repos \cup {None}
  BY IdleType DEF Succeed, TypeOK, Flags, Calls
<1>2. boxes' \in Seq(BoxKinds)
  BY PushType DEF Succeed, BoxKinds, TypeOK
<1> QED
  BY <1>1, <1>2 DEF Succeed, TypeOK

LEMMA GoesType ==
  ASSUME TypeOK,
         NEW at \in {"lookup", "create", "commit", "verify"}, Goes(at)
  PROVE  call' \in Calls
BY DEF TypeOK, Goes, Calls

LEMMA ReadyType ==
  ASSUME TypeOK, NEW r \in Repos \cup {None}, Ready(r)
  PROVE  call' \in Calls
BY DEF TypeOK, Ready, Calls

LEMMA StepTypeOK == TypeOK /\ [Next]_vars => TypeOK'
<1> SUFFICES ASSUME TypeOK, [Next]_vars PROVE TypeOK'
  OBVIOUS
<1>1. CASE Start
  <2>1. timers' \in [Handlers -> Nat]
    BY <1>1 DEF Start, Handlers
  <2>2. starts' \in 0..MaxStarts
    BY <1>1, RetryAssumption DEF Start, TypeOK
  <2> QED
    BY <1>1, <2>1, <2>2 DEF Start, TypeOK, settings, workerVars
<1>2. CASE End
  BY <1>2, IdleType, EmptySeq DEF End, TypeOK, boundVars, settings
<1>3. CASE EditToken
  <2>1. edits' \in 0..MaxEdits
    BY <1>3, RetryAssumption DEF EditToken, TypeOK
  <2> QED
    BY <1>3, <2>1 DEF EditToken, TypeOK, settings, queueVars, workerVars
<1>4. CASE Save
  <2>1. boxes' \in Seq(BoxKinds)
    BY <1>4 DEF Save, BoxKinds
  <2> QED
    BY <1>4, <2>1 DEF Save, TypeOK, boundVars, queueVars, workerVars
<1>5. ASSUME NEW h \in Handlers, Click(h) PROVE TypeOK'
  <2>1. clicks' \in 0..MaxClicks
    BY <1>5, RetryAssumption DEF Click, TypeOK
  <2>2. Begin(h, "user")
    BY <1>5 DEF Click
  <2> QED
    BY <1>5, <2>1, <2>2, BeginType DEF Click, Begin, TypeOK, settings
<1>6. ASSUME NEW h \in Handlers, Fire(h) PROVE TypeOK'
  <2>1. Begin(h, "timer") /\ timers' \in [Handlers -> Nat]
    BY <1>6, TimerDown DEF Fire
  <2> QED
    BY <1>6, <2>1, BeginType DEF Fire, Begin, TypeOK, settings
<1>7. CASE Finished
  <2>1. Begin("publish", "finish") /\ "publish" \in Handlers
    BY <1>7 DEF Finished, Handlers
  <2> QED
    BY <1>7, <2>1, BeginType DEF Finished, Begin, TypeOK, settings
<1>8. CASE CloseBox
  <2>1. boxes' \in Seq(BoxKinds)
    <3>1. boxes \in Seq(BoxKinds) /\ Len(boxes) \in Nat
      BY LenProperties DEF TypeOK
    <3>2. \A i \in 1..(Len(boxes) - 1) : boxes[i] \in BoxKinds
      BY <3>1, ElementOfSeq
    <3>3. 1 \in Int /\ Len(boxes) - 1 \in Int
      BY <3>1
    <3> QED
      BY <1>8, <3>2, <3>3, SubSeqProperties DEF CloseBox
  <2>2. scheduled' \in BOOLEAN /\ timers' \in [Handlers -> Nat]
    <3>1. CASE boxes[Len(boxes)] = "create"
      BY <1>8, <3>1, ScheduleType DEF CloseBox, Handlers
    <3>2. CASE boxes[Len(boxes)] = "publish"
      BY <1>8, <3>2 DEF CloseBox, TypeOK
    <3>3. CASE boxes[Len(boxes)] \notin {"create", "publish"}
      BY <1>8, <3>3 DEF CloseBox, TypeOK, queueVars
    <3> QED
      BY <3>1, <3>2, <3>3
  <2> QED
    BY <1>8, <2>1, <2>2 DEF CloseBox, TypeOK, boundVars, settings, workerVars
<1>9. ASSUME Fail, remote' \in [Repos -> (Numbers \X Numbers) \cup {None, Bare}] PROVE TypeOK'
  BY <1>9, FailType DEF Fail, TypeOK, boundVars, workerVars
<1>10. ASSUME Succeed, UNCHANGED remote PROVE TypeOK'
  BY <1>10, SucceedType DEF Succeed, TypeOK, boundVars, workerVars
<1>11. ASSUME NEW at \in {"lookup", "create", "commit", "verify"}, Goes(at),
              remote' \in [Repos -> (Numbers \X Numbers) \cup {None, Bare}]
       PROVE  TypeOK'
  BY <1>11, GoesType DEF Goes, TypeOK, boundVars, settings, queueVars, workerVars
<1>12. ASSUME NEW r \in Repos \cup {None}, Ready(r),
              remote' \in [Repos -> (Numbers \X Numbers) \cup {None, Bare}]
       PROVE  TypeOK'
  BY <1>12, ReadyType DEF Ready, TypeOK, boundVars, settings, queueVars, workerVars
<1>13. remote \in [Repos -> (Numbers \X Numbers) \cup {None, Bare}]
  BY DEF TypeOK
<1>14. CASE CallStep
  <2>1. CASE ReadProxy
    <3>1. call' \in Calls
      BY <2>1 DEF ReadProxy, TypeOK, Calls
    <3> QED
      BY <2>1, <3>1 DEF ReadProxy, TypeOK, boundVars, settings, queueVars, workerVars
  <2>2. CASE User
    BY <2>2, <1>9, <1>11, <1>13 DEF User, Refused
  <2>3. CASE Lookup
    <3>1. stored \in Repos \cup {None}
      BY DEF TypeOK
    <3> QED
      BY <2>3, <3>1, <1>9, <1>12, <1>13 DEF Lookup, Refused
  <2>4. CASE Create
    <3>1. PICK r \in Repos \ {stored} :
            \/ remote' = [remote EXCEPT ![r] = Bare] /\ Ready(r)
            \/ remote' \in {remote, [remote EXCEPT ![r] = Bare]} /\ Fail
      BY <2>4 DEF Create
    <3>2. [remote EXCEPT ![r] = Bare] \in [Repos -> (Numbers \X Numbers) \cup {None, Bare}]
      BY <1>13
    <3> QED
      BY <3>1, <3>2, <1>9, <1>12, <1>13
  <2>5. CASE Store
    BY <2>5, <1>10 DEF Store
  <2>6. CASE Compare
    BY <2>6, <1>9, <1>10, <1>11, <1>13 DEF Compare, Refused
  <2>7. CASE Commit
    <3>1. <<call.sub, call.proxy>> \in Numbers \X Numbers
      BY DEF TypeOK, Calls
    <3>2. [remote EXCEPT ![call.repo] = <<call.sub, call.proxy>>] \in [Repos -> (Numbers \X Numbers) \cup {None, Bare}]
      BY <1>13, <3>1
    <3> QED
      BY <2>7, <3>2, <1>9, <1>11, <1>13 DEF Commit
  <2>8. CASE Verify
    BY <2>8, <1>9, <1>10, <1>13 DEF Verify, Refused
  <2> QED
    BY <1>14, <2>1, <2>2, <2>3, <2>4, <2>5, <2>6, <2>7, <2>8 DEF CallStep
<1>15. CASE Network
  BY <1>15 DEF Network, TypeOK, boundVars, settings, queueVars, workerVars
<1>16. ASSUME NEW state \in {"run", "torn", "pair", "finished", "idle"}, WorkerGoes(state),
              version' \in Numbers, files' \in [{"sub", "proxy"} -> Numbers]
       PROVE  TypeOK'
  BY <1>16 DEF WorkerGoes, TypeOK, boundVars, settings, queueVars
<1>17. version \in Numbers /\ files \in [{"sub", "proxy"} -> Numbers]
  BY DEF TypeOK
<1>18. CASE StartRun
  <2>1. files' \in [{"sub", "proxy"} -> Numbers]
    BY <1>18, RetryAssumption DEF StartRun, Numbers
  <2> QED
    BY <1>16, <1>17, <1>18, <2>1 DEF StartRun
<1>19. CASE WriteSub
  <2>1. version + 1 \in Numbers
    BY <1>17, <1>19, RetryAssumption DEF WriteSub, Numbers
  <2>2. files' \in [{"sub", "proxy"} -> Numbers]
    BY <1>17, <1>19, <2>1 DEF WriteSub
  <2> QED
    BY <1>16, <1>19, <2>1, <2>2 DEF WriteSub
<1>20. CASE WriteProxy
  <2>1. files' \in [{"sub", "proxy"} -> Numbers]
    BY <1>17, <1>20 DEF WriteProxy
  <2> QED
    BY <1>16, <1>17, <1>20, <2>1 DEF WriteProxy
<1>21. CASE EndRun
  BY <1>16, <1>17, <1>21 DEF EndRun
<1>22. CASE UNCHANGED vars
  BY <1>22 DEF vars, TypeOK, boundVars, settings, queueVars, workerVars
<1> QED
  BY <1>1, <1>2, <1>3, <1>4, <1>5, <1>6, <1>7, <1>8, <1>14, <1>15, <1>18, <1>19, <1>20, <1>21, <1>22 DEF Next

-----------------------------------------------------------------------------
(* A step that sets the flag adds the timer; a step that takes a timer      *)
(* clears the flag.                                                         *)
LEMMA ScheduleKeeps ==
  ASSUME TypeOK, FlagMeansTimer, NEW h \in Handlers, Schedule(h)
  PROVE  FlagMeansTimer'
<1>1. CASE scheduled
  BY <1>1 DEF Schedule, queueVars, FlagMeansTimer
<1>2. CASE ~scheduled
  <2>1. timers[h] \in Nat /\ timers'[h] = timers[h] + 1
    BY <1>2 DEF Schedule, TypeOK
  <2> QED
    BY <2>1 DEF FlagMeansTimer
<1> QED
  BY <1>1, <1>2

LEMMA StepQueueInv == TypeOK /\ QueueInv /\ [Next]_vars => QueueInv'
<1> SUFFICES ASSUME TypeOK, QueueInv, [Next]_vars PROVE QueueInv'
  OBVIOUS
<1>1. CASE Start \/ End
  BY <1>1 DEF Start, End, QueueInv, FlagMeansTimer
<1>2. ASSUME up, up' = up, FlagMeansTimer' PROVE QueueInv'
  BY <1>2 DEF QueueInv
<1>3. ASSUME UNCHANGED <<up, call, scheduled, timers>> PROVE QueueInv'
  BY <1>3 DEF QueueInv, FlagMeansTimer
<1>4. ASSUME NEW h \in Handlers, NEW by, Begin(h, by), up PROVE QueueInv'
  <2>1. up' = up /\ ~scheduled'
    BY <1>4 DEF Begin
  <2> QED
    BY <1>2, <1>4, <2>1 DEF FlagMeansTimer
<1>5. CASE EditToken \/ Save \/ Network \/ StartRun \/ WriteSub \/ WriteProxy \/ EndRun
  BY <1>3, <1>5 DEF EditToken, Save, Network, StartRun, WriteSub, WriteProxy, EndRun, WorkerGoes, queueVars
<1>6. CASE Finished
  BY <1>4, <1>6 DEF Finished, Free, Handlers
<1>7. ASSUME NEW h \in Handlers, Click(h) \/ Fire(h) PROVE QueueInv'
  BY <1>4, <1>7 DEF Click, Fire, Clickable, Free
<1>8. CASE CloseBox
  <2>1. FlagMeansTimer'
    <3>1. CASE boxes[Len(boxes)] = "create"
      BY <1>8, <3>1, ScheduleKeeps DEF CloseBox, QueueInv, Handlers
    <3>2. CASE boxes[Len(boxes)] = "publish"
      BY <1>8, <3>2 DEF CloseBox, FlagMeansTimer
    <3>3. CASE boxes[Len(boxes)] \notin {"create", "publish"}
      BY <1>8, <3>3 DEF CloseBox, QueueInv, FlagMeansTimer, queueVars
    <3> QED
      BY <3>1, <3>2, <3>3
  <2> QED
    BY <1>2, <1>8, <2>1 DEF CloseBox
<1>9. ASSUME up, Fail PROVE QueueInv'
  <2>1. FlagMeansTimer'
    <3>1. CASE call.kind = "publish"
      BY <1>9, <3>1, ScheduleKeeps DEF Fail, QueueInv, Handlers
    <3>2. CASE call.kind # "publish"
      BY <1>9, <3>2 DEF Fail, QueueInv, FlagMeansTimer, queueVars
    <3> QED
      BY <3>1, <3>2
  <2> QED
    BY <1>2, <1>9, <2>1 DEF Fail
<1>10. ASSUME up, Succeed PROVE QueueInv'
  <2>1. FlagMeansTimer'
    BY <1>10 DEF Succeed, QueueInv, FlagMeansTimer
  <2> QED
    BY <1>2, <1>10, <2>1 DEF Succeed
<1>11. ASSUME up, NEW at, Goes(at) PROVE QueueInv'
  <2>1. FlagMeansTimer'
    BY <1>11 DEF Goes, queueVars, QueueInv, FlagMeansTimer
  <2> QED
    BY <1>2, <1>11, <2>1 DEF Goes
<1>12. ASSUME up, NEW r, Ready(r) PROVE QueueInv'
  <2>1. FlagMeansTimer'
    BY <1>12 DEF Ready, queueVars, QueueInv, FlagMeansTimer
  <2> QED
    BY <1>2, <1>12, <2>1 DEF Ready
<1>13. CASE CallStep
  <2>1. up
    BY <1>13, IdleType DEF CallStep, ReadProxy, User, Lookup, Create, Store, Compare, Commit, Verify, Refused, QueueInv
  <2>2. CASE ReadProxy
    <3>1. FlagMeansTimer'
      BY <2>2 DEF ReadProxy, queueVars, QueueInv, FlagMeansTimer
    <3> QED
      BY <1>2, <2>1, <2>2, <3>1 DEF ReadProxy
  <2>3. CASE User \/ Lookup
    BY <1>9, <1>11, <1>12, <2>1, <2>3 DEF User, Lookup, Refused
  <2>4. CASE Create
    BY <1>9, <1>12, <2>1, <2>4 DEF Create
  <2>5. CASE Store \/ Compare \/ Commit \/ Verify
    BY <1>9, <1>10, <1>11, <2>1, <2>5 DEF Store, Compare, Commit, Verify, Refused
  <2> QED
    BY <1>13, <2>2, <2>3, <2>4, <2>5 DEF CallStep
<1>14. CASE UNCHANGED vars
  BY <1>3, <1>14 DEF vars, queueVars
<1> QED
  BY <1>1, <1>5, <1>6, <1>7, <1>8, <1>13, <1>14 DEF Next

-----------------------------------------------------------------------------
(* The stored reference changes only when a call succeeds, and the call     *)
(* then has that very repository.                                           *)
LEMMA StepRepoInv ==
  TypeOK /\ RepoInv /\ [Next]_vars => RepoInv' /\ (stored # None => stored' = stored)
<1> SUFFICES ASSUME TypeOK, RepoInv, [Next]_vars
             PROVE  RepoInv' /\ (stored # None => stored' = stored)
  OBVIOUS
<1> DEFINE Goal == RepoInv' /\ (stored # None => stored' = stored)
<1>1. ASSUME UNCHANGED <<call, stored>> PROVE Goal
  BY <1>1 DEF RepoInv
<1>2. ASSUME stored' = stored, call'.at \in {"idle", "proxy", "user"} PROVE Goal
  BY <1>2 DEF RepoInv
<1>3. ASSUME NEW h, NEW by, Begin(h, by) PROVE Goal
  <2>1. stored' = stored /\ (call' = call \/ call'.at \in {"proxy", "user"})
    BY <1>3 DEF Begin, settings, Idle
  <2> QED
    BY <1>1, <1>2, <2>1
<1>4. ASSUME Fail PROVE Goal
  BY <1>2, <1>4, IdleType DEF Fail
<1>5. ASSUME Succeed, call.at \in {"store", "compare", "verify"} PROVE Goal
  <2>1. call' = Idle /\ stored' = call.repo
    BY <1>5 DEF Succeed
  <2> QED
    BY <1>5, <2>1, IdleType DEF RepoInv
<1>6. ASSUME NEW r \in Repos \cup {None}, Ready(r), stored # None => r = stored PROVE Goal
  <2>1. stored' = stored /\ call'.repo = r /\ call'.at # "create"
    BY <1>6 DEF Ready, settings, TypeOK, Calls
  <2> QED
    BY <1>6, <2>1 DEF RepoInv
<1>7. CASE CallStep
  <2>1. CASE ReadProxy
    BY <1>2, <2>1 DEF ReadProxy, settings, TypeOK, Calls
  <2>2. CASE User
    <3>1. ASSUME Goes(IF stored = None THEN "create" ELSE "lookup") PROVE Goal
      BY <3>1 DEF Goes, settings, RepoInv, TypeOK, Calls
    <3> QED
      BY <1>4, <2>2, <3>1 DEF User, Refused
  <2>3. CASE Lookup
    <3>1. stored \in Repos \cup {None}
      BY DEF TypeOK
    <3> QED
      BY <1>4, <1>6, <2>3, <3>1 DEF Lookup, Refused
  <2>4. CASE Create
    BY <1>4, <1>6, <2>4 DEF Create, RepoInv
  <2>5. ASSUME NEW at \in {"commit", "verify"}, Goes(at), call.at \in {"compare", "commit"} PROVE Goal
    <3>1. stored' = stored /\ call'.repo = call.repo /\ call'.at = at
      BY <2>5 DEF Goes, settings, TypeOK, Calls
    <3> QED
      BY <2>5, <3>1 DEF RepoInv
  <2>6. CASE Store \/ Compare \/ Commit \/ Verify
    BY <1>4, <1>5, <2>5, <2>6 DEF Store, Compare, Commit, Verify, Refused
  <2> QED
    BY <1>7, <2>1, <2>2, <2>3, <2>4, <2>6 DEF CallStep
<1>8. CASE Start \/ EditToken \/ Save \/ CloseBox \/ Network \/ StartRun \/ WriteSub \/ WriteProxy \/ EndRun
  BY <1>1, <1>8 DEF Start, EditToken, Save, CloseBox, Network, StartRun, WriteSub, WriteProxy, EndRun, WorkerGoes, settings
<1>9. CASE End
  BY <1>2, <1>9, IdleType DEF End, settings
<1>10. CASE Finished \/ \E h \in Handlers : Click(h) \/ Fire(h)
  BY <1>3, <1>10 DEF Finished, Click, Fire
<1>11. CASE UNCHANGED vars
  BY <1>1, <1>11 DEF vars, settings
<1> QED
  BY <1>7, <1>8, <1>9, <1>10, <1>11 DEF Next

-----------------------------------------------------------------------------
(* What was read, what is stored and what GitHub holds.                     *)
LEMMA StepPublishInv == ASSUME TypeOK, RepoInv, PublishInv, [Next]_vars PROVE PublishInv'
<1>1. ASSUME UNCHANGED <<call, stored, pending, remote>>,
             wk' = "told" => wk = "told" /\ UNCHANGED files
      PROVE  PublishInv'
  BY <1>1 DEF PublishInv
<1>2. call \in Calls /\ stored \in Repos \cup {None} /\ pending \in [Handlers -> Flags]
      /\ remote \in [Repos -> (Numbers \X Numbers) \cup {None, Bare}]
  BY DEF TypeOK
<1>3. Idle.kind = "none" /\ Idle.at = "idle"
  BY DEF Idle
<1>4. ASSUME NEW h \in Handlers, NEW by, Begin(h, by), call = Idle,
             wk' = "told" => wk = "told" \/ (h = "publish" /\ typed)
      PROVE  PublishInv'
  <2>1. UNCHANGED <<stored, pending, files, remote>>
    BY <1>4 DEF Begin, settings
  <2>2. CASE typed
    <3>1. call'.kind = h /\ (h = "publish" => call'.sub = files.sub) /\ call'.at \in {"proxy", "user"}
          /\ (h = "publish" => call'.at = "proxy")
      BY <1>4, <2>2 DEF Begin, Idle, Handlers
    <3> QED
      BY <1>3, <1>4, <2>1, <3>1 DEF PublishInv, Handlers
  <2>3. CASE ~typed
    BY <1>3, <1>4, <2>1, <2>3 DEF Begin, PublishInv
  <2> QED
    BY <2>2, <2>3
<1>5. ASSUME Fail, call.kind = "publish" \/ \A r \in Repos : r = stored => remote'[r] = remote[r]
      PROVE  PublishInv'
  <2>1. call' = Idle /\ UNCHANGED <<stored, wk, files>>
        /\ pending' = [pending EXCEPT ![call.kind] = "true"]
    BY <1>5 DEF Fail, workerVars
  <2>2. CASE call.kind = "publish"
    <3>1. pending'["publish"] = "true"
      BY <1>2, <2>1, <2>2 DEF Handlers
    <3> QED
      BY <1>3, <2>1, <3>1 DEF PublishInv
  <2>3. CASE call.kind # "publish"
    <3>1. pending'["publish"] = pending["publish"]
      BY <1>2, <2>1, <2>3 DEF Handlers
    <3> QED
      BY <1>2, <1>3, <1>5, <2>1, <2>3, <3>1 DEF PublishInv
  <2> QED
    BY <2>2, <2>3
<1>6. ASSUME Succeed, UNCHANGED remote, call.at \in {"store", "compare", "verify"},
             call.at # "store" => ~Changed
      PROVE  PublishInv'
  <2>1. call' = Idle /\ stored' = call.repo /\ UNCHANGED <<wk, files>> /\ call.repo # None
    BY <1>6 DEF Succeed, workerVars, PublishInv
  <2>2. CASE call.kind = "publish"
    <3>1. call.at \in {"compare", "verify"} /\ remote[call.repo] = <<call.sub, call.proxy>>
      BY <1>6, <2>2 DEF Changed, PublishInv
    <3> QED
      BY <1>3, <1>6, <2>1, <2>2, <3>1 DEF PublishInv
  <2>3. CASE call.kind # "publish"
    <3>1. pending' = pending /\ (stored # None => stored' = stored)
      BY <1>6, <2>1, <2>3 DEF Succeed, RepoInv
    <3> QED
      BY <1>3, <1>6, <2>1, <2>3, <3>1 DEF PublishInv
  <2> QED
    BY <2>2, <2>3
<1>7. ASSUME NEW at \in {"lookup", "create", "commit", "verify"}, Goes(at), call.at \notin {"idle", "proxy"},
             at = "lookup" => stored # None,
             at \in {"commit", "verify"} => call.kind = "publish" /\ call.repo # None,
             call.kind = "publish" \/ UNCHANGED remote
      PROVE  PublishInv'
  <2>1. /\ call'.at = at /\ call'.kind = call.kind /\ call'.repo = call.repo
        /\ call'.sub = call.sub /\ call'.proxy = call.proxy
        /\ UNCHANGED <<stored, pending, wk, files>>
    BY <1>2, <1>7 DEF Goes, settings, workerVars, Calls
  <2> QED
    BY <1>7, <2>1 DEF PublishInv
<1>8. ASSUME NEW r \in Repos, Ready(r), call.at \in {"lookup", "create"},
             \A q \in Repos : q = stored => remote'[q] = remote[q]
      PROVE  PublishInv'
  <2>1. /\ call'.at = IF call.kind = "create" THEN "store" ELSE "compare"
        /\ call'.kind = call.kind /\ call'.repo = r
        /\ call'.sub = call.sub /\ call'.proxy = call.proxy
        /\ UNCHANGED <<stored, pending, wk, files>>
    BY <1>2, <1>8 DEF Ready, settings, workerVars, Calls
  <2>2. r # None
    BY RetryAssumption
  <2>3. call.kind \in {"create", "publish"}
    BY <1>2, <1>8 DEF PublishInv, Calls, Handlers
  <2> QED
    BY <1>2, <1>8, <2>1, <2>2, <2>3 DEF PublishInv
<1>9. CASE CallStep
  <2>1. CASE ReadProxy
    <3>1. /\ call'.at = "user" /\ call'.kind = call.kind /\ call'.sub = call.sub /\ call'.proxy = files.proxy
          /\ UNCHANGED <<stored, pending, wk, files, remote>> /\ call.at = "proxy"
      BY <1>2, <2>1 DEF ReadProxy, settings, workerVars, Calls
    <3> QED
      BY <3>1 DEF PublishInv
  <2>2. CASE User
    <3>1. (IF stored = None THEN "create" ELSE "lookup") \in {"lookup", "create", "commit", "verify"}
      OBVIOUS
    <3> QED
      BY <1>5, <1>7, <2>2, <3>1 DEF User, Refused
  <2>3. CASE Lookup
    <3>1. call.at = "lookup" => stored \in Repos
      BY <1>2 DEF PublishInv
    <3> QED
      BY <1>5, <1>8, <2>3, <3>1 DEF Lookup, Refused
  <2>4. CASE Create
    <3>1. PICK r \in Repos \ {stored} :
            \/ remote' = [remote EXCEPT ![r] = Bare] /\ Ready(r)
            \/ remote' \in {remote, [remote EXCEPT ![r] = Bare]} /\ Fail
      BY <2>4 DEF Create
    <3>2. \A q \in Repos : q = stored => remote'[q] = remote[q]
      BY <1>2, <3>1
    <3> QED
      BY <1>5, <1>8, <2>4, <3>1, <3>2 DEF Create
  <2>5. CASE Store
    BY <1>6, <2>5 DEF Store
  <2>6. CASE Compare
    BY <1>5, <1>6, <1>7, <2>6 DEF Compare, Refused, PublishInv
  <2>7. CASE Commit
    BY <1>5, <1>7, <2>7 DEF Commit, PublishInv
  <2>8. CASE Verify
    BY <1>5, <1>6, <2>8 DEF Verify, Refused, PublishInv
  <2> QED
    BY <1>9, <2>1, <2>2, <2>3, <2>4, <2>5, <2>6, <2>7, <2>8 DEF CallStep
<1>10. CASE Start \/ EditToken \/ Save \/ CloseBox \/ Network \/ StartRun \/ WriteSub \/ WriteProxy \/ EndRun
  BY <1>1, <1>10 DEF Start, EditToken, Save, CloseBox, Network, StartRun, WriteSub, WriteProxy, EndRun,
                     WorkerGoes, settings, workerVars
<1>11. CASE End
  BY <1>3, <1>11 DEF End, PublishInv
<1>12. CASE Finished
  BY <1>4, <1>12 DEF Finished, Free, Handlers
<1>13. ASSUME NEW h \in Handlers, Click(h) \/ Fire(h) PROVE PublishInv'
  BY <1>4, <1>13 DEF Click, Fire, Clickable, Free
<1>14. CASE UNCHANGED vars
  BY <1>1, <1>14 DEF vars, settings, workerVars
<1> QED
  BY <1>9, <1>10, <1>11, <1>12, <1>13, <1>14 DEF Next

-----------------------------------------------------------------------------
\* Every variable keeps its type.
THEOREM AlwaysTyped == Spec => []TypeOK
<1>1. Init => TypeOK
  BY InitTypeOK
<1>2. TypeOK /\ [Next]_vars => TypeOK'
  BY StepTypeOK
<1> QED
  BY <1>1, <1>2, PTL DEF Spec

\* The flag that keeps a failure from starting a timer is never left set by
\* itself: a timer is pending (app.py:1416-1424, 1454-1463).
THEOREM FlagHasTimer == Spec => []FlagMeansTimer
<1>1. Init => TypeOK /\ QueueInv
  BY InitTypeOK DEF Init, QueueInv, FlagMeansTimer
<1>2. TypeOK /\ QueueInv /\ [Next]_vars => TypeOK' /\ QueueInv'
  BY StepTypeOK, StepQueueInv
<1>3. QueueInv => FlagMeansTimer
  BY DEF QueueInv
<1> QED
  BY <1>1, <1>2, <1>3, PTL DEF Spec

\* A stored reference is never replaced by another repository, whatever calls,
\* lost answers and restarts follow (app.py:1408-1415, 1433-1453).
THEOREM LinksStay == Spec => SameRepository
<1>1. Init => TypeOK /\ RepoInv
  BY InitTypeOK DEF Init, RepoInv
<1>2. TypeOK /\ RepoInv /\ [Next]_vars => TypeOK' /\ RepoInv'
  BY StepTypeOK, StepRepoInv
<1>3. TypeOK /\ RepoInv /\ [Next]_vars => [stored # None => stored' = stored]_vars
  BY StepRepoInv
<1> QED
  BY <1>1, <1>2, <1>3, PTL DEF Spec, SameRepository

\* When the worker's end has been handled and no publication is pending, GitHub
\* holds the pair of files on disk, whatever calls began before they were
\* written, were answered late or were repeated (app.py:1433-1467, 1608-1628).
THEOREM SettledHolds == Spec => []SettledIsPublished
<1> DEFINE I == TypeOK /\ RepoInv /\ PublishInv
<1>1. Init => I
  BY InitTypeOK DEF Init, RepoInv, PublishInv, Idle
<1>2. I /\ [Next]_vars => I'
  BY StepTypeOK, StepRepoInv, StepPublishInv
<1>3. I => SettledIsPublished
  BY DEF PublishInv, SettledIsPublished, Idle
<1> HIDE DEF I
<1> QED
  BY <1>1, <1>2, <1>3, PTL DEF Spec
=============================================================================
