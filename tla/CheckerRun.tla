----------------------------- MODULE CheckerRun -----------------------------
(***************************************************************************)
(* The desktop checker of legacy-python/app.py: the window (GUI thread), the*)
(* CheckerWorker thread that collects, waits for the user to disconnect and *)
(* then tests, and the pool threads that run engine.repeated_test with one  *)
(* Xray process per attempt.  The window sets flags and events the worker   *)
(* polls; the worker posts signals the window handles later.                *)
(***************************************************************************)
EXTENDS Sequences, Integers, FiniteSets

CONSTANTS
  Endpoints,   \* the endpoints the channels may yield
  Cored,       \* those tested through an Xray process of their own
  Workers,     \* PING_WORKERS
  Attempts,    \* PING_ATTEMPTS
  MinSuccess,  \* MIN_SUCCESS
  StopChoices, \* whether the pause button, created hidden, can be clicked
  MaxRuns      \* bound: how often the user starts a run

ASSUME CheckerAssumption ==
  /\ IsFiniteSet(Endpoints) /\ Cored \subseteq Endpoints
  /\ Workers \in Nat \ {0} /\ Attempts \in Nat \ {0} /\ MinSuccess \in Nat \ {0}
  /\ StopChoices \subseteq BOOLEAN /\ MaxRuns \in Nat

VARIABLES
  wk,         \* where CheckerWorker.run stands
  run,        \* how many workers were started
  abort,      \* _abort_requested
  pause,      \* _pause_requested
  consent,    \* _continue_event is set
  announced,  \* pause_announced
  test,       \* the state of each endpoint in this run
  batch,      \* done_set of the last wait that is not handled yet
  tries,      \* attempts repeated_test has made
  good,       \* attempts that gave a sample
  busy,       \* endpoints with an attempt in progress
  proc,       \* endpoints whose attempt has a live Xray process
  made,       \* the run that wrote the output files, 0 when there are none
  sub,        \* the endpoints they list
  queue,      \* signals posted to the window and not handled
  due,        \* how many of them the event loop handles before user input
  gui,        \* the window: open, in reset_run, closing, closed
  dialogs,    \* message boxes on the screen
  startOn,    \* btn_start is enabled
  contOn,     \* btn_continue is enabled
  step,       \* the state of step_collect
  stopShown   \* btn_stop can be clicked

workerVars == <<wk, run, abort, pause, consent, announced, test, batch>>
poolVars == <<tries, good, busy, proc>>
fileVars == <<made, sub>>
guiVars == <<gui, dialogs, startOn, contOn, step>>
vars == <<workerVars, poolVars, fileVars, queue, due, guiVars, stopShown>>

-----------------------------------------------------------------------------
InState(s) == {e \in Endpoints : test[e] = s}
Running == InState("running")
WorkLeft == InState("pending") \cup Running \cup InState("finished") # {}
Ok(e) == good[e] >= MinSuccess
Alive == {e \in InState("recorded") : Ok(e)}
IsRunning == wk \notin {"none", "ended"}

Post(signal) == queue' = Append(queue, <<signal, run>>) /\ UNCHANGED due

\* Part of a worker's step: it moves on and leaves these alone.
WorkerGoto(label) ==
  /\ gui # "closed"
  /\ wk' = label
  /\ UNCHANGED <<run, abort, pause, consent, guiVars>>

Init ==
  /\ wk = "none" /\ run = 0
  /\ abort = FALSE /\ pause = FALSE /\ consent = FALSE /\ announced = FALSE
  /\ test = [e \in Endpoints |-> "absent"] /\ batch = {}
  /\ tries = [e \in Endpoints |-> 0] /\ good = [e \in Endpoints |-> 0]
  /\ busy = {} /\ proc = {}
  /\ made = 0 /\ sub = {}
  /\ queue = <<>> /\ due = 0
  /\ gui = "open" /\ dialogs = 0
  /\ startOn = TRUE /\ contOn = FALSE /\ step = "idle"
  /\ stopShown \in StopChoices

-----------------------------------------------------------------------------
\* CheckerWorker.run

\* Settings and channels are written, the outputs of earlier runs deleted.
Prepare ==
  /\ wk = "prepare" /\ WorkerGoto("collect")
  /\ made' = 0 /\ sub' = {}
  /\ UNCHANGED <<announced, test, batch, poolVars, queue, due>>

\* Any set of endpoints arrives; an abort only ends the reading early.
Collect ==
  /\ wk = "collect" /\ WorkerGoto("gate")
  /\ \E S \in SUBSET Endpoints :
       test' = [e \in Endpoints |-> IF e \in S THEN "collected" ELSE "absent"]
  /\ UNCHANGED <<announced, batch, poolVars, fileVars, queue, due>>

Gate ==
  /\ wk = "gate" /\ WorkerGoto(IF abort THEN "ended" ELSE "ask")
  /\ UNCHANGED <<announced, test, batch, poolVars, fileVars, queue, due>>

Ask ==
  /\ wk = "ask" /\ WorkerGoto("waiting")
  /\ Post("ask")
  /\ UNCHANGED <<announced, test, batch, poolVars, fileVars>>

\* _continue_event.wait() returns.
Proceed ==
  /\ wk = "waiting" /\ consent
  /\ WorkerGoto(IF abort THEN "ended" ELSE "read")
  /\ UNCHANGED <<announced, test, batch, poolVars, fileVars, queue, due>>

(* test_stage2 up to its loop: unsupported and unwanted endpoints are left  *)
(* out, the TCP prefilter records some as dead, the rest is queued.         *)
BeginTest ==
  /\ wk = "read" /\ WorkerGoto("loop")
  /\ test' \in [Endpoints -> {"absent", "skipped", "recorded", "pending"}]
  /\ \A e \in Endpoints : (test'[e] = "absent") = (test[e] = "absent")
  /\ announced' = FALSE
  /\ UNCHANGED <<batch, poolVars, fileVars, queue, due>>

\* Mutant: the loop ends as soon as nothing is queued.
LoopEndEarly ==
  /\ wk = "loop" /\ InState("pending") = {} /\ WorkerGoto("drain")
  /\ UNCHANGED <<announced, test, batch, poolVars, fileVars, queue, due>>

LoopEnd ==
  /\ wk = "loop" /\ ~WorkLeft /\ WorkerGoto("drain")
  /\ UNCHANGED <<announced, test, batch, poolVars, fileVars, queue, due>>

LoopAbort ==
  /\ wk = "loop" /\ WorkLeft /\ abort /\ WorkerGoto("drain")
  /\ UNCHANGED <<announced, test, batch, poolVars, fileVars, queue, due>>

\* cleanup_xray_processes: the attempts of the killed processes will fail.
KillAll == proc' = {}

\* write_partial_outputs over the results recorded so far.
WriteOutputs == made' = run /\ sub' = {e \in InState("recorded")' : Ok(e)}

AnnouncePause ==
  /\ wk = "loop" /\ WorkLeft /\ ~abort /\ pause /\ ~announced
  /\ WorkerGoto("wait")
  /\ announced' = TRUE
  /\ KillAll /\ Post("paused")
  /\ UNCHANGED <<test, batch, tries, good, busy>>
  /\ WriteOutputs

StayPaused ==
  /\ wk = "loop" /\ WorkLeft /\ ~abort /\ pause /\ announced
  /\ WorkerGoto("wait")
  /\ UNCHANGED <<announced, test, batch, poolVars, fileVars, queue, due>>

\* The part of Submit that fills the pool.
Fill ==
  \E P \in SUBSET InState("pending") :
    /\ LET room == Workers - Cardinality(Running \cup InState("finished"))
       IN \/ Cardinality(P) = room
          \/ P = InState("pending") /\ Cardinality(P) < room
    /\ test' = [e \in Endpoints |-> IF e \in P THEN "running" ELSE test[e]]

\* Not paused: endpoints are submitted until the pool is full.
Submit ==
  /\ wk = "loop" /\ WorkLeft /\ ~abort /\ ~pause
  /\ WorkerGoto("wait")
  /\ announced' = FALSE
  /\ Fill
  /\ UNCHANGED <<batch, poolVars, fileVars, queue, due>>

\* concurrent.futures.wait returns what has finished, or nothing in time.
Wait ==
  /\ wk = "wait"
  /\ batch' = InState("finished")
  /\ WorkerGoto(IF batch' = {} THEN "loop" ELSE "gather")
  /\ UNCHANGED <<announced, test, poolVars, fileVars, queue, due>>

\* One result is recorded; every fifth one and every good one is written.
Gather(e) ==
  /\ wk = "gather" /\ e \in batch
  /\ batch' = batch \ {e}
  /\ WorkerGoto(IF batch' = {} THEN "loop" ELSE "gather")
  /\ test' = [test EXCEPT ![e] = "recorded"]
  /\ \/ WriteOutputs
     \/ ~Ok(e) /\ UNCHANGED fileVars
  /\ UNCHANGED <<announced, poolVars, queue, due>>

\* The executor's exit waits for the tests in flight; nobody records them.
Drain ==
  /\ wk = "drain" /\ Running = {} /\ WorkerGoto("final")
  /\ UNCHANGED <<announced, test, batch, poolVars, fileVars, queue, due>>

Final ==
  /\ wk = "final" /\ WorkerGoto("report")
  /\ KillAll
  /\ UNCHANGED <<announced, test, batch, tries, good, busy, queue, due>>
  /\ WriteOutputs

Report ==
  /\ wk = "report" /\ WorkerGoto(IF abort THEN "ended" ELSE "emit")
  /\ UNCHANGED <<announced, test, batch, poolVars, fileVars, queue, due>>

Finish ==
  /\ wk = "emit" /\ WorkerGoto("ended")
  /\ Post("finished")
  /\ UNCHANGED <<announced, test, batch, poolVars, fileVars>>

\* A file cannot be read or written: the exception goes to run's handler.
Break ==
  /\ wk \in {"prepare", "collect", "read", "loop", "gather", "final"}
  /\ WorkerGoto("failing")
  /\ batch' = {}
  /\ UNCHANGED <<announced, test, poolVars, fileVars, queue, due>>

Fail ==
  /\ wk = "failing" /\ Running = {} /\ WorkerGoto("ended")
  /\ Post("failed")
  /\ UNCHANGED <<announced, test, batch, poolVars, fileVars>>

-----------------------------------------------------------------------------
\* The pool threads: engine.repeated_test

BeginAttempt(e) ==
  /\ gui # "closed" /\ test[e] = "running"
  /\ e \notin busy /\ tries[e] < Attempts
  /\ busy' = busy \cup {e}
  /\ proc' = IF e \in Cored THEN proc \cup {e} ELSE proc
  /\ UNCHANGED <<workerVars, tries, good, fileVars, queue, due, guiVars>>

\* Mutant: no finally block, the process is left running.
EndAttemptLeaks(e) ==
  /\ gui # "closed" /\ e \in busy
  /\ busy' = busy \ {e}
  /\ tries' = [tries EXCEPT ![e] = @ + 1]
  /\ good' \in {good, [good EXCEPT ![e] = @ + 1]}
  /\ UNCHANGED <<workerVars, proc, fileVars, queue, due, guiVars>>

\* A sample needs the process; the finally block terminates it.
EndAttempt(e) ==
  /\ gui # "closed" /\ e \in busy
  /\ busy' = busy \ {e} /\ proc' = proc \ {e}
  /\ tries' = [tries EXCEPT ![e] = @ + 1]
  /\ \/ /\ e \in Cored => e \in proc
        /\ good' = [good EXCEPT ![e] = @ + 1]
     \/ good' = good
  /\ UNCHANGED <<workerVars, fileVars, queue, due, guiVars>>

Conclude(e) ==
  /\ gui # "closed" /\ test[e] = "running"
  /\ e \notin busy /\ tries[e] = Attempts
  /\ test' = [test EXCEPT ![e] = "finished"]
  /\ UNCHANGED <<wk, run, abort, pause, consent, announced, batch, poolVars,
                 fileVars, queue, due, guiVars>>

-----------------------------------------------------------------------------
\* The window.  A handler runs to its end; then the event loop delivers the
\* signals posted so far before it takes the next click.

Handled == due' = Len(queue')
Clickable == gui = "open" /\ dialogs = 0 /\ due = 0
StartWhenIdle == startOn' = (step = "idle")

\* Mutant: the new run keeps the events of the one before.
StartKeepsEvents ==
  /\ Clickable /\ startOn /\ ~IsRunning /\ run < MaxRuns
  /\ run' = run + 1 /\ wk' = "prepare"
  /\ abort' = FALSE /\ pause' = FALSE /\ consent' = consent
  /\ announced' = FALSE /\ batch' = {}
  /\ test' = [e \in Endpoints |-> "absent"]
  /\ tries' = [e \in Endpoints |-> 0] /\ good' = [e \in Endpoints |-> 0]
  /\ startOn' = FALSE /\ contOn' = FALSE /\ step' = "running"
  /\ UNCHANGED <<busy, proc, fileVars, queue, gui, dialogs>>
  /\ Handled

\* start_run; with a worker still running the click does nothing.
Start ==
  /\ Clickable /\ startOn /\ ~IsRunning /\ run < MaxRuns
  /\ run' = run + 1 /\ wk' = "prepare"
  /\ abort' = FALSE /\ pause' = FALSE /\ consent' = FALSE
  /\ announced' = FALSE /\ batch' = {}
  /\ test' = [e \in Endpoints |-> "absent"]
  /\ tries' = [e \in Endpoints |-> 0] /\ good' = [e \in Endpoints |-> 0]
  /\ startOn' = FALSE /\ contOn' = FALSE /\ step' = "running"
  /\ UNCHANGED <<busy, proc, fileVars, queue, gui, dialogs>>
  /\ Handled

\* continue_run: the pause flag decides which event is set.
Continue ==
  /\ Clickable /\ contOn
  /\ contOn' = FALSE
  /\ IF pause THEN pause' = FALSE /\ UNCHANGED consent
              ELSE consent' = TRUE /\ UNCHANGED pause
  /\ UNCHANGED <<wk, run, abort, announced, test, batch, poolVars, fileVars,
                 queue, gui, dialogs, startOn, step>>
  /\ Handled

\* stop_run.
Stop ==
  /\ stopShown /\ Clickable /\ IsRunning
  /\ pause' = TRUE /\ contOn' = TRUE
  /\ UNCHANGED <<wk, run, abort, consent, announced, test, batch, poolVars,
                 fileVars, queue, gui, dialogs, startOn, step>>
  /\ Handled

\* Mutant: the worker is not released from its wait for the user.
RequestAbortOnly == abort' = TRUE /\ pause' = FALSE /\ UNCHANGED consent

RequestAbort == abort' = TRUE /\ pause' = FALSE /\ consent' = TRUE

\* reset_run while the worker runs: abort, kill, then wait up to 1.5 seconds.
Reset ==
  /\ Clickable /\ IsRunning
  /\ RequestAbort /\ KillAll
  /\ gui' = "resetting"
  /\ UNCHANGED <<wk, run, announced, test, batch, tries, good, busy, fileVars,
                 queue, due, dialogs, startOn, contOn, step>>

\* The worker ended or the wait timed out: the window looks new again.
ResetDone ==
  /\ \/ gui = "resetting"
     \/ Clickable /\ ~IsRunning
  /\ gui' = "open"
  /\ startOn' = TRUE /\ contOn' = FALSE /\ step' = "idle"
  /\ UNCHANGED <<workerVars, poolVars, fileVars, queue, dialogs>>
  /\ Handled

\* closeEvent.
Close ==
  /\ Clickable
  /\ IF IsRunning THEN RequestAbort ELSE UNCHANGED <<abort, pause, consent>>
  /\ KillAll
  /\ gui' = "closing"
  /\ UNCHANGED <<wk, run, announced, test, batch, tries, good, busy, fileVars,
                 queue, due, dialogs, startOn, contOn, step>>

\* The program exits; its threads stop wherever they are.
Quit ==
  /\ gui = "closing"
  /\ gui' = "closed"
  /\ UNCHANGED <<workerVars, poolVars, fileVars, queue, due, dialogs, startOn,
                 contOn, step>>

Acknowledge ==
  /\ gui = "open" /\ dialogs > 0
  /\ dialogs' = dialogs - 1
  /\ UNCHANGED <<workerVars, poolVars, fileVars, queue, due, gui, startOn,
                 contOn, step>>

\* Mutant: the Continue button stays as it is.
OnAskSilently ==
  /\ step' = "done" /\ startOn' = FALSE /\ UNCHANGED contOn
  /\ dialogs' = dialogs + 1
  /\ UNCHANGED proc

OnAskDisconnect ==
  /\ step' = "done" /\ startOn' = FALSE /\ contOn' = TRUE
  /\ dialogs' = dialogs + 1
  /\ UNCHANGED proc

OnPaused == contOn' = TRUE /\ UNCHANGED <<step, startOn, dialogs, proc>>

\* on_finished and on_failed; on_finished also publishes the output files.
OnEnd ==
  /\ StartWhenIdle /\ contOn' = FALSE
  /\ KillAll
  /\ dialogs' = dialogs + 1
  /\ UNCHANGED step

\* The event loop, of the window or of a message box, delivers one signal.
Deliver ==
  /\ gui = "open" /\ queue # <<>>
  /\ CASE queue[1][1] = "ask" -> OnAskDisconnect
       [] queue[1][1] = "paused" -> OnPaused
       [] queue[1][1] \in {"finished", "failed"} -> OnEnd
  /\ queue' = Tail(queue)
  /\ UNCHANGED <<workerVars, tries, good, busy, fileVars, gui>>
  /\ Handled

-----------------------------------------------------------------------------
WorkerStep ==
  /\ UNCHANGED stopShown
  /\ \/ Prepare \/ Collect \/ Gate \/ Ask \/ Proceed \/ BeginTest
     \/ LoopEnd \/ LoopAbort \/ AnnouncePause \/ StayPaused \/ Submit \/ Wait
     \/ \E e \in Endpoints : Gather(e)
     \/ Drain \/ Final \/ Report \/ Finish \/ Fail

PoolStep(e) ==
  UNCHANGED stopShown /\ (BeginAttempt(e) \/ EndAttempt(e) \/ Conclude(e))

GuiStep ==
  /\ UNCHANGED stopShown
  /\ \/ Start \/ Continue \/ Stop \/ Reset \/ ResetDone \/ Close \/ Quit
     \/ Acknowledge \/ Deliver

Next ==
  \/ WorkerStep \/ (Break /\ UNCHANGED stopShown) \/ GuiStep
  \/ \E e \in Endpoints : PoolStep(e)

Spec == Init /\ [][Next]_vars

(* The worker's and the pool's waits all have time limits of their own, so  *)
(* their threads go on; the window handles what was posted.                 *)
FairSpec ==
  /\ Spec
  /\ WF_vars(WorkerStep)
  /\ \A e \in Endpoints : WF_vars(PoolStep(e))

-----------------------------------------------------------------------------
Testing == {"read", "loop", "wait", "gather", "drain", "final", "report", "emit"}

\* A signal of the current run that the window has not handled.
Pending(signal) == \E i \in DOMAIN queue : queue[i] = <<signal, run>>

\* Every variable has its type.
TypeOK ==
  /\ wk \in Testing \cup {"none", "prepare", "collect", "gate", "ask",
                          "waiting", "failing", "ended"}
  /\ run \in 0..MaxRuns
  /\ {abort, pause, consent, announced, startOn, contOn} \subseteq BOOLEAN
  /\ test \in [Endpoints -> {"absent", "collected", "skipped", "pending",
                             "running", "finished", "recorded"}]
  /\ tries \in [Endpoints -> 0..Attempts] /\ good \in [Endpoints -> 0..Attempts]
  /\ batch \subseteq Endpoints /\ busy \subseteq Endpoints
  /\ proc \subseteq busy
  /\ made \in 0..run /\ sub \subseteq Endpoints
  /\ queue \in Seq({"ask", "paused", "finished", "failed"} \X (1..run))
  /\ due \in 0..Len(queue) /\ dialogs \in Nat
  /\ gui \in {"open", "resetting", "closing", "closed"}
  /\ step \in {"idle", "running", "done"}

(* The real test of a run never starts before the window, since the run was *)
(* started, asked the user to disconnect (app.py:158-165).  The request may *)
(* be one that a reset run had posted: the signals do not name their run.   *)
TestAfterConsent == wk \in Testing /\ ~abort => step = "done"

(* Until on_finished has run, the files it will show and publish are the    *)
(* complete result of the run that finished: every endpoint was tested and  *)
(* every good one is listed, over any number of pauses.                     *)
FinishedIsComplete ==
  Pending("finished") =>
    /\ made = run /\ sub = Alive
    /\ \A e \in Endpoints : test[e] \in {"absent", "skipped", "recorded"}

(* While a worker waits for the user the Continue button is enabled, or the *)
(* signal that enables it is on its way.                                    *)
WaitingCanContinue ==
  wk = "waiting" /\ ~consent /\ ~stopShown =>
    contOn \/ Pending("ask")

\* A worker that was told to abort ends, wherever it was.
AbortEnds == abort ~> (wk = "ended" \/ gui = "closed")
=============================================================================
