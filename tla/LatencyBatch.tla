---------------------------- MODULE LatencyBatch ----------------------------
(***************************************************************************)
(* LatencyTestService.TestAsync and the BatchRuntime it owns: one call      *)
(* tests every collected candidate, the direct ones over TCP and the others *)
(* through one core process per runtime kind, behind a SemaphoreSlim gate,  *)
(* with a single retry pass over the failures.  The Stop button cancels the *)
(* token at any point; a core process may exit at any point.                *)
(*                                                                          *)
(* TestAsync and its continuations run on the user-interface thread, so the *)
(* code between two awaits is one step and Stop never falls inside it.      *)
(***************************************************************************)
EXTENDS Integers, FiniteSets

CONSTANTS
  Candidates,        \* the collected candidates, already distinct by key
  Kinds,             \* runtime kinds that need a core process
  Direct,            \* the kind tested without one
  KindOf,            \* the runtime of each candidate
  Parallelism,       \* TestOptions.Parallelism
  Attempts,          \* TestOptions.Attempts
  MinimumSuccesses,  \* TestOptions.MinimumSuccesses
  MaxRuns            \* bound: how often the user starts a test

ASSUME CandidatesAssumption ==
  /\ IsFiniteSet(Candidates)
  /\ Direct \notin Kinds
  /\ KindOf \in [Candidates -> Kinds \cup {Direct}]

ASSUME OptionsAssumption ==
  /\ Parallelism \in Int
  /\ Attempts \in Nat \ {0}
  /\ MinimumSuccesses \in Int
  /\ MaxRuns \in Nat

VARIABLES
  pc,        \* where TestAsync stands
  run,       \* how many tests were started
  stop,      \* the cancellation token of this test is cancelled
  group,     \* the runtime kind being tested
  todo,      \* runtime groups the loop has not finished
  task,      \* the state of each candidate's task in the current pass
  tried,     \* attempts made by the candidate's task
  good,      \* attempts that gave a sample
  free,      \* free slots of the current gate
  output,    \* the results collected so far
  completed, \* the progress counter
  live,      \* core processes that run: <<run, kind>>
  files      \* temporary configuration files on disk: <<run, kind>>

vars == <<pc, run, stop, group, todo, task, tried, good, free, output,
          completed, live, files>>
taskVars == <<task, tried, good, free>>

-----------------------------------------------------------------------------
Clamp(x, low, high) == IF x < low THEN low ELSE IF x > high THEN high ELSE x

Slots == Clamp(Parallelism, 1, 128)

\* The attempt loop of a pass; the retry pass runs with { Attempts = 1 }.
OptionAttempts(pass) == IF pass = "retry" THEN 1 ELSE Attempts
LoopLength(pass) == Clamp(OptionAttempts(pass), 1, 5)
Threshold(pass) == Clamp(MinimumSuccesses, 1, OptionAttempts(pass))

Passes == {"direct", "http", "retry"}
Ended == {"idle", "returned", "threw"}
Group(k) == {c \in Candidates : KindOf[c] = k}
KindsPresent == {k \in Kinds : Group(k) # {}}
Running == {c \in Candidates : task[c] = "running"}
Current == <<run, group>>

\* Mutant: the runtime's name is reported as the tester.
ResultByKind(c, pass) ==
  [cand |-> c, alive |-> good[c] >= Threshold(pass), successes |-> good[c],
   attempts |-> OptionAttempts(pass), tester |-> KindOf[c]]

Result(c, pass) ==
  [cand |-> c, alive |-> good[c] >= Threshold(pass), successes |-> good[c],
   attempts |-> OptionAttempts(pass), tester |-> pass]

Failed(c) ==
  [cand |-> c, alive |-> FALSE, successes |-> 0, attempts |-> 0,
   tester |-> "none"]

-----------------------------------------------------------------------------
Init ==
  /\ pc = "idle" /\ run = 0 /\ stop = FALSE
  /\ group = Direct /\ todo = {}
  /\ task = [c \in Candidates |-> "idle"]
  /\ tried = [c \in Candidates |-> 0]
  /\ good = [c \in Candidates |-> 0]
  /\ free = Slots
  /\ output = {} /\ completed = 0
  /\ live = {} /\ files = {}

(* Start the tasks of S behind a new gate.  WaitAsync of the first Slots    *)
(* tasks completes at once, the others queue; with a cancelled token every  *)
(* WaitAsync throws.                                                        *)
BeginPass(pass, S, cancelled) ==
  /\ pc' = pass
  /\ tried' = [c \in Candidates |-> 0]
  /\ good' = [c \in Candidates |-> 0]
  /\ \/ /\ cancelled
        /\ task' = [c \in Candidates |-> IF c \in S THEN "refused" ELSE "idle"]
        /\ free' = Slots
     \/ /\ ~cancelled
        /\ \E R \in SUBSET S :
             /\ \/ Cardinality(R) = Slots
                \/ R = S /\ Cardinality(S) < Slots
             /\ task' = [c \in Candidates |-> IF c \in R THEN "running"
                                              ELSE IF c \in S THEN "waiting"
                                              ELSE "idle"]
             /\ free' = Slots - Cardinality(R)

\* Test_Click calls TestAsync: the direct candidates first, if there are any.
Test ==
  /\ pc \in Ended /\ run < MaxRuns
  /\ run' = run + 1 /\ stop' = FALSE
  /\ group' = Direct /\ todo' = KindsPresent
  /\ output' = {} /\ completed' = 0
  /\ \/ Group(Direct) # {} /\ BeginPass("direct", Group(Direct), FALSE)
     \/ Group(Direct) = {} /\ pc' = "select" /\ UNCHANGED taskVars
  /\ UNCHANGED <<live, files>>

\* gate.WaitAsync completes for a queued task: a slot was released.
Enter(c) ==
  /\ task[c] = "waiting" /\ free > 0
  /\ task' = [task EXCEPT ![c] = "running"]
  /\ free' = free - 1
  /\ UNCHANGED <<pc, run, stop, group, todo, tried, good, output, completed,
                 live, files>>

\* gate.WaitAsync throws for a queued task: the token was cancelled.
Refuse(c) ==
  /\ task[c] = "waiting" /\ stop
  /\ task' = [task EXCEPT ![c] = "refused"]
  /\ UNCHANGED <<pc, run, stop, group, todo, tried, good, free, output,
                 completed, live, files>>

(* One turn of the attempt loop.  A sample needs a live token and, for HTTP,*)
(* the core process; every other outcome is caught and counts as no sample. *)
Attempt(c) ==
  /\ task[c] = "running" /\ tried[c] < LoopLength(pc)
  /\ tried' = [tried EXCEPT ![c] = @ + 1]
  /\ \/ /\ ~stop
        /\ pc # "direct" => Current \in live
        /\ good' = [good EXCEPT ![c] = @ + 1]
     \/ good' = good
  /\ UNCHANGED <<pc, run, stop, group, todo, task, free, output, completed,
                 live, files>>

\* Mutant: no finally block, the slot is not released.
LeaveKeepsSlot(c) ==
  /\ task[c] = "running" /\ tried[c] = LoopLength(pc)
  /\ task' = [task EXCEPT ![c] = "done"]
  /\ UNCHANGED <<pc, run, stop, group, todo, tried, good, free, output,
                 completed, live, files>>

\* The task returns its result; the finally block releases the slot.
Leave(c) ==
  /\ task[c] = "running" /\ tried[c] = LoopLength(pc)
  /\ task' = [task EXCEPT ![c] = "done"]
  /\ free' = free + 1
  /\ UNCHANGED <<pc, run, stop, group, todo, tried, good, output, completed,
                 live, files>>

\* Task.WhenAll of the pass has completed, and threw if any task did.
AllSettled == \A c \in Candidates : task[c] \in {"idle", "done", "refused"}
SomeRefused == \E c \in Candidates : task[c] = "refused"

\* The exception leaves TestAsync; nothing on this path disposes a session.
Throw(pass) ==
  /\ pc = pass /\ AllSettled /\ SomeRefused
  /\ pc' = "threw"
  /\ UNCHANGED <<run, stop, group, todo, taskVars, output, completed, live,
                 files>>

EndDirect ==
  /\ pc = "direct" /\ AllSettled /\ ~SomeRefused
  /\ output' = output \cup {Result(c, "direct") : c \in Group(Direct)}
  /\ completed' = completed + Cardinality(Group(Direct))
  /\ pc' = "select"
  /\ UNCHANGED <<run, stop, group, todo, taskVars, live, files>>

-----------------------------------------------------------------------------
(* Every candidate of group k gets a Failed result and the loop continues.  *)
FailGroup(k) ==
  /\ output' = output \cup {Failed(c) : c \in Group(k)}
  /\ completed' = completed + Cardinality(Group(k))
  /\ todo' = todo \ {k}
  /\ pc' = "select"

\* No executable, or the ports or the configuration could not be made.
RuntimeMissing(k) ==
  /\ pc = "select" /\ k \in todo
  /\ FailGroup(k)
  /\ UNCHANGED <<run, stop, group, taskVars, live, files>>

\* The executable was found: StartAsync picks ports and starts to write the
\* configuration, unless the token is cancelled already.
SelectGroup(k) ==
  /\ pc = "select" /\ k \in todo /\ ~stop
  /\ group' = k /\ pc' = "config"
  /\ UNCHANGED <<run, stop, todo, taskVars, output, completed, live, files>>

SelectGroupStopped(k) ==
  /\ pc = "select" /\ k \in todo /\ stop
  /\ group' = k
  /\ FailGroup(k)
  /\ UNCHANGED <<run, stop, taskVars, live, files>>

WriteConfig ==
  /\ pc = "config" /\ ~stop
  /\ files' = files \cup {Current}
  /\ pc' = "launch"
  /\ UNCHANGED <<run, stop, group, todo, taskVars, output, completed, live>>

\* The write failed or was cancelled, perhaps after the file was created.
WriteConfigFails ==
  /\ pc = "config"
  /\ files' \in {files, files \cup {Current}}
  /\ FailGroup(group)
  /\ UNCHANGED <<run, stop, group, taskVars, live>>

\* The continuation of the write starts the process, even after Stop.
Launch ==
  /\ pc = "launch"
  /\ live' = live \cup {Current}
  /\ pc' = "ports"
  /\ UNCHANGED <<run, stop, group, todo, taskVars, output, completed, files>>

\* Process.Start threw before a session existed: the file is not deleted.
LaunchFails ==
  /\ pc = "launch"
  /\ FailGroup(group)
  /\ UNCHANGED <<run, stop, group, taskVars, live, files>>

\* Every port accepted a connection; StartAsync returned the session.
PortsOpen ==
  /\ pc = "ports" /\ Current \in live /\ ~stop
  /\ pc' = "ready"
  /\ UNCHANGED <<run, stop, group, todo, taskVars, output, completed, live,
                 files>>

DisposeSession ==
  /\ live' = live \ {Current}
  /\ files' = files \ {Current}

\* Mutant: a failed start does not dispose the session.
PortsFailLeaks ==
  /\ pc = "ports"
  /\ FailGroup(group)
  /\ UNCHANGED <<run, stop, group, taskVars, live, files>>

\* The process exited, the startup timeout passed or the token was cancelled.
PortsFail ==
  /\ pc = "ports"
  /\ DisposeSession
  /\ FailGroup(group)
  /\ UNCHANGED <<run, stop, group, taskVars>>

BeginHttp ==
  /\ pc = "ready"
  /\ BeginPass("http", Group(group), stop)
  /\ UNCHANGED <<run, stop, group, todo, output, completed, live, files>>

\* The first pass is recorded; its failures go straight into the retry pass.
EndHttp ==
  /\ pc = "http" /\ AllSettled /\ ~SomeRefused
  /\ output' = output \cup {Result(c, "http") : c \in Group(group)}
  /\ completed' = completed + Cardinality(Group(group))
  /\ LET failed == {c \in Group(group) : ~Result(c, "http").alive}
     IN \/ failed # {} /\ BeginPass("retry", failed, stop)
        \/ failed = {} /\ pc' = "dispose" /\ UNCHANGED taskVars
  /\ UNCHANGED <<run, stop, group, todo, live, files>>

\* Mutant: the retry results are added to the list.
EndRetryAdds ==
  /\ pc = "retry" /\ AllSettled
  /\ LET revived == {c \in Candidates : /\ task[c] = "done"
                                        /\ Result(c, "retry").alive}
     IN output' = IF SomeRefused THEN output
                  ELSE output \cup {Result(c, "retry") : c \in revived}
  /\ pc' = "dispose"
  /\ UNCHANGED <<run, stop, group, todo, taskVars, completed, live, files>>

\* Mutant: every retry result replaces the recorded one.
EndRetryReplacesAll ==
  /\ pc = "retry" /\ AllSettled
  /\ output' = IF SomeRefused THEN output
               ELSE {IF task[r.cand] = "done"
                     THEN Result(r.cand, "retry") ELSE r : r \in output}
  /\ pc' = "dispose"
  /\ UNCHANGED <<run, stop, group, todo, taskVars, completed, live, files>>

\* Successful retries replace the failures; a cancelled retry pass is ignored.
EndRetry ==
  /\ pc = "retry" /\ AllSettled
  /\ LET revived == {c \in Candidates : /\ task[c] = "done"
                                        /\ Result(c, "retry").alive}
     IN output' = IF SomeRefused THEN output
                  ELSE {IF ~r.alive /\ r.cand \in revived
                        THEN Result(r.cand, "retry") ELSE r : r \in output}
  /\ pc' = "dispose"
  /\ UNCHANGED <<run, stop, group, todo, taskVars, completed, live, files>>

Dispose ==
  /\ pc = "dispose"
  /\ DisposeSession
  /\ todo' = todo \ {group}
  /\ pc' = "select"
  /\ UNCHANGED <<run, stop, group, taskVars, output, completed>>

\* The final sort: output is a set here, its order is not observable.
Return ==
  /\ pc = "select" /\ todo = {}
  /\ pc' = "returned"
  /\ UNCHANGED <<run, stop, group, todo, taskVars, output, completed, live,
                 files>>

-----------------------------------------------------------------------------
\* Stop_Click while the operation exists.
Stop ==
  /\ pc \notin Ended /\ ~stop
  /\ stop' = TRUE
  /\ UNCHANGED <<pc, run, group, todo, taskVars, output, completed, live,
                 files>>

\* A core process exits on its own.
Exit(p) ==
  /\ p \in live
  /\ live' = live \ {p}
  /\ UNCHANGED <<pc, run, stop, group, todo, taskVars, output, completed,
                 files>>

TaskStep(c) == Enter(c) \/ Refuse(c) \/ Attempt(c) \/ Leave(c)

Step ==
  \/ \E c \in Candidates : TaskStep(c)
  \/ \E k \in Kinds : \/ RuntimeMissing(k) \/ SelectGroup(k)
                       \/ SelectGroupStopped(k)
  \/ Throw("direct") \/ Throw("http")
  \/ EndDirect \/ EndHttp \/ EndRetry
  \/ WriteConfig \/ WriteConfigFails \/ Launch \/ LaunchFails
  \/ PortsOpen \/ PortsFail \/ BeginHttp \/ Dispose \/ Return

Next == Step \/ Test \/ Stop \/ \E p \in live : Exit(p)

Spec == Init /\ [][Next]_vars

(* Every await in Step is bounded: the requests and connects by the request *)
(* timeout, the port wait by the startup timeout, the gate by Leave.        *)
FairSpec == Spec /\ WF_vars(Step)

-----------------------------------------------------------------------------
ResultType ==
  [cand : Candidates, alive : BOOLEAN, successes : Nat, attempts : Nat,
   tester : Passes \cup {"none"}]

\* Every variable has its type.
TypeOK ==
  /\ pc \in Ended \cup Passes
              \cup {"select", "config", "launch", "ports", "ready", "dispose"}
  /\ run \in Nat /\ stop \in BOOLEAN
  /\ group \in Kinds \cup {Direct} /\ todo \in SUBSET Kinds
  /\ task \in [Candidates -> {"idle", "waiting", "running", "done", "refused"}]
  /\ tried \in [Candidates -> Nat] /\ good \in [Candidates -> Nat]
  /\ free \in Int
  /\ output \in SUBSET ResultType /\ completed \in Nat
  /\ live \in SUBSET (Nat \X Kinds) /\ files \in SUBSET (Nat \X Kinds)

(* Bounded concurrency (LatencyTestService.cs:58-64): no more tasks hold a  *)
(* slot than Parallelism allows, and no slot is lost or minted.             *)
GateBound ==
  pc \in Passes => /\ Cardinality(Running) <= Slots
                   /\ free + Cardinality(Running) = Slots

(* A list that TestAsync returns names every candidate exactly once, through*)
(* every mixture of missing runtimes, failed starts, retries and Stop.      *)
OneResultEach ==
  pc = "returned" =>
    \A c \in Candidates :
      /\ \E r \in output : r.cand = c
      /\ \A r, s \in output : r.cand = c /\ s.cand = c => r = s

(* A call that returns leaves no core process of its own behind, whatever   *)
(* start-up failure, crash or cancelled retry it went through.              *)
ReturnIsClean == pc = "returned" => \A k \in Kinds : <<run, k>> \notin live

(* A kind that the loop has finished has no live process, so at most one    *)
(* core process of a run exists at any time.                                *)
OneProcessPerRun ==
  \A p, q \in live : p[1] = run /\ q[1] = run => p = q

(* Within one call a result is only ever replaced by a successful retry of  *)
(* the same candidate; a live result is final.                              *)
ResultsOnlyImprove ==
  [][run' = run =>
       \A r \in output :
         \/ r \in output'
         \/ /\ ~r.alive
            /\ \E s \in output' :
                 s.cand = r.cand /\ s.alive /\ s.tester = "retry"]_vars

\* A test that was started returns or throws (no slot or barrier is lost).
TestEnds == (pc \notin Ended) ~> (pc \in Ended)

(* LatencyTestService.cs:31 "one process per RuntimeKind with ALL           *)
(* candidates", across the tests of one session of the program.             *)
OneProcessPerKind == \A p, q \in live : p[2] = q[2] => p = q

-----------------------------------------------------------------------------
\* Parts of the inductive invariant.

WithSession == {"ports", "ready", "http", "retry", "dispose"}

\* A process of this run belongs to the current group and its session.
LiveOwned ==
  \A p \in live :
    /\ p[1] <= run
    /\ p[1] = run => p[2] = group /\ pc \in WithSession \cup {"threw"}

\* The loop body works on a group it has not finished.
GroupPending == pc \in WithSession \cup {"config", "launch"} => group \in todo

\* The candidates that have a result while the call is under way.
Settled(c) ==
  IF KindOf[c] = Direct THEN pc # "direct"
  ELSE \/ KindOf[c] \notin todo
       \/ KindOf[c] = group /\ pc \in {"retry", "dispose"}

OutputSettled ==
  /\ \A r, s \in output : r.cand = s.cand => r = s
  /\ pc \notin {"idle", "threw"} =>
       \A c \in Candidates : (\E r \in output : r.cand = c) <=> Settled(c)
  /\ pc = "returned" => todo = {}

GateAccounts ==
  pc \in Passes => free >= 0 /\ free + Cardinality(Running) = Slots

(* The strengthening of the safety invariants that every step preserves: who *)
(* owns the core processes, which candidates have a result at each point of *)
(* TestAsync, and where the slots of the gate are.                           *)
IInv == LiveOwned /\ GroupPending /\ OutputSettled /\ GateAccounts
=============================================================================
