------------------------------ MODULE RetryQueue ------------------------------
(***************************************************************************)
(* The publication queue of the legacy window: publish_personal_subscription*)
(* and create_subscription_repository of app.py with the calls they make in *)
(* subscription_publisher.py.  A failed call leaves a flag in QSettings and *)
(* a 30-second timer.  Handlers run one after the other on the GUI thread,  *)
(* but a message box runs an event loop of its own, in which timers and the *)
(* worker's signals are handled; the worker thread rewrites the output      *)
(* files meanwhile, and the program may end at any point.                   *)
(***************************************************************************)
EXTENDS Naturals, Sequences

CONSTANTS
  Repos,      \* the random names of repositories
  TextFlags,  \* whether QSettings reads a stored False as the text "false"
  MaxWrites,  \* bound: writes of the pair of output files
  MaxClicks,  \* bound: manual calls
  MaxEdits,   \* bound: changes of the token field
  MaxStarts,  \* bound: starts of the program
  MaxBoxes,   \* bound: nested message boxes
  None,
  Bare        \* a repository without the two files

ASSUME RetryAssumption ==
  /\ TextFlags \in BOOLEAN /\ None \notin Repos /\ Bare # None
  /\ MaxWrites \in Nat /\ MaxClicks \in Nat /\ MaxEdits \in Nat
  /\ MaxStarts \in Nat /\ MaxBoxes \in Nat \ {0}

VARIABLES
  up,         \* the window exists
  online,     \* GitHub answers
  starts, clicks, edits,
  typed,      \* the token field holds a token
  saved,      \* subscription/github_token
  stored,     \* subscription/repository, which the window shows
  pending,    \* subscription/pending_repository and .../pending_publish
  scheduled,  \* _subscription_retry_scheduled
  timers,     \* single-shot timers that will call each handler
  call,       \* the handler in progress
  boxes,      \* open message boxes, with what their caller does afterwards
  wk,         \* the checker worker
  version,    \* the last pair of outputs it began to write
  files,      \* the contents of sub.txt and proxy.txt, 0 when absent
  remote      \* what each repository holds, None before it exists

settings == <<saved, stored, pending>>
queueVars == <<scheduled, timers>>
boundVars == <<starts, clicks, edits>>
workerVars == <<wk, version, files>>
vars == <<up, online, typed, settings, queueVars, boundVars, call, boxes, workerVars, remote>>

Handlers == {"create", "publish"}
Flags == {"unset", "true", "false"}
Idle == [kind |-> "none", at |-> "idle", by |-> "timer", repo |-> None, sub |-> 0, proxy |-> 0]
Truthy(flag) == flag = "true" \/ (TextFlags /\ flag = "false")

Init ==
  /\ up = FALSE /\ online = TRUE /\ starts = 0 /\ clicks = 0 /\ edits = 0
  /\ typed = FALSE /\ saved \in BOOLEAN /\ stored = None
  /\ pending = [h \in Handlers |-> "unset"]
  /\ scheduled = FALSE /\ timers = [h \in Handlers |-> 0]
  /\ call = Idle /\ boxes = <<>>
  /\ wk = "idle" /\ version = 0 /\ files = [sub |-> 0, proxy |-> 0]
  /\ remote = [r \in Repos |-> None]

-----------------------------------------------------------------------------
\* MainWindow.__init__: one of the two handlers is called after three seconds,
\* the publication only when no repository is pending.
Start ==
  /\ ~up /\ starts < MaxStarts /\ up' = TRUE /\ starts' = starts + 1 /\ typed' = saved
  /\ timers' = [create |-> IF Truthy(pending["create"]) THEN 1 ELSE 0,
                publish |-> IF ~Truthy(pending["create"]) /\ Truthy(pending["publish"]) THEN 1 ELSE 0]
  /\ UNCHANGED <<online, clicks, edits, settings, scheduled, call, boxes, workerVars, remote>>

\* The program is closed or killed, also in the middle of a call.
End ==
  /\ up /\ up' = FALSE /\ call' = Idle /\ boxes' = <<>> /\ wk' = "idle"
  /\ scheduled' = FALSE /\ timers' = [h \in Handlers |-> 0]
  /\ UNCHANGED <<online, boundVars, typed, settings, version, files, remote>>

Free == up /\ call = Idle /\ Len(boxes) < MaxBoxes
Clickable == Free /\ boxes = <<>>

EditToken ==
  /\ Clickable /\ edits < MaxEdits /\ edits' = edits + 1 /\ typed' = ~typed
  /\ UNCHANGED <<up, online, starts, clicks, settings, queueVars, call, boxes, workerVars, remote>>

\* save_subscription_settings: a warning without a token.
Save ==
  /\ Clickable /\ saved' = (saved \/ typed) /\ boxes' = <<"notice">>
  /\ UNCHANGED <<up, online, boundVars, typed, stored, pending, queueVars, call, workerVars, remote>>

\* Mutant: a retry does not permit the next one.
BeginKeeps(h, by) ==
  /\ typed
  /\ call' = [Idle EXCEPT !.kind = h, !.by = by, !.at = IF h = "publish" THEN "proxy" ELSE "user"]
  /\ UNCHANGED <<up, online, starts, edits, typed, settings, scheduled, boxes, version, files, remote>>

\* The beginning of either handler.  publish reads sub.txt, returns silently
\* without a token; create shows a warning then, and on_finished its summary.
Begin(h, by) ==
  /\ scheduled' = FALSE
  /\ IF typed
     THEN /\ call' = [Idle EXCEPT !.kind = h, !.by = by, !.sub = IF h = "publish" THEN files.sub ELSE 0,
                                  !.at = IF h = "publish" THEN "proxy" ELSE "user"]
          /\ UNCHANGED boxes
     ELSE /\ UNCHANGED call
          /\ boxes' = IF h = "create" \/ by = "finish" THEN Append(boxes, "notice") ELSE boxes
  /\ UNCHANGED <<up, online, starts, edits, typed, settings, version, files, remote>>

\* Mutant: a manual call counts as the retry.
ClickTakesTimer(h) ==
  /\ Clickable /\ clicks < MaxClicks /\ clicks' = clicks + 1
  /\ Begin(h, "user") /\ timers' = [timers EXCEPT ![h] = @ - 1] /\ UNCHANGED wk

Click(h) ==
  /\ Clickable /\ clicks < MaxClicks /\ clicks' = clicks + 1
  /\ Begin(h, "user") /\ UNCHANGED <<timers, wk>>

Fire(h) ==
  /\ Free /\ timers[h] > 0 /\ timers' = [timers EXCEPT ![h] = @ - 1]
  /\ Begin(h, "timer") /\ UNCHANGED <<clicks, wk>>

\* The signal of a finished worker: on_finished publishes.
Finished ==
  /\ Free /\ wk = "finished" /\ wk' = IF typed THEN "told" ELSE "idle"
  /\ Begin("publish", "finish") /\ UNCHANGED <<clicks, timers>>

-----------------------------------------------------------------------------
Goes(at) ==
  /\ call' = [call EXCEPT !.at = at]
  /\ UNCHANGED <<up, boundVars, typed, settings, queueVars, boxes, workerVars, online>>

\* Mutant: only the first failure starts a timer.
ScheduleOnce(h) ==
  IF scheduled \/ pending["publish"] = "true" THEN UNCHANGED queueVars
  ELSE scheduled' = TRUE /\ timers' = [timers EXCEPT ![h] = @ + 1]

Schedule(h) ==
  IF scheduled THEN UNCHANGED queueVars
  ELSE scheduled' = TRUE /\ timers' = [timers EXCEPT ![h] = @ + 1]

\* The except branches: create schedules the retry after its message box.
Fail ==
  /\ pending' = [pending EXCEPT ![call.kind] = "true"] /\ call' = Idle
  /\ IF call.kind = "publish" THEN Schedule("publish") ELSE UNCHANGED queueVars
  /\ boxes' = IF call.kind = "create" THEN Append(boxes, "create")
              ELSE IF call.by = "timer" THEN boxes ELSE Append(boxes, "notice")
  /\ UNCHANGED <<up, online, boundVars, typed, saved, stored, workerVars>>

\* Both handlers store the reference; only publish clears the pending flags.
Succeed ==
  /\ stored' = call.repo /\ call' = Idle
  /\ pending' = IF call.kind = "publish" THEN [h \in Handlers |-> "false"] ELSE pending
  /\ scheduled' = (scheduled /\ (call.kind = "create" \/ call.by = "user")) /\ UNCHANGED timers
  /\ boxes' = IF call.kind = "publish" /\ call.by = "timer" THEN boxes
              ELSE Append(boxes, IF call.kind = "publish" /\ call.by = "user" THEN "publish" ELSE "notice")
  /\ UNCHANGED <<up, online, boundVars, typed, saved, workerVars>>

\* A message box is closed, and the code after it runs.
CloseBox ==
  /\ up /\ call = Idle /\ boxes # <<>>
  /\ boxes' = SubSeq(boxes, 1, Len(boxes) - 1)
  /\ CASE boxes[Len(boxes)] = "create" -> Schedule("create")
       [] boxes[Len(boxes)] = "publish" -> scheduled' = FALSE /\ UNCHANGED timers
       [] OTHER -> UNCHANGED queueVars
  /\ UNCHANGED <<up, online, boundVars, typed, settings, call, workerVars, remote>>

ReadProxy ==
  /\ call.at = "proxy" /\ call' = [call EXCEPT !.proxy = files.proxy, !.at = "user"]
  /\ UNCHANGED <<up, online, boundVars, typed, settings, queueVars, boxes, workerVars, remote>>

\* _request: four attempts, then the error.
Refused(at) == call.at = at /\ ~online /\ Fail

\* Mutant: the stored repository is not asked for.
UserAnew ==
  \/ call.at = "user" /\ online /\ Goes("create") /\ UNCHANGED remote
  \/ Refused("user") /\ UNCHANGED remote

\* ensure_repository: the user of the token, then the stored repository or a new one.
User ==
  \/ call.at = "user" /\ online /\ Goes(IF stored = None THEN "create" ELSE "lookup") /\ UNCHANGED remote
  \/ Refused("user") /\ UNCHANGED remote

Ready(r) ==
  /\ call' = [call EXCEPT !.repo = r, !.at = IF call.kind = "create" THEN "store" ELSE "compare"]
  /\ UNCHANGED <<up, online, boundVars, typed, settings, queueVars, boxes, workerVars>>

Lookup ==
  /\ \/ call.at = "lookup" /\ online /\ Ready(stored)
     \/ Refused("lookup")
  /\ UNCHANGED remote

\* The repository is made, and _wait_for_branch finds its first commit.  The
\* answer may be lost: the name is refused when the request is sent again.  A
\* repository that is stored nowhere is lost, and its name may stand for a new one.
Create ==
  /\ call.at = "create"
  /\ \E r \in Repos \ {stored} :
       \/ online /\ remote' = [remote EXCEPT ![r] = Bare] /\ Ready(r)
       \/ ~online /\ remote' \in {remote, [remote EXCEPT ![r] = Bare]} /\ Fail

Store == call.at = "store" /\ Succeed /\ UNCHANGED remote

\* Mutant: only sub.txt is compared.
ChangedSub == remote[call.repo] = Bare \/ remote[call.repo][1] # call.sub

Changed == remote[call.repo] # <<call.sub, call.proxy>>

\* publish reads both files of the repository.
Compare ==
  /\ \/ call.at = "compare" /\ online /\ IF Changed THEN Goes("commit") ELSE Succeed
     \/ Refused("compare")
  /\ UNCHANGED remote

\* _atomic_publish: blobs, tree, commit and the branch, which the last request
\* may have moved although every answer to it was lost.
Commit ==
  /\ call.at = "commit"
  /\ \/ online /\ remote' = [remote EXCEPT ![call.repo] = <<call.sub, call.proxy>>] /\ Goes("verify")
     \/ ~online /\ remote' \in {remote, [remote EXCEPT ![call.repo] = <<call.sub, call.proxy>>]} /\ Fail

Verify ==
  /\ \/ call.at = "verify" /\ online /\ IF Changed THEN Fail ELSE Succeed
     \/ Refused("verify")
  /\ UNCHANGED remote

-----------------------------------------------------------------------------
\* The network comes and goes.
Network ==
  /\ online' = ~online
  /\ UNCHANGED <<up, boundVars, typed, settings, queueVars, call, boxes, workerVars, remote>>

WorkerGoes(state) ==
  /\ up /\ wk' = state
  /\ UNCHANGED <<up, online, boundVars, typed, settings, queueVars, call, boxes, remote>>

\* A run clears the outputs, writes them in pairs, and finishes or fails.
StartRun ==
  /\ Clickable /\ wk \in {"idle", "told"} /\ version < MaxWrites
  /\ WorkerGoes("run") /\ files' = [sub |-> 0, proxy |-> 0] /\ UNCHANGED version
WriteSub ==
  /\ wk \in {"run", "pair"} /\ version < MaxWrites /\ version' = version + 1
  /\ WorkerGoes("torn") /\ files' = [files EXCEPT !.sub = version + 1]
WriteProxy ==
  wk = "torn" /\ WorkerGoes("pair") /\ files' = [files EXCEPT !.proxy = version] /\ UNCHANGED version
EndRun ==
  /\ \/ wk = "pair" /\ WorkerGoes("finished")
     \/ wk \in {"run", "pair"} /\ WorkerGoes("idle")
  /\ UNCHANGED <<version, files>>

CallStep == ReadProxy \/ User \/ Lookup \/ Create \/ Store \/ Compare \/ Commit \/ Verify

Next ==
  \/ Start \/ End \/ EditToken \/ Save \/ Finished \/ CloseBox \/ CallStep
  \/ \E h \in Handlers : Click(h) \/ Fire(h)
  \/ Network \/ StartRun \/ WriteSub \/ WriteProxy \/ EndRun

Spec == Init /\ [][Next]_vars

\* Every request has a timeout, every timer fires, the user closes the boxes.
FairSpec == Spec /\ WF_vars(CallStep) /\ WF_vars(CloseBox) /\ \A h \in Handlers : WF_vars(Fire(h))

-----------------------------------------------------------------------------
Numbers == 0..MaxWrites
BoxKinds == {"notice", "create", "publish"}
Calls ==
  [kind : Handlers \cup {"none"}, by : {"user", "timer", "finish"}, repo : Repos \cup {None},
   sub : Numbers, proxy : Numbers,
   at : {"idle", "proxy", "user", "lookup", "create", "store", "compare", "commit", "verify"}]

\* Every variable has its type.
TypeOK ==
  /\ up \in BOOLEAN /\ online \in BOOLEAN /\ typed \in BOOLEAN /\ saved \in BOOLEAN
  /\ starts \in 0..MaxStarts /\ clicks \in 0..MaxClicks /\ edits \in 0..MaxEdits
  /\ stored \in Repos \cup {None} /\ pending \in [Handlers -> Flags]
  /\ scheduled \in BOOLEAN /\ timers \in [Handlers -> Nat]
  /\ call \in Calls
  /\ boxes \in Seq(BoxKinds)
  /\ wk \in {"idle", "run", "torn", "pair", "finished", "told"}
  /\ version \in Numbers /\ files \in [{"sub", "proxy"} -> Numbers]
  /\ remote \in [Repos -> (Numbers \X Numbers) \cup {None, Bare}]

\* _subscription_retry_scheduled keeps a failure from starting a timer.  That
\* loses no retry, since a timer is pending whenever the flag is set, through
\* nested message boxes, manual calls and answers in any order.
FlagMeansTimer == scheduled => \E h \in Handlers : timers[h] > 0

\* The links a user has given away stay valid: once a reference is stored, no
\* later call, lost answer or restart replaces it by another repository.
SameRepository == [][stored # None => stored' = stored]_vars

\* Once the worker's end has been handled and nothing is pending, GitHub holds
\* the pair of files on disk: neither an earlier call that read them between
\* two writes nor a lost answer leaves other texts there unnoticed.
SettledIsPublished ==
  up /\ wk = "told" /\ call = Idle /\ pending["publish"] # "true" =>
    remote[stored] = <<files.sub, files.proxy>>

\* A publication with a timer is made: if GitHub answers from some time on, it
\* does not stay pending, unless the program ends or the token is removed.
QueueDrains ==
  <>[]online => (timers["publish"] > 0 ~> (pending["publish"] # "true" \/ ~up \/ ~typed))

\* src/RELEASE_NOTES_1.5.0.md:20: without a network the output stays in the
\* queue and is published again by itself.  So a pending publication always has
\* a timer, or a call or message box after which there may be one.
QueueKept ==
  Clickable /\ typed /\ pending["publish"] = "true" => \E h \in Handlers : timers[h] > 0
=============================================================================
