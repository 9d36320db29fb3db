------------------------- MODULE LatencyBatch_proofs -------------------------
(* Proofs about LatencyBatch for every set of candidates, every assignment  *)
(* of runtimes and every value of the test options.                         *)
EXTENDS LatencyBatch, FiniteSetTheorems, TLAPS

(* The gate always has between one and 128 slots (Math.Clamp in             *)
(* LatencyTestService.cs:58), and the attempt loop at least one turn.       *)
LEMMA OptionRanges ==
  /\ Slots \in 1..128
  /\ \A pass \in Passes : /\ OptionAttempts(pass) \in Nat
                          /\ LoopLength(pass) \in 1..5
                          /\ Threshold(pass) \in Nat \ {0}
  BY OptionsAssumption
     DEF Slots, OptionAttempts, LoopLength, Threshold, Clamp, Passes

(* Every set of candidates of a pass is finite, so its size is a number.    *)
LEMMA GroupsFinite ==
  ASSUME NEW S, S \subseteq Candidates
  PROVE  IsFiniteSet(S) /\ Cardinality(S) \in Nat
  BY CandidatesAssumption, FS_Subset, FS_CardinalityType

(* A pass starts with well-typed tasks.                                     *)
LEMMA BeginPassType ==
  ASSUME NEW pass \in Passes, NEW S \in SUBSET Candidates,
         NEW cancelled \in BOOLEAN, BeginPass(pass, S, cancelled)
  PROVE  /\ pc' = pass
         /\ task' \in [Candidates ->
                        {"idle", "waiting", "running", "done", "refused"}]
         /\ tried' \in [Candidates -> Nat]
         /\ good' \in [Candidates -> Nat]
         /\ free' \in Int
<1>1. CASE cancelled
  BY <1>1, OptionRanges DEF BeginPass
<1>2. CASE ~cancelled
  <2>1. PICK R \in SUBSET S :
          /\ task' = [c \in Candidates |-> IF c \in R THEN "running"
                                           ELSE IF c \in S THEN "waiting"
                                           ELSE "idle"]
          /\ free' = Slots - Cardinality(R)
    BY <1>2 DEF BeginPass
  <2>2. Cardinality(R) \in Nat
    BY GroupsFinite
  <2> QED BY <1>2, <2>1, <2>2, OptionRanges DEF BeginPass
<1> QED BY <1>1, <1>2

(* The two kinds of results are well typed.                                 *)
LEMMA ResultTypes ==
  ASSUME TypeOK, NEW c \in Candidates
  PROVE  /\ Failed(c) \in ResultType
         /\ \A pass \in Passes : Result(c, pass) \in ResultType
  BY OptionRanges DEF TypeOK, Failed, Result, ResultType

(* Failing a group adds well-typed results.                                 *)
LEMMA FailGroupType ==
  ASSUME TypeOK, NEW k \in Kinds, FailGroup(k)
  PROVE  /\ pc' = "select"
         /\ output' \in SUBSET ResultType
         /\ completed' \in Nat
         /\ todo' \in SUBSET Kinds
<1>1. Cardinality(Group(k)) \in Nat
  BY GroupsFinite DEF Group
<1>2. {Failed(c) : c \in Group(k)} \subseteq ResultType
  BY ResultTypes DEF Group
<1> QED BY <1>1, <1>2 DEF FailGroup, TypeOK

-----------------------------------------------------------------------------
(* Type correctness of every step of TestAsync, Stop and a core's exit.     *)
LEMMA TypeInductive == TypeOK /\ GroupPending /\ [Next]_vars => TypeOK'
<1> SUFFICES ASSUME TypeOK, GroupPending, [Next]_vars PROVE TypeOK'
  OBVIOUS
<1> USE DEF TypeOK
<1>1. CASE Test
  <2> DEFINE S == Group(Direct)
  <2>1. S \in SUBSET Candidates /\ KindsPresent \in SUBSET Kinds
    BY DEF Group, KindsPresent
  <2>2. run' \in Nat
    BY <1>1 DEF Test
  <2>3. stop' \in BOOLEAN
    BY <1>1 DEF Test
  <2>4. /\ group' \in Kinds \cup {Direct} /\ todo' \in SUBSET Kinds
        /\ output' \in SUBSET ResultType /\ completed' \in Nat
        /\ live' \in SUBSET (Nat \X Kinds) /\ files' \in SUBSET (Nat \X Kinds)
    BY <1>1, <2>1 DEF Test
  <2>5. /\ pc' \in {"direct", "select"} /\ free' \in Int
        /\ task' \in [Candidates ->
                        {"idle", "waiting", "running", "done", "refused"}]
        /\ tried' \in [Candidates -> Nat] /\ good' \in [Candidates -> Nat]
    <3>1. CASE BeginPass("direct", S, FALSE)
      <4> HIDE DEF S
      <4> QED BY <2>1, <3>1, BeginPassType DEF Passes
    <3>2. CASE pc' = "select" /\ UNCHANGED taskVars
      BY <3>2 DEF taskVars
    <3> QED BY <1>1, <3>1, <3>2 DEF Test
  <2>6. pc' \in Ended \cup Passes
                   \cup {"select", "config", "launch", "ports", "ready", "dispose"}
    BY <2>5 DEF Passes
  <2> QED BY <2>2, <2>3, <2>4, <2>5, <2>6, Zenon
<1>2. ASSUME NEW c \in Candidates, TaskStep(c) PROVE TypeOK'
  BY <1>2 DEF TaskStep, Enter, Refuse, Attempt, Leave
<1>3. ASSUME NEW k \in Kinds, RuntimeMissing(k) \/ SelectGroupStopped(k)
      PROVE  TypeOK'
  BY <1>3, FailGroupType DEF RuntimeMissing, SelectGroupStopped, taskVars
<1>4. ASSUME NEW k \in Kinds, SelectGroup(k) PROVE TypeOK'
  BY <1>4 DEF SelectGroup, taskVars
<1>5. CASE Throw("direct") \/ Throw("http")
  BY <1>5 DEF Throw, taskVars, Ended
<1>6. CASE EndDirect
  <2>1. Cardinality(Group(Direct)) \in Nat
    BY GroupsFinite DEF Group
  <2>2. {Result(c, "direct") : c \in Group(Direct)} \subseteq ResultType
    BY ResultTypes DEF Group, Passes
  <2> QED BY <1>6, <2>1, <2>2 DEF EndDirect, taskVars
<1>7. CASE EndHttp
  <2>1. Cardinality(Group(group)) \in Nat
    BY GroupsFinite DEF Group
  <2>2. {Result(c, "http") : c \in Group(group)} \subseteq ResultType
    BY ResultTypes DEF Group, Passes
  <2> DEFINE failed == {c \in Group(group) : ~Result(c, "http").alive}
  <2>3. CASE BeginPass("retry", failed, stop)
    BY <1>7, <2>1, <2>2, <2>3, BeginPassType DEF EndHttp, Group, Passes
  <2>4. CASE pc' = "dispose" /\ UNCHANGED taskVars
    BY <1>7, <2>1, <2>2, <2>4 DEF EndHttp, taskVars
  <2> QED BY <1>7, <2>3, <2>4 DEF EndHttp
<1>8. CASE EndRetry
  <2>1. \A r \in output : Result(r.cand, "retry") \in ResultType
    BY ResultTypes DEF Passes, ResultType
  <2> QED BY <1>8, <2>1 DEF EndRetry, taskVars
<1>9. CASE WriteConfig \/ WriteConfigFails
  <2>1. group \in Kinds /\ Current \in Nat \X Kinds
    BY <1>9 DEF GroupPending, WriteConfig, WriteConfigFails, Current
  <2> QED BY <1>9, <2>1, FailGroupType
          DEF WriteConfig, WriteConfigFails, taskVars
<1>10. CASE Launch \/ LaunchFails
  <2>1. group \in Kinds /\ Current \in Nat \X Kinds
    BY <1>10 DEF GroupPending, Launch, LaunchFails, Current
  <2> QED BY <1>10, <2>1, FailGroupType DEF Launch, LaunchFails, taskVars
<1>11. CASE PortsOpen \/ Return \/ Stop
  BY <1>11 DEF PortsOpen, Return, Stop, taskVars, Ended
<1>12. CASE PortsFail
  <2>1. group \in Kinds
    BY <1>12 DEF GroupPending, PortsFail, WithSession
  <2> QED BY <1>12, <2>1, FailGroupType DEF PortsFail, DisposeSession, taskVars
<1>13. CASE BeginHttp
  BY <1>13, BeginPassType DEF BeginHttp, Group, Passes
<1>14. CASE Dispose
  BY <1>14 DEF Dispose, DisposeSession, taskVars
<1>15. ASSUME NEW p \in live, Exit(p) PROVE TypeOK'
  BY <1>15 DEF Exit, taskVars
<1>16. CASE UNCHANGED vars
  BY <1>16 DEF vars
<1> QED BY <1>1, <1>2, <1>3, <1>4, <1>5, <1>6, <1>7, <1>8, <1>9, <1>10, <1>11,
           <1>12, <1>13, <1>14, <1>15, <1>16 DEF Next, Step

-----------------------------------------------------------------------------
(* The loop body keeps its group in todo until it records the group.        *)
LEMMA GroupPendingInductive ==
  GroupPending /\ [Next]_vars => GroupPending'
<1> SUFFICES ASSUME GroupPending, [Next]_vars PROVE GroupPending'
  OBVIOUS
<1> USE DEF GroupPending, WithSession
<1>1. CASE Test
  BY <1>1 DEF Test, BeginPass
<1>2. ASSUME NEW c \in Candidates, TaskStep(c) PROVE GroupPending'
  BY <1>2 DEF TaskStep, Enter, Refuse, Attempt, Leave
<1>3. ASSUME NEW k \in Kinds,
             RuntimeMissing(k) \/ SelectGroupStopped(k) \/ SelectGroup(k)
      PROVE  GroupPending'
  BY <1>3 DEF RuntimeMissing, SelectGroupStopped, SelectGroup, FailGroup
<1>4. CASE \/ Throw("direct") \/ Throw("http") \/ EndDirect \/ EndRetry
           \/ Dispose \/ Return \/ Stop
  BY <1>4 DEF Throw, EndDirect, EndRetry, Dispose, Return, Stop
<1>5. CASE EndHttp
  BY <1>5 DEF EndHttp, BeginPass
<1>6. CASE WriteConfigFails \/ LaunchFails \/ PortsFail
  BY <1>6 DEF WriteConfigFails, LaunchFails, PortsFail, FailGroup
<1>7. CASE WriteConfig \/ Launch \/ PortsOpen
  BY <1>7 DEF WriteConfig, Launch, PortsOpen
<1>8. CASE BeginHttp
  BY <1>8 DEF BeginHttp, BeginPass
<1>9. ASSUME NEW p \in live, Exit(p) PROVE GroupPending'
  BY <1>9 DEF Exit
<1>10. CASE UNCHANGED vars
  BY <1>10 DEF vars
<1> QED BY <1>1, <1>2, <1>3, <1>4, <1>5, <1>6, <1>7, <1>8, <1>9, <1>10
        DEF Next, Step

(* Core processes: only Launch adds one, for the current group, and every   *)
(* way out of the group except the exception of the first pass kills it.    *)
LEMMA LiveOwnedInductive ==
  TypeOK /\ LiveOwned /\ [Next]_vars => LiveOwned'
<1> SUFFICES ASSUME TypeOK, LiveOwned, [Next]_vars PROVE LiveOwned'
  OBVIOUS
<1> USE DEF LiveOwned, WithSession
<1>1. CASE Test
  BY <1>1 DEF Test, TypeOK
<1>2. ASSUME NEW c \in Candidates, TaskStep(c) PROVE LiveOwned'
  BY <1>2 DEF TaskStep, Enter, Refuse, Attempt, Leave
<1>3. ASSUME NEW k \in Kinds,
             RuntimeMissing(k) \/ SelectGroupStopped(k) \/ SelectGroup(k)
      PROVE  LiveOwned'
  BY <1>3 DEF RuntimeMissing, SelectGroupStopped, SelectGroup
<1>4. CASE \/ Throw("direct") \/ Throw("http") \/ EndDirect \/ EndRetry
           \/ Return \/ Stop
  BY <1>4 DEF Throw, EndDirect, EndRetry, Return, Stop
<1>5. CASE EndHttp
  BY <1>5 DEF EndHttp, BeginPass
<1>6. CASE WriteConfigFails \/ LaunchFails \/ WriteConfig \/ PortsOpen
  BY <1>6 DEF WriteConfigFails, LaunchFails, WriteConfig, PortsOpen
<1>7. CASE Launch
  <2>1. /\ live' = live \cup {<<run, group>>} /\ pc' = "ports"
        /\ run' = run /\ group' = group
    BY <1>7 DEF Launch, Current
  <2> QED BY <2>1 DEF TypeOK
<1>8. CASE PortsFail \/ Dispose
  <2>1. live' = live \ {<<run, group>>} /\ run' = run /\ group' = group
    BY <1>8 DEF PortsFail, Dispose, DisposeSession, Current
  <2>2. \A p \in live : p = <<p[1], p[2]>>
    BY DEF TypeOK
  <2> QED BY <2>1, <2>2
<1>9. CASE BeginHttp
  BY <1>9 DEF BeginHttp, BeginPass
<1>10. ASSUME NEW p \in live, Exit(p) PROVE LiveOwned'
  BY <1>10 DEF Exit
<1>11. CASE UNCHANGED vars
  BY <1>11 DEF vars
<1> QED BY <1>1, <1>2, <1>3, <1>4, <1>5, <1>6, <1>7, <1>8, <1>9, <1>10, <1>11
        DEF Next, Step

(* A failed group had no results yet, so Failed adds one for each member.   *)
LEMMA FailGroupSettles ==
  ASSUME TypeOK, OutputSettled, NEW k \in todo, FailGroup(k),
         pc \in {"select", "config", "launch", "ports"}
  PROVE  OutputSettled'
<1> USE DEF OutputSettled
<1>1. /\ output' = output \cup {Failed(c) : c \in Group(k)}
      /\ todo' = todo \ {k} /\ pc' = "select" /\ k # Direct
  BY CandidatesAssumption DEF FailGroup, TypeOK
<1>2. \A c \in Group(k) : c \in Candidates /\ KindOf[c] = k /\ ~Settled(c)
  BY <1>1 DEF Group, Settled
<1>3. \A c \in Candidates : Failed(c).cand = c
  BY DEF Failed
<1>4. ASSUME NEW r \in output', NEW s \in output', r.cand = s.cand
      PROVE  r = s
  BY <1>1, <1>2, <1>3, <1>4
<1>5. ASSUME NEW c \in Candidates
      PROVE  (\E r \in output' : r.cand = c) <=> Settled(c)'
  <2>1. Settled(c)' <=> Settled(c) \/ c \in Group(k)
    BY <1>1 DEF Settled, Group
  <2> QED BY <1>1, <1>2, <1>3, <2>1
<1> QED BY <1>1, <1>4, <1>5

(* The results of the first pass are new, one for each member of the group. *)
LEMMA PassSettles ==
  ASSUME TypeOK, OutputSettled, NEW pass \in Passes, NEW k,
         output' = output \cup {Result(c, pass) : c \in Group(k)},
         todo' = todo, group' = group,
         \/ pc = "direct" /\ k = Direct /\ pc' = "select"
         \/ /\ pc = "http" /\ k = group /\ group \in todo
            /\ pc' \in {"retry", "dispose"}
  PROVE  OutputSettled'
<1> USE DEF OutputSettled
<1>1. \A c \in Group(k) : c \in Candidates /\ KindOf[c] = k /\ ~Settled(c)
  BY CandidatesAssumption DEF Group, Settled, TypeOK
<1>2. \A c \in Candidates : Result(c, pass).cand = c
  BY DEF Result
<1>3. ASSUME NEW r \in output', NEW s \in output', r.cand = s.cand
      PROVE  r = s
  BY <1>1, <1>2, <1>3
<1>4. ASSUME NEW c \in Candidates
      PROVE  (\E r \in output' : r.cand = c) <=> Settled(c)'
  <2>1. Settled(c)' <=> Settled(c) \/ c \in Group(k)
    BY CandidatesAssumption DEF Settled, Group, TypeOK
  <2> QED BY <1>1, <1>2, <2>1
<1> QED BY <1>3, <1>4

(* A retry replaces a result by one of the same candidate.                  *)
LEMMA RetryKeepsSettled ==
  ASSUME TypeOK, OutputSettled, EndRetry
  PROVE  OutputSettled'
<1> USE DEF OutputSettled
<1> DEFINE revived == {c \in Candidates : /\ task[c] = "done"
                                          /\ Result(c, "retry").alive}
           new(r) == IF ~r.alive /\ r.cand \in revived
                     THEN Result(r.cand, "retry") ELSE r
<1>1. \/ output' = output
      \/ output' = {new(r) : r \in output}
  BY DEF EndRetry
<1>2. \A r \in output : new(r).cand = r.cand
  BY DEF Result
<1>3. /\ todo' = todo /\ group' = group /\ pc = "retry" /\ pc' = "dispose"
  BY DEF EndRetry
<1>4. \A c \in Candidates : Settled(c)' <=> Settled(c)
  BY <1>3 DEF Settled
<1>5. \A r, s \in output' : r.cand = s.cand => r = s
  <2>1. CASE output' = output
    BY <2>1
  <2>2. CASE output' = {new(r) : r \in output}
    <3> HIDE DEF new
    <3> QED BY <1>2, <2>2
  <2> QED BY <1>1, <2>1, <2>2
<1>6. \A c \in Candidates :
        (\E r \in output' : r.cand = c) <=> (\E r \in output : r.cand = c)
  <2>1. CASE output' = output
    BY <2>1
  <2>2. CASE output' = {new(r) : r \in output}
    <3> HIDE DEF new
    <3> QED BY <1>2, <2>2
  <2> QED BY <1>1, <2>1, <2>2
<1> QED BY <1>3, <1>4, <1>5, <1>6

(* Results stay unique, and exist exactly for the settled candidates.       *)
LEMMA OutputSettledInductive ==
  TypeOK /\ GroupPending /\ OutputSettled /\ [Next]_vars => OutputSettled'
<1> SUFFICES ASSUME TypeOK, GroupPending, OutputSettled, [Next]_vars
             PROVE  OutputSettled'
  OBVIOUS
<1>1. CASE Test
  <2>1. /\ output' = {} /\ todo' = KindsPresent /\ pc' \in {"direct", "select"}
        /\ Group(Direct) # {} => pc' = "direct"
    BY <1>1 DEF Test, BeginPass
  <2>2. \A c \in Candidates : ~Settled(c)'
    BY <2>1, CandidatesAssumption DEF Settled, KindsPresent, Group
  <2> QED BY <2>1, <2>2 DEF OutputSettled
<1>2. ASSUME NEW c \in Candidates, TaskStep(c) PROVE OutputSettled'
  BY <1>2 DEF TaskStep, Enter, Refuse, Attempt, Leave, OutputSettled, Settled
<1>3. ASSUME NEW k \in Kinds, RuntimeMissing(k) \/ SelectGroupStopped(k)
      PROVE  OutputSettled'
  BY <1>3, FailGroupSettles DEF RuntimeMissing, SelectGroupStopped
<1>4. ASSUME NEW k \in Kinds, SelectGroup(k) PROVE OutputSettled'
  BY <1>4 DEF SelectGroup, OutputSettled, Settled
<1>5. CASE Throw("direct") \/ Throw("http")
  BY <1>5 DEF Throw, OutputSettled
<1>6. CASE EndDirect
  BY <1>6, PassSettles DEF EndDirect, Passes
<1>7. CASE EndHttp
  <2>1. pc' \in {"retry", "dispose"} /\ group \in todo
    BY <1>7 DEF EndHttp, BeginPass, GroupPending, WithSession
  <2> QED BY <1>7, <2>1, PassSettles DEF EndHttp, Passes
<1>8. CASE EndRetry
  BY <1>8, RetryKeepsSettled
<1>9. CASE WriteConfigFails \/ LaunchFails \/ PortsFail
  BY <1>9, FailGroupSettles
     DEF WriteConfigFails, LaunchFails, PortsFail, GroupPending, WithSession
<1>10. CASE WriteConfig \/ Launch \/ PortsOpen \/ Return \/ Stop
  BY <1>10 DEF WriteConfig, Launch, PortsOpen, Return, Stop, OutputSettled,
               Settled
<1>11. CASE BeginHttp
  BY <1>11 DEF BeginHttp, BeginPass, OutputSettled, Settled
<1>12. CASE Dispose
  BY <1>12, CandidatesAssumption
     DEF Dispose, OutputSettled, Settled, GroupPending, WithSession, TypeOK
<1>13. ASSUME NEW p \in live, Exit(p) PROVE OutputSettled'
  BY <1>13 DEF Exit, OutputSettled, Settled
<1>14. CASE UNCHANGED vars
  BY <1>14 DEF vars, OutputSettled, Settled
<1> QED BY <1>1, <1>2, <1>3, <1>4, <1>5, <1>6, <1>7, <1>8, <1>9, <1>10, <1>11,
           <1>12, <1>13, <1>14 DEF Next, Step

-----------------------------------------------------------------------------
(* A new gate accounts for all its slots.                                   *)
LEMMA BeginPassAccounts ==
  ASSUME NEW pass \in Passes, NEW S \in SUBSET Candidates,
         NEW cancelled \in BOOLEAN, BeginPass(pass, S, cancelled)
  PROVE  GateAccounts'
<1> USE DEF GateAccounts, Running
<1>1. CASE cancelled
  <2>1. Running' = {}
    BY <1>1 DEF BeginPass
  <2> QED BY <1>1, <2>1, FS_EmptySet, OptionRanges DEF BeginPass
<1>2. CASE ~cancelled
  <2>1. PICK R \in SUBSET S :
          /\ \/ Cardinality(R) = Slots
             \/ R = S /\ Cardinality(S) < Slots
          /\ task' = [c \in Candidates |-> IF c \in R THEN "running"
                                           ELSE IF c \in S THEN "waiting"
                                           ELSE "idle"]
          /\ free' = Slots - Cardinality(R)
    BY <1>2 DEF BeginPass
  <2>2. Running' = R
    BY <2>1
  <2>3. Cardinality(R) \in Nat
    BY GroupsFinite
  <2>4. free' >= 0 /\ free' + Cardinality(R) = Slots
    BY <2>1, <2>3, OptionRanges
  <2> HIDE DEF Running
  <2> QED BY <2>2, <2>4
<1> QED BY <1>1, <1>2

(* Outside the passes there is no gate to account for.                      *)
LEMMA GateAccountsInductive ==
  TypeOK /\ GateAccounts /\ [Next]_vars => GateAccounts'
<1> SUFFICES ASSUME TypeOK, GateAccounts, [Next]_vars PROVE GateAccounts'
  OBVIOUS
<1> USE DEF GateAccounts
<1>1. CASE Test
  <2> DEFINE S == Group(Direct)
  <2>1. S \in SUBSET Candidates
    BY DEF Group
  <2>2. CASE BeginPass("direct", S, FALSE)
    <3> HIDE DEF S, GateAccounts
    <3> QED BY <2>1, <2>2, BeginPassAccounts DEF Passes
  <2>3. CASE pc' = "select"
    BY <2>3 DEF Passes
  <2> QED BY <1>1, <2>2, <2>3 DEF Test
<1>2. ASSUME NEW c \in Candidates, TaskStep(c) PROVE GateAccounts'
  <2>1. /\ Running \subseteq Candidates /\ IsFiniteSet(Running)
        /\ Cardinality(Running) \in Nat
    BY GroupsFinite DEF Running
  <2>2. CASE Enter(c)
    <3>1. Running' = Running \cup {c} /\ c \notin Running
      BY <2>2 DEF Enter, Running, TypeOK
    <3>2. Cardinality(Running') = Cardinality(Running) + 1
      BY <2>1, <3>1, FS_AddElement
    <3> QED BY <2>1, <2>2, <3>2 DEF Enter, TypeOK
  <2>3. CASE Refuse(c) \/ Attempt(c)
    <3>1. Running' = Running
      BY <2>3 DEF Refuse, Attempt, Running, TypeOK
    <3> QED BY <2>3, <3>1 DEF Refuse, Attempt
  <2>4. CASE Leave(c)
    <3>1. Running' = Running \ {c} /\ c \in Running
      BY <2>4 DEF Leave, Running, TypeOK
    <3>2. Cardinality(Running') = Cardinality(Running) - 1
      BY <2>1, <3>1, FS_RemoveElement
    <3> QED BY <2>1, <2>4, <3>2 DEF Leave, TypeOK
  <2> QED BY <1>2, <2>2, <2>3, <2>4 DEF TaskStep
<1>3. ASSUME NEW k \in Kinds,
             RuntimeMissing(k) \/ SelectGroupStopped(k) \/ SelectGroup(k)
      PROVE  GateAccounts'
  BY <1>3 DEF RuntimeMissing, SelectGroupStopped, SelectGroup, FailGroup, Passes
<1>4. CASE \/ Throw("direct") \/ Throw("http") \/ EndDirect \/ EndRetry
           \/ WriteConfig \/ WriteConfigFails \/ Launch \/ LaunchFails
           \/ PortsOpen \/ PortsFail \/ Dispose \/ Return
  BY <1>4 DEF Throw, EndDirect, EndRetry, WriteConfig, WriteConfigFails, Launch,
              LaunchFails, PortsOpen, PortsFail, Dispose, Return, FailGroup,
              Passes
<1>5. CASE EndHttp
  <2> DEFINE failed == {c \in Group(group) : ~Result(c, "http").alive}
  <2>1. failed \in SUBSET Candidates /\ stop \in BOOLEAN
    BY DEF Group, TypeOK
  <2>2. CASE BeginPass("retry", failed, stop)
    <3> HIDE DEF failed, GateAccounts
    <3> QED BY <2>1, <2>2, BeginPassAccounts DEF Passes
  <2>3. CASE pc' = "dispose"
    BY <2>3 DEF Passes
  <2> QED BY <1>5, <2>2, <2>3 DEF EndHttp
<1>6. CASE BeginHttp
  <2>1. Group(group) \in SUBSET Candidates /\ stop \in BOOLEAN
    BY DEF Group, TypeOK
  <2>2. BeginPass("http", Group(group), stop)
    BY <1>6 DEF BeginHttp
  <2> HIDE DEF GateAccounts
  <2> QED BY <2>1, <2>2, BeginPassAccounts DEF Passes
<1>7. CASE Stop \/ UNCHANGED vars
  BY <1>7 DEF Stop, taskVars, vars, Running
<1>8. ASSUME NEW p \in live, Exit(p) PROVE GateAccounts'
  BY <1>8 DEF Exit, taskVars, Running
<1> QED BY <1>1, <1>2, <1>3, <1>4, <1>5, <1>6, <1>7, <1>8 DEF Next, Step

-----------------------------------------------------------------------------
(* The inductive invariant holds in every behaviour: types, ownership of    *)
(* the core processes, settled results and the slots of the gate.           *)
THEOREM Invariance == Spec => [](TypeOK /\ IInv)
<1>1. Init => TypeOK /\ IInv
  <2> SUFFICES ASSUME Init PROVE TypeOK /\ IInv
    OBVIOUS
  <2>1. TypeOK
    <3>1. run \in Nat /\ completed \in Nat /\ free \in Int
      BY OptionRanges DEF Init
    <3>2. tried \in [Candidates -> Nat] /\ good \in [Candidates -> Nat]
      BY DEF Init
    <3>3. stop \in BOOLEAN
      BY DEF Init
    <3>4. task \in [Candidates ->
                     {"idle", "waiting", "running", "done", "refused"}]
      BY DEF Init
    <3>5. /\ group \in Kinds \cup {Direct} /\ todo \in SUBSET Kinds
          /\ output \in SUBSET ResultType
          /\ live \in SUBSET (Nat \X Kinds) /\ files \in SUBSET (Nat \X Kinds)
      BY DEF Init
    <3>6. pc \in Ended
      BY DEF Init, Ended
    <3> QED BY <3>1, <3>2, <3>3, <3>4, <3>5, <3>6, Zenon DEF TypeOK
  <2>2. IInv
    BY DEF Init, IInv, LiveOwned, GroupPending, OutputSettled, GateAccounts,
           WithSession, Passes
  <2> QED BY <2>1, <2>2
<1>2. TypeOK /\ IInv /\ [Next]_vars => (TypeOK /\ IInv)'
  BY TypeInductive, LiveOwnedInductive, GroupPendingInductive,
     OutputSettledInductive, GateAccountsInductive DEF IInv
<1> QED BY <1>1, <1>2, PTL DEF Spec

(* Every variable of the test engine keeps its type.                        *)
THEOREM TypeSafety == Spec => []TypeOK
  BY Invariance, PTL

(* The gate of LatencyTestService.cs:58 bounds the tests in flight, for     *)
(* every number of candidates and every setting of Parallelism.             *)
THEOREM GateSafety == Spec => []GateBound
<1>1. TypeOK /\ IInv => GateBound
  <2> SUFFICES ASSUME TypeOK, IInv PROVE GateBound
    OBVIOUS
  <2>1. Cardinality(Running) \in Nat
    BY GroupsFinite DEF Running
  <2> QED BY <2>1, OptionRanges DEF IInv, GateAccounts, GateBound, TypeOK
<1> QED BY <1>1, Invariance, PTL

(* TestAsync returns exactly one result for each candidate, for every mix   *)
(* of runtimes, failures and cancellations.                                 *)
THEOREM ResultSafety == Spec => []OneResultEach
<1>1. IInv => OneResultEach
  BY CandidatesAssumption DEF IInv, OutputSettled, OneResultEach, Settled
<1> QED BY <1>1, Invariance, PTL

(* A call that returns has no core process left.                            *)
THEOREM ReturnCleanliness == Spec => []ReturnIsClean
<1>1. TypeOK /\ IInv => ReturnIsClean
  BY DEF IInv, LiveOwned, ReturnIsClean, WithSession, TypeOK
<1> QED BY <1>1, Invariance, PTL

(* One call never has two core processes at once.                           *)
THEOREM ProcessSafety == Spec => []OneProcessPerRun
<1>1. TypeOK /\ IInv => OneProcessPerRun
  <2> SUFFICES ASSUME TypeOK, LiveOwned, NEW p \in live, NEW q \in live,
                      p[1] = run, q[1] = run
               PROVE  p = q
    BY DEF IInv, OneProcessPerRun
  <2>1. p = <<run, group>> /\ q = <<run, group>>
    BY DEF TypeOK, LiveOwned
  <2> QED BY <2>1
<1> QED BY <1>1, Invariance, PTL

(* A result is only ever replaced by a successful retry (line 83): a test   *)
(* that passed stays passed until the list is returned.                     *)
THEOREM ResultMonotonicity == Spec => ResultsOnlyImprove
<1> DEFINE Improves ==
      run' = run =>
        \A r \in output :
          \/ r \in output'
          \/ /\ ~r.alive
             /\ \E s \in output' :
                  s.cand = r.cand /\ s.alive /\ s.tester = "retry"
<1>1. TypeOK /\ [Next]_vars => [Improves]_vars
  <2> SUFFICES ASSUME TypeOK, Next PROVE Improves
    BY DEF vars
  <2>1. CASE Test
    BY <2>1 DEF Test, TypeOK
  <2>2. CASE EndRetry
    <3> DEFINE revived == {c \in Candidates : /\ task[c] = "done"
                                              /\ Result(c, "retry").alive}
               new(r) == IF ~r.alive /\ r.cand \in revived
                         THEN Result(r.cand, "retry") ELSE r
    <3>1. output' = output \/ output' = {new(r) : r \in output}
      BY <2>2 DEF EndRetry
    <3>2. \A r \in output :
            \/ new(r) = r
            \/ /\ ~r.alive /\ new(r).cand = r.cand
               /\ new(r).alive /\ new(r).tester = "retry"
      BY DEF Result
    <3> HIDE DEF new
    <3> QED BY <3>1, <3>2
  <2>3. CASE Step /\ ~EndRetry
    BY <2>3 DEF Step, TaskStep, Enter, Refuse, Attempt, Leave, RuntimeMissing,
       SelectGroup, SelectGroupStopped, FailGroup, Throw, EndDirect, EndHttp,
       WriteConfig, WriteConfigFails, Launch, LaunchFails, PortsOpen,
       PortsFail, BeginHttp, Dispose, Return
  <2>4. CASE Stop \/ \E p \in live : Exit(p)
    BY <2>4 DEF Stop, Exit
  <2> QED BY <2>1, <2>2, <2>3, <2>4 DEF Next
<1> QED BY <1>1, Invariance, PTL DEF Spec, ResultsOnlyImprove
=============================================================================
