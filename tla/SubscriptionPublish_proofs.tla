---------------------- MODULE SubscriptionPublish_proofs ----------------------
(* Proofs about SubscriptionPublish for every set of calls, repositories and *)
(* texts, any number of sends and any number of commits by the owner.       *)
EXTENDS SubscriptionPublish, SequenceTheorems, TLAPS

\* What a publication puts on the head of r, and what the owner does.
PublishedCommit(c, r) ==
  [sub |-> SubOf[c], proxy |-> ProxyOf[c], other |-> Tip(r).other, by |-> c]
OwnersCommit(r) == [Tip(r) EXCEPT !.other = @ + 1, !.by = Absent]

\* The three ways a branch changes.
Established(r) == branch[r] = <<>> /\ branch'[r] = <<InitialCommit>>
Published(c, r) ==
  /\ at[c] = "patch" /\ repo[c] = r /\ branch[r] # <<>>
  /\ base[c] = Len(branch[r])
  /\ branch'[r] = Append(branch[r], PublishedCommit(c, r))
Edited(r) ==
  /\ branch[r] # <<>>
  /\ branch'[r] = Append(branch[r], OwnersCommit(r))

(* A branch that exists has a head, which is one of its commits.            *)
LEMMA TipProperties ==
  ASSUME TypeOK, NEW r \in Repos, branch[r] # <<>>
  PROVE  /\ Len(branch[r]) \in Nat \ {0}
         /\ Tip(r) \in CommitType
         /\ Tip(r) \in Commits(r)
<1>1. branch[r] \in Seq(CommitType)
  BY DEF TypeOK
<1>2. Len(branch[r]) \in Nat \ {0} /\ DOMAIN branch[r] = 1..Len(branch[r])
  BY <1>1, EmptySeq, LenProperties
<1>3. Len(branch[r]) \in 1..Len(branch[r])
  BY <1>2
<1>4. Tip(r) \in CommitType
  BY <1>1, <1>3, ElementOfSeq DEF Tip
<1> QED BY <1>2, <1>3, <1>4 DEF Tip, Commits

(* The commits that are added have the type of a commit.                    *)
LEMMA CommitTypes ==
  ASSUME TypeOK, NEW r \in Repos
  PROVE  /\ InitialCommit \in CommitType
         /\ branch[r] # <<>> =>
              /\ \A c \in Calls : PublishedCommit(c, r) \in CommitType
              /\ OwnersCommit(r) \in CommitType
<1>1. /\ Absent \in Texts
      /\ \A c \in Calls : SubOf[c] \in Texts /\ ProxyOf[c] \in Texts
  BY DEF Texts
<1>2. InitialCommit \in CommitType
  BY <1>1 DEF InitialCommit, CommitType
<1>3. ASSUME branch[r] # <<>>
      PROVE  /\ \A c \in Calls : PublishedCommit(c, r) \in CommitType
             /\ OwnersCommit(r) \in CommitType
  <2>1. Tip(r) \in [sub : Texts, proxy : Texts, other : Nat,
                    by : Calls \cup {Absent}]
    BY <1>3, TipProperties DEF CommitType
  <2>2. Tip(r).other \in Nat /\ Tip(r).other + 1 \in Nat
    BY <2>1
  <2>3. \A c \in Calls : PublishedCommit(c, r) \in CommitType
    BY <1>1, <2>2 DEF PublishedCommit, CommitType
  <2>4. OwnersCommit(r) \in CommitType
    BY <2>1, <2>2 DEF OwnersCommit, CommitType
  <2> QED BY <2>3, <2>4
<1> QED BY <1>2, <1>3

(* A ref that is not forced only moves from the head the call has read.     *)
LEMMA NotForced ==
  ASSUME NEW c \in Calls, FastForward(c)
  PROVE  Len(branch[repo[c]]) = base[c]
  BY Zenon DEF FastForward, Forced

(* What GitHub accepts from call c leaves every branch alone or publishes.  *)
LEMMA AcceptMoves ==
  ASSUME TypeOK, CallsLocated, NEW c \in Calls, at[c] = "patch", Accept(c),
         NEW r \in Repos
  PROVE  branch'[r] = branch[r] \/ Published(c, r)
<1>1. repo[c] \in Repos /\ branch[repo[c]] # <<>>
  BY DEF CallsLocated, OnRepository
<1>2. CASE UNCHANGED branch
  BY <1>2
<1>3. CASE /\ FastForward(c)
           /\ branch' = [branch EXCEPT ![repo[c]] =
                           Append(SubSeq(@, 1, base[c]), NewCommit(c))]
  <2>1. branch \in [Repos -> Seq(CommitType)]
    BY DEF TypeOK
  <2>2. CASE r # repo[c]
    BY <1>3, <2>1, <2>2
  <2>3. CASE r = repo[c]
    <3>1. base[c] = Len(branch[r])
      BY <1>3, <2>3, NotForced
    <3>2. SubSeq(branch[r], 1, base[c]) = branch[r]
      BY <2>1, <3>1, SubSeqFull
    <3>3. NewCommit(c) = PublishedCommit(c, r)
      BY <2>3, <3>1 DEF NewCommit, PublishedCommit, Tip
    <3>4. branch'[r] = Append(SubSeq(branch[r], 1, base[c]), NewCommit(c))
      BY <1>3, <2>1, <2>3
    <3> QED BY <1>1, <2>3, <3>1, <3>2, <3>3, <3>4 DEF Published
  <2> QED BY <2>2, <2>3
<1> QED BY <1>2, <1>3 DEF Accept

(* Every step leaves a branch alone or changes it in one of three ways.     *)
LEMMA BranchMoves ==
  ASSUME TypeOK, CallsLocated, [Next]_vars, NEW r \in Repos
  PROVE  \/ branch'[r] = branch[r]
         \/ Established(r)
         \/ \E c \in Calls : Published(c, r)
         \/ Edited(r)
<1>1. CASE UNCHANGED branch
  BY <1>1
<1>2. ASSUME NEW c \in Calls, Create(c), branch' # branch
      PROVE  branch'[r] = branch[r] \/ Established(r)
  BY <1>2 DEF Create, Established, TypeOK
<1>3. ASSUME NEW c \in Calls, Patch(c), branch' # branch
      PROVE  branch'[r] = branch[r] \/ Published(c, r)
  <2>1. at[c] = "patch" /\ Accept(c)
    BY <1>3 DEF Patch
  <2> QED BY <2>1, AcceptMoves
<1>4. ASSUME NEW s \in Repos, Edit(s)
      PROVE  branch'[r] = branch[r] \/ Edited(r)
  BY <1>4 DEF Edit, Edited, OwnersCommit, TypeOK
<1>5. ASSUME NEW c \in Calls,
             \/ Begin(c) \/ Lookup(c) \/ ReadSub(c) \/ ReadProxy(c) \/ Skip(c)
             \/ Build(c) \/ VerifySub(c) \/ VerifyProxy(c)
      PROVE  UNCHANGED branch
  BY <1>5 DEF Begin, Lookup, ReadSub, ReadProxy, Skip, Build, VerifySub,
              VerifyProxy
<1> QED BY <1>1, <1>2, <1>3, <1>4, <1>5 DEF Next, CallStep, vars

(* In each case the branch keeps its commits and gains at most one.         *)
LEMMA BranchGrows ==
  ASSUME TypeOK, CallsLocated, [Next]_vars, NEW r \in Repos
  PROVE  /\ branch'[r] \in Seq(CommitType)
         /\ Len(branch'[r]) >= Len(branch[r])
         /\ \A i \in DOMAIN branch[r] : /\ i \in DOMAIN branch'[r]
                                        /\ branch'[r][i] = branch[r][i]
         /\ branch[r] # <<>> => branch'[r] # <<>>
         /\ \A i \in DOMAIN branch'[r] :
              \/ i \in DOMAIN branch[r]
              \/ i = 1 /\ Established(r) /\ branch'[r][i] = InitialCommit
              \/ /\ i = Len(branch[r]) + 1 /\ i > 1 /\ branch[r] # <<>>
                 /\ \/ Edited(r) /\ branch'[r][i] = OwnersCommit(r)
                    \/ \E c \in Calls : /\ Published(c, r)
                                        /\ branch'[r][i] = PublishedCommit(c, r)
<1>1. /\ branch[r] \in Seq(CommitType) /\ Len(branch[r]) \in Nat
      /\ DOMAIN branch[r] = 1..Len(branch[r])
  BY LenProperties DEF TypeOK
<1>2. CASE branch'[r] = branch[r]
  BY <1>1, <1>2
<1>3. CASE Established(r)
  <2>1. branch'[r] = <<InitialCommit>> /\ branch[r] = <<>>
    BY <1>3 DEF Established
  <2>2. InitialCommit \in CommitType
    BY CommitTypes
  <2> QED BY <1>3, <2>1, <2>2
<1>4. ASSUME branch[r] # <<>>, NEW m \in CommitType,
             branch'[r] = Append(branch[r], m)
      PROVE  /\ branch'[r] \in Seq(CommitType)
             /\ Len(branch'[r]) = Len(branch[r]) + 1
             /\ DOMAIN branch'[r] = 1..(Len(branch[r]) + 1)
             /\ \A i \in DOMAIN branch[r] : branch'[r][i] = branch[r][i]
             /\ branch'[r] # <<>>
             /\ branch'[r][Len(branch[r]) + 1] = m
             /\ Len(branch[r]) + 1 > 1
  <2>1. Len(branch[r]) \in Nat \ {0}
    BY <1>4, TipProperties
  <2>2. /\ branch'[r] \in Seq(CommitType) /\ branch'[r] # <<>>
        /\ Len(branch'[r]) = Len(branch[r]) + 1
        /\ \A i \in 1..Len(branch[r]) : branch'[r][i] = branch[r][i]
        /\ branch'[r][Len(branch[r]) + 1] = m
    BY <1>1, <1>4, AppendProperties
  <2> QED BY <1>1, <2>1, <2>2, LenProperties
<1>5. ASSUME NEW c \in Calls, Published(c, r)
      PROVE  /\ branch[r] # <<>> /\ PublishedCommit(c, r) \in CommitType
             /\ branch'[r] = Append(branch[r], PublishedCommit(c, r))
  BY <1>5, CommitTypes DEF Published
<1>6. ASSUME Edited(r)
      PROVE  /\ branch[r] # <<>> /\ OwnersCommit(r) \in CommitType
             /\ branch'[r] = Append(branch[r], OwnersCommit(r))
  BY <1>6, CommitTypes DEF Edited
<1>7. CASE \E c \in Calls : Published(c, r)
  <2>1. PICK c \in Calls : Published(c, r)
    BY <1>7
  <2> QED BY <1>1, <1>4, <1>5, <2>1
<1>8. CASE Edited(r)
  BY <1>1, <1>4, <1>6, <1>8
<1> QED BY <1>2, <1>3, <1>7, <1>8, BranchMoves

(* The commits of a branch stay, and each new one is of one of three kinds. *)
LEMMA CommitsStay ==
  ASSUME TypeOK, CallsLocated, [Next]_vars, NEW r \in Repos
  PROVE  /\ Commits(r) \subseteq Commits(r)'
         /\ \A m \in Commits(r)' :
              \/ m \in Commits(r)
              \/ m = InitialCommit
              \/ branch[r] # <<>> /\ m = OwnersCommit(r)
              \/ \E c \in Calls : Published(c, r) /\ m = PublishedCommit(c, r)
<1>1. Commits(r) \subseteq Commits(r)'
  BY BranchGrows DEF Commits
<1>2. ASSUME NEW m \in Commits(r)'
      PROVE  \/ m \in Commits(r)
             \/ m = InitialCommit
             \/ branch[r] # <<>> /\ m = OwnersCommit(r)
             \/ \E c \in Calls : Published(c, r) /\ m = PublishedCommit(c, r)
  <2>1. PICK i \in DOMAIN branch'[r] : m = branch'[r][i]
    BY <1>2 DEF Commits
  <2> QED BY <2>1, BranchGrows DEF Commits
<1> QED BY <1>1, <1>2

(* A call only changes its own entries: the other calls' stay.              *)
LEMMA OwnEntries ==
  ASSUME NEW c \in Calls, Begin(c) \/ CallStep(c), NEW d \in Calls, d # c, TypeOK
  PROVE  /\ at'[d] = at[d] /\ ref'[d] = ref[d] /\ repo'[d] = repo[d]
         /\ seen'[d] = seen[d] /\ base'[d] = base[d]
         /\ outcome'[d] = outcome[d]
  BY DEF TypeOK, Begin, CallStep, Create, Lookup, ReadSub, ReadProxy, Skip,
         Build, Patch, VerifySub, VerifyProxy, Fail, Succeed, Goto

-----------------------------------------------------------------------------
(* The initial state satisfies the invariants.                              *)
LEMMA InitHolds ==
  Init => /\ TypeOK /\ IInv
          /\ WholePairs /\ CommitOnce /\ SuccessIsVisible
<1> SUFFICES ASSUME Init
             PROVE  /\ TypeOK /\ IInv
                    /\ WholePairs /\ CommitOnce /\ SuccessIsVisible
  OBVIOUS
<1>1. Absent \in Texts /\ InitialCommit \in CommitType
  BY DEF Texts, InitialCommit, CommitType
<1>2. \A r \in Repos : branch[r] = <<>> \/ branch[r] = <<InitialCommit>>
  BY DEF Init
<1>3. branch \in [Repos -> Seq(CommitType)]
  <2>1. <<>> \in Seq(CommitType) /\ <<InitialCommit>> \in Seq(CommitType)
    BY <1>1
  <2> QED BY <2>1 DEF Init
<1>4. TypeOK
  BY <1>1, <1>3, CallsAssumption DEF Init, TypeOK, Outcomes
<1>5. \A r \in Repos : \A i \in DOMAIN branch[r] :
        i = 1 /\ branch[r][i] = InitialCommit
  BY <1>2
<1>6. \A r \in Repos : \A m \in Commits(r) : m = InitialCommit
  BY <1>5 DEF Commits
<1>7. /\ InitialCommit.sub = Absent /\ InitialCommit.proxy = Absent
      /\ \A c \in Calls : InitialCommit.by # c
  BY CallsAssumption DEF InitialCommit
<1>8. WholePairs
  BY <1>6, <1>7 DEF WholePairs
<1>9. CommitOnce
  BY <1>5 DEF CommitOnce
<1>10. SuccessIsVisible
  BY DEF SuccessIsVisible, Init
<1>11. CallsLocated
  BY DEF CallsLocated, Init, OnRepository, Done
<1>12. ReadsShown
  BY DEF ReadsShown, Init
<1>13. CommitsSigned
  BY <1>6, <1>7 DEF CommitsSigned, Init
<1>14. OthersGrow
  BY <1>5 DEF OthersGrow
<1> QED BY <1>4, <1>8, <1>9, <1>10, <1>11, <1>12, <1>13, <1>14 DEF IInv

(* Type correctness is preserved.                                           *)
LEMMA TypeStep ==
  ASSUME TypeOK, CallsLocated, [Next]_vars
  PROVE  TypeOK'
<1>1. branch' \in [Repos -> Seq(CommitType)]
  <2>1. \A r \in Repos : branch'[r] \in Seq(CommitType)
    BY BranchGrows
  <2>2. branch' = [r \in Repos |-> branch'[r]]
    BY DEF TypeOK, Next, vars, Begin, CallStep, Create, Lookup, ReadSub,
           ReadProxy, Skip, Build, Patch, Accept, VerifySub, VerifyProxy, Edit
  <2> QED BY <2>1, <2>2
<1>2. ASSUME NEW c \in Calls, Begin(c) \/ Create(c) \/ Lookup(c)
      PROVE  TypeOK'
  <2>1. CASE Begin(c)
    BY <1>1, <2>1 DEF TypeOK, Outcomes, Begin, Fail, Goto
  <2>2. CASE Create(c)
    BY <1>1, <2>2 DEF TypeOK, Outcomes, Create, Fail, Goto
  <2>3. CASE Lookup(c)
    BY <1>1, <2>3 DEF TypeOK, Outcomes, Lookup, Fail, Goto
  <2> QED BY <1>2, <2>1, <2>2, <2>3
<1>3. ASSUME NEW c \in Calls, ReadSub(c) \/ ReadProxy(c)
      PROVE  TypeOK'
  <2>1. repo[c] \in Repos /\ branch[repo[c]] # <<>>
    BY <1>3 DEF CallsLocated, OnRepository, ReadSub, ReadProxy
  <2>2. Tip(repo[c]).sub \in Texts /\ Tip(repo[c]).proxy \in Texts
    BY <2>1, TipProperties DEF CommitType
  <2>3. seen' \in [Calls -> [sub : Texts, proxy : Texts]]
    BY <1>3, <2>2 DEF TypeOK, ReadSub, ReadProxy
  <2> QED BY <1>1, <1>3, <2>3 DEF TypeOK, Outcomes, ReadSub, ReadProxy, Fail, Goto
<1>4. ASSUME NEW c \in Calls, Skip(c) \/ Build(c)
      PROVE  TypeOK'
  <2>1. repo[c] \in Repos /\ Len(branch[repo[c]]) \in Nat
    BY <1>4, TipProperties DEF CallsLocated, OnRepository, Skip, Build
  <2>2. CASE Skip(c)
    BY <1>1, <2>1, <2>2 DEF TypeOK, Outcomes, Skip, Succeed, Goto
  <2>3. CASE Build(c)
    <3>1. \/ /\ at' = [at EXCEPT ![c] = "patch"] /\ outcome' = outcome
             /\ base' = [base EXCEPT ![c] = Len(branch[repo[c]])]
             /\ sends' = [sends EXCEPT ![c] = 0]
          \/ /\ at' = [at EXCEPT ![c] = "ended"]
             /\ outcome' = [outcome EXCEPT ![c] = "failed"]
             /\ UNCHANGED <<base, sends>>
      BY <2>3 DEF Build, Fail, Goto
    <3>2. base' \in [Calls -> Nat] /\ sends' \in [Calls -> Nat]
      <4>1. base \in [Calls -> Nat] /\ sends \in [Calls -> Nat]
        BY DEF TypeOK
      <4>2. ASSUME NEW n \in Nat, NEW f \in [Calls -> Nat]
            PROVE  [f EXCEPT ![c] = n] \in [Calls -> Nat]
        OBVIOUS
      <4>3. [base EXCEPT ![c] = Len(branch[repo[c]])] \in [Calls -> Nat]
        BY <2>1, <4>1, <4>2
      <4>4. [sends EXCEPT ![c] = 0] \in [Calls -> Nat]
        BY <4>1, <4>2
      <4> QED BY <3>1, <4>1, <4>3, <4>4
    <3>3. UNCHANGED <<branch, edits, stored, ref, repo, seen>>
      BY <2>3 DEF Build
    <3> QED BY <1>1, <3>1, <3>2, <3>3 DEF TypeOK, Outcomes
  <2> QED BY <1>4, <2>2, <2>3
<1>5. ASSUME NEW c \in Calls, Patch(c)
      PROVE  TypeOK'
  <2>1. \/ at' = [at EXCEPT ![c] = "verifySub"] /\ outcome' = outcome
        \/ at' = at /\ outcome' = outcome
        \/ /\ at' = [at EXCEPT ![c] = "ended"]
           /\ outcome' = [outcome EXCEPT ![c] = "failed"]
    BY <1>5 DEF Patch, Fail, Goto
  <2>3. sends' \in [Calls -> Nat]
    BY <1>5 DEF TypeOK, Patch
  <2>2. UNCHANGED <<edits, stored, ref, repo, seen, base>>
    BY <1>5 DEF Patch
  <2> QED BY <1>1, <2>1, <2>2, <2>3 DEF TypeOK, Outcomes
<1>6. ASSUME NEW c \in Calls, VerifySub(c) \/ VerifyProxy(c)
      PROVE  TypeOK'
  <2>1. repo[c] \in Repos
    BY <1>6 DEF CallsLocated, OnRepository, VerifySub, VerifyProxy
  <2> QED BY <1>1, <1>6, <2>1 DEF TypeOK, Outcomes, VerifySub, VerifyProxy, Succeed, Fail, Goto
<1>7. ASSUME NEW r \in Repos, Edit(r)
      PROVE  TypeOK'
  BY <1>1, <1>7 DEF TypeOK, Outcomes, Edit
<1>8. CASE UNCHANGED vars
  BY <1>1, <1>8 DEF TypeOK, Outcomes, vars
<1> QED BY <1>2, <1>3, <1>4, <1>5, <1>6, <1>7, <1>8 DEF Next, CallStep

(* A call stays on an existing repository: branches never become empty.     *)
LEMMA LocatedStep ==
  ASSUME TypeOK, CallsLocated, [Next]_vars
  PROVE  CallsLocated'
<1> DEFINE Located(d) ==
      /\ at[d] = "lookup" => ref[d] \in Repos
      /\ at[d] \in {"idle", "create", "lookup"} => repo[d] = Absent
      /\ at[d] \in OnRepository \/ Done(d) =>
           repo[d] \in Repos /\ branch[repo[d]] # <<>>
      /\ at[d] # "ended" <=> outcome[d] = "none"
<1>1. \A r \in Repos : branch[r] # <<>> => branch'[r] # <<>>
  BY BranchGrows
<1>2. ASSUME NEW d \in Calls,
             at'[d] = at[d], ref'[d] = ref[d], repo'[d] = repo[d],
             outcome'[d] = outcome[d]
      PROVE  Located(d)'
  BY <1>1, <1>2 DEF CallsLocated, OnRepository, Done
<1>3. ASSUME NEW c \in Calls, Begin(c) \/ CallStep(c)
      PROVE  Located(c)'
  <2>1. CASE Begin(c)
    BY <1>1, <2>1 DEF CallsLocated, OnRepository, Done, Begin, Fail, Goto, TypeOK
  <2>2. CASE Create(c)
    BY <1>1, <2>2 DEF CallsLocated, OnRepository, Done, Create, Fail, Goto, TypeOK
  <2>3. CASE Lookup(c)
    BY <1>1, <2>3 DEF CallsLocated, OnRepository, Done, Lookup, Fail, Goto, TypeOK
  <2>4. CASE ReadSub(c) \/ ReadProxy(c)
    BY <1>1, <2>4 DEF CallsLocated, OnRepository, Done, ReadSub, ReadProxy, Fail,
                      Goto, TypeOK
  <2>5. CASE Skip(c) \/ Build(c)
    BY <1>1, <2>5 DEF CallsLocated, OnRepository, Done, Skip, Build, Succeed,
                      Fail, Goto, TypeOK
  <2>6. CASE Patch(c)
    <3>1. /\ repo' = repo
          /\ \/ at' = [at EXCEPT ![c] = "verifySub"] /\ outcome' = outcome
             \/ at' = at /\ outcome' = outcome
             \/ /\ at' = [at EXCEPT ![c] = "ended"]
                /\ outcome' = [outcome EXCEPT ![c] = "failed"]
      BY <2>6 DEF Patch, Fail, Goto
    <3>2. at[c] = "patch" /\ outcome[c] = "none"
      BY <2>6 DEF Patch, CallsLocated
    <3> QED BY <1>1, <3>1, <3>2 DEF CallsLocated, OnRepository, Done, TypeOK
  <2>7. CASE VerifySub(c) \/ VerifyProxy(c)
    BY <1>1, <2>7 DEF CallsLocated, OnRepository, Done, VerifySub, VerifyProxy,
                      Succeed, Fail, Goto, TypeOK
  <2> QED BY <1>3, <2>1, <2>2, <2>3, <2>4, <2>5, <2>6, <2>7 DEF CallStep
<1>4. ASSUME NEW d \in Calls
      PROVE  Located(d)'
  <2>1. CASE UNCHANGED vars \/ \E r \in Repos : Edit(r)
    BY <1>2, <2>1 DEF vars, Edit
  <2>2. ASSUME NEW c \in Calls, Begin(c) \/ CallStep(c)
        PROVE  Located(d)'
    BY <1>2, <1>3, <2>2, OwnEntries
  <2> QED BY <2>1, <2>2 DEF Next
<1> QED BY <1>4 DEF CallsLocated

(* What a call has read stays on the branch until it decides.               *)
LEMMA ReadsStep ==
  ASSUME TypeOK, CallsLocated, ReadsShown, [Next]_vars
  PROVE  ReadsShown'
<1> DEFINE SubShown(d) == \E m \in Commits(repo[d]) : m.sub = seen[d].sub
           ProxyShown(d) == \E m \in Commits(repo[d]) : m.proxy = seen[d].proxy
           Shows(d) == /\ at[d] \in {"readProxy", "decide"} => SubShown(d)
                       /\ at[d] = "decide" => ProxyShown(d)
<1>1. \A r \in Repos : Commits(r) \subseteq Commits(r)'
  BY CommitsStay
<1>2. ASSUME NEW d \in Calls, repo[d] \in Repos, repo'[d] = repo[d]
      PROVE  Commits(repo[d]) \subseteq Commits(repo[d])'
  BY <1>1, <1>2 DEF Commits
<1>3. ASSUME NEW d \in Calls,
             at'[d] = at[d], repo'[d] = repo[d], seen'[d] = seen[d]
      PROVE  Shows(d)'
  <2>1. CASE at[d] \notin {"readProxy", "decide"}
    BY <1>3, <2>1
  <2>2. CASE at[d] \in {"readProxy", "decide"}
    <3>1. Commits(repo[d]) \subseteq Commits(repo[d])'
      BY <1>2, <1>3, <2>2 DEF CallsLocated, OnRepository
    <3>2. Shows(d)
      BY DEF ReadsShown
    <3> QED BY <1>3, <2>2, <3>1, <3>2
  <2> QED BY <2>1, <2>2
<1>4. ASSUME NEW c \in Calls, ReadSub(c) \/ ReadProxy(c)
      PROVE  Shows(c)'
  <2>1. repo[c] \in Repos /\ Tip(repo[c]) \in Commits(repo[c])
    BY <1>4, TipProperties DEF CallsLocated, OnRepository, ReadSub, ReadProxy
  <2>2. repo'[c] = repo[c]
    BY <1>4 DEF ReadSub, ReadProxy
  <2>3. Commits(repo[c]) \subseteq Commits(repo[c])'
    BY <1>2, <2>1, <2>2
  <2>4. CASE at'[c] = "ended"
    BY <2>4
  <2>5. CASE ReadSub(c) /\ at'[c] # "ended"
    <3>1. at'[c] = "readProxy" /\ seen'[c].sub = Tip(repo[c]).sub
      BY <2>5 DEF ReadSub, Goto, Fail, TypeOK
    <3> QED BY <2>1, <2>3, <3>1
  <2>6. CASE ReadProxy(c) /\ at'[c] # "ended"
    <3>1. /\ at'[c] = "decide" /\ seen'[c].proxy = Tip(repo[c]).proxy
          /\ seen'[c].sub = seen[c].sub
      BY <2>6 DEF ReadProxy, Goto, Fail, TypeOK
    <3>2. SubShown(c)
      BY <2>6 DEF ReadProxy, ReadsShown
    <3> QED BY <2>1, <2>3, <3>1, <3>2
  <2> QED BY <1>4, <2>4, <2>5, <2>6
<1>5. ASSUME NEW c \in Calls, Begin(c) \/ CallStep(c), ~ReadSub(c), ~ReadProxy(c)
      PROVE  Shows(c)'
  <2>1. at'[c] \notin {"readProxy", "decide"}
    BY <1>5 DEF Begin, CallStep, Create, Lookup, Skip, Build, Patch, VerifySub,
                VerifyProxy, Succeed, Fail, Goto, TypeOK
  <2> QED BY <2>1
<1>6. ASSUME NEW d \in Calls
      PROVE  Shows(d)'
  <2>1. CASE UNCHANGED vars \/ \E r \in Repos : Edit(r)
    BY <1>3, <2>1 DEF vars, Edit
  <2>2. ASSUME NEW c \in Calls, Begin(c) \/ CallStep(c)
        PROVE  Shows(d)'
    BY <1>3, <1>4, <1>5, <2>2, OwnEntries
  <2> QED BY <2>1, <2>2 DEF Next
<1> QED BY <1>6 DEF ReadsShown

(* Each branch only receives the three kinds of commits, none of which sets *)
(* the other files back.                                                    *)
LEMMA OthersStep ==
  ASSUME TypeOK, CallsLocated, OthersGrow, [Next]_vars
  PROVE  OthersGrow'
<1> SUFFICES ASSUME NEW r \in Repos, NEW i \in DOMAIN branch'[r], i > 1
             PROVE  branch'[r][i].other >= branch'[r][i - 1].other
  BY DEF OthersGrow
<1>1. /\ branch[r] \in Seq(CommitType) /\ Len(branch[r]) \in Nat
      /\ DOMAIN branch[r] = 1..Len(branch[r])
  BY LenProperties DEF TypeOK
<1>2. CASE i \in DOMAIN branch[r]
  <2>1. i - 1 \in DOMAIN branch[r]
    BY <1>1, <1>2
  <2>2. branch'[r][i] = branch[r][i] /\ branch'[r][i - 1] = branch[r][i - 1]
    BY <1>2, <2>1, BranchGrows
  <2> QED BY <1>2, <2>2 DEF OthersGrow
<1>3. CASE i \notin DOMAIN branch[r]
  <2>1. /\ i = Len(branch[r]) + 1 /\ branch[r] # <<>>
        /\ \/ branch'[r][i] = OwnersCommit(r)
           \/ \E c \in Calls : branch'[r][i] = PublishedCommit(c, r)
    BY <1>3, BranchGrows
  <2>2. Len(branch[r]) \in DOMAIN branch[r] /\ Tip(r).other \in Nat
    BY <1>1, <2>1, TipProperties DEF CommitType
  <2>3. branch'[r][i - 1] = Tip(r)
    BY <1>1, <2>1, <2>2, BranchGrows DEF Tip
  <2>4. Tip(r) \in CommitType
    BY <2>1, TipProperties
  <2>5. branch'[r][i].other >= Tip(r).other
    <3>1. OwnersCommit(r).other = Tip(r).other + 1
      BY <2>4 DEF OwnersCommit, CommitType
    <3>2. \A c \in Calls : PublishedCommit(c, r).other = Tip(r).other
      BY DEF PublishedCommit
    <3> QED BY <2>1, <2>2, <3>1, <3>2
  <2> QED BY <2>3, <2>5
<1> QED BY <1>2, <1>3

(* A commit signed by a call is made by that call's accepted request, once, *)
(* on the repository the call works on.                                     *)
LEMMA SignedStep ==
  ASSUME TypeOK, CallsLocated, CommitsSigned, [Next]_vars
  PROVE  CommitsSigned'
<1> DEFINE Late == {"patch", "verifySub", "verifyProxy", "ended"}
           Made(d) == at[d] \in {"verifySub", "verifyProxy"} =>
                        \E m \in Commits(repo[d]) : m.by = d
           Texted(d, m) == m.sub = SubOf[d] /\ m.proxy = ProxyOf[d]
           Placed(d, r) == /\ r = repo[d]
                           /\ at[d] \in Late
                           /\ at[d] = "patch" => base[d] < Len(branch[r])
<1>1. ASSUME NEW d \in Calls, NEW r \in Repos, base[d] < Len(branch[r]),
             base'[d] = base[d]
      PROVE  base'[d] < Len(branch'[r])
  <2>1. /\ Len(branch'[r]) >= Len(branch[r])
        /\ Len(branch[r]) \in Nat /\ Len(branch'[r]) \in Nat
    BY BranchGrows, LenProperties DEF TypeOK
  <2>2. base[d] \in Nat
    BY DEF TypeOK
  <2> QED BY <1>1, <2>1, <2>2
<1>2. \A r \in Repos : Commits(r) \subseteq Commits(r)'
  BY CommitsStay
\* A call that has a commit stays where it may have one.
<1>3. ASSUME NEW d \in Calls, NEW r \in Repos, Placed(d, r)
      PROVE  Placed(d, r)'
  <2>1. ASSUME repo'[d] = repo[d], base'[d] = base[d], at'[d] \in Late,
               at'[d] = "patch" => at[d] = "patch"
        PROVE  Placed(d, r)'
    BY <1>1, <1>3, <2>1
  <2>2. CASE UNCHANGED vars \/ \E s \in Repos : Edit(s)
    BY <1>3, <2>1, <2>2 DEF vars, Edit
  <2>3. ASSUME NEW c \in Calls, c # d, Begin(c) \/ CallStep(c)
        PROVE  Placed(d, r)'
    BY <1>3, <2>1, <2>3, OwnEntries
  <2>4. CASE Begin(d) \/ CallStep(d)
    <3>1. Patch(d) \/ VerifySub(d) \/ VerifyProxy(d)
      BY <1>3, <2>4 DEF Begin, CallStep, Create, Lookup, ReadSub, ReadProxy,
                        Skip, Build
    <3>2. /\ at'[d] \in Late /\ (at'[d] = "patch" => at[d] = "patch")
          /\ repo'[d] = repo[d] /\ base'[d] = base[d]
      BY <3>1 DEF Patch, VerifySub, VerifyProxy, Succeed, Fail, Goto, TypeOK
    <3> QED BY <2>1, <3>2
  <2> QED BY <2>2, <2>3, <2>4 DEF Next
\* A call that publishes in this step is there, too.
<1>4. ASSUME NEW d \in Calls, NEW r \in Repos, Published(d, r)
      PROVE  Placed(d, r)'
  <2>1. /\ at[d] = "patch" /\ repo[d] = r /\ base[d] = Len(branch[r])
        /\ branch'[r] = Append(branch[r], PublishedCommit(d, r))
    BY <1>4 DEF Published
  <2>2. PublishedCommit(d, r) \in CommitType
    BY <1>4, CommitTypes DEF Published
  <2>3. Len(branch'[r]) = Len(branch[r]) + 1 /\ Len(branch[r]) \in Nat
    BY <2>1, <2>2, AppendProperties, LenProperties DEF TypeOK
  <2>4. at'[d] \in Late /\ repo'[d] = r /\ base'[d] = base[d]
    <3>1. CASE UNCHANGED vars \/ \E s \in Repos : Edit(s)
      BY <2>1, <3>1 DEF vars, Edit
    <3>2. ASSUME NEW c \in Calls, c # d, Begin(c) \/ CallStep(c)
          PROVE  at'[d] \in Late /\ repo'[d] = r /\ base'[d] = base[d]
      BY <2>1, <3>2, OwnEntries
    <3>3. CASE Begin(d) \/ CallStep(d)
      <4>1. Patch(d)
        BY <2>1, <3>3 DEF Begin, CallStep, Create, Lookup, ReadSub, ReadProxy,
                          Skip, Build, VerifySub, VerifyProxy
      <4> QED BY <2>1, <4>1 DEF Patch, Fail, Goto, TypeOK
    <3> QED BY <3>1, <3>2, <3>3 DEF Next
  <2>5. base'[d] < Len(branch'[r])
    BY <2>1, <2>3, <2>4
  <2> QED BY <2>4, <2>5
<1>5. ASSUME NEW d \in Calls, NEW r \in Repos, NEW m \in Commits(r)', m.by = d
      PROVE  Texted(d, m) /\ Placed(d, r)'
  <2>1. CASE m \in Commits(r)
    <3>1. Texted(d, m) /\ Placed(d, r)
      BY <1>5, <2>1 DEF CommitsSigned
    <3> QED BY <1>3, <3>1
  <2>2. CASE m = InitialCommit
    BY <1>5, <2>2, CallsAssumption DEF InitialCommit
  <2>3. CASE branch[r] # <<>> /\ m = OwnersCommit(r)
    <3>1. Tip(r) \in CommitType
      BY <2>3, TipProperties
    <3>2. m.by = Absent
      BY <2>3, <3>1 DEF OwnersCommit, CommitType
    <3> QED BY <1>5, <3>2, CallsAssumption
  <2>4. ASSUME NEW c \in Calls, Published(c, r), m = PublishedCommit(c, r)
        PROVE  Texted(d, m) /\ Placed(d, r)'
    <3>1. c = d /\ Texted(d, m)
      BY <1>5, <2>4 DEF PublishedCommit
    <3> QED BY <1>4, <2>4, <3>1
  <2> QED BY <2>1, <2>2, <2>3, <2>4, CommitsStay
\* A call whose request was accepted has its commit on the branch.
<1>6. ASSUME NEW d \in Calls
      PROVE  Made(d)'
  <2> SUFFICES ASSUME at'[d] \in {"verifySub", "verifyProxy"}
               PROVE  \E m \in Commits(repo[d])' : m.by = d
    OBVIOUS
  <2>1. ASSUME at[d] \in {"verifySub", "verifyProxy"}, repo'[d] = repo[d]
        PROVE  \E m \in Commits(repo[d])' : m.by = d
    <3>1. repo[d] \in Repos
      BY <2>1 DEF CallsLocated, OnRepository
    <3>2. PICK m \in Commits(repo[d]) : m.by = d
      BY <2>1 DEF CommitsSigned
    <3>3. m \in Commits(repo[d])'
      BY <1>2, <2>1, <3>1, <3>2 DEF Commits
    <3> QED BY <3>2, <3>3
  <2>2. CASE UNCHANGED vars \/ \E s \in Repos : Edit(s)
    BY <2>1, <2>2 DEF vars, Edit
  <2>3. ASSUME NEW c \in Calls, c # d, Begin(c) \/ CallStep(c)
        PROVE  \E m \in Commits(repo[d])' : m.by = d
    BY <2>1, <2>3, OwnEntries
  <2>4. CASE (Begin(d) \/ CallStep(d)) /\ ~Patch(d)
    <3>1. VerifySub(d)
      BY <2>4 DEF Begin, CallStep, Create, Lookup, ReadSub, ReadProxy, Skip,
                  Build, VerifySub, VerifyProxy, Succeed, Fail, Goto, TypeOK
    <3> QED BY <2>1, <3>1 DEF VerifySub
  <2>5. CASE Patch(d)
    <3>1. /\ at[d] = "patch" /\ repo'[d] = repo[d] /\ repo[d] \in Repos
          /\ branch[repo[d]] # <<>>
      BY <2>5 DEF Patch, CallsLocated, OnRepository
    <3>2. Accept(d)
      BY <2>5, <3>1 DEF Patch, Fail, Goto, TypeOK
    <3>3. CASE UNCHANGED branch /\ AlreadyHead(d)
      BY <3>1, <3>3, TipProperties DEF AlreadyHead, Commits
    <3>4. CASE FastForward(d) /\ branch' = [branch EXCEPT ![repo[d]] =
                     Append(SubSeq(@, 1, base[d]), NewCommit(d))]
      <4>1. base[d] = Len(branch[repo[d]]) /\ branch[repo[d]] \in Seq(CommitType)
        BY <3>1, <3>4, NotForced DEF TypeOK
      <4>2. SubSeq(branch[repo[d]], 1, base[d]) = branch[repo[d]]
        BY <4>1, SubSeqFull
      <4>3. NewCommit(d) = PublishedCommit(d, repo[d])
        BY <4>1 DEF NewCommit, PublishedCommit, Tip
      <4>4. PublishedCommit(d, repo[d]) \in CommitType
        BY <3>1, CommitTypes
      <4>5. branch'[repo[d]] = Append(branch[repo[d]], PublishedCommit(d, repo[d]))
        BY <3>1, <3>4, <4>2, <4>3 DEF TypeOK
      <4>6. PublishedCommit(d, repo[d]) \in Commits(repo[d])'
        <5>1. /\ Len(branch'[repo[d]]) = Len(branch[repo[d]]) + 1
              /\ branch'[repo[d]][Len(branch[repo[d]]) + 1]
                   = PublishedCommit(d, repo[d])
              /\ branch'[repo[d]] \in Seq(CommitType)
          BY <4>1, <4>4, <4>5, AppendProperties
        <5>2. Len(branch[repo[d]]) + 1 \in DOMAIN branch'[repo[d]]
          BY <4>1, <5>1, LenProperties
        <5> QED BY <3>1, <5>1, <5>2 DEF Commits
      <4> QED BY <4>6 DEF PublishedCommit
    <3> QED BY <3>2, <3>3, <3>4 DEF Accept
  <2> QED BY <2>2, <2>3, <2>4, <2>5 DEF Next
<1> QED BY <1>5, <1>6 DEF CommitsSigned

(* The pair at each commit is the pair of one call or nothing.              *)
LEMMA WholePairsStep ==
  ASSUME TypeOK, CallsLocated, WholePairs, [Next]_vars
  PROVE  WholePairs'
<1> DEFINE Whole(m) == \/ m.sub = Absent /\ m.proxy = Absent
                       \/ \E c \in Calls : m.sub = SubOf[c] /\ m.proxy = ProxyOf[c]
<1> SUFFICES ASSUME NEW r \in Repos, NEW m \in Commits(r)'
             PROVE  Whole(m)
  BY DEF WholePairs
<1>1. CASE m \in Commits(r)
  BY <1>1 DEF WholePairs
<1>2. CASE m = InitialCommit
  BY <1>2 DEF InitialCommit
<1>3. CASE branch[r] # <<>> /\ m = OwnersCommit(r)
  <2>1. Tip(r) \in CommitType /\ Whole(Tip(r))
    BY <1>3, TipProperties DEF WholePairs
  <2>2. m.sub = Tip(r).sub /\ m.proxy = Tip(r).proxy
    BY <1>3, <2>1 DEF OwnersCommit, CommitType
  <2> QED BY <2>1, <2>2
<1>4. CASE \E c \in Calls : Published(c, r) /\ m = PublishedCommit(c, r)
  BY <1>4 DEF PublishedCommit
<1> QED BY <1>1, <1>2, <1>3, <1>4, CommitsStay

(* A call's first commit makes the branch longer than its base, so a second *)
(* one would not be a fast-forward.                                         *)
LEMMA CommitOnceStep ==
  ASSUME TypeOK, CallsLocated, CommitsSigned, CommitOnce, [Next]_vars
  PROVE  CommitOnce'
<1> SUFFICES ASSUME NEW c \in Calls, NEW r \in Repos,
                    NEW i \in DOMAIN branch'[r], NEW j \in DOMAIN branch'[r],
                    branch'[r][i].by = c, branch'[r][j].by = c
             PROVE  i = j
  BY DEF CommitOnce
<1> DEFINE New(n) == n \in DOMAIN branch'[r] /\ n \notin DOMAIN branch[r]
<1>1. DOMAIN branch[r] = 1..Len(branch[r]) /\ Len(branch[r]) \in Nat
  BY LenProperties DEF TypeOK
<1>2. ASSUME NEW n, New(n)
      PROVE  n = Len(branch[r]) + 1
  <2>1. n = 1 => branch[r] = <<>> \/ n = Len(branch[r]) + 1
    BY <1>2, BranchGrows DEF Established
  <2>2. branch[r] = <<>> => Len(branch[r]) = 0
    BY <1>1
  <2> QED BY <1>2, <2>1, <2>2, BranchGrows DEF Established
<1>3. ASSUME NEW n, New(n), branch'[r][n].by = c
      PROVE  Published(c, r)
  <2>1. CASE branch'[r][n] = InitialCommit
    BY <1>3, <2>1, CallsAssumption DEF InitialCommit
  <2>2. CASE branch[r] # <<>> /\ branch'[r][n] = OwnersCommit(r)
    <3>1. Tip(r) \in CommitType
      BY <2>2, TipProperties
    <3>2. branch'[r][n].by = Absent
      BY <2>2, <3>1 DEF OwnersCommit, CommitType
    <3> QED BY <1>3, <3>2, CallsAssumption
  <2>3. ASSUME NEW d \in Calls, Published(d, r),
               branch'[r][n] = PublishedCommit(d, r)
        PROVE  Published(c, r)
    BY <1>3, <2>3 DEF PublishedCommit
  <2> QED BY <1>3, <2>1, <2>2, <2>3, BranchGrows
\* No commit of c was there when c published.
<1>4. ASSUME Published(c, r), NEW n \in DOMAIN branch[r]
      PROVE  branch[r][n].by # c
  <2> SUFFICES ASSUME branch[r][n].by = c PROVE FALSE
    OBVIOUS
  <2>1. base[c] < Len(branch[r])
    BY <1>4 DEF Published, CommitsSigned, Commits
  <2> QED BY <1>1, <1>4, <2>1 DEF Published
<1>5. \A n \in DOMAIN branch[r] : branch'[r][n] = branch[r][n]
  BY BranchGrows
<1>6. CASE i \in DOMAIN branch[r] /\ j \in DOMAIN branch[r]
  BY <1>5, <1>6 DEF CommitOnce
<1>7. CASE New(i) /\ New(j)
  BY <1>2, <1>7
<1>8. CASE New(i) /\ j \in DOMAIN branch[r]
  BY <1>3, <1>4, <1>5, <1>8
<1>9. CASE New(j) /\ i \in DOMAIN branch[r]
  BY <1>3, <1>4, <1>5, <1>9
<1> QED BY <1>6, <1>7, <1>8, <1>9

(* A call reports success at two places: it found its texts, or it made its *)
(* commit and read both files back.                                         *)
LEMMA SuccessMoves ==
  ASSUME TypeOK, CallsLocated, [Next]_vars, NEW c \in Calls, ~Done(c), Done(c)'
  PROVE  /\ UNCHANGED <<branch, repo>>
         /\ \/ Skip(c) /\ outcome'[c] = "unchanged"
            \/ VerifyProxy(c) /\ outcome'[c] = "changed"
         /\ \A d \in Calls : d # c => outcome'[d] = outcome[d]
<1>1. ~(UNCHANGED vars)
  BY DEF vars, Done
<1>2. ~(\E r \in Repos : Edit(r))
  BY DEF Edit, Done
<1>3. ASSUME NEW d \in Calls, d # c, Begin(d) \/ CallStep(d)
      PROVE  FALSE
  BY <1>3, OwnEntries DEF Done
<1>4. Begin(c) \/ CallStep(c)
  BY <1>1, <1>2, <1>3 DEF Next
<1>5. Skip(c) \/ VerifyProxy(c)
  BY <1>4 DEF Begin, CallStep, Create, Lookup, ReadSub, ReadProxy, Build, Patch,
              VerifySub, Fail, Goto, Done, TypeOK
<1>6. /\ UNCHANGED <<branch, repo>>
      /\ \/ Skip(c) /\ outcome'[c] = "unchanged"
         \/ VerifyProxy(c) /\ outcome'[c] = "changed"
  BY <1>5 DEF Skip, VerifyProxy, Succeed, Fail, Goto, Done, TypeOK
<1> QED BY <1>4, <1>6, OwnEntries

(* A call that has ended keeps its outcome and its repository.              *)
LEMMA DoneStays ==
  ASSUME TypeOK, CallsLocated, [Next]_vars, NEW c \in Calls, Done(c)
  PROVE  outcome'[c] = outcome[c] /\ repo'[c] = repo[c]
<1>1. at[c] = "ended"
  BY DEF CallsLocated, Done
<1>2. CASE UNCHANGED vars \/ \E r \in Repos : Edit(r)
  BY <1>2 DEF vars, Edit
<1>3. ASSUME NEW d \in Calls, Begin(d) \/ CallStep(d)
      PROVE  d # c
  BY <1>1, <1>3 DEF Begin, CallStep, Create, Lookup, ReadSub, ReadProxy, Skip,
                    Build, Patch, VerifySub, VerifyProxy
<1> QED BY <1>2, <1>3, OwnEntries DEF Next

(* Success stays visible, because commits stay.                             *)
LEMMA SuccessStep ==
  ASSUME TypeOK, IInv, SuccessIsVisible, [Next]_vars
  PROVE  SuccessIsVisible'
<1> SUFFICES ASSUME NEW c \in Calls, Done(c)'
             PROVE  /\ outcome'[c] = "changed" =>
                         \E m \in Commits(repo[c])' : m.by = c
                    /\ outcome'[c] = "unchanged" =>
                         /\ \E m \in Commits(repo[c])' : m.sub = SubOf[c]
                         /\ \E m \in Commits(repo[c])' : m.proxy = ProxyOf[c]
  BY DEF SuccessIsVisible, Done
<1> USE DEF IInv
<1>1. CASE Done(c)
  <2>1. outcome'[c] = outcome[c] /\ repo'[c] = repo[c] /\ repo[c] \in Repos
    BY <1>1, DoneStays DEF CallsLocated
  <2>2. Commits(repo[c]) \subseteq Commits(repo[c])'
    <3>1. \A r \in Repos : Commits(r) \subseteq Commits(r)'
      BY CommitsStay
    <3> QED BY <2>1, <3>1 DEF Commits
  <2> QED BY <2>1, <2>2 DEF SuccessIsVisible
<1>2. CASE ~Done(c)
  <2>1. Commits(repo[c])' = Commits(repo[c])
    BY <1>2, SuccessMoves DEF Commits
  <2>2. CASE Skip(c) /\ outcome'[c] = "unchanged"
    <3>1. at[c] = "decide" /\ seen[c].sub = SubOf[c] /\ seen[c].proxy = ProxyOf[c]
      BY <2>2 DEF Skip, Changed
    <3> QED BY <2>1, <2>2, <3>1 DEF ReadsShown
  <2>3. CASE VerifyProxy(c) /\ outcome'[c] = "changed"
    BY <2>1, <2>3 DEF VerifyProxy, CommitsSigned
  <2> QED BY <1>2, <2>2, <2>3, SuccessMoves
<1> QED BY <1>1, <1>2

-----------------------------------------------------------------------------
(* IInv with type correctness is inductive.                                 *)
THEOREM Invariance == Spec => [](TypeOK /\ IInv)
<1>1. Init => TypeOK /\ IInv
  BY InitHolds
<1>2. TypeOK /\ IInv /\ [Next]_vars => (TypeOK /\ IInv)'
  BY TypeStep, LocatedStep, ReadsStep, SignedStep, OthersStep DEF IInv
<1> QED BY <1>1, <1>2, PTL DEF Spec

(* Every variable keeps its type.                                           *)
THEOREM TypeSafety == Spec => []TypeOK
  BY Invariance, PTL

(* No commit of any branch ever shows half of a publication                 *)
(* (SubscriptionPublisher.cs:45-54, one tree and one commit for both files).*)
THEOREM PairSafety == Spec => []WholePairs
<1>1. Init => WholePairs
  BY InitHolds
<1>2. TypeOK /\ IInv /\ WholePairs /\ [Next]_vars => WholePairs'
  BY WholePairsStep DEF IInv
<1> QED BY <1>1, <1>2, Invariance, PTL DEF Spec

(* However often a request is sent, a call adds at most one commit.         *)
THEOREM CommitSafety == Spec => []CommitOnce
<1>1. Init => CommitOnce
  BY InitHolds
<1>2. TypeOK /\ IInv /\ CommitOnce /\ [Next]_vars => CommitOnce'
  BY CommitOnceStep DEF IInv
<1> QED BY <1>1, <1>2, Invariance, PTL DEF Spec

(* A reported success was on the branch the call reports.                   *)
THEOREM SuccessSafety == Spec => []SuccessIsVisible
<1>1. Init => SuccessIsVisible
  BY InitHolds
<1>2. TypeOK /\ IInv /\ SuccessIsVisible /\ [Next]_vars => SuccessIsVisible'
  BY SuccessStep
<1> QED BY <1>1, <1>2, Invariance, PTL DEF Spec

(* Nobody's commit is undone and no other file is set back (force: false).  *)
THEOREM NoLoss == Spec => NothingLost
<1>1. /\ TypeOK /\ IInv /\ (TypeOK /\ IInv)' /\ [Next]_vars
      => [\A r \in Repos :
            /\ Len(branch'[r]) >= Len(branch[r])
            /\ \A i \in DOMAIN branch[r] : branch'[r][i] = branch[r][i]
            /\ \A i \in DOMAIN branch'[r] :
                 i > 1 => branch'[r][i].other >= branch'[r][i - 1].other]_vars
  BY BranchGrows DEF IInv, OthersGrow
<1> QED BY <1>1, Invariance, PTL DEF Spec, NothingLost

-----------------------------------------------------------------------------
\* The refinement of AtomicOutputs.

Pairs == [sub : Texts, proxy : Texts]
History == [r \in Repos |-> Shown(r)]
Reported == {c \in Calls : Done(c)}

(* What a branch has shown is a sequence as long as the branch.             *)
LEMMA ShownProperties ==
  ASSUME TypeOK, NEW r \in Repos
  PROVE  /\ Shown(r) \in Seq(Pairs)
         /\ Len(Shown(r)) = Len(branch[r]) /\ Len(branch[r]) \in Nat
         /\ \A i \in 1..Len(branch[r]) :
              Shown(r)[i] = [sub |-> branch[r][i].sub, proxy |-> branch[r][i].proxy]
<1>1. /\ branch[r] \in Seq(CommitType) /\ Len(branch[r]) \in Nat
      /\ DOMAIN branch[r] = 1..Len(branch[r])
  BY LenProperties DEF TypeOK
<1>2. ASSUME NEW i \in 1..Len(branch[r])
      PROVE  [sub |-> branch[r][i].sub, proxy |-> branch[r][i].proxy] \in Pairs
  <2>1. branch[r][i] \in CommitType
    BY <1>1, ElementOfSeq
  <2> QED BY <2>1 DEF CommitType, Pairs
<1>3. Shown(r) \in [1..Len(branch[r]) -> Pairs]
  BY <1>1, <1>2 DEF Shown
<1>4. Shown(r) \in Seq(Pairs)
  BY <1>1, <1>3, SeqDef
<1>5. Len(Shown(r)) = Len(branch[r])
  BY <1>1, <1>3, <1>4, LenProperties
<1> QED BY <1>1, <1>4, <1>5 DEF Shown

(* Each change of a branch is a change of what it shows.                    *)
LEMMA ShownMoves ==
  ASSUME TypeOK, TypeOK', CallsLocated, [Next]_vars, NEW r \in Repos
  PROVE  /\ branch'[r] = branch[r] => Shown(r)' = Shown(r)
         /\ branch[r] # <<>> => Shown(r) # <<>>
         /\ Established(r) => Shown(r) = <<>> /\ Shown(r)' = <<Promise!Nothing>>
         /\ \A c \in Calls :
              Published(c, r) => Shown(r)' = Append(Shown(r), Promise!PairOf(c))
         /\ Edited(r) =>
              Shown(r)' = Append(Shown(r), Shown(r)[Len(Shown(r))])
<1> DEFINE View(m) == [sub |-> m.sub, proxy |-> m.proxy]
<1>1. branch'[r] = branch[r] => Shown(r)' = Shown(r)
  BY DEF Shown
<1>2. branch[r] # <<>> => Shown(r) # <<>>
  BY ShownProperties, TipProperties, EmptySeq
<1>3. /\ Shown(r)' \in Seq(Pairs) /\ Len(Shown(r)') = Len(branch'[r])
      /\ \A i \in 1..Len(branch'[r]) : Shown(r)'[i] = View(branch'[r][i])
  <2>1. DOMAIN branch'[r] = 1..Len(branch'[r]) /\ Len(branch'[r]) \in Nat
    BY LenProperties DEF TypeOK
  <2>2. ASSUME NEW i \in 1..Len(branch'[r])
        PROVE  View(branch'[r][i]) \in Pairs
    <3>1. branch'[r] \in Seq(CommitType)
      BY BranchGrows
    <3>2. branch'[r][i] \in CommitType
      BY <3>1, ElementOfSeq
    <3> QED BY <3>2 DEF CommitType, Pairs
  <2>3. Shown(r)' = [i \in 1..Len(branch'[r]) |-> View(branch'[r][i])]
    BY <2>1 DEF Shown
  <2>4. Shown(r)' \in [1..Len(branch'[r]) -> Pairs]
    BY <2>2, <2>3
  <2>5. Shown(r)' \in Seq(Pairs)
    BY <2>1, <2>4, SeqDef
  <2>6. Len(Shown(r)') = Len(branch'[r])
    BY <2>1, <2>4, <2>5, LenProperties
  <2> QED BY <2>3, <2>5, <2>6
<1>4. ASSUME Established(r)
      PROVE  Shown(r) = <<>> /\ Shown(r)' = <<Promise!Nothing>>
  <2>1. branch[r] = <<>> /\ branch'[r] = <<InitialCommit>>
    BY <1>4 DEF Established
  <2>2. Shown(r) = <<>>
    BY <2>1, ShownProperties, EmptySeq
  <2>3. Len(branch'[r]) = 1 /\ branch'[r][1] = InitialCommit
    BY <2>1
  <2>4. View(InitialCommit) = Promise!Nothing
    BY DEF InitialCommit, Promise!Nothing
  <2>5. Len(Shown(r)') = 1 /\ Shown(r)'[1] = Promise!Nothing
    BY <1>3, <2>3, <2>4
  <2>6. Promise!Nothing \in Pairs
    BY DEF Promise!Nothing, Pairs, Texts
  <2>7. /\ <<Promise!Nothing>> \in Seq(Pairs) /\ Len(<<Promise!Nothing>>) = 1
        /\ <<Promise!Nothing>>[1] = Promise!Nothing
    BY <2>6
  <2>8. Shown(r)' = <<Promise!Nothing>>
    BY <1>3, <2>5, <2>7, SeqEqual
  <2> QED BY <2>2, <2>8
\* A commit is shown as its pair.
<1>5. ASSUME NEW m \in CommitType, branch'[r] = Append(branch[r], m)
      PROVE  Shown(r)' = Append(Shown(r), View(m))
  <2>1. /\ Len(branch'[r]) = Len(branch[r]) + 1
        /\ \A i \in 1..Len(branch[r]) : branch'[r][i] = branch[r][i]
        /\ branch'[r][Len(branch[r]) + 1] = m
    BY <1>5, AppendProperties DEF TypeOK
  <2>2. View(m) \in Pairs
    BY DEF CommitType, Pairs
  <2>3. /\ Append(Shown(r), View(m)) \in Seq(Pairs)
        /\ Len(Append(Shown(r), View(m))) = Len(branch[r]) + 1
        /\ \A i \in 1..Len(branch[r]) :
             Append(Shown(r), View(m))[i] = View(branch[r][i])
        /\ Append(Shown(r), View(m))[Len(branch[r]) + 1] = View(m)
    BY <2>2, ShownProperties, AppendProperties
  <2>4. \A i \in 1..(Len(branch[r]) + 1) :
          Shown(r)'[i] = Append(Shown(r), View(m))[i]
    <3> SUFFICES ASSUME NEW i \in 1..(Len(branch[r]) + 1)
                 PROVE  Shown(r)'[i] = Append(Shown(r), View(m))[i]
      OBVIOUS
    <3>1. Len(branch[r]) \in Nat
      BY ShownProperties
    <3>2. CASE i \in 1..Len(branch[r])
      BY <1>3, <2>1, <2>3, <3>1, <3>2
    <3>3. CASE i = Len(branch[r]) + 1
      BY <1>3, <2>1, <2>3, <3>1, <3>3
    <3>4. i \in 1..Len(branch[r]) \/ i = Len(branch[r]) + 1
      BY <3>1
    <3> QED BY <3>2, <3>3, <3>4
  <2> QED BY <1>3, <2>1, <2>3, <2>4, SeqEqual
<1>6. ASSUME NEW c \in Calls, Published(c, r)
      PROVE  Shown(r)' = Append(Shown(r), Promise!PairOf(c))
  <2>1. View(PublishedCommit(c, r)) = Promise!PairOf(c)
    BY DEF PublishedCommit, Promise!PairOf
  <2>2. PublishedCommit(c, r) \in CommitType
    BY <1>6, CommitTypes DEF Published
  <2> QED BY <1>5, <1>6, <2>1, <2>2 DEF Published
<1>7. ASSUME Edited(r)
      PROVE  Shown(r)' = Append(Shown(r), Shown(r)[Len(Shown(r))])
  <2>1. branch[r] # <<>> /\ branch'[r] = Append(branch[r], OwnersCommit(r))
    BY <1>7 DEF Edited
  <2>2. OwnersCommit(r) \in CommitType /\ Tip(r) \in CommitType
    BY <2>1, CommitTypes, TipProperties
  <2>3. View(OwnersCommit(r)) = View(Tip(r))
    BY <2>2 DEF OwnersCommit, CommitType
  <2>4. Len(branch[r]) \in 1..Len(branch[r]) /\ Len(Shown(r)) = Len(branch[r])
    BY <2>1, TipProperties, ShownProperties
  <2>5. Shown(r)[Len(Shown(r))] = View(Tip(r))
    BY <2>4, ShownProperties DEF Tip
  <2> QED BY <1>5, <2>1, <2>2, <2>3, <2>5
<1> QED BY <1>1, <1>2, <1>4, <1>6, <1>7

(* The initial state shows branches without commits or with the first one.  *)
LEMMA RefinesInit ==
  ASSUME Init
  PROVE  Promise!AbsInit
<1>1. TypeOK
  BY InitHolds
<1>2. ASSUME NEW r \in Repos
      PROVE  Shown(r) \in {<<>>, <<Promise!Nothing>>}
  <2>1. CASE branch[r] = <<>>
    <3>1. Len(branch[r]) = 0
      BY <2>1
    <3> QED BY <1>1, <3>1, ShownProperties, EmptySeq
  <2>2. CASE branch[r] = <<InitialCommit>>
    <3>1. Len(branch[r]) = 1 /\ branch[r][1] = InitialCommit
      BY <2>2
    <3>2. Len(Shown(r)) = 1 /\ Shown(r)[1] = Promise!Nothing
      BY <1>1, <3>1, ShownProperties DEF InitialCommit, Promise!Nothing
    <3>3. Promise!Nothing \in Pairs
      BY DEF Promise!Nothing, Pairs, Texts
    <3>4. /\ <<Promise!Nothing>> \in Seq(Pairs) /\ Len(<<Promise!Nothing>>) = 1
          /\ <<Promise!Nothing>>[1] = Promise!Nothing
      BY <3>3
    <3> QED BY <1>1, <3>2, <3>4, ShownProperties, SeqEqual
  <2> QED BY <2>1, <2>2 DEF Init
<1>3. Reported = {}
  BY DEF Init, Reported, Done
<1> QED BY <1>2, <1>3 DEF Init, Promise!AbsInit, Reported

(* Every step of the publisher is a step of the promise or changes nothing  *)
(* a reader or a caller sees.                                               *)
LEMMA RefinesStep ==
  ASSUME TypeOK, IInv, TypeOK', SuccessIsVisible, SuccessIsVisible', [Next]_vars
  PROVE  [Promise!AbsNext]_(Promise!absVars)
<1> USE DEF IInv
\* Branches that stay show the same; outcomes that stay report the same.
<1>1. ASSUME UNCHANGED branch
      PROVE  History' = History
  BY <1>1 DEF History, Shown
<1>2. ASSUME NEW r \in Repos, NEW h,
             Shown(r)' = h, \A s \in Repos : s # r => branch'[s] = branch[s]
      PROVE  History' = [History EXCEPT ![r] = h]
  <2>1. \A s \in Repos : s # r => Shown(s)' = Shown(s)
    BY <1>2, ShownMoves
  <2> QED BY <1>2, <2>1 DEF History
<1>3. ASSUME \A c \in Calls : Done(c)' <=> Done(c)
      PROVE  Reported' = Reported
  BY <1>3 DEF Reported
<1>4. ASSUME UNCHANGED branch, UNCHANGED repo, \A c \in Calls : Done(c)' <=> Done(c)
      PROVE  UNCHANGED Promise!absVars
  BY <1>1, <1>3, <1>4 DEF Promise!absVars, History, Reported
<1>5. ASSUME NEW c \in Calls, at[c] # "ended",
             \/ outcome' = outcome
             \/ outcome' = [outcome EXCEPT ![c] = "failed"]
      PROVE  \A d \in Calls : Done(d)' <=> Done(d)
  <2>1. ~Done(c)
    BY <1>5 DEF CallsLocated, Done
  <2> QED BY <1>5, <2>1 DEF Done, TypeOK
\* A call reports success.
<1>6. ASSUME NEW c \in Calls, ~Done(c), Done(c)', UNCHANGED branch, UNCHANGED repo,
             \A d \in Calls : d # c => outcome'[d] = outcome[d]
      PROVE  Promise!Report(c)
  <2>1. repo[c] \in Repos
    <3>1. CASE Skip(c)
      BY <3>1 DEF CallsLocated, OnRepository, Skip
    <3>2. CASE VerifyProxy(c)
      BY <3>2 DEF CallsLocated, OnRepository, VerifyProxy
    <3> QED BY <1>6, <3>1, <3>2, SuccessMoves
  <2>2. /\ \E m \in Commits(repo[c]) : m.sub = SubOf[c]
        /\ \E m \in Commits(repo[c]) : m.proxy = ProxyOf[c]
    <3>1. CASE Skip(c)
      <4>1. at[c] = "decide" /\ seen[c].sub = SubOf[c] /\ seen[c].proxy = ProxyOf[c]
        BY <3>1 DEF Skip, Changed
      <4> QED BY <4>1 DEF ReadsShown
    <3>2. CASE VerifyProxy(c)
      <4>1. at[c] = "verifyProxy"
        BY <3>2 DEF VerifyProxy
      <4>2. PICK m \in Commits(repo[c]) : m.by = c
        BY <4>1 DEF CommitsSigned
      <4>3. m.sub = SubOf[c] /\ m.proxy = ProxyOf[c]
        BY <2>1, <4>2 DEF CommitsSigned
      <4> QED BY <4>2, <4>3
    <3> QED BY <1>6, <3>1, <3>2, SuccessMoves
  <2>3. \A m \in Commits(repo[c]) :
          \E h \in {Shown(repo[c])[i] : i \in DOMAIN Shown(repo[c])} :
            h.sub = m.sub /\ h.proxy = m.proxy
    <3> SUFFICES ASSUME NEW m \in Commits(repo[c])
                 PROVE  \E h \in {Shown(repo[c])[i] : i \in DOMAIN Shown(repo[c])} :
                          h.sub = m.sub /\ h.proxy = m.proxy
      OBVIOUS
    <3>1. PICK i \in DOMAIN branch[repo[c]] : m = branch[repo[c]][i]
      BY DEF Commits
    <3>2. /\ i \in DOMAIN Shown(repo[c])
          /\ Shown(repo[c])[i] = [sub |-> m.sub, proxy |-> m.proxy]
      BY <3>1 DEF Shown
    <3>3. Shown(repo[c])[i].sub = m.sub /\ Shown(repo[c])[i].proxy = m.proxy
      BY <3>2
    <3> QED BY <3>2, <3>3
  <2>4. Reported' = Reported \cup {c} /\ c \notin Reported
    BY <1>6 DEF Reported, Done
  <2>5. History' = History /\ History[repo[c]] = Shown(repo[c])
    BY <1>1, <1>6, <2>1 DEF History
  <2>6. /\ \E h \in {History[repo[c]][i] : i \in DOMAIN History[repo[c]]} :
             h.sub = SubOf[c]
        /\ \E h \in {History[repo[c]][i] : i \in DOMAIN History[repo[c]]} :
             h.proxy = ProxyOf[c]
    BY <2>2, <2>3, <2>5
  <2> QED BY <1>6, <2>1, <2>4, <2>5, <2>6
          DEF Promise!Report, Promise!Entries, History, Reported
<1>7. ASSUME NEW c \in Calls, Begin(c) \/ ReadSub(c) \/ ReadProxy(c) \/ Build(c)
                              \/ VerifySub(c)
      PROVE  UNCHANGED Promise!absVars
  <2>1. /\ UNCHANGED branch /\ UNCHANGED repo /\ at[c] # "ended"
        /\ \/ outcome' = outcome
           \/ outcome' = [outcome EXCEPT ![c] = "failed"]
    BY <1>7 DEF Begin, ReadSub, ReadProxy, Build, VerifySub, Fail
  <2> QED BY <1>4, <1>5, <2>1
<1>8. ASSUME NEW c \in Calls, Create(c)
      PROVE  [Promise!AbsNext]_(Promise!absVars)
  <2>1. /\ at[c] # "ended" /\ UNCHANGED repo
        /\ outcome' = outcome \/ outcome' = [outcome EXCEPT ![c] = "failed"]
    BY <1>8 DEF Create, Fail
  <2>2. CASE UNCHANGED branch
    BY <1>4, <1>5, <2>1, <2>2
  <2>3. CASE branch' # branch
    <3>1. PICK r \in Repos : /\ branch[r] = <<>>
                             /\ branch' = [branch EXCEPT ![r] = <<InitialCommit>>]
      BY <1>8, <2>3 DEF Create
    <3>2. Established(r) /\ \A s \in Repos : s # r => branch'[s] = branch[s]
      BY <3>1 DEF Established, TypeOK
    <3>3. Shown(r) = <<>> /\ Shown(r)' = <<Promise!Nothing>>
      BY <3>2, ShownMoves
    <3>4. History' = [History EXCEPT ![r] = <<Promise!Nothing>>] /\ History[r] = <<>>
      BY <1>2, <3>2, <3>3 DEF History
    <3>5. Reported' = Reported
      BY <1>3, <1>5, <2>1
    <3>6. Promise!Establish(r)
      BY <2>1, <3>4, <3>5 DEF Promise!Establish, History, Reported
    <3> QED BY <3>6 DEF Promise!AbsNext
  <2> QED BY <2>2, <2>3
<1>9. ASSUME NEW c \in Calls, Lookup(c)
      PROVE  [Promise!AbsNext]_(Promise!absVars)
  <2>1. /\ at[c] = "lookup" /\ UNCHANGED branch
        /\ outcome' = outcome \/ outcome' = [outcome EXCEPT ![c] = "failed"]
    BY <1>9 DEF Lookup, Fail
  <2>2. CASE UNCHANGED repo
    BY <1>4, <1>5, <2>1, <2>2
  <2>3. CASE repo' # repo
    <3>1. branch[ref[c]] # <<>> /\ repo' = [repo EXCEPT ![c] = ref[c]]
      BY <1>9, <2>3 DEF Lookup
    <3>2. ref[c] \in Repos /\ repo[c] = Absent
      BY <2>1 DEF CallsLocated
    <3>3. History[ref[c]] # <<>>
      BY <3>1, <3>2, ShownMoves DEF History
    <3>4. History' = History /\ Reported' = Reported
      BY <1>1, <1>3, <1>5, <2>1
    <3>5. Promise!Choose(c, ref[c])
      BY <3>1, <3>2, <3>3, <3>4 DEF Promise!Choose, History, Reported
    <3> QED BY <3>2, <3>5 DEF Promise!AbsNext
  <2> QED BY <2>2, <2>3
<1>10. ASSUME NEW c \in Calls, Patch(c)
       PROVE  [Promise!AbsNext]_(Promise!absVars)
  <2>1. /\ at[c] = "patch" /\ UNCHANGED repo
        /\ outcome' = outcome \/ outcome' = [outcome EXCEPT ![c] = "failed"]
    BY <1>10 DEF Patch, Fail
  <2>2. CASE UNCHANGED branch
    BY <1>4, <1>5, <2>1, <2>2
  <2>3. CASE branch' # branch
    <3>1. Accept(c)
      BY <1>10, <2>3 DEF Patch
    <3>2. PICK r \in Repos : r = repo[c]
      BY <2>1 DEF CallsLocated, OnRepository
    <3>3. \A s \in Repos : s # r => branch'[s] = branch[s]
      BY <3>1, <3>2 DEF Accept, TypeOK
    <3>4. branch' \in [Repos -> Seq(CommitType)] /\ branch \in [Repos -> Seq(CommitType)]
      BY DEF TypeOK
    <3>5. branch'[r] # branch[r]
      BY <2>3, <3>3, <3>4
    <3>6. Published(c, r)
      BY <2>1, <3>1, <3>5, AcceptMoves
    <3>7. Shown(r)' = Append(Shown(r), Promise!PairOf(c))
      BY <3>6, ShownMoves
    <3>8. History' = [History EXCEPT ![r] = Append(Shown(r), Promise!PairOf(c))]
      BY <1>2, <3>3, <3>7
    <3>9. History[r] = Shown(r)
      BY DEF History
    <3>10. Reported' = Reported
      BY <1>3, <1>5, <2>1
    <3>11. Promise!Replace(c, r)
      BY <2>1, <3>2, <3>8, <3>9, <3>10 DEF Promise!Replace, History, Reported
    <3> QED BY <3>11 DEF Promise!AbsNext
  <2> QED BY <2>2, <2>3
<1>11. ASSUME NEW c \in Calls, Skip(c) \/ VerifyProxy(c)
       PROVE  [Promise!AbsNext]_(Promise!absVars)
  <2>1. /\ UNCHANGED branch /\ UNCHANGED repo /\ at[c] # "ended"
        /\ \A d \in Calls : d # c => outcome'[d] = outcome[d]
    BY <1>11 DEF Skip, VerifyProxy, Succeed, Fail, TypeOK
  <2>2. ~Done(c)
    BY <2>1 DEF CallsLocated, Done
  <2>3. CASE Done(c)'
    <3>1. Promise!Report(c)
      BY <1>6, <2>1, <2>2, <2>3
    <3> QED BY <3>1 DEF Promise!AbsNext
  <2>4. CASE ~Done(c)'
    <3>1. \A d \in Calls : Done(d)' <=> Done(d)
      BY <2>1, <2>2, <2>4 DEF Done
    <3> QED BY <1>4, <2>1, <3>1
  <2> QED BY <2>3, <2>4
<1>12. ASSUME NEW r \in Repos, Edit(r)
       PROVE  Promise!AbsNext
  <2>1. /\ UNCHANGED repo /\ outcome' = outcome
        /\ \A s \in Repos : s # r => branch'[s] = branch[s]
    BY <1>12 DEF Edit, TypeOK
  <2>2. Edited(r)
    BY <1>12 DEF Edit, Edited, OwnersCommit, TypeOK
  <2>3. Shown(r)' = Append(Shown(r), Shown(r)[Len(Shown(r))]) /\ Shown(r) # <<>>
    BY <2>2, ShownMoves DEF Edited
  <2>4. History' = [History EXCEPT ![r] = Append(Shown(r), Shown(r)[Len(Shown(r))])]
    BY <1>2, <2>1, <2>3
  <2>5. History[r] = Shown(r)
    BY DEF History
  <2>6. Reported' = Reported
    BY <1>3, <2>1 DEF Done
  <2>7. Promise!Touch(r)
    BY <2>1, <2>3, <2>4, <2>5, <2>6 DEF Promise!Touch, History, Reported
  <2> QED BY <2>7 DEF Promise!AbsNext
<1>13. ASSUME UNCHANGED vars
       PROVE  UNCHANGED Promise!absVars
  <2>1. UNCHANGED branch /\ UNCHANGED repo /\ outcome' = outcome
    BY <1>13 DEF vars
  <2> QED BY <1>4, <2>1 DEF Done
<1> QED BY <1>7, <1>8, <1>9, <1>10, <1>11, <1>12, <1>13 DEF Next, CallStep

(* SubscriptionPublish implements AtomicOutputs: whatever calls, lost        *)
(* answers and owner's commits happen, readers see what is promised.         *)
THEOREM Refinement == Spec => Refines
<1>1. Init => Promise!AbsInit
  BY RefinesInit
<1>2. /\ TypeOK /\ IInv /\ (TypeOK /\ IInv)'
      /\ SuccessIsVisible /\ SuccessIsVisible' /\ [Next]_vars
      => [Promise!AbsNext]_(Promise!absVars)
  BY RefinesStep
<1> QED BY <1>1, <1>2, Invariance, SuccessSafety, PTL
        DEF Spec, Refines, Promise!AbsSpec
=============================================================================
