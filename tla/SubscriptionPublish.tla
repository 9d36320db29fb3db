------------------------- MODULE SubscriptionPublish -------------------------
(***************************************************************************)
(* SubscriptionPublisher.EnsureAndPublishAsync called from MainWindow: the  *)
(* Connect and Publish buttons and the end of a test each start a call, and *)
(* nothing keeps two calls from running at the same time.  The branch on    *)
(* GitHub is the external party: it accepts a commit only as a fast-forward *)
(* and any request may be lost before it is carried out or its answer after.*)
(***************************************************************************)
EXTENDS Sequences, Integers

CONSTANTS
  Calls,       \* publication calls the user or a finished test starts
  Repos,       \* names a new repository may get (fresh GUIDs)
  SubOf,       \* sub.txt of each call, read from the output folder
  ProxyOf,     \* proxy.txt of each call
  Absent,      \* no such file, or no such repository
  Connected,   \* the repository in the settings at the start, or Absent
  WriteSends,  \* sends of one write request: 1 by SendAsync, 4 by _request
  MaxEdits     \* bound: commits made by the account's owner on GitHub

ASSUME CallsAssumption ==
  /\ Connected \in Repos \cup {Absent} /\ Absent \notin Repos \cup Calls
  /\ WriteSends \in Nat \ {0} /\ MaxEdits \in Nat

VARIABLES
  branch,    \* the commits of each repository's default branch
  edits,     \* commits made by the owner
  stored,    \* SubscriptionRepo.Text, the repository in the settings
  at,        \* where each call stands
  ref,       \* the repository reference a call was given
  repo,      \* the repository a call works on
  seen,      \* the files a call read before it decided to commit
  base,      \* the length of the branch when the call read its head
  sends,     \* sends of the current write request
  outcome    \* how the call ended

vars == <<branch, edits, stored, at, ref, repo, seen, base, sends, outcome>>

Texts == {SubOf[c] : c \in Calls} \cup {ProxyOf[c] : c \in Calls} \cup {Absent}
InitialCommit == [sub |-> Absent, proxy |-> Absent, other |-> 0, by |-> Absent]
Tip(r) == branch[r][Len(branch[r])]

Init ==
  /\ branch = [r \in Repos |-> IF r = Connected THEN <<InitialCommit>> ELSE <<>>]
  /\ edits = 0
  /\ stored = Connected
  /\ at = [c \in Calls |-> "idle"]
  /\ ref = [c \in Calls |-> Absent]
  /\ repo = [c \in Calls |-> Absent]
  /\ seen = [c \in Calls |-> [sub |-> Absent, proxy |-> Absent]]
  /\ base = [c \in Calls |-> 0]
  /\ sends = [c \in Calls |-> 0]
  /\ outcome = [c \in Calls |-> "none"]

Goto(c, label) == at' = [at EXCEPT ![c] = label]

\* Mutant: a failed request starts the call again, without a bound.
FailAndRepeat(c) ==
  /\ Goto(c, "create")
  /\ outcome' = [outcome EXCEPT ![c] = "failed"]

\* Any exception ends the call; the settings keep what they had.
Fail(c) ==
  /\ Goto(c, "ended")
  /\ outcome' = [outcome EXCEPT ![c] = "failed"]

\* The call starts: the stored reference is captured, GET /user identifies
\* the owner.  A reference of the account is used, none means a new name.
Begin(c) ==
  /\ at[c] = "idle"
  /\ ref' = [ref EXCEPT ![c] = stored]
  /\ \/ Goto(c, IF stored = Absent THEN "create" ELSE "lookup") /\ UNCHANGED outcome
     \/ Fail(c)
  /\ UNCHANGED <<branch, edits, stored, repo, seen, base, sends>>

\* POST /user/repos with auto_init.  A lost answer leaves the repository.
Create(c) ==
  /\ at[c] = "create"
  /\ \/ \E r \in Repos :
          /\ branch[r] = <<>>
          /\ branch' = [branch EXCEPT ![r] = <<InitialCommit>>]
          /\ \/ /\ Goto(c, "lookup") /\ ref' = [ref EXCEPT ![c] = r]
                /\ UNCHANGED outcome
             \/ Fail(c) /\ UNCHANGED ref
     \/ Fail(c) /\ UNCHANGED <<branch, ref>>
  /\ UNCHANGED <<edits, stored, repo, seen, base, sends>>

\* GET the repository and its default branch.
Lookup(c) ==
  /\ at[c] = "lookup"
  /\ \/ /\ branch[ref[c]] # <<>>
        /\ Goto(c, "readSub") /\ repo' = [repo EXCEPT ![c] = ref[c]]
        /\ UNCHANGED outcome
     \/ Fail(c) /\ UNCHANGED repo
  /\ UNCHANGED <<branch, edits, stored, ref, seen, base, sends>>

ReadSub(c) ==
  /\ at[c] = "readSub"
  /\ \/ /\ Goto(c, "readProxy")
        /\ seen' = [seen EXCEPT ![c].sub = Tip(repo[c]).sub]
        /\ UNCHANGED outcome
     \/ Fail(c) /\ UNCHANGED seen
  /\ UNCHANGED <<branch, edits, stored, ref, repo, base, sends>>

\* The second file is a request of its own: the branch may have moved.
ReadProxy(c) ==
  /\ at[c] = "readProxy"
  /\ \/ /\ Goto(c, "decide")
        /\ seen' = [seen EXCEPT ![c].proxy = Tip(repo[c]).proxy]
        /\ UNCHANGED outcome
     \/ Fail(c) /\ UNCHANGED seen
  /\ UNCHANGED <<branch, edits, stored, ref, repo, base, sends>>

\* Mutant: the texts are compared by the presence of the first file.
ChangedIfAbsent(c) == seen[c].sub = Absent

Changed(c) == seen[c].sub # SubOf[c] \/ seen[c].proxy # ProxyOf[c]

\* The call returns: MainWindow stores the repository it published to.
Succeed(c, how) ==
  /\ Goto(c, "ended")
  /\ outcome' = [outcome EXCEPT ![c] = how]
  /\ stored' = repo[c]

Skip(c) ==
  /\ at[c] = "decide" /\ ~Changed(c)
  /\ Succeed(c, "unchanged")
  /\ UNCHANGED <<branch, edits, ref, repo, seen, base, sends>>

(* GET the ref, its commit, then POST two blobs, a tree over the base tree  *)
(* and a commit.  These objects are immutable and nobody sees them until    *)
(* the ref moves, so only the head that was read matters later.             *)
Build(c) ==
  /\ at[c] = "decide" /\ Changed(c)
  /\ \/ /\ Goto(c, "patch")
        /\ base' = [base EXCEPT ![c] = Len(branch[repo[c]])]
        /\ sends' = [sends EXCEPT ![c] = 0]
        /\ UNCHANGED outcome
     \/ Fail(c) /\ UNCHANGED <<base, sends>>
  /\ UNCHANGED <<branch, edits, stored, ref, repo, seen>>

\* Mutant: the owner's name is passed for the first text.
NewCommitSwapped(c) ==
  [sub |-> repo[c], proxy |-> ProxyOf[c],
   other |-> branch[repo[c]][base[c]].other, by |-> c]

\* Mutant: only the file that was seen to differ is put in the tree.
NewCommitOfChanged(c) ==
  LET parent == branch[repo[c]][base[c]]
  IN [sub |-> IF seen[c].sub = SubOf[c] THEN parent.sub ELSE SubOf[c],
      proxy |-> IF seen[c].proxy = ProxyOf[c] THEN parent.proxy ELSE ProxyOf[c],
      other |-> parent.other, by |-> c]

\* The commit: both files replaced, every other file of the base tree kept.
NewCommit(c) ==
  [sub |-> SubOf[c], proxy |-> ProxyOf[c],
   other |-> branch[repo[c]][base[c]].other, by |-> c]

\* Mutant: the ref is moved with force: true.
ForceOn == TRUE

\* The ref is moved with force: false.
Forced == FALSE

\* GitHub moves the ref when the commit is a fast-forward, or forced, or
\* already the head; otherwise it answers 422.
FastForward(c) == Len(branch[repo[c]]) = base[c] \/ Forced
AlreadyHead(c) == Tip(repo[c]).by = c

Accept(c) ==
  \/ /\ FastForward(c)
     /\ branch' = [branch EXCEPT ![repo[c]] =
                     Append(SubSeq(@, 1, base[c]), NewCommit(c))]
  \/ ~FastForward(c) /\ AlreadyHead(c) /\ UNCHANGED branch

\* Mutant: a write that was not answered is built anew on the current head.
PatchAnew(c) ==
  /\ at[c] = "patch"
  /\ sends' = [sends EXCEPT ![c] = @ + 1]
  /\ \/ Accept(c) /\ Goto(c, "verifySub") /\ UNCHANGED <<base, outcome>>
     \/ /\ Accept(c) \/ UNCHANGED branch
        /\ \/ /\ sends[c] + 1 < WriteSends
              /\ base' = [base EXCEPT ![c] = Len(branch'[repo[c]])]
              /\ UNCHANGED <<at, outcome>>
           \/ Fail(c) /\ UNCHANGED base
  /\ UNCHANGED <<edits, stored, ref, repo, seen>>

\* PATCH the ref: answered, refused, lost on the way or lost on the way back.
Patch(c) ==
  /\ at[c] = "patch"
  /\ sends' = [sends EXCEPT ![c] = @ + 1]
  /\ \/ Accept(c) /\ Goto(c, "verifySub") /\ UNCHANGED outcome
     \/ /\ Accept(c) \/ UNCHANGED branch
        /\ \/ sends[c] + 1 < WriteSends /\ UNCHANGED <<at, outcome>>
           \/ Fail(c)
  /\ UNCHANGED <<edits, stored, ref, repo, seen, base>>

VerifySub(c) ==
  /\ at[c] = "verifySub"
  /\ \/ /\ Tip(repo[c]).sub = SubOf[c]
        /\ Goto(c, "verifyProxy") /\ UNCHANGED outcome
     \/ Fail(c)
  /\ UNCHANGED <<branch, edits, stored, ref, repo, seen, base, sends>>

VerifyProxy(c) ==
  /\ at[c] = "verifyProxy"
  /\ \/ Tip(repo[c]).proxy = ProxyOf[c] /\ Succeed(c, "changed")
     \/ Fail(c) /\ UNCHANGED stored
  /\ UNCHANGED <<branch, edits, ref, repo, seen, base, sends>>

\* The owner commits something else on GitHub.
Edit(r) ==
  /\ branch[r] # <<>> /\ edits < MaxEdits
  /\ edits' = edits + 1
  /\ branch' = [branch EXCEPT ![r] =
                  Append(@, [Tip(r) EXCEPT !.other = @ + 1, !.by = Absent])]
  /\ UNCHANGED <<stored, at, ref, repo, seen, base, sends, outcome>>

CallStep(c) ==
  \/ Create(c) \/ Lookup(c) \/ ReadSub(c) \/ ReadProxy(c) \/ Skip(c)
  \/ Build(c) \/ Patch(c) \/ VerifySub(c) \/ VerifyProxy(c)

Next ==
  \/ \E c \in Calls : Begin(c) \/ CallStep(c)
  \/ \E r \in Repos : Edit(r)

Spec == Init /\ [][Next]_vars

\* Every request ends within the client's 20-second timeout.
FairSpec == Spec /\ \A c \in Calls : WF_vars(CallStep(c))

-----------------------------------------------------------------------------
Outcomes == {"none", "failed", "unchanged", "changed"}
Done(c) == outcome[c] \in {"unchanged", "changed"}
Commits(r) == {branch[r][i] : i \in DOMAIN branch[r]}
CommitType == [sub : Texts, proxy : Texts, other : Nat, by : Calls \cup {Absent}]

\* Every variable has its type.
TypeOK ==
  /\ branch \in [Repos -> Seq(CommitType)]
  /\ edits \in Nat /\ stored \in Repos \cup {Absent}
  /\ at \in [Calls -> {"idle", "create", "lookup", "readSub", "readProxy",
                       "decide", "patch", "verifySub", "verifyProxy", "ended"}]
  /\ ref \in [Calls -> Repos \cup {Absent}]
  /\ repo \in [Calls -> Repos \cup {Absent}]
  /\ seen \in [Calls -> [sub : Texts, proxy : Texts]]
  /\ base \in [Calls -> Nat] /\ sends \in [Calls -> Nat]
  /\ outcome \in [Calls -> Outcomes]

(* Half a publication is never visible (RELEASE_NOTES_1.5.1.md:18): the two *)
(* files at every commit of every branch are the pair of one call, whatever *)
(* another call did between the reads and the commit.                       *)
WholePairs ==
  \A r \in Repos : \A m \in Commits(r) :
    \/ m.sub = Absent /\ m.proxy = Absent
    \/ \E c \in Calls : m.sub = SubOf[c] /\ m.proxy = ProxyOf[c]

(* Nobody's commit is undone: a branch only grows, and a publication keeps  *)
(* the other files of the head it replaces.                                 *)
NothingLost ==
  [][\A r \in Repos :
       /\ Len(branch'[r]) >= Len(branch[r])
       /\ \A i \in DOMAIN branch[r] : branch'[r][i] = branch[r][i]
       /\ \A i \in DOMAIN branch'[r] :
            i > 1 => branch'[r][i].other >= branch'[r][i - 1].other]_vars

(* A call that reports success has had both its texts on the branch it      *)
(* reports: in one commit of its own, or each of them at some commit.       *)
SuccessIsVisible ==
  \A c \in Calls :
    /\ outcome[c] = "changed" => \E m \in Commits(repo[c]) : m.by = c
    /\ outcome[c] = "unchanged" =>
         /\ \E m \in Commits(repo[c]) : m.sub = SubOf[c]
         /\ \E m \in Commits(repo[c]) : m.proxy = ProxyOf[c]

(* One call adds at most one commit, however often its request is sent.     *)
CommitOnce ==
  \A c \in Calls, r \in Repos :
    \A i, j \in DOMAIN branch[r] :
      branch[r][i].by = c /\ branch[r][j].by = c => i = j

\* Every call that was started ends.
CallsEnd == \A c \in Calls : at[c] # "idle" ~> at[c] = "ended"

-----------------------------------------------------------------------------
\* Parts of the inductive invariant.

OnRepository == {"readSub", "readProxy", "decide", "patch", "verifySub",
                 "verifyProxy"}

\* Which repository a call works on, and that it exists.
CallsLocated ==
  \A c \in Calls :
    /\ at[c] = "lookup" => ref[c] \in Repos
    /\ at[c] \in {"idle", "create", "lookup"} => repo[c] = Absent
    /\ at[c] \in OnRepository \/ Done(c) =>
         repo[c] \in Repos /\ branch[repo[c]] # <<>>
    /\ at[c] # "ended" <=> outcome[c] = "none"

\* The texts a call has read were on the branch, in one commit or in two.
ReadsShown ==
  \A c \in Calls :
    /\ at[c] \in {"readProxy", "decide"} =>
         \E m \in Commits(repo[c]) : m.sub = seen[c].sub
    /\ at[c] = "decide" =>
         \E m \in Commits(repo[c]) : m.proxy = seen[c].proxy

\* A call's commit holds its texts and is on the branch the call works on.
\* While the request is sent again the branch is longer than its base.
CommitsSigned ==
  \A c \in Calls :
    /\ at[c] \in {"verifySub", "verifyProxy"} =>
         \E m \in Commits(repo[c]) : m.by = c
    /\ \A r \in Repos : \A m \in Commits(r) :
         m.by = c =>
           /\ m.sub = SubOf[c] /\ m.proxy = ProxyOf[c]
           /\ r = repo[c]
           /\ at[c] \in {"patch", "verifySub", "verifyProxy", "ended"}
           /\ at[c] = "patch" => base[c] < Len(branch[r])

\* The owner's files are never set back from one commit to the next.
OthersGrow ==
  \A r \in Repos : \A i \in DOMAIN branch[r] :
    i > 1 => branch[r][i].other >= branch[r][i - 1].other

(* The strengthening of the safety invariants that every step preserves:    *)
(* where a call works, what it has read, and which commit is its own.       *)
IInv == CallsLocated /\ ReadsShown /\ CommitsSigned /\ OthersGrow

-----------------------------------------------------------------------------
\* The readers' view of a branch: the pairs it has shown.
Shown(r) == [i \in DOMAIN branch[r] |->
              [sub |-> branch[r][i].sub, proxy |-> branch[r][i].proxy]]

Promise == INSTANCE AtomicOutputs WITH
  history <- [r \in Repos |-> Shown(r)],
  target <- repo,
  reported <- {c \in Calls : Done(c)}

(* The publisher implements the promise of AtomicOutputs.                   *)
Refines == Promise!AbsSpec
=============================================================================
