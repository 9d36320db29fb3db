---------------------------- MODULE AtomicOutputs ----------------------------
(***************************************************************************)
(* What the personal subscription promises to the people who read it: the   *)
(* public repository always shows a sub.txt and a proxy.txt that one        *)
(* publication put there together, nothing published before is ever undone, *)
(* and a publication reported as done has had its texts on the branch.      *)
(* (RELEASE_NOTES_1.5.1.md:18 "one atomic commit", :20 "read back and       *)
(* verified".)                                                              *)
(***************************************************************************)
EXTENDS Sequences, Integers

CONSTANTS
  Calls,     \* publication calls
  Repos,     \* repository names
  SubOf,     \* the sub.txt text each call publishes
  ProxyOf,   \* the proxy.txt text each call publishes
  Absent     \* the file is not there

VARIABLES
  history,   \* the pairs each repository has shown, oldest first
  target,    \* the repository a call works on, or Absent
  reported   \* the calls that were told their texts are published

absVars == <<history, target, reported>>

Nothing == [sub |-> Absent, proxy |-> Absent]
PairOf(c) == [sub |-> SubOf[c], proxy |-> ProxyOf[c]]
Entries(r) == {history[r][i] : i \in DOMAIN history[r]}

AbsInit ==
  /\ history \in [Repos -> {<<>>, <<Nothing>>}]
  /\ target = [c \in Calls |-> Absent]
  /\ reported = {}

\* A repository comes into being with neither file.
Establish(r) ==
  /\ history[r] = <<>>
  /\ history' = [history EXCEPT ![r] = <<Nothing>>]
  /\ UNCHANGED reported
  /\ \/ UNCHANGED target
     \/ \E c \in Calls : /\ target[c] = Absent
                         /\ target' = [target EXCEPT ![c] = r]

Choose(c, r) ==
  /\ target[c] = Absent /\ history[r] # <<>>
  /\ target' = [target EXCEPT ![c] = r]
  /\ UNCHANGED <<history, reported>>

\* Both texts of one call replace the pair that is shown.
Replace(c, r) ==
  /\ target[c] = r
  /\ history' = [history EXCEPT ![r] = Append(@, PairOf(c))]
  /\ UNCHANGED <<target, reported>>

\* A commit that leaves both files alone.
Touch(r) ==
  /\ history[r] # <<>>
  /\ history' = [history EXCEPT ![r] = Append(@, @[Len(@)])]
  /\ UNCHANGED <<target, reported>>

\* A call is told that its texts are published, or were already.
Report(c) ==
  /\ c \notin reported
  /\ \E r \in Repos :
       /\ target[c] = r
       /\ \E h \in Entries(r) : h.sub = SubOf[c]
       /\ \E h \in Entries(r) : h.proxy = ProxyOf[c]
  /\ reported' = reported \cup {c}
  /\ UNCHANGED <<history, target>>

AbsNext ==
  \/ \E r \in Repos : Establish(r) \/ Touch(r)
  \/ \E c \in Calls, r \in Repos : Choose(c, r) \/ Replace(c, r)
  \/ \E c \in Calls : Report(c)

AbsSpec == AbsInit /\ [][AbsNext]_absVars
=============================================================================
