-------------------------- MODULE LegacyStages_proofs --------------------------
(***************************************************************************)
(* For any lists of lines, any previews, any files beside the program, any  *)
(* number of edits, starts and runs: the variables keep their types, a run  *)
(* does what the window shows, no link is lost or counted twice, and        *)
(* sub.txt holds the good tests.  And for every link: the two parsers agree *)
(* on the server, and a new name changes nothing of what was tested.        *)
(***************************************************************************)
EXTENDS LegacyStages, FiniteSetTheorems, SequenceTheorems, TLAPS

-----------------------------------------------------------------------------
(* The invariants.                                                          *)
Windows ==
  [p1 : Seq(Lines), p2 : Seq(Lines), attempts : 1..8, min : 1..8, rename : BOOLEAN,
   configs : BOOLEAN, proxies : BOOLEAN, prefilter : BOOLEAN]

Homes == [channels : {Absent} \cup Seq(Lines), env : {Absent, Empty} \cup Env]

(* The files, the globals and the boxes; a program that runs has read a     *)
(* list, and the minimum never exceeds the attempts.                        *)
SettingsInv ==
  /\ front \in {"window", "cli"} /\ up \in BOOLEAN /\ busy \in BOOLEAN /\ launches \in Nat
  /\ portable \in Portables /\ home \in Homes
  /\ eng \in Env /\ win \in Windows /\ win.min <= win.attempts
  /\ up => launches # 0 /\ home.channels \in Seq(Lines)

Running == {"apply", "list", "fetch", "ask", "sort", "test"}

(* A run is in progress only in a program that runs, so nothing is edited   *)
(* or started meanwhile; the command line reads the same names each time.   *)
PhaseInv ==
  /\ phase \in {"idle", "done", "aborted"} \cup Running
  /\ busy <=> phase \in Running
  /\ busy => up
  /\ phase # "idle" => launches # 0
  /\ phase \in {"apply", "aborted"} => front = "window"
  /\ phase = "done" /\ front = "window" => up
  /\ phase = "aborted" => up
  /\ front = "cli" /\ launches # 0 => eng.rename = Read(home.env, Builtin).rename

Shown == ToSet(win.p1) \cup ToSet(win.p2)

(* What the window shows is what the run does, from one step to the next.   *)
RankInv ==
  front = "window" =>
    /\ phase \in Running => win.p1 \in Seq(Channels) /\ win.p2 \in Seq(Channels)
    /\ phase \in Running \ {"apply"} => eng = Chosen(win)
    /\ phase = "list" => ToSet(Normalized(home.channels)) = Shown
    /\ phase \in {"fetch", "ask", "sort", "test"} =>
         /\ ToSet(order) = Shown
         /\ \A c \in Channels :
              Len(picked[c]) <= IF c \in ToSet(win.p1) THEN MainLimit ELSE IF c \in ToSet(win.p2) THEN PerLimit ELSE 0

(* The channels of a run are distinct, and one was fetched exactly if its   *)
(* place is no longer asked for.                                            *)
Read1(c) == \E i \in DOMAIN order : order[i] = c /\ i \notin asked

ReadInv ==
  /\ order \in Seq(Channels) /\ asked \subseteq DOMAIN order /\ reads \in [Channels -> Nat]
  /\ \A i, j \in DOMAIN order : order[i] = order[j] => i = j
  /\ \A c \in Channels : reads[c] = IF Read1(c) THEN 1 ELSE 0
  /\ phase \in {"apply", "list"} => order = <<>>
  /\ phase \in {"ask", "sort", "test"} => asked = {}

Distinct(links) == \A i, j \in DOMAIN links : Key(links[i]) = Key(links[j]) => i = j
KeysOf(links) == {Key(links[i]) : i \in DOMAIN links}

(* Every list of links has each key once and only keys of the pages, and no *)
(* key that a channel gave is lost on the way to the second stage.          *)
ListInv ==
  /\ picked \in [Channels -> Seq(Link)] /\ collected \in Seq(Link) /\ loaded \in Seq(Link)
  /\ stage1 = Absent \/ stage1 \in Seq(Link)
  /\ Distinct(collected) /\ Distinct(loaded)
  /\ \A c \in Channels : KeysOf(picked[c]) \subseteq KeysOf(collected)
  /\ KeysOf(collected) \subseteq PageKeys /\ KeysOf(loaded) \subseteq PageKeys
  /\ \A c \in Channels : KeysOf(picked[c]) \subseteq PageKeys
  /\ phase \in {"apply", "list"} => picked = [c \in Channels |-> <<>>]
  /\ phase \in {"ask", "sort", "test", "done"} => stage1 = collected
  /\ phase \in {"sort", "test", "done"} => Len(loaded) = Len(stage1) /\ ToSet(loaded) = ToSet(stage1)

Results == [link : Link, ok : BOOLEAN, ping : Nat, pre : BOOLEAN]
Links(rs) == {rs[i].link : i \in DOMAIN rs}

(* Every link that was read is in one place: to be tested, of a kind that   *)
(* is switched off, not supported, or in one result.                        *)
TestInv ==
  /\ results \in Seq(Results)
  /\ \A i, j \in DOMAIN results : results[i].link = results[j].link => i = j
  /\ todo \cup Links(results) \subseteq Parsed
  /\ todo \cap Links(results) = {}
  /\ skipped \subseteq Parsed /\ skipped \cap (todo \cup Links(results)) = {}
  /\ foreign \subseteq ToSet(loaded) \ Parsed
  /\ phase \in {"test", "done"} => ToSet(loaded) = todo \cup skipped \cup foreign \cup Links(results)
  /\ phase \notin {"test", "done", "aborted"} =>
       results = <<>> /\ todo = {} /\ skipped = {} /\ foreign = {}

-----------------------------------------------------------------------------
(* Lists.  Where every element of a finite set has a set of elements up to  *)
(* it, and of two such sets one is a proper part of the other, the sizes of *)
(* these sets number the elements.                                          *)
LEMMA Enumeration ==
  ASSUME NEW P, IsFiniteSet(P), NEW U \in [P -> SUBSET P],
         \A i \in P : i \in U[i],
         \A i, j \in P : i # j => \/ j \notin U[i] /\ U[i] \subseteq U[j]
                                  \/ i \notin U[j] /\ U[j] \subseteq U[i]
  PROVE  /\ \A i \in P : Cardinality(U[i]) \in 1..Cardinality(P)
         /\ \A k \in 1..Cardinality(P) : \E i \in P : Cardinality(U[i]) = k
         /\ \A i, j \in P : Cardinality(U[i]) = Cardinality(U[j]) => i = j
         /\ \A i, j \in P : i \in U[j] => Cardinality(U[i]) <= Cardinality(U[j])
<1>1. \A i \in P : IsFiniteSet(U[i]) /\ Cardinality(U[i]) \in 1..Cardinality(P)
  <2> TAKE i \in P
  <2>1. U[i] \subseteq P /\ i \in U[i]
    OBVIOUS
  <2>2. IsFiniteSet(U[i]) /\ Cardinality(U[i]) <= Cardinality(P)
    BY <2>1, FS_Subset
  <2>3. Cardinality(U[i]) # 0 /\ Cardinality(U[i]) \in Nat /\ Cardinality(P) \in Nat
    BY <2>1, <2>2, FS_EmptySet, FS_CardinalityType
  <2> QED
    BY <2>2, <2>3
<1>2. ASSUME NEW i \in P, NEW j \in P, j \notin U[i], U[i] \subseteq U[j]
      PROVE  Cardinality(U[i]) < Cardinality(U[j])
  <2>1. Cardinality(U[i]) <= Cardinality(U[j]) /\ Cardinality(U[i]) # Cardinality(U[j])
    BY <1>1, <1>2, FS_Subset
  <2> QED
    BY <1>1, <2>1
<1>3. ASSUME NEW i \in P, NEW j \in P, Cardinality(U[i]) = Cardinality(U[j]) PROVE i = j
  <2> SUFFICES ASSUME i # j PROVE FALSE
    OBVIOUS
  <2>1. Cardinality(U[i]) < Cardinality(U[j]) \/ Cardinality(U[j]) < Cardinality(U[i])
    BY <1>2
  <2> QED
    BY <1>1, <1>3, <2>1
<1>4. ASSUME NEW k \in 1..Cardinality(P) PROVE \E i \in P : Cardinality(U[i]) = k
  <2> DEFINE f == [i \in P |-> Cardinality(U[i])]
  <2>1. f \in Injection(P, 1..Cardinality(P))
    BY <1>1, <1>3 DEF Injection, IsInjective
  <2>2. IsFiniteSet(1..Cardinality(P)) /\ Cardinality(1..Cardinality(P)) = Cardinality(P)
    BY FS_Interval, FS_CardinalityType
  <2>3. f \in Surjection(P, 1..Cardinality(P))
    <3> HIDE DEF f
    <3> QED
      BY <2>1, <2>2, FS_Injection
  <2> QED
    BY <2>3, <1>4 DEF Surjection
<1>5. ASSUME NEW i \in P, NEW j \in P, i \in U[j] PROVE Cardinality(U[i]) <= Cardinality(U[j])
  <2>1. CASE i = j
    BY <2>1, <1>1
  <2>2. CASE i # j
    <3>1. j \notin U[i] /\ U[i] \subseteq U[j]
      BY <2>2, <1>5
    <3> QED
      BY <3>1, <1>2, <1>1
  <2> QED
    BY <2>1, <2>2
<1> QED
  BY <1>1, <1>3, <1>4, <1>5

(* The positions that Keep takes, in order.                                 *)
Spot(P) == [k \in 1..Cardinality(P) |-> CHOOSE i \in P : Cardinality({j \in P : j <= i}) = k]

LEMMA SpotFacts ==
  ASSUME NEW n \in Nat, NEW P \in SUBSET (1..n)
  PROVE  /\ IsFiniteSet(P) /\ Cardinality(P) \in Nat
         /\ Spot(P) \in [1..Cardinality(P) -> P]
         /\ \A k, m \in 1..Cardinality(P) : k < m => Spot(P)[k] < Spot(P)[m]
         /\ \A i \in P : \E k \in 1..Cardinality(P) : Spot(P)[k] = i
<1>1. IsFiniteSet(P) /\ Cardinality(P) \in Nat
  <2>1. IsFiniteSet(1..n)
    BY FS_Interval
  <2>2. IsFiniteSet(P)
    BY <2>1, FS_Subset
  <2> QED
    BY <2>2, FS_CardinalityType
<1> DEFINE U == [i \in P |-> {j \in P : j <= i}]
<1>2. U \in [P -> SUBSET P] /\ \A i \in P : i \in U[i]
  OBVIOUS
<1>3. \A i, j \in P : i # j => \/ j \notin U[i] /\ U[i] \subseteq U[j]
                               \/ i \notin U[j] /\ U[j] \subseteq U[i]
  <2> TAKE i, j \in P
  <2> HAVE i # j
  <2>1. i \in Int /\ j \in Int /\ \A k \in P : k \in Int
    OBVIOUS
  <2>2. U[i] = {k \in P : k <= i} /\ U[j] = {k \in P : k <= j}
    OBVIOUS
  <2> HIDE DEF U
  <2>3. CASE i < j
    <3>1. j \notin U[i]
      BY <2>1, <2>2, <2>3
    <3>2. ASSUME NEW k \in U[i] PROVE k \in U[j]
      <4>1. k \in P /\ k <= i /\ k \in Int
        BY <2>1, <2>2, <3>2
      <4>2. k <= j
        BY <2>1, <2>3, <4>1
      <4> QED
        BY <2>2, <4>1, <4>2
    <3> QED
      BY <3>1, <3>2
  <2>4. CASE j < i
    <3>1. i \notin U[j]
      BY <2>1, <2>2, <2>4
    <3>2. ASSUME NEW k \in U[j] PROVE k \in U[i]
      <4>1. k \in P /\ k <= j /\ k \in Int
        BY <2>1, <2>2, <3>2
      <4>2. k <= i
        BY <2>1, <2>4, <4>1
      <4> QED
        BY <2>2, <4>1, <4>2
    <3> QED
      BY <3>1, <3>2
  <2> QED
    BY <2>1, <2>3, <2>4
<1>4. \A i \in P : U[i] = {j \in P : j <= i}
  OBVIOUS
<1> HIDE DEF U
<1>5. /\ \A i \in P : Cardinality(U[i]) \in 1..Cardinality(P)
      /\ \A k \in 1..Cardinality(P) : \E i \in P : Cardinality(U[i]) = k
      /\ \A i, j \in P : Cardinality(U[i]) = Cardinality(U[j]) => i = j
      /\ \A i, j \in P : i \in U[j] => Cardinality(U[i]) <= Cardinality(U[j])
  BY <1>1, <1>2, <1>3, Enumeration
<1>6. ASSUME NEW k \in 1..Cardinality(P) PROVE Spot(P)[k] \in P /\ Cardinality(U[Spot(P)[k]]) = k
  <2>1. \E i \in P : Cardinality({j \in P : j <= i}) = k
    BY <1>4, <1>5
  <2>2. Spot(P)[k] = CHOOSE i \in P : Cardinality({j \in P : j <= i}) = k
    BY DEF Spot
  <2>3. Spot(P)[k] \in P /\ Cardinality({j \in P : j <= Spot(P)[k]}) = k
    BY <2>1, <2>2
  <2> QED
    BY <2>3, <1>4
<1>7. Spot(P) \in [1..Cardinality(P) -> P]
  BY <1>6 DEF Spot
<1>8. ASSUME NEW k \in 1..Cardinality(P), NEW m \in 1..Cardinality(P), k < m PROVE Spot(P)[k] < Spot(P)[m]
  <2>1. ~(Spot(P)[m] <= Spot(P)[k])
    <3> SUFFICES ASSUME Spot(P)[m] <= Spot(P)[k] PROVE FALSE
      OBVIOUS
    <3>1. Spot(P)[m] \in U[Spot(P)[k]]
      BY <1>4, <1>6
    <3>2. Cardinality(U[Spot(P)[m]]) <= Cardinality(U[Spot(P)[k]])
      BY <3>1, <1>5, <1>6
    <3>3. m <= k
      BY <3>2, <1>6
    <3> QED
      BY <3>3, <1>8
  <2>2. Spot(P)[k] \in 1..n /\ Spot(P)[m] \in 1..n
    BY <1>6
  <2> QED
    BY <2>1, <2>2
<1>9. ASSUME NEW i \in P PROVE \E k \in 1..Cardinality(P) : Spot(P)[k] = i
  <2>1. Cardinality(U[i]) \in 1..Cardinality(P)
    BY <1>5
  <2> WITNESS Cardinality(U[i]) \in 1..Cardinality(P)
  <2> QED
    BY <2>1, <1>6, <1>5
<1> QED
  BY <1>1, <1>7, <1>8, <1>9

(* What Keep returns: the elements at the positions P, in their order.      *)
LEMMA KeepFacts ==
  ASSUME NEW S, NEW s \in Seq(S), NEW P \in SUBSET DOMAIN s
  PROVE  /\ Keep(s, P) \in Seq(S) /\ IsFiniteSet(P) /\ Cardinality(P) \in Nat
         /\ Len(Keep(s, P)) = Cardinality(P) /\ DOMAIN Keep(s, P) = 1..Cardinality(P)
         /\ Spot(P) \in [1..Cardinality(P) -> P]
         /\ \A k \in 1..Cardinality(P) : Keep(s, P)[k] = s[Spot(P)[k]]
         /\ \A k, m \in 1..Cardinality(P) : k < m => Spot(P)[k] < Spot(P)[m]
         /\ \A i \in P : \E k \in 1..Cardinality(P) : Spot(P)[k] = i
<1>1. Len(s) \in Nat /\ DOMAIN s = 1..Len(s)
  BY LenProperties
<1>2. \A i \in P : s[i] \in S
  BY <1>1, ElementOfSeq
<1>3. /\ IsFiniteSet(P) /\ Cardinality(P) \in Nat
      /\ Spot(P) \in [1..Cardinality(P) -> P]
      /\ \A k, m \in 1..Cardinality(P) : k < m => Spot(P)[k] < Spot(P)[m]
      /\ \A i \in P : \E k \in 1..Cardinality(P) : Spot(P)[k] = i
  BY <1>1, SpotFacts
<1>4. Keep(s, P) = [k \in 1..Cardinality(P) |-> s[Spot(P)[k]]]
  BY DEF Keep, Spot
<1>5. [k \in 1..Cardinality(P) |-> s[Spot(P)[k]]] \in [1..Cardinality(P) -> S]
  BY <1>2, <1>3
<1>6. Keep(s, P) \in Seq(S) /\ Len(Keep(s, P)) = Cardinality(P)
  BY <1>3, <1>4, <1>5, IsASeq, LenProperties
<1> QED
  BY <1>3, <1>4, <1>6

LEMMA KeepSet ==
  ASSUME NEW S, NEW s \in Seq(S), NEW P \in SUBSET DOMAIN s
  PROVE  ToSet(Keep(s, P)) = {s[i] : i \in P}
<1>1. /\ DOMAIN Keep(s, P) = 1..Cardinality(P)
      /\ Spot(P) \in [1..Cardinality(P) -> P]
      /\ \A k \in 1..Cardinality(P) : Keep(s, P)[k] = s[Spot(P)[k]]
      /\ \A i \in P : \E k \in 1..Cardinality(P) : Spot(P)[k] = i
  BY KeepFacts
<1>2. ToSet(Keep(s, P)) = {s[Spot(P)[k]] : k \in 1..Cardinality(P)}
  BY <1>1 DEF ToSet
<1>3. {s[Spot(P)[k]] : k \in 1..Cardinality(P)} \subseteq {s[i] : i \in P}
  BY <1>1
<1>4. ASSUME NEW i \in P PROVE s[i] \in {s[Spot(P)[k]] : k \in 1..Cardinality(P)}
  BY <1>1
<1> QED
  BY <1>2, <1>3, <1>4

LEMMA Least ==
  ASSUME NEW n \in Nat, NEW T \in SUBSET (1..n), NEW t \in T
  PROVE  \E x \in T : \A y \in T : x <= y
<1>1. /\ IsFiniteSet(T) /\ Cardinality(T) \in Nat
      /\ Spot(T) \in [1..Cardinality(T) -> T]
      /\ \A k, m \in 1..Cardinality(T) : k < m => Spot(T)[k] < Spot(T)[m]
      /\ \A i \in T : \E k \in 1..Cardinality(T) : Spot(T)[k] = i
  BY SpotFacts
<1>2. 1 \in 1..Cardinality(T)
  <2>1. \E k \in 1..Cardinality(T) : Spot(T)[k] = t
    BY <1>1
  <2> QED
    BY <1>1, <2>1
<1>3. Spot(T)[1] \in T /\ Spot(T)[1] \in Int
  <2>1. Spot(T)[1] \in T
    BY <1>1, <1>2
  <2>2. T \subseteq Int
    OBVIOUS
  <2> QED
    BY <2>1, <2>2
<1>4. ASSUME NEW y \in T PROVE Spot(T)[1] <= y
  <2>1. PICK k \in 1..Cardinality(T) : Spot(T)[k] = y
    BY <1>1
  <2>2. k = 1 \/ 1 < k
    BY <1>1
  <2>3. y \in Int
    OBVIOUS
  <2> QED
    BY <1>1, <1>2, <1>3, <2>1, <2>2, <2>3
<1> QED
  BY <1>3, <1>4

LEMMA ToSetFacts ==
  ASSUME NEW S, NEW s \in Seq(S)
  PROVE  /\ Len(s) \in Nat /\ DOMAIN s = 1..Len(s) /\ ToSet(s) \subseteq S
         /\ ToSet(s) = {s[i] : i \in 1..Len(s)} /\ s \in Seq(ToSet(s))
<1>1. Len(s) \in Nat /\ DOMAIN s = 1..Len(s) /\ s \in [1..Len(s) -> S]
  BY LenProperties
<1>2. ToSet(s) = {s[i] : i \in 1..Len(s)} /\ ToSet(s) \subseteq S
  BY <1>1 DEF ToSet
<1>3. s \in Seq(ToSet(s))
  <2>1. s = [i \in 1..Len(s) |-> s[i]]
    BY <1>1
  <2>2. [i \in 1..Len(s) |-> s[i]] \in Seq(ToSet(s))
    BY <1>1, <1>2, IsASeq
  <2> QED
    BY <2>1, <2>2
<1> QED
  BY <1>1, <1>2, <1>3

(* Keeping the first of equal entries keeps the set of entries.             *)
LEMMA FirstOnesSet ==
  ASSUME NEW S, NEW s \in Seq(S)
  PROVE  FirstOnes(s) \subseteq DOMAIN s /\ {s[i] : i \in FirstOnes(s)} = ToSet(s)
<1>1. Len(s) \in Nat /\ DOMAIN s = 1..Len(s) /\ ToSet(s) = {s[i] : i \in 1..Len(s)}
  BY ToSetFacts
<1>2. FirstOnes(s) \subseteq DOMAIN s
  BY DEF FirstOnes
<1>3. ASSUME NEW i \in 1..Len(s) PROVE \E j \in FirstOnes(s) : s[j] = s[i]
  <2> DEFINE T == {j \in 1..Len(s) : s[j] = s[i]}
  <2>1. T \in SUBSET (1..Len(s)) /\ i \in T
    OBVIOUS
  <2>2. PICK x \in T : \A y \in T : x <= y
    <3> HIDE DEF T
    <3> QED
      BY <1>1, <2>1, Least
  <2>3. x \in 1..Len(s) /\ s[x] = s[i]
    OBVIOUS
  <2>4. ASSUME NEW j \in 1..(x - 1) PROVE s[j] # s[x]
    <3>1. j \in 1..Len(s) /\ ~(x <= j)
      BY <1>1, <2>3
    <3> QED
      BY <2>2, <2>3, <3>1
  <2> QED
    BY <1>1, <2>3, <2>4 DEF FirstOnes
<1> QED
  BY <1>1, <1>2, <1>3

LEMMA ConcatSet ==
  ASSUME NEW S, NEW s \in Seq(S), NEW t \in Seq(S)
  PROVE  s \o t \in Seq(S) /\ ToSet(s \o t) = ToSet(s) \cup ToSet(t)
<1>1. /\ Len(s) \in Nat /\ Len(t) \in Nat
      /\ ToSet(s) = {s[i] : i \in 1..Len(s)} /\ ToSet(t) = {t[i] : i \in 1..Len(t)}
  BY ToSetFacts
<1>2. /\ s \o t \in Seq(S) /\ Len(s \o t) = Len(s) + Len(t)
      /\ \A i \in 1..(Len(s) + Len(t)) : (s \o t)[i] = IF i <= Len(s) THEN s[i] ELSE t[i - Len(s)]
  BY ConcatProperties
<1>3. ToSet(s \o t) = {(s \o t)[i] : i \in 1..(Len(s) + Len(t))}
  BY <1>2, ToSetFacts
<1>4. ToSet(s \o t) \subseteq ToSet(s) \cup ToSet(t)
  BY <1>1, <1>2, <1>3
<1>5. ASSUME NEW i \in 1..Len(s) PROVE s[i] \in ToSet(s \o t)
  BY <1>1, <1>2, <1>3
<1>6. ASSUME NEW i \in 1..Len(t) PROVE t[i] \in ToSet(s \o t)
  <2>1. /\ Len(s) + i \in 1..(Len(s) + Len(t)) /\ ~(Len(s) + i <= Len(s))
        /\ (Len(s) + i) - Len(s) = i
    BY <1>1
  <2>2. (s \o t)[Len(s) + i] = t[i]
    BY <1>2, <2>1
  <2> QED
    BY <1>3, <2>1, <2>2
<1> QED
  BY <1>1, <1>2, <1>4, <1>5, <1>6

-----------------------------------------------------------------------------
(* The channel lists.                                                       *)
(* normalize_channel_text and read_channels return the channels named.      *)
LEMMA NormalizedFacts ==
  ASSUME NEW text \in Seq(Lines)
  PROVE  /\ Normalized(text) \in Seq(Channels)
         /\ ToSet(Normalized(text)) = {ChannelOf[text[i]] : i \in DOMAIN text} \ {NoChannel}
<1> DEFINE named == [i \in DOMAIN text |-> ChannelOf[text[i]]]
           P == {i \in FirstOnes(named) : named[i] # NoChannel}
<1>1. Len(text) \in Nat /\ DOMAIN text = 1..Len(text) /\ \A i \in 1..Len(text) : text[i] \in Lines
  BY ToSetFacts, ElementOfSeq
<1>2. \A i \in 1..Len(text) : ChannelOf[text[i]] \in Channels \cup {NoChannel}
  BY <1>1, SettingsAssumption
<1>3. named \in Seq(Channels \cup {NoChannel})
  <2>1. [i \in 1..Len(text) |-> ChannelOf[text[i]]] \in Seq(Channels \cup {NoChannel})
    BY <1>1, <1>2, IsASeq
  <2> QED
    BY <1>1, <2>1
<1>4. DOMAIN named = DOMAIN text /\ \A i \in DOMAIN text : named[i] = ChannelOf[text[i]]
  OBVIOUS
<1>5. Normalized(text) = Keep(named, P)
  BY DEF Normalized
<1>6. ToSet(named) = {ChannelOf[text[i]] : i \in DOMAIN text}
  BY <1>4 DEF ToSet
<1> HIDE DEF named
<1>7. FirstOnes(named) \subseteq DOMAIN named /\ {named[i] : i \in FirstOnes(named)} = ToSet(named)
  BY <1>3, FirstOnesSet
<1>8. P \in SUBSET DOMAIN named
  BY <1>7
<1>9. {named[i] : i \in P} = ToSet(named) \ {NoChannel}
  BY <1>7
<1> HIDE DEF P
<1>10. Keep(named, P) \in Seq(Channels \cup {NoChannel}) /\ ToSet(Keep(named, P)) = ToSet(named) \ {NoChannel}
  BY <1>3, <1>8, <1>9, KeepFacts, KeepSet
<1>11. ToSet(named) \ {NoChannel} \subseteq Channels
  BY <1>3, ToSetFacts
<1>12. Keep(named, P) \in Seq(ToSet(Keep(named, P)))
  BY <1>10, ToSetFacts
<1> QED
  BY <1>5, <1>6, <1>10, <1>11, <1>12, SeqMonotonic

(* ... each once.                                                           *)
LEMMA NormalizedOnce ==
  ASSUME NEW text \in Seq(Lines)
  PROVE  \A i, j \in DOMAIN Normalized(text) : Normalized(text)[i] = Normalized(text)[j] => i = j
<1> DEFINE named == [i \in DOMAIN text |-> ChannelOf[text[i]]]
           P == {i \in FirstOnes(named) : named[i] # NoChannel}
<1>1. Len(text) \in Nat /\ DOMAIN text = 1..Len(text) /\ \A i \in 1..Len(text) : text[i] \in Lines
  BY ToSetFacts, ElementOfSeq
<1>2. \A i \in 1..Len(text) : ChannelOf[text[i]] \in Channels \cup {NoChannel}
  BY <1>1, SettingsAssumption
<1>3. named \in Seq(Channels \cup {NoChannel}) /\ DOMAIN named = 1..Len(text)
  <2>1. [i \in 1..Len(text) |-> ChannelOf[text[i]]] \in Seq(Channels \cup {NoChannel})
    BY <1>1, <1>2, IsASeq
  <2> QED
    BY <1>1, <2>1
<1>4. Normalized(text) = Keep(named, P)
  BY DEF Normalized
<1> HIDE DEF named
<1>5. P \in SUBSET DOMAIN named /\ \A i \in P : i \in 1..Len(text) /\ \A j \in 1..(i - 1) : named[j] # named[i]
  BY <1>3 DEF FirstOnes
<1> HIDE DEF P
<1>6. /\ DOMAIN Keep(named, P) = 1..Cardinality(P) /\ Cardinality(P) \in Nat
      /\ Spot(P) \in [1..Cardinality(P) -> P]
      /\ \A k \in 1..Cardinality(P) : Keep(named, P)[k] = named[Spot(P)[k]]
      /\ \A k, m \in 1..Cardinality(P) : k < m => Spot(P)[k] < Spot(P)[m]
  BY <1>3, <1>5, KeepFacts
<1>7. ASSUME NEW k \in 1..Cardinality(P), NEW m \in 1..Cardinality(P), k < m
      PROVE  Keep(named, P)[k] # Keep(named, P)[m]
  <2>1. Spot(P)[k] \in P /\ Spot(P)[m] \in P /\ Spot(P)[k] < Spot(P)[m]
    BY <1>6, <1>7
  <2>2. Spot(P)[k] \in 1..(Spot(P)[m] - 1)
    BY <1>1, <1>5, <2>1
  <2> QED
    BY <1>5, <1>6, <2>1, <2>2
<1>8. ASSUME NEW k \in 1..Cardinality(P), NEW m \in 1..Cardinality(P), Keep(named, P)[k] = Keep(named, P)[m]
      PROVE  k = m
  <2>1. ~(k < m) /\ ~(m < k)
    BY <1>7, <1>8
  <2> QED
    BY <1>6, <2>1
<1> QED
  BY <1>4, <1>6, <1>8

(* A list of names names the same channels when it is read again.           *)
LEMMA ChannelsAreLines ==
  ASSUME NEW s \in Seq(Channels)
  PROVE  s \in Seq(Lines) /\ Normalized(s) \in Seq(Channels) /\ ToSet(Normalized(s)) = ToSet(s)
<1>1. s \in Seq(Lines)
  BY SettingsAssumption, SeqMonotonic
<1>2. Len(s) \in Nat /\ DOMAIN s = 1..Len(s) /\ \A i \in DOMAIN s : s[i] \in Channels
  BY ToSetFacts, ElementOfSeq
<1>3. \A i \in DOMAIN s : ChannelOf[s[i]] = s[i] /\ s[i] # NoChannel
  BY <1>2, SettingsAssumption
<1>4. {ChannelOf[s[i]] : i \in DOMAIN s} \ {NoChannel} = ToSet(s)
  BY <1>3 DEF ToSet
<1> QED
  BY <1>1, <1>4, NormalizedFacts

LEMMA PartFacts ==
  ASSUME NEW S, NEW s \in Seq(S), NEW T
  PROVE  /\ Without(s, T) \in Seq(S) /\ ToSet(Without(s, T)) = ToSet(s) \ T
         /\ Within(s, T) \in Seq(S) /\ ToSet(Within(s, T)) = ToSet(s) \cap T
<1> DEFINE O == {i \in DOMAIN s : s[i] \notin T}
           I == {i \in DOMAIN s : s[i] \in T}
<1>1. O \in SUBSET DOMAIN s /\ I \in SUBSET DOMAIN s
  OBVIOUS
<1>2. Without(s, T) = Keep(s, O) /\ Within(s, T) = Keep(s, I)
  BY DEF Without, Within
<1>3. {s[i] : i \in O} = ToSet(s) \ T /\ {s[i] : i \in I} = ToSet(s) \cap T
  BY DEF ToSet
<1> HIDE DEF O, I
<1>4. Keep(s, O) \in Seq(S) /\ ToSet(Keep(s, O)) = {s[i] : i \in O}
  BY <1>1, KeepFacts, KeepSet
<1>5. Keep(s, I) \in Seq(S) /\ ToSet(Keep(s, I)) = {s[i] : i \in I}
  BY <1>1, KeepFacts, KeepSet
<1> QED
  BY <1>2, <1>3, <1>4, <1>5

(* merge_priority_channels keeps every channel of both lists.               *)
LEMMA MergeFacts ==
  ASSUME NEW S, NEW s \in Seq(S), NEW t \in Seq(S)
  PROVE  Merge(s, t) \in Seq(S) /\ ToSet(Merge(s, t)) = ToSet(s) \cup ToSet(t)
<1>1. s \o t \in Seq(S) /\ ToSet(s \o t) = ToSet(s) \cup ToSet(t)
  BY ConcatSet
<1>2. FirstOnes(s \o t) \in SUBSET DOMAIN (s \o t) /\ {(s \o t)[i] : i \in FirstOnes(s \o t)} = ToSet(s \o t)
  BY <1>1, FirstOnesSet
<1>3. Merge(s, t) = Keep(s \o t, FirstOnes(s \o t))
  BY DEF Merge
<1>4. /\ Keep(s \o t, FirstOnes(s \o t)) \in Seq(S)
      /\ ToSet(Keep(s \o t, FirstOnes(s \o t))) = {(s \o t)[i] : i \in FirstOnes(s \o t)}
  BY <1>1, <1>2, KeepFacts, KeepSet
<1> QED
  BY <1>1, <1>2, <1>3, <1>4

(* What priority_channel_lists makes of the two editors.                    *)
LEMMA ListsFacts ==
  ASSUME NEW w, w.p1 \in Seq(Lines), w.p2 \in Seq(Lines)
  PROVE  Lists(w).p1 \in Seq(Channels) /\ Lists(w).p2 \in Seq(Channels)
<1>1. Lists(w).p1 = Normalized(w.p1) /\ Lists(w).p2 = Without(Normalized(w.p2), ToSet(Normalized(w.p1)))
  BY DEF Lists
<1> QED
  BY <1>1, NormalizedFacts, PartFacts

-----------------------------------------------------------------------------
(* The lists of links.                                                      *)
(* Of each key one link is kept, and no key is lost.                        *)
LEMMA FirstOfEachFacts ==
  ASSUME NEW links \in Seq(Link)
  PROVE  /\ FirstOfEach(links) \in Seq(Link) /\ ToSet(FirstOfEach(links)) \subseteq ToSet(links)
         /\ Distinct(FirstOfEach(links)) /\ KeysOf(FirstOfEach(links)) = KeysOf(links)
         /\ Distinct(links) => Len(FirstOfEach(links)) = Len(links) /\ ToSet(FirstOfEach(links)) = ToSet(links)
<1> DEFINE n == Len(links)
           P == {i \in DOMAIN links : \A j \in 1..(i - 1) : Key(links[j]) # Key(links[i])}
           K == FirstOfEach(links)
<1>1. n \in Nat /\ DOMAIN links = 1..n
  BY ToSetFacts
<1>2. P \in SUBSET DOMAIN links /\ K = Keep(links, P)
  BY DEF FirstOfEach
<1>3. \A i \in P : i \in 1..n /\ \A j \in 1..(i - 1) : Key(links[j]) # Key(links[i])
  BY <1>1
<1>4. ASSUME NEW i \in 1..n PROVE \E j \in P : Key(links[j]) = Key(links[i])
  <2> DEFINE T == {j \in 1..n : Key(links[j]) = Key(links[i])}
  <2>1. T \in SUBSET (1..n) /\ i \in T
    OBVIOUS
  <2>2. PICK x \in T : \A y \in T : x <= y
    <3> HIDE DEF T
    <3> QED
      BY <1>1, <2>1, Least
  <2>3. x \in 1..n /\ Key(links[x]) = Key(links[i])
    OBVIOUS
  <2>4. ASSUME NEW j \in 1..(x - 1) PROVE Key(links[j]) # Key(links[x])
    <3>1. j \in 1..n /\ ~(x <= j)
      BY <1>1, <2>3
    <3> QED
      BY <2>2, <2>3, <3>1
  <2> QED
    BY <1>1, <2>3, <2>4
<1>5. Distinct(links) => P = 1..n
  <2> SUFFICES ASSUME Distinct(links) PROVE \A i \in 1..n : i \in P
    BY <1>1
  <2> TAKE i \in 1..n
  <2>1. \A j \in 1..(i - 1) : j \in 1..n /\ j # i
    BY <1>1
  <2> QED
    BY <1>1, <2>1 DEF Distinct
<1> HIDE DEF P, K, n
<1>6. /\ K \in Seq(Link) /\ DOMAIN K = 1..Cardinality(P) /\ Len(K) = Cardinality(P)
      /\ Spot(P) \in [1..Cardinality(P) -> P]
      /\ \A k \in 1..Cardinality(P) : K[k] = links[Spot(P)[k]]
      /\ \A k, m \in 1..Cardinality(P) : k < m => Spot(P)[k] < Spot(P)[m]
      /\ \A i \in P : \E k \in 1..Cardinality(P) : Spot(P)[k] = i
      /\ Cardinality(P) \in Nat
  BY <1>2, KeepFacts
<1>7. ToSet(K) = {links[i] : i \in P}
  BY <1>2, KeepSet
<1>8. ToSet(K) \subseteq ToSet(links)
  BY <1>2, <1>7 DEF ToSet
<1>9. ASSUME NEW i \in P, NEW j \in P, i < j PROVE Key(links[i]) # Key(links[j])
  <2>1. i \in 1..(j - 1)
    BY <1>1, <1>3, <1>9
  <2> QED
    BY <1>3, <2>1
<1>10. ASSUME NEW k \in 1..Cardinality(P), NEW m \in 1..Cardinality(P), k < m
       PROVE  Key(K[k]) # Key(K[m])
  <2>1. Spot(P)[k] \in P /\ Spot(P)[m] \in P /\ Spot(P)[k] < Spot(P)[m]
    BY <1>6, <1>10
  <2> QED
    BY <1>6, <1>9, <2>1
<1>11. Distinct(K)
  <2> SUFFICES ASSUME NEW k \in 1..Cardinality(P), NEW m \in 1..Cardinality(P), Key(K[k]) = Key(K[m])
               PROVE  k = m
    BY <1>6 DEF Distinct
  <2>1. ~(k < m) /\ ~(m < k)
    BY <1>10
  <2> QED
    BY <1>6, <2>1
<1>12. KeysOf(K) = KeysOf(links)
  <2>1. KeysOf(K) = {Key(links[Spot(P)[k]]) : k \in 1..Cardinality(P)}
    BY <1>6 DEF KeysOf
  <2>2. KeysOf(links) = {Key(links[i]) : i \in 1..n}
    BY <1>1 DEF KeysOf
  <2>3. {Key(links[Spot(P)[k]]) : k \in 1..Cardinality(P)} \subseteq {Key(links[i]) : i \in 1..n}
    BY <1>3, <1>6
  <2>4. ASSUME NEW i \in 1..n PROVE Key(links[i]) \in {Key(links[Spot(P)[k]]) : k \in 1..Cardinality(P)}
    <3>1. PICK j \in P : Key(links[j]) = Key(links[i])
      BY <1>4
    <3>2. PICK k \in 1..Cardinality(P) : Spot(P)[k] = j
      BY <1>6
    <3> QED
      BY <3>1, <3>2
  <2> QED
    BY <2>1, <2>2, <2>3, <2>4
<1>13. Distinct(links) => Len(K) = n /\ ToSet(K) = ToSet(links)
  <2>1. Cardinality(1..n) = n
    BY <1>1, FS_Interval
  <2>2. ToSet(links) = {links[i] : i \in 1..n}
    BY <1>1 DEF ToSet
  <2> QED
    BY <1>5, <1>6, <1>7, <2>1, <2>2
<1> QED
  BY <1>6, <1>8, <1>11, <1>12, <1>13 DEF K, n

LEMMA ReverseFacts ==
  ASSUME NEW S, NEW s \in Seq(S)
  PROVE  Reverse(s) \in Seq(S) /\ ToSet(Reverse(s)) \subseteq ToSet(s)
<1>1. Len(s) \in Nat /\ DOMAIN s = 1..Len(s) /\ \A i \in 1..Len(s) : s[i] \in S
  BY ToSetFacts, ElementOfSeq
<1>2. \A i \in 1..Len(s) : (Len(s) - i) + 1 \in 1..Len(s)
  BY <1>1
<1>3. Reverse(s) = [i \in 1..Len(s) |-> s[(Len(s) - i) + 1]]
  BY DEF Reverse
<1>4. [i \in 1..Len(s) |-> s[(Len(s) - i) + 1]] \in Seq(S)
  BY <1>1, <1>2, IsASeq
<1>5. ToSet(Reverse(s)) = {s[(Len(s) - i) + 1] : i \in 1..Len(s)}
  BY <1>3 DEF ToSet
<1> QED
  BY <1>1, <1>2, <1>3, <1>4, <1>5 DEF ToSet

LEMMA FirstsFacts ==
  ASSUME NEW S, NEW s \in Seq(S), NEW n \in Nat
  PROVE  Firsts(s, n) \in Seq(S) /\ Len(Firsts(s, n)) <= n /\ ToSet(Firsts(s, n)) \subseteq ToSet(s)
<1> DEFINE m == IF n < Len(s) THEN n ELSE Len(s)
<1>1. Len(s) \in Nat /\ DOMAIN s = 1..Len(s)
  BY ToSetFacts
<1>2. m \in Nat /\ m <= n /\ m <= Len(s)
  BY <1>1
<1>3. Firsts(s, n) = SubSeq(s, 1, m)
  BY DEF Firsts
<1> HIDE DEF m
<1>4. \A i \in 1..m : i \in 1..Len(s) /\ s[i] \in S
  BY <1>1, <1>2, ElementOfSeq
<1>5. /\ SubSeq(s, 1, m) \in Seq(S) /\ Len(SubSeq(s, 1, m)) = m
      /\ \A i \in 1..m : SubSeq(s, 1, m)[i] = s[i]
  <2>1. /\ SubSeq(s, 1, m) \in Seq(S)
        /\ Len(SubSeq(s, 1, m)) = IF 1 <= m THEN m - 1 + 1 ELSE 0
        /\ \A i \in 1..(m - 1 + 1) : SubSeq(s, 1, m)[i] = s[1 + i - 1]
    BY <1>2, <1>4, SubSeqProperties
  <2> QED
    BY <1>2, <2>1
<1>6. ToSet(SubSeq(s, 1, m)) = {SubSeq(s, 1, m)[i] : i \in 1..m}
  BY <1>5, ToSetFacts
<1>7. ToSet(SubSeq(s, 1, m)) \subseteq ToSet(s)
  BY <1>1, <1>4, <1>5, <1>6 DEF ToSet
<1> QED
  BY <1>2, <1>3, <1>5, <1>7

LEMMA ExtractFacts ==
  ASSUME NEW page \in Seq(Link)
  PROVE  Extract(page) \in Seq(Link) /\ ToSet(Extract(page)) \subseteq ToSet(page)
<1>1. ASSUME NEW g PROVE InGroup(page, g) \in Seq(Link) /\ ToSet(InGroup(page, g)) \subseteq ToSet(page)
  <2> DEFINE P == {i \in DOMAIN page : Group(page[i]) = g}
  <2>1. P \in SUBSET DOMAIN page /\ InGroup(page, g) = Keep(page, P)
    BY DEF InGroup
  <2> HIDE DEF P
  <2>2. Keep(page, P) \in Seq(Link) /\ ToSet(Keep(page, P)) = {page[i] : i \in P}
    BY <2>1, KeepFacts, KeepSet
  <2> QED
    BY <2>1, <2>2 DEF ToSet
<1> DEFINE s == InGroup(page, 1) \o InGroup(page, 2)
           t == s \o InGroup(page, 3)
<1>2. s \in Seq(Link) /\ ToSet(s) \subseteq ToSet(page)
  BY <1>1, ConcatSet
<1>3. t \in Seq(Link) /\ ToSet(t) \subseteq ToSet(page)
  <2> HIDE DEF s
  <2> QED
    BY <1>1, <1>2, ConcatSet
<1>4. Extract(page) = Reverse(FirstOfEach(t))
  BY DEF Extract
<1> HIDE DEF t
<1>5. FirstOfEach(t) \in Seq(Link) /\ ToSet(FirstOfEach(t)) \subseteq ToSet(t)
  BY <1>3, FirstOfEachFacts
<1>6. /\ Reverse(FirstOfEach(t)) \in Seq(Link)
      /\ ToSet(Reverse(FirstOfEach(t))) \subseteq ToSet(FirstOfEach(t))
  BY <1>5, ReverseFacts
<1> QED
  BY <1>3, <1>4, <1>5, <1>6

-----------------------------------------------------------------------------
(* The settings.                                                            *)
LEMMA ConstantTypes ==
  /\ Builtin \in Env /\ DefaultEnv \in Env /\ DefaultEnv.rename = Builtin.rename
  /\ NewWindow \in Windows /\ NewWindow.min <= NewWindow.attempts
  /\ DefaultChannels \in Seq(Lines)
<1>1. Builtin \in Env
  BY SettingsAssumption DEF Builtin, Env
<1>2. DefaultEnv \in Env /\ DefaultEnv.rename = Builtin.rename
  BY <1>1 DEF DefaultEnv, Builtin, Env
<1>3. NewWindow \in Windows /\ NewWindow.min <= NewWindow.attempts
  BY EmptySeq DEF NewWindow, Windows
<1> QED
  BY <1>1, <1>2, <1>3, SettingsAssumption

LEMMA SplitType ==
  ASSUME NEW w \in Windows, w.min <= w.attempts, NEW text \in Seq(Lines), NEW main
  PROVE  Split(w, text, main) \in Windows /\ Split(w, text, main).min <= Split(w, text, main).attempts
<1>1. Normalized(text) \in Seq(Channels)
  BY NormalizedFacts
<1>2. Within(Normalized(text), main) \in Seq(Lines) /\ Without(Normalized(text), main) \in Seq(Lines)
  BY <1>1, PartFacts, ChannelsAreLines
<1> DEFINE in == Within(Normalized(text), main)
           rest == Without(Normalized(text), main)
<1>3. Split(w, text, main) = [w EXCEPT !.p1 = in, !.p2 = rest]
  BY DEF Split
<1> HIDE DEF in, rest
<1>4. in \in Seq(Lines) /\ rest \in Seq(Lines)
  BY <1>2 DEF in, rest
<1> QED
  BY <1>3, <1>4 DEF Windows

LEMMA TidiedType ==
  ASSUME NEW w \in Windows, w.min <= w.attempts
  PROVE  /\ Tidied(w) \in Windows /\ Tidied(w).min <= Tidied(w).attempts
         /\ Tidied(w).p1 \in Seq(Channels) /\ Tidied(w).p2 \in Seq(Channels)
<1>1. w.p1 \in Seq(Lines) /\ w.p2 \in Seq(Lines)
  BY DEF Windows
<1>2. Lists(w).p1 \in Seq(Channels) /\ Lists(w).p2 \in Seq(Channels)
  BY <1>1, ListsFacts
<1>3. Lists(w).p1 \in Seq(Lines) /\ Lists(w).p2 \in Seq(Lines)
  BY <1>2, ChannelsAreLines
<1>4. Tidied(w) = [w EXCEPT !.p1 = Lists(w).p1, !.p2 = Lists(w).p2]
  BY DEF Tidied
<1> QED
  BY <1>2, <1>3, <1>4 DEF Windows

LEMMA EnsuredType ==
  ASSUME NEW f \in Homes
  PROVE  Ensured(f) \in Homes /\ Ensured(f).channels \in Seq(Lines)
BY ConstantTypes DEF Ensured, Homes, OrElse

LEMMA ReadType ==
  ASSUME NEW env \in {Absent, Empty} \cup Env, NEW other \in Env
  PROVE  Read(env, other) \in Env
BY DEF Read

LEMMA LoadedType ==
  ASSUME NEW e \in Env, NEW f \in Homes, f.channels \in Seq(Lines)
  PROVE  Loaded(NewWindow, e, f) \in Windows /\ Loaded(NewWindow, e, f).min <= Loaded(NewWindow, e, f).attempts
<1> DEFINE n == Clamped(e.attempts, 1, 8)
           m == Clamped(e.min, 1, n)
           s == Split(NewWindow, f.channels, e.main)
<1>1. /\ e.attempts \in Nat /\ e.min \in Nat
      /\ e.rename \in BOOLEAN /\ e.configs \in BOOLEAN /\ e.proxies \in BOOLEAN
  BY DEF Env
<1>2. n \in 1..8 /\ m \in 1..8 /\ m <= n
  BY <1>1 DEF Clamped
<1>3. s \in Windows
  BY ConstantTypes, SplitType
<1>4. Loaded(NewWindow, e, f) =
        [s EXCEPT !.attempts = n, !.min = m, !.rename = e.rename, !.configs = e.configs, !.proxies = e.proxies]
  BY DEF Loaded
<1> HIDE DEF n, m, s
<1> QED
  BY <1>1, <1>2, <1>3, <1>4 DEF Windows

LEMMA LaunchType == ASSUME SettingsInv, Launch PROVE SettingsInv'
<1>1. front' = front /\ portable' = portable /\ busy' = busy /\ up' = TRUE /\ launches' = launches + 1
  BY DEF Launch
<1>2. launches' \in Nat /\ launches' # 0
  BY <1>1 DEF SettingsInv
<1>3. CASE LaunchWindow
  <2>1. PICK f \in Copied(home) : eng' = Reloaded(f) /\ home' = Ensured(f)
    BY <1>3 DEF LaunchWindow
  <2>2. portable.channels \in {Absent} \cup Seq(Lines) /\ portable.env \in {Absent} \cup Env
    BY SettingsAssumption DEF SettingsInv
  <2>3. f \in Homes
    <3>1. home \in Homes
      BY DEF SettingsInv
    <3>2. PICK c \in {home.channels, OrElse(home.channels, portable.channels)},
               e \in {home.env, OrElse(home.env, portable.env)} :
            f = [home EXCEPT !.channels = c, !.env = e]
      BY <2>1 DEF Copied
    <3>3. c \in {Absent} \cup Seq(Lines) /\ e \in {Absent, Empty} \cup Env
      BY <2>2, <3>1, <3>2 DEF OrElse, Homes
    <3> QED
      BY <3>1, <3>2, <3>3 DEF Homes
  <2>4. home' \in Homes /\ home'.channels \in Seq(Lines)
    BY <2>1, <2>3, EnsuredType
  <2>5. Imported \in Env
    BY <2>2, ReadType, ConstantTypes DEF Imported
  <2>6. eng' \in Env
    <3>1. Read(f.env, Imported) \in Env /\ Imported.main \in SUBSET Channels
      BY <2>3, <2>5, ReadType DEF Homes, Env
    <3> QED
      BY <2>1, <3>1 DEF Reloaded, Env
  <2>7. win' \in Windows /\ win'.min <= win'.attempts
    BY <1>3, <2>4, <2>6, LoadedType DEF LaunchWindow
  <2> QED
    BY <1>1, <1>2, <2>4, <2>6, <2>7 DEF SettingsInv
<1>4. CASE LaunchCli
  <2>1. home' \in Homes /\ home'.channels \in Seq(Lines)
    BY <1>4, EnsuredType DEF LaunchCli, SettingsInv
  <2>2. eng' \in Env
    <3>1. home.env \in {Absent, Empty} \cup Env
      BY DEF SettingsInv, Homes
    <3> QED
      BY <1>4, <3>1, ReadType, ConstantTypes DEF LaunchCli
  <2> QED
    BY <1>1, <1>2, <1>4, <2>1, <2>2 DEF SettingsInv, LaunchCli
<1> QED
  BY <1>3, <1>4 DEF Launch

(* What the editors and boxes may be set to.                                *)
LEMMA EditType ==
  ASSUME SettingsInv, EditStep
  PROVE  SettingsInv' /\ UNCHANGED <<front, portable, up, eng, busy, launches>> /\ ~busy
<1>1. UNCHANGED <<front, portable, up, eng, busy, launches>> /\ ~busy
  BY DEF EditStep, Edit, Enter, SaveChannels, DedupeChannels, ImportChannels, LoadDefaultChannels,
         ChangeAttempts, ChangeMin, Toggle, ResetSettings
<1>2. win \in Windows /\ win.min <= win.attempts /\ home \in Homes
  BY DEF SettingsInv
<1> DEFINE Typed == win' \in Windows /\ win'.min <= win'.attempts
<1>3. CASE UNCHANGED home /\ Typed
  BY <1>1, <1>3 DEF SettingsInv
<1>4. ASSUME Enter PROVE UNCHANGED home /\ Typed
  <2>1. PICK box \in {"p1", "p2"}, text \in Entries : win' = [win EXCEPT ![box] = text]
    BY <1>4 DEF Enter
  <2>2. text \in Seq(Lines)
    BY SettingsAssumption
  <2>3. Typed
    BY <1>2, <2>1, <2>2 DEF Windows
  <2> QED
    BY <1>4, <2>3 DEF Enter
<1>5. CASE SaveChannels
  <2>1. Typed
    BY <1>2, <1>5, TidiedType DEF SaveChannels, Saved
  <2>2. Lists(win).p1 \o Lists(win).p2 \in Seq(Lines)
    BY <1>2, ListsFacts, ChannelsAreLines, ConcatSet DEF Windows
  <2>3. home' \in Homes /\ home'.channels \in Seq(Lines)
    BY <1>2, <1>5, <2>2 DEF SaveChannels, Saved, Homes
  <2> QED
    BY <1>1, <2>1, <2>3 DEF SettingsInv
<1>6. ASSUME DedupeChannels PROVE UNCHANGED home /\ Typed
  BY <1>2, <1>6, TidiedType DEF DedupeChannels
<1>7. ASSUME ImportChannels PROVE UNCHANGED home /\ Typed
  <2>1. PICK text \in Entries : win' = Tidied([win EXCEPT !.p2 = win.p2 \o text])
    BY <1>7 DEF ImportChannels
  <2>2. win.p2 \o text \in Seq(Lines)
    BY <1>2, SettingsAssumption, ConcatSet DEF Windows
  <2> DEFINE w == [win EXCEPT !.p2 = win.p2 \o text]
  <2>3. w \in Windows /\ w.min <= w.attempts
    BY <1>2, <2>2 DEF Windows
  <2> HIDE DEF w
  <2>4. Tidied(w) \in Windows /\ Tidied(w).min <= Tidied(w).attempts
    BY <2>3, TidiedType
  <2> QED
    BY <1>7, <2>1, <2>4 DEF ImportChannels, w
<1>8. ASSUME LoadDefaultChannels PROVE UNCHANGED home /\ Typed
  BY <1>2, <1>8, SplitType, ConstantTypes DEF LoadDefaultChannels
<1>9. ASSUME ChangeAttempts PROVE UNCHANGED home /\ Typed
  <2>1. PICK n \in AttemptChoices : win' = WithAttempts(win, n)
    BY <1>9 DEF ChangeAttempts
  <2>2. n \in 1..8
    BY SettingsAssumption
  <2>3. Typed
    <3> DEFINE m == IF win.min > n THEN n ELSE win.min
    <3>1. m \in 1..8 /\ m <= n
      BY <1>2, <2>2 DEF Windows
    <3>2. win' = [win EXCEPT !.attempts = n, !.min = m]
      BY <1>2, <2>1 DEF WithAttempts, Windows
    <3> HIDE DEF m
    <3> QED
      BY <1>2, <2>2, <3>1, <3>2 DEF Windows
  <2> QED
    BY <1>9, <2>3 DEF ChangeAttempts
<1>10. ASSUME ChangeMin PROVE UNCHANGED home /\ Typed
  <2>1. PICK n \in 1..win.attempts : win' = [win EXCEPT !.min = n]
    BY <1>10 DEF ChangeMin
  <2>2. n \in 1..8 /\ n <= win.attempts
    BY <1>2 DEF Windows
  <2>3. Typed
    BY <1>2, <2>1, <2>2 DEF Windows
  <2> QED
    BY <1>10, <2>3 DEF ChangeMin
<1>11. ASSUME Toggle PROVE UNCHANGED home /\ Typed
  <2>1. PICK box \in {"rename", "configs", "proxies", "prefilter"} : win' = [win EXCEPT ![box] = ~@]
    BY <1>11 DEF Toggle
  <2>2. win[box] \in BOOLEAN
    BY <1>2 DEF Windows
  <2>3. Typed
    BY <1>2, <2>1, <2>2 DEF Windows
  <2> QED
    BY <1>11, <2>3 DEF Toggle
<1>12. ASSUME ResetSettings PROVE UNCHANGED home /\ Typed
  <2>1. win' = [NewWindow EXCEPT !.p1 = win.p1, !.p2 = win.p2] /\ win.p1 \in Seq(Lines) /\ win.p2 \in Seq(Lines)
    BY <1>2, <1>12 DEF ResetSettings, Recommended, Windows
  <2>2. Typed
    <3>1. /\ [NewWindow EXCEPT !.p1 = win.p1, !.p2 = win.p2] \in Windows
          /\ [NewWindow EXCEPT !.p1 = win.p1, !.p2 = win.p2].attempts = NewWindow.attempts
          /\ [NewWindow EXCEPT !.p1 = win.p1, !.p2 = win.p2].min = NewWindow.min
      BY <2>1, ConstantTypes DEF Windows
    <3> QED
      BY <2>1, <3>1, ConstantTypes
  <2> QED
    BY <1>12, <2>2 DEF ResetSettings
<1> HIDE DEF Typed
<1> QED
  BY <1>1, <1>3, <1>4, <1>5, <1>6, <1>7, <1>8, <1>9, <1>10, <1>11, <1>12 DEF EditStep

LEMMA ChosenFacts ==
  ASSUME NEW w \in Windows
  PROVE  /\ Chosen(w) \in Env /\ Chosen(w).main = ToSet(Normalized(w.p1))
         /\ Chosen(w).min = w.min /\ Chosen(w).attempts = w.attempts
<1>1. w.p1 \in Seq(Lines) /\ w.attempts \in Nat /\ w.min \in Nat
      /\ w.rename \in BOOLEAN /\ w.configs \in BOOLEAN /\ w.proxies \in BOOLEAN
  BY DEF Windows
<1>2. ToSet(Normalized(w.p1)) \subseteq Channels
  BY <1>1, NormalizedFacts, ToSetFacts
<1> QED
  BY <1>1, <1>2 DEF Chosen, Env

LEMMA SavedFacts ==
  ASSUME SettingsInv, Saved
  PROVE  /\ home' \in Homes /\ home'.channels \in Seq(Lines) /\ home'.env = home.env
         /\ win' \in Windows /\ win'.min <= win'.attempts
         /\ win'.p1 \in Seq(Channels) /\ win'.p2 \in Seq(Channels)
<1>1. win \in Windows /\ win.min <= win.attempts /\ home \in Homes
  BY DEF SettingsInv
<1>2. Lists(win).p1 \o Lists(win).p2 \in Seq(Lines)
  BY <1>1, ListsFacts, ChannelsAreLines, ConcatSet DEF Windows
<1>3. home' = [home EXCEPT !.channels = Lists(win).p1 \o Lists(win).p2] /\ win' = Tidied(win)
  BY DEF Saved
<1> QED
  BY <1>1, <1>2, <1>3, TidiedType DEF Homes

LEMMA MergedType ==
  ASSUME NEW w \in Windows
  PROVE  /\ Merge(Normalized(w.p1), Normalized(w.p2)) \in Seq(Channels)
         /\ Merge(Normalized(w.p1), Normalized(w.p2)) \in Seq(Lines)
<1>1. Normalized(w.p1) \in Seq(Channels) /\ Normalized(w.p2) \in Seq(Channels)
  BY NormalizedFacts DEF Windows
<1> QED
  BY <1>1, MergeFacts, ChannelsAreLines

(* The steps of a run that touch no setting.                                *)
Quiet ==
  ReadChannels \/ (\E i \in asked : Fetch(i)) \/ WriteStage1 \/ ReadStage1 \/ BeginTests
  \/ (\E l \in todo : Record(l))

LEMMA QuietSteps ==
  ASSUME Quiet
  PROVE  /\ UNCHANGED settingsVars
         /\ phase \in Running \ {"apply"} /\ phase' \in Running \ {"apply", "list"}
BY DEF Quiet, ReadChannels, Fetch, WriteStage1, ReadStage1, BeginTests, Record, Running

LEMMA GoneFacts ==
  ASSUME SettingsInv, Exit \/ ExitInSave \/ ExitInApply
  PROVE  /\ up' = FALSE /\ busy' = FALSE /\ home' \in Homes
         /\ UNCHANGED <<front, portable, eng, win, edits, launches>>
         /\ front = "cli" /\ ~ExitInApply => home' = home
<1>1. home \in Homes /\ win \in Windows /\ front \in {"window", "cli"}
  BY DEF SettingsInv
<1>2. <<>> \in Seq(Lines)
  BY EmptySeq
<1>3. CASE Exit
  BY <1>1, <1>3 DEF Exit, Gone
<1>4. CASE ExitInSave
  <2>1. [home EXCEPT !.channels = <<>>] \in Homes
    BY <1>1, <1>2 DEF Homes
  <2> QED
    BY <1>1, <1>4, <2>1 DEF ExitInSave, Gone
<1>5. CASE ExitInApply
  <2>1. [home EXCEPT !.channels = <<>>] \in Homes
    BY <1>1, <1>2 DEF Homes
  <2>2. [channels |-> Merge(Normalized(win.p1), Normalized(win.p2)), env |-> Empty] \in Homes
    BY <1>1, MergedType DEF Homes
  <2>3. PICK f \in {[home EXCEPT !.channels = <<>>],
                    [channels |-> Merge(Normalized(win.p1), Normalized(win.p2)), env |-> Empty]} : Gone(f)
    BY <1>5 DEF ExitInApply
  <2> QED
    BY <1>5, <2>1, <2>2, <2>3 DEF Gone
<1> QED
  BY <1>3, <1>4, <1>5

LEMMA InitSettings == AllInit => SettingsInv /\ PhaseInv
<1> SUFFICES ASSUME AllInit PROVE SettingsInv /\ PhaseInv
  OBVIOUS
<1>1. portable \in Portables /\ portable \in [channels : {Absent} \cup Seq(Lines), env : {Absent} \cup Env]
  BY SettingsAssumption DEF AllInit, Init
<1>2. home \in Homes
  BY <1>1 DEF AllInit, Init, Homes
<1>3. SettingsInv
  BY <1>1, <1>2, ConstantTypes DEF AllInit, Init, SettingsInv
<1>4. PhaseInv
  BY DEF AllInit, Init, StagesInit, PhaseInv, Running
<1> QED
  BY <1>3, <1>4

(* Every step keeps the types of the settings.                              *)
LEMMA StepSettings == ASSUME SettingsInv, PhaseInv, [Next]_vars PROVE SettingsInv'
<1>1. CASE SettingsStep
  BY <1>1, LaunchType, EditType DEF SettingsStep
<1>2. CASE Start
  <2>1. Saved /\ UNCHANGED <<front, portable, up, eng, edits, launches>> /\ busy' = TRUE
    BY <1>2 DEF Start, StartWindow
  <2> QED
    BY <2>1, SavedFacts DEF SettingsInv
<1>3. CASE Prepare
  <2>1. eng' \in Env /\ home' \in Homes /\ home'.channels \in Seq(Lines)
    <3>1. win \in Windows
      BY DEF SettingsInv
    <3>2. eng' = Chosen(win) /\ home' = [channels |-> Merge(Normalized(win.p1), Normalized(win.p2)), env |-> Chosen(win)]
      BY <1>3 DEF Prepare, Apply
    <3> QED
      BY <3>1, <3>2, ChosenFacts, MergedType DEF Homes
  <2> QED
    BY <1>3, <2>1 DEF Prepare, SettingsInv
<1>4. CASE StartCli
  BY <1>4 DEF StartCli, SettingsInv
<1>5. CASE Quiet
  BY <1>5, QuietSteps DEF settingsVars, SettingsInv
<1>6. CASE FinishTests \/ Abort
  <2>1. Ended /\ up
    BY <1>6 DEF FinishTests, Abort, PhaseInv, Running
  <2>2. up' \in BOOLEAN
    BY <2>1 DEF Ended
  <2> QED
    BY <2>1, <2>2 DEF Ended, SettingsInv
<1>7. CASE Leave
  BY <1>7, GoneFacts DEF Leave, SettingsInv
<1>8. CASE UNCHANGED vars
  BY <1>8 DEF vars, settingsVars, SettingsInv
<1> QED
  BY <1>1, <1>2, <1>3, <1>4, <1>5, <1>6, <1>7, <1>8 DEF Next, Quiet

(* Every step keeps the phase, the program and the run in accord.           *)
LEMMA StepPhase == ASSUME SettingsInv, PhaseInv, [Next]_vars PROVE PhaseInv'
<1> DEFINE Names == front = "cli" /\ launches # 0 => eng.rename = Read(home.env, Builtin).rename
<1>1. CASE SettingsStep
  <2>1. CASE Launch
    <3>1. /\ UNCHANGED stageVars /\ front' = front /\ busy' = busy /\ ~up /\ up' = TRUE
          /\ launches' = launches + 1 /\ launches \in Nat
      BY <1>1, <2>1 DEF SettingsStep, Launch, SettingsInv, EditStep, Edit
    <3>2. Names'
      <4>1. CASE LaunchCli
        <5>1. eng'.rename = Read(home.env, Builtin).rename /\ home'.env = OrElse(home.env, DefaultEnv)
          BY <4>1 DEF LaunchCli, Ensured
        <5>2. Read(home'.env, Builtin).rename = Read(home.env, Builtin).rename
          BY <5>1, ConstantTypes DEF OrElse, Read
        <5> QED
          BY <5>1, <5>2
      <4>2. CASE LaunchWindow
        BY <3>1, <4>2 DEF LaunchWindow
      <4> QED
        BY <2>1, <4>1, <4>2 DEF Launch
    <3>3. launches' # 0
      BY <3>1
    <3> HIDE DEF Names
    <3> QED
      BY <3>1, <3>2, <3>3 DEF PhaseInv, stageVars, Names
  <2>2. CASE EditStep
    <3>1. UNCHANGED stageVars /\ UNCHANGED <<front, portable, up, eng, busy, launches>> /\ front = "window"
      BY <1>1, <2>2, EditType DEF SettingsStep, EditStep, Launch, Edit, Enter, SaveChannels, DedupeChannels,
         ImportChannels, LoadDefaultChannels, ChangeAttempts, ChangeMin, Toggle, ResetSettings
    <3> QED
      BY <3>1 DEF PhaseInv, stageVars
  <2> QED
    BY <1>1, <2>1, <2>2 DEF SettingsStep
<1>2. CASE Start
  <2>1. UNCHANGED <<front, portable, up, eng, edits, launches>> /\ busy' = TRUE /\ up
        /\ front = "window" /\ phase' = "apply" /\ launches # 0
    BY <1>2 DEF Start, StartWindow, CanStart, SettingsInv
  <2> QED
    BY <2>1 DEF PhaseInv, Running
<1>3. CASE Prepare
  <2>1. UNCHANGED <<front, up, busy, launches>> /\ phase = "apply" /\ phase' = "list"
    BY <1>3 DEF Prepare
  <2> QED
    BY <2>1 DEF PhaseInv, Running
<1>4. CASE StartCli
  <2>1. UNCHANGED <<front, up, launches, eng, home>> /\ busy' = TRUE /\ up /\ phase' = "list" /\ launches # 0
    BY <1>4 DEF StartCli, SettingsInv
  <2> QED
    BY <2>1 DEF PhaseInv, Running
<1>5. CASE Quiet
  <2>1. UNCHANGED <<front, up, launches, eng, home, busy>>
        /\ phase \in Running \ {"apply"} /\ phase' \in Running \ {"apply", "list"}
    BY <1>5, QuietSteps DEF settingsVars
  <2> QED
    BY <2>1 DEF PhaseInv, Running
<1>6. CASE FinishTests
  <2>1. Ended /\ phase = "test" /\ phase' = "done"
    BY <1>6 DEF FinishTests
  <2>2. launches # 0 /\ up
    BY <2>1 DEF PhaseInv, Running
  <2> QED
    BY <2>1, <2>2 DEF PhaseInv, Ended, Running
<1>7. CASE Abort
  <2>1. Ended /\ busy /\ front = "window" /\ phase' = "aborted"
    BY <1>7 DEF Abort
  <2>2. launches # 0 /\ up
    BY <2>1 DEF PhaseInv, Running
  <2> QED
    BY <2>1, <2>2 DEF PhaseInv, Ended, Running
<1>8. CASE Leave
  <2>1. /\ up' = FALSE /\ busy' = FALSE /\ UNCHANGED <<front, eng, launches>> /\ phase' = "idle"
    BY <1>8, GoneFacts DEF Leave
  <2>2. front = "cli" => home' = home
    <3>1. front = "cli" => ~(phase = "apply")
      BY DEF PhaseInv
    <3>2. CASE Exit
      BY <3>2 DEF Exit, Gone
    <3>3. CASE ExitInSave
      BY <3>3 DEF ExitInSave
    <3> QED
      BY <1>8, <3>1, <3>2, <3>3 DEF Leave
  <2> QED
    BY <2>1, <2>2 DEF PhaseInv, Running
<1>9. CASE UNCHANGED vars
  BY <1>9 DEF vars, settingsVars, stageVars, PhaseInv
<1> QED
  BY <1>1, <1>2, <1>3, <1>4, <1>5, <1>6, <1>7, <1>8, <1>9 DEF Next, Quiet

-----------------------------------------------------------------------------
(* The first stage.                                                         *)
LEMMA KeysFacts ==
  /\ Distinct(<<>>) /\ KeysOf(<<>>) = {}
  /\ \A S : \A s \in Seq(S) : KeysOf(s) = {Key(l) : l \in ToSet(s)}
BY DEF Distinct, KeysOf, ToSet

LEMMA LinksOfPage ==
  ASSUME NEW c \in Channels, NEW links \in Seq(Link), ToSet(links) \subseteq ToSet(PageOf[c])
  PROVE  KeysOf(links) \subseteq PageKeys
BY KeysFacts DEF PageKeys

(* What Fetch takes from the preview of a channel.                          *)
LEMMA FetchedFacts ==
  ASSUME SettingsInv, NEW c \in Channels
  PROVE  /\ Limit(c) \in Nat
         /\ Firsts(Extract(PageOf[c]), Limit(c)) \in Seq(Link)
         /\ Len(Firsts(Extract(PageOf[c]), Limit(c))) <= Limit(c)
         /\ KeysOf(Firsts(Extract(PageOf[c]), Limit(c))) \subseteq PageKeys
<1>1. PageOf[c] \in Seq(Link) /\ Limit(c) \in Nat
  BY StagesAssumption DEF Limit
<1>2. Extract(PageOf[c]) \in Seq(Link) /\ ToSet(Extract(PageOf[c])) \subseteq ToSet(PageOf[c])
  BY <1>1, ExtractFacts
<1> DEFINE s == Extract(PageOf[c])
<1>3. /\ Firsts(s, Limit(c)) \in Seq(Link) /\ Len(Firsts(s, Limit(c))) <= Limit(c)
      /\ ToSet(Firsts(s, Limit(c))) \subseteq ToSet(s)
  <2> HIDE DEF s
  <2>1. s \in Seq(Link)
    BY <1>2 DEF s
  <2> QED
    BY <1>1, <2>1, FirstsFacts
<1>4. KeysOf(Firsts(s, Limit(c))) \subseteq PageKeys
  BY <1>2, <1>3, LinksOfPage
<1> QED
  BY <1>1, <1>3, <1>4

LEMMA FetchCase ==
  ASSUME SettingsInv, ReadInv, NEW i \in asked, Fetch(i)
  PROVE  /\ i \in DOMAIN order /\ order[i] \in Channels
         /\ \E links \in Seq(Link) :
              /\ Len(links) <= Limit(order[i]) /\ KeysOf(links) \subseteq PageKeys
              /\ picked' = [picked EXCEPT ![order[i]] = links]
              /\ collected' = FirstOfEach(collected \o links)
<1> DEFINE c == order[i]
<1>0. i \in DOMAIN order /\ c \in Channels
  BY ElementOfSeq, LenProperties DEF ReadInv
<1>1. PICK answer \in Answers :
        LET links == IF Previewed(answer) THEN Firsts(Extract(PageOf[c]), Limit(c)) ELSE <<>>
        IN picked' = [picked EXCEPT ![c] = links] /\ Collect(links)
  BY DEF Fetch
<1> HIDE DEF c
<1>2. CASE Previewed(answer)
  <2> DEFINE links == Firsts(Extract(PageOf[c]), Limit(c))
  <2>1. picked' = [picked EXCEPT ![c] = links] /\ collected' = FirstOfEach(collected \o links)
    BY <1>1, <1>2 DEF Collect
  <2>2. links \in Seq(Link) /\ Len(links) <= Limit(c) /\ KeysOf(links) \subseteq PageKeys
    BY <1>0, FetchedFacts
  <2> HIDE DEF links
  <2> QED
    BY <1>0, <2>1, <2>2 DEF c
<1>3. CASE ~Previewed(answer)
  <2>1. picked' = [picked EXCEPT ![c] = <<>>] /\ collected' = FirstOfEach(collected \o <<>>)
    BY <1>1, <1>3 DEF Collect
  <2>2. <<>> \in Seq(Link) /\ Len(<<>>) <= Limit(c) /\ KeysOf(<<>>) \subseteq PageKeys
    BY <1>0, FetchedFacts, KeysFacts, EmptySeq
  <2> QED
    BY <1>0, <2>1, <2>2 DEF c
<1> QED
  BY <1>2, <1>3

(* Every step keeps the channels of the run distinct and the count of reads. *)
LEMMA ClearedReads ==
  ASSUME Cleared PROVE ReadInv'
<1>1. order' = <<>> /\ asked' = {} /\ reads' = [c \in Channels |-> 0]
  BY DEF Cleared
<1> QED
  BY <1>1, EmptySeq DEF ReadInv, Read1

LEMMA StepRead == ASSUME SettingsInv, PhaseInv, ReadInv, [Next]_vars PROVE ReadInv'
<1>1. CASE SettingsStep \/ UNCHANGED vars
  BY <1>1 DEF SettingsStep, vars, stageVars, ReadInv, Read1
<1>2. CASE Start \/ StartCli \/ Leave
  BY <1>2, ClearedReads DEF Start, StartCli, Leave
<1>3. CASE Prepare
  <2>1. phase = "apply" /\ phase' = "list" /\ UNCHANGED <<order, asked, reads>>
    BY <1>3 DEF Prepare
  <2> QED
    BY <2>1 DEF ReadInv, Read1
<1>4. CASE ReadChannels
  <2>1. /\ phase = "list" /\ phase' = "fetch"
        /\ order' = Normalized(home.channels) /\ asked' = DOMAIN order' /\ reads' = reads
    BY <1>4 DEF ReadChannels
  <2>2. home.channels \in Seq(Lines)
    BY <2>1 DEF PhaseInv, SettingsInv, Running
  <2>3. order' \in Seq(Channels) /\ \A i, j \in DOMAIN order' : order'[i] = order'[j] => i = j
    BY <2>1, <2>2, NormalizedFacts, NormalizedOnce
  <2>4. \A c \in Channels : reads[c] = 0
    BY <2>1 DEF ReadInv, Read1
  <2>5. \A c \in Channels : ~Read1(c)'
    BY <2>1 DEF Read1
  <2>6. reads' \in [Channels -> Nat]
    BY <2>1 DEF ReadInv
  <2> QED
    BY <2>1, <2>3, <2>4, <2>5, <2>6 DEF ReadInv
<1>5. ASSUME NEW i \in asked, Fetch(i) PROVE ReadInv'
  <2>1. /\ phase = "fetch" /\ phase' = phase /\ order' = order
        /\ asked' = asked \ {i} /\ reads' = [reads EXCEPT ![order[i]] = @ + 1]
    BY <1>5 DEF Fetch
  <2>2. i \in DOMAIN order /\ order[i] \in Channels
    BY <1>5, FetchCase
  <2>3. ~Read1(order[i]) /\ reads[order[i]] = 0
    BY <2>2 DEF ReadInv, Read1
  <2>4. Read1(order[i])' /\ \A c \in Channels : c # order[i] => (Read1(c)' <=> Read1(c))
    BY <2>1, <2>2 DEF Read1
  <2>5. reads' \in [Channels -> Nat] /\ \A c \in Channels : reads'[c] = IF c = order[i] THEN 1 ELSE reads[c]
    BY <2>1, <2>2, <2>3 DEF ReadInv
  <2>6. \A c \in Channels : reads'[c] = IF Read1(c)' THEN 1 ELSE 0
    <3> TAKE c \in Channels
    <3>1. reads[c] = IF Read1(c) THEN 1 ELSE 0
      BY DEF ReadInv
    <3>2. CASE c = order[i]
      <4>1. Read1(c)' /\ reads'[c] = 1
        BY <2>1, <2>2, <2>5, <3>2 DEF Read1
      <4> QED
        BY <4>1
    <3>3. CASE c # order[i]
      <4>1. (Read1(c)' <=> Read1(c)) /\ reads'[c] = reads[c]
        BY <2>1, <2>2, <2>5, <3>3 DEF Read1
      <4> QED
        BY <3>1, <4>1
    <3> QED
      BY <3>2, <3>3
  <2> QED
    BY <2>1, <2>5, <2>6 DEF ReadInv
<1>6. CASE WriteStage1
  <2>1. asked = {} /\ phase' = "ask" /\ UNCHANGED <<order, asked, reads>>
    BY <1>6 DEF WriteStage1
  <2> QED
    BY <2>1 DEF ReadInv, Read1
<1>7. CASE ReadStage1 \/ BeginTests \/ FinishTests \/ \E l \in todo : Record(l)
  <2>1. /\ phase \in {"ask", "sort", "test"} /\ phase' \in {"sort", "test", "done"}
        /\ UNCHANGED <<order, asked, reads>>
    BY <1>7 DEF ReadStage1, BeginTests, FinishTests, Record
  <2> QED
    BY <2>1 DEF ReadInv, Read1
<1>8. CASE Abort
  <2>1. phase' = "aborted" /\ UNCHANGED <<order, asked, reads>>
    BY <1>8 DEF Abort
  <2> QED
    BY <2>1 DEF ReadInv, Read1
<1> QED
  BY <1>1, <1>2, <1>3, <1>4, <1>5, <1>6, <1>7, <1>8 DEF Next

(* Every step keeps the ranks the window shows.                             *)
LEMMA StepRank == ASSUME SettingsInv, PhaseInv, RankInv, ReadInv, ListInv, [Next]_vars PROVE RankInv'
<1> SUFFICES ASSUME front' = "window" PROVE RankInv'
  BY DEF RankInv
<1>0. win \in Windows /\ win.min <= win.attempts
  BY DEF SettingsInv
<1>1. CASE SettingsStep
  <2>1. phase' = phase /\ ~busy
    BY <1>1, EditType DEF SettingsStep, stageVars, Launch, PhaseInv
  <2> QED
    BY <2>1 DEF PhaseInv, RankInv, Running
<1>2. CASE Start
  <2>1. Saved /\ phase' = "apply"
    BY <1>2 DEF Start, StartWindow
  <2> QED
    BY <2>1, SavedFacts DEF RankInv, Running
<1>3. CASE Prepare
  <2>1. /\ phase = "apply" /\ phase' = "list" /\ win' = win /\ front = "window"
        /\ eng' = Chosen(win) /\ home' = [channels |-> Merge(Normalized(win.p1), Normalized(win.p2)), env |-> Chosen(win)]
    BY <1>3 DEF Prepare, Apply
  <2>2. win.p1 \in Seq(Channels) /\ win.p2 \in Seq(Channels)
    BY <2>1 DEF RankInv, Running
  <2>3. /\ Normalized(win.p1) \in Seq(Channels) /\ ToSet(Normalized(win.p1)) = ToSet(win.p1)
        /\ Normalized(win.p2) \in Seq(Channels) /\ ToSet(Normalized(win.p2)) = ToSet(win.p2)
    BY <2>2, ChannelsAreLines
  <2> DEFINE merged == Merge(Normalized(win.p1), Normalized(win.p2))
  <2>4. merged \in Seq(Channels) /\ ToSet(merged) = Shown
    BY <2>3, MergeFacts DEF Shown
  <2>5. home'.channels = merged
    BY <2>1
  <2> HIDE DEF merged
  <2>6. ToSet(Normalized(home'.channels)) = Shown
    BY <2>4, <2>5, ChannelsAreLines
  <2>7. eng' = Chosen(win)'
    BY <2>1 DEF Chosen
  <2> QED
    BY <2>1, <2>2, <2>6, <2>7 DEF RankInv, Running, Shown
<1>4. CASE StartCli
  BY <1>4 DEF StartCli
<1>5. CASE ReadChannels
  <2>1. /\ phase = "list" /\ phase' = "fetch" /\ order' = Normalized(home.channels)
        /\ UNCHANGED <<win, eng, picked, front>>
    BY <1>5 DEF ReadChannels, settingsVars
  <2>2. \A c \in Channels : Len(picked[c]) = 0
    BY <2>1, EmptySeq DEF ListInv
  <2>3. MainLimit \in Nat /\ PerLimit \in Nat
    BY StagesAssumption
  <2>4. Chosen(win)' = Chosen(win)
    BY <2>1 DEF Chosen
  <2> QED
    BY <2>1, <2>2, <2>3, <2>4 DEF RankInv, Running, Shown
<1>6. ASSUME NEW i \in asked, Fetch(i) PROVE RankInv'
  <2> DEFINE c == order[i]
  <2>1. phase = "fetch" /\ phase' = phase /\ UNCHANGED <<win, eng, front, order>>
    BY <1>6 DEF Fetch, settingsVars
  <2>2. i \in DOMAIN order /\ c \in Channels
    BY <1>6, FetchCase
  <2>3. PICK links \in Seq(Link) : Len(links) <= Limit(c) /\ picked' = [picked EXCEPT ![c] = links]
    BY <1>6, FetchCase
  <2>4. c \in Shown /\ eng = Chosen(win) /\ win.p1 \in Seq(Channels)
    BY <2>1, <2>2 DEF RankInv, Running, ToSet
  <2>5. eng.main = ToSet(win.p1)
    BY <1>0, <2>4, ChosenFacts, ChannelsAreLines
  <2>6. Limit(c) = IF c \in ToSet(win.p1) THEN MainLimit ELSE IF c \in ToSet(win.p2) THEN PerLimit ELSE 0
    BY <2>4, <2>5 DEF Limit, Shown
  <2>7. \A d \in Channels : picked'[d] = IF d = c THEN links ELSE picked[d]
    BY <2>3 DEF ListInv
  <2>8. Chosen(win)' = Chosen(win)
    BY <2>1 DEF Chosen
  <2> HIDE DEF c
  <2> QED
    BY <2>1, <2>3, <2>6, <2>7, <2>8 DEF RankInv, Running, Shown
<1>7. CASE WriteStage1 \/ ReadStage1 \/ BeginTests \/ \E l \in todo : Record(l)
  <2>1. /\ phase \in {"fetch", "ask", "sort", "test"} /\ phase' \in {"fetch", "ask", "sort", "test"}
        /\ UNCHANGED <<win, eng, front, order, picked>>
    BY <1>7 DEF WriteStage1, ReadStage1, BeginTests, Record, settingsVars
  <2>2. Chosen(win)' = Chosen(win)
    BY <2>1 DEF Chosen
  <2> QED
    BY <2>1, <2>2 DEF RankInv, Running, Shown
<1>8. CASE FinishTests \/ Abort \/ Leave
  BY <1>8 DEF FinishTests, Abort, Leave, RankInv, Running
<1>9. CASE UNCHANGED vars
  BY <1>9 DEF vars, settingsVars, stageVars, RankInv, Shown, Chosen
<1> QED
  BY <1>1, <1>2, <1>3, <1>4, <1>5, <1>6, <1>7, <1>8, <1>9 DEF Next

LEMMA ClearedLists ==
  ASSUME Cleared, stage1' = Absent \/ stage1' \in Seq(Link), phase' \in {"idle", "apply", "list"}
  PROVE  ListInv'
BY KeysFacts, EmptySeq DEF Cleared, ListInv

(* Every step keeps the lists of links.                                     *)
LEMMA StepList == ASSUME SettingsInv, PhaseInv, ReadInv, ListInv, [Next]_vars PROVE ListInv'
<1>1. CASE SettingsStep \/ UNCHANGED vars
  BY <1>1 DEF SettingsStep, vars, stageVars, ListInv
<1>2. CASE Start \/ StartCli \/ Leave
  <2>1. Cleared /\ phase' \in {"idle", "apply", "list"} /\ (stage1' = Absent \/ stage1' = stage1)
    BY <1>2 DEF Start, StartCli, Leave
  <2> QED
    BY <2>1, ClearedLists DEF ListInv
<1>3. CASE Prepare
  <2>1. /\ phase = "apply" /\ phase' = "list" /\ stage1' = Absent
        /\ UNCHANGED <<picked, collected, loaded>>
    BY <1>3 DEF Prepare
  <2> QED
    BY <2>1 DEF ListInv
<1>4. CASE ReadChannels
  <2>1. /\ phase = "list" /\ phase' = "fetch"
        /\ UNCHANGED <<stage1, picked, collected, loaded>>
    BY <1>4 DEF ReadChannels
  <2> QED
    BY <2>1 DEF ListInv
<1>5. ASSUME NEW i \in asked, Fetch(i) PROVE ListInv'
  <2> DEFINE c == order[i]
  <2>1. /\ phase = "fetch" /\ phase' = phase /\ UNCHANGED <<stage1, loaded>> /\ c \in Channels
    BY <1>5, FetchCase DEF Fetch
  <2>2. PICK links \in Seq(Link) :
          /\ KeysOf(links) \subseteq PageKeys
          /\ picked' = [picked EXCEPT ![c] = links]
          /\ collected' = FirstOfEach(collected \o links)
    BY <1>5, FetchCase
  <2> HIDE DEF c
  <2>3. collected \in Seq(Link) /\ picked \in [Channels -> Seq(Link)]
    BY DEF ListInv
  <2>4. collected \o links \in Seq(Link) /\ ToSet(collected \o links) = ToSet(collected) \cup ToSet(links)
    BY <2>3, ConcatSet
  <2>5. KeysOf(collected \o links) = KeysOf(collected) \cup KeysOf(links)
    <3>1. /\ KeysOf(collected \o links) = {Key(l) : l \in ToSet(collected \o links)}
          /\ KeysOf(collected) = {Key(l) : l \in ToSet(collected)}
          /\ KeysOf(links) = {Key(l) : l \in ToSet(links)}
      BY <2>3, <2>4, KeysFacts
    <3> QED
      BY <2>4, <3>1
  <2>6. /\ collected' \in Seq(Link) /\ Distinct(collected')
        /\ KeysOf(collected') = KeysOf(collected) \cup KeysOf(links)
    BY <2>2, <2>4, <2>5, FirstOfEachFacts
  <2>7. picked' \in [Channels -> Seq(Link)] /\ \A d \in Channels : picked'[d] = IF d = c THEN links ELSE picked[d]
    BY <2>2, <2>3
  <2>8. \A d \in Channels : KeysOf(picked'[d]) \subseteq KeysOf(collected') /\ KeysOf(picked'[d]) \subseteq PageKeys
    BY <2>2, <2>6, <2>7 DEF ListInv
  <2>9. Distinct(collected)' /\ KeysOf(collected)' = KeysOf(collected')
    BY <2>6 DEF Distinct, KeysOf
  <2>10. \A d \in Channels : (KeysOf(picked[d]))' = KeysOf(picked'[d])
    BY DEF KeysOf
  <2> QED
    BY <2>1, <2>2, <2>6, <2>7, <2>8, <2>9, <2>10 DEF ListInv
<1>6. CASE WriteStage1
  <2>1. /\ phase = "fetch" /\ phase' = "ask" /\ stage1' = collected
        /\ UNCHANGED <<picked, collected, loaded>>
    BY <1>6 DEF WriteStage1
  <2> QED
    BY <2>1 DEF ListInv
<1>7. CASE ReadStage1
  <2>1. /\ phase = "ask" /\ phase' = "sort" /\ loaded' = FirstOfEach(stage1)
        /\ UNCHANGED <<picked, collected, stage1>>
    BY <1>7 DEF ReadStage1
  <2>2. stage1 = collected /\ collected \in Seq(Link) /\ Distinct(collected) /\ KeysOf(collected) \subseteq PageKeys
    BY <2>1 DEF ListInv
  <2>3. /\ loaded' \in Seq(Link) /\ Distinct(loaded') /\ KeysOf(loaded') = KeysOf(collected)
        /\ Len(loaded') = Len(stage1) /\ ToSet(loaded') = ToSet(stage1)
    BY <2>1, <2>2, FirstOfEachFacts
  <2>4. Distinct(loaded)' /\ KeysOf(loaded)' = KeysOf(loaded')
    BY <2>3 DEF Distinct, KeysOf
  <2> QED
    BY <2>1, <2>2, <2>3, <2>4 DEF ListInv
<1>8. CASE BeginTests \/ FinishTests \/ \E l \in todo : Record(l)
  <2>1. /\ phase \in {"sort", "test"} /\ phase' \in {"test", "done"}
        /\ UNCHANGED <<picked, collected, loaded, stage1>>
    BY <1>8 DEF BeginTests, FinishTests, Record
  <2> QED
    BY <2>1 DEF ListInv
<1>9. CASE Abort
  <2>1. /\ phase' = "aborted" /\ UNCHANGED <<picked, collected, loaded>>
        /\ stage1' = IF phase = "fetch" THEN collected ELSE stage1
    BY <1>9 DEF Abort
  <2> QED
    BY <2>1 DEF ListInv
<1> QED
  BY <1>1, <1>2, <1>3, <1>4, <1>5, <1>6, <1>7, <1>8, <1>9 DEF Next

LEMMA InitLists == AllInit => RankInv /\ ReadInv /\ ListInv /\ TestInv
<1> SUFFICES ASSUME AllInit PROVE RankInv /\ ReadInv /\ ListInv /\ TestInv
  OBVIOUS
<1>1. StagesInit
  BY DEF AllInit
<1>2. RankInv
  BY <1>1 DEF StagesInit, RankInv, Running
<1>3. ListInv
  BY <1>1, KeysFacts, EmptySeq DEF StagesInit, ListInv
<1>4. TestInv
  BY <1>1, EmptySeq DEF StagesInit, TestInv, Links
<1>5. ReadInv
  BY <1>1, EmptySeq DEF StagesInit, ReadInv, Read1
<1> QED
  BY <1>2, <1>3, <1>4, <1>5

-----------------------------------------------------------------------------
(* The second stage.                                                        *)
LEMMA ImageSize ==
  ASSUME NEW P, IsFiniteSet(P), NEW f, DOMAIN f = P,
         \A i, j \in P : f[i] = f[j] => i = j
  PROVE  IsFiniteSet({f[i] : i \in P}) /\ Cardinality({f[i] : i \in P}) = Cardinality(P)
<1> DEFINE T == {f[i] : i \in P}
           g == [i \in P |-> f[i]]
<1>1. g \in Bijection(P, T)
  BY DEF Bijection, Injection, Surjection, IsInjective
<1>2. ExistsBijection(P, T)
  BY <1>1 DEF ExistsBijection
<1> HIDE DEF T
<1> QED
  BY <1>2, FS_Bijection DEF T

LEMMA ListFinite ==
  ASSUME NEW S, NEW s \in Seq(S)
  PROVE  IsFiniteSet(ToSet(s)) /\ IsFiniteSet(DOMAIN s) /\ Cardinality(DOMAIN s) = Len(s)
<1>1. Len(s) \in Nat /\ DOMAIN s = 1..Len(s) /\ ToSet(s) = {s[i] : i \in 1..Len(s)}
  BY ToSetFacts
<1>2. IsFiniteSet(1..Len(s)) /\ Cardinality(1..Len(s)) = Len(s)
  BY <1>1, FS_Interval
<1> DEFINE T == {s[i] : i \in 1..Len(s)}
           g == [i \in 1..Len(s) |-> s[i]]
<1>3. g \in Surjection(1..Len(s), T)
  BY DEF Surjection
<1> HIDE DEF T, g
<1>4. IsFiniteSet(T)
  BY <1>2, <1>3, FS_Surjection
<1> QED
  BY <1>1, <1>2, <1>4 DEF T

(* What tcp_prefilter rejects, in an order of its own.                      *)
LEMMA DeadFacts ==
  ASSUME NEW S \in SUBSET Link, IsFiniteSet(S)
  PROVE  /\ Dead(S) \in Seq(Results) /\ Links(Dead(S)) = S
         /\ \A i, j \in DOMAIN Dead(S) : Dead(S)[i].link = Dead(S)[j].link => i = j
         /\ \A i \in DOMAIN Dead(S) : ~Dead(S)[i].ok
<1> DEFINE n == Cardinality(S)
           q == SetToSeq(S)
<1>1. n \in Nat /\ ExistsBijection(1..n, S)
  BY FS_CardinalityType
<1>2. \E f \in [1..n -> S] : IsInjective(f)
  BY <1>1 DEF ExistsBijection, Bijection, Injection
<1>3. q \in [1..n -> S] /\ IsInjective(q)
  BY <1>2 DEF SetToSeq
<1>4. \A i, j \in 1..n : q[i] = q[j] => i = j
  BY <1>3 DEF IsInjective
<1>5. q \in Surjection(1..n, S)
  <2>1. q \in Injection(1..n, S)
    BY <1>3 DEF Injection
  <2>2. Cardinality(1..n) = n
    BY <1>1, FS_Interval
  <2> HIDE DEF q
  <2> QED
    BY <2>1, <2>2, FS_Injection
<1>6. {q[i] : i \in 1..n} = S
  BY <1>3, <1>5 DEF Surjection
<1>7. Dead(S) = [i \in 1..n |-> Result(q[i], 0, TRUE)]
  BY DEF Dead
<1> HIDE DEF q, n
<1>8. \A i \in 1..n : /\ Result(q[i], 0, TRUE) \in Results /\ Result(q[i], 0, TRUE).link = q[i]
                      /\ ~Result(q[i], 0, TRUE).ok
  BY <1>3 DEF Result, Results
<1> DEFINE d == [i \in 1..n |-> Result(q[i], 0, TRUE)]
<1>9. d \in Seq(Results)
  <2>1. d \in [1..n -> Results]
    BY <1>8
  <2> HIDE DEF d
  <2> QED
    BY <1>1, <2>1, SeqDef
<1>10. DOMAIN Dead(S) = 1..n /\ \A i \in 1..n : Dead(S)[i] = Result(q[i], 0, TRUE)
  BY <1>7
<1>11. \A i \in 1..n : Dead(S)[i].link = q[i] /\ ~Dead(S)[i].ok
  BY <1>8, <1>10
<1>12. Links(Dead(S)) = {q[i] : i \in 1..n}
  BY <1>10, <1>11 DEF Links
<1>13. Dead(S) \in Seq(Results)
  BY <1>7, <1>9
<1> QED
  BY <1>4, <1>6, <1>10, <1>11, <1>12, <1>13

LEMMA AppendFacts ==
  ASSUME NEW rs \in Seq(Results), NEW r \in Results
  PROVE  /\ Append(rs, r) \in Seq(Results) /\ Len(Append(rs, r)) = Len(rs) + 1
         /\ Links(Append(rs, r)) = Links(rs) \cup {r.link}
         /\ \A i \in 1..Len(rs) : Append(rs, r)[i] = rs[i]
         /\ Append(rs, r)[Len(rs) + 1] = r
         /\ Len(rs) \in Nat /\ DOMAIN rs = 1..Len(rs) /\ DOMAIN Append(rs, r) = 1..(Len(rs) + 1)
<1>1. /\ Append(rs, r) \in Seq(Results) /\ Len(Append(rs, r)) = Len(rs) + 1
      /\ \A i \in 1..Len(rs) : Append(rs, r)[i] = rs[i]
      /\ Append(rs, r)[Len(rs) + 1] = r
  BY AppendProperties
<1>2. Len(rs) \in Nat /\ DOMAIN rs = 1..Len(rs) /\ DOMAIN Append(rs, r) = 1..(Len(rs) + 1)
  BY <1>1, LenProperties
<1>3. Links(Append(rs, r)) = {Append(rs, r)[i].link : i \in 1..(Len(rs) + 1)} /\ Links(rs) = {rs[i].link : i \in 1..Len(rs)}
  BY <1>2 DEF Links
<1>4. \A i \in 1..(Len(rs) + 1) : i \in 1..Len(rs) \/ i = Len(rs) + 1
  BY <1>2
<1>5. Links(Append(rs, r)) \subseteq Links(rs) \cup {r.link}
  BY <1>1, <1>3, <1>4
<1>6. Links(rs) \cup {r.link} \subseteq Links(Append(rs, r))
  <2>1. \A i \in 1..Len(rs) : i \in 1..(Len(rs) + 1)
    BY <1>2
  <2>2. Len(rs) + 1 \in 1..(Len(rs) + 1)
    BY <1>2
  <2> QED
    BY <1>1, <1>3, <2>1, <2>2
<1> QED
  BY <1>1, <1>2, <1>5, <1>6

(* Every step keeps every link in one place.                                *)
LEMMA StepTest == ASSUME SettingsInv, PhaseInv, ListInv, TestInv, [Next]_vars PROVE TestInv'
<1>0. Parsed \subseteq ToSet(loaded) /\ ToSet(loaded) \subseteq Link /\ IsFiniteSet(ToSet(loaded))
  BY ToSetFacts, ListFinite DEF Parsed, ListInv
<1> DEFINE Same == UNCHANGED <<loaded, todo, skipped, foreign, results>>
<1> DEFINE Stays == phase' = phase \/ {phase, phase'} \cap {"test", "done", "aborted"} = {} \/ phase' = "aborted"
<1>1. CASE Same /\ Stays
  <2>1. (Parsed)' = Parsed /\ (Links(results))' = Links(results) /\ ToSet(loaded)' = ToSet(loaded)
    BY <1>1 DEF Parsed, Links
  <2>2. phase' \in {"test", "done"} => phase \in {"test", "done"}
    BY <1>1
  <2>3. phase' \notin {"test", "done", "aborted"} => phase \notin {"test", "done", "aborted"}
    BY <1>1
  <2> QED
    BY <1>1, <2>1, <2>2, <2>3 DEF TestInv
<1>2. CASE SettingsStep \/ UNCHANGED vars
  BY <1>1, <1>2 DEF SettingsStep, vars, stageVars
<1>3. CASE Start \/ StartCli \/ Leave
  <2>1. Cleared /\ phase' \in {"idle", "apply", "list"}
    BY <1>3 DEF Start, StartCli, Leave
  <2> QED
    BY <2>1, EmptySeq DEF Cleared, TestInv, Links
<1>4. CASE Prepare \/ ReadChannels \/ WriteStage1 \/ (\E i \in asked : Fetch(i)) \/ Abort
  <2>1. Same /\ Stays
    BY <1>4 DEF Prepare, ReadChannels, WriteStage1, Fetch, Abort
  <2> HIDE DEF Same, Stays
  <2> QED
    BY <1>1, <2>1
<1>5. CASE ReadStage1
  <2>1. phase = "ask" /\ phase' = "sort" /\ UNCHANGED <<todo, skipped, foreign, results>>
    BY <1>5 DEF ReadStage1
  <2>2. results = <<>> /\ todo = {} /\ skipped = {} /\ foreign = {}
    BY <2>1 DEF TestInv
  <2> QED
    BY <2>1, <2>2, EmptySeq DEF TestInv, Links
<1>6. CASE BeginTests
  <2>1. /\ phase' = "test" /\ foreign' = ToSet(loaded) \ Parsed
        /\ skipped' = {l \in Parsed : ~Wanted(l)} /\ UNCHANGED loaded /\ Sort
    BY <1>6 DEF BeginTests
  <2> DEFINE W == {l \in Parsed : Wanted(l)}
  <2>2. PICK rejected \in SUBSET W : todo' = W \ rejected /\ results' = Dead(rejected)
    BY <2>1 DEF Sort
  <2>3. rejected \in SUBSET Link /\ IsFiniteSet(rejected)
    <3>1. rejected \in SUBSET ToSet(loaded)
      BY <1>0
    <3> QED
      BY <1>0, <3>1, FS_Subset
  <2>4. /\ results' \in Seq(Results) /\ Links(results') = rejected
        /\ \A i, j \in DOMAIN results' : results'[i].link = results'[j].link => i = j
    BY <2>2, <2>3, DeadFacts
  <2>5. (Parsed)' = Parsed /\ (Links(results))' = Links(results') /\ ToSet(loaded)' = ToSet(loaded)
    BY <2>1 DEF Parsed, Links
  <2>6. W \subseteq Parsed /\ skipped' \cap W = {} /\ Parsed = W \cup skipped'
    BY <2>1
  <2> HIDE DEF W
  <2> QED
    BY <1>0, <2>1, <2>2, <2>4, <2>5, <2>6 DEF TestInv
<1>7. ASSUME NEW l \in todo, Record(l) PROVE TestInv'
  <2>1. /\ phase = "test" /\ phase' = phase /\ todo' = todo \ {l} /\ UNCHANGED <<loaded, skipped, foreign>>
    BY <1>7 DEF Record
  <2>2. PICK ping \in Outcomes : results' = Append(results, Result(l, ping, FALSE))
    BY <1>7 DEF Record
  <2> DEFINE r == Result(l, ping, FALSE)
  <2>3. r \in Results /\ r.link = l
    <3>1. l \in Link /\ ping \in Nat
      BY <1>0, StagesAssumption DEF TestInv, Outcomes
    <3> QED
      BY <3>1 DEF Result, Results
  <2>4. results' = Append(results, r) /\ results \in Seq(Results)
    BY <2>2 DEF TestInv
  <2> HIDE DEF r
  <2>5. /\ results' \in Seq(Results) /\ Links(results') = Links(results) \cup {l}
        /\ \A i \in 1..Len(results) : results'[i] = results[i]
        /\ results'[Len(results) + 1] = r
        /\ Len(results) \in Nat /\ DOMAIN results = 1..Len(results) /\ DOMAIN results' = 1..(Len(results) + 1)
    BY <2>3, <2>4, AppendFacts
  <2>6. \A i \in 1..Len(results) : results[i].link # l
    BY <2>5 DEF TestInv, Links
  <2>7. ASSUME NEW i \in DOMAIN results', NEW j \in DOMAIN results', results'[i].link = results'[j].link
        PROVE  i = j
    <3>1. (i \in 1..Len(results) \/ i = Len(results) + 1) /\ (j \in 1..Len(results) \/ j = Len(results) + 1)
      BY <2>5
    <3>2. \A k, m \in 1..Len(results) : results[k].link = results[m].link => k = m
      BY <2>5 DEF TestInv
    <3> QED
      BY <2>3, <2>5, <2>6, <2>7, <3>1, <3>2
  <2>8. (Parsed)' = Parsed /\ (Links(results))' = Links(results') /\ ToSet(loaded)' = ToSet(loaded)
    BY <2>1 DEF Parsed, Links
  <2> QED
    BY <2>1, <2>5, <2>7, <2>8 DEF TestInv
<1>8. CASE FinishTests
  <2>1. Same /\ phase = "test" /\ phase' = "done"
    BY <1>8 DEF FinishTests
  <2> QED
    BY <2>1 DEF TestInv, Links, Parsed
<1> QED
  BY <1>2, <1>3, <1>4, <1>5, <1>6, <1>7, <1>8 DEF Next

-----------------------------------------------------------------------------
(* The links.                                                               *)

\* Whenever both parsers accept a link, Xray is pointed at the server and port
\* the direct checks and the report name (parse_endpoint and build_xray_outbound
\* find them separately).
THEOREM SameServer ==
  ASSUME NEW l \in Link, Endpoint(l) # NoEndpoint, Outbound(l) # NoOutbound
  PROVE  /\ Outbound(l).address = Endpoint(l).host
         /\ Outbound(l).port = Endpoint(l).port
<1>1. l.scheme \in Schemes /\ l.port \in Nat
  BY DEF Link
<1>2. CASE l.scheme \in {"vless", "trojan"}
  <2>1. Endpoint(l) = UrlEndpoint(l) /\ Outbound(l) = UrlOutbound(l)
    BY <1>2 DEF Endpoint, Outbound, UrlSchemes, TelegramSchemes
  <2>2. Endpoint(l) = At("v2ray", l.scheme, l.server, UrlPort(l))
    BY <2>1 DEF UrlEndpoint
  <2>3. Outbound(l) = To(l.scheme, l.server, UrlPort(l), l.user, UrlStream(l))
    BY <2>1 DEF UrlOutbound
  <2> QED
    BY <2>2, <2>3 DEF At, To
<1>3. CASE l.scheme = "vmess"
  <2>1. Endpoint(l) = VmessEndpoint(l) /\ Outbound(l) = VmessOutbound(l)
    BY <1>3 DEF Endpoint, Outbound, UrlSchemes, TelegramSchemes
  <2>2. ValidPort(l.port) /\ Endpoint(l) = At("v2ray", "vmess", VmessServer(l), l.port)
    BY <2>1 DEF VmessEndpoint
  <2>3. UrlPort(l) = l.port
    BY <1>1, <2>2 DEF UrlPort, ValidPort
  <2>4. Outbound(l) = To("vmess", VmessServer(l), UrlPort(l), l.user, VmessStream(l))
    BY <2>1 DEF VmessOutbound
  <2> QED
    BY <2>2, <2>3, <2>4 DEF At, To
<1>4. CASE l.scheme = "ss"
  <2>1. Endpoint(l) = SsEndpoint(l) /\ Outbound(l) = SsOutbound(l)
    BY <1>4 DEF Endpoint, Outbound, UrlSchemes, TelegramSchemes
  <2>2. ValidPort(l.port) /\ Endpoint(l) = At("v2ray", "ss", l.server, l.port)
    BY <2>1 DEF SsEndpoint, HostPort
  <2>3. SsPort(l) = l.port
    BY <1>1, <2>2 DEF ValidPort, SsPort
  <2>4. Outbound(l) = To("shadowsocks", l.server, l.port, l.user, NoStream)
    BY <2>1, <2>3 DEF SsOutbound
  <2> QED
    BY <2>2, <2>4 DEF At, To
<1>5. CASE l.scheme \notin {"vless", "trojan", "vmess", "ss"}
  BY <1>5 DEF Outbound
<1> QED
  BY <1>2, <1>3, <1>4, <1>5

\* A link under another name is still a link with the same endpoint and the same
\* outbound: what sub.txt publishes is what repeated_test measured.
THEOREM RenameKeepsTest ==
  ASSUME NEW l \in Link, NEW n \in Texts
  PROVE  /\ SetName(l, n) \in Link
         /\ Endpoint(SetName(l, n)) = Endpoint(l)
         /\ Outbound(SetName(l, n)) = Outbound(l)
<1>1. CASE l.scheme = "ssr"
  BY <1>1 DEF SetName
<1>2. CASE l.scheme # "ssr"
  <2> DEFINE r == [l EXCEPT !.name = n]
  <2>1. SetName(l, n) = r
    BY <1>2 DEF SetName
  <2>2. r \in Link
    BY DEF Link
  <2>3. /\ r.scheme = l.scheme /\ r.server = l.server /\ r.port = l.port /\ r.user = l.user
        /\ r.readable = l.readable /\ r.plain = l.plain /\ r.slash = l.slash
        /\ r.net = l.net /\ r.header = l.header /\ r.host = l.host /\ r.path = l.path
        /\ r.tls = l.tls /\ r.cipher = l.cipher /\ r.detail = l.detail
    BY DEF Link
  <2>4. UrlPort(r) = UrlPort(l) /\ VmessServer(r) = VmessServer(l) /\ HostPort(r) = HostPort(l)
    BY <2>3 DEF UrlPort, VmessServer, HostPort
  <2> HIDE DEF r
  <2>5. Endpoint(r) = Endpoint(l)
    <3>1. UrlEndpoint(r) = UrlEndpoint(l) /\ VmessEndpoint(r) = VmessEndpoint(l)
      BY <2>3, <2>4 DEF UrlEndpoint, VmessEndpoint
    <3>2. SsrEndpoint(r) = SsrEndpoint(l) /\ SsEndpoint(r) = SsEndpoint(l)
      BY <2>3, <2>4 DEF SsrEndpoint, SsEndpoint
    <3>3. TelegramEndpoint(r) = TelegramEndpoint(l)
      BY <2>3 DEF TelegramEndpoint
    <3> QED
      BY <2>3, <3>1, <3>2, <3>3 DEF Endpoint
  <2>6. UrlStream(r) = UrlStream(l) /\ VmessStream(r) = VmessStream(l)
    BY <2>3 DEF UrlStream, VmessStream
  <2>7. Outbound(r) = Outbound(l)
    BY <2>3, <2>4, <2>6 DEF Outbound, UrlOutbound, VmessOutbound, SsOutbound
  <2> QED
    BY <2>1, <2>2, <2>5, <2>7
<1> QED
  BY <1>1, <1>2

\* Renamed links other than vmess are still recognised as the same by the key
\* extract_configs, stage 1 and read_stage1_configs compare; a vmess link is not.
THEOREM RenameKeepsKey ==
  ASSUME NEW l \in Link, NEW n \in Texts, l.scheme # "vmess"
  PROVE  Key(SetName(l, n)) = Key(l)
<1>1. SetName(l, n).scheme = l.scheme
  BY DEF SetName, Link
<1>2. Nameless(SetName(l, n)) = Nameless(l)
  BY DEF SetName, Nameless, Link
<1> QED
  BY <1>1, <1>2 DEF Key

-----------------------------------------------------------------------------
(* The files.                                                               *)

(* The results that ByPing takes, in order.                                 *)
Place(rs) ==
  [k \in 1..Cardinality(Good(rs)) |-> CHOOSE i \in Good(rs) : Cardinality(UpTo(rs, i)) = k]

(* The good results are numbered by latency, each once.                     *)
LEMMA PlaceFacts ==
  ASSUME NEW rs \in Seq(Results)
  PROVE  /\ Good(rs) \subseteq DOMAIN rs /\ Cardinality(Good(rs)) \in Nat /\ IsFiniteSet(Good(rs))
         /\ Place(rs) \in [1..Cardinality(Good(rs)) -> Good(rs)]
         /\ \A k, m \in 1..Cardinality(Good(rs)) : Place(rs)[k] = Place(rs)[m] => k = m
         /\ \A k, m \in 1..Cardinality(Good(rs)) :
              k < m => rs[Place(rs)[k]].ping <= rs[Place(rs)[m]].ping
<1>1. Len(rs) \in Nat /\ DOMAIN rs = 1..Len(rs) /\ \A i \in DOMAIN rs : rs[i] \in Results
  BY ToSetFacts, ElementOfSeq
<1>2. Good(rs) \subseteq DOMAIN rs /\ IsFiniteSet(Good(rs)) /\ Cardinality(Good(rs)) \in Nat
  <2>1. Good(rs) \in SUBSET (1..Len(rs)) /\ IsFiniteSet(1..Len(rs))
    BY <1>1, FS_Interval DEF Good
  <2>2. IsFiniteSet(Good(rs))
    BY <2>1, FS_Subset
  <2> QED
    BY <1>1, <2>1, <2>2, FS_CardinalityType
<1>3. \A i \in Good(rs) : i \in Nat /\ rs[i].ping \in Nat
  BY <1>1, <1>2 DEF Results
<1> DEFINE G == Good(rs)
           U == [i \in G |-> UpTo(rs, i)]
<1>4. \A i \in G : U[i] = {j \in G : rs[j].ping < rs[i].ping \/ (rs[j].ping = rs[i].ping /\ j <= i)}
  BY DEF UpTo
<1>5. U \in [G -> SUBSET G]
  BY DEF UpTo
<1> HIDE DEF U
<1>6. \A i \in G : i \in U[i]
  BY <1>3, <1>4
<1>7. ASSUME NEW i \in G, NEW j \in G, rs[i].ping < rs[j].ping \/ (rs[i].ping = rs[j].ping /\ i < j)
      PROVE  j \notin U[i] /\ U[i] \subseteq U[j]
  <2>1. j \notin U[i]
    BY <1>3, <1>4, <1>7
  <2>2. ASSUME NEW k \in U[i] PROVE k \in U[j]
    <3>1. k \in G /\ (rs[k].ping < rs[i].ping \/ (rs[k].ping = rs[i].ping /\ k <= i))
      BY <1>4, <2>2
    <3>2. rs[k].ping < rs[j].ping \/ (rs[k].ping = rs[j].ping /\ k <= j)
      BY <1>3, <1>7, <3>1
    <3> QED
      BY <1>4, <3>1, <3>2
  <2> QED
    BY <2>1, <2>2
<1>8. \A i, j \in G : i # j => \/ j \notin U[i] /\ U[i] \subseteq U[j]
                               \/ i \notin U[j] /\ U[j] \subseteq U[i]
  <2> TAKE i, j \in G
  <2> HAVE i # j
  <2>1. \/ rs[i].ping < rs[j].ping \/ (rs[i].ping = rs[j].ping /\ i < j)
        \/ rs[j].ping < rs[i].ping \/ (rs[j].ping = rs[i].ping /\ j < i)
    BY <1>3
  <2> QED
    BY <1>7, <2>1
<1>9. /\ \A i \in G : Cardinality(U[i]) \in 1..Cardinality(G)
      /\ \A k \in 1..Cardinality(G) : \E i \in G : Cardinality(U[i]) = k
      /\ \A i, j \in G : i \in U[j] => Cardinality(U[i]) <= Cardinality(U[j])
  <2> HIDE DEF G
  <2>1. IsFiniteSet(G)
    BY <1>2 DEF G
  <2> QED
    BY <1>5, <1>6, <1>8, <2>1, Enumeration
<1>10. \A i \in G : U[i] = UpTo(rs, i)
  BY DEF U
<1>11. ASSUME NEW k \in 1..Cardinality(G) PROVE Place(rs)[k] \in G /\ Cardinality(U[Place(rs)[k]]) = k
  <2>1. \E i \in G : Cardinality(UpTo(rs, i)) = k
    BY <1>9, <1>10
  <2>2. Place(rs)[k] = CHOOSE i \in G : Cardinality(UpTo(rs, i)) = k
    BY DEF Place
  <2>3. Place(rs)[k] \in G /\ Cardinality(UpTo(rs, Place(rs)[k])) = k
    BY <2>1, <2>2
  <2> QED
    BY <2>3, <1>10
<1>12. Place(rs) \in [1..Cardinality(G) -> G]
  BY <1>11 DEF Place
<1>13. ASSUME NEW k \in 1..Cardinality(G), NEW m \in 1..Cardinality(G), k < m
       PROVE  rs[Place(rs)[k]].ping <= rs[Place(rs)[m]].ping
  <2> SUFFICES ASSUME rs[Place(rs)[m]].ping < rs[Place(rs)[k]].ping PROVE FALSE
    BY <1>3, <1>11
  <2>1. Place(rs)[m] \in U[Place(rs)[k]]
    BY <1>4, <1>11
  <2>2. Cardinality(U[Place(rs)[m]]) <= Cardinality(U[Place(rs)[k]])
    BY <2>1, <1>9, <1>11
  <2>3. m <= k
    BY <2>2, <1>11
  <2> QED
    BY <2>3, <1>13
<1>14. \A k, m \in 1..Cardinality(G) : Place(rs)[k] = Place(rs)[m] => k = m
  BY <1>11
<1> QED
  BY <1>2, <1>12, <1>13, <1>14

LEMMA ByPingFacts ==
  ASSUME NEW rs \in Seq(Results)
  PROVE  /\ ByPing(rs) \in Seq(Link) /\ Len(ByPing(rs)) = Cardinality(Good(rs))
         /\ DOMAIN ByPing(rs) = 1..Cardinality(Good(rs))
         /\ \A k \in 1..Cardinality(Good(rs)) : ByPing(rs)[k] = rs[Place(rs)[k]].link
<1>1. \A i \in DOMAIN rs : rs[i] \in Results
  BY ToSetFacts, ElementOfSeq
<1>2. /\ Good(rs) \subseteq DOMAIN rs /\ Cardinality(Good(rs)) \in Nat
      /\ Place(rs) \in [1..Cardinality(Good(rs)) -> Good(rs)]
  BY PlaceFacts
<1>3. \A k \in 1..Cardinality(Good(rs)) : rs[Place(rs)[k]].link \in Link
  BY <1>1, <1>2 DEF Results
<1>4. ByPing(rs) = [k \in 1..Cardinality(Good(rs)) |-> rs[Place(rs)[k]].link]
  BY DEF ByPing, Place
<1> DEFINE d == [k \in 1..Cardinality(Good(rs)) |-> rs[Place(rs)[k]].link]
<1>5. d \in Seq(Link) /\ Len(d) = Cardinality(Good(rs))
  <2>1. d \in [1..Cardinality(Good(rs)) -> Link]
    BY <1>3
  <2> HIDE DEF d
  <2>2. d \in Seq(Link)
    BY <1>2, <2>1, SeqDef
  <2> QED
    BY <1>2, <2>1, <2>2, LenProperties
<1> QED
  BY <1>4, <1>5

(* Every good link goes to one of the two files.                            *)
LEMMA KindSizes ==
  ASSUME NEW links \in Seq(Link)
  PROVE  Len(OfKind(links, FALSE)) + Len(OfKind(links, TRUE)) = Len(links)
<1> DEFINE A == {i \in DOMAIN links : IsProxy(links[i]) = FALSE}
           B == {i \in DOMAIN links : IsProxy(links[i]) = TRUE}
<1>1. IsFiniteSet(DOMAIN links) /\ Cardinality(DOMAIN links) = Len(links)
  BY ListFinite
<1>2. A \in SUBSET DOMAIN links /\ B \in SUBSET DOMAIN links /\ A \cap B = {} /\ A \cup B = DOMAIN links
  <2>1. \A l : IsProxy(l) \in BOOLEAN
    BY DEF IsProxy
  <2> QED
    BY <2>1
<1>3. OfKind(links, FALSE) = Keep(links, A) /\ OfKind(links, TRUE) = Keep(links, B)
  BY DEF OfKind
<1> HIDE DEF A, B
<1>4. Len(OfKind(links, FALSE)) = Cardinality(A) /\ Len(OfKind(links, TRUE)) = Cardinality(B)
  BY <1>2, <1>3, KeepFacts
<1>5. IsFiniteSet(A) /\ IsFiniteSet(B)
  BY <1>1, <1>2, FS_Subset
<1>6. Cardinality(DOMAIN links) = Cardinality(A) + Cardinality(B) - Cardinality({})
  BY <1>2, <1>5, FS_Union
<1>7. Cardinality(A) \in Nat /\ Cardinality(B) \in Nat /\ Cardinality({}) = 0
  BY <1>5, FS_EmptySet, FS_CardinalityType
<1>8. Cardinality(DOMAIN links) = Cardinality(A) + Cardinality(B)
  BY <1>6, <1>7
<1> QED
  BY <1>1, <1>4, <1>8

LEMMA PageKeysFinite == IsFiniteSet(PageKeys)
<1> DEFINE V == {ToSet(PageOf[c]) : c \in Channels}
           W == UNION V
           f == [c \in Channels |-> ToSet(PageOf[c])]
           g == [l \in W |-> Key(l)]
<1>1. f \in Surjection(Channels, V)
  BY DEF Surjection
<1>2. IsFiniteSet(V)
  <2> HIDE DEF f, V
  <2> QED
    BY <1>1, StagesAssumption, FS_Surjection
<1>3. \A T \in V : IsFiniteSet(T)
  BY StagesAssumption, ListFinite
<1>4. IsFiniteSet(W)
  <2> HIDE DEF V
  <2> QED
    BY <1>2, <1>3, FS_UNION
<1>5. g \in Surjection(W, PageKeys)
  BY DEF Surjection, PageKeys
<1> HIDE DEF g, W
<1> QED
  BY <1>4, <1>5, FS_Surjection

(* There is a name for every result, for no two share a key.                *)
LEMMA EnoughTags ==
  ASSUME ListInv, NEW rs \in Seq(Results), Links(rs) \subseteq ToSet(loaded),
         \A i, j \in DOMAIN rs : rs[i].link = rs[j].link => i = j
  PROVE  Len(rs) <= Len(Tags)
<1> DEFINE g == [i \in DOMAIN rs |-> Key(rs[i].link)]
<1>1. loaded \in Seq(Link) /\ Distinct(loaded) /\ KeysOf(loaded) \subseteq PageKeys
  BY DEF ListInv
<1>2. ASSUME NEW i \in DOMAIN rs PROVE \E a \in DOMAIN loaded : loaded[a] = rs[i].link
  <2>1. rs[i].link \in ToSet(loaded)
    BY DEF Links
  <2> QED
    BY <2>1 DEF ToSet
<1>3. \A i \in DOMAIN rs : Key(rs[i].link) \in PageKeys
  BY <1>1, <1>2 DEF KeysOf
<1>4. ASSUME NEW i \in DOMAIN rs, NEW j \in DOMAIN rs, Key(rs[i].link) = Key(rs[j].link) PROVE i = j
  <2>1. PICK a \in DOMAIN loaded : loaded[a] = rs[i].link
    BY <1>2
  <2>2. PICK b \in DOMAIN loaded : loaded[b] = rs[j].link
    BY <1>2
  <2>3. a = b
    BY <1>1, <1>4, <2>1, <2>2 DEF Distinct
  <2> QED
    BY <2>1, <2>2, <2>3
<1>5. g \in Injection(DOMAIN rs, PageKeys)
  BY <1>3, <1>4 DEF Injection, IsInjective
<1> HIDE DEF g
<1>6. Cardinality(DOMAIN rs) <= Cardinality(PageKeys)
  BY <1>5, PageKeysFinite, FS_Injection
<1>7. Cardinality(DOMAIN rs) = Len(rs) /\ Cardinality(PageKeys) \in Nat /\ Len(rs) \in Nat
  BY ListFinite, PageKeysFinite, FS_CardinalityType, LenProperties
<1>8. Cardinality(PageKeys) <= Len(Tags) /\ Len(Tags) \in Nat
  BY StagesAssumption, LenProperties
<1> QED
  BY <1>6, <1>7, <1>8

(* The numbered names change nothing of what was tested.                    *)
LEMMA NumberedFacts ==
  ASSUME NEW links \in Seq(Link), Len(links) <= Len(Tags)
  PROVE  /\ DOMAIN Numbered(links) = DOMAIN links /\ Len(Numbered(links)) = Len(links)
         /\ \A i \in DOMAIN links :
              /\ Numbered(links)[i] = IF eng.rename THEN SetName(links[i], Tags[i]) ELSE links[i]
              /\ Tags[i] \in Texts
              /\ Endpoint(Numbered(links)[i]) = Endpoint(links[i])
              /\ Outbound(Numbered(links)[i]) = Outbound(links[i])
<1>1. Len(links) \in Nat /\ DOMAIN links = 1..Len(links) /\ \A i \in DOMAIN links : links[i] \in Link
  BY ToSetFacts, ElementOfSeq
<1>2. Len(Tags) \in Nat /\ \A i \in 1..Len(Tags) : Tags[i] \in Texts
  BY StagesAssumption, ElementOfSeq, LenProperties
<1>3. \A i \in DOMAIN links : Tags[i] \in Texts
  BY <1>1, <1>2
<1>4. \A i \in DOMAIN links : Numbered(links)[i] = IF eng.rename THEN SetName(links[i], Tags[i]) ELSE links[i]
  BY DEF Numbered
<1>5. ASSUME NEW i \in DOMAIN links
      PROVE  /\ Numbered(links)[i] \in Link
             /\ Endpoint(Numbered(links)[i]) = Endpoint(links[i])
             /\ Outbound(Numbered(links)[i]) = Outbound(links[i])
  BY <1>1, <1>3, <1>4, RenameKeepsTest
<1>6. DOMAIN Numbered(links) = 1..Len(links) /\ Numbered(links) = [i \in 1..Len(links) |-> Numbered(links)[i]]
  BY <1>1 DEF Numbered
<1>7. Numbered(links) \in [1..Len(links) -> Link]
  BY <1>1, <1>5, <1>6
<1>8. Len(Numbered(links)) = Len(links)
  <2>1. Numbered(links) \in Seq(Link)
    BY <1>1, <1>7, SeqDef
  <2> QED
    BY <1>1, <1>6, <2>1, LenProperties
<1> QED
  BY <1>1, <1>3, <1>4, <1>5, <1>6, <1>8

(* get_config_display_name finds what set_config_display_name gave.         *)
LEMMA NameShown ==
  ASSUME NEW l \in Link, NEW n \in Texts, l.scheme # "ssr", Endpoint(l) # NoEndpoint
  PROVE  SetName(l, n).scheme = l.scheme /\ GetName(SetName(l, n)) = n
<1>1. SetName(l, n) = [l EXCEPT !.name = n]
  BY DEF SetName
<1>2. l.scheme = "vmess" => l.readable
  <2> SUFFICES ASSUME l.scheme = "vmess", ~l.readable PROVE FALSE
    OBVIOUS
  <2>1. Endpoint(l) = VmessEndpoint(l)
    BY DEF Endpoint, UrlSchemes, TelegramSchemes
  <2> QED
    BY <2>1 DEF VmessEndpoint
<1> DEFINE r == [l EXCEPT !.name = n]
<1>3. r.scheme = l.scheme /\ r.readable = l.readable /\ r.name = n
  BY DEF Link
<1> HIDE DEF r
<1>4. GetName(r) = n
  BY <1>2, <1>3 DEF GetName
<1> QED
  BY <1>1, <1>3, <1>4 DEF r

(* What sub.txt says of the results it was written from.                    *)
Faithful(rs, sub) ==
  \E of \in [DOMAIN sub -> DOMAIN rs] :
    /\ \A i, j \in DOMAIN sub : i < j => of[i] # of[j] /\ rs[of[i]].ping <= rs[of[j]].ping
    /\ \A i \in DOMAIN sub :
         /\ rs[of[i]].ok
         /\ Endpoint(sub[i]) = Endpoint(rs[of[i]].link)
         /\ Outbound(sub[i]) = Outbound(rs[of[i]].link)

Named(sub) ==
  \A i, j \in DOMAIN sub :
    sub[i].scheme # "ssr" /\ sub[j].scheme # "ssr" /\ i # j => GetName(sub[i]) # GetName(sub[j])

LEMMA FaithfulGrows ==
  ASSUME NEW rs \in Seq(Results), NEW r \in Results, NEW sub, Faithful(rs, sub)
  PROVE  Faithful(Append(rs, r), sub)
<1>1. PICK of \in [DOMAIN sub -> DOMAIN rs] :
        /\ \A i, j \in DOMAIN sub : i < j => of[i] # of[j] /\ rs[of[i]].ping <= rs[of[j]].ping
        /\ \A i \in DOMAIN sub :
             /\ rs[of[i]].ok
             /\ Endpoint(sub[i]) = Endpoint(rs[of[i]].link)
             /\ Outbound(sub[i]) = Outbound(rs[of[i]].link)
  BY DEF Faithful
<1>2. /\ \A i \in DOMAIN rs : Append(rs, r)[i] = rs[i]
      /\ DOMAIN rs \subseteq DOMAIN Append(rs, r)
  BY AppendFacts
<1>3. of \in [DOMAIN sub -> DOMAIN Append(rs, r)]
  BY <1>2
<1>4. \A i \in DOMAIN sub : Append(rs, r)[of[i]] = rs[of[i]]
  BY <1>2
<1> QED
  BY <1>1, <1>3, <1>4 DEF Faithful

(* The three lists that are written, of results on links of their own.      *)
LEMMA FilesFacts ==
  ASSUME ListInv, NEW rs \in Seq(Results), Links(rs) \subseteq Parsed,
         \A i, j \in DOMAIN rs : rs[i].link = rs[j].link => i = j
  PROVE  /\ Faithful(rs, Files(rs).sub)
         /\ eng.rename => Named(Files(rs).sub)
         /\ Len(Files(rs).sub) + Len(Files(rs).proxy) + Cardinality(Files(rs).dead) = Len(rs)
         /\ Files(rs).foreign = foreign
<1> DEFINE n == Cardinality(Good(rs))
           best == ByPing(rs)
           P == {k \in DOMAIN best : IsProxy(best[k]) = FALSE}
           kept == OfKind(best, FALSE)
           rest == OfKind(best, TRUE)
           sub == Numbered(kept)
<1>1. Files(rs).sub = sub /\ Files(rs).proxy = rest /\ Files(rs).foreign = foreign
      /\ Files(rs).dead = {rs[i].link : i \in DOMAIN rs \ Good(rs)}
  BY DEF Files
<1>2. /\ Good(rs) \subseteq DOMAIN rs /\ n \in Nat /\ IsFiniteSet(Good(rs))
      /\ Place(rs) \in [1..n -> Good(rs)]
      /\ \A k, m \in 1..n : Place(rs)[k] = Place(rs)[m] => k = m
      /\ \A k, m \in 1..n : k < m => rs[Place(rs)[k]].ping <= rs[Place(rs)[m]].ping
  BY PlaceFacts
<1>3. /\ best \in Seq(Link) /\ Len(best) = n /\ DOMAIN best = 1..n
      /\ \A k \in 1..n : best[k] = rs[Place(rs)[k]].link
  BY ByPingFacts
<1>4. P \in SUBSET DOMAIN best /\ kept = Keep(best, P)
  BY DEF OfKind
<1>5. IsFiniteSet(DOMAIN rs) /\ Cardinality(DOMAIN rs) = Len(rs) /\ Len(rs) \in Nat
  BY ListFinite, LenProperties
<1>6. Links(rs) \subseteq ToSet(loaded)
  BY DEF Parsed
<1>7. Len(rs) <= Len(Tags) /\ Len(Tags) \in Nat
  BY <1>6, EnoughTags, StagesAssumption, LenProperties
<1> HIDE DEF best, P, kept, rest, sub, n
<1>8. /\ kept \in Seq(Link) /\ Len(kept) = Cardinality(P) /\ DOMAIN kept = 1..Cardinality(P) /\ Cardinality(P) \in Nat
      /\ Spot(P) \in [1..Cardinality(P) -> P]
      /\ \A k \in 1..Cardinality(P) : kept[k] = best[Spot(P)[k]]
      /\ \A k, m \in 1..Cardinality(P) : k < m => Spot(P)[k] < Spot(P)[m]
  BY <1>3, <1>4, KeepFacts
<1>9. Len(kept) + Len(rest) = n
  BY <1>3, KindSizes DEF kept, rest
<1>10. n <= Len(rs) /\ Len(rest) \in Nat
  <2>1. n <= Len(rs)
    BY <1>2, <1>5, FS_Subset DEF n
  <2> DEFINE Q == {k \in DOMAIN best : IsProxy(best[k]) = TRUE}
  <2>2. Q \in SUBSET DOMAIN best /\ rest = Keep(best, Q)
    BY DEF OfKind, rest
  <2> HIDE DEF Q
  <2>3. Len(Keep(best, Q)) = Cardinality(Q) /\ Cardinality(Q) \in Nat
    BY <1>3, <2>2, KeepFacts
  <2> QED
    BY <2>1, <2>2, <2>3
<1>11. Len(kept) <= Len(Tags) /\ Len(kept) \in Nat
  BY <1>2, <1>5, <1>7, <1>8, <1>9, <1>10
<1>12. /\ DOMAIN sub = 1..Cardinality(P) /\ Len(sub) = Len(kept)
       /\ \A i \in 1..Cardinality(P) :
            /\ sub[i] = IF eng.rename THEN SetName(kept[i], Tags[i]) ELSE kept[i]
            /\ Tags[i] \in Texts
            /\ Endpoint(sub[i]) = Endpoint(kept[i]) /\ Outbound(sub[i]) = Outbound(kept[i])
  BY <1>8, <1>11, NumberedFacts DEF sub
<1> DEFINE of == [i \in 1..Cardinality(P) |-> Place(rs)[Spot(P)[i]]]
<1>13. ASSUME NEW i \in 1..Cardinality(P)
       PROVE  /\ of[i] \in Good(rs) /\ of[i] = Place(rs)[Spot(P)[i]] /\ Spot(P)[i] \in 1..n
              /\ kept[i] = rs[of[i]].link
  BY <1>2, <1>3, <1>4, <1>8
<1>14. of \in [1..Cardinality(P) -> DOMAIN rs]
  BY <1>2, <1>13
<1> HIDE DEF of
<1>15. ASSUME NEW i \in 1..Cardinality(P), NEW j \in 1..Cardinality(P), i < j
       PROVE  of[i] # of[j] /\ rs[of[i]].ping <= rs[of[j]].ping
  <2>1. Spot(P)[i] < Spot(P)[j] /\ Spot(P)[i] \in 1..n /\ Spot(P)[j] \in 1..n
    BY <1>8, <1>13, <1>15
  <2>2. Spot(P)[i] # Spot(P)[j]
    BY <2>1
  <2> QED
    BY <1>2, <1>13, <2>1, <2>2
<1>16. Faithful(rs, sub)
  <2>1. \A i \in 1..Cardinality(P) : rs[of[i]].ok
    BY <1>13 DEF Good
  <2>2. of \in [DOMAIN sub -> DOMAIN rs]
    BY <1>12, <1>14
  <2>3. \A i, j \in DOMAIN sub : i < j => of[i] # of[j] /\ rs[of[i]].ping <= rs[of[j]].ping
    BY <1>12, <1>15
  <2>4. \A i \in DOMAIN sub :
          /\ rs[of[i]].ok
          /\ Endpoint(sub[i]) = Endpoint(rs[of[i]].link)
          /\ Outbound(sub[i]) = Outbound(rs[of[i]].link)
    BY <1>12, <1>13, <2>1
  <2> QED
    BY <2>2, <2>3, <2>4 DEF Faithful
<1>17. ASSUME eng.rename PROVE Named(sub)
  <2>1. ASSUME NEW i \in 1..Cardinality(P), sub[i].scheme # "ssr" PROVE GetName(sub[i]) = Tags[i]
    <3>1. kept[i] \in Link
      BY <1>8, ElementOfSeq
    <3>2. Endpoint(kept[i]) # NoEndpoint
      <4>1. kept[i] \in Links(rs)
        BY <1>2, <1>13 DEF Links
      <4> QED
        BY <4>1 DEF Parsed
    <3>3. sub[i] = SetName(kept[i], Tags[i])
      BY <1>12, <1>17
    <3>4. kept[i].scheme # "ssr"
      BY <2>1, <3>3 DEF SetName
    <3> QED
      BY <1>12, <3>1, <3>2, <3>3, <3>4, NameShown
  <2>2. \A i \in 1..Cardinality(P) : i \in DOMAIN Tags
    <3>1. DOMAIN Tags = 1..Len(Tags)
      BY StagesAssumption, LenProperties
    <3> QED
      BY <1>7, <1>8, <1>11, <3>1
  <2>3. \A i, j \in 1..Cardinality(P) : i # j => Tags[i] # Tags[j]
    BY <2>2, StagesAssumption
  <2> QED
    BY <1>12, <2>1, <2>3 DEF Named
<1>18. Cardinality({rs[i].link : i \in DOMAIN rs \ Good(rs)}) = Len(rs) - n
  <2> DEFINE D == DOMAIN rs \ Good(rs)
             f == [i \in D |-> rs[i].link]
  <2>1. IsFiniteSet(D)
    BY <1>5, FS_Subset
  <2>2. Cardinality(D) = Cardinality(DOMAIN rs) - Cardinality(DOMAIN rs \cap Good(rs))
    BY <1>5, FS_Difference
  <2>3. DOMAIN rs \cap Good(rs) = Good(rs)
    BY <1>2
  <2>4. {rs[i].link : i \in D} = {f[i] : i \in D}
    OBVIOUS
  <2>5. DOMAIN f = D /\ \A i, j \in D : f[i] = f[j] => i = j
    OBVIOUS
  <2> HIDE DEF f, D
  <2>6. Cardinality({f[i] : i \in D}) = Cardinality(D)
    BY <2>1, <2>5, ImageSize
  <2>7. Cardinality({rs[i].link : i \in D}) = Cardinality(DOMAIN rs) - Cardinality(Good(rs))
    BY <2>2, <2>3, <2>4, <2>6
  <2> QED
    BY <1>5, <2>7 DEF D, n
<1>19. Len(sub) + Len(rest) + (Len(rs) - n) = Len(rs)
  <2>1. Len(sub) = Len(kept)
    BY <1>12
  <2> QED
    BY <1>2, <1>5, <1>9, <1>10, <1>11, <2>1
<1> QED
  BY <1>1, <1>16, <1>17, <1>18, <1>19

(* The files are those of the results there were when they were written,    *)
(* under the names of this run; at the end they account for every result.   *)
OutInv ==
  /\ phase \in {"list", "fetch", "ask", "sort"} => out = Absent
  /\ phase \in {"test", "done", "aborted"} /\ out # Absent =>
       Faithful(results, out.sub) /\ (eng.rename => Named(out.sub))
  /\ phase = "done" =>
       /\ out.foreign = foreign /\ todo = {}
       /\ Len(out.sub) + Len(out.proxy) + Cardinality(out.dead) = Len(results)

IInv == SettingsInv /\ PhaseInv /\ RankInv /\ ReadInv /\ ListInv /\ TestInv /\ OutInv

(* Every step keeps the files those of the results.                         *)
LEMMA StepOut == ASSUME IInv, [Next]_vars PROVE OutInv'
<1> USE DEF IInv
<1>1. CASE UNCHANGED stageVars /\ eng'.rename = eng.rename
  BY <1>1 DEF stageVars, OutInv, Faithful, Named
<1>2. CASE SettingsStep
  <2>1. UNCHANGED stageVars
    BY <1>2 DEF SettingsStep
  <2>2. CASE EditStep
    BY <1>1, <2>1, <2>2, EditType
  <2>3. CASE Launch /\ phase # "idle"
    <3>1. ~up /\ ~busy /\ launches # 0
      BY <2>3 DEF Launch, PhaseInv
    <3>2. phase = "done" /\ front = "cli"
      BY <2>3, <3>1 DEF PhaseInv, SettingsInv, Running
    <3>3. eng' = Read(home.env, Builtin)
      BY <2>3, <3>2 DEF Launch, LaunchCli, LaunchWindow
    <3>4. eng'.rename = eng.rename
      BY <3>1, <3>2, <3>3 DEF PhaseInv
    <3> QED
      BY <1>1, <2>1, <3>4
  <2>4. CASE phase = "idle"
    BY <2>1, <2>4 DEF stageVars, OutInv
  <2> QED
    BY <1>2, <2>2, <2>3, <2>4 DEF SettingsStep
<1>3. CASE Start \/ Leave
  BY <1>3 DEF Start, Leave, OutInv
<1>4. CASE Prepare \/ StartCli
  BY <1>4 DEF Prepare, StartCli, OutInv
<1>5. CASE ReadChannels \/ (\E i \in asked : Fetch(i)) \/ WriteStage1 \/ ReadStage1
  <2>1. phase \in {"list", "fetch", "ask", "sort"} /\ phase' \in {"list", "fetch", "ask", "sort"} /\ out' = out
    BY <1>5 DEF ReadChannels, Fetch, WriteStage1, ReadStage1
  <2> QED
    BY <2>1 DEF OutInv
<1>6. CASE BeginTests
  <2>1. phase = "sort" /\ phase' = "test" /\ out' = out
    BY <1>6 DEF BeginTests
  <2> QED
    BY <2>1 DEF OutInv
<1>7. ASSUME NEW l \in todo, Record(l) PROVE OutInv'
  <2>1. phase = "test" /\ phase' = "test" /\ UNCHANGED <<eng, foreign, loaded>>
    BY <1>7 DEF Record, settingsVars
  <2>2. PICK ping \in Outcomes :
          /\ results' = Append(results, Result(l, ping, FALSE))
          /\ out' = Files(results') \/ out' = out
    BY <1>7 DEF Record
  <2> DEFINE r == Result(l, ping, FALSE)
  <2>3. r \in Results /\ results \in Seq(Results)
    <3>1. l \in Link /\ ping \in Nat
      BY StagesAssumption, ToSetFacts DEF TestInv, ListInv, Parsed, Outcomes
    <3> QED
      BY <3>1 DEF Result, Results, TestInv
  <2>4. CASE out' = out
    <3>1. out # Absent => Faithful(Append(results, r), out.sub) /\ (eng.rename => Named(out.sub))
      <4> HIDE DEF r
      <4> QED
        BY <2>1, <2>3, FaithfulGrows DEF OutInv
    <3> QED
      BY <2>1, <2>2, <2>4, <3>1 DEF OutInv, Faithful, Named
  <2>5. CASE out' = Files(results')
    <3>1. /\ results' \in Seq(Results) /\ Links(results') \subseteq Parsed
          /\ \A i, j \in DOMAIN results' : results'[i].link = results'[j].link => i = j
      <4>1. TestInv'
        BY StepTest
      <4>2. (Parsed)' = Parsed /\ (Links(results))' = Links(results')
        BY <2>1 DEF Parsed, Links
      <4> QED
        BY <4>1, <4>2 DEF TestInv
    <3>2. Faithful(results', Files(results').sub) /\ (eng.rename => Named(Files(results').sub))
      BY <3>1, FilesFacts
    <3> QED
      BY <2>1, <2>5, <3>2 DEF OutInv, Faithful, Named
  <2> QED
    BY <2>2, <2>4, <2>5
<1>8. CASE FinishTests \/ Abort
  <2>1. /\ results \in Seq(Results) /\ Links(results) \subseteq Parsed
        /\ \A i, j \in DOMAIN results : results[i].link = results[j].link => i = j
    BY DEF TestInv
  <2>2. /\ Faithful(results, Files(results).sub)
        /\ eng.rename => Named(Files(results).sub)
        /\ Len(Files(results).sub) + Len(Files(results).proxy) + Cardinality(Files(results).dead) = Len(results)
        /\ Files(results).foreign = foreign
    BY <2>1, FilesFacts
  <2>3. UNCHANGED <<eng, results, todo, foreign>>
    BY <1>8 DEF FinishTests, Abort, Ended
  <2>4. CASE FinishTests
    <3>1. phase' = "done" /\ out' = Files(results) /\ todo' = {}
      BY <2>4, <2>3 DEF FinishTests
    <3>2. out' # Absent => Faithful(results, out'.sub) /\ (eng.rename => Named(out'.sub))
      BY <2>2, <3>1
    <3>3. /\ Len(out'.sub) + Len(out'.proxy) + Cardinality(out'.dead) = Len(results')
          /\ out'.foreign = foreign'
      BY <2>2, <2>3, <3>1
    <3>4. out' # Absent => Faithful(results, out.sub)' /\ (eng'.rename => Named(out.sub)')
      BY <2>3, <3>2 DEF Faithful, Named
    <3> QED
      BY <3>1, <3>3, <3>4 DEF OutInv
  <2>5. CASE Abort
    <3>1. /\ phase' = "aborted" /\ phase \in {"fetch", "ask", "test"}
          /\ out' = IF phase = "test" THEN Files(results) ELSE out
      BY <2>5 DEF Abort, PhaseInv, Running
    <3>2. out' # Absent => Faithful(results, out'.sub) /\ (eng.rename => Named(out'.sub))
      BY <2>2, <3>1 DEF OutInv
    <3> QED
      BY <2>3, <3>1, <3>2 DEF OutInv, Faithful, Named
  <2> QED
    BY <1>8, <2>4, <2>5
<1>9. CASE UNCHANGED vars
  BY <1>1, <1>9 DEF vars, settingsVars
<1> QED
  BY <1>2, <1>3, <1>4, <1>5, <1>6, <1>7, <1>8, <1>9 DEF Next

-----------------------------------------------------------------------------
(* The theorems about every run.                                            *)

(* The invariants together hold in every state: the settings and the phase  *)
(* do not need the others, the ranks and the results need the lists, and    *)
(* the files need all of them (LegacyStages!Next).                          *)
THEOREM Inductive == Spec => []IInv
<1>1. AllInit => IInv
  <2>1. AllInit => OutInv
    BY DEF AllInit, StagesInit, OutInv
  <2> QED
    BY <2>1, InitSettings, InitLists DEF IInv
<1>2. IInv /\ [Next]_vars => IInv'
  BY StepSettings, StepPhase, StepRank, StepRead, StepList, StepTest, StepOut DEF IInv
<1> QED
  BY <1>1, <1>2, PTL DEF Spec

(* Every variable has its type, the least number of good samples never      *)
(* exceeds the attempts in the boxes (fix_min_success, load_initial_values) *)
(* and what is tested, skipped or unsupported was read from the first file. *)
THEOREM AlwaysTyped == Spec => []TypeOK
<1>1. IInv => TypeOK
  <2> SUFFICES ASSUME IInv PROVE TypeOK
    OBVIOUS
  <2>1. SettingsTypeOK
    <3>1. home \in Homes /\ eng \in Env /\ win \in Windows /\ win.min <= win.attempts /\ up \in BOOLEAN /\ busy \in BOOLEAN
      BY DEF IInv, SettingsInv
    <3>2. win.min \in 1..win.attempts
      BY <3>1 DEF Windows
    <3> QED
      BY <3>1, <3>2 DEF SettingsTypeOK, Homes, Windows
  <2>2. phase \in {"idle", "apply", "list", "fetch", "ask", "sort", "test", "done", "aborted"}
    BY DEF IInv, PhaseInv, Running
  <2>3. order \in Seq(Channels) /\ asked \subseteq DOMAIN order /\ (stage1 = Absent \/ stage1 \in Seq(Link))
    BY DEF IInv, ReadInv, ListInv
  <2>4. todo \subseteq ToSet(loaded) /\ skipped \cup foreign \subseteq ToSet(loaded)
    BY DEF IInv, TestInv, Parsed
  <2> QED
    BY <2>1, <2>2, <2>3, <2>4 DEF TypeOK
<1> QED
  BY <1>1, Inductive, PTL

(* What apply_runtime_settings sets is what the window shows, however the   *)
(* lists got into its editors; read_channels returns each channel of both   *)
(* lists once, so fetch_channel is submitted once for it, with the limit of *)
(* the list it stands in.                                                   *)
THEOREM RanksHold == Spec => []RanksAgree
<1>1. IInv => RanksAgree
  <2> DEFINE first == ToSet(Normalized(win.p1))
             shown == first \cup ToSet(Normalized(win.p2))
  <2> SUFFICES ASSUME IInv, front = "window", phase \in {"fetch", "ask", "sort", "test"}
               PROVE  /\ eng = Chosen(win) /\ eng.min <= eng.attempts
                      /\ \A c \in Channels :
                           /\ reads[c] <= IF c \in shown THEN 1 ELSE 0
                           /\ phase # "fetch" /\ c \in shown => reads[c] = 1
                           /\ Len(picked[c]) <= IF c \in first THEN MainLimit ELSE IF c \in shown THEN PerLimit ELSE 0
    BY DEF RanksAgree
  <2>1. /\ win.p1 \in Seq(Channels) /\ win.p2 \in Seq(Channels) /\ eng = Chosen(win) /\ ToSet(order) = Shown
        /\ \A c \in Channels :
             Len(picked[c]) <= IF c \in ToSet(win.p1) THEN MainLimit ELSE IF c \in ToSet(win.p2) THEN PerLimit ELSE 0
    BY DEF IInv, RankInv, Running
  <2>2. win \in Windows /\ win.min <= win.attempts
    BY DEF IInv, SettingsInv
  <2>3. first = ToSet(win.p1) /\ shown = Shown
    BY <2>1, ChannelsAreLines DEF Shown
  <2>4. eng.min <= eng.attempts
    BY <2>1, <2>2, ChosenFacts
  <2> HIDE DEF first, shown
  <2>5. ASSUME NEW c \in Channels
        PROVE  /\ reads[c] <= IF c \in shown THEN 1 ELSE 0
               /\ phase # "fetch" /\ c \in shown => reads[c] = 1
    <3>1. reads[c] = IF Read1(c) THEN 1 ELSE 0
      BY DEF IInv, ReadInv
    <3>2. Read1(c) => c \in shown
      BY <2>1, <2>3 DEF Read1, ToSet
    <3>3. phase # "fetch" /\ c \in shown => Read1(c)
      BY <2>1, <2>3 DEF Read1, ToSet, IInv, ReadInv
    <3> QED
      BY <3>1, <3>2, <3>3
  <2>6. ASSUME NEW c \in Channels
        PROVE  Len(picked[c]) <= IF c \in first THEN MainLimit ELSE IF c \in shown THEN PerLimit ELSE 0
    BY <2>1, <2>3 DEF Shown
  <2> QED
    BY <2>1, <2>4, <2>5, <2>6
<1> QED
  BY <1>1, Inductive, PTL

(* What a run has written with write_env_file and write_text is what        *)
(* load_initial_values shows in the next window, whatever lies beside the   *)
(* program: the copies are only made of missing files, _reload_environment  *)
(* prefers the file to what was set on import, and the boxes clamp nothing  *)
(* that was set in them.                                                    *)
THEOREM SettingsHold == Spec => SettingsKept
<1>1. ASSUME IInv, [Next]_vars, Opens
      PROVE  /\ home.env = Chosen(win) =>
                  \A box \in {"attempts", "min", "rename", "configs", "proxies"} : win'[box] = win[box]
             /\ home.channels = Merge(Normalized(win.p1), Normalized(win.p2)) => Listed(win') = Listed(win)
  <2> USE DEF IInv
  <2>1. SettingsStep /\ Launch
    <3>1. ~(EditStep \/ Start \/ Prepare \/ StartCli \/ Leave \/ UNCHANGED vars)
      BY <1>1, EditType DEF Opens, Start, StartWindow, Prepare, StartCli, Leave, Exit, ExitInSave, ExitInApply,
         Gone, vars, settingsVars
    <3>2. ~Quiet
      BY <1>1, QuietSteps DEF Opens, settingsVars
    <3>3. ~(FinishTests \/ Abort)
      BY <1>1 DEF Opens, FinishTests, Abort, PhaseInv, Running
    <3> QED
      BY <1>1, <3>1, <3>2, <3>3 DEF Next, Quiet, SettingsStep
  <2>2. LaunchWindow /\ win \in Windows /\ win.min <= win.attempts /\ home \in Homes
    BY <1>1, <2>1 DEF Launch, LaunchCli, Opens, SettingsInv
  <2>3. PICK f \in Copied(home) : eng' = Reloaded(f) /\ home' = Ensured(f)
    BY <2>2 DEF LaunchWindow
  <2>4. win' = Loaded(NewWindow, eng', home')
    BY <2>2 DEF LaunchWindow
  <2>5. PICK ch \in {home.channels, OrElse(home.channels, portable.channels)},
             e \in {home.env, OrElse(home.env, portable.env)} : f = [home EXCEPT !.channels = ch, !.env = e]
    BY <2>3 DEF Copied
  <2>6. f.channels = ch /\ f.env = e
    BY <2>2, <2>5 DEF Homes
  <2>7. SettingsInv'
    BY <1>1, <2>1, LaunchType
  <2> DEFINE s == Split(NewWindow, home'.channels, eng'.main)
             n == Clamped(eng'.attempts, 1, 8)
             m == Clamped(eng'.min, 1, n)
  <2>8. win' = [s EXCEPT !.attempts = n, !.min = m, !.rename = eng'.rename,
                         !.configs = eng'.configs, !.proxies = eng'.proxies]
    BY <2>4 DEF Loaded
  <2>9. s \in Windows
    BY <2>7, <1>1, SplitType, ConstantTypes DEF SettingsInv, Opens
  <2>10. /\ win'.attempts = n /\ win'.min = m /\ win'.rename = eng'.rename
         /\ win'.configs = eng'.configs /\ win'.proxies = eng'.proxies
         /\ win'.p1 = s.p1 /\ win'.p2 = s.p2
    <3> HIDE DEF s, n, m
    <3> QED
      BY <2>8, <2>9 DEF Windows
  <2>11. ASSUME home.env = Chosen(win)
         PROVE  \A box \in {"attempts", "min", "rename", "configs", "proxies"} : win'[box] = win[box]
    <3>1. Chosen(win) \in Env /\ home.env \in Env
      BY <2>2, <2>11, ChosenFacts
    <3>2. Chosen(win) \notin {Absent, Empty}
      BY <3>1, SettingsAssumption
    <3>3. f.env = Chosen(win)
      BY <2>5, <2>6, <2>11, <3>2 DEF OrElse
    <3>4. eng' = [Chosen(win) EXCEPT !.main = Imported.main]
      BY <2>3, <3>2, <3>3 DEF Reloaded, Read
    <3>5. /\ eng'.attempts = win.attempts /\ eng'.min = win.min /\ eng'.rename = win.rename
          /\ eng'.configs = win.configs /\ eng'.proxies = win.proxies
      BY <3>4 DEF Chosen
    <3>6. win.attempts \in 1..8 /\ win.min \in 1..win.attempts
      BY <2>2 DEF Windows
    <3>7. n = win.attempts /\ m = win.min
      BY <3>5, <3>6 DEF Clamped
    <3> HIDE DEF n, m
    <3> QED
      BY <2>10, <3>5, <3>7
  <2>12. ASSUME home.channels = Merge(Normalized(win.p1), Normalized(win.p2))
         PROVE  Listed(win') = Listed(win)
    <3> DEFINE N == Normalized(home.channels)
    <3>1. /\ Normalized(win.p1) \in Seq(Channels) /\ Normalized(win.p2) \in Seq(Channels)
          /\ home.channels \in Seq(Channels) /\ home.channels \in Seq(Lines)
          /\ ToSet(home.channels) = Listed(win)
      BY <2>2, <2>12, NormalizedFacts, MergeFacts, MergedType DEF Windows, Listed
    <3>2. home.channels # Absent
      BY <3>1, SettingsAssumption
    <3>3. home'.channels = home.channels
      BY <2>3, <2>5, <2>6, <3>2 DEF OrElse, Ensured
    <3>4. N \in Seq(Channels) /\ ToSet(N) = Listed(win)
      BY <3>1, ChannelsAreLines
    <3>5. s.p1 = Within(N, eng'.main) /\ s.p2 = Without(N, eng'.main)
      BY <3>3, ConstantTypes DEF Split, Windows
    <3> HIDE DEF N
    <3>6. /\ Within(N, eng'.main) \in Seq(Channels) /\ ToSet(Within(N, eng'.main)) = ToSet(N) \cap eng'.main
          /\ Without(N, eng'.main) \in Seq(Channels) /\ ToSet(Without(N, eng'.main)) = ToSet(N) \ eng'.main
      BY <3>4, PartFacts
    <3>7. /\ ToSet(Normalized(Within(N, eng'.main))) = ToSet(N) \cap eng'.main
          /\ ToSet(Normalized(Without(N, eng'.main))) = ToSet(N) \ eng'.main
      BY <3>6, ChannelsAreLines
    <3>8. win'.p1 = Within(N, eng'.main) /\ win'.p2 = Without(N, eng'.main)
      BY <2>10, <3>5
    <3>9. Listed(win') = (ToSet(N) \cap eng'.main) \cup (ToSet(N) \ eng'.main)
      BY <3>7, <3>8 DEF Listed
    <3> QED
      BY <3>4, <3>9
  <2> QED
    BY <2>11, <2>12
<1> QED
  BY <1>1, Inductive, PTL DEF SettingsKept, Spec

(* stage1_collect, read_stage1_configs and stage2_test neither lose a link  *)
(* nor test it twice: each line of the first file is in exactly one list of *)
(* the report of a finished run.                                            *)
THEOREM Accounted == Spec => []AllAccounted
<1>1. IInv => AllAccounted
  <2> SUFFICES ASSUME IInv, phase = "done"
               PROVE  /\ \A c \in Channels : \A l \in ToSet(picked[c]) :
                           Cardinality({i \in DOMAIN stage1 : Key(stage1[i]) = Key(l)}) = 1
                      /\ \A l \in ToSet(stage1) :
                           Cardinality({i \in DOMAIN results : results[i].link = l})
                             = IF l \in skipped \cup foreign THEN 0 ELSE 1
                      /\ Len(out.sub) + Len(out.proxy) + Cardinality(out.dead) + Cardinality(out.foreign)
                           + Cardinality(skipped) = Len(stage1)
    BY DEF AllAccounted
  <2> USE DEF IInv
  <2>1. stage1 = collected /\ Distinct(collected) /\ \A c \in Channels : KeysOf(picked[c]) \subseteq KeysOf(collected)
    BY DEF ListInv
  <2>2. ASSUME NEW c \in Channels, NEW l \in ToSet(picked[c])
        PROVE  Cardinality({i \in DOMAIN stage1 : Key(stage1[i]) = Key(l)}) = 1
    <3>1. Key(l) \in KeysOf(picked[c])
      BY DEF ToSet, KeysOf
    <3>2. PICK i \in DOMAIN stage1 : Key(stage1[i]) = Key(l)
      BY <2>1, <3>1 DEF KeysOf
    <3>3. {j \in DOMAIN stage1 : Key(stage1[j]) = Key(l)} = {i}
      BY <2>1, <3>2 DEF Distinct
    <3> QED
      BY <3>3, FS_Singleton
  <2>3. /\ Len(out.sub) + Len(out.proxy) + Cardinality(out.dead) = Len(results)
        /\ out.foreign = foreign /\ todo = {}
    BY DEF OutInv
  <2>4. /\ results \in Seq(Results) /\ ToSet(loaded) = skipped \cup foreign \cup Links(results)
        /\ skipped \cap Links(results) = {} /\ skipped \subseteq Parsed /\ Links(results) \subseteq Parsed
        /\ foreign \cap Parsed = {}
        /\ \A i, j \in DOMAIN results : results[i].link = results[j].link => i = j
    BY <2>3 DEF TestInv
  <2>5. loaded \in Seq(Link) /\ Distinct(loaded) /\ Len(loaded) = Len(stage1) /\ ToSet(loaded) = ToSet(stage1)
    BY DEF ListInv
  <2>6. IsFiniteSet(ToSet(loaded)) /\ Cardinality(ToSet(loaded)) = Len(stage1)
    <3>1. IsFiniteSet(DOMAIN loaded) /\ Cardinality(DOMAIN loaded) = Len(loaded)
      BY <2>5, ListFinite
    <3>2. \A i, j \in DOMAIN loaded : loaded[i] = loaded[j] => i = j
      BY <2>5 DEF Distinct
    <3>3. ToSet(loaded) = {loaded[i] : i \in DOMAIN loaded}
      BY DEF ToSet
    <3> QED
      BY <2>5, <3>1, <3>2, <3>3, ImageSize
  <2>7. IsFiniteSet(Links(results)) /\ Cardinality(Links(results)) = Len(results)
    <3> DEFINE f == [i \in DOMAIN results |-> results[i].link]
    <3>1. IsFiniteSet(DOMAIN results) /\ Cardinality(DOMAIN results) = Len(results)
      BY <2>4, ListFinite
    <3>2. DOMAIN f = DOMAIN results /\ \A i, j \in DOMAIN results : f[i] = f[j] => i = j
      BY <2>4
    <3>3. Links(results) = {f[i] : i \in DOMAIN results}
      BY DEF Links
    <3> HIDE DEF f
    <3> QED
      BY <3>1, <3>2, <3>3, ImageSize
  <2>8. IsFiniteSet(skipped) /\ IsFiniteSet(foreign)
    BY <2>4, <2>6, FS_Subset
  <2>9. /\ IsFiniteSet(skipped \cup foreign)
        /\ Cardinality(skipped \cup foreign) = Cardinality(skipped) + Cardinality(foreign) - Cardinality(skipped \cap foreign)
    BY <2>8, FS_Union
  <2>10. Cardinality((skipped \cup foreign) \cup Links(results)) =
           Cardinality(skipped \cup foreign) + Cardinality(Links(results))
             - Cardinality((skipped \cup foreign) \cap Links(results))
    BY <2>7, <2>9, FS_Union
  <2>11. Cardinality(skipped \cap foreign) = 0 /\ Cardinality((skipped \cup foreign) \cap Links(results)) = 0
    <3>1. skipped \cap foreign = {} /\ (skipped \cup foreign) \cap Links(results) = {}
      BY <2>4
    <3> QED
      BY <3>1, FS_EmptySet
  <2>12. /\ Cardinality(skipped) \in Nat /\ Cardinality(foreign) \in Nat /\ Len(results) \in Nat
         /\ Cardinality(skipped \cup foreign) \in Nat
    BY <2>4, <2>8, <2>9, FS_CardinalityType, LenProperties
  <2>13. Cardinality(skipped \cup foreign) = Cardinality(skipped) + Cardinality(foreign)
    BY <2>9, <2>11, <2>12
  <2>14. Len(stage1) = Cardinality(skipped) + Cardinality(foreign) + Len(results)
    <3>1. Cardinality((skipped \cup foreign) \cup Links(results)) = Len(stage1)
      BY <2>4, <2>6
    <3> QED
      BY <2>7, <2>10, <2>11, <2>12, <2>13, <3>1
  <2>15. Len(out.sub) + Len(out.proxy) + Cardinality(out.dead) + Cardinality(out.foreign) + Cardinality(skipped) = Len(stage1)
    <3>1. Cardinality(out.foreign) = Cardinality(foreign)
      BY <2>3
    <3>2. Len(out.sub) + Len(out.proxy) + Cardinality(out.dead) + Cardinality(out.foreign) + Cardinality(skipped)
            = Len(results) + Cardinality(foreign) + Cardinality(skipped)
      BY Zenon, <2>3, <3>1
    <3>3. Len(results) + Cardinality(foreign) + Cardinality(skipped) = Len(stage1)
      BY <2>12, <2>14
    <3> QED
      BY <3>2, <3>3
  <2>16. ASSUME NEW l \in ToSet(stage1)
         PROVE  Cardinality({i \in DOMAIN results : results[i].link = l}) = IF l \in skipped \cup foreign THEN 0 ELSE 1
    <3> DEFINE Of == {i \in DOMAIN results : results[i].link = l}
    <3>1. l \in skipped \cup foreign => Of = {}
      BY <2>4 DEF Links
    <3>2. l \notin skipped \cup foreign => \E i \in DOMAIN results : Of = {i}
      <4> SUFFICES ASSUME l \notin skipped \cup foreign PROVE \E i \in DOMAIN results : Of = {i}
        OBVIOUS
      <4>1. PICK i \in DOMAIN results : results[i].link = l
        BY <2>4, <2>5 DEF Links
      <4>2. Of = {i}
        BY <2>4, <4>1
      <4> QED
        BY <4>2
    <3> HIDE DEF Of
    <3>3. Cardinality(Of) = IF l \in skipped \cup foreign THEN 0 ELSE 1
      BY <3>1, <3>2, FS_EmptySet, FS_Singleton
    <3> QED
      BY <3>3 DEF Of
  <2> QED
    BY <2>2, <2>15, <2>16
<1> QED
  BY <1>1, Inductive, PTL

(* What write_partial_outputs and stage2_test write to sub.txt are distinct *)
(* good tests, the fastest first, renamed without a change of what was      *)
(* tested and with names that differ, after an abort as well.               *)
THEOREM OutputsHold == Spec => []OutputsFaithful
<1>1. IInv => OutputsFaithful
  BY DEF IInv, OutInv, OutputsFaithful, Faithful, Named
<1> QED
  BY <1>1, Inductive, PTL
=============================================================================
