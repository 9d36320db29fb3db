--------------------------- MODULE DesktopRun_proofs ---------------------------
(***************************************************************************)
(* For any two lists of channels, any previews and limits, and any numbers  *)
(* of tests, changes and restarts of DesktopRun and the ChannelCollector it *)
(* calls.                                                                   *)
(***************************************************************************)
EXTENDS DesktopRun, FiniteSetTheorems, SequenceTheorems, TLAPS

Bodies == {"waiting", "first", "second", "parsing", "done"}
Done == {c \in Channels : body[c] = "done"}
Owned(c) == {k \in Links : owner[k] = c}

CollectType ==
  /\ phase \in {"idle", "fetching", "returned", "cancelled"}
  /\ stop \in BOOLEAN /\ taken \in 0..Len(Lines)
  /\ body \in [Channels -> Bodies]
  /\ looked \in [Channels -> Nat] /\ count \in [Channels -> Nat]
  /\ owner \in [Links -> Channels \cup {Invalid}] /\ completed \in Nat

(* What a body has counted is what the dictionary holds of it; it has not   *)
(* begun to look before it parses, and never adds more than its limit.      *)
BodyOK(c) ==
  /\ IsFiniteSet(Owned(c)) /\ Cardinality(Owned(c)) = count[c]
  /\ looked[c] <= Len(Page[c]) /\ {Page[c][i] : i \in 1..looked[c]} \subseteq Found \cup {Unparsed}
  /\ body[c] \in {"waiting", "first", "second"} => looked[c] = 0 /\ count[c] = 0
  /\ body[c] = "parsing" => count[c] < Limit(c)
  /\ body[c] = "done" => /\ count[c] <= Limit(c)
                         /\ looked[c] = 0 \/ looked[c] = Len(Page[c]) \/ count[c] >= Limit(c)

(* The bodies of the entries up to the one taken last have begun, those of  *)
(* the others wait.  A call that returned took all and awaited all.         *)
LoopOK ==
  /\ \A i \in Ranked : body[Name(i)] = "waiting" <=> i > taken
  /\ completed = Cardinality(Done)
  /\ phase = "returned" => Done = Channels

CollectInv == CollectType /\ (\A c \in Channels : BodyOK(c)) /\ LoopOK

-----------------------------------------------------------------------------
LEMMA LinesType == Lines \in Seq(DOMAIN NameOf) /\ Len(Lines) \in Nat /\ DOMAIN Lines = 1..Len(Lines)
BY CollectAssumption, ConcatProperties, LenProperties DEF Lines

LEMMA ChannelsFinite == IsFiniteSet(Channels) /\ IsFiniteSet(Ranked) /\ Invalid \notin Channels
<1>1. IsFiniteSet(Ranked)
  <2>1. Ranked \subseteq 1..Len(Lines)
    BY LinesType DEF Ranked
  <2>2. IsFiniteSet(1..Len(Lines))
    BY LinesType, FS_Interval
  <2> QED
    BY <2>1, <2>2, FS_Subset
<1> DEFINE f == [i \in Ranked |-> Name(i)]
<1>2. f \in Surjection(Ranked, Channels)
  BY DEF Surjection, Channels
<1>3. IsFiniteSet(Channels)
  <2> HIDE DEF f
  <2> QED
    BY <1>1, <1>2, FS_Surjection
<1>4. Invalid \notin Channels
  BY DEF Channels, Ranked
<1> QED
  BY <1>1, <1>3, <1>4

(* Two entries of the loop never name the same channel.                     *)
LEMMA RankedDistinct == ASSUME NEW i \in Ranked, NEW j \in Ranked, i # j PROVE Name(i) # Name(j)
<1>1. i \in 1..Len(Lines) /\ j \in 1..Len(Lines) /\ Len(Lines) \in Nat
  BY LinesType DEF Ranked
<1>2. i \in 1..(j - 1) \/ j \in 1..(i - 1)
  BY <1>1
<1> QED
  BY <1>2 DEF Ranked

LEMMA LimitType == \A c : Limit(c) \in Nat /\ Limit(c) >= 1
BY CollectAssumption DEF Limit, Between

LEMMA PageType ==
  ASSUME NEW c \in Channels
  PROVE  /\ Len(Page[c]) \in Nat
         /\ \A i \in 1..Len(Page[c]) : Page[c][i] \in Links \cup {Unparsed}
<1>1. Page[c] \in Seq(Links \cup {Unparsed})
  BY CollectAssumption
<1> QED
  BY <1>1, LenProperties, ElementOfSeq

LEMMA FreshTypes ==
  /\ 0 \in 0..Len(Lines) /\ [c \in Channels |-> "waiting"] \in [Channels -> Bodies]
  /\ [c \in Channels |-> 0] \in [Channels -> Nat]
  /\ [k \in Links |-> Invalid] \in [Links -> Channels \cup {Invalid}]
BY LinesType DEF Bodies

LEMMA FreshCollect ==
  ASSUME phase \in {"idle", "fetching"}, stop = FALSE, taken = 0,
         body = [c \in Channels |-> "waiting"], looked = [c \in Channels |-> 0],
         count = [c \in Channels |-> 0], owner = [k \in Links |-> Invalid], completed = 0
  PROVE  CollectInv
<1>1. CollectType
  BY FreshTypes DEF CollectType
<1>2. ASSUME NEW c \in Channels PROVE BodyOK(c)
  <2>1. Owned(c) = {}
    BY ChannelsFinite DEF Owned
  <2>2. {Page[c][i] : i \in 1..looked[c]} = {}
    OBVIOUS
  <2> QED
    BY <2>1, <2>2, FS_EmptySet, PageType DEF BodyOK
<1>3. Done = {}
  BY DEF Done
<1>4. \A i \in Ranked : i > 0 /\ Name(i) \in Channels
  BY LinesType DEF Ranked, Channels
<1> QED
  BY <1>1, <1>2, <1>3, <1>4, FS_EmptySet DEF CollectInv, LoopOK

LEMMA FreshKeeps == ASSUME NEW p \in {"idle", "fetching"}, Fresh(p) PROVE CollectInv'
<1>1. /\ phase' = p /\ stop' = FALSE /\ taken' = 0
      /\ body' = [c \in Channels |-> "waiting"] /\ looked' = [c \in Channels |-> 0]
      /\ count' = [c \in Channels |-> 0] /\ owner' = [k \in Links |-> Invalid] /\ completed' = 0
  BY DEF Fresh
<1>2. CollectType'
  BY <1>1, FreshTypes DEF CollectType
<1>3. ASSUME NEW c \in Channels PROVE BodyOK(c)'
  <2>1. Owned(c)' = {}
    BY <1>1, ChannelsFinite DEF Owned
  <2>2. {Page[c][i] : i \in 1..looked'[c]} = {}
    BY <1>1
  <2> QED
    BY <1>1, <2>1, <2>2, FS_EmptySet, PageType DEF BodyOK
<1>4. Done' = {}
  BY <1>1 DEF Done
<1>5. \A i \in Ranked : i > 0 /\ Name(i) \in Channels
  BY LinesType DEF Ranked, Channels
<1> QED
  BY <1>1, <1>2, <1>3, <1>4, <1>5, FS_EmptySet DEF CollectInv, LoopOK

LEMMA SameCollect == ASSUME CollectInv, UNCHANGED collectVars PROVE CollectInv'
BY DEF collectVars, CollectInv, CollectType, BodyOK, LoopOK, Owned, Found, Done

(* A body that ends is counted.                                             *)
LEMMA EndCounts ==
  ASSUME CollectInv, NEW c \in Channels, body[c] # "done", body[c] # "waiting", phase # "returned", EndBody(c), phase' = phase,
         taken' = taken
  PROVE  LoopOK' /\ body' \in [Channels -> Bodies] /\ completed' \in Nat
<1>1. \A d \in Channels : body'[d] = IF d = c THEN "done" ELSE body[d]
  BY DEF EndBody, CollectInv, CollectType
<1>2. Done' = Done \cup {c} /\ c \notin Done
  BY <1>1 DEF Done
<1>3. Cardinality(Done') = Cardinality(Done) + 1
  <2>1. IsFiniteSet(Done)
    BY ChannelsFinite, FS_Subset DEF Done
  <2> QED
    BY <1>2, <2>1, FS_AddElement
<1>4. \A i \in Ranked : Name(i) \in Channels
  BY DEF Channels
<1> QED
  BY <1>1, <1>3, <1>4 DEF EndBody, CollectInv, CollectType, LoopOK, Bodies

LEMMA StepTake == CollectInv /\ Take => CollectInv'
<1> SUFFICES ASSUME CollectInv, Take PROVE CollectInv'
  OBVIOUS
<1>1. PICK i \in Left : (\A j \in Left : i <= j) /\ taken' = i /\ body' = [body EXCEPT ![Name(i)] = "first"]
  BY DEF Take
<1>2. UNCHANGED <<phase, stop, looked, count, owner, completed>> /\ phase = "fetching"
  BY DEF Take
<1>3. i \in Ranked /\ i > taken /\ Name(i) \in Channels /\ i \in 1..Len(Lines) /\ taken \in Nat
  BY LinesType DEF Left, Ranked, Channels, CollectInv, CollectType
<1>4. \A d \in Channels : body'[d] = IF d = Name(i) THEN "first" ELSE body[d]
  BY <1>1 DEF CollectInv, CollectType
<1>5. CollectType'
  BY <1>1, <1>2, <1>3, LinesType DEF CollectInv, CollectType, Bodies
<1>6. body[Name(i)] = "waiting"
  BY <1>3 DEF CollectInv, LoopOK
<1>7. ASSUME NEW d \in Channels PROVE BodyOK(d)'
  <2>1. BodyOK(d)
    BY DEF CollectInv
  <2> QED
    BY <1>2, <1>4, <1>6, <2>1 DEF BodyOK, Owned, Found
<1>8. \A j \in Ranked : body'[Name(j)] = "waiting" <=> j > i
  <2> TAKE j \in Ranked
  <2>1. j \in Nat /\ Name(j) \in Channels /\ (body[Name(j)] = "waiting" <=> j > taken)
    BY LinesType DEF Ranked, Channels, CollectInv, LoopOK
  <2>2. CASE j = i
    BY <1>3, <1>4, <2>2
  <2>3. CASE j # i
    <3>1. Name(j) # Name(i)
      BY <1>3, <2>3, RankedDistinct
    <3>2. j > taken => j >= i
      BY <1>1 DEF Left
    <3> QED
      BY <1>3, <1>4, <2>1, <2>3, <3>1, <3>2
  <2> QED
    BY <2>2, <2>3
<1>9. Done' = Done
  BY <1>4, <1>6 DEF Done
<1> QED
  BY <1>1, <1>2, <1>5, <1>7, <1>8, <1>9 DEF CollectInv, LoopOK

(* A match is looked at: the link belongs to this body, or to one that      *)
(* added it before, or it does not parse.                                   *)
LEMMA StepParse == ASSUME CollectInv, phase # "returned", NEW c \in Channels, Parse(c) PROVE CollectInv'
<1> DEFINE n == looked[c] + 1
           k == Page[c][n]
           added == k # Unparsed /\ owner[k] = Invalid
<1>1. /\ body[c] = "parsing" /\ looked[c] < Len(Page[c]) /\ looked' = [looked EXCEPT ![c] = @ + 1]
      /\ count' = IF added THEN [count EXCEPT ![c] = @ + 1] ELSE count
      /\ owner' = IF added THEN [owner EXCEPT ![k] = c] ELSE owner
      /\ IF added /\ count[c] + 1 >= Limit(c) THEN EndBody(c) ELSE UNCHANGED <<body, completed>>
      /\ UNCHANGED <<phase, stop, taken>>
  BY DEF Parse
<1>2. BodyOK(c) /\ looked[c] \in Nat /\ count[c] \in Nat /\ n \in 1..Len(Page[c]) /\ k \in Links \cup {Unparsed}
  <2>1. BodyOK(c) /\ looked[c] \in Nat /\ count[c] \in Nat
    BY DEF CollectInv, CollectType
  <2> QED
    BY <1>1, <2>1, PageType
<1>3. LoopOK' /\ body' \in [Channels -> Bodies] /\ completed' \in Nat
  <2>1. CASE EndBody(c)
    BY <1>1, <2>1, EndCounts
  <2>2. CASE UNCHANGED <<body, completed>>
    BY <1>1, <2>2 DEF CollectInv, CollectType, LoopOK, Done
  <2> QED
    BY <1>1, <2>1, <2>2
<1>4. /\ looked'[c] = n /\ \A d \in Channels : d # c => looked'[d] = looked[d]
      /\ looked' \in [Channels -> Nat]
  BY <1>1, <1>2 DEF CollectInv, CollectType
<1>5. /\ count'[c] = count[c] + (IF added THEN 1 ELSE 0) /\ \A d \in Channels : d # c => count'[d] = count[d]
      /\ count' \in [Channels -> Nat]
  BY <1>1, <1>2 DEF CollectInv, CollectType
<1>6. added => k \in Links /\ \A x \in Links : owner'[x] = IF x = k THEN c ELSE owner[x]
  BY <1>1, <1>2 DEF CollectInv, CollectType
<1>7. owner' \in [Links -> Channels \cup {Invalid}]
  BY <1>1, <1>2 DEF CollectInv, CollectType
<1> HIDE DEF added
<1>8. Found' = IF added THEN Found \cup {k} ELSE Found
  <2>1. c # Invalid
    BY ChannelsFinite
  <2>2. CASE added
    BY <1>6, <2>1, <2>2 DEF Found, added
  <2>3. CASE ~added
    BY <1>1, <2>3 DEF Found
  <2> QED
    BY <2>2, <2>3
<1>9. k \in Found' \cup {Unparsed}
  BY <1>2, <1>8 DEF Found, added
<1>10. Owned(c)' = IF added THEN Owned(c) \cup {k} ELSE Owned(c)
  BY <1>1, <1>6 DEF Owned
<1>11. added => k \notin Owned(c)
  BY ChannelsFinite DEF Owned, added
<1>12. \A d \in Channels : d # c => Owned(d)' = Owned(d)
  <2> SUFFICES ASSUME NEW d \in Channels, d # c PROVE Owned(d)' = Owned(d)
    OBVIOUS
  <2>1. CASE added
    <3>1. owner[k] # d
      BY <2>1, ChannelsFinite DEF added
    <3> QED
      BY <1>6, <2>1, <3>1 DEF Owned
  <2>2. CASE ~added
    BY <1>1, <2>2 DEF Owned
  <2> QED
    BY <2>1, <2>2
<1>13. \A d \in Channels : d # c => body'[d] = body[d]
  BY <1>1 DEF EndBody, CollectInv, CollectType
<1>14. body'[c] = IF added /\ count[c] + 1 >= Limit(c) THEN "done" ELSE "parsing"
  BY <1>1 DEF EndBody, CollectInv, CollectType
<1>15. BodyOK(c)'
  <2>1. IsFiniteSet(Owned(c)') /\ Cardinality(Owned(c)') = count'[c]
    <3>1. IsFiniteSet(Owned(c)) /\ Cardinality(Owned(c)) = count[c]
      BY <1>2 DEF BodyOK
    <3>2. CASE added
      <4>1. IsFiniteSet(Owned(c) \cup {k}) /\ Cardinality(Owned(c) \cup {k}) = Cardinality(Owned(c)) + 1
        BY <1>11, <3>1, <3>2, FS_AddElement
      <4> QED
        BY <1>5, <1>10, <3>1, <3>2, <4>1
    <3>3. CASE ~added
      BY <1>2, <1>5, <1>10, <3>1, <3>3
    <3> QED
      BY <3>2, <3>3
  <2>2. {Page[c][i] : i \in 1..looked'[c]} \subseteq Found' \cup {Unparsed}
    <3>1. \A i \in 1..n : i = n \/ i \in 1..looked[c]
      BY <1>2
    <3>2. \A i \in 1..looked[c] : Page[c][i] \in Found \cup {Unparsed}
      BY <1>2 DEF BodyOK
    <3> QED
      BY <1>4, <1>8, <1>9, <3>1, <3>2
  <2>3. looked'[c] <= Len(Page[c]) /\ looked'[c] > 0
    BY <1>2, <1>4
  <2>4. count[c] < Limit(c) /\ Limit(c) \in Nat
    BY <1>1, <1>2, LimitType DEF BodyOK
  <2>5. body'[c] = "parsing" => count'[c] < Limit(c)
    BY <1>2, <1>5, <1>14, <2>4
  <2>6. body'[c] = "done" => count'[c] <= Limit(c) /\ count'[c] >= Limit(c)
    BY <1>2, <1>5, <1>14, <2>4
  <2> HIDE DEF n, k
  <2> QED
    BY <1>14, <2>1, <2>2, <2>3, <2>5, <2>6 DEF BodyOK
<1>16. ASSUME NEW d \in Channels, d # c PROVE BodyOK(d)'
  <2>1. BodyOK(d) /\ Found \subseteq Found'
    BY <1>8 DEF CollectInv
  <2>2. /\ Owned(d)' = Owned(d) /\ looked'[d] = looked[d] /\ count'[d] = count[d] /\ body'[d] = body[d]
    BY <1>4, <1>5, <1>12, <1>13, <1>16
  <2> QED
    BY <2>1, <2>2 DEF BodyOK
<1> QED
  BY <1>1, <1>3, <1>4, <1>5, <1>7, <1>15, <1>16 DEF CollectInv, CollectType

(* The other steps of a body, which add nothing.                            *)
LEMMA StepBody == ASSUME CollectInv, phase # "returned", NEW c \in Channels, BodyStep(c) PROVE CollectInv'
<1>1. ASSUME UNCHANGED <<phase, stop, taken, looked, count, owner>>, LoopOK', completed' \in Nat,
             body' \in [Channels -> Bodies], \A d \in Channels : d # c => body'[d] = body[d],
             \/ body[c] \in {"first", "second"} /\ body'[c] \in {"second", "parsing", "done"}
             \/ body[c] = "parsing" /\ body'[c] = "done" /\ looked[c] = Len(Page[c])
      PROVE  CollectInv'
  <2>1. ASSUME NEW d \in Channels PROVE BodyOK(d)'
    <3>1. BodyOK(d) /\ count[d] \in Nat /\ Limit(d) \in Nat /\ Limit(d) >= 1
      BY LimitType DEF CollectInv, CollectType
    <3>2. Owned(d)' = Owned(d) /\ Found' = Found
      BY <1>1 DEF Owned, Found
    <3> QED
      BY <1>1, <3>1, <3>2 DEF BodyOK
  <2> QED
    BY <1>1, <2>1 DEF CollectInv, CollectType
<1>2. ASSUME body[c] \in {"first", "second"}, NEW b \in {"second", "parsing"}, body' = [body EXCEPT ![c] = b],
             UNCHANGED <<phase, stop, taken, looked, count, owner, completed>>
      PROVE  CollectInv'
  <2>1. \A d \in Channels : body'[d] = IF d = c THEN b ELSE body[d]
    BY <1>2 DEF CollectInv, CollectType
  <2>2. Done' = Done
    BY <1>2, <2>1 DEF Done
  <2>3. LoopOK'
    <3>1. \A i \in Ranked : Name(i) \in Channels
      BY DEF Channels
    <3> QED
      BY <1>2, <2>1, <2>2, <3>1 DEF CollectInv, LoopOK
  <2> QED
    BY <1>1, <1>2, <2>1, <2>3 DEF CollectInv, CollectType, Bodies
<1>3. ASSUME body[c] \in {"first", "second"} \/ (body[c] = "parsing" /\ looked[c] = Len(Page[c])), EndBody(c),
             UNCHANGED <<phase, stop, taken, looked, count, owner>>
      PROVE  CollectInv'
  <2>1. \A d \in Channels : body'[d] = IF d = c THEN "done" ELSE body[d]
    BY <1>3 DEF EndBody, CollectInv, CollectType
  <2>2. LoopOK' /\ body' \in [Channels -> Bodies] /\ completed' \in Nat
    BY <1>3, EndCounts
  <2> QED
    BY <1>1, <1>3, <2>1, <2>2
<1>4. CASE Answer(c)
  BY <1>2, <1>4 DEF Answer
<1>5. CASE FirstFails(c)
  BY <1>2, <1>3, <1>5 DEF FirstFails
<1>6. CASE SecondFails(c)
  BY <1>3, <1>6 DEF SecondFails
<1>7. CASE ParseEnds(c)
  BY <1>3, <1>7 DEF ParseEnds
<1> QED
  BY <1>4, <1>5, <1>6, <1>7, StepParse DEF BodyStep

LEMMA StepCollect == CollectInv /\ CollectStep => CollectInv'
<1> SUFFICES ASSUME CollectInv, CollectStep PROVE CollectInv'
  OBVIOUS
<1>1. CASE Complete
  <2>1. UNCHANGED <<stop, taken, body, looked, count, owner, completed>>
    BY <1>1 DEF Complete
  <2>2. phase' \in {"returned", "cancelled"} /\ (phase' = "returned" => Active = {} /\ Left = {})
    BY <1>1 DEF Complete
  <2>3. phase' = "returned" => Done = Channels
    <3> SUFFICES ASSUME Active = {}, Left = {}, NEW c \in Channels PROVE body[c] = "done"
      BY <2>2 DEF Done
    <3>1. PICK i \in Ranked : c = Name(i)
      BY DEF Channels
    <3>2. ~(i > taken)
      BY DEF Left
    <3>3. body[c] # "waiting" /\ body[c] \in Bodies
      BY <3>1, <3>2 DEF CollectInv, CollectType, LoopOK
    <3> QED
      BY <3>3 DEF Active, Bodies
  <2>4. \A c \in Channels : BodyOK(c)'
    BY <2>1 DEF CollectInv, BodyOK, Owned, Found
  <2>5. Done' = Done
    BY <2>1 DEF Done
  <2> QED
    BY <2>1, <2>2, <2>3, <2>4, <2>5 DEF CollectInv, CollectType, LoopOK
<1>2. ASSUME NEW c \in Channels, BodyStep(c) PROVE CollectInv'
  <2>1. phase # "returned"
    BY <1>2 DEF CollectInv, LoopOK, Done, BodyStep, Answer, FirstFails, SecondFails, Parse, ParseEnds
  <2> QED
    BY <1>2, <2>1, StepBody
<1> QED
  BY <1>1, <1>2, StepTake DEF CollectStep

LEMMA CollectAccounted == CollectInv => LinksAccounted
<1> SUFFICES ASSUME CollectInv, phase = "returned"
             PROVE  /\ completed = Cardinality(Channels)
                    /\ \A c \in Channels :
                         LET own == {k \in Links : owner[k] = c}
                             read == {Page[c][i] : i \in 1..looked[c]}
                             all == {Page[c][i] : i \in DOMAIN Page[c]}
                         IN /\ Cardinality(own) <= Limit(c)
                            /\ read \subseteq Found \cup {Unparsed}
                            /\ looked[c] > 0 /\ Cardinality(own) < Limit(c) =>
                                 all \subseteq Found \cup {Unparsed}
  BY DEF LinksAccounted
<1>1. Done = Channels /\ completed = Cardinality(Channels)
  BY DEF CollectInv, LoopOK
<1>2. ASSUME NEW c \in Channels
      PROVE  /\ Cardinality(Owned(c)) <= Limit(c)
             /\ {Page[c][i] : i \in 1..looked[c]} \subseteq Found \cup {Unparsed}
             /\ looked[c] > 0 /\ Cardinality(Owned(c)) < Limit(c) =>
                  {Page[c][i] : i \in DOMAIN Page[c]} \subseteq Found \cup {Unparsed}
  <2>1. BodyOK(c) /\ body[c] = "done" /\ looked[c] \in Nat /\ count[c] \in Nat /\ Limit(c) \in Nat
    BY <1>1, LimitType DEF CollectInv, CollectType, Done
  <2>2. DOMAIN Page[c] = 1..Len(Page[c])
    BY CollectAssumption, LenProperties
  <2> QED
    BY <2>1, <2>2 DEF BodyOK
<1> QED
  BY <1>1, <1>2 DEF Owned

-----------------------------------------------------------------------------
(* The window.                                                              *)
OfKind(f, ls) ==
  /\ f = "sub" => ls \subseteq Links \ Proxies
  /\ f = "proxy" => ls \subseteq Links \cap Proxies
  /\ f = "report" => ls \subseteq Links

DeskType ==
  /\ op \in {"none", "collect", "test", "write", "publish", "closed"}
  /\ controls \in Settings /\ settings \in Settings /\ options \in Settings
  /\ collected \subseteq Links
  /\ results.tested \subseteq Links /\ results.alive \subseteq results.tested
  /\ changes \in Nat /\ test \in Nat /\ file \in 0..3 /\ exits \in Nat
  /\ disk \in [Files -> {Torn} \cup Contents]
  /\ \A f \in Files : disk[f] # Torn => disk[f].test \in 0..test /\ OfKind(f, disk[f].links)

(* A write has filled the files up to its counter with the content of its   *)
(* test under its options; no other operation begins with a counter.        *)
Filled ==
  /\ op = "write" => \A i \in 1..file : disk[Names[i]] = Content(Names[i])
  /\ op \notin {"write", "publish"} => file = 0

DeskInv == CollectInv /\ DeskType /\ Filled

LEMMA NamesFacts ==
  /\ Len(Names) = 3 /\ Names[1] = "sub" /\ Names[2] = "proxy" /\ Names[3] = "report"
  /\ Files = {"sub", "proxy", "report"}
<1>1. Len(Names) = 3 /\ Names[1] = "sub" /\ Names[2] = "proxy" /\ Names[3] = "report" /\ DOMAIN Names = 1..3
  BY DEF Names
<1>2. Files = {Names[i] : i \in 1..3}
  BY <1>1 DEF Files
<1>3. 1..3 = {1, 2, 3}
  OBVIOUS
<1>4. Files = {Names[1], Names[2], Names[3]}
  BY <1>2, <1>3
<1> QED
  BY <1>1, <1>4

(* What the content of a file is, one file at a time.                       *)
LEMMA ContentParts ==
  /\ Content("sub") = [test |-> test, links |-> (results.alive \cap Wanted(options)) \ Proxies]
  /\ Content("proxy") = [test |-> test, links |-> results.alive \cap Wanted(options) \cap Proxies]
  /\ Content("report") = [test |-> test, links |-> results.tested]
BY Zenon DEF Content

LEMMA ContentType ==
  ASSUME DeskType, NEW f \in Files
  PROVE  /\ Content(f) \in Contents /\ Content(f) # Torn /\ Content(f).test = test
         /\ OfKind(f, Content(f).links)
<1>1. results.alive \subseteq Links /\ results.tested \subseteq Links /\ test \in Nat
  BY DEF DeskType
<1>2. CASE f = "sub"
  BY <1>1, <1>2, ContentParts, DesktopAssumption DEF Contents, OfKind
<1>3. CASE f = "proxy"
  BY <1>1, <1>3, ContentParts, DesktopAssumption DEF Contents, OfKind
<1>4. CASE f = "report"
  BY <1>1, <1>4, ContentParts, DesktopAssumption DEF Contents, OfKind
<1> QED
  BY <1>2, <1>3, <1>4, NamesFacts

LEMMA ContentSame ==
  ASSUME NEW f \in Files, UNCHANGED <<test, results, options>> PROVE Content(f)' = Content(f)
<1>1. test' = test /\ results' = results /\ options' = options
  OBVIOUS
<1>2. Wanted(options)' = Wanted(options)
  BY <1>1 DEF Wanted
<1> QED
  BY <1>1, <1>2 DEF Content

LEMMA InitDesk == Init => DeskInv
<1> SUFFICES ASSUME Init PROVE DeskInv
  OBVIOUS
<1>1. CollectInv
  BY FreshCollect DEF Init, CollectInit
<1>2. \A f \in Files : disk[f] = [test |-> 0, links |-> {}]
  BY DEF Init
<1>3. disk \in [Files -> {Torn} \cup Contents]
  BY DEF Init, Contents
<1>4. \A f \in Files : disk[f] # Torn => disk[f].test \in 0..test /\ OfKind(f, disk[f].links)
  BY <1>2 DEF Init, OfKind
<1>5. DeskType
  BY <1>3, <1>4, DesktopAssumption DEF Init, DeskType, Settings, Defaults, NoResults
<1> QED
  BY <1>1, <1>5 DEF Init, DeskInv, Filled

(* A step that leaves the files alone.                                      *)
LEMMA QuietDesk ==
  ASSUME DeskInv, CollectInv',
         op' \in {"none", "collect", "test", "write", "publish", "closed"},
         controls' \in Settings, settings' \in Settings, options' \in Settings,
         collected' \subseteq Links,
         results'.tested \subseteq Links, results'.alive \subseteq results'.tested,
         changes' \in Nat, exits' \in Nat, test' \in Nat, test' >= test, file' \in 0..3, disk' = disk,
         Filled'
  PROVE  DeskInv'
<1>1. \A f \in Files : disk'[f] # Torn => disk'[f].test \in 0..test' /\ OfKind(f, disk'[f].links)
  BY DEF DeskInv, DeskType
<1>2. DeskType'
  BY <1>1 DEF DeskInv, DeskType
<1> QED
  BY <1>2 DEF DeskInv

(* The operation ends; what the user has and what is on disk stay.          *)
LEMMA EndDesk ==
  ASSUME DeskInv, NEW next \in {"none", "closed"}, EndOperation(next),
         controls' = controls, settings' \in Settings, collected' \subseteq Links,
         results' \in {results, NoResults}, changes' = changes, exits' \in Nat,
         UNCHANGED <<test, disk>>
  PROVE  DeskInv'
<1>1. CollectInv' /\ op' = next /\ options' = Defaults /\ file' = 0
  BY FreshKeeps DEF EndOperation
<1>2. results'.tested \subseteq Links /\ results'.alive \subseteq results'.tested
  BY DEF DeskInv, DeskType, NoResults
<1>3. Filled'
  BY <1>1 DEF Filled
<1>4. Defaults \in Settings
  BY DEF Defaults, Settings
<1> QED
  BY <1>1, <1>2, <1>3, <1>4, QuietDesk DEF DeskInv, DeskType

(* A step that changes nothing an output depends on.                        *)
LEMMA SameDesk ==
  ASSUME DeskInv, CollectInv', op' = op \/ (op \notin {"write", "publish"} /\ op' \in {"none", "collect", "test"}),
         controls' \in Settings, settings' \in Settings, collected' \subseteq Links,
         results' = results \/ (op' # "write" /\ results' = NoResults),
         changes' \in Nat, UNCHANGED <<exits, test, options, file, disk>>
  PROVE  DeskInv'
<1>1. results'.tested \subseteq Links /\ results'.alive \subseteq results'.tested
  BY DEF DeskInv, DeskType, NoResults
<1>2. Filled'
  <2>1. CASE op' = "write"
    <3>1. op = "write" /\ UNCHANGED <<test, results, options, file, disk>>
      BY <2>1
    <3>2. \A i \in 1..file : Names[i] \in Files /\ Content(Names[i])' = Content(Names[i])
      <4>1. \A i \in 1..file : Names[i] \in Files
        BY NamesFacts DEF DeskInv, DeskType, Files, Names
      <4> QED
        BY <3>1, <4>1, ContentSame
    <3> QED
      BY <2>1, <3>1, <3>2 DEF DeskInv, Filled
  <2>2. CASE op' # "write"
    BY <2>2 DEF DeskInv, Filled
  <2> QED
    BY <2>1, <2>2
<1> QED
  BY <1>1, <1>2, QuietDesk DEF DeskInv, DeskType

LEMMA ChangeType == ASSUME controls \in Settings, NEW field \in Changeable PROVE [controls EXCEPT ![field] = ~@] \in Settings
<1>1. field \in {"configs", "proxies", "token"}
  BY DesktopAssumption
<1>2. CASE field = "configs"
  BY <1>2 DEF Settings
<1>3. CASE field = "proxies"
  BY <1>3 DEF Settings
<1>4. CASE field = "token"
  BY <1>4 DEF Settings
<1> QED
  BY <1>1, <1>2, <1>3, <1>4

(* The next file is opened, or filled.                                      *)
LEMMA StepFile ==
  ASSUME DeskInv, NEW f \in Files, OpenFile(f) \/ FillFile(f) PROVE DeskInv'
<1>1. /\ op = "write" /\ file < 3 /\ f = Names[file + 1] /\ file \in Nat
      /\ UNCHANGED <<collectVars, userVars, op, collected, results, test, options, given, shown>>
  BY NamesFacts DEF OpenFile, FillFile, Writing, callVars, DeskInv, DeskType
<1>2. UNCHANGED <<controls, changes, settings, exits>> /\ CollectInv'
  BY <1>1, SameCollect DEF userVars, DeskInv
<1>3. PICK v \in {Torn, Content(f)} : disk' = [disk EXCEPT ![f] = v] /\ ((v = Content(f) /\ file' = file + 1) \/ file' = file)
  BY DEF OpenFile, FillFile, callVars
<1>4. \A g \in Files : disk'[g] = IF g = f THEN v ELSE disk[g]
  BY <1>3 DEF DeskInv, DeskType
<1>5. Content(f) \in Contents /\ Content(f) # Torn /\ Content(f).test = test /\ OfKind(f, Content(f).links)
  BY ContentType DEF DeskInv
<1>6. disk' \in [Files -> {Torn} \cup Contents]
  BY <1>3, <1>5 DEF DeskInv, DeskType
<1>7. \A g \in Files : disk'[g] # Torn => disk'[g].test \in 0..test /\ OfKind(g, disk'[g].links)
  BY <1>3, <1>4, <1>5 DEF DeskInv, DeskType
<1>8. \A i \in 1..file' : disk'[Names[i]] = Content(Names[i])'
  <2> SUFFICES ASSUME NEW i \in 1..file' PROVE disk'[Names[i]] = Content(Names[i])'
    OBVIOUS
  <2>1. i \in 1..3 /\ (i = file + 1 \/ i \in 1..file) /\ file' \in {file, file + 1}
    BY <1>1, <1>3
  <2>2. Names[i] \in Files
    BY <2>1, NamesFacts
  <2>3. Content(Names[i])' = Content(Names[i])
    BY <1>1, <2>2, ContentSame
  <2>4. CASE i \in 1..file
    <3>1. Names[i] # f
      BY <1>1, <2>4, NamesFacts
    <3> QED
      BY <1>1, <1>4, <2>2, <2>3, <2>4, <3>1 DEF DeskInv, Filled
  <2>5. CASE i = file + 1
    <3>1. Names[i] = f /\ v = Content(f)
      BY <1>1, <1>3, <2>5
    <3> QED
      BY <1>4, <2>2, <2>3, <3>1
  <2> QED
    BY <2>1, <2>4, <2>5
<1>9. file' \in 0..3
  BY <1>1, <1>3
<1> QED
  BY <1>1, <1>2, <1>6, <1>7, <1>8, <1>9 DEF DeskInv, DeskType, Filled

LEMMA StepDesk == DeskInv /\ [Next]_vars => DeskInv'
<1> SUFFICES ASSUME DeskInv, [Next]_vars PROVE DeskInv'
  OBVIOUS
<1>1. /\ controls \in Settings /\ settings \in Settings /\ options \in Settings
      /\ collected \subseteq Links /\ changes \in Nat /\ exits \in Nat /\ test \in Nat /\ CollectInv
  BY DEF DeskInv, DeskType
<1>2. Defaults \in Settings
  BY DEF Defaults, Settings
<1>3. ASSUME NEW field \in Changeable, Change(field) PROVE DeskInv'
  <2>1. controls' \in Settings
    BY <1>1, <1>3, ChangeType DEF Change
  <2> QED
    BY <1>1, <1>3, <2>1, SameCollect, SameDesk DEF Change, callVars
<1>4. CASE Save
  <2>1. CollectInv'
    BY <1>1, <1>4, SameCollect DEF Save
  <2>2. op' = op
    BY <1>4 DEF Save
  <2>3. controls' \in Settings /\ settings' \in Settings /\ collected' \subseteq Links
    BY <1>1, <1>4 DEF Save
  <2>4. results' = results /\ changes' \in Nat
    BY <1>1, <1>4 DEF Save
  <2>5. UNCHANGED <<exits, test, options, file, disk>>
    BY <1>4 DEF Save, callVars
  <2> QED
    BY <2>1, <2>2, <2>3, <2>4, <2>5, SameDesk
<1>5. CASE Collect
  <2>1. CollectInv'
    BY <1>5, FreshKeeps DEF Collect
  <2> QED
    BY <1>1, <1>5, <2>1, SameDesk DEF Collect, callVars
<1>6. CASE Collecting
  <2>1. CollectInv'
    BY <1>1, <1>6, StepCollect DEF Collecting
  <2> QED
    BY <1>1, <1>6, <2>1, SameDesk DEF Collecting, deskVars, userVars, callVars
<1>7. CASE Collected \/ CollectStopped \/ TestStopped
  BY <1>1, <1>7, EndDesk DEF Collected, CollectStopped, TestStopped, userVars, Found
<1>8. CASE Test
  BY <1>1, <1>8, SameCollect, SameDesk DEF Test, callVars
<1>9. ASSUME NEW A \in SUBSET collected, TestReturns(A) PROVE DeskInv'
  <2>1. /\ op' = "write" /\ file' = 0 /\ options' = settings /\ test' = test + 1 /\ disk' = disk
        /\ results'.tested = collected /\ results'.alive = A
        /\ UNCHANGED <<collectVars, controls, changes, settings, exits, collected>>
    BY <1>9 DEF TestReturns, userVars, DeskInv, Filled
  <2>2. Filled' /\ CollectInv'
    BY <1>1, <2>1, SameCollect DEF Filled
  <2> QED
    BY <1>1, <2>1, <2>2, QuietDesk
<1>10. CASE \E f \in Files : OpenFile(f) \/ FillFile(f)
  BY <1>10, StepFile
<1>11. CASE WriteEnds
  <2>1. UNCHANGED <<controls, changes, exits, collected, results, test, disk>> /\ settings' \in Settings
    BY <1>1, <1>11 DEF WriteEnds, AutoPublish
  <2>2. CASE EndOperation("none")
    BY <1>1, <2>1, <2>2, EndDesk
  <2>3. CASE op' = "publish" /\ UNCHANGED <<collectVars, options, file>>
    <3>1. results'.tested \subseteq Links /\ results'.alive \subseteq results'.tested /\ file' \in 0..3
      BY <2>1, <2>3 DEF DeskInv, DeskType
    <3>2. Filled'
      BY <2>3 DEF Filled
    <3> QED
      BY <1>1, <2>1, <2>3, <3>1, <3>2, SameCollect, QuietDesk
  <2> QED
    BY <1>11, <2>2, <2>3 DEF WriteEnds, AutoPublish
<1>12. CASE AutoEnds
  BY <1>1, <1>12, EndDesk DEF AutoEnds
<1>13. CASE Stop
  <2>1. CollectInv'
    BY <1>1, <1>13 DEF Stop, CollectInv, CollectType, BodyOK, LoopOK, Owned, Found, Done
  <2> QED
    BY <1>1, <1>13, <2>1, SameDesk DEF Stop, deskVars, userVars, callVars
<1>14. CASE ShowOutputs
  BY <1>1, <1>14, SameCollect, SameDesk DEF ShowOutputs, userVars, callVars
<1>15. CASE Exit
  BY <1>1, <1>2, <1>15, EndDesk DEF Exit
<1>16. CASE Start
  BY <1>1, <1>16, SameCollect, SameDesk DEF Start, callVars
<1>17. CASE UNCHANGED vars
  BY <1>1, <1>17, SameCollect, SameDesk DEF vars, deskVars, userVars, callVars
<1> QED
  BY <1>3, <1>4, <1>5, <1>6, <1>7, <1>8, <1>9, <1>10, <1>11, <1>12, <1>13, <1>14, <1>15, <1>16, <1>17
     DEF Next, Step, User

Interruption == interrupted \in BOOLEAN

LEMMA StepInterrupted == ASSUME Interruption, [Next]_vars PROVE Interruption'
<1>1. CASE UNCHANGED interrupted
  BY <1>1 DEF Interruption
<1>2. CASE WriteEnds \/ Exit
  <2>1. (file < Len(Names)) \in BOOLEAN
    OBVIOUS
  <2> QED
    BY <1>2, <2>1, Zenon DEF WriteEnds, Exit, Interruption
<1>3. CASE User /\ ~Exit
  BY <1>1, <1>3 DEF User, Change, Save, Collect, Test, Stop, ShowOutputs, Start, deskVars, userVars
<1>4. CASE Step /\ ~WriteEnds
  BY <1>1, <1>4 DEF Step, Collecting, Collected, CollectStopped, TestStopped, AutoEnds, TestReturns, OpenFile,
       FillFile, deskVars, userVars
<1> QED
  BY <1>1, <1>2, <1>3, <1>4 DEF Next, vars, deskVars, userVars

LEMMA DeskTyped == DeskInv /\ Interruption => TypeOK
<1> SUFFICES ASSUME DeskInv, interrupted \in BOOLEAN PROVE TypeOK
  BY DEF Interruption
<1>1. \A f \in Files :
        disk[f] # Torn =>
          /\ disk[f].test \in 0..test
          /\ disk[f].links \subseteq
               CASE f = "sub" -> Links \ Proxies
                 [] f = "proxy" -> Links \cap Proxies
                 [] f = "report" -> Links
  <2> SUFFICES ASSUME NEW f \in Files, disk[f] # Torn
               PROVE  /\ disk[f].test \in 0..test
                      /\ disk[f].links \subseteq
                           CASE f = "sub" -> Links \ Proxies
                             [] f = "proxy" -> Links \cap Proxies
                             [] f = "report" -> Links
    OBVIOUS
  <2>1. disk[f].test \in 0..test /\ OfKind(f, disk[f].links)
    BY DEF DeskInv, DeskType
  <2>2. CASE f = "sub"
    BY <2>1, <2>2, Zenon DEF OfKind
  <2>3. CASE f = "proxy"
    BY <2>1, <2>3, Zenon DEF OfKind
  <2>4. CASE f = "report"
    BY <2>1, <2>4, Zenon DEF OfKind
  <2> QED
    BY <2>2, <2>3, <2>4, NamesFacts
<1>2. {controls, settings, options} \subseteq Settings /\ {changes, test, file, exits} \subseteq Nat
  BY DEF DeskInv, DeskType
<1>3. /\ op \in {"none", "collect", "test", "write", "publish", "closed"}
      /\ collected \subseteq Links
      /\ results.tested \subseteq Links /\ results.alive \subseteq results.tested
  BY DEF DeskInv, DeskType
<1>4. /\ phase \in {"idle", "fetching", "returned", "cancelled"}
      /\ stop \in BOOLEAN /\ taken \in 0..Len(Lines)
      /\ body \in [Channels -> {"waiting", "first", "second", "parsing", "done"}]
      /\ looked \in [Channels -> Nat] /\ count \in [Channels -> Nat]
      /\ owner \in [Links -> Channels \cup {Invalid}] /\ completed \in Nat
  BY DEF DeskInv, CollectInv, CollectType, Bodies
<1> QED
  BY <1>1, <1>2, <1>3, <1>4, Zenon DEF TypeOK

-----------------------------------------------------------------------------
(* All files of a write that has ended hold its test.                       *)
LEMMA AllFilled ==
  ASSUME DeskInv, op = "write", file = Len(Names)
  PROVE  \A f \in Files : disk[f] = Content(f) /\ disk[f] # Torn /\ disk[f].test = test
<1>1. \A i \in 1..3 : disk[Names[i]] = Content(Names[i])
  BY NamesFacts DEF DeskInv, Filled
<1>2. \A f \in Files : \E i \in 1..3 : f = Names[i]
  BY NamesFacts
<1>3. \A f \in Files : disk[f] = Content(f)
  BY <1>1, <1>2
<1> QED
  BY <1>3, ContentType DEF DeskInv

(* Filling the next file keeps the order: every file before it is of the    *)
(* test that is being written.                                              *)
LEMMA FillOrder ==
  ASSUME DeskInv, InOrder, NEW f \in Files, OpenFile(f) \/ FillFile(f) PROVE InOrder'
<1>1. /\ op = "write" /\ file \in 0..2 /\ f = Names[file + 1] /\ test \in Nat
      /\ disk \in [Files -> {Torn} \cup Contents]
      /\ \A g \in Files : disk[g] # Torn => disk[g].test \in 0..test
      /\ DOMAIN Names = 1..3 /\ \A i \in 1..3 : Names[i] \in Files
  BY NamesFacts, LenProperties DEF OpenFile, FillFile, Writing, DeskInv, DeskType, Names
<1>2. Content(f) # Torn /\ Content(f).test = test
  BY ContentType DEF DeskInv
<1>3. PICK v \in {Torn, Content(f)} : disk' = [disk EXCEPT ![f] = v]
  BY DEF OpenFile, FillFile
<1>4. \A g \in Files : disk'[g] = IF g = f THEN v ELSE disk[g]
  BY <1>1, <1>3
<1>5. \A i \in 1..file : disk[Names[i]].test = test
  <2>1. \A i \in 1..file : Names[i] \in Files /\ disk[Names[i]] = Content(Names[i])
    BY <1>1 DEF DeskInv, Filled
  <2> QED
    BY <2>1, ContentType DEF DeskInv
<1>6. ASSUME NEW i \in 1..3, NEW j \in 1..3, i < j, disk'[Names[i]] # Torn, disk'[Names[j]] # Torn
      PROVE  disk'[Names[i]].test >= disk'[Names[j]].test
  <2>1. CASE i = file + 1
    <3>1. Names[i] = f /\ Names[j] # f
      BY <1>1, <1>6, <2>1, NamesFacts
    <3>2. v = Content(f) /\ disk'[Names[i]].test = test
      BY <1>1, <1>2, <1>3, <1>4, <1>6, <3>1
    <3>3. disk'[Names[j]] = disk[Names[j]] /\ disk[Names[j]].test \in 0..test
      BY <1>1, <1>4, <1>6, <3>1
    <3> QED
      BY <1>1, <3>2, <3>3
  <2>2. CASE j = file + 1
    <3>1. Names[j] = f /\ Names[i] # f /\ i \in 1..file
      BY <1>1, <1>6, <2>2, NamesFacts
    <3>2. v = Content(f) /\ disk'[Names[j]].test = test
      BY <1>1, <1>2, <1>3, <1>4, <1>6, <3>1
    <3>3. disk'[Names[i]] = disk[Names[i]]
      BY <1>1, <1>4, <3>1
    <3> QED
      BY <1>1, <1>5, <3>1, <3>2, <3>3
  <2>3. CASE i # file + 1 /\ j # file + 1
    <3>1. Names[i] # f /\ Names[j] # f
      BY <1>1, <2>3, NamesFacts
    <3>2. disk'[Names[i]] = disk[Names[i]] /\ disk'[Names[j]] = disk[Names[j]]
      BY <1>1, <1>4, <3>1
    <3> QED
      BY <1>1, <1>6, <3>2 DEF InOrder
  <2> QED
    BY <2>1, <2>2, <2>3
<1> QED
  BY <1>1, <1>6 DEF InOrder

LEMMA StepOrder == ASSUME DeskInv, InOrder, [Next]_vars PROVE InOrder'
<1>1. CASE UNCHANGED disk
  BY <1>1 DEF InOrder
<1>2. CASE \E f \in Files : OpenFile(f) \/ FillFile(f)
  BY <1>2, FillOrder
<1>3. CASE User
  BY <1>1, <1>3 DEF User, Change, Save, Collect, Test, Stop, ShowOutputs, Exit, Start, deskVars, userVars
<1>4. CASE Collecting \/ Collected \/ CollectStopped \/ TestStopped \/ WriteEnds \/ AutoEnds
  BY <1>1, <1>4 DEF Collecting, Collected, CollectStopped, TestStopped, WriteEnds, AutoEnds, deskVars
<1>5. CASE \E A \in SUBSET collected : TestReturns(A)
  BY <1>1, <1>5 DEF TestReturns
<1> QED
  BY <1>1, <1>2, <1>3, <1>4, <1>5 DEF Next, Step, vars, deskVars

LEMMA StepAgree ==
  ASSUME DeskInv, op # "write" /\ ~interrupted => Whole, [Next]_vars
  PROVE  op' # "write" /\ ~interrupted' => Whole'
<1> DEFINE P == op # "write" /\ ~interrupted => Whole
<1>1. ASSUME UNCHANGED <<disk, test>>, op' # "write" /\ ~interrupted' => op # "write" /\ ~interrupted PROVE P'
  BY <1>1 DEF Whole
<1>2. CASE WriteEnds
  BY <1>2, AllFilled DEF WriteEnds, Whole
<1>3. CASE op' = "write"
  BY <1>3
<1>4. CASE Exit
  <2>1. CASE op = "write"
    <3>1. CASE file = Len(Names)
      BY <1>4, <2>1, <3>1, AllFilled DEF Exit, Whole
    <3>2. CASE file # Len(Names)
      <4>1. file < Len(Names)
        BY <3>2, NamesFacts DEF DeskInv, DeskType
      <4>2. interrupted'
        BY <1>4, <2>1, <4>1 DEF Exit
      <4> QED
        BY <4>2
    <3> QED
      BY <3>1, <3>2
  <2>2. CASE op # "write"
    BY <1>1, <1>4, <2>2 DEF Exit
  <2> QED
    BY <2>1, <2>2
<1>5. CASE UNCHANGED vars
  BY <1>1, <1>5 DEF vars, deskVars, userVars
<1>6. CASE User /\ ~Exit
  BY <1>1, <1>6 DEF User, Change, Save, Collect, Test, Stop, ShowOutputs, Start, deskVars, userVars
<1>7. CASE Collecting \/ Collected \/ CollectStopped \/ TestStopped \/ AutoEnds
  BY <1>1, <1>7 DEF Collecting, Collected, CollectStopped, TestStopped, AutoEnds, deskVars, userVars
<1>8. CASE (\E A \in SUBSET collected : TestReturns(A)) \/ \E f \in Files : OpenFile(f) \/ FillFile(f)
  BY <1>3, <1>8 DEF TestReturns, OpenFile, FillFile, Writing
<1> QED
  BY <1>2, <1>4, <1>5, <1>6, <1>7, <1>8 DEF Next, Step

LEMMA StepGiven == ASSUME DeskInv, GivenIsTest, [Next]_vars PROVE GivenIsTest'
<1>1. "sub" \in Files /\ "proxy" \in Files
  BY NamesFacts
<1>2. ASSUME op' # "publish" PROVE GivenIsTest'
  BY <1>2 DEF GivenIsTest
<1>3. ASSUME op = "publish", UNCHANGED <<given, test, results, options>> PROVE GivenIsTest'
  BY <1>1, <1>3, ContentSame DEF GivenIsTest
<1>4. CASE WriteEnds
  <2>1. CASE EndOperation("none")
    BY <1>2, <2>1 DEF EndOperation
  <2>2. CASE given' = Outputs /\ UNCHANGED options
    <3>1. given' = [sub |-> Content("sub"), proxy |-> Content("proxy")]
      BY <1>1, <1>4, <2>2, AllFilled DEF WriteEnds, Outputs
    <3>2. Content("sub")' = Content("sub") /\ Content("proxy")' = Content("proxy")
      BY <1>1, <1>4, <2>2, ContentSame DEF WriteEnds
    <3> QED
      BY <3>1, <3>2 DEF GivenIsTest
  <2> QED
    BY <1>4, <2>1, <2>2 DEF WriteEnds, AutoPublish
<1>5. CASE (\E field \in Changeable : Change(field)) \/ Save \/ Stop \/ ShowOutputs \/ Collecting \/ UNCHANGED vars
  BY <1>2, <1>3, <1>5 DEF Change, Save, Stop, ShowOutputs, Collecting, vars, deskVars, callVars
<1>6. CASE Collect \/ Test \/ Start \/ (\E A \in SUBSET collected : TestReturns(A)) \/ \E f \in Files : OpenFile(f) \/ FillFile(f)
  BY <1>2, <1>6 DEF Collect, Test, Start, TestReturns, OpenFile, FillFile, Writing
<1>7. CASE Collected \/ CollectStopped \/ TestStopped \/ AutoEnds \/ Exit
  BY <1>2, <1>7 DEF Collected, CollectStopped, TestStopped, AutoEnds, Exit, EndOperation
<1> QED
  BY <1>4, <1>5, <1>6, <1>7 DEF Next, Step, User

-----------------------------------------------------------------------------
\* Every variable keeps its type, and each output file holds links of its own
\* kind of a test that has been (ReportWriter.cs:12-29).
THEOREM AlwaysTyped == Spec => []TypeOK
<1>1. Init => Interruption
  BY DEF Init, Interruption
<1>2. Interruption /\ [Next]_vars => Interruption'
  BY StepInterrupted
<1> QED
  BY <1>1, <1>2, InitDesk, StepDesk, DeskTyped, PTL DEF Spec

\* A collection that returns left a link of a page it read out only when the
\* limit of that channel was filled with links of its own, and no limit is
\* exceeded, whatever order the concurrent bodies added shared links in.
THEOREM AllLinksAccounted == Spec => []LinksAccounted
<1>1. DeskInv => LinksAccounted
  BY CollectAccounted DEF DeskInv
<1> QED
  BY <1>1, InitDesk, StepDesk, PTL DEF Spec

\* The output files are of the last test whenever no write is under way, unless
\* the program ended in the middle of the last write (the next one repairs the
\* files); and at every moment, within a write and after one that was cut short,
\* no file is of an older test than a file written after it.
THEOREM OutputsAgree == Spec => []FilesAgree
<1>1. Init => FilesAgree
  <2>1. [test |-> 0, links |-> {}] \in Contents
    BY DEF Contents
  <2>2. [test |-> 0, links |-> {}] # Torn
    BY <2>1, DesktopAssumption
  <2>3. Init => \A f \in Files : disk[f] # Torn /\ disk[f].test = 0
    BY <2>2 DEF Init
  <2>4. \A i \in DOMAIN Names : Names[i] \in Files
    BY DEF Files
  <2>5. Init => test = 0
    BY DEF Init
  <2> QED
    BY <2>3, <2>4, <2>5 DEF FilesAgree, Whole, InOrder
<1>2. DeskInv /\ FilesAgree /\ [Next]_vars => FilesAgree'
  BY StepAgree, StepOrder DEF FilesAgree
<1> QED
  BY <1>1, <1>2, InitDesk, StepDesk, PTL DEF Spec

\* The automatic publication hands over both files of the test that has just
\* finished, under the options its write began with, whatever the user changes
\* and saves meanwhile (MainWindow.axaml.cs:97-99).
THEOREM PublishedIsTest == Spec => []GivenIsTest
<1>1. Init => GivenIsTest
  BY DEF Init, GivenIsTest
<1>2. DeskInv /\ GivenIsTest /\ [Next]_vars => GivenIsTest'
  BY StepGiven
<1> QED
  BY <1>1, <1>2, InitDesk, StepDesk, PTL DEF Spec
=============================================================================
