-------------------------- MODULE ChannelCollector --------------------------
(***************************************************************************)
(* ChannelCollector.CollectRankedAsync: the previews of all channels are    *)
(* fetched and parsed by concurrent bodies of Parallel.ForEachAsync, which  *)
(* share one ConcurrentDictionary.  A link that several channels post       *)
(* counts for the channel whose body adds it first.  A body catches every   *)
(* exception, so only the token ends a collection early.                    *)
(***************************************************************************)
EXTENDS Integers, Sequences, FiniteSets

CONSTANTS
  One, Two,          \* the lines of the two lists on the channels page
  NameOf,            \* the channel a line names, case folded, or Invalid
  Invalid,           \* not a public channel
  Page,              \* the links of each channel's preview, in order
  Unparsed,          \* a link that ProfileParser rejects
  OneLimit, TwoLimit,\* the limits of the two ranks
  FetchParallelism   \* CollectOptions.Parallelism

VARIABLES
  phase,      \* of the Parallel.ForEachAsync call
  stop,       \* the token of the operation is cancelled
  taken,      \* the entry of Ranked that the loop has taken last
  body,       \* where the body of each channel stands
  looked,     \* matches of its page a body has looked at
  count,      \* links a body has added
  owner,      \* the dictionary: the channel that added each link
  completed   \* the progress counter

collectVars == <<phase, stop, taken, body, looked, count, owner, completed>>

-----------------------------------------------------------------------------
Lines == One \o Two
Name(i) == NameOf[Lines[i]]

(* One entry per channel, where the first line stands that names it; the    *)
(* channel has rank one if a line of the first list names it.               *)
Ranked == {i \in DOMAIN Lines : Name(i) # Invalid /\ \A j \in 1..(i - 1) : Name(j) # Name(i)}
RankOne(c) == \E i \in DOMAIN One : NameOf[One[i]] = c

Channels == {Name(i) : i \in Ranked}
Links == UNION {{Page[c][i] : i \in DOMAIN Page[c]} : c \in Channels} \ {Unparsed}

ASSUME CollectAssumption ==
  /\ One \in Seq(DOMAIN NameOf) /\ Two \in Seq(DOMAIN NameOf)
  /\ \A c \in Channels : Page[c] \in Seq(Links \cup {Unparsed})
  /\ {OneLimit, TwoLimit, FetchParallelism} \subseteq Int

Between(x, low, high) == IF x < low THEN low ELSE IF x > high THEN high ELSE x
Limit(c) == Between(IF RankOne(c) THEN OneLimit ELSE TwoLimit, 1, 1000)
Degree == Between(FetchParallelism, 1, 64)

Active == {c \in Channels : body[c] \in {"first", "second", "parsing"}}
Left == {i \in Ranked : i > taken}
Found == {k \in Links : owner[k] # Invalid}

-----------------------------------------------------------------------------
CollectInit ==
  /\ phase = "idle" /\ stop = FALSE
  /\ taken = 0
  /\ body = [c \in Channels |-> "waiting"]
  /\ looked = [c \in Channels |-> 0]
  /\ count = [c \in Channels |-> 0]
  /\ owner = [k \in Links |-> Invalid]
  /\ completed = 0

\* The locals of a call are fresh: when it begins, and gone when it is over.
Fresh(p) ==
  /\ phase' = p /\ stop' = FALSE
  /\ taken' = 0
  /\ body' = [c \in Channels |-> "waiting"]
  /\ looked' = [c \in Channels |-> 0]
  /\ count' = [c \in Channels |-> 0]
  /\ owner' = [k \in Links |-> Invalid]
  /\ completed' = 0

\* The loop hands the next entry to a body, in the order of the list.
Take ==
  /\ phase = "fetching" /\ ~stop /\ Cardinality(Active) < Degree
  /\ \E i \in Left :
       /\ \A j \in Left : i <= j
       /\ taken' = i
       /\ body' = [body EXCEPT ![Name(i)] = "first"]
  /\ UNCHANGED <<phase, stop, looked, count, owner, completed>>

\* The end of a body: the counter moves, whatever happened before.
EndBody(c) ==
  /\ body' = [body EXCEPT ![c] = "done"]
  /\ completed' = completed + 1

\* A host answered with a preview.
Answer(c) ==
  /\ body[c] \in {"first", "second"}
  /\ body' = [body EXCEPT ![c] = "parsing"]
  /\ UNCHANGED <<phase, stop, taken, looked, count, owner, completed>>

\* t.me failed, timed out or gave a page without messages: telegram.me is
\* next, whose request throws at once when the token is cancelled.
FirstFails(c) ==
  /\ body[c] = "first"
  /\ \/ ~stop /\ body' = [body EXCEPT ![c] = "second"] /\ UNCHANGED completed
     \/ stop /\ EndBody(c)
  /\ UNCHANGED <<phase, stop, taken, looked, count, owner>>

SecondFails(c) ==
  /\ body[c] = "second"
  /\ EndBody(c)
  /\ UNCHANGED <<phase, stop, taken, looked, count, owner>>

\* Mutant: the limit counts the links of the page, not those added.
ParseCountsAll(c) ==
  /\ body[c] = "parsing" /\ looked[c] < Len(Page[c])
  /\ LET k == Page[c][looked[c] + 1]
         added == k # Unparsed /\ owner[k] = Invalid
     IN /\ looked' = [looked EXCEPT ![c] = @ + 1]
        /\ count' = IF added THEN [count EXCEPT ![c] = @ + 1] ELSE count
        /\ owner' = IF added THEN [owner EXCEPT ![k] = c] ELSE owner
        /\ IF looked[c] + 1 >= Limit(c) THEN EndBody(c)
           ELSE UNCHANGED <<body, completed>>
  /\ UNCHANGED <<phase, stop, taken>>

\* One match: it is added when it parses and no body has added it before;
\* the link that fills the limit ends the loop.
Parse(c) ==
  /\ body[c] = "parsing" /\ looked[c] < Len(Page[c])
  /\ LET k == Page[c][looked[c] + 1]
         added == k # Unparsed /\ owner[k] = Invalid
     IN /\ looked' = [looked EXCEPT ![c] = @ + 1]
        /\ count' = IF added THEN [count EXCEPT ![c] = @ + 1] ELSE count
        /\ owner' = IF added THEN [owner EXCEPT ![k] = c] ELSE owner
        /\ IF added /\ count[c] + 1 >= Limit(c) THEN EndBody(c)
           ELSE UNCHANGED <<body, completed>>
  /\ UNCHANGED <<phase, stop, taken>>

\* No match is left.
ParseEnds(c) ==
  /\ body[c] = "parsing" /\ looked[c] = Len(Page[c])
  /\ EndBody(c)
  /\ UNCHANGED <<phase, stop, taken, looked, count, owner>>

\* Mutant: a cancelled loop still waits for the entries it never takes.
CompleteAll ==
  /\ phase = "fetching" /\ Active = {}
  /\ Left = {}
  /\ phase' = IF stop THEN "cancelled" ELSE "returned"
  /\ UNCHANGED <<stop, taken, body, looked, count, owner, completed>>

\* The call completes when no body runs; it is cancelled when the token is,
\* even if the last body had just finished.
Complete ==
  /\ phase = "fetching" /\ Active = {}
  /\ stop \/ Left = {}
  /\ phase' = IF stop THEN "cancelled" ELSE "returned"
  /\ UNCHANGED <<stop, taken, body, looked, count, owner, completed>>

BodyStep(c) ==
  \/ Answer(c) \/ FirstFails(c) \/ SecondFails(c) \/ Parse(c) \/ ParseEnds(c)

CollectStep == Take \/ Complete \/ \E c \in Channels : BodyStep(c)

-----------------------------------------------------------------------------
(* A collection that returns left a link of a page it read out only when    *)
(* the limit of that channel was filled with links of its own, and no limit *)
(* is exceeded, in whatever order the bodies added what they share          *)
(* (ChannelCollector.cs:31-38).                                             *)
LinksAccounted ==
  phase = "returned" =>
    /\ completed = Cardinality(Channels)
    /\ \A c \in Channels :
         LET own == {k \in Links : owner[k] = c}
             read == {Page[c][i] : i \in 1..looked[c]}
             all == {Page[c][i] : i \in DOMAIN Page[c]}
         IN /\ Cardinality(own) <= Limit(c)
            /\ read \subseteq Found \cup {Unparsed}
            /\ looked[c] > 0 /\ Cardinality(own) < Limit(c) =>
                 all \subseteq Found \cup {Unparsed}
=============================================================================
