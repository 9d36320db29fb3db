------------------------------ MODULE LegacyStages ------------------------------
(***************************************************************************)
(* The two stages of the legacy program, of the window's worker (app.py) and *)
(* of the command line (engine.py), and the data that passes through them:  *)
(* the links of the channels' previews, all_configs_stage1.txt, the         *)
(* endpoints, the results and the output files.  Pause, reset and the pool  *)
(* are in CheckerRun, the attempts in XrayTests.                            *)
(***************************************************************************)
EXTENDS LegacySettings, LegacyLinks

CONSTANTS
  PageOf,     \* the links a channel's preview shows, in order
  PerLimit,   \* PER_CHANNEL_LIMIT
  MainLimit,  \* MAIN_CHANNEL_LIMIT
  Tags,       \* SUB_TAG_PREFIX with the numbers from 1
  Pings,      \* bound: the latencies a test may measure
  MaxRuns     \* bound: runs the user starts

\* There is a number for every link.
PageKeys == {Key(l) : l \in UNION {ToSet(PageOf[c]) : c \in Channels}}

ASSUME StagesAssumption ==
  /\ IsFiniteSet(Channels)
  /\ PageOf \in [Channels -> Seq(Link)]
  /\ PerLimit \in Nat /\ MainLimit \in Nat /\ MaxRuns \in Nat
  /\ Tags \in Seq(Texts) /\ Cardinality(PageKeys) <= Len(Tags)
  /\ \A i, j \in DOMAIN Tags : i # j => Tags[i] # Tags[j]
  /\ Pings \subseteq Nat

VARIABLES
  phase,      \* where the run stands
  runs,       \* how many were started
  order,      \* the channels of the run, as read_channels returned them
  asked,      \* their positions whose preview has not been fetched
  reads,      \* how often each channel was fetched
  picked,     \* what was taken from each preview
  collected,  \* the links of the first stage
  stage1,     \* all_configs_stage1.txt
  loaded,     \* the links read from it
  todo,       \* those still to be tested
  skipped,    \* those of a kind that is switched off
  foreign,    \* those that are not supported
  results,    \* the results so far, in order of completion
  out         \* sub.txt, proxy.txt and the lists of report.json

stageVars == <<phase, runs, order, asked, reads, picked, collected, stage1, loaded, todo, skipped, foreign, results, out>>
vars == <<settingsVars, stageVars>>

-----------------------------------------------------------------------------
\* The regular expressions are tried one after the other over the whole page.
Group(l) == CASE l.scheme \in {"hy2", "tuic"} -> 2 [] l.scheme \in TelegramSchemes -> 3 [] OTHER -> 1
InGroup(page, g) == Keep(page, {i \in DOMAIN page : Group(page[i]) = g})

\* Of links with the same key the first is kept.
FirstOfEach(links) ==
  Keep(links, {i \in DOMAIN links : \A j \in 1..(i - 1) : Key(links[j]) # Key(links[i])})

\* extract_configs: once each, the last of the page first.
Extract(page) ==
  Reverse(FirstOfEach(InGroup(page, 1) \o InGroup(page, 2) \o InGroup(page, 3)))

Limit(c) == IF c \in eng.main THEN MainLimit ELSE PerLimit

Firsts(s, n) == SubSeq(s, 1, IF n < Len(s) THEN n ELSE Len(s))

StagesInit ==
  /\ phase = "idle" /\ runs = 0
  /\ order = <<>> /\ asked = {} /\ reads = [c \in Channels |-> 0]
  /\ picked = [c \in Channels |-> <<>>] /\ collected = <<>>
  /\ stage1 = Absent /\ loaded = <<>>
  /\ todo = {} /\ skipped = {} /\ foreign = {} /\ results = <<>>
  /\ out = Absent

\* What the stages keep is local to the run.
Cleared ==
  /\ order' = <<>> /\ asked' = {} /\ reads' = [c \in Channels |-> 0]
  /\ picked' = [c \in Channels |-> <<>>] /\ collected' = <<>>
  /\ loaded' = <<>> /\ todo' = {} /\ skipped' = {} /\ foreign' = {} /\ results' = <<>>

\* start_run; a run that has ended is reset first.
Start ==
  /\ runs < MaxRuns /\ runs' = runs + 1
  /\ StartWindow /\ Cleared
  /\ phase' = "apply"
  /\ UNCHANGED <<stage1, out>>

\* apply_runtime_settings, ensure_files and clear_old_outputs of the worker.
Prepare ==
  /\ phase = "apply" /\ phase' = "list"
  /\ Apply
  /\ stage1' = Absent /\ out' = Absent
  /\ UNCHANGED <<front, portable, up, win, busy, edits, launches>>
  /\ UNCHANGED <<runs, order, asked, reads, picked, collected, loaded, todo, skipped, foreign, results>>

\* main without arguments; Xray is prepared before the collection.
StartCli ==
  /\ runs < MaxRuns /\ runs' = runs + 1
  /\ up /\ front = "cli" /\ ~busy /\ Cleared
  /\ busy' = TRUE /\ phase' = "list"
  /\ stage1' = Absent /\ out' = Absent
  /\ UNCHANGED <<front, portable, home, up, eng, win, edits, launches>>

-----------------------------------------------------------------------------
\* read_channels.
ReadChannels ==
  /\ phase = "list" /\ phase' = "fetch"
  /\ order' = Normalized(home.channels) /\ asked' = DOMAIN order'
  /\ UNCHANGED <<settingsVars, runs, reads, picked, collected, stage1, loaded, todo, skipped, foreign, results, out>>

\* The next host is asked when the first gives no usable page, three times.
Previewed(answer) == \E host \in {"t.me", "telegram.me"} : answer[host] = "page"

Answers == [{"t.me", "telegram.me"} -> {"page", "generic", "error"}]

Collect(links) == collected' = FirstOfEach(collected \o links)

\* fetch_channel of one channel, gathered as it completes.
Fetch(i) ==
  /\ phase = "fetch" /\ i \in asked
  /\ asked' = asked \ {i} /\ reads' = [reads EXCEPT ![order[i]] = @ + 1]
  /\ \E answer \in Answers :
       LET c == order[i]
           links == IF Previewed(answer) THEN Firsts(Extract(PageOf[c]), Limit(c)) ELSE <<>>
       IN picked' = [picked EXCEPT ![c] = links] /\ Collect(links)
  /\ UNCHANGED <<settingsVars, phase, runs, order, stage1, loaded, todo, skipped, foreign, results, out>>

\* The end of collect_stage1 and of stage1_collect.
WriteStage1 ==
  /\ phase = "fetch" /\ asked = {} /\ phase' = "ask"
  /\ stage1' = collected
  /\ UNCHANGED <<settingsVars, runs, order, asked, reads, picked, collected, loaded, todo, skipped, foreign, results, out>>

\* wait_for_disconnect, or the window's Continue; then read_stage1_configs.
ReadStage1 ==
  /\ phase = "ask" /\ phase' = "sort"
  /\ loaded' = FirstOfEach(stage1)
  /\ UNCHANGED <<settingsVars, runs, order, asked, reads, picked, collected, stage1, todo, skipped, foreign, results, out>>

-----------------------------------------------------------------------------
IsProxy(l) == l.scheme \in TelegramSchemes
Wanted(l) == IF IsProxy(l) THEN eng.proxies ELSE eng.configs
Parsed == {l \in ToSet(loaded) : Endpoint(l) # NoEndpoint}

Result(l, ping, pre) == [link |-> l, ok |-> ping # 0, ping |-> ping, pre |-> pre]
Dead(S) == [i \in 1..Cardinality(S) |-> Result(SetToSeq(S)[i], 0, TRUE)]

\* Mutant: what the prefilter rejects is forgotten.
SortForgets ==
  \E rejected \in (IF front = "window" /\ win.prefilter THEN SUBSET {l \in Parsed : Wanted(l)} ELSE {{}}) :
    todo' = {l \in Parsed : Wanted(l)} \ rejected /\ results' = <<>>

\* tcp_prefilter: what cannot be connected to is dead; the CLI has none.
Sort ==
  \E rejected \in (IF front = "window" /\ win.prefilter THEN SUBSET {l \in Parsed : Wanted(l)} ELSE {{}}) :
    todo' = {l \in Parsed : Wanted(l)} \ rejected /\ results' = Dead(rejected)

\* test_stage2 and stage2_test up to the pool.
BeginTests ==
  /\ phase = "sort" /\ phase' = "test"
  /\ foreign' = ToSet(loaded) \ Parsed
  /\ skipped' = {l \in Parsed : ~Wanted(l)}
  /\ Sort
  /\ UNCHANGED <<settingsVars, runs, order, asked, reads, picked, collected, stage1, loaded, out>>

Good(rs) == {i \in DOMAIN rs : rs[i].ok}

\* Good tests by latency, by completion where it is the same.
UpTo(rs, i) == {j \in Good(rs) : rs[j].ping < rs[i].ping \/ (rs[j].ping = rs[i].ping /\ j <= i)}

\* The links of the good tests, the fastest first.
ByPing(rs) ==
  [k \in 1..Cardinality(Good(rs)) |->
     rs[CHOOSE i \in Good(rs) : Cardinality(UpTo(rs, i)) = k].link]

\* set_config_display_name with the position, where renaming is on.
Numbered(links) ==
  [i \in DOMAIN links |-> IF eng.rename THEN SetName(links[i], Tags[i]) ELSE links[i]]

OfKind(links, proxy) == Keep(links, {i \in DOMAIN links : IsProxy(links[i]) = proxy})

\* write_partial_outputs and the end of stage2_test, write_reports included, with
\* WRITE_DEAD_TO_REPORT=1, which write_env_file writes and the default is.
Files(rs) ==
  [sub |-> Numbered(OfKind(ByPing(rs), FALSE)),
   proxy |-> OfKind(ByPing(rs), TRUE),
   dead |-> {rs[i].link : i \in DOMAIN rs \ Good(rs)},
   foreign |-> foreign]

\* A test succeeds with at least eng.min good samples out of eng.attempts.
Outcomes == IF eng.min <= eng.attempts THEN Pings \cup {0} ELSE {0}

Tested(rs) == Cardinality({i \in DOMAIN rs : ~rs[i].pre})

\* One test completes; the window writes the good ones and every fifth at once.
Record(l) ==
  /\ phase = "test" /\ l \in todo
  /\ todo' = todo \ {l}
  /\ \E ping \in Outcomes :
       /\ results' = Append(results, Result(l, ping, FALSE))
       /\ out' = IF front = "window" /\ (ping # 0 \/ Tested(results') % 5 = 0) THEN Files(results') ELSE out
  /\ UNCHANGED <<settingsVars, phase, runs, order, asked, reads, picked, collected, stage1, loaded, skipped, foreign>>

Ended ==
  /\ busy' = FALSE /\ up' = (front = "window")
  /\ UNCHANGED <<front, portable, home, eng, win, edits, launches>>

FinishTests ==
  /\ phase = "test" /\ todo = {} /\ phase' = "done"
  /\ out' = Files(results)
  /\ Ended
  /\ UNCHANGED <<runs, order, asked, reads, picked, collected, stage1, loaded, todo, skipped, foreign, results>>

\* request_abort: the stage ends early with its files written; no finished_ok.
Abort ==
  /\ front = "window" /\ busy /\ phase' = "aborted"
  /\ stage1' = IF phase = "fetch" THEN collected ELSE stage1
  /\ out' = IF phase = "test" THEN Files(results) ELSE out
  /\ phase \notin {"apply", "list", "sort"} /\ Ended
  /\ UNCHANGED <<runs, order, asked, reads, picked, collected, loaded, todo, skipped, foreign, results>>

-----------------------------------------------------------------------------
\* The run is lost with the program, the files stay.
Leave ==
  /\ Exit \/ ExitInSave \/ (phase = "apply" /\ ExitInApply)
  /\ phase' = "idle"
  /\ Cleared
  /\ UNCHANGED <<runs, stage1, out>>

SettingsStep == (Launch \/ EditStep) /\ UNCHANGED stageVars

AllInit == Init /\ StagesInit

Next ==
  \/ SettingsStep \/ Start \/ Prepare \/ StartCli
  \/ ReadChannels \/ (\E i \in asked : Fetch(i)) \/ WriteStage1
  \/ ReadStage1 \/ BeginTests \/ (\E l \in todo : Record(l)) \/ FinishTests
  \/ Abort \/ Leave

Spec == AllInit /\ [][Next]_vars

-----------------------------------------------------------------------------
\* Every variable has its type.
TypeOK ==
  /\ SettingsTypeOK
  /\ phase \in {"idle", "apply", "list", "fetch", "ask", "sort", "test", "done", "aborted"}
  /\ order \in Seq(Channels) /\ asked \subseteq DOMAIN order /\ todo \subseteq ToSet(loaded)
  /\ skipped \cup foreign \subseteq ToSet(loaded)
  /\ stage1 = Absent \/ stage1 \in Seq(Link)

(* The run does what the window shows, however the channels got into its    *)
(* editors and whatever became of the files (app.py:175-201, engine.py:513, *)
(* 551): the ranks and every setting are those of the boxes, no channel is  *)
(* read twice, none but those shown, each of them before the first stage    *)
(* ends, and no more is taken from it than its rank allows.                 *)
RanksAgree ==
  front = "window" /\ phase \in {"fetch", "ask", "sort", "test"} =>
    LET first == ToSet(Normalized(win.p1))
        shown == first \cup ToSet(Normalized(win.p2))
    IN /\ eng = Chosen(win) /\ eng.min <= eng.attempts
       /\ \A c \in Channels :
            /\ reads[c] <= IF c \in shown THEN 1 ELSE 0
            /\ phase # "fetch" /\ c \in shown => reads[c] = 1
            /\ Len(picked[c]) <= IF c \in first THEN MainLimit ELSE IF c \in shown THEN PerLimit ELSE 0

(* Nothing is lost or tested twice between the previews and the report: of  *)
(* the links the channels gave, one of each key is in the first file, each  *)
(* line of that file was either tested once or skipped or not supported,    *)
(* and the lists of the report have as many entries (engine.py:649-705,     *)
(* app.py:408-430).                                                         *)
AllAccounted ==
  phase = "done" =>
    /\ \A c \in Channels : \A l \in ToSet(picked[c]) : Cardinality({i \in DOMAIN stage1 : Key(stage1[i]) = Key(l)}) = 1
    /\ \A l \in ToSet(stage1) :
         Cardinality({i \in DOMAIN results : results[i].link = l}) = IF l \in skipped \cup foreign THEN 0 ELSE 1
    /\ Len(out.sub) + Len(out.proxy) + Cardinality(out.dead) + Cardinality(out.foreign) + Cardinality(skipped)
         = Len(stage1)

(* The lines of sub.txt are the links of distinct good tests, the fastest   *)
(* first, with the endpoint and the outbound that were tested, each under a *)
(* name of its own when names are given (app.py:342-364).                   *)
OutputsFaithful ==
  phase \in {"test", "done", "aborted"} /\ out # Absent =>
    /\ \E of \in [DOMAIN out.sub -> DOMAIN results] :
         /\ \A i, j \in DOMAIN out.sub : i < j => of[i] # of[j] /\ results[of[i]].ping <= results[of[j]].ping
         /\ \A i \in DOMAIN out.sub :
              /\ results[of[i]].ok
              /\ Endpoint(out.sub[i]) = Endpoint(results[of[i]].link)
              /\ Outbound(out.sub[i]) = Outbound(results[of[i]].link)
    /\ eng.rename => \A i, j \in DOMAIN out.sub :
         out.sub[i].scheme # "ssr" /\ out.sub[j].scheme # "ssr" /\ i # j => GetName(out.sub[i]) # GetName(out.sub[j])
=============================================================================
