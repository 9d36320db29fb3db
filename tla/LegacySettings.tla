----------------------------- MODULE LegacySettings -----------------------------
(***************************************************************************)
(* Where the legacy program takes the settings and the channels of a run    *)
(* from: the files in the program's directory, their copies in the user's   *)
(* data directory, the globals of engine.py that are set on import and      *)
(* again later, and the editors and boxes of the window.                    *)
(***************************************************************************)
EXTENDS Integers, SequencesExt, FiniteSets

CONSTANTS
  Channels,         \* names of public channels, in lower case
  Lines,            \* lines of an editor or of channels.txt, names included
  NoChannel,        \* what a comment or a private invitation names
  ChannelOf,        \* the channel each line names
  Favourite,        \* persianvpnhub
  DefaultChannels,  \* the lines of DEFAULT_CHANNELS and the bundled list
  Portables,        \* channels.txt and .env that may lie beside the program
  Entries,          \* texts the user may type into an editor or import
  AttemptChoices,   \* bound: the numbers of attempts the user may choose
  Absent, Empty,    \* a file that is not there, an .env without a line
  MaxEdits,         \* bound: steps of the user in the settings and channel pages
  MaxLaunches       \* bound: starts of the program

\* The lines of .env and the globals they set.
Env == [main : SUBSET Channels, attempts : Nat, min : Nat, rename : BOOLEAN, configs : BOOLEAN, proxies : BOOLEAN]

ASSUME SettingsAssumption ==
  /\ Channels \subseteq Lines /\ NoChannel \notin Channels /\ Favourite \in Channels
  /\ ChannelOf \in [Lines -> Channels \cup {NoChannel}]
  /\ \A c \in Channels : ChannelOf[c] = c
  /\ DefaultChannels \in Seq(Lines) /\ Entries \subseteq Seq(Lines)
  /\ Portables \subseteq [channels : {Absent} \cup Seq(Lines), env : {Absent} \cup Env]
  /\ Absent \notin Env \cup Seq(Lines) /\ Empty \notin Env
  /\ AttemptChoices \subseteq 1..8
  /\ MaxEdits \in Nat /\ MaxLaunches \in Nat

VARIABLES
  front,     \* the program of this user: the window or the command line
  portable,  \* channels.txt and .env in the program's directory
  home,      \* the same files where the program reads and writes them
  up,        \* the program runs
  eng,       \* the globals of engine.py
  win,       \* the editors and boxes of the window
  busy,      \* a run is in progress
  edits,     \* steps the user has made in the pages
  launches   \* how often the program was started

settingsVars == <<front, portable, home, up, eng, win, busy, edits, launches>>

-----------------------------------------------------------------------------
\* The elements of s at the positions P, in their order.
Keep(s, P) == [k \in 1..Cardinality(P) |-> s[CHOOSE i \in P : Cardinality({j \in P : j <= i}) = k]]

\* Where an entry stands for the first time.
FirstOnes(s) == {i \in DOMAIN s : \A j \in 1..(i - 1) : s[j] # s[i]}

\* normalize_channel_text, read_channels: the channels that are named, once each.
Normalized(text) ==
  LET named == [i \in DOMAIN text |-> ChannelOf[text[i]]]
  IN Keep(named, {i \in FirstOnes(named) : named[i] # NoChannel})

Without(s, S) == Keep(s, {i \in DOMAIN s : s[i] \notin S})
Within(s, S) == Keep(s, {i \in DOMAIN s : s[i] \in S})

\* priority_channel_lists: what is rank one is not rank two.
Lists(w) == [p1 |-> Normalized(w.p1), p2 |-> Without(Normalized(w.p2), ToSet(Normalized(w.p1)))]

\* merge_priority_channels.
Merge(p1, p2) == Keep(p1 \o p2, FirstOnes(p1 \o p2))

\* split_priority_from_channels: channels.txt has no ranks, the engine has.
Split(w, text, main) ==
  [w EXCEPT !.p1 = Within(Normalized(text), main), !.p2 = Without(Normalized(text), main)]

\* The values of the code, and those of default_env_text, which names no rank.
Builtin == [main |-> {Favourite}, attempts |-> 4, min |-> 3, rename |-> TRUE, configs |-> TRUE, proxies |-> TRUE]
DefaultEnv == [Builtin EXCEPT !.main = {}]

\* The boxes as the window creates them.
NewWindow ==
  [p1 |-> <<>>, p2 |-> <<>>, attempts |-> 2, min |-> 1, rename |-> TRUE, configs |-> TRUE,
   proxies |-> TRUE, prefilter |-> TRUE]

Recommended(w) == [NewWindow EXCEPT !.p1 = w.p1, !.p2 = w.p2]

Init ==
  /\ front \in {"window", "cli"}
  /\ portable \in Portables
  /\ home = IF front = "cli" THEN portable ELSE [channels |-> Absent, env |-> Absent]
  /\ up = FALSE /\ busy = FALSE
  /\ eng = Builtin /\ win = NewWindow
  /\ edits = 0 /\ launches = 0

-----------------------------------------------------------------------------
OrElse(file, other) == IF file = Absent THEN other ELSE file

\* _copy_if_missing; a copy that fails is not made and nothing is said.
Copied(f) ==
  {[f EXCEPT !.channels = c, !.env = e] :
     c \in {f.channels, OrElse(f.channels, portable.channels)}, e \in {f.env, OrElse(f.env, portable.env)}}

\* ensure_files.
Ensured(f) == [channels |-> OrElse(f.channels, DefaultChannels), env |-> OrElse(f.env, DefaultEnv)]

\* load_env_file with the values env_int and the others fall back to.
Read(env, other) == IF env \in {Absent, Empty} THEN other ELSE env

\* The import of engine.py reads the .env beside the program.
Imported == Read(portable.env, Builtin)

\* Mutant: one setting is left out of the second reading.
ReloadedButAttempts(f) ==
  [Read(f.env, Imported) EXCEPT !.main = Imported.main, !.attempts = Imported.attempts]

\* _reload_environment reads the user's .env for all but the ranks.
Reloaded(f) == [Read(f.env, Imported) EXCEPT !.main = Imported.main]

Clamped(n, low, high) == IF n < low THEN low ELSE IF n > high THEN high ELSE n

\* load_initial_values.
Loaded(w, e, f) ==
  LET n == Clamped(e.attempts, 1, 8) IN
  [Split(w, f.channels, e.main) EXCEPT
     !.attempts = n, !.min = Clamped(e.min, 1, n), !.rename = e.rename,
     !.configs = e.configs, !.proxies = e.proxies]

LaunchWindow ==
  /\ front = "window"
  /\ \E f \in Copied(home) : eng' = Reloaded(f) /\ home' = Ensured(f)
  /\ win' = Loaded(NewWindow, eng', home')

\* engine.py started by itself: import, then ensure_files.
LaunchCli ==
  /\ front = "cli"
  /\ eng' = Read(home.env, Builtin) /\ home' = Ensured(home)
  /\ UNCHANGED win

Launch ==
  /\ ~up /\ launches < MaxLaunches
  /\ up' = TRUE /\ launches' = launches + 1
  /\ LaunchWindow \/ LaunchCli
  /\ UNCHANGED <<front, portable, busy, edits>>

-----------------------------------------------------------------------------
\* The pages can be reached while no run is in progress.
Edit ==
  /\ up /\ front = "window" /\ ~busy /\ edits < MaxEdits
  /\ edits' = edits + 1
  /\ UNCHANGED <<front, portable, up, eng, busy, launches>>

Enter ==
  /\ Edit
  /\ \E box \in {"p1", "p2"}, text \in Entries : win' = [win EXCEPT ![box] = text]
  /\ UNCHANGED home

Tidied(w) == [w EXCEPT !.p1 = Lists(w).p1, !.p2 = Lists(w).p2]

\* save_channels_from_editor.
Saved ==
  /\ home' = [home EXCEPT !.channels = Lists(win).p1 \o Lists(win).p2]
  /\ win' = Tidied(win)

SaveChannels == Edit /\ Saved

DedupeChannels == Edit /\ win' = Tidied(win) /\ UNCHANGED home

ImportChannels ==
  /\ Edit
  /\ \E text \in Entries : win' = Tidied([win EXCEPT !.p2 = win.p2 \o text])
  /\ UNCHANGED home

LoadDefaultChannels == Edit /\ win' = Split(win, DefaultChannels, eng.main) /\ UNCHANGED home

\* Mutant: fix_min_success is not called.
WithAttemptsOnly(w, n) == [w EXCEPT !.attempts = n]

\* fix_min_success follows the number of attempts.
WithAttempts(w, n) == [w EXCEPT !.attempts = n, !.min = IF @ > n THEN n ELSE @]

ChangeAttempts ==
  /\ Edit
  /\ \E n \in AttemptChoices : win' = WithAttempts(win, n)
  /\ UNCHANGED home

ChangeMin ==
  /\ Edit
  /\ \E n \in 1..win.attempts : win' = [win EXCEPT !.min = n]
  /\ UNCHANGED home

Toggle ==
  /\ Edit
  /\ \E box \in {"rename", "configs", "proxies", "prefilter"} : win' = [win EXCEPT ![box] = ~@]
  /\ UNCHANGED home

ResetSettings == Edit /\ win' = Recommended(win) /\ UNCHANGED home

-----------------------------------------------------------------------------
\* The guards of start_run.
CanStart(w) ==
  /\ up /\ front = "window" /\ ~busy
  /\ w.configs \/ w.proxies
  /\ Lists(w).p1 \o Lists(w).p2 # <<>>

\* start_run saves the lists; the worker is given what the window shows.
StartWindow ==
  /\ CanStart(win) /\ Saved
  /\ busy' = TRUE
  /\ UNCHANGED <<front, portable, up, eng, edits, launches>>

Chosen(w) ==
  [main |-> ToSet(Normalized(w.p1)), attempts |-> w.attempts, min |-> w.min,
   rename |-> w.rename, configs |-> w.configs, proxies |-> w.proxies]

\* Mutant: the ranks keep the value they had.
ApplyButRanks ==
  /\ eng' = [Chosen(win) EXCEPT !.main = eng.main]
  /\ home' = [channels |-> Merge(Normalized(win.p1), Normalized(win.p2)), env |-> Chosen(win)]

\* apply_runtime_settings with write_env_file.
Apply ==
  /\ eng' = Chosen(win)
  /\ home' = [channels |-> Merge(Normalized(win.p1), Normalized(win.p2)), env |-> Chosen(win)]

Gone(files) ==
  /\ up /\ up' = FALSE /\ busy' = FALSE
  /\ home' = files
  /\ UNCHANGED <<front, portable, eng, win, edits, launches>>

Exit == Gone(home)

\* The end comes in a write_text, which empties the file before it writes.
ExitInSave == front = "window" /\ ~busy /\ Gone([home EXCEPT !.channels = <<>>])

ExitInApply ==
  \E f \in {[home EXCEPT !.channels = <<>>],
           [channels |-> Merge(Normalized(win.p1), Normalized(win.p2)), env |-> Empty]} : Gone(f)

EditStep ==
  \/ Enter \/ SaveChannels \/ DedupeChannels \/ ImportChannels \/ LoadDefaultChannels
  \/ ChangeAttempts \/ ChangeMin \/ Toggle \/ ResetSettings

-----------------------------------------------------------------------------
SettingsTypeOK ==
  /\ home.channels = Absent \/ home.channels \in Seq(Lines)
  /\ home.env \in {Absent, Empty} \/ home.env \in Env
  /\ eng \in Env
  /\ win.p1 \in Seq(Lines) /\ win.p2 \in Seq(Lines)
  /\ win.attempts \in 1..8 /\ win.min \in 1..win.attempts
  /\ {up, busy, win.rename, win.configs, win.proxies, win.prefilter} \subseteq BOOLEAN

Opens == front = "window" /\ ~up /\ up'

Listed(w) == ToSet(Normalized(w.p1)) \cup ToSet(Normalized(w.p2))

(* What a run has saved is what the next window shows, through the copies   *)
(* of the files beside the program, the values that were set on import and  *)
(* the limits of the boxes (app.py:200, 229-266, 1338, runtime_paths.py:59): *)
(* every setting whose file is whole, and every channel.                    *)
SettingsKept ==
  [][Opens =>
       /\ home.env = Chosen(win) =>
            \A box \in {"attempts", "min", "rename", "configs", "proxies"} : win'[box] = win[box]
       /\ home.channels = Merge(Normalized(win.p1), Normalized(win.p2)) => Listed(win') = Listed(win)
    ]_settingsVars
=============================================================================
