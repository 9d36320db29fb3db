# Verification of Dicode Config Checker

TLA+ models of the parts of Dicode Config Checker whose steps interleave or whose
data passes through many hands: the latency test engine of version 2, its channel
collector, its desktop window with the output files, the publication of a personal
subscription on GitHub, the Android application, and of the legacy Python program the window and worker,
the provisioning and use of the Xray core, the publication queue, the settings,
and the way of a link from a channel's preview to the published line. TLC checks them
on small instances; TLAPS proves the most important facts for every value of the
constants. Paths below are relative to the root of the repository.

## 1. The system

The program collects proxy links from Telegram channels, tests each of them
through a core (Xray or sing-box), writes the ones that work to text files and
can publish two of these files (`sub.txt`, `proxy.txt`) in a public GitHub
repository of the user. The repository holds three implementations: a C# core
with an Avalonia window (v2), an Android application, and the older Python
program kept in `legacy-python/`.

| Component | State | Operations | Talks to |
|---|---|---|---|
| Latency test engine, `src/DicodeConfigChecker.Core/LatencyTestService.cs`, `BatchRuntime.cs` | result list, progress counter, gate (`SemaphoreSlim`), core processes, temporary configuration files | `TestAsync`, `TestTcpAsync`, `TestHttpAsync`, `BatchSession.StartAsync`, `DisposeAsync` | window (token, progress), core processes, file system |
| Subscription publisher, `SubscriptionPublisher.cs` | none of its own; the branch on GitHub, the stored repository name | `EnsureAndPublishAsync`: user, create, look up, read two files, build, move the ref, read back | GitHub REST API, window |
| Desktop window, `src/DicodeConfigChecker.Desktop/MainWindow.axaml.cs` | candidates, results, the current operation's token, settings | collect, test, stop, publish, connect, open outputs | all of the above |
| Channel collector, `ChannelCollector.cs` | none | `CollectRankedAsync`, `FetchPreviewAsync` | Telegram preview pages |
| Parser and renamer, `ProfileParser.cs`, `ConfigRenamer.cs` | none | link to profile, profile key, numbered names | collector, engine |
| Reports, settings, runtime lookup, `ReportWriter.cs`, `UserData.cs`, `RuntimeLocator.cs` | seven output files, one state file | `WriteAsync`, load, save, find | window |
| Android application, `android/app/` | remembered state of the screen, one coroutine per click, its tasks, output files | collect, test, start over, edit settings and lists, write, share | mobile core library, Telegram preview pages, file system |
| Legacy window and worker, `legacy-python/app.py` | buttons, dialogs, three flags and events, worker thread, settings and channel pages, queue flags in `QSettings`, timers | start, continue, pause, reset, close, edit, save, publish, create; `CheckerWorker.run`, `test_stage2` | legacy engine, publisher |
| Legacy engine, `legacy-python/engine.py` | globals read from `.env`, list of live Xray processes, pools, stage and output files, the core's directory | `stage1_collect`, `stage2_test`, `parse_endpoint`, `build_xray_outbound`, `set_config_display_name`, `ensure_xray_binary`, `repeated_test`, `xray_attempt`, `cleanup_xray_processes` | processes, ports, files |
| Legacy publisher, `legacy-python/subscription_publisher.py` | as the v2 publisher; requests are sent up to four times | `ensure_repository`, `publish` | GitHub REST API |
| Legacy paths and launcher, `runtime_paths.py`, `desktop.py` | data folder, wrapped `fetch_url` | copies of the portable files, reload of the settings | file system, engine |
| Build scripts, workflows, patch scripts, assets, geo data | no runtime state | | |

### What is hard about it

* **Interleaving.** The test engine starts one task per candidate behind a gate,
  `Stop` may cancel the token at every await, and a core process may exit at any
  time. Nothing keeps two publications from running at the same time, and the
  account's owner may commit on GitHub between any two requests. The legacy
  worker polls flags the window sets while pool threads run tests.
* **Partial failure.** Starting a session is a sequence (find the core, choose
  ports, write the configuration, start the process, wait for its ports) that can
  stop after each step; publication is a sequence of up to twelve requests.
* **Lost answers.** A request that created a repository or moved the ref may be
  carried out and its answer lost.
* **Ordering.** Retry results replace entries of a list that other groups wrote
  to; signals posted by the legacy worker are handled after the state they speak
  of may have changed.
* **Crashes.** The core's binary, `channels.txt` and `.env` are truncated before they
  are written; the next start finds what a kill left of them. The flags of the
  publication queue are all that remains of a failed publication.
* **Stale settings.** The same setting lives in the program's `.env`, the user's
  copy of it, the globals of `engine.py` and the boxes of the window, and is
  carried over by hand.
* **Ports.** A port is released between the moment it is chosen and the moment a core binds it.
* **Conversions.** A link is decoded to an endpoint for the prefilter, again to an
  outbound for the core, renamed, and encoded for the output.
* **Limits.** The gate, the clamps on attempts and on the minimum of successes.

`PROJECT.json` lists the hazards one by one with their lines.

### What makes each component correct

* Engine: a returned list names every candidate exactly once; no more tests at
  a time than allowed and no slot lost; a result is only ever replaced by a
  successful retry of the same candidate; requests are sent only while the
  session is up; a call that returns leaves no process behind; each test ends.
* Publisher: the pair of files at every commit is the pair of one call; nobody's
  commit is undone; one call adds at most one commit; a reported success was
  visible on the branch; each call ends.
* Legacy checker: the test starts only after the window asked the user to
  disconnect; what the window shows and publishes as finished is complete; a worker that waits for the user can be continued; an abort ends it.
* Legacy engine: a sample of an endpoint comes from a server that its tester reaches; a process or
  temporary file lives no longer than its attempt; a complete core is not replaced by a worse one; a run ends whatever the core
  is. No link is lost, merged or counted twice between previews and report, and the
  line that is published leads to the server that was tested.
* Legacy settings: a run does what the window shows, whatever was edited, saved or
  interrupted before, and reads each channel shown once; what a run has saved the next window shows.
* Publication queue: the retry flag stands for a timer; a pending publication is
  made once GitHub answers; a stored repository is never replaced; when nothing is
  pending GitHub holds the files of the last run.
* Collector: a link is left out of a returned collection only when its channel's
  limit was filled by links of its own; a collection ends, stopped or not.
* Android application: the results on the pages and the shared files are one test, also
  when tests of a screen that is gone still run; a finished operation looks finished;
  each operation ends.
* Desktop window: output files belong to the last test whenever none is being written and the last write was
  not cut short, and sub.txt is never older than proxy.txt; the automatic publication hands over
  exactly the pair of the test that has finished; each operation ends.

## 2. Modules

| Module | Models | Checked by |
|---|---|---|
| `LatencyBatch` | `TestAsync` and the `BatchSession` it owns, `Test_Click`, `Stop_Click` | `MCLatencyBatch` |
| `LatencyBatch_proofs` | theorems about `LatencyBatch` | TLAPS |
| `SubscriptionPublish` | `EnsureAndPublishAsync`, concurrent calls of it, GitHub's branch, the owner | `MCSubscriptionPublish` |
| `SubscriptionPublish_proofs` | theorems about `SubscriptionPublish` | TLAPS |
| `AtomicOutputs` | what a subscription promises its readers; `SubscriptionPublish` implements it | run `Publish`, property `Refines` |
| `ChannelCollector` | `CollectRankedAsync`, `FetchPreviewAsync` | `MCDesktopRun`, through `DesktopRun` |
| `DesktopRun` | the handlers of `MainWindow`, `ReportWriter.WriteAsync`, the settings file; composes `ChannelCollector` | `MCDesktopRun` |
| `DesktopRun_proofs` | theorems about `DesktopRun` and `ChannelCollector` | TLAPS |
| `CheckerRun` | `CheckerWorker`, `repeated_test` and the window of the legacy program | `MCCheckerRun` |
| `CheckerRun_proofs` | theorems about `CheckerRun` | TLAPS |
| `XrayTests` | `ensure_xray_binary` with its download and extraction, `repeated_test`, `xray_attempt`, `cleanup_xray_processes`, `main` | `MCXrayTests` |
| `XrayTests_proofs` | theorems about `XrayTests` | TLAPS |
| `RetryQueue` | the two publication handlers of the legacy window, their timers, message boxes and stored flags, and `subscription_publisher.py` request by request | `MCRetryQueue` |
| `RetryQueue_proofs` | theorems about `RetryQueue` | TLAPS |
| `LegacyLinks` | links, endpoints, outbounds and names as operators | `MCLegacySession`, through `LegacyStages` |
| `LegacySettings` | `channels.txt`, `.env`, the engine's globals, the settings and channel pages, `configure_engine_paths` | `MCLegacySession`, through `LegacyStages` |
| `AndroidRun` | `DicodeApp` of `MainActivity.kt`, `collectAll`, `testAll`, `testCandidate`, `writeOutputs` | `MCAndroidRun` |
| `AndroidRun_proofs` | theorems about `AndroidRun` | TLAPS |
| `LegacyStages` | both stages, of the window's worker and of the command line; EXTENDS `LegacySettings` and `LegacyLinks` | `MCLegacySession` |
| `LegacyStages_proofs` | theorems about `LegacyLinks`, `LegacySettings` and `LegacyStages` | TLAPS |

### LatencyBatch

`pc` is where `TestAsync` stands between two awaits. `TestAsync` and its
continuations run on the user-interface thread, so the code between two awaits is
one action, and a click never falls inside it. `task[c]` is the task of
candidate `c` in the current pass: it waits at the gate, runs its attempt loop
(`tried`, `good`), and is `done`, or `refused` when `WaitAsync` threw. `live` and
`files` hold the core processes and the temporary files as pairs of the test's
number and the runtime kind, so processes of earlier tests are told apart.

| Action | Code |
|---|---|
| `Test`, `BeginPass` | `Test_Click`; the tasks are created and the first ones pass the gate at once |
| `Enter`, `Refuse`, `Attempt`, `Leave` | `WaitAsync`, one turn of the attempt loop, `finally { gate.Release(); }` |
| `EndDirect`, `EndHttp`, `EndRetry`, `Throw` | the continuations of the three `Task.WhenAll` |
| `RuntimeMissing`, `SelectGroup`, `SelectGroupStopped`, `WriteConfig`, `WriteConfigFails`, `Launch`, `LaunchFails`, `PortsOpen`, `PortsFail` | the group loop and `BatchSession.StartAsync` with each of its failures |
| `BeginHttp`, `Dispose`, `Return` | the HTTP pass, `DisposeAsync`, the end of the loop |
| `Stop`, `Exit` | the Stop button, a core process that exits |

An attempt's latency is abstracted to whether it gave a sample; the median and
the final sort are not observable here. Configuration contents and ports are left
out: that a port is taken by somebody else is one of the reasons of `PortsFail`
or of an attempt without a sample.

### SubscriptionPublish and AtomicOutputs

`at[c]` is the request call `c` makes next. The branch of each repository is the
sequence of its commits; a commit holds the two texts, a counter `other` for
every other file, and its author. The blobs, the tree and the commit object are
immutable and invisible until the ref moves, so their requests are one action,
`Build`, which remembers the head that was read in `base`. `Patch` moves the ref:
GitHub accepts a fast-forward, or a commit that is the head already; the request
or its answer may be lost. `WriteSends` is how often a write is sent: once by
`SendAsync` of the C# publisher, up to four times by `_request` of the Python
one. `Edit` is a commit by the owner.

`AtomicOutputs` is written from a reader's side: repositories show pairs of
texts, a pair is replaced as a whole, other commits leave it alone, and a call is
told of success only when its texts have been on the branch. `SubscriptionPublish`
implements it under the mapping at its end (the history is the two texts of each
commit, the target is `repo`, the reported calls are the done ones).

### ChannelCollector and DesktopRun

`ChannelCollector` follows the bodies of `Parallel.ForEachAsync`. `Ranked` is the grouped list:
the positions of the lines that name a channel first; `taken` is the one the loop has handed
out last. `body[c]` is waiting for `t.me` (`first`), for
`telegram.me` (`second`), parsing or done. `owner` is the shared dictionary: which
channel added a link. `Parse` is one turn of the loop over matches with its
`TryAdd`. What a preview contains is a constant (`Page`), a link that the parser
rejects is `Unparsed`, and the rules of channel names are the function `NameOf`.
A cancelled token makes the call end as cancelled even when the last body
had finished.

`DesktopRun` EXTENDS it and adds the window. `op` is what `_operation` is doing:
each handler is cut at its awaits.

| Action | Code |
|---|---|
| `Collect`, `Collecting`, `Collected`, `CollectStopped` | `Collect_Click` up to its await, the collector, the continuation, the catch |
| `Test`, `TestReturns`, `TestStopped` | `Test_Click`, with any verdicts: what `TestAsync` returns is the subject of `LatencyBatch` |
| `OpenFile`, `FillFile`, `WriteEnds` | `WriteAsync` file by file, then `RefreshOutputs` and the automatic publication |
| `AutoEnds` | the end of that publication, whose requests are the subject of `SubscriptionPublish` |
| `Change`, `Save`, `Stop`, `ShowOutputs` | the user edits the settings, saves, stops, opens an output page |
| `Exit`, `Start` | the program ends in any state and starts again |

The window of results (`results`), the files (`disk`) and the pages (`shown`) hold
sets of links with the number of the test they are from; `Torn` is a file that has been
opened and not filled. Of the seven files `sub.txt` and `proxy.txt` are told
apart, and `report` stands for the other five. `interrupted` says that the program ended in the
middle of the last write; the next complete write clears it. A manual publication changes nothing
here but the saved settings (`Save`). It may read the two files in the middle of a write: the code
does not prevent that, and the second half of `FilesAgree` bounds what it can read.

### CheckerRun

The worker's thread is `wk`: its actions follow `CheckerWorker.run` and the loop
of `test_stage2` from one point where another thread may run to the next. `test[e]`
is the state of an endpoint (collected, skipped, pending, running in the pool,
finished, recorded by the worker); `batch` is the `done_set` of the last
`concurrent.futures.wait` that is not yet handled. The pool threads are `BeginAttempt`,
`EndAttempt` and `Conclude`. The window's handlers (`Start`, `Continue`, `Stop`, `Reset`,
`ResetDone`, `Close`) set `abort`, `pause` and `consent`. Signals are queued to the
window with the number of the run that posted them; `due` says how many of them
Qt's event loop delivers before it takes the next click. A modal message box runs
an event loop of its own: signals are delivered (`Deliver`) while it is on the
screen, clicks on the window are not.

`btn_stop` is created hidden and no code shows it, so the pause path cannot be
reached in the program as shipped. `stopShown`, chosen at the start and kept, says
whether it can be clicked: FALSE is the program as it is, TRUE the pause path the
worker implements.

### XrayTests

The program runs as the window, as the command line or with
`--download-xray-only` (`front`). The core may lie beside the program or in the
`core` directory, complete, partial or built for another machine; it is looked up
(`Existing`), asset by asset of the latest release chosen (`Keyword`, `Chosen`),
downloaded (`Download` may fail after a part), and extracted in two steps, since
`open("wb")` truncates the old binary first. Then the endpoints are tested at the
same time, each job being one `repeated_test` with its attempts.

| Action | Code |
|---|---|
| `TakePort` | `free_port`, which binds a port and releases it, or raises |
| `WriteConfig` | `NamedTemporaryFile(delete=False)` and `json.dump`: no file, a file whose dump raised before `tmp_path` was assigned, or a complete one |
| `Spawn` | closing the file and `Popen`, which may raise for any binary |
| `Listen` | the core binds the port if nobody listens there, or ends |
| `PortOpen`, `PortClosed` | `wait_port_open`, which asks only whether anybody listens |
| `Probe` | the request, through whatever core listens on the port |
| `Finally`, `Raise` | the `finally`, and what happens after an exception |
| `Cleanup`, `Close`, `Closed` | the cleanup of a pause or reset, `closeEvent`, the end of the process |
| `Crash`, `Launch` | the program is killed anywhere and started again |

Nothing keeps the system from handing a released port out again before a core has
bound it, so `Free` holds every port that has no listener, the ones other calls wait for
included; a port has at most one listener, which is a job's core. `mixed` marks a call that took a
sample while another call held the same port, `error` says what ended a call.

`Cleanup` and `Close` end a snapshot of the process list while other threads go on and launch cores.
After `closeEvent` the process ends only when the threads of the pool have (the interpreter joins
the threads of every `ThreadPoolExecutor`, and the window and its worker live until then, since slots
connected as lambdas refer to them), so `Closed` waits for the calls that were begun, and each `finally` runs.

Taken to succeed: `terminate_process` and `unlink`, whose exceptions the code swallows. Not
followed: listeners of other programs, and the cores and configurations a killed program leaves
behind, whose ports the system does not hand out.

### RetryQueue

`call` is the handler in progress: handlers run on the thread of the window and
block it, so at most one is. `boxes` is the stack of open message boxes, each an
event loop in which timers and the signal of the finished worker are handled;
what a handler does after its box is kept with the box (`CloseBox`). `pending` are
the two flags in `QSettings`, `scheduled` the flag that limits the timers, `timers`
the timers that will fire. `TextFlags` says whether a stored False is read back as
the text "false", which is truthy: with the INI files and the registry of
`QSettings` it depends on the system. `wk` and `files` are the checker's worker, which
clears and rewrites `sub.txt` and `proxy.txt` meanwhile, `Network` switches the
connection, and `End` closes or kills the program at any point. A repository is
`None`, `Bare` (created, without the two files) or shows a pair of versions.

### LegacyLinks, LegacySettings, LegacyStages

`LegacyLinks` abstracts a link to what it says: its scheme, server, port,
transport, security and name, each with the values the parsers tell apart (absent,
out of range, unknown). `Endpoint` is `parse_endpoint`, `Outbound` is
`build_xray_outbound`, `SetName` and `GetName` are the renaming; they are plain
operators, so facts about all links can be proved. That base64 and JSON give back what was put in is
assumed: `SetName` says which parts of a link the code writes again.

`LegacySettings` follows a setting through its four places. `Launch` is the
import of `engine.py`, `configure_engine_paths` and `load_initial_values`; a copy
that fails is silently not made. `Exit` may fall into a `write_text`
(`ExitInSave`, `ExitInApply`), which leaves an empty file.

`LegacyStages` adds a run: the previews are fetched from two hosts (`Fetch`), their
links taken in the order of the regular expressions and up to the limit of the
channel's rank (`Extract`, `Limit`; `order` are the channels in the order of the file, `reads` counts how often
each was fetched), merged by key, written and read again, parsed,
sorted by the prefilter, tested, and written. `Record` is one completion, in any
order; it ends with the partial outputs. What the test of a link measures is
any of `Pings`: the attempts behind it are the subject of `XrayTests`.

### AndroidRun

`screen` counts the compositions of the screen: the activity declares no
`configChanges`, so a rotation recreates it, with a fresh `view` (what is kept by
`remember`) and the same `lists` (`rememberSaveable`). `op[s]` is the coroutine that
composition `s` launched last, with its tasks: a task waits for a permit (`Enter`), is
inside it, is `counted` by the atomic counter, and is done when its report is
made (`Update`), on its own thread and in any order. `Begin` is apart from the
click, since the launched block is dispatched and reads settings and lists
only then. `Recreate` cancels the scope: tasks that wait are cancelled, those that block an
IO thread go on beside the ones of the next screen. `Kill` and `Crash` are the end of the
process; `writeOutputs` runs outside `runCatching`, so an exception in it ends the
process with part of the files written (`Torn`).

A page is a constant sequence of links, some of which the parser rejects; `KeyOf` is
the key they are merged by. `nature` says how the server of a link behaves: it
relays requests, only accepts connections, or is dead.

## 3. Runs

Passing runs:

| Run | Bounds | Shows |
|---|---|---|
| `LatencyTest` | 4 candidates (1 direct, 2 Xray, 1 sing-box), 1 slot, 2 attempts, minimum 2, 2 tests | one result for each candidate, nothing left after a return, results only improve, and every test ends |
| `Desktop` | 2 channels sharing links, one of them in both lists, limits 1 and 2, 2 fetches at a time, 2 tests, 1 changed setting, 1 exit | the collector's and the window's invariants; operations end |
| `Publish` | 3 calls sharing texts pairwise, 2 repositories, none at the start, 2 sends, 1 owner's commit | the publisher's invariants, `NothingLost`, refinement of `AtomicOutputs`, and that calls end |
| `Checker` | 1 Xray endpoint, 1 without a core, 1 pool thread, 2 attempts, minimum 2, 2 runs, pause button hidden or shown | consent, completeness of what is finished, continuing, and that an abort ends the worker |
| `XrayTests` | 2 v2ray endpoints, one that relays and one that does not, 2 ephemeral ports, 2 attempts, 2 starts in any of 3 front ends, 1 cleanup in each, 2 machines, cores found, downloaded and unpacked | good samples are real, nothing is left over, a good core is kept, the run ends |
| `RetryQueue` | 2 repositories, 2 writes of the pair, 1 click, 1 change of the token, 2 starts, 2 nested boxes | the flag has a timer, links stay, what is settled is published, the queue drains |
| `LegacySession` | 2 starts, 2 edits, 1 run, portable files present or not, channels of both ranks sharing links of every scheme | the run does what the window shows, what it saved is kept at the next start, links are accounted for, outputs are faithful |
| `Android` | 2 channels sharing a link, a rejected link and a proxy, limits 2 and 1, 1 permit that may become 2, 2 attempts, 2 screens, 4 inputs of the user | the pages and the files are one test, finished looks finished, operations end |

Why the bounds are enough to be interesting: with four candidates and one slot
there are tasks running, waiting and refused at the same time, two groups of a
core and one without, and a group of two of which one may fail and be retried;
with two tests a process left by the first meets the second. Three calls over
two repositories give two concurrent publications and one that starts later,
each pair sharing one text, so a branch can be up to date in one file only.
Two channels fetched at once compete for the links they share, and the smaller limit
is filled before the end of a page; one changed setting can fall between any two
steps of a test, its write and its publication, and one exit into any of them,
with a whole second test after it.
Two endpoints and one pool thread leave one endpoint queued while the other is
tested; two runs let signals and files of a run meet the next.

Two endpoints over two ports may have the same port or one each, and a port may be used again while
the other endpoint is still tested; one server relays and the other may only accept connections, so a
sample through the wrong core shows. The second start looks at the files a kill
has left. Telegram proxies, whose tests share nothing with the others but the executor, are left to the proofs. Two writes and two nested boxes are the least with which a
handler can read between two writes, and with which a timer can fire inside the
box of the failure that is about to start one; a second start reads the flags the
first one left. Two edits before a run are enough to move a channel between the
ranks and change the attempts, and a second start shows what of it was kept.

Two screens and four inputs are a collection and a test on each of them, so that tests of
the first screen can end while the second writes its files; an input may also be a change of the
settings or lists in the middle of an operation.

The bounds themselves are constants: `MaxRuns` (tests or runs the user starts),
`MaxEdits` (the owner's commits), `WriteSends`, `MaxTests`, `MaxChanges` and
`Changeable` (settings the user changes), `MaxExits`, `MaxWrites`, `MaxClicks`, `MaxStarts`, `MaxBoxes`, `MaxLaunches`, `MaxCleanups`, `MaxScreens`, `MaxInputs`, and the
finite sets.

Runs that end in a counterexample, each a disagreement with a text of the
repository (quoted in `PROJECT.json`, `findings`):

| Run | Property | What happens |
|---|---|---|
| `LatencyOrphan` | `OneProcessPerKind` | `Stop` while tasks wait at the gate makes `WhenAll` throw past the disposal of the session; the next test starts a second process of the kind |
| `DesktopKept` | `KeptOnStop` | a stopped collection drops the links of the finished channels, which the status line says were kept |
| `RetryLost` | `QueueKept` | a pending repository hides a pending publication at every later start: no timer is left for it |
| `XrayShared` | `OwnConfig` | two calls are given the same port, one core binds it, and the probe of the other call goes through that core: an endpoint that relays nothing has a sample |

Other things the code does that a reader should know, without a run: a failed or
concurrent first publication of v2 leaves an empty repository behind, since a
later call makes another; "queued" in the status line of v2 is followed by no
retry; after a reset that gave up waiting (1.5 s) the legacy Start button
does nothing while the old worker runs; an aborted worker writes its partial
outputs all the same; signals of the legacy worker do not name their run, so after a reset that
gave up waiting the request to disconnect of the old run may be what enables Continue
in the new one, whose own request then comes after the click. A kill between
the truncation of `channels.txt`, of `.env` or of the core's binary and the end of the write leaves an empty or partial
file, which the next start accepts; a configuration whose `json.dump` raised stays on disk with its
credentials; a repository whose creation was answered by nothing stays empty.
At a start of the legacy window a channel has rank one if the value of `MAIN_CHANNELS` on import says so (`persianvpnhub`
where no `.env` lies beside the program): `_reload_environment` reads every setting of the user's `.env` again but this
one, so the ranks a run has saved are lost, and `RELEASE_NOTES_v1.0.1.md:6` ("emptied in the default files so that the new
list really stays rank two") does not hold for that channel. The Android application shows a tuic, hysteria2, ssr or snell
link as good by `core-http` although only a TCP connection was made (`MainActivity.kt:412`), against `CHANGELOG.md:32`.
It publishes nothing and keeps neither settings nor lists across restarts, which
`CHANGELOG.md:15-17` lists among its additions; its "TCP prefilter" switch has no effect; and with
more than five attempts a minimum above five can never be met.

`CHECK_DEADLOCK FALSE` is set in every configuration: the user may stop using the
program in any state in which nothing runs, and the bounds on tests, calls and
runs end the behaviours.

### Fairness

* `LatencyBatch`: weak fairness of the engine's own steps. Each await in it is bounded: requests
  and connects by the request timeout, the wait for ports by the startup timeout,
  the gate by the tasks ahead in the queue. `Test`, `Stop` and `Exit` are never
  required to happen.
* `SubscriptionPublish`: weak fairness of each call's next request: the client's
  timeout is 20 seconds. The user is not required to publish, nor the owner to commit.
* `DesktopRun`: weak fairness of the operations' own steps: a preview request ends
  within 15 seconds, and what `TestAsync` and the publisher need to end is checked
  in their own modules. Clicks, exits and restarts are never required to happen.
* `CheckerRun`: weak fairness of the worker thread and of each pool thread: their
  waits have time limits (0.35 s for the pool, the attempt timeouts). The
  exception `Break` and the window's handlers are not fair, so `AbortEnds`
  does not depend on the user or on the event loop.

* `XrayTests`: weak fairness of the program's own steps and of each job: the download,
  the wait for a port and the probe have timeouts. Kills and the end of a core are
  never required to happen, nor does a core have to listen.
* `AndroidRun`: weak fairness of each composition's coroutine and tasks: requests have timeouts of 15
  seconds, connects of 3.5, the core's probe ends by itself, and IO threads go on after the
  screen is gone. Clicks, recreations and kills are never required to happen.
* `RetryQueue`: weak fairness of the requests (each has a timeout), of the timers and of the
  closing of message boxes: the window can do nothing else while one is open. `QueueDrains`
  supposes a network that is there from some time on.
* `LegacyStages` has no liveness property: its loops are bounded by their lists, and
  the waits in them are in `CheckerRun` and `XrayTests`.

### Mutants

The definitions whose comment begins with "Mutant:" are plausible mistakes in the
definition after them (a missing `finally`, a dropped guard, `force: true`). They
are not part of any specification. For each checked property one of them, put in place of the
original, makes the property fail in the same run; `PROJECT.json` lists the pairs.

## 4. Proofs

TLAPS checks the eight proof modules for every value of the constants that meets
the named assumptions (`CandidatesAssumption`, `OptionsAssumption`,
`CallsAssumption`, `RetryAssumption`, `CollectAssumption`, `DesktopAssumption`,
`CheckerAssumption`, `XrayAssumption`, `AndroidAssumption`, `LinkAssumption`,
`SettingsAssumption`, `StagesAssumption`): any finite set of candidates, any
number of slots, attempts, calls, repositories, texts, sends and owner's commits, any lists,
pages and limits of channels, any endpoints and ports, any number of clicks, runs, tests,
restarts, screens and nested message boxes. The assumptions say what kind of value a constant has
(a number, a sequence of links, a finite set) and that marks such as `None` and `Torn` are
not values of another kind. TLC evaluates them in every run, and each strengthening
below was first checked by TLC.

**LatencyBatch.** None of the invariants is inductive alone. `IInv` adds what they
rest on, in four parts:

* `LiveOwned`: a process of the current test belongs to the current group, and
  lives only between its start and its disposal, or after a throw;
* `GroupPending`: a group that has a session is not finished;
* `OutputSettled`: no candidate has two results, and at each `pc` it is known
  which candidates have one;
* `GateAccounts`: free slots and running tasks add up to the slots of the gate.

`Invariance` proves `[](TypeOK /\ IInv)` action by action. From it follow
`TypeSafety`, `GateSafety`, `ResultSafety`, `ReturnCleanliness`, `ProcessSafety`
and the action property `ResultMonotonicity`.

**SubscriptionPublish.** `BranchMoves` and `BranchGrows` say what a step can do to
a branch: nothing, create it, append a call's commit to the head the call read,
or append the owner's. `IInv` says where each call works and that the repository
exists (`CallsLocated`), that what it has read was on the branch (`ReadsShown`),
which commits are its own and that the branch is longer than its base once its commit is on
it (`CommitsSigned`), and that the other files are never set back (`OthersGrow`).
`PairSafety`, `CommitSafety`, `SuccessSafety` and `NoLoss` follow. `Refinement`
proves that the publisher implements `AtomicOutputs`: `Create` maps to
`Establish`, `Lookup` to `Choose`, an accepted `Patch` to `Replace`, `Edit` to `Touch`,
`Skip` and `VerifyProxy` to `Report`, everything else to a stutter.

**RetryQueue.** `AlwaysTyped` is the type invariant, action by action. The flag
property is inductive with it: a step that lowers a counter of timers is `Fire`,
which clears the flag in the same handler, and the flag is set only together with
a timer (`FlagHasTimer`). `LinksStay` needs that a call that found a stored
repository works on that one: the strengthening says where a call that will store
another name can be.

`SettledHolds` is the property that joins three programs: the window, the worker that rewrites
the two files, and GitHub. `SettledIsPublished` speaks only of the end; `PublishInv` says what a call
that is still under way will leave: a publication that began after the end of the worker was handled has
read the files of that run, and without such a call whatever is not pending is what GitHub
holds. It also needs that every request is made by the handler it belongs to, with a
repository, and that a repository in use is the stored one (the part proved for `LinksStay`).

**XrayTests.** `CallsInv` says what each call holds at each of its steps: a port from `TakePort`, a temporary
configuration from `WriteConfig` and a core from `Popen`, all up to the `finally`, a file after a failed dump, and
never more samples than attempts (`JobsInv`); and that outside the tests no call is in an attempt (`QuietInv`), without
which a second start could find what the first left. `NothingLeft` follows at once.
`BinaryStays` rests on `FilesInv`: a download is under way only if no binary was found at all, so
what it overwrites was never complete. `SamplesAreReal` is proved for any ports the system hands out, the same port to
several calls included: a sample is either of the endpoint's own core or `mixed`. Its other half is which tester
an attempt uses (`Routed`), also after the binary was lost or the mode is strict. Without the
exception for `mixed` the claim is false, which the run `XrayShared` shows.

**DesktopRun** and the collector it calls. `BodyOK` relates three counts of one body: the links
the dictionary holds of its channel, the matches it has looked at and the number it
compares with its limit; `LoopOK` says which bodies have begun and that the progress
counter is the number of those that are done. `AllLinksAccounted` follows for any number of channels
that share links, at any parallelism. For `OutputsAgree` and `PublishedIsTest` the strengthening is
`Filled`: in the middle of a write the files up to the counter hold the content of the current
test under the options the write began with, which nothing the user changes meanwhile can touch. `OutputsAgree` also
has the order of the files at every moment (`InOrder`), through exits in the middle of a write and restarts on what they
left: a write goes through the files in one order and only ever with the newest test.

**CheckerRun.** Four parts on top of the types. `PoolInv`: an attempt belongs to an endpoint whose
test runs, tests run only while the executor is open, and a batch holds what has finished. `ResultInv`: past the loop of
a run that nobody aborted nothing is left to test, and from the last write on the files are what
the results say, until the window has handled the end. `ConsentInv`: all that
can let a run pass its wait (the event, the Continue button, a posted signal that would enable it) follows a
request of the window. `WaitInv`: the request is the last signal of a
waiting run, so what an older run left in the queue cannot take the Continue button
away after it. The types need `PoolInv` (an attempt never exceeds the number of attempts), and `WaitInv`
needs `ConsentInv`. `AskedBeforeTest`, `ShownFilesAreComplete` and `NeverStuckWaiting` follow.

**AndroidRun.** `StateOK` says of every coroutine, also of those of screens that are gone, that
its counter is the number of its tasks that have counted, that its permits are not exceeded, and that one that has not
begun has no tasks; `Placed`, that the shown screen has a coroutine only while it is busy
and a later screen none. `ShownTestIsShared` is then inductive: only the end of a test
writes the files, and the same step sets the results. `FinishedLooksFinished` needs `Placed`: a
report that comes late has no coroutine any more to come from, or belongs to a screen that is gone.

**LegacyLinks, LegacySettings, LegacyStages.** First, facts about every link: `SameServer`, that
an endpoint and an outbound of one link name the same server and port;
`RenameKeepsTest`, that a renamed link has the endpoint and the outbound of
the tested one; `RenameKeepsKey`, that renaming does not change the key by which
links are merged, where the key is not the whole payload.

What the lists become is defined without recursion: `Keep(s, P)` is the list of the entries of `s` at
the positions `P`, in their order, and the other list operators choose `P` (the first of equal entries, of
equal keys, the entries of one kind). The lemma `Enumeration` carries all of it: where the elements of
a finite set each have a set of those up to them, the sizes of these sets number the elements. It gives
what `Keep` returns (`KeepFacts`, `KeepSet`) and, with the order by latency, what the sorted results are
(`PlaceFacts`), for lists of any length and without induction.

`Inductive` proves the conjunction of seven invariants, action by action. `SettingsInv` holds the types of the files, the
globals and the boxes, and that a program that runs has a list of channels. `PhaseInv` says that a run is in progress only in a program
that runs, so no edit or start comes between, and that the command line finds the same names again when it is
started after a finished run. `RankInv` follows the ranks from the editors through `apply_runtime_settings` and
`channels.txt` to the previews; it needs that what a start saves is names, which name themselves when they are read again
(`ChannelsAreLines`). `ReadInv` counts the previews: `order` is the names shown, each once, and the ones still to be
asked have not been fetched; that names read again give the same list (`NormalizedOnce`) is what makes it the list shown.
`RanksHold` follows: the engine's settings are the window's, and each shown channel is read exactly once before the
stage ends. `SettingsHold` is an action property: through the file, the copy of the portable one, the import, the reload
and the limits of the boxes each setting comes back as it was saved. `ListInv` says
that every list of links has a key once and only keys of the previews, and that no key is lost on the way;
`TestInv` that every link read is in one place: still to be tested, switched off, not supported, or in one
result. `OutInv` relates the files to the results there were when they were written. `AlwaysTyped`,
`Accounted` and `OutputsHold` follow. That the numbered names differ rests on an assumption the code justifies: there is a
number for every link (`StagesAssumption`), and the results have no more links than the previews have keys
(`EnoughTags`).

`PairSafety` (`WholePairs`), `GateSafety` (`GateBound`) and `ProcessSafety` (`OneProcessPerRun`) are
proved for every instance and therefore in no run; `Refines`, which is, implies the first.

**Only model-checked:** the liveness properties (`TestEnds`, `CallsEnd`,
`OperationsEnd`, `AbortEnds`, `RunEnds`, `QueueDrains`), which are
beyond the prover, as `ENABLED` is. Every invariant and action property of a passing run is proved.

## 5. What is not modelled, and why

* Contents: links, profiles, configurations, HTML, JSON, latencies and their
  medians, log wording, window layout.
* `ProfileParser`, `ConfigRenamer`: text formats of v2 without interleaving; the
  same conversions of the legacy engine are in `LegacyLinks`.
* The editing of the channel lists, the themes and the navigation of the desktop window.
* Of the Android application: the text formats of `parseCandidate` and the configurations it
  builds, the log, page switching and the share dialog; `VpnKickService`, which nothing in the
  repository starts.
* Reports without the dead links: `WRITE_DEAD_TO_REPORT` is 1, the default and what the window writes.
* The report files besides `sub.txt`, `proxy.txt` and the lists of `report.json`;
  they are written from the same lists at the same time.
* Build scripts, workflows, patch scripts, assets and geo data have no runtime state.
* GitHub, the core processes and the operating system are external: they appear
  only as the outcomes the code has to be ready for.

## 6. Plan

Done: all the modules of section 2, with proofs of every invariant and action property that the runs
check, of the refinement of `AtomicOutputs`, and of facts about every link.

Next: the clamps of the v2 settings and the success rule of its two passes against a reference definition,
and what the failed-publication hazards of section 3 leave open once the code decides them.
