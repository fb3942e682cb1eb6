# Nextdeck in TLA+

Nextdeck is a terminal program that shows the tests of a Cargo workspace, runs
them with cargo-nextest, shows their output while they run, runs the `xtask`
commands of a project, and keeps an eye on the size of the target directory.
It is one UI loop and a changing number of tokio tasks, threads and child
processes that answer it through one bounded queue. This directory holds
specifications of that system: TLA+ modules translated from the sources
(`src/src/*.rs`, `src/nextdeck-helper/src/*.rs` and `src/xtask/src/main.rs`;
file names below are relative to `src/src` unless they begin with `xtask/src`),
configurations for TLC, and proofs for TLAPS.

`PROJECT.json` maps each definition to the lines it stands for, lists the
hazards of the code and which property answers each, the runs, the mutants
(for each property one plausible slip in the code that breaks it), the theorems and the
findings. To check: `tlc -config X.cfg M` for a run, `tlapm M_proofs.tla` for a
proof.

## The system and what is hard about it

| part | state | operations | hard because |
|---|---|---|---|
| run pipeline (`runner.rs`, `nextest.rs`, `queue.rs`) | producer, two reader tasks, forwarder, `RunControl`, two channels, batch | start, stop, quit, read, forward, drain, handle | five actors, two bounded channels on which any send may wait, kill and timeout, shutdown |
| test statuses (`app.rs`, `tree.rs`) | `App.run`, status of each test | every `RunEvent` | several processes per run, killed in the middle; a message of one pipe against results of another; what nextest takes a name, a path or a target for |
| tests tree (`tree.rs`) | nodes, expansion, filter, selection | build, walk, fold, filter, results | results change what the filter shows under the user's selection |
| output capture (`nextest.rs`) | three collectors behind locks | lines of two pipes | one output in three forms, told apart by text and by timing |
| captured output (`output.rs`) | entries of a test, text of a program | append, conclude, drop | a limit in bytes that cuts lines and characters, a marker put before what is left, text that comes late and goes before a summary |
| output pane (`output_pane.rs`, `output_layout.rs`, `scroll.rs`) | offset, anchor, follow, search | scroll, resize, search, new lines | positions are read in one frame and used in another over a text that is trimmed and gets lines before its last one |
| disk usage (`disk_usage.rs`) | request ids, the control, the cleanup | scan, cancel, clean | a thread that cannot be aborted, late answers, an answer that was true before a clean |
| stack samples (`diagnostics.rs`) | the pane, one thread | ask, close, sample | processes end and fork between the list and the samples; answers carry no id |
| xtasks (`xtask.rs`) | manifest, loads, run, one error field | load, run, output | loads overtake one another and a run; two pipes, a channel, a queue |
| xtask arguments (`xtask.rs`, helper) | values and overrides | edit, adjust, request | what is shown, what is omitted and what Clap understands must agree; the manifest does not tell all that Clap asks |
| xtask preferences (`xtask/persistence.rs`) | revisions, the file | change, save, restore | read-modify-rename without a lock; crashes; retries; a file of another version |
| settings (`config.rs`, `settings.rs`, `runner.rs`) | ranges, the file, what is drawn | keys, save, start | waiting keys are skipped; a file written in place by several processes |
| test events (helper `lib.rs`, `test_events.rs`) | logs of the last runs | emit, append, select | two limits, eviction, numbering outside the lock |
| screen (`command.rs`, `app.rs`, `ui.rs`) | about twenty flags | keys, answers | the meaning of a key is derived from flags that are set and cleared far apart |
| run options (`custom_run.rs`) | fields, presets, selection | arrows, edits, run | choices kept by index over lists that discoveries replace |
| automation (`xtask/src/main.rs`) | target/dist, the formula, the packaged helper | release, formula, publish locally, install | files of failed and killed commands are found by the next one; the worktree, the version in it included, changes during a build |

The parts talk in three ways. Keys and answers are `QueueEvent`s, handled one at
a time by the UI loop, which alone changes `App`. An `AppEffect` returned by a
command begins a task. Tasks answer through the queue, with a request id where
a newer request may overtake an older one (disk usage, discovery, xtask loads
and runs), and without one where the code holds that there is only one at a
time (runs, stack samples). The automation crate is a program of its own, which
shares nothing with Nextdeck but the worktree.

## Modules

Each module stands for one part; its VARIABLES carry the names of the fields
they model, its actions the names of the handlers or of the step of a task. The
history variables are named as such where they are declared.

- **`RunLifecycle`** is what the screen promises of a run, without any tasks:
  events are shown in the order they were emitted, nothing is shown of a run
  that is not in progress, a run is concluded once and after its events.
- **`RunPipeline`** is how the code does it: `Producer` is
  `NextestClient::run`/`run_once` with its awaits as control points (`pc`),
  `ReadStdout`/`ReadStderr` the reader tasks, `Forward` is
  `forward_run_events`, `PressKey`/`Drain`/`Handle`/`DrawFails`/`Exit` the UI
  loop and the shutdown at its end. `sharing` says that a test of a run without
  capture has outlived nextest and holds its pipes: tests have process groups of
  their own, which the kill does not reach. Its property `ImplementsLifecycle` is the
  refinement (`INSTANCE RunLifecycle WITH active <- running, ...`).
- **`TestRun`** takes the events of a run as they arrive (their order is what
  `RunPipeline` establishes) and models what they do to `App.run` and to the statuses.
  `Scopes` are those of every kind, `ArgSets` what the command line says of one (targets,
  and names and paths as filters), `SelectedBy` what nextest makes of it. The kind of a target
  decides what it is told: of one without a flag, a procedural macro for
  instance, only the package is given (`Flagged`).
- **`TestTree`** builds the tree from a discovery, draws its rows under a
  filter and lets the user walk while statuses change. Recursive functions over
  the nodes stand for the recursive visits, over tests and levels for the loops
  that build it.
- **`OutputCapture`** has the two reader tasks share the three collectors, each
  lock a step of its own.
- **`Scroll`** is the arithmetic of `ViewportState`, without variables;
  **`OutputPane`** uses it for the pane with its layout cache, anchor, follow
  mode and search, over the text that is read anew at each frame and command:
  lines of a test, the summary of its failure, before which late lines go
  (`Captured`), and that of the run (`WithSummary`); a run that its command failed is
  shown from the start, and the next one begins with an empty text.
- **`DiskUsage`** has tasks, blocking threads, the control whose `Drop`
  cancels, and `cargo clean`. **`StackSample`** has the processes below nextest
  and the thread that lists them, samples the group of a test one process after
  the other, and lists them again. **`BackgroundTasks`** puts the two together.
- **`Xtasks`** has the loads and the run of a command with its process, pipes,
  channel and forwarder. **`XtaskArguments`** follows one argument from Clap
  over the manifest to the command line, flag and value as two words, and back to Clap, which
  may refuse a value that looks like a flag or know no long flag. **`XtaskPanel`** puts the two
  together.
- **`XtaskPreferences`** has processes that start, change, save in four steps,
  crash and overlap. **`Settings`** has the file of the settings, the panel, the
  batches of keys and resizes of which only the last is handled
  (`should_skip_stale_event`), and the saves. **`NextdeckProcesses`** is the
  processes of both, and **`Persistence`** puts the two together: they are the two
  files under `~/.nextdeck`.
- **`TestEvents`** has the threads of a test process and the logs;
  **`TestOutput`** is the arithmetic of the captured output, without variables.
  **`Results`** is all that is shown of a run: `TestRun` and the output of its
  tests move together (a run clears the output, a failure adds its summary),
  the lines of the runner, the text of an xtask, and `TestEvents`.
- **`Release`** is the release of the program and its formula: build, archive, hash,
  sign and render as steps between which a command fails or is killed, the
  worktree edited meanwhile. **`Automation`** adds the installation and the helper packaged for
  other projects: the version is read (`expected`) before cargo runs, and then whatever
  lies in the place of that version is taken.
- **`Screen`** has every flag that decides which overlay takes the keys,
  `command_context`, the commands of each mode and the answers that arrive.
- **`CustomRun`** has the fields of the run options and the request made of
  them. What `Screen` says of the panel (closed, open, editing) is refined here.

Where a module puts two parts together and no handler of the one touches a
field of the other, one moves while the other rests: this reaches every state of
either, and their product would add nothing. It holds of `XtaskPanel`,
`BackgroundTasks`, `Persistence`, `Automation`, and in `Results` of
the output and the events. Where they do share a field (`TestRun` and the output in
`Results`) every interleaving is explored.

An `MC` module gives TLC the sets that a configuration file cannot write down;
modules without one get all their constants from the `.cfg`.

## What the runs check

There is one run for each group of parts, which checks everything that is claimed of
them, and one for the finding. Bounds are constants named in the modules. The
properties speak of order and of relations between few actors, so that two of a
kind (tests, runs, groups, loads) and three where one overtakes another
suffice, and channels of capacity one or two make every send wait at some
point.

| run | properties | bounds | distinct states |
|---|---|---|---|
| `run_pipeline` | `TerminalComesLast`; `SomeoneConcludes`; `ExitAwaitsRun`; `RunsDoNotOverlap`; the refinement `ImplementsLifecycle` (no event of a run lost, repeated or overtaken on its way to the screen); `StopTakesEffect`; `QuitCompletes` | capacities and batch 1, two groups of processes in all (one run of two or two runs of one), one line per run from either pipe, two keys at any moment, tests that outlive nextest or not | 850,000 |
| `results` | `RunInv`, `OnlyScopeRuns`, `VerdictIsTrue`, `OutputIsTail`, `LogsInv` | four tests, one ignored, two of one name that is part of another and in a module whose path is part of all three, three targets, one without a flag, two packages, two runs; three texts of two kinds for a limit of 7 bytes (the marker takes 2, a line 3 or 4), four lines and more for 3 of the runner; two threads (symmetric), three runs for two logs, three events of two sizes over both limits | 631,000 |
| `tree` | `TreeInv`, `ScopeIsSubtree`, `OnlyResultsHideSelection` | four discoveries, nested modules, an integration test, modules merged with a target of the same name either way, two filters | 33,900 |
| `output_capture` | `OutputInv`, `EventsOnce` | two tests of which one may fail, two chunks, one of which is an event, one poll | 3,421,000 |
| `output_pane` | `ReaderStays`, `NextMissesNone`, `PaneShows` | three lines and two summaries, of which three lines are kept, two queries, panes of 1 and 3 rows, widths 3 and 5 | 154,000 |
| `background` | `DiskInv`, `ReportIsTrue`, `ScanConcludes`, `SampleConcludes` | three scans and a clean, capacity 2; two samples, two tests, one of which has a group of three processes (one more than are sampled) and a child outside of it | 235,000 |
| `xtask_panel` | `PanelInv`, `ConcludedIsComplete`, `RunConcludes` | two loads, two runs of two chunks for each pipe, every buffer 1; four words, one of which begins with a dash, the integers -2 to 2 for i64, five lists of choices | 264,000 |
| `persistence` | `SavedIsOnDisk`, `SaveLeavesTheRest`, `NeverTorn`, `ReturnsAsChosen`, `ChangesAreSaved`, `SettingsAreKept`, `WidthIsAsIntended` | two arguments of two values, three manifests, two changes, one fault, any number of crashes, one process at a time; widths 1 to 3 of 0 to 4, batches of three, two changes | 486,000 |
| `screen` | `ScreenInv`, `DiscoveryAndRunExclude`, `LeavingSucceeds` | two tests | 49,000 |
| `custom_run` | `RequestInv` | three tests, two projects that differ in profiles, reasons and tests; numbers to 2 for the 10, 20 and 100 of the code; any two fields away from their defaults at once (`MaxVaried`) | 866,000 |
| `automation` | `ArtifactsInv`, `SuccessIsTrue` | three sources, two of one version (symmetric), two targets (symmetric), three commands, two edits or commits | 1,333,000 |
| `run_ignored_request` | `IgnoredRequestKeepsRun`, violated | one group, two keys | - |

Where several statements are about the same pieces of state they are conjuncts
of one property, each with a name and a comment of its own, and TLC checks them
together with the types:

| property | conjuncts beside `TypeOK` |
|---|---|
| `RunInv` | `NothingLeftRunning`, `FailureLeavesNothingOpen`, `RunsOnce` |
| `TreeInv` | `RowsShowTheFiltered`, `BranchesTellTheirTests` |
| `OutputInv` | `FailureShownInFull`, `NothingVanishes` |
| `PaneShows` | `FollowShowsEnd`, `FoundIsVisible` |
| `DiskInv` | `ScanIsUnderWay`, `OneScanAtMost`, `ShownIsAfterClean` |
| `ReportIsTrue` (of `BackgroundTasks`) | `OneIsUnderWay` and `ReportIsTrue` of `StackSample` |
| `PanelInv` | `ShownIsRecent`, `LoadIsUnderWay`, `ReceivedIsShown` and `RequestIsAccepted` of `XtaskArguments` |
| `LogsInv` | `LogsTellTheTail`, `RunsAreListed` |
| `ScreenInv` | `OneOverlay`, `NothingWaitsBehind`, `SampleIsOfItsTitle`, `SearchKeysHaveSearch` |
| `RequestInv` | `RequestsKnownTests`, `WatchesOneTest`, `ArrowsUndo`, `ConfirmingKeepsRequest`, `NamedTestsRun` |
| `ArtifactsInv` | `OnlyWholeIsNamed`, `ChecksumFitsArchive` |
| `SuccessIsTrue` | `ReleaseIsTrue`, `FormulaIsTrue`, `LocalIsTrue`, `InstallIsTrue` |

`TypeOK` of `RunPipeline`, of `XtaskPreferences` and `SettingsTypeOK` of
`Settings` are proved and are not the subject of a run.

Some properties have a condition, and each condition is the boundary of what
the code keeps to:

- `ExitAwaitsRun`: the UI loop still holds the `RunControl`. It does not after the
  run key was pressed during the run (the finding).
- `StopTakesEffect`, `QuitCompletes`: or else a test that outlived nextest keeps its pipes open
  for good (`PipesWithheld`). That takes a run without capture: the producer awaits
  the end of both pipes, and only the group of nextest is killed.
- `OnlyScopeRuns`: a test runs only if it is of the scope, or of a target of the scope with
  a name that contains the name of a test of the scope or the path of its module: nextest takes
  names and paths as filters. Of a target whose kind has no flag, the other
  targets of the package are looked into as well (`LooksInto`), and what is
  found there may run twice in a run of chosen tests: `RunsOnce` excepts those
  tests (`TakenAlong`). `NothingLeftRunning` and `VerdictIsTrue` speak of the scope.
- `OutputIsTail`: of a test that ran once; one that runs twice shows both outputs
  with the summaries between them.
- `FailureShownInFull` speaks of text: a framed event of the test may have been
  given to another test whose block was cut by a record, and is not given twice.
- `NothingVanishes`: no test failed. The block of a failure is dropped, because
  its record has the output, and a block that was joined to it goes with it.
- `ReaderStays`, `NextMissesNone`: no line was dropped at the head
  (`Untrimmed`), and place and match are not in the summary of a failure, before
  which late lines are put. For `ReaderStays` also: a frame was drawn, and
  when the search is cleared, what was to be shown until then has no fewer rows than that
  frame and the same ones up to the place (`KeptPlace`). For `NextMissesNone`: the line of the match is still
  there (`FoundIsThere`). All but the first came out of the model and the proofs. Without
  `KeptPlace`, options changed under a filter and the search
  cleared before the next frame bring back a place that the new options had hidden; without
  `FoundIsThere`, a match in "No output captured" is where the first line
  of the test is a moment later, and the search goes on behind that.
- `TreeInv`, `ScopeIsSubtree`: no test is listed twice or has
  the name of a branch (`TestsApart`). The trees that the
  run checks are of this kind, which an assumption of `MCTestTree` says, and the
  theorems name it as a hypothesis. That a module and a target of one name share a node is
  within the model: the scope of such a row is what is listed under it of
  the target that was merged first.
- `RequestIsAccepted`: the manifest tells all that Clap asks (`AsDescribed`): the flag
  has a long form, the value is one that Clap takes as a word of its own, and
  the type is that of the kind of the entry. `ReceivedIsShown`: of a request that
  Clap takes.
- `SettingsAreKept`: one process at a time, whose last save did not fail
  (`behind`). What earlier processes left in the file may be anything.
- `WidthIsAsIntended`: between rows of width keys and resizes; within one the
  pane keeps its width until the last key of the row.
- `ChecksumFitsArchive`, `FormulaIsTrue`: not for an archive that was replaced by a
  release that did not get as far as its checksum (`spoiled`).
- `ReleaseIsTrue`, `LocalIsTrue`, `InstallIsTrue`: what was built or packaged is
  of a source that the worktree held during the command; that it is committed and of the
  version named holds if it held only one, since the code looks at
  it once, before the build. What is published locally is what cargo verified
  unless the version was edited between its two readings. `InstallIsTrue` also leaves out a cargo that is
  configured to install elsewhere (`elsewhere`).
- `OneOverlay` and `SearchKeysHaveSearch` of `ScreenInv`, `LeavingSucceeds`: no search in the
  output of an xtask whose details were closed under it (`Stranded`).

Deadlock is checked except where a configuration says otherwise: a run of tests
ends, a scan ends, the program is left, the commands and changes that the
bounds allow have been made. `RunPipeline` has the step `Resting`
for the two states in which it waits for the user, so that TLC finds any other
state in which everybody waits.

### The finding

`run_ignored_request`: the run key pressed during a run stops that run, although
the log says the request was ignored. `handle_effect` replaces `run_control` by the
`None` that the refused request returns, and dropping the control asks the run
to stop.

### What the code does not guarantee

While the modules were written, further statements turned out to be false of
the code. They stand at the end of their modules under this heading, or are the
condition of a property, and no run checks them. To see one fail, add it to the configuration named.

| statement | module | how it fails |
|---|---|---|
| `StopTakesEffect`, `QuitCompletes` without `PipesWithheld` | `RunPipeline` | a test without capture that outlives nextest keeps its pipes open: the readers never end, and neither a stop nor the exit sets a limit on waiting for them |
| `OnlyScopeRuns` with one target in `LooksInto`, `RunsOnce` without `TakenAlong` | `TestRun` | of a procedural macro only the package is given: tests of its other targets run with it, and twice in a run of the failed tests |
| `CancellingStartsNothing` | `TestRun` | the phase "Cancelling" of one group is kept while the next is built and run |
| `ScopeIsAllUnder` | `TestTree` | nodes are looked up by label alone: a module of the library and an integration test of one name share a node, and its row runs the tests of one of them (`ModuleAndTarget`) |
| `TestsApart`, and so `BranchesTellTheirTests`, with `TestAndModule` | `MCTestTree` | a test and a module of one name share a node, and the statuses of the tests of the module are not counted |
| `HighlightedRowIsRun` | `TestTree` | a result hides the selected row: the row drawn as selected is another than the run key runs |
| `PreviewsOnce` | `OutputCapture` | the record of a passing test is read before its block: what was previewed is shown again |
| `OutputIsAttributed` | `OutputCapture` | a record on stdout ends the block of another test that the stderr task is reading |
| `ReaderStays`, `NextMissesNone` without `Untrimmed` | `OutputPane` | positions are line numbers, which shift when the oldest lines are dropped |
| the same at the summary of a failure | `OutputPane` | late lines are put before it, and its number shifts |
| `ReportIsSeen` | `StackSample` | a report that arrives while its pane is closed is dropped by the next press, which samples anew |
| `EveryPressCounts` | `Settings` | of a row of width keys that arrives in one batch only the last press moves the pane |
| `NeverLost` | `Settings` | the file is written in place: a process killed while it writes leaves one that counts as none |
| `SettingsAreKept` with `Overlap` | `Settings` | two processes hold settings of their own and the last to save wins |
| `BundleFitsArchive` | `Release` | a release with `--skip-sign` leaves the signature of the archive it replaces |
| `LocalIsWhole` | `Automation` | the directory offered to other projects is emptied and filled in place |
| `LocalIsPackaged` | `Automation` | the version is edited between its two readings: the directory that an earlier command left is published |
| `EveryRequestIsAccepted` | `XtaskArguments` | a number below zero looks like a flag, a flag without a long form is sent by its id, and a type narrower than i64 is not in the manifest |
| `OnlyDefaultsAreOmitted` | `XtaskArguments` | a choice without a declared default is shown with its first value, which is left out of the command |
| `HelperIsAccepted` | `XtaskArguments` | a hidden possible value as default: the helper writes a manifest that Nextdeck refuses |
| `SaveLeavesTheRest` with `Overlap` or `FlakyDisk` | `XtaskPreferences` | two processes save at once, or the file could not be read once: remembered values are lost |
| `FailureIsExplained` | `Xtasks` | the success of a command clears the error of a load that failed meanwhile |
| `ListTakesListKeys` | `Xtasks` | a failed load closes the details and leaves the keys with an input that is not shown |
| `SequenceIncreases` | `TestEvents` | events are numbered before the lock under which they are written |
| `~Stranded` | `Screen` | a load is answered during a search in the output of an xtask: the keys stay with the search |
| `SearchTakesKeys` | `Screen` | the search over a failed discovery gets no keys |
| `FailedTestsRun` | `CustomRun` | the scope "failed" leaves out ignored tests that failed |
| `ArrowsGiveListed` with `MacOS = FALSE` | `CustomRun` | the debugger set by the arrow is not among the choices listed |

### Fairness

- `RunPipeline`: weak fairness of the producer, the forwarder, the UI loop and
  the end of the readers, because tokio runs a task that is ready and the
  kernel delivers SIGKILL and closes a pipe when the last process that has it open is dead. None for
  what a test does: it need not print or exit, and a stop still succeeds, unless
  that test has the pipes of nextest (`sharing`) and never exits.
- `BackgroundTasks`, `Xtasks`: weak fairness of the tasks, the threads, the UI loop
  and of each send into a bounded queue; the only receiver drains in turn, and
  each sender of these modules sends a bounded number of times, so that no
  sender is passed for ever. A walk of a directory, `ps` and `sample` end. In
  `Xtasks` the command is assumed to end once it can write everything; in
  `StackSample` nothing is assumed of the processes that are sampled.
  `DiskUsage` and `StackSample` state no fairness of their own:
  `BackgroundTasks` states that of each while the other rests.
- `XtaskPreferences` (and so `Persistence`): the ticker ticks, the cooldown ends, a process flushes
  after each batch. Crashes and faults are not fair.
- `Screen`: the user who wants to leave presses Esc or Q again (`Leave`); the
  property is about the keys leading out, and assumes nobody's answer.

## What is proved

The theorems hold for every value of the constants that meets the named
assumptions (capacities are positive numbers, the manifest of an argument is
consistent, and so on), where TLC has a few. Each module of proofs first states
the strengthening that is inductive, and then takes it through the actions one
by one.

- **`RunPipeline_proofs`**: `TypeCorrect`, `Concluded`, `TerminalLast`,
  `NoOverlap` and `ExitAwaits`. None of these properties is inductive: that a
  terminal event comes last depends on which tasks are over when it is sent.
  `IInv` adds `TaskInv` (what the position of the producer says of process and
  readers), `ChannelInv` (a forwarder that returned left nothing behind; a
  producer that is done left a terminal event for it) and `EndInv` (batch and
  queue as the user's side sees them). The proof takes the invariant through
  each action, with lemmas on what head, tail and concatenation do to sequences
  without, or ending in, a terminal event. `ExitAwaits` adds `ExitInv`: the
  shutdown goes on only past tasks that are over, and begins none.
  `Refinement` says that `RunPipeline` implements `RunLifecycle`: every step of a
  task is a step of the lifecycle or a stutter.
  Beside `IInv` this needs what is said of the events in flight, in whichever of
  the two channels, the forwarder and the batch they are: their numbers are those from
  the last one shown to the last one sent, in order and without a gap
  (`OrderInv`), and the terminal event among them is the verdict that the
  lifecycle has decided (`VerdictInv`); `AskedInv` says that who stops was
  asked to, `ActiveInv` that a run not in progress has no tasks.
- **`Results_proofs`**: `RunIsTidy`, `ScopeIsKept`, `Verdict` of `TestRun`, for any
  finite set of tests, targets of either sort, packages and paths of modules, and any names that contain one another. `WorkInv`:
  what is still to be run is reached from the scope, and has not been run and is reached by one group
  only, unless it is taken along by a target that no flag tells from its package (`GroupsReach`, a
  lemma about how a scope is cut into argument sets, for scopes of every kind);
  `ProcessInv`: a process that is gone has no tests; `StatusInv`: as long as no
  group and no test has failed, every test that ran has passed or runs.
  `StatusesRefined`: `Results` implements `TestRun`, so that all three hold of it.
  `LogsAreTrue`, of the logs of events, for any number of runs and any limits:
  `EInv` adds to `LogsInv` that the run in progress is the last begun and the last
  listed, and that each log keeps to both limits. That the newest event is always
  kept, and the rest as far as it fits, is `RetainedIs`; how the bytes of a log add
  up is read off the recursive function `Bytes` only where that is needed, for no
  events (`NoBytes`) and for one (`OnesBytes`).
  `OutputKept`, of the output, for texts of any length with characters of one or
  two bytes, in any order of arrivals and verdicts, under any limit with room for
  the marker and a summary. In `OInv` the output of each test is `Settled`: entries
  of what was captured and behind them the summary if the test failed (`Shape`),
  whose text is all that arrived, or its longest end that fits beside the summary.
  `FailedInv` adds that no summary is lost or put there twice: a test that runs
  has not failed, and one that starts has not run, for which `IInv` is needed. The argument is about
  longest ends: what is kept of a kept text and what came behind it is what is kept of
  all (`TailGrows`), and a round of the loop of `enforce_retention` drops nothing of it
  (`GiveWayKeeps`), so that the loop ends with it (`TrimmedKeeps`). The text of
  many entries (`FlattenSeq`) is taken apart at its head and its end
  (`TextOfCons`, `TextOfAppend`) by least counterexample, where one would use
  induction. The text of an xtask needs the same lemmas (`KeptGrows`), the lines of
  the runner only arithmetic (`LineKeeps`).
- **`Output_proofs`**, from the pipes to the rows. Of `OutputCapture`:
  `EventsComeOnce` and `OutputIsKept`, for any
  finite set of tests, any number of chunks, frames and polls. `CaptureInv`
  follows every piece of output through what the two tasks share:
  `DedupInv` (what the snapshot tracker will leave out was given to somebody, and a
  framed event is in the hands of one task or was given to one test once: what
  the tracker's lock is for), `FailedInv` (a piece of text of a test that has
  failed is with that test, or its record is still to be read, or the task has
  it in hand), `LossInv` (of a run without
  failures, whatever was printed is in a pane, in a task, in a collector or in a
  line not yet read) and `LoopInv` (which task still holds what when nextest has
  exited). That the lines of a list of running tests are those of its tests one
  after the other is a lemma about `FlattenSeq` (`Flattened`); where one would
  use induction on the number of a line, the proof takes the least counterexample
  (`Least`).
  Of `Scroll`, for lists and panes of any size: rows made visible are visible
  (`ShowsSelected`, `ShowsRange`) and no operation moves a viewport beyond its
  last page (`StaysSound`).
  Of `OutputPane`: `PaneIsInOrder`, `ReaderKeepsPlace` and `NextFinds`, for any
  lines with any breaks, any matches and any widths. `PaneIInv` says that the
  layout held is that of the text as it is now or was at an earlier moment of the run, after
  fewer lines, before the failure, before the verdict (`LaidInv`, `Until`), that what was found is the current match by its line in such a
  text (`FoundInv`), and that since a frame was drawn nothing was laid out or
  scrolled (`DrawnInv`). Three things make the rest. `WrapLine` is a recursive
  function: that it cuts every line into rows that follow one another, begin at 0 and
  end at its length is proved by least counterexample (`WrapCovers`), as is
  where `FlattenSeq` puts the pieces (`Flat`): so rows are in the order of the text
  and every place of a shown line is in a row (`RowsLaid`). A layout depends on
  the lines shown alone, and a line that is not the summary of a failure keeps its number when
  more arrive, so that a place of the old layout is found in the new one (`PrepareIs`, `RestoreIs`,
  `LinesOf`, `TopStays`).
  And every viewport is `Sound`, from which what is scrolled to is in the pane
  (`RangeHeld`, `MatchShown`).
- **`BackgroundTasks_proofs`**: `DiskIsSound`, for any number of scans and
  cleanups. `IInv` adds that the
  control is that of the scan awaited and all others were cancelled
  (`ControlIsCurrent`), and that whatever of the awaited scan is on its way was
  read after the last clean the pane was told of (`AnswersAreRecent`).
  `SamplesAreTrue`, for any tree of processes, with any process groups in it, and
  any number of samples. `SampleInv` adds to the types `WorldInv` (the leader of
  a group is older than its members: why a group without processes stays so),
  `SamplersInv` (what a thread has sampled or has still to sample was found below
  the test, which is among it; as long as no sample has failed and no more were
  found than are sampled, it is all that was found),
  `AnswersInv` (the same of reports on their way) and `WayInv` (one thread or one
  answer at most, which is why answers need no id). `process_tree` is a
  recursive function; that a function with that definition exists is the lemma
  `OwnTree`: the least set that holds the root and all whose parent it holds.
- **`XtaskPanel_proofs`**: `Panel` and `Concluded`. `XInv` follows the output
  of a command from its pipe through the channel and the queue to the panel:
  whatever has been read is in one of these (`Covered`) and each pipe's pieces
  are in order within and across them (`ShownInOrder`, `QueuedInOrder`,
  `ReadInOrder`), as long as they will be shown at all (`InFlow`); `PhaseInv`
  says which tasks are over at each point of a run; `AnswerInv` that an answer
  on its way is what the project said to the request it answers. For the
  arguments `ArgumentInv` says that whatever is shown is of a form that the
  definition allows, so that the command line made of it is accepted as far as the
  manifest tells what Clap takes.
  For `Automation`, in the same module, `Artifacts` and `Success`:
  `ProgressInv` and `OrderInv` say what a release has done by the step it has
  reached, `PackageInv` and `InstallInv` the same of the other commands.
- **`Screen_proofs`**: `ScreenIsInOrder` and `NoReadDuringRun`. `SInv` spells
  out which two of the things that take the keyboard exclude one another
  (`Alone`), save while a search is stranded, and adds that the search in a report ends
  with it. Which overlay `command_context` finds follows from that by
  `PriorityIs`.
  The second part is about the tree of the tests, for any discoveries, however deep
  their modules: `TreeTypeCorrect` and `SelectionStays` without a condition,
  `TreeHolds` and `ScopeIsTheSubtree` under `TestsApart`.
  The invariant `TreeIInv` is short: the nodes are what `FromTests` makes of one
  of the discoveries, and the other variables keep their types. What matters is
  what `FromTests` makes. By induction over the tests, and for each over its
  levels, a tree is `Planted`: every node is linked to its parent by the right
  level of the test that made it (`Linked`), two nodes with the same labels above
  them are one (`Unique`), and the leaves are the tests (`Leaved`). Such a tree is
  `Trim`: only branches have children, and each leads to a test. Statuses,
  visibility and rows are recursive functions over the nodes; that they are
  well defined, and that they say of a branch what they say of the tests below it, is
  proved downward from the last node, since children come after their parent
  (`StatusMeans`, `VisibleMeans`, `RowsShow`). The scope of a row is compared
  with the tests under it through the labels on the way to them (`AncestryHolds`, `UnderIs`);
  a test of the target of the row that bears these labels is under it, whatever else was merged there (`ScopeHolds`).
  `SelectionStays` needs of the tree only its shape, and has one lemma for each kind of step
  (`StepToRow`, `StepOfRows`, `StepOfRun`).
- **`Persistence_proofs`**, of the preferences: `PreferencesTypeCorrect` and `FileIsWhole` for any number
  of overlapping processes; `SavedIsKept` and `SavesAreModest` for one process
  at a time (`~Overlap`) whose restore could read the file (`~FlakyDisk`). Both
  assumptions are needed: without either TLC finds a counterexample. `SaveInv`
  says that the image about to be written is the file with the own entry
  replaced (`ImageIsDue`), and that what the process has not touched is on disk
  as it shows it (`RestIsOnDisk`). `ChoicesReturn`, under the same assumptions:
  a panel opened after everything was saved shows the choices that its manifest
  still allows, and the default of the others. `ChosenInv` carries the
  choices over: while a process runs, its overrides are the choices for its
  workspace, and when it has ended with nothing pending the file holds them.
  Of the settings: `SettingsTypeCorrect` and `Width` for any number of
  overlapping processes, `Kept` for one at a time. Why the width comes out as intended although keys
  are skipped is `RowInv`: before the last key of a row the pane has the width
  that the row began with, after it the one that key asks for, and between rows
  these are the same.
- **`CustomRun_proofs`**: `RequestIsAsShown`. `CInv` says that the configuration
  held is that of the project known, that the value of each field is one the
  field can have (a profile and a preset are among those listed, which is what a
  discovery that takes some away has to restore), that the text being edited
  could be confirmed, and that selection and failures are tests there are. Each
  part of `RequestInv` then follows without a look at the past: a preset names
  tests of the project because those of `Presets` do (`PresetFacts`; that the
  `Nth` of a finite set is in it is `NthIsThere`, by counting), one arrow undoes
  the other because each field goes round or stops at an end (`ArrowFacts`), and
  a request is taken apart by the kind of its filter in `ChosenFacts`.

Every safety and action property of the passing runs is so proved, and so is the refinement of the run
pipeline. Only model-checked: the liveness properties
(`StopTakesEffect`, `QuitCompletes`, `ScanConcludes`, `SampleConcludes`,
`RunConcludes`, `ChangesAreSaved`, `LeavingSucceeds`), because the prover does not
treat fairness through ENABLED; and that the code violates
`IgnoredRequestKeepsRun`, which is a behaviour and not a theorem.

## What is not modelled

Text processing (parsing JSON and TOML, wrapping by grapheme width, escaping,
formatting, the folding of stacks), the calls of `git` and of the editor, the
input field and the lists of parameters as drawn, drawing and themes, and the
command line of the program. Of the automation crate: pushing the helper to a
registry, the check commands and the reproduction of a run, which are calls of
other programs in a row. Time is a choice: a timeout may come at any moment
after it was begun. What nextest, cargo, rustc, cosign, Clap, the kernel and the
user do is modelled from how the code uses them and marked external in the map.

Simplifications:

- `TestRun`: the options are those that decide which tests run and with which
  ignored ones; a filterset only takes tests away, and stress runs and
  retries, in which a test runs several times by intention, are left out.
- `OutputPane`: the blank lines around summaries, the text of a discovery that failed
  and the outputs that a branch puts together; what happens to the other
  test while one is read is that it has printed before.
- A later group of a run that fails to start hides the exit code of an earlier
  one; the outcome is "command failed" instead of "tests failed", which no
  property distinguishes.
- The text of a test that discovery did not find is a line of the runner, as in
  the code, and belongs to no output.
- `Settings`: the width of the tests pane stands for all numbers and the theme
  for all choices of which the UI loop keeps a copy; overrides on the command
  line are left out, and the key that quits is the process ending.
- `StackSample`: no process id is used twice, and the code on macOS is meant.
- `Release`: cargo builds into the target directory of the workspace; the digest
  of an archive is the archive.

## Plan

Built in this order: run pipeline and its proof; statuses; tree; output
capture; disk usage and proof; viewports and pane; xtask arguments, preferences
and proof, runs; test events; screen; run options; automation, settings,
captured output and stack samples; the proofs of the automation, the settings,
the statuses and of the refinement; those of the output capture, the xtask
panel, the samples, the screen, the run options, the logs, the output that is
kept, the tree and the output pane. What is left are compositions:
`CustomRun` and `TestRun` over one tree; `Screen` over `Xtasks`, so that the
flags there follow from the tasks here.
