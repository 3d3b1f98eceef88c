# plex-renamer in TLA+

plex-renamer turns a folder of video files into the layout Plex expects: it
parses names, looks titles up at TMDB, lets the user review what it found and
then moves the files, with a journal from which the move can be undone. Four
front ends share that core: a Qt window, a Windows (WPF) shell that drives a
Python engine over pipes, a terminal review screen and a command line.

This directory specifies the parts of it that are hard to test: a batch of file
moves that can fail or die anywhere, the directories it leaves behind, a window
and a worker thread that talk by queued signals, a shell and an engine process
that come and go independently, review lists that outlive the rows they were
made from, searches that fail halfway through a group, and names that must mean
the same thing when they are read back. The modules are checked with TLC on
small instances; theorems about them are proved with TLAPS for every value of
the constants. `PROJECT.json` maps every definition to the lines it stands for.
Paths below are relative to `src/plex_renamer/` in the repository, except
`windows-native/` and `INVARIANTS.md`, which are at its root.

## The system

| component | state | operations | talks to | what is hard |
|---|---|---|---|---|
| executor (`executor/`) | files, one JSON journal per batch | apply, cleanup, undo | called by every front end | errors and crashes between any two changes of the disk; undo long after |
| pruning and preview (`executor/cleanup.py`, `undo.py`) | the directory tree | preview, unlink, prune upwards | the modal before, other programs during | a tree that changes between a look and a removal |
| Qt apply flow (`gui/main_window.py`, `apply_worker.py`) | button, bar, report, one worker slot | apply click, confirm, worker events, teardown | executor on a `QThread` by queued signals | a second run before the first is torn down |
| resolve, hydrate, anchor (`gui/orchestrator.py`, `edit_pane.py`, `show_anchor_picker.py`) | rows, errors, input root, pane, picker | drop, resolve pass, pick a show, search, IMDb lookup | TMDB, row by row and season by season | one call of many fails; results of one row offered to another |
| collision review (`gui/orchestrator.py`, `collision_review.py`, `planner/`) | rows, proposals, review list | edit, skip, drop, preview, pick, apply | builds the plan the apply flow runs | list and proposals are stale copies of rows |
| engine bridge (`Bridge/EngineClient.cs`, `MainWindow.xaml.cs`, `daemon/server.py`) | process, pending requests, streams | start, call, apply stream, restart | JSON lines on two pipes | four kinds of thread, processes that die |
| shell's row handlers (`MainWindow.xaml.cs`, views) | `_currentRows`, groups | drop, edit, anchor, skip, apply | `await`s the bridge | rows sent before an await, replaced after it |
| terminal review (`cli/review_tui.py`) | rows, cursor, overrides file | load, convert, apply, remove, delete | executor on worker threads | loader and workers against cursor and list |
| parser (`parser/`) | none | names to records, sidecars to videos | | order of the passes, boundaries |
| resolver (`tmdb/fallback.py`, `ranking.py`, `planner/show_anchor.py`) | none | titles to candidates, names to episodes | TMDB, OMDB | near-ties, missing seasons |
| planner (`planner/`) | none | candidates to paths, collisions | | parts, specials, names read back |
| reports and overrides (`diagnostics/`, `tmdb/anchor_parse.py`) | anchors file | report, merge, override | parser, resolver | which override a row gets |
| command line (`cli/*_cmd.py`) | plan and anchors files | plan, apply, report, line review | all of the above | a review killed at a prompt |
| daemon methods (`daemon/methods.py`, `orchestrator.py`) | client cache | one function per request | planner, executor, TMDB | mostly stateless |
| clients, caches, settings, widgets | cache files; one JSON file; none | fetch; load, save; draw | HTTP | expiry |

What makes them correct:

- executor: no file is lost whatever fails; the journal names a path before it
  changes; sources go only when the whole batch verified; undo puts back what
  it says it does.
- pruning: what disappears was shown; no empty directory is left, and neither the
  dropped folder, the movies root nor anything of anybody else's is removed.
- apply flow: every run that starts is answered once, by its own report; no
  thread object is destroyed under a running thread; nothing is deleted that
  the user did not agree to.
- anchoring: a show's rows have one candidate; no row is left unresolved or
  without its season in silence; a result goes to the row it was searched for.
- collision review: no two files of a plan go to one path; no collision is
  settled without the user; a plan follows the rows as they are.
- shell's rows: an edit stays until the user loads other rows; an apply leaves
  out nothing the user left in.
- terminal review: a row leaves the list only for its own cause, and none stays
  whose file has gone; what a row shows is what the anchors file holds for it;
  applies that run at once lose no file.
- bridge: a request is answered with its own reply or failed; a death is
  announced; no process is left behind.
- names: a library the program made is left in its place; every video is
  accounted for once; episodes keep their numbers and parts their own names; an
  anchor given is saved before the next question and means the same row later.

## The modules

| module | models |
|---|---|
| `Executor` | `apply_plan_iter`, the journal, `cleanup_sources`, `undo_batch`, file by file |
| `Ledger` | what the journals promise, abstractly |
| `Prune` | the same batch's directories: preview, unlink, the walks of cleanup and undo |
| `ApplyWindow` | the Qt window from the Apply button to the torn-down thread |
| `Anchoring` | how the Qt window's rows get their candidates |
| `CollisionPlan` | rows, review list and the plan built from them |
| `EngineBridge` | the Windows shell's client, its engine processes and pipes |
| `ShellRows` | the Windows shell's handlers over the rows it holds |
| `ReviewQueue` | the terminal review screen, its loader and its apply workers |
| `Lists` | lists as the four modules below make them: kept in part, without doubles, sorted |
| `Parser` | file names to parse results, skipped files, sidecars |
| `Resolver` | titles to candidates, candidates to episodes |
| `Planner` | candidates to targets, sidecar names, parts, specials, collisions |
| `Diagnostics` | report rows, groups, flags, overrides and their precedence |
| `CommandLine` | the commands over those four |
| `ExecutorProofs` | theorems about `Executor` |
| `WindowProofs` | theorems about `ApplyWindow` |
| `OrchestratorProofs` | theorems about `Anchoring` and `CollisionPlan`, the two halves of `gui/orchestrator.py` |
| `PruneProofs`, `BridgeProofs`, `ShellProofs`, `ReviewProofs` | theorems about `Prune`, `EngineBridge`, `ShellRows` and `ReviewQueue` |
| `CommandProofs` | theorems about `CommandLine` and the four modules under it |
| `MC*` | constants for TLC |

`Parser` to `CommandLine` extend one another in that order. The others share no
variables: each takes what the next one does as a constant (a plan, a rendered
target, an answer), and the sections below say which module has the rest.

### Executor

`fs` is the file at each path, a file being whose bytes it holds and whether the
copy is whole. A journal entry is a key `<<op, pos>>`: position 0 is the video,
the others its sidecars. The program counter `pc` walks through one file at a
time: `AddPending` (the journal is written first), `Rename` or
`BeginCopy`/`EndCopy`, `VerifyCopy`, `MarkVerified`; a raised error goes to
`HandleFailure`, which marks the entry that the code marks. After the ops come
`CleanupGate`, `CheckGuards` (all guards before the first unlink),
`UnlinkSource` one at a time, `PruneParents` and `RecordCleanup`. Every one of
these is one mutation of the disk in the code, so `Crash` may come between any
two. `StartUndo` loads a journal from disk; `ReviewSlot`, `RevertTarget` and
`MarkReverted` are undo's loop. `mem` is the `Journal` object of the running
process and `disk` what was last persisted.

Faults (an I/O error, a copy that is short or corrupt, a crash) are
nondeterministic and bounded by `MaxFaults`. Directories are `Prune`'s: here
the walk that prunes them is one step that changes no file.

`Ledger` is the abstract specification: entries are logged, settled once, and
reverted or committed; `KeepsLedger` instantiates it with the journals on disk.

### Prune

`files` and `dirs` are the tree, a path being the sequence of its components.
`deletion_preview` and `_passes_guards` are the code's functions;
`_on_apply_clicked` puts the preview in `shown`, `Answer` closes the modal.
`Copy` makes the target's parents and, on one file system, takes the source
away. `Unlink` deletes the sources or raises. A walk is at directory `at`:
`NextParent` starts one from the deepest parent left, `Look` decides that the
directory may go and `RemoveDir` removes it, two steps because another program
(`OthersMove`) may put a file there in between; then `rmdir` raises and the
exception leaves the apply without `cleanup_ran`. `undo_batch`, `UndoEntry`,
`UndoLook` and `UndoRemoveDir` are the walk of an undo, which starts from each
target in turn. `gone` and `touched` are history: what the cleanup deleted, and
the directories other programs have changed since the modal opened.

Copies and unlinks succeed here, since how they fail is `Executor`'s. Symbolic
links and paths that do not resolve are left out.

### ApplyWindow

One action per slot of the window and per step of `ApplyWorker.run`. `queue` is
the GUI thread's event queue, in which a worker's signals wait; `thread` the
state of each run's `QThread`; `applyThread` and `planInFlight` the window's
single slots. A press of the button, or of Ctrl+Return which the button's state
does not stop, goes through `ApplyClicked`, the consent modal (`AnswerModal`)
and `StartRun`. `EmitOp`, `EmitFinished`, `EmitFailed` and `ThreadExits` are the
worker; `OnOpEvent`, `OnApplyFinished`, `OnApplyFailed`, `OnQuit` and
`TeardownApplyThread` the window. The settings dialog and skip toggles happen
whenever the window is free.

### Anchoring

All of it runs on the window's thread, so a handler is one step; the
interleaving is that of handlers, and of failures inside one. `rows` maps the
listed files to their hint and candidate, `errors` is
`_resolve_errors_by_path`, `shown` what the errors pane shows. `Drop` parses its
paths one by one, each becoming `inputRoot`, seats the rows, fills in the hints
and runs `resolve_rows`: per group a search and one call per season wanted,
each of which may be in the set `down`. A candidate carries the seasons whose
episodes it was given, so a hydration that fails in part is visible.
`on_group_clicked`, `on_picker_search`, `on_show_chosen` and `PickerCancelled`
are the show picker; `load_row`, `on_tmdb_search`, `_on_candidate_chosen` and
`on_imdb_resolve` the edit pane; `set_report` an apply that puts its own
report where the errors were. `edited` and `asked` are history: rows given a
candidate of their own since their group got one, and rows whose errors a
picker cleared.

### CollisionPlan

A target is a sequence: its name, then the suffixes that `_suffix_op_target`
puts after the stem. `Placed` are the rows with an op, `Clean` and `Collisions`
the two halves of `detect_collisions`, `Kept` and `Resolved` what
`_apply_collision_actions` makes of the user's picks. `Preview`, `ApplyBlocked`
and `ApplyHandsOver` are whole handlers: they stamp proposals and refill the
review list exactly where the code does. `answered` and `changed` are history:
the targets picked for and the rows edited since the list was filled. How a candidate renders to a path is
the constant `Rendered`. The rows of a drop are taken to be distinct files of
one kind; the same path dropped twice in one drop is not modelled.
The specification is `ReviewSpec`: `OrchestratorProofs` extends this module and
`Anchoring`, whose specification is `Spec`.

### EngineBridge

`process`, `quietExit`, `nextId`, `pending` and `streams` are `EngineClient`'s
fields. A call is a handler of the window that makes one request: `Begin`
(`EnsureEngineStartedAsync`), `Register`, `Write`, `Return`. For each process
there are its two pipes, `ReadStdout` (the reader's loop, which looks at
`HasExited` before every line), `OnProcessExited` and the daemon's loop
(`Serve`, `Stream`). `FailAllPending` is two steps because it enumerates and
then clears. A restart is `AnswerPrompt`, `Detach`, `AwaitExit`, `Respawn`,
`Restarted`. Restarts do not overlap each other: a second one would need its
prompt answered in the moment between two statements of the first. Disposal at
application exit is left out.

### ShellRows

`rows`, `groups` and `cleanup` are the window's `_currentRows`,
`_currentGroups` and the one setting that matters here; a row has a skip mark,
one override that stands for the manual fields, and a candidate. A handler is a
record in a slot: its `step` is where it awaits, `base` the rows it read, `work`
what the answers so far made of them. `Click` starts one (`Ensure` is
`EnsureEngineStartedAsync`, which returns at once if the engine runs) and
`Install` ends one that brings rows back. `wire` is the order in which the
engine, which serves one request at a time, will answer; an answer and what its
handler does up to the next await are one step, since the dispatcher runs
continuations one by one. `modals` nest: a handler that awaited may open its
modal on top of another's, and the lower one returns only after the upper.

An apply is `OnApplyClicked`, `Built`, then if targets collide `Review`,
`Skipped` for each loser and `Rebuilt`, then `Confirm` if cleanup is on, then
`Streamed`. The engine's methods are operators on rows: `Resolved`, `Anchored`,
`Edited`, `Plan`. `Refused` is an error reply, `EngineDies` fails what is on the
wire, and `crashed` is an exception none of the handlers catches: a request
made of an engine that is gone, or an edit pane that is told to close after it
has. How the engine starts, dies and answers is `EngineBridge`'s, whose
`NoCallHangs` (an answer or a failure for every call) is what `Failed` relies on.

### ReviewQueue

`rows` is `plan_rows`, `table` the keys of the displayed table (indices into
`rows`, as in the code) and `cursor` the highlighted line. Threads touch the rows
through `call_from_thread` only, so a handler is one step. `AppendPlanRow` is the
loader; `MoveCursor` to `Apply` are the keys; `screen` is the open modal and
`MutateAnchor`, `ApplyTvdbSwitch`, `RemoveFromDetail`, `DeleteFromDetail`,
`ConfirmDelete` and `ConfirmApply` are what its dismissal does. A press of Enter
travels as an event that carries an index (`pressed`, `OnRowSelected`).

`overrides` is what the screen holds and `saved` what the next `--load` reads.
`PersistOverrides` is part of every handler that decides about a row or removes
one. The save is in place and may raise, which only notifies the user: the file is then
as it was, as one of the handler's earlier saves left it (a removal of several
rows saves after each), or cut short and read as empty. A removal saves only if
the file had a row. `ApplyTvdbSwitch` changes rows and saves nothing. History:
`unsaved`, that the last save raised, and `settled`, the files whose anchor the
user gave last and not by such a switch.

A worker is an apply: `BeginOp`, `EndCopy`, `Gate`, `Unlink` for its files, then
`AfterApplyComplete` on the screen's thread. It is the executor reduced to what two
of them at once can do to a file (a source, a path of the library, whole or
partial); the journal, sidecars and guards are `Executor`'s. A target has two
sides, as in the code: `Dest` is where the planner puts a file, `Shown` whether
the table had a target for it. The planner falls back on the numbers in a name
where the table says `<unresolved>`. The parts of a movie, whose names depend on
one another, are left out.

### Parser, Resolver, Planner, Diagnostics

Pure functions, named as in the code. A file name is what the tokenizer tells
apart in it: parts between dots, each a sequence of atoms (`S01E02`, a year, a
quality tag, a word, ...). A pass of `tokens.py` takes the state and returns it
without the atom it recognised, in the code's order, so that what a title keeps
depends on what was peeled before. Which characters make an atom is not spelled
out: that is regular expressions, whose every shape the repository's parser tests
try.

`Resolver` searches the constant `Catalogue`, pooling the queries' variants;
scores are integers, and what rapidfuzz says of two strings follows from its
definition where they are equal, contained or subsets of one another and is the
constant `Ratio` elsewhere. `match_episode` is `show_anchor.py`'s: numbers first,
then the title with its thresholds and tie-breaks. `Planner` renders a target as
a file record of the same form as a source, so that a rendered library can be
parsed again. `Diagnostics` builds a report's rows, groups and flags, with the
overrides of rows over those of groups.

### CommandLine

A scene is a tree and the world it meets: whether a key is set, whether TMDB and
OMDB answer, which seasons do, `--apply-editions`. `run_plan` plans it;
`PlanPicked` plans it with anchors a user gave; `run_apply` puts the plan's
targets where it says (an apply that succeeds; the rest is `Executor`'s) and
drops one root of the library in turn. `run_report` and `run_review_simple` are
the other commands, and `Accept` to `_prompt_for_search` the keys of the review;
`Killed` is its end at any prompt and `KilledSaving` inside a save, which is
made in place and leaves a file that is no JSON, as good as none. `files` are the anchors files on disk and
`session.acc` what the review holds in memory.

## What is checked

Passing runs:

| run | instance | what it shows |
|---|---|---|
| `executor` | two ops sharing a poster, two batches, one fault, targets that pre-exist, a source that fails a guard | `TypeOK`, `WriteAhead`, `CopyKeepsSources`, `NothingLost`, `ReportIsTrue`, `UndoRestores`, `CleanupIsAllOrNothing`, and that the journals implement `Ledger` (`KeepsLedger`) |
| `prune` | a movie with a subtitle, an episode two directories down, a video without candidate; other programs come or go four times | `ConsentCovers`, `NoSkeleton`, `RootsStay`, `ArrivalsSurvive` |
| `apply_window` | two rows, two presses, one edit | `ReportIsOfOneRun`, `ThreadOutlivesRun`, `DeletesOnlyConfirmed`, `EveryRunAnswered` |
| `anchoring` | a show of two seasons; a show only a cleaned query finds, with a movie nothing finds; five handlers, any call of which may fail | `NoSilentMiss`, `OneShowPerGroup`, `PaneShowsItsRow`, `HintIsOwn` |
| `collision` | three files, a name and the same name with `_2`, two edits, previews or drops | `PlanIsInjective`, `PicksComeFirst`, `PlanFollowsRows` |
| `engine_bridge` | a plain and a streaming call, three processes, two faults, restarts | `OwnReply`, `DeathIsTold`, `NoOrphan`, `NoCallHangs` |
| `shell_rows` | two files of one episode, two handlers at once, three clicks, one fault | `EditsKept`, `NothingLeftOut` |
| `review_queue` | two episodes and a movie, on and across file systems, two applies at once, two keys that act on a row, one I/O error, of a move, the loader or a save | `NoGhosts`, `NothingLost`, `DecisionsAreSaved`, `RowsLeaveForCause`, `AppliesEnd` |
| `command_line` | fourteen small trees in worlds with and without TMDB, OMDB and seasons; one reviewed tree | `StableLibrary`, `EveryVideoOnce`, `RightNumbers`, `PartsStayApart`, `DecisionsSaved`, `ReplayShowsChoice` |

Every bound is a constant of its module (`MaxBatches`, `MaxFaults`, `MaxRuns`,
`MaxEdits`, `MaxClicks`, `MaxCalls`, `MaxProcs`, `MaxOps`, `MaxKeys`,
`MaxFiles`, `MaxOthers`, `MaxRows`). Why they are enough:

- `executor`: its properties relate an op to one before it, so two ops; the
  shared poster makes two ops touch one file; the second batch is what an undo
  may come after.
- `prune`: a sidecar whose directory goes with it, a directory below a directory,
  and a video the plan leaves behind are the cases preview and walks treat
  differently; four moves of others are two arrivals and two departures.
- `apply_window`: two presses are what the window's single slots can confuse.
- `anchoring`: two seasons are needed for a hydration that fails in part, two
  paths for a root that is overwritten; five handlers let a drop be followed by
  a search, a choice, another drop and another search.
- `collision`: three files for a third source of one collision, and for a
  suffixed file to meet a file of that name.
- `engine_bridge`: two calls for a reply to reach the wrong one, three
  processes for a restart that meets an engine another handler has started.
- `shell_rows`: two files for a collision and for a loop of edits that can lose
  its first, three clicks for a drop and two handlers that overlap.
- `review_queue`: three files for a removal to shift the index of another row
  while a third is in a modal, two keys for two applies, or an apply and a
  deletion; moving the cursor, the filter and the roots are not counted.
- `command_line`: each tree is there for a choice the parser or planner makes: a
  quality tag against a title, parts and near-parts, two subtitles of one
  language, numbers against titles, specials, a title with a number or a year in
  it, editions, a name only OMDB knows, ranges and dates.

In each run every counter reaches its bound, and every property is violated by a
plausible change of the code: the definitions named after the one they change,
as `ActionFor_KeepsBoth` or `RemoveDir_Tree`, and listed under "mutants".

Some properties carry a condition that the code needs:

- `NothingLost` of `Executor` is conditional on `UndosWereSafe`: no batch asked
  for cleanup, or every batch undone had recorded that its cleanup ran. Without
  it an undo deletes only copies (`executor_undo_loss` below). `UndoRestores`
  speaks of libraries in which no target pre-existed and of histories without
  cleanup, and `CopyKeepsSources` of histories without cleanup. `UndoRestores`
  holds after any failures and crashes and says exactly what undo gives back: a
  path that is not what it was is the target of an entry not reverted. Entries
  left failed or pending stay so, with what was copied of them
  (see the list of differences), since undo reverts verified entries only.
- `PicksComeFirst` promises a pick for the target, of an item that showed every
  source but those edited, skipped, unskipped or dropped since the list was filled
  (`changed`). That these are exempt is `collision_stale` below.
- `ConsentCovers` exempts sidecars, the directories that held them, and
  directories other programs changed; `prune_consent` shows the first two.
  `RootsStay` keeps the dropped folder and the root the journal records, which is
  the movies root, and says that a cleanup deletes only what passes its guards.
  An undo has no guards: of it the property says only that what it takes from
  what was there before is above one of its targets. A TV root it has emptied goes,
  and so may empty directories above that, disallowed ones included.
- `ReportIsOfOneRun` and `ThreadOutlivesRun` hold while no two runs have
  overlapped, and `EveryRunAnswered` promises an answer unless two did. That
  Apply is enabled again before the teardown is what lets them.
- `DeletesOnlyConfirmed` speaks of runs at whose click the toggle had its value
  of startup: the orchestrator's copy of the settings is made then.
- `NoSilentMiss` ends with the picker of the group being opened, which clears
  its errors, or an apply putting its report in their place; and it counts a
  missing season only where another was fetched, since a candidate without
  episodes keeps the numbers in the name. `OneShowPerGroup` exempts rows edited
  alone since. `HintIsOwn` exempts files without a directory of their own in the
  other paths of a drop.
- `DeathIsTold` exempts a process disposed of by a restart, and one whose exit
  callback runs after a restart has disposed of a later one (see below).
- `NoCallHangs` excludes requests pending when a restart disposes of their
  process: the exit callback is detached first and nothing fails them. It also
  excludes executions with a malformed line, whose `FailAllPending` may run
  while a request is being registered.
- `EditsKept` allows an edit to be undone by an answer that finds other rows in
  the window than its request left with, because two handlers overlapped; that
  this is the only way is what it says. `NothingLeftOut` says nothing of an apply
  whose rows changed under the review of collisions: the second plan may have
  new ones, which nobody looks at.
- `NothingLost` of `ReviewQueue` excludes files two applies have met at
  (`risked`): both have the file, or one's target is where the other puts or put
  another file. Nothing in the code keeps them apart: the second press of `c` on
  a row that is still being copied across file systems truncates the copy.
  `NoGhosts` excludes files that went to apply without being among the rows to
  drop (`hidden`): those with no target in the table that the planner moves all
  the same, and those anchored differently by the time the question is answered.
  `DecisionsAreSaved` compares the rows' anchors with what the file holds for
  them, unless the last save failed, which the user was told. It speaks of files
  whose anchor the user gave last (`settled`), not by a TVDB switch, which is
  never saved (see the list of differences), and excludes decisions about a row that
  left the list while its modal was open (`late`).
- `StableLibrary` speaks of files taken the second time for the same title, and
  exempts a part that is the only one of its movie in the library, whatever kept
  the others out. Of three parts two
  of which collide only one is moved; planned again it is one part without
  another (`planner/multi_part.py:48`) and loses its number.
  `EveryVideoOnce` exempts episodes without numbers, which `planner/build.py:216`
  drops. `ReplayShowsChoice` exempts files with two anchors of one id, which
  share an entry of the override cache (`diagnostics/report.py:448`).
- `DecisionsSaved` is about anchors given: each is in the file at the next prompt,
  and a pick not taken back is there after the review. A take-back (`k`) is not
  written and may be forgotten, and a kill inside a save loses the whole file (see the list of differences).

Runs that end in a violation, each of a claim the repository makes:

| run | claim | what happens |
|---|---|---|
| `executor_undo_loss` | undo without cleanup "restores fully" (`INVARIANTS.md:68`) | the sources were renamed away; undo deletes the only copies |
| `prune_consent` | the modal lists "EVERY path scheduled for deletion" (`:61`) | a subtitle and the directory that held both go unlisted |
| `collision_stale` | no copy "for either source until the user picks" (`gui/collision_review.py:12`) | a pick made for two files settles the collision of a third, edited since |

### Fairness

Three runs check liveness:

- `ApplyWindow`: the event loop takes the next queued event, also while a modal
  or a message box is open, since those run nested loops; a worker thread goes on.
  The user owes nothing: no box need ever be closed.
- `EngineBridge`: every thread that can run does, and the engine serves;
  faults, clicks and answers to prompts are never forced.
- `ReviewQueue`: the loader and the apply workers are threads and run; the
  screen serves its events, also under a modal. The user owes nothing.

The others are checked for safety only, over `Spec`.

### Where the code and its documents differ

Met while modelling, beside the runs above. None is refuted by a run of
its own; the modules follow the code.

- `INVARIANTS.md:68` says "Undo reads the journal and inverts every operation".
  `undo_batch` walks verified entries only (`executor/undo.py:43`): the partial or
  whole target of a failed or pending entry stays in the library and its status
  as it was, though the undo ends. `UndoRestores` allows just that.
- `INVARIANTS.md:60` calls the toggle "delete sources after successful copy". A
  file already at its planned path is renamed onto itself, verified, and then
  unlinked as its own source (`executor/cleanup.py:87`); `build_plan` filters no
  such op.
- `cli/review_tui.py:15-16` says "every override still persists to the JSON anchors
  file at quit". `_apply_tvdb_switch` (`:1223`) replaces the anchors of a row or a
  show and touches neither map of overrides: the file keeps what was decided
  before, or nothing.
- `cli/review_cmd.py:411-412` says of `_persist_state` that it is called after every
  override "so a crash / Ctrl-C doesn't lose progress". `write_text` (`:422`)
  empties the file before it fills it: a review killed inside a save leaves no
  readable file, and the picks saved before are lost with it.
- `windows-native/PlexRenamer/Bridge/EngineClient.cs:34` says an exit is told
  unless a shutdown was requested; line 517 reads one flag for all processes, so
  a death whose callback runs after the restart of a later process is silent.
- `gui/app.py:214` copies the settings at startup; `INVARIANTS.md:73` has them
  reach the next operation. The toggle stops the question and not the deletion.
- `main_window.py:604` starts a run whatever the last one's thread is doing.
- `EngineClient.cs:354`: a request after a spawn that failed raises in a handler
  that catches nothing; `BridgeFailureTests.cs:9` promises no crash.
- `orchestrator.py:681` opens the edit pane on the first colliding source;
  colliding rows have no proposal to be found by.
- `planner/collision.py:34` compares primary targets; two subtitles tagged `en`
  and `eng` get one path.
- Two folders in one drop: episodes without a directory of their own take the
  name of the path parsed last (`app.py:155`; `INVARIANTS.md:9`).
- `parser/sidecars.py:94`: subtitles of names with dots in them are never paired
  (`INVARIANTS.md:53`).
- `planner/build.py:216` drops episodes without numbers from the plan and from
  its skipped list.
- `planner/show_anchor.py` tries numbers before titles; `INVARIANTS.md:34` has
  it the other way round.
- `cli/review_cmd.py:253`: `k` takes a decision back in memory and does not save
  it; `_persist_state` writes no row overrides, so `--load` with `--save` loses
  them.
- A single file that is dropped is its own input root, so its cleanup always
  refuses; of several roots dropped, cleanup knows the last.

## What is proved

Every theorem is for all values of the constants that satisfy the module's
named assumptions: any plan, any number of batches, faults, calls, rows or names.
TLC evaluates each assumption on the instance it runs.

### `Executor`

Assumptions: `PlanAssumption` and `AbsentAssumption` (the plan's functions have
the right types, there is at least one op, no file is "absent").

| theorem | says |
|---|---|
| `TypeCorrect` | `[]TypeOK` |
| `WriteAheadHolds` | `[]WriteAhead`: a changed path is named by a journal on disk |
| `CleanupGated` | `CleanupIsAllOrNothing`: no source is unlinked before all verified and all passed their guards |
| `CopySafe` | `[]CopyKeepsSources`, if no target of the plan is one of its sources |
| `Implements` | `KeepsLedger`: the journals on disk implement `Ledger` |
| `UndoIsWhole` | `[]UndoRestores`: a path that is not what it was is the target of an entry not reverted, whatever failed or crashed |
| `ReportHolds` | `[]ReportIsTrue` |
| `NothingIsLost` | `[]NothingLost`, for plans that are `Disjoint` |

`CopySafe`'s condition is needed: where a target is another op's source, the
copy overwrites it. `Disjoint` adds that no two entries share a target and that
a file name is not a key; where two do share one, the second copy destroys the
first. Sources may be shared, as the poster of the `executor` run is, whose
instance is `Disjoint`. `Injective` below shows that plans which went through
the collision review are injective in their primary targets; sidecars are not
looked at (see above), and a library run through the program again can have a
target that is a source: a file already in its place is one.

The properties are not inductive alone; `IInv` is, and `Invariance` proves it.
Its parts:

- `TypeInv` adds to the types that the two counters sum to the ops left behind
  (`Counting`, or they could leave their range) and that a copy under way has
  both its ends (`Held`, or it could read an absent file).
- `Synced`: the journal in memory is the one on disk, except for the one entry
  whose write or whose file has just failed. Everything later proved of the disk
  rests on it, since the code reads only memory.
- `Newest`: the batch under way is the newest, so an older batch's journal
  changes only by its undo.
- `Frontier`: keys before the current one are settled, those after it untouched;
  it makes an entry settle once.
- `Clean`: with no failure counted, every key behind the current one is
  verified. This carries `failed = 0` at the gate to "all verified" at the unlink.
- `Licensed`: what the gate and the guards have checked still holds while the
  pass unlinks.
- `Unasked`, `Unopened`: batches not yet started have no options and no journal,
  so starting one changes neither history.

On top of it:

- `WriteAheadHolds` adds that journals only ever grow (`JournalsGrow`) and that a
  step which changes a path does it under an entry already on disk (`NamedFirst`).
- `Implements` splits a journal write into Ledger's steps (`WriteIsSet`,
  `LedgerStep`): all other steps stutter.
- `UndoIsWhole` adds `Answerable`: a path that differs from the start is the
  target of an entry that is begun and not reverted, whatever its status. An entry
  stops being one only when its target is gone (`EntriesStay`).
- `ReportHolds` adds `Tally`: the counters are the numbers of ops left behind
  that verified whole and that did not, every op left behind was attempted, and
  after the last one no entry is pending.
- `NothingIsLost` adds `LossInv`: a source is never written over
  (`SourcesIntact`); a batch that may delete has in every target it calls verified
  a copy that can stand for the source (`Vouched`, `BothEnds`); a batch that
  recorded its cleanup left no source (`SweptForGood`), so that undoing it only
  moves targets, each once, into the review folder (`SlotsOnce`). Hence
  `Somewhere`: a gone source is stood for by its target or in a review folder, as
  long as undo met only batches that recorded their cleanup (`RanFirst`).

### `ApplyWindow`

Assumption: `WindowAssumption` (the rows are a finite set, the rows the preview
leaves out are among them).

| theorem (`WindowProofs`) | says |
|---|---|
| `DeletesConsented` | `[]DeletesOnlyConfirmed`, overlapping runs included |
| `ReportsOfOneRun` | `[]ReportIsOfOneRun` |
| `ThreadsOutlive` | `[]ThreadOutlivesRun` |

`Consented` is that an open modal lists what a run started now could remove: the
modal keeps the user from the rows, and nothing else changes them. The other two
hold until runs overlap, and rest on what the event queue may hold meanwhile:
only one thread is not gone (`Alone`); the queue is deletions of threads that
have exited, and then what that one run has posted, its ops before its outcome,
its outcome before the order to quit, and `thread_finished` alone (`Queued`);
the bar, once the first `i` events are handled, stands where the worker was when
it posted them (`Reached`, `Followed`). Each slot takes one event off such a
queue, each worker step adds to it.

### `CollisionPlan`

Theorems in `OrchestratorProofs`. Assumptions: `CollisionAssumption`, `DropsAssumption`.

| theorem | says |
|---|---|
| `TypeCorrect` | `[]TypeOK`, which needs that a place is between 1 and the number of rows |
| `Injective` | `[]PlanIsInjective`: what `Clean` keeps has no two ops on one target (`CleanInjective`), whatever ops it is given, so the second detection is enough |
| `FollowsRows` | `PlanFollowsRows`, from what `Kept` and `Resolved` give each row (`ResolvedTargets`) |
| `PicksFirst` | `PicksComeFirst`, from two invariants: `Answers`, a picked item's target was answered since the list was filled, and `Shown`, the items show every collision there was then, sources included, but for rows changed since |

### `EngineBridge`

| theorem | says |
|---|---|
| `RepliesAreOwn` | `[]OwnReply` |
| `NoProcessIsLost` | `[]NoOrphan` |
| `DeathsAreTold` | `[]DeathIsTold` |

`ReplyInv` follows a request from the counter to the answer: identifiers are
given in order and not reused over a restart (`InOrder`), what waits in
`pending`, in a pipe or in the engine under an identifier is of the call that
got it (`Addressed`), and what has been answered was answered by its own
(`Answered`). `ProcessInv` says that only processes spawned have threads or
prompts (`Spawned`), that the one that runs is the client's or the one being
disposed of (`NoOrphan`), and that the shutdown flag is set only once a restart
has disposed of the newest process (`Quiet`).

### `Prune`

Assumption: `PruneAssumption` (paths are sequences of components, the plan's
videos are among the rows', the files of others are not the program's, the roots
exist).

| theorem | says |
|---|---|
| `RootsAreKept` | `[]RootsStay`: the dropped folder and the movies root are kept, if neither the dropped folder nor the library is inside the other (`LibraryApart`) |
| `ArrivalsAreKept` | `ArrivalsSurvive`: no step of cleanup or undo removes another program's file |
| `NoSkeletonIsLeft` | `[]NoSkeleton`, for any tree, plan and order of the entries |
| `ConsentIsCovered` | `[]ConsentCovers`, for any tree and rows |

`RootsStay` needs to know where a walk is (`Walks`): before a removal of a
cleanup its directory has passed the guards; one of an undo is above a target
and is not the library's root.

The last two add what a batch has made and removed at each stage (`Stages`), and
that the walks of a cleanup are above sources that pass the guards (`Scope`).

- `NoSkeletonIsLeft` has two halves. `SweptSources`: while a cleanup runs, an
  empty directory above a source is either the one the walk is at or one from
  which a walk is still to start. A removal can empty only the parent, and that
  is where the walk goes next. `SweptTargets`: before an undo no directory the
  batch made is empty, and during one at most the directory that the walk stands
  before.
- `ConsentIsCovered` compares two computations made at different times: the
  preview's, a recursion over the tree before the first copy, and the walks'. The
  recursion is shown to have a solution (`PreviewDefined`: the largest closed set
  of directories is one), and this solution to hold every directory all of whose
  files pass the guards and all of whose directories it holds (`PreviewHas`, by
  induction over the levels of the tree). `Shown` states that about the list in
  the modal, and `Reach` that what touches a directory touches all above it. A
  directory the cleanup finds empty, untouched and without a sidecar below it,
  then had in it only what the preview took away too.

### `Anchoring`

Theorems in `OrchestratorProofs`. Assumptions: `AnchoringAssumption` (no file is under two roots that can be
dropped) and, for `MissesAreTold`, `CandidatesAssumption` (what TMDB's
searches and the resolvers offer has no episodes of TMDB's yet).

| theorem | says |
|---|---|
| `GroupsHaveOneShow` | `[]OneShowPerGroup` |
| `PaneIsOfItsRow` | `[]PaneShowsItsRow` |
| `HintsAreOwn` | `[]HintIsOwn` |
| `MissesAreTold` | `[]NoSilentMiss` |

The first three are inductive together with the shape of a row (`Shape`): a row's group
follows from its hint, which only a drop changes (`HintsStay`), and a pass gives
all rows of a group what it found for the group (`PassIsPerGroup`).

`MissesAreTold` adds `MissInv`: the list of errors is complete, whether or not it
is the one shown, and nothing that can be chosen has episodes of TMDB's, so that
only a hydration can leave a season out, and then only by failing (`Hydrates`).

### `ShellRows`

Assumption: `ShellAssumption` (what is dropped has files in it, an answer is not
"no candidate").

| theorem (`ShellProofs`) | says |
|---|---|
| `EditsStay` | `[]EditsKept`: the rows are what the user has made of them |
| `NothingIsLeftOut` | `NothingLeftOut`: what is streamed is every placed row of the list and every file picked |

`meant` is computed from the user's intentions and `rows` from what handlers
install, so the two agree only if each answer is what the user asked of the rows
its request was sent with. `Sound` says this of each kind of handler at each of
its steps: a handler that goes file by file (the IMDb search, an override, the
skip of collisions) carries the rows it began with, edited in the files it has
behind it (`EditedSoFar`); the pane's answer is its one row edited
(`EditSound`); an anchor's are the rows of one group (`AnchorSound`); an apply
carries no collision and all its winners once its losers are skipped, unless the
rows were replaced while the review was open (`ApplySound`, `Settled`).

The proof then rests on laws of edits: of no file it is no edit (`EditNothing`),
of some files and then of others it is one of both (`EditTwice`), and the pane's,
which sends only the fields that differ from the row, is what the user asked for
(`EditUnchanged`). `Reviewed` is the review's own
argument, that skipping the losers of every collision leaves none and keeps what
was picked.

### `ReviewQueue`

Assumption: `QueueAssumption` (a row that shows a target has a destination;
`NoTarget` is not a path).

| theorem (`ReviewProofs`) | says |
|---|---|
| `NothingIsLost` | `[]NothingLost` |
| `NoGhostsRemain` | `[]NoGhosts` |
| `SavedDecisions` | `[]DecisionsAreSaved` |
| `RowsStay` | `RowsLeaveForCause` |

One invariant carries all four, for any number of workers.

- `TypeInv` has what keeps the screen's indices meaningful: the table's keys are
  places in the list and the cursor is a line of the table, whatever was removed.
- `Apart`: two applies under way share no file and no path but those in
  `risked`, and one apply never has two files for one path. A plan is injective
  when it is made; `MeetingsHave` is that a start counts in `risked` everything on which
  it meets an apply under way.
- `Cleared` and `Arrived`: what stands at a path an apply will write to is its own
  file or risked, and what it has behind it, as long as nothing failed, is there
  whole. So at its gate every source it will unlink has its copy.
- `Owed`: a row whose file is gone belongs to an apply that will drop it when it
  ends, or had no target in the table. With no apply left, no ghost is.
- `Unbrought`: a file that the loader has not brought yet is where it was.
- `Settled`: a row in the list whose file is in `settled` shows what `overrides`
  say of the file, and with no failed save pending the file is `overrides`. A
  decision about a show records one entry and changes every row of the show
  (`RecordedReads`); a removal takes an entry away only with its row (`Removed`).
  `OverridesFit` is that an episode has no entry of its own, which would hide its
  show's.

`Kept` is the model's `SelectSeq`, as a recursive function, so that what the list
is after a removal can be proved: `KeptIs` gives, by induction over the length,
that the list has the rows at the places kept and no others.

### `CommandLine`

Assumptions: files have names and trees are lists (`ScenesAssumption`); ids are
unique in the catalogue and what TMDB, OMDB and the user offer has a title
(`CatalogueAssumption`, `OmdbAssumption`, `PicksAssumption`); a season is a list
of episodes (`EpisodesAssumption`); a likeness is a percentage
(`RatioAssumption`); lower case is lower case (`LowerAssumption`). Two conditions
stand in the theorems that need them. `NoneIsNoFunction` says that Python's None
is neither a tuple nor a record; TLC, to which None is a model value, cannot
evaluate it. `TitlesUnmarked` says that no show is called `S01E02`.

| theorem (`CommandProofs`) | says |
|---|---|
| `Decisions` | `[]DecisionsSaved` |
| `Replay` | `[]ReplayShowsChoice` |
| `Once` | `[]EveryVideoOnce` |
| `PartsKeptApart` | `[]PartsStayApart` |
| `Numbers` | `[]RightNumbers`, if `TitlesUnmarked` |

The inductive invariant `IInv` has five parts:

- `TreeInv`: what is dropped is a list of files whose videos have names. It is
  the user's tree at first and then a root of a library the program made, so that
  its step shows that every name the planner renders is one the parser can be
  given (`AppliedTree`).
- `PlanInv`: a plan is that of the present tree, resolved or anchored by a pick.
- `SavedInv`: a running review is at one of its groups, the candidates it offers
  come from the catalogue, and `SavedSoFar`: what the user decided is in the file.
- `ChoiceInv`: what was picked for a group is in the file it went to, if that was
  not lost, and, while the review that made it runs, in the file and in what that
  review holds. The second half is why
  a later save, which writes the whole of what it holds, does not lose a pick.
- `ReportInv`: a report is of the present tree and file, since no review runs
  while it stands.

Given it, the properties are about functions:

- `Replay`: the anchor made of a candidate resolves back to it, because ids are
  unique (`Resolved`); a row takes what an earlier row with the same id was
  resolved to, which is the same when no two anchors share an id (`Overridden`);
  and the row keeps the key it was grouped by (`OverridesKeep`).
- `Once`: a row's file is in one pair at most (`Asks`), a pair becomes one op or
  none (`MadeIs`), an op is in the plan or in its collisions and never in both
  (`Divided`, `PlanIs`), and a row without an op has no candidate or no numbers
  (`NumbersArePlaced`).
- `PartsKeptApart`: the number of a part is the last atom of its target's name
  (`PartNamed`), whatever the rest is, because gluing and sanitizing keep every
  atom in its place (`Glued`, `Sanitized`).
- `Numbers`: what `match_episode` returns has the numbers of the name or a title
  like the one in the name (`Matches`), in particular the near-tie that wins is
  either the hinted one or the first of the ranking; and the first marker of the
  target's name is the one that was put there (`EpisodeNamed`).

Below them are lemmas about the lists of `Lists`: what `Kept`, `Distinct` and
`ByScore` return is a list of what they were given, and a sort puts nothing
before its best (`KeptList`, `ByScoreIs`). `FlattenSeq` of the community modules
is a recursive function; that it has a value and adds up over concatenation is
proved by induction over the length (`FlattenDefined`, `FlattenConcat`).

### Left to TLC

- All liveness (`EveryRunAnswered`, `NoCallHangs`, `AppliesEnd`): the prover
  handles neither fairness nor `ENABLED`.
- `StableLibrary`. That a rendered name parses back to what it was rendered from
  holds of the titles a catalogue has and not of every sequence of atoms: a movie
  whose title contains a word that is read as an edition is given that edition
  when it is dropped again with `--apply-editions`. Which titles are safe is not
  a condition of the code that could be an assumption; the run enumerates titles
  with numbers, years, seasons, parts and dots in them.
- Inductions above are over numbers only (`LeastNat` and `SetInduction`, from the
  well-foundedness of the naturals), and made where a recursion is simple enough:
  the list of rows that stay, the preview's levels, the atoms of a name.

## What is not modelled

- The TMDB and TVDB clients and their caches: HTTP and JSON. A call answers or
  fails, which is how the other modules see it. A cache file that cannot be read
  is a miss (`tmdb/cache.py`).
- The text of anchors (`tmdb/anchor_parse.py`): an anchor is what it is parsed to.
- Settings files: load and save of one JSON file. The live toggle is in
  `ApplyWindow`.
- Regular expressions, forbidden characters, reserved names and length limits
  of names; symbolic links.
- The op rebuilt for a kept source of a collision has neither sidecars nor an
  edition (`orchestrator.py:1004`); ops are targets in `CollisionPlan`.
- Files already in the library are in `Executor` (a target may pre-exist and is
  overwritten) but not in the planners, as they never look.
- The manual fields of the edit panes one by one, alternate orderings, undo and
  the first-run prompt of the Windows shell; the search box, `--load` and quitting
  in the terminal screen; the daemon's schemas.
- Rendering of widgets, argument parsing, logging, packaging, the corpus
  generator and workflows. `PROJECT.json` gives a reason for each.
