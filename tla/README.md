# SlotDeck: a verification project

SlotDeck is a desktop workspace built on Qt: a small core (`src/`) that owns startup, the
window, messaging between plugins, persistence and the terminal engine, and plugins
(`plugins/`) that own every feature. The code is single-threaded around an event loop, with
worker threads for the database, the file system and configuration transfers, child processes
for terminals and language servers, and network replies. What is hard about it is the order in
which posted calls, timers, replies, process exits and failures reach objects that may be
gone, restarted or busy with something newer by then. The modules in this directory model
that control and abstract the data it carries.

Paths below are those of the repository (`src/...`, `plugins/...`).

## The parts of the system

**How they interact.** `main.cpp` builds an `Application`, which applies a staged import
(`ConfigurationTransfer`), opens the database (`StateStore`, then `DatabaseExecutor`), reads the
settings (`ApplicationSettingsStore`), loads the plugins (`PluginManager`) and shows the window
(`src/ui`). A plugin knows only its host: it asks for futures of the database and of the file
system, publishes messages and sends requests to other plugins, registers pages, and translates.
Every future is answered on the interactive thread, guarded by a context object that its owner
destroys at shutdown. Plugins are shut down in reverse order, then the executor finishes what was
submitted to it.

| Part | State it keeps | Operations | What is hard, and what would make it correct |
| --- | --- | --- | --- |
| AI request gate | per provider: limits, slots held, admissions remembered, waiters, timer | `acquire`, `release`, `withdraw`, `setLimits`, death of a caller | a queue nobody pumps; a slot held by the dead; the pace across a change of limits. **`RequestGate`** |
| AI task runtime | board, queue, runs, rows of both in the database; schedules | start, stop, move, save, remove, message, schedule, end of a run, result of a write | what is asked for between a write and its result; limit of parallel runs; crash and resume; clocks that are moved. **`TaskRuns`**, **`Schedules`** |
| AI task repository | rows of workspaces, tasks, conversations, settings | save, move, reorder, remove, page of messages | positions without holes across failures; a page against a message said meanwhile. **`TaskStore`** |
| AI task board and window | tabs, cards, dialogs; runs, log and bubbles of one task | the reader's, and what the plugin tells | cards against tasks; answers about a task nobody looks at any more. **`TaskViews`** |
| AI settings and catalogs | connections, agents, pace; what a release knows | save, start with another release | a save that fails under another; an agent that goes while it runs. **`AiSettings`**, **`ProviderCatalog`** |
| AI agent turns | conversation, run, iteration, calls of a turn, tools at work | start, skills, request, summary, tools, deadline, answer | answers that are late for their run or turn; conflicting tools; messages typed meanwhile; what a service refuses. **`AgentTurn`**, **`ModelRequest`** |
| AI chat client | the reply, its buffer, attempts, idle and retry timers | `send`, `cancel`, stream, completion, retry | a posted admission outlives a `cancel`; a retry races one; told once how it ended. **`ChatClient`** over **`RequestGate`** |
| AI tools, command runner, MCP client, skills | files read and written, processes, servers with their pending calls, a cache of skills | every tool, run, cancel, time out, scan | an edit of what changed since; a server that dies with calls pending; a result that belongs to another run or directory. **`AgentTools`**, **`CommandRunner`**, **`McpClient`**, **`SkillCatalog`** |
| File system service | the tree, jobs, answers | list, read, write, edit, move, copy, remove | one step of several failing; jobs between a look and a write. **`FileSystemService`** |
| Configuration import | database, staged file, backup, logs | stage, apply, decide, undo | a crash between any two file operations. **`ConfigurationTransfer`**, **`AtomicImport`** |
| State store | file, log, files set aside, schema versions | open, set aside, migrate, rebuild | another build, and an end between two steps. **`StateStore`** |
| Application and plugin manager | lock, plugins, marker of a clean end | start, load, initialize, shut down | order of dependencies both ways; a start that does not end. **`Startup`** |
| Saved state | shown, committed and stored value of each owner | change, save, failure, shutdown, start | results that overtake each other. **`SavedState`**, **`TerminalPlugin`** |
| Plugin bus | subscriptions, pending requests | publish, request, answer, time out | an answer, a timeout and the death of the asker race; a plugin leaves with requests pending. **`PluginBus`**, **`RequestPromise`** |
| Terminal session, child reaper | backlog, input, process, notifiers, status | start, read, flush, write, restart, resize, close | end of process against its last output; backlog at its limit; who waits for a process. **`TerminalSession`** |
| Windows console | three threads, a console, handles | start, write, pause, terminate | handles closed under a thread; a wait that is missed. **`ConPty`** |
| Terminal screen, mouse, focus | the emulator, the drawing of it, buttons and focus told | print, resize, scroll, select, search, press, release, retire | a drawing left behind; a button that stays pressed for a program. **`TerminalScreen`**, **`TerminalPlugin`** |
| Terminal workspace | tabs, layouts, slots, shelf, sessions | create, move, close, lay out, assign, shelve, focus, save | a session in two slots or in none that shows it; what is stored and what is shown. **`TerminalWorkspace`** |
| Code editor | folders, tabs, buffers, digests, loads, saves, rules of indentation | open, type, save, reload, watch, rename, close | a file that changes on disk, or is typed into, while a load or a save is on its way. **`CodeDocument`**, **`EditorWorkspaces`**, **`EditorRules`** |
| Language servers | process, documents open there, requests by kind, problems, lists of proposals | start, open, change, close, ask, answer, shut down, replace | messages and answers on their way when a server ends and another starts; answers about a list that changed. **`LanguageServerClient`**, **`CodeServers`** |
| Web server | servers, runtimes, connections, log | configure, start, stop, serve | a stop while a start waits for the disk; a stop with files on their way. **`WebServer`** |
| Browser | tabs, groups, bookmarks, homepage | open, close, move, save, restore | memory, tables and tab bar through failed writes. **`Browser`** |
| Logs, system information, donate | rows shown, samples, a page | append, refresh, show | bounded buffers; a sample that arrives after its page is gone |
| Core UI, localization, shells | widgets, texts, paths | show, translate, find | painting, layout and formatting |
| Build, packaging, tests, translations | none at run time | | |

## The runs

Components share little state, so a run joins several: which one moves is chosen in the initial
states (`part`), and the others stay as they began. The states of the parts are added up rather than
multiplied, every property of every part is checked, and a part that stands still satisfies its
properties as its initial state does. Fairness of a part asks for nothing while it stands still. A
property of a run is a conjunction of properties of its parts, which the comment before it in the MC
module names.

| Run | Module | Parts | Distinct states |
| --- | --- | --- | --- |
| `gate` | `MCRequestGate` | the gate, with a log of admissions of its own | 19,665 |
| `services` | `MCServices` | saves, bus, chat clients, document, language server, editor workspaces, servers of a workspace, assistance, rules, terminal layout | 595,298 |
| `tasks` | `MCTasks` | runs, store, settings, schedules, board, window | 532,864 |
| `terminal` | `MCTerminal` | session, screen, mouse, settings, Windows console | 115,032 |
| `assistant` | `MCAssistant` | turns, requests, streams, tools, skills, MCP, command runner | 455,310 |
| `host` | `MCHost` | import, store, start, web servers, connections, browser | 373,666 |

Six more runs refute what the repository says of itself, each with one property: `import_lostlog`,
`tasks_followup`, `session_last`, `turn_orphans`, `server_reload` and `board_edit`. They are described
with their component.

Of the passing runs only `gate` checks for deadlock: in the others something may come to its end (a session is
destroyed, the application ends, or a bound is reached), and that nothing is stuck is said by liveness
properties and by invariants of the form "nothing is on its way, so all agree".

## The request gate (`RequestGate`)

`plugins/ai/AiRequestGate.cpp`. Every request to one AI provider waits here for an admission.
State: per provider, the limit in force, the slots held and by whom, the instant of the last
admission, the instants of the recent ones, the queue of waiters and a single-shot timer.

| Code | Module |
| --- | --- |
| `m_providers[p]` | `gate[p]`, a `ProviderState` record |
| `held`, a multi-hash from holder to connection | `held`, a set of requests, `Owner[r]` being the holder |
| `m_clock.elapsed()` against remembered instants | ages (`sinceLast`, `admissions`), which grow with `Tick` |
| `invokeMethod(..., QueuedConnection)` | `posted`, delivered by `Deliver` |
| `QPointer` gone null | `Owner[r] \notin alive` |
| `pump` | `PumpProvider`: the unique place the loop stops at (`PumpStopsAfter`) and what it leaves (`Pumped`) |
| `acquire`, `release`, `withdraw`, `setLimits`, the timer, `reclaim` | `Acquire`, `Release`, `Withdraw`, `SetLimits`, `Timeout`, `Destroy` |

`pump` reads the clock once per admission; the model lets no tick pass within a call. A
provider no setting names has the limit `Unlimited`, so that creating its state on demand
(`state()`) is already done in `Init`.

Run. `gate` has three requests of two callers and one provider, whose limits change between one
slot with an interval and a pace, and two slots with a pace only. A log of what was really
admitted is kept apart from the gate's own memory, and the pace is measured on it while the limits
change (`AdmissionsKeepPace`). No queue is left without something that will pump it
(`NoLostWakeup`) and every waiter stops waiting (`EveryWaiterServed`); the queue is served in order
(`FirstComeFirstServed`), and the dead keep no slot (`NoSlotHeldByTheDead`). That slots grow only
within the limit in force (`SlotsWithinLimit`) is a theorem. Bounds: ages stop at `MaxAge`, which no limit of the run
exceeds, and `MaxHistory` admissions are remembered, which no per-minute limit of the run
exceeds; beyond both, no comparison of the code can tell the difference. Three requests are
what it takes to have one held, one waiting behind another, and one of another caller.
Providers share nothing but the death of a caller, and the theorems hold for any number of them.

Fairness. `Tick` and `Timeout` are the event loop's clock and timers. `Release` is fair
because `AiHttpChatClient` releases when its reply finishes or fails and arms an idle timer of
at most ten minutes for the reply that does neither. Nothing is assumed of settings or deaths.

Proofs (in `RequestGate` itself). The inductive invariant is the type invariant with
`NoLostWakeup` and `NoSlotHeldByTheDead`; the last two are not inductive without the first,
and the pump needs the least place it may stop at to exist, which is proved from
the well-foundedness of the naturals. Proved for all constants: `TypeCorrect`,
`WakeupsAreNeverLost`, `TheDeadHoldNothing`, `AdmissionsWithinSlots`, and `NobodyOvertakes`, the order of
the queue, which needs a second invariant (`LinesAreStraight`: nobody stands in a queue twice, so that
a place in it is a fact about one caller) and, of the pump, that what it takes is a piece from the front of
what is alive. The pace and liveness are model-checked only.

## The configuration import (`ConfigurationTransfer`, `AtomicImport`)

`src/persistence/ConfigurationTransfer.cpp` called from `src/app/Application.cpp`. A chosen
file is staged on a worker thread beside the database. The next start snapshots the database
into a backup, puts the staged file in its place, opens it, and at the end of startup decides:
the staged file and then the backup are removed. A start that finds a backup undoes the import;
a startup that fails rolls it back in `shutdown`.

`phase` is the program counter of one process; every file operation is an action of its own,
so that `Crash` can fall between any two, and each can fail (`Fails`), as many times in all as
`MaxFaults`. A database is what it says (`data`) and the plugin schemas it was written under
(`schema`). The write-ahead log is `none`, the database's `own`, or `stale`: left beside a file
it does not belong to, which SQLite then reads as something nobody wrote (`Torn`). `Upgrade`
installs a build with other plugin schemas. `createSnapshot` (`VACUUM INTO` a temporary that is
committed) and the copy of `copyAtomically` (`QSaveFile`) happen whole or not at all.

`AtomicImport` is the promise: the configuration in force changes only by the hand of who uses
it, or all at once, to one that was offered, at the moment it comes into use. The refinement
maps `config` to what the next start would come back to (the backup while there is one).

Runs. `host` has three configurations, two builds and two failures of any operation but one:
what a start finds is whole (`ConfigurationWhole`), nobody works on a configuration that a
leftover backup would undo (`NoUndecidedImportInUse`, a part of `HostTypeOK`), and the refinement holds
(`ImportIsAtomic`). `import_lostlog` refutes what the code says of itself: where removing the log
of the replaced database fails, the code deletes the backup, the only whole configuration left.
Two failures are enough for one in an import and one in its undoing.

Met on the way and not a property: a file staged under one build and found by another, whose
plugin schemas differ, keeps every later start of that build from opening, as nothing removes it;
`StateStore.h:22` promises that nothing stored does that.

Proofs (`HostProofs`). `ImportTypeCorrect`, and under the assumption that the log of a replaced
database can be removed (`"replace_log" \notin Faulty`, the exact hypothesis `import_lostlog`
shows to be needed), for any set of configurations, number of failures and builds:
`ConfigurationAlwaysWhole`, `ImportsDecidedBeforeUse`, and `ImportImplementsPromise`, the
refinement itself. The inductive invariant says, phase by phase, when a backup exists
(`BackupGuards`), when a foreign log may lie beside the database and what the database says
meanwhile (`LogGuards`), and that every file at rest is whole (`WholeFiles`).

## The terminal session (`TerminalSession`)

`src/terminal/TerminalSession.cpp` over `src/terminal/platform/posix/PosixPtyBackend.cpp`.
Bytes are counted, never spelled out. A program's output waits in the kernel (`kernel`), is
read by `DrainOutput` into the backlog (`pending`) and goes by chunks to the emulator
(`FlushOutput`). At `PauseSize` reading pauses, at `ResumeSize` it resumes. Input waits in
`input` for the notifier (`writeOn`). A process ends in the kernel (`Exit`), and the session
finds out by the timer (`CheckProcess`) or at the end of the output (`DrainOutput`, `Finish`);
the process of a session that is restarted or destroyed is handed to the reaper (`handed`),
which may wait for it at any later time (`Reap`).

| Code | Module |
| --- | --- |
| `m_pendingOutput`, `m_outputPaused`, `m_outputTimer` | `pending`, `paused`, `flushing` |
| `m_childProcessId` and `m_descriptor` | `child` (`Running`) |
| `m_readNotifier`, `m_writeNotifier` enabled | `readOn`, `writeOn` |
| the process as the kernel knows it | `os`: unborn, running, exited (a zombie) or reaped |
| a system call that fails | `Fails`, `MaxErrors` times in all |

A unit of the model is as many bytes as one likes: what the code compares are the sizes
against each other, and the proofs hold for any. One read of the model brings at most twice
`BatchSize` less one, as the loop of `drainOutput` stops at the first read that reaches the
batch. A process identifier is not used twice in the model; `WaitedForOnce` says why the code
would not mind.

Runs. `terminal` has two processes in a row, two sizes and one failed call, a backlog that takes
several flushes to fall below its half, and partial writes: a backlog that pauses reading is always
about to be flushed (`OutputKeepsFlowing`), and the pause ends (`PauseEnds`, a part of
`NothingStopsForGood`), and a process is waited for in the end (`NoProcessLeftBehind`). As theorems: input
that waits has a notifier (`InputKeepsFlowing`), a process is waited for once (`WaitedForOnce`), and
the status shown is that of the process there is (`StatusIsCurrent`).
Fair are the timers of the event loop, and the reaper, which kills what it was handed after a
grace. `session_last` refutes a comment of the backend: the timer may find the end of a process
before its last output was read, and the descriptor is closed over it.
Met on the way and not a property: when the kernel refuses a size the emulator has already taken,
the two disagree until the next different one (`TerminalSession.cpp:283`).
A destroyed session stops, so deadlock is not checked.

Proofs (`TerminalProofs`). For all sizes and numbers of processes: `TypeCorrect`
(with the bound of the backlog), `OutputNeverStuck`, `InputNeverStuck`,
`EachProcessWaitedForOnce`, `StatusAlwaysCurrent`. The inductive invariant joins them with
`Aside`: a session that is not paused is below the size it pauses at, no notifier reads for no
process, the reaper was only given started processes, and a session never started has nothing.

## The Windows console (`ConPty`)

`src/terminal/platform/windows/ConPtyBackend.cpp` has three threads. The thread of the window starts
(`StartConsole`), writes (`WriteInput`), pauses and ends (`Terminate`, then `RequestStop`, `Kill`, `Join`,
in the order of `terminate`, which waits for the other threads); `Reading` and `Writing` are the steps of
the two others. A thread looks at its condition and goes to sleep in two steps, holding the lock in
between (`dozing`), so that a notification can only be missed if the code does not hold the lock where it
changes the condition. `handles` and `console` are `m_handles`; `queue` is `m_pendingInput`; what the
threads tell the session waits in `events`.

`ThreadsKeepTheirConsole`: no thread works at a handle that was closed (`HandlesOutliveTheirThreads`), and
what is typed reaches the shell it was typed at, once and in order, in writes that may be partial
(`TypedOnceInOrder`). `TerminationEnds`, a part of `NothingStopsForGood`: `terminate` returns, with fairness
of the threads alone; the shell need not read what it is sent nor end when it is told to, which is why the
code closes the console before it waits. Bounds: two shells in a row, two bytes typed, one chunk of output
at a time.

Met on the way: output of a shell that was replaced, and its end, may be heard when the next one runs
(`ConPtyBackend.cpp:306`, 326), and the session takes the end for that of the new shell
(`TerminalSession.cpp:369`). And the end of one shell can be told twice (`EndIsToldOnce`, which is stated and
does not hold): a writer whose write fails takes `m_running` down (line 349) before it raises `m_stopping`
(line 351), and a reader that saw the process end reads `m_stopping` in between (line 326), so that one
tells the session that the shell exited and the other that it failed.

Proofs (`TerminalProofs`): `ConTypeCorrect` and `ThreadsAlwaysKeepTheirConsole`, for any number of shells,
bytes and chunks. What is inductive is `CInv`: with the positions of the threads, a shell that runs has
its handles and a terminal that was told to stop has none running (`Positions`); and the batch a writer
writes is the front of the queue, which was typed after what the shell was given (`Bytes`). The lemmas
before it are about what is cut from the front of a sequence and put to its end.

## The screen, the mouse and the settings (`TerminalScreen`, `TerminalPlugin`)

`TerminalScreen` joins the emulator (`GhosttyTerminalAdapter.cpp`, whose library is external and is
modelled by what the adapter asks of it: lines that are a match or not, an offset, a selection), the
session and the widget (`TerminalWidget.cpp`) with the two timers that gather changes into one drawing
and resizes into one size. `NothingSeenIsBehind`: while nothing fails, a visible widget shows what the emulator
holds, or a drawing is due, and has the size of the session, or a resize is due. `ShellHasTheSize`: a running shell sees the size that the session has written down,
whatever failed. Both are `ScreenIsCurrent`. Bounds: a viewport of one row over two lines, so that lines
are dropped and the offset meets both ends; three changes; one failure of the emulator or of the pty.

`TerminalPlugin` is, first, the pointer and the focus of a session that is shown in one pane and then in another.
Whatever is reported may be refused by the backend, whose queue of input is bounded (`taken`), and nothing
that was refused is reported again. `NoButtonSticks`: a button that the program was told is down is one that
the reader holds and whose release it will be told of, through Shift, double clicks, selections, and modes
that change in between; or one whose release was refused (the history `missed`), which the code forgets all
the same (`TerminalWidget.cpp:866`).
It holds where no pane is retired with a button held on it (`Careful`).

It is, beside that, the permission to write the clipboard on its way from the store
(`TerminalSettingsStore.cpp`) through the manager to each emulator; the theme goes the same way.
`OnlyWhileAllowed`: no emulator is allowed what the reader does not allow, in sessions that were there,
that are started later, and after a failed save took the change back.

Proofs (`TerminalProofs`): `ScreenAlwaysCurrent`, for any sizes, lines, matches and failures. To be inductive,
`ScreenIsCurrent` needs that an emulator is alive unless something failed (`AliveUnlessFaulty`): a size that was
asked for is given up only where there is no emulator to give it to. `ScreenTypeCorrect`: the history, the
viewport, the selection and what was found keep to their limits (`ScreenBounds`); it rests on `ScreenInv` for
the sizes of what is started again. `ButtonsNeverStick`, for any buttons and panes, where no pane is retired with a
button held on it; what is added (`Heeded`) is that a program is told of buttons only while it runs and asks for
them, so that a release that is not reported is of a button it knows nothing of. `TerminalTypeCorrect` joins
the five parts as `MCTerminal` runs them, each beside the others.

Proofs (`TerminalProofs`): `SettingsTypeCorrect` and `ClipboardOnlyWhileAllowed`, for any terminals, saves,
failures and starts. The invariant that carries them (`Permitted`) adds to `OnlyWhileAllowed` the manager,
from which each new session takes its permission, and the saves on their way.

## The task runtime (`TaskRuns`)

**State.** `known` and `column` are `m_tasks`, `queue` is `m_queue`, `active` is `m_active`,
`workers` the chat clients and command runners that still work, `rows` the table `ai_tasks_queue`,
`kept` the column in the table of tasks. `ops` are the writes that were asked for and whose results
have not come back. Of a conversation the model keeps `unread` (it holds a message after the last one
a turn carried) and `carried` (the run has sent a turn). `asked`, `owed` and `raced`
are histories that only properties read.

**Steps.** Each call of the user (`StartCommand`, `StartAgent`, `SendMessage`, `StopTask`, `MoveTask`,
`SaveTask`, `RemoveTask`, `RemoveWorkspace`), the timer (`ComesDue`, `ProcessSchedules`), the ends of
runs (`Turn`, `FinishCommand`, `EndAgent`, `FinishAgent`), and the result of each kind of write
(`...Stored`, `EnqueueRefused`, `MessageFails`, `OtherFails`). `DispatchQueue` is `dispatchQueue` in
one declarative step: a task starts if the tasks ahead of it that go on running leave room, and one
that cannot start ends within the dispatch and leaves its room to the next.

**Abstractions.** One worker executes the writes in order and their results come back in order, so a
write and its result are one step. A result that is already there when its continuation is attached
runs it at once, ahead of older results (as in `SavedState` and `AiSettings`); this module and `TaskStore` leave that
out. A conversation is taken to be
loaded when a task of an agent is started. The reload after a removed workspace reads the database
as it is when its own write is done; it may in fact see later writes too.

**Runs.** `tasks` has a task of an agent and a scheduled command, room for one run at a time, two
writes in flight, and one trouble: a message, a failure, a crash, a removed workspace, a user in
haste, who asks for more about a task while a write of it is in flight, or a schedule that comes due while its
task has one (`ProcessSchedules`). Once the writes are done, whatever waits or runs is stored and waits for want of room
only, and the database says no more than the board (`SettlesToStorage`); whatever waits or runs is queued again after a crash (`RunSurvivesCrash`) and no
worker outlives its run (`NothingLeftBehind`); the limit of parallel runs
holds whatever happens (`WithinLimit`; these three are `RunsEndWhole`); no run starts without a request of its own
(`StartsWhatWasAsked`); and the queue moves (`QueueMoves`, with
weak fairness on the worker, which executes its queue until it is empty, and on the turns and ends
of runs, which is an assumption: a command without a time limit ends when it likes).
`tasks_followup` refutes `README.md:179`: a message that comes with the final answer loses its turn,
because the result of the write that ends the run takes the new entry out of the queue with the old.

All but the limit are checked of a user who is not in haste and while nothing fails
(`Undisturbed`); crashes, stops, ends and other tasks interleave freely, and so do schedules, except that
one which comes due amid a start, a move, a save or a removal that the user asked for counts as haste.
One that comes due while what a run writes by itself is in flight is in (`race`), and the code does not keep
all of `SettlesToStorage` for its task: the result of the write takes the new run out of the queue and leaves its row.
Such tasks are in `raced` until their row goes, and are excepted from what the database says too much; from all
else they are not: what waits or runs is stored and has its dispatch. What the code
does otherwise, as the model shows it when the condition is dropped: two quick starts of an agent's
task reach storage twice, though `AiPlugin.cpp:1280` means to exclude it; a task started while its
removal is written keeps its program (`AiPlugin.cpp:1158`); a stop that races the end of a run and a
new start takes the new start away; a removed workspace reloads the queue while tasks run, and a
running one waits again; a write that fails at the end of a run leaves its row, and later starts are
refused as duplicates. Outside the model: a scheduled run of an agent sends no prompt
(`README.md:180`).

**Proofs (`TaskProofs`).** All but the last, which is liveness, are proved for any tasks, agents,
schedules and limit. `Sound` (the types, and that what waits is of the board) is inductive whatever
happens, and with it the limit: `Chosen` counts, for each task of the queue, the ones ahead of it that
go on, and of two that are chosen the later has counted the earlier, so the last one counted them all
(`ChosenFit`); the least that is not chosen found no room, so none is left (`ChosenFill`). The other
properties need more than they say, because between an answer and the next the board is ahead of the
database. `Regular` says by how much: a task that waits or runs has its row or the write of it
(`RowsFollow`), a row without a task (but of `raced`) and a task in Doing that does not run have the write that ends them
(`ColumnsFollow`), a task is queued before any other write of its own and never while it has a row, but for `raced`
(`EntriesFollow`, `Orderly`), what waits or runs is not ended by what is in flight (`Ended`: completed and not queued
after it), and a task that is queued from Doing is completed before that or has no row yet (`Begun`), so that a refusal,
which puts the column back, leaves no task in Doing that nobody runs; and a queue that stands still has no room or a write in flight whose answer
dispatches it (`RoomIsGiven`). It is kept by every step that adds no trouble, and troubles are never
taken back (`TroublesStay`), so `Undisturbed => Regular` is an invariant. With no write in flight it is
`SettlesToStorage`; its rows are what a crash queues again (`StartedAgain`).

## Schedules (`Schedules`)

`ai/CronExpression.cpp` and the scheduling of `ai/AiPlugin.cpp`. An expression is its five fields, each
a wildcard or a set of ranges (how they are spelled is left out); `NextOccurrence` searches as the code
does, by months, days, hours and minutes of a wall clock that a zone may set forward or back, and turns
local times into instants as Qt does. `NoOccurrenceIsMissed` compares `nextAfter` with a definition: the least of the later
instants the expression asks for, where a wall clock that is skipped is answered by the first there is,
and one that is repeated by the first of the two. `ScheduleIsKept`: the schedule in memory can be stored
and is ahead of its last run, and with no write on its way it is the stored one. The calendar of the run
has hours of two minutes, days of three hours, weeks of two days and years of three days in two
months, and zones that move the clock at midnight, after it, and back into the day before: each field
wraps round, a month has no such day, and the clock skips or repeats a matching time.

Left out by a condition (`crossed`): a save of a schedule that crosses one of its occurrences. The save
carries the `next` it was made with, its write comes after that of the run, and the row may then be one
that `validateSchedule` refuses (`AiTaskRepository.cpp:953`), which keeps the plugin from initializing.
Met on the way: the timer of a schedule that is due while its task is busy is started at 0 ms again and
again (`AiPlugin.cpp:2514`); a task whose one time is past cannot be edited.

## What is stored of the board (`TaskStore`)

`ai/AiTaskRepository.cpp`, with the continuations in `ai/AiPlugin.cpp` that change memory when an answer
comes. An operation is a transaction that the one thread of the database does whole or not at all
(`ops`), whose answer comes back later (`done`). Rows that refer to a task go with it, as the schema says
(`ON DELETE CASCADE`). `BoardIsReadable`: at any time the stored workspaces are such as a start accepts,
each at its place and one of them active; a start that finds anything else refuses the whole assistant.
`ConversationIsInOrder`: a conversation in memory is in the order it was said, and no message is there
twice, whatever page is asked for and whatever is said, cleared or removed while it is on its way. Bounds: two workspaces, one task of which a
conversation is kept, pages of one message, three messages, two operations in flight, one failure or restart.

`board_edit` refutes a comment of the view (`AiConversationView.cpp:214`): `saveTask` of a task that is
there deletes its row and inserts it again, and the conversation, the runs and their logs go with the
deleted row, while the window goes on showing them. (`tasks` has `Edits` FALSE.)

## The settings and the catalog (`AiSettings`, `ProviderCatalog`)

`ProviderCatalog` is whether a release's catalog loads and which connections it takes
(`AiProviderCatalog.cpp`, `AiModelConnection.cpp`). `ModelsCanBeUsed`: every model of a catalog
that loads has a connection that `validateConnection` takes. `AiSettings` is the one document of
settings, through changes, failures that take a change back, restarts, and starts with another release:
every agent has its connection and nothing is set twice (`SettingsAreWhole`). A save is queued, then written or
failed, and its result posted (`SaveWritten`, `Answered`), or it is done before `then` looks for its result, which
is then heard of at once, ahead of what is posted (`IsDoneAtOnce`). With no save on its way, what a failure goes back to is
what the next start reads, and so is what is in force (`WhatIsSetIsStored`), unless the last save failed and was heard
of before the success of one that is stored (`overtaken`): the code goes back to what was committed when it heard of
the failure, and the success that comes after moves what is committed and not what is in force. The gate and the tools go by what is in force
(`PaceIsTheSetOne`), and, while no save fails, no task runs on for an agent that is gone (`RunsHaveTheirAgent`). Three releases (one whose catalog does not load, one that
knows fewer providers), two saves and one failure or restart.

Met on the way: a change whose save was told as failed is stored by the next save of another section
(`AiPlugin.cpp:612`); an agent that one save removes while the save after it fails leaves a task running
without it (`AiPlugin.cpp:975`); connections and agents that a release does not know are dropped from the
document without a word, and the next save stores that (`AiTaskRepository.cpp:293`); servers of tools
are stored without being validated.

## What is seen of the tasks (`TaskViews`)

Two machines. `BoardNext` is the board (`AiTasksView.cpp`, `AiTaskDialog.cpp`): tabs, cards with their
badges, and the dialog or confirmation that is open while answers go on arriving (a nested event loop).
`SurfaceNext` is the window of an agent's task (`AiTaskInfoDialog.cpp`, `AiConversationView.cpp`): its
runs, the log of the one that is picked, which is read again while the run writes, and the bubbles of the
conversation. `BoardFollowsTheTasks`: each task of the active workspace has a card where it is, which says how its run stands.
`AnswersFitTheQuestion`: what a question is answered with is done to the workspace and the task it asked about.
`SurfaceFollowsTheTask`: each message has its bubble, a turn is being written while the task runs and then
only, and once nothing is on its way the runs are shown with the log of the picked one.
`ReaderIsNotDisturbed`: reading again moves the reader neither from the run nor from the entry he is at. Bounds: two tasks, three workspaces, two acts, one failing write, two runs of two entries.

With `Strays` TRUE somebody is faster than the answers, and TLC shows: closing the tab of one workspace
while another is activated removes the wrong one (`AiTasksView.cpp:457`); a dialog that was open while
its task was moved saves the column it had (`AiTasksView.cpp:589`, against the comment at 654). And without it: an activation that fails leaves the board
at a tab that is not the active one (`strayed`); the window of a removed task stays open; and when the write of the end of a run fails, nothing tells the board and the window, which show a
running turn for good (`AiPlugin.cpp:2385`; the history `unheard` names those tasks).


## The turns of an agent (`AgentTurn`)

`plugins/ai/AiPlugin.cpp` from `startAgentExecution` to `completeExecution`, with the fitting of a
conversation (`AiToolContract.cpp`) and the conflicts of tools (`AiToolRegistry.cpp`).

| Code | Module |
| --- | --- |
| `m_conversations[task]` | `conversation`; a message is its place, which is its sequence number |
| `m_active[task]`, its iteration, `deliveredSequence`, `toolCalls` | `run`, `iteration`, `delivered`, `calls` |
| what the run waits for: skills, the model, a summary, tools | `stage` |
| the lambdas given to `discoverSkills` and to the tools | `reading`, `working` |
| requests of the client without an answer | `requests` |

A run reads the skills of its directory, then sends turns. A turn that asks for tools starts
those that conflict with none at work (`Dispatched`); each answer, or the deadline that answers in
its place, looks for more, and the last one records them all and goes on (`CompleteToolCall`).
A conversation that does not fit is cut by `Fits`, summarized and sent; the request for the summary is
itself cut, and holds of what was dropped only what it has room for (`InSummary`). `ToolAnswers` and
`SkillsRead` may come at any time, for a turn or a run that is long over.

The size of a message and of the window is left to chance: any conversation may turn out not to
fit. Prices, logs and the phases of the card are left out, and every write succeeds; what becomes of
a run that is asked for is the business of `TaskRuns`.

Runs. `assistant` has two runs, two turns each, two messages, one summary, and turns that ask for a
write and a read of the same file, or for a command without a deadline. A client has one request at
a time (`OneRequestAtATime`), conflicting tools take turns (`ConflictsTakeTurns`, in
`WhatWasSeenStillHolds`), a run that answers
has told the model everything the user typed or asks for a further run, except for what the request for a
summary had no room for (`EveryMessageIsAnswered`; the history `cut`, which the code hides and tells nobody),
and a turn whose tools have deadlines ends or goes on (`ToolsHoldNoTurn`; fair is the timer of a
deadline and nothing else). `turn_orphans` refutes what a test says: a summary that drops a turn with
its results names the turn after it when that one called tools too, whose results stay without their
calls. Two runs are what it takes for an answer to be late for one and early for the next.

Proofs (in `AgentTurn` itself, for any menu of tools, limits, windows and conversations). The invariant
`TurnInv` joins four parts. `RequestInv` ties requests to the stage of the run (`NeverTwoRequests`).
`SaidInv` says that a message hides only what came before it, so that `Hidden` is a number all of the
conversation agrees on. `WorkInv` says that a tool which is not given up is one the turn of this run waits
for, one for each call, that the calls under way do not conflict, and that what was given up is waited for no
more (`ToolsTakeTurns`). `CarriedInv` says that what the user said up to `delivered`, or is hidden, was carried or cut,
and that what a summary is about to hide was, is sent with the next request, or is among what is summarized, of which it
carries what it was told and cuts the rest (`NoMessageIsForgotten`). `TurnTypeCorrect` needs all
four. `ToolsHoldNoTurn` is a liveness property and stays with TLC.

## What a model is sent (`ModelRequest`)

`projectConversation` of `AiPlugin.cpp` and `AiToolContract.cpp`: the stored conversation becomes the
messages of a protocol, is shortened (results of tools beyond the recent ones are pruned), cut to the
window of the model, and brought into the shape the service takes (roles that alternate, results right
behind their calls, no picture for a model that sees none). Text is an amount. `StreamNext` is the other
direction: the calls of a turn come in fragments, of several calls mixed, and are put together.

`RequestsAreTaken` is what services demand: roles take turns (`RolesTakeTurns`), every result stands
behind its call and every call has one (`ResultsFollowTheirCalls`), what is sent fits the window where
anything does (`SentFitsTheWindow`), and a call is made of its own fragments (`CallsAreWhole`). The run has
three protocols, models without a limit, with a limit that anything exceeds, and with two limits between
which conversations of five messages fall; a turn of two calls; two fragments of each.

## Tools and files (`AgentTools`, `FileSystemService`)

`FileSystemService` is the one thread that touches files: its jobs are done in the order asked, each to
one of the outcomes its code has on the tree there is then, among them those that leave a part done (a copy
of a directory that stops halfway, a file that is written and not renamed). `AgentTools` is what each
tool of `AiToolRegistry.cpp` asks of it, and of services, commands and servers, with the conflicts
(`toolAccessesConflict`), the deadline and the cancellation of a call.

`WhatWasSeenStillHolds`: what a tool looked at is still so when its job is done; an edit is written over
the text it read, a directory that goes without its contents has none. `CommandsEndWithTheirRun`: no
command runs for a run that has ended. The run has two tasks with directories of their own; one asks for
turns of edits, reads, writes, moves, removals, searches and services at three paths, the other runs
commands (`TaskTools`). Bounds: one run and one turn of each task (`ToolRuns`, `TurnsOfARun`).

Met on the way: with `SharedIds` (services that number the calls of every run alike, as some do),
`m_runningCommands` holds one of two commands of the same number, and cancelling a run leaves the other
behind (`AiToolRegistry.cpp:534`). The registry speaks of one task at a time, so that a tool that asks
about its own task while another runs may be told of the other (`TaskToldIsItsOwn`, `AiPlugin.cpp:1533`).
A call that is past its deadline still writes later.

Proofs (`TaskTools`, for any paths that have their prefixes, any number of runs and turns, and any turns of calls
that keep `ToolsAssumption`: the two tasks differ and have the directories of the run, and none is asked to
write, move or remove its own directory). Edits are
safe for a reason no single call shows: what an edit was shown stays true between its reading and its writing because the
calls at work for one task do not conflict, a call disturbs what it touches alone, the directories of
the two tasks are apart, and a directory that a call finds missing above its place is made by it. The first part are
lemmas about `FileSystemService`: every outcome of every job, those that leave a part done among them, is a tree that
differs from the one before at the places of the job, below them, or above where nothing was (`Disturbs`). The
invariant `ToolInv` joins the control of the turns (`TurnsAre`), what is at work for them (`AtWorkIs`: who waits is at
work, nobody is twice, who is at work for a task that did not overrun is waited for), and the files (`FilesAre`:
what jobs and answers rely on is there). A task overruns when a deadline passes or its run ends amid a turn; what is
still at work for it is promised nothing, as in the code.

## Commands, servers of tools and skills (`CommandRunner`, `McpClient`, `SkillCatalog`)

`CommandRunner` (`AiCommandRunner.cpp`) is one command for whoever made the runner: signals of the process
are handled when they are delivered, which may be after the limit of time, too much output, a stop or the
end of the owner. `OutcomeIsToldOnce` (in `AssistantTypeOK`): whoever waits is told one outcome, and waits
for a process that runs or whose end is about to be heard. `NoProcessIsLeftAlone` (in
`ProcessesAreSeenToTheirEnd`): a process that nobody waits for has ended or will be killed, by a timer of the
event loop. A shutdown ends that loop and waits for no process, so it is not among the callers of `Cancel`.

`McpClient` (`AiMcpClient.cpp`, `AiMcpTransport.cpp`) is one server, as a process behind a thread of its
own or as an address, with calls in both directions; saving the servers makes a new client beside the
one that is ending. At an address the body of an answer holds the answer or not, and an event stream what else
the server has to say (`Bodies`); what was posted is answered, parsed and dispatched after a stop as well.
`NoCallWaitsForTheDead`: every call is answered once, and one that waits does so for
something that may still come, or is left to the deadline of its tool: by an address that answered with something
else (the history `ignored`), and by a client that was stopped and asked again, which notes a request and posts none.
`GreetedFirst`: a process is asked for nothing before it was told to begin (posts to an address arrive in any order).
Two calls, two clients, two things that go wrong (an exit, a bad message, a forgotten session, a time that
is out). Met on the way: a process that does not end when it is told to stays behind when the servers are saved
(`NoServerLeftBehind` with `Obeys` FALSE, against `AiMcpClient.cpp:202`); a session that the server forgot
may leave a client ready without one (`ReadyHasItsSession`, `AiMcpClient.cpp:440`); one post that fails
completes every pending call of the client as failed.

`SkillCatalog` (`AiSkillCatalog.cpp`) reads the places of a directory one after the other; scans for two
directories interleave with each other and with changes of the files. `SkillsAreOfTheDirectory`: a run
is given the skills of its own directory, no name twice, the project's before the machine's. That "the
catalog is read once per run" (`AiSkillCatalog.cpp:101`) does not hold: what was read for a run is
given to the next ones of the same directory, until another directory is asked for.

Proofs (`AssistantProofs`, for any calls, clients, faults, amounts of output, directories and files of skills).
The runner's invariant
adds to `OutcomeIsToldOnce` and `NoProcessIsLeftAlone` that signals come of a process that is still the
runner's, that one of a process that has ended says so, and that a limit or somebody who waits has neither an outcome
nor a process that was let go of. That of the server joins what the client, the transport and the process each
know: a process that runs is the client's or its end is among the signals not handled yet, an exit is the last
of these; whoever waits at an address has a post, an answer being parsed, or is left to its deadline (`Due`); and whoever may be asked was told to begin,
or will read that before what it is asked.
`NobodyWaitsForTheDead` is the property of the run about both. The invariant of the skills (`SkillsInv`) says of every
scan what it has found so far: of its own directory, then of the home, no name twice, the directory's before
the home's; the cache and what a run was given are such lists, of the directory they are for (asked for twice and with one change of the files, as in the run).
Each invariant
holds while its part moves and while another does (`AgentsInv`, with `TurnInv` and `ToolInv`), from which follow
`AgentsKeepApart`, all of `AssistantTypeOK`, and `EditsFindWhatTheySaw`, all of `WhatWasSeenStillHolds`. Assumed are
that a server is reached as a process or at an address (`TransportsAssumption`), and that the home is nobody's
working directory (`WorkdirsAssumption`).


## State saved behind the window (`SavedState`)

`src/app/ApplicationSettingsStore.cpp`, the settings of the terminal, code editor and web server
plugins, the tabs, bookmarks and homepage of the browser: all follow one protocol over the worker of
`src/persistence/DatabaseExecutor.cpp`. A change is shown and submitted (`Change`); the worker executes
(`Execute`); the result comes back (`Deliver`), or is found by `QFuture::then` when it was there
before (`Attach`), which overtakes what is posted. A success is committed, a failure of the newest
save goes back to what is committed (`Finished`). `Shutdown` drops the results on their way and
finishes the submitted saves, `Crash` loses them, `Start` reads what is stored.

A value is the number of the save that carried it. Owners differ in two ways, given by constants:
`Counting` ones do not commit a result older than the committed one, `Loud` ones tell of every
failure. The terminal and the homepage of the browser count nothing; for them the value a failure
goes back to may be an older one, which `CommittedIsStored` excepts by name.

Runs. `services` has two owners of both kinds, three saves of each, two failures and two starts: what a
failure goes back to is what is stored (`CommittedIsStored`), and a change that is not what the next
start will read was told (`LostChangesAreTold`, in `ServicesTypeOK`). Three saves of one owner are what it takes
for a result to overtake two.

A claim of the tests does not hold: "a memory that disagrees with storage is a lie that start discovers"
(`CoreTests.cpp:704`, `MemoryAgreesWithStorage`). `QFuture::then` calls its continuation at once when the
future has finished, so a save that fails before then is heard of ahead of the success of the save
before it, whose continuation is still posted: the memory goes back to the value before that success
(`ApplicationSettingsStore.cpp:146`), and the success then only moves what is committed, so that
memory and storage differ until the next change. TLC shows it with two saves of one owner.

Proofs (`ServicesProofs`). For any owners and bounds, `SavesTypeCorrect` and
`FailuresGoBackToWhatIsStored`. The inductive invariant says where each save of an owner is (queued,
attaching, posted or done), that the saves on their way are in the order of their numbers, and that
the newest success is stored, committed, or still to be delivered.


## Terminal workspace (`TerminalWorkspace`)

`plugins/terminal/workspace/WorkspaceManager.cpp` keeps tabs, each with a layout of slots and a shelf
(`LayoutManager.cpp`), the sessions placed there, and a runtime for each; every operation ends in a
save of all of it (`TerminalWorkspaceRepository.cpp`). `tabs`, `selected` and `sessions` are
`m_workspace`; `current` is `m_currentTabIndex`, which the code keeps beside the identifier it
stores; `runtimes` is `m_runtimeSessions`; `stored` is the row. The actions are the slots of the
manager. `Persist` first asks `Valid`, which is `validateWorkspace`: a workspace it refuses is never
stored again until it is valid, and is refused at the next start.

Left out: names, colours, directories and times. Of these the clock matters: `validateWorkspace` refuses
`updatedAt < createdAt`, so a clock that was set back past the creation keeps every save from
being stored, which is told each time except at shutdown. A save and its result are one step; what
several saves at once do is `SavedState`.

Run. `services` has two tabs, two sessions, the layouts of one, two and three slots, one failing
save, crashes and restarts without bound. Identifiers are interchangeable, so symmetry is sound (no
liveness is checked). Two sessions are what a displaced session, a session shelved by a smaller layout, a full
layout of two slots and one of three that is not full need; two tabs are what closing or moving one
that is not selected needs.

What holds (`LayoutKeepsItsSessions`): the workspace is valid after any sequence (`SavesAreAccepted`); a
session stays in its tab until it is closed (`SessionsStayInTheirTab`); and index, selection and runtimes
agree, and, unless a save failed, so does what is stored (`ShownIsWhatThereIs`). These are model-checked
only so far.


## Requests between plugins (`PluginBus`, `RequestPromise`)

`PluginManager::request` gives each request a number, a timeout and a guard on the object that asked
(the context), and posts everything else to the event loop: the call of the plugin that is asked
(`HandleRequest`), its answers, as many as it likes (`Answer`, `DeliverResult`), the call of the reply
on the context (`Call`), and the removal after it (`Leave`). `Complete` is `completeRequest`, where the
first result counts, and `Removed` is `removeRequest`, which the end of the context
(`EndContext`), the shutdown (`ShutdownPlugins`) and the last step of a request come to. `pending` and
its parts `timing`, `decided` and `replies` are `m_pendingRequests`; `arriving`, `results`, `calls` and
`leaving` are what is posted, as sets, so that they are delivered in any order, of which Qt's is one.

`RequestPromise` is what an asker may count on: a request is asked, and then answered while the asker
lives and the bus is open, or dropped when either ends. `PluginBus` implements it
(`RequestsAreSettledOnce`), where a request is asked as long as its reply can be called;
and a request that is pending always has its timeout, its call or its removal on the way
(`NoRequestIsForgotten`). Messages that are published are not modelled: nobody answers them.

Proofs (`ServicesProofs`). For any plugins, requests and contexts, `BusTypeCorrect`, `EachRequestEnds`
and `BusKeepsItsPromise`, the refinement. The inductive invariant has the course of a request (`Course`:
it is timed until it is decided, and keeps its reply until that is called), what was told (`Telling`),
and that nothing is pending once the bus has ended (`Life`). No step of it needs the
order in which posted calls are delivered.

## Chat clients at the gate (`ChatClient`)

`ChatClient` extends `RequestGate`: its callers are clients (`AiHttpChatClient`), which ask for a place
(`Send`, `RetryTimeout`), send when the posted admission comes (`Dispatch`), and give the place back
when the stream ends, fails, goes silent, or the client is cancelled (`Finish`, `Fail`, `Retry`,
`StreamFails`, `IdleTimeout`, `Cancel`). `owed` are the clients whose run still waits to be told how its
request ended. What a run does with its client (one request at a time, and none after a failure) is
that of `AiPlugin.cpp`, by which the model does not send to a client that is in use.

`PlacesMatchUse` (in `ServicesTypeOK`): a client has one place while it waits, was admitted or has a request in flight, and
none otherwise; and a run that waits for an answer has a request in flight, a retry timed, or a place
at the gate that will bring it one. It says nothing of clients that are to be deleted: one that is
cancelled between its admission and the delivery of it has given the place back, and
still sends (`AiChatClient.cpp:216` posts `dispatch`, and `cancel` does not take it back), so
that for a moment a request more than the limit is in flight.

## Documents of the code editor (`CodeDocument`)

A file has its content on disk, which others change as well (`ChangeFile`), and a document that shows
it: `buffer` is the text of the editor, `storedDigest` and `appliedDigest` are the digests of what the document last
took for the file's content and of what it last loaded into the buffer, `dirty` is whether something is
typed. A content stands for its bytes, text and digest at once. Reads and writes are jobs of the one
thread of `FileSystemService`, done in the order asked (`DoJob`), and a result is looked at by its
continuation, which is posted, or called at once when the job had finished before `QFuture::then`
(`Done`). What was read is decoded on a pool of threads, whose results come in any order
(`decodes`, `ApplyDecoded`). `Type`, `ReloadFile`, `SaveDocument`, `OnLoaded`, `OnWatched`, `OnSaved`,
`WatchedFileChanged` and `CloseTab` are the handlers. A text that the charset cannot spell is not
written, of which the reader is told (`CannotSpell`).

`TypedTextIsKept`: what was typed and never written is not replaced by what the file says, unless the
reader asks to read it again. `DocumentIsStored` is two things: when no save is under way, what the reader asked to save is in the
file, or was told to have failed (`SavesReachTheFile`); and a document that is not dirty has nothing
typed that the file did not get (`CleanMeansSaved`), on which everything else rests. What is typed while a load is under way is not noted by the code (`m_loading`), and none of them speaks of it.

What the document takes for shown is not always shown (`AdoptedIsShown`, which no run lists because
it does not hold). `applyDecoded` loads the text into the buffer only if its digest differs from
`m_appliedDigest`, and a save moves `m_storedDigest` only: load a file, type, save, and let another
program put the loaded content back. The change is noticed (it is not what is stored), the
buffer keeps the saved text (it is what was applied), and the document is clean. Saving after the next
keystroke then writes over what the other program did. `CodeDocument.cpp:591` says the digest
"says whether the buffer already holds this text". A read that was done before a save and
is decoded after it is adopted without being shown as well; the next look at the file mends that one.

Proofs (`ServicesProofs`). For any contents, edits and bounds, `DocumentTypeCorrect`, `EditorTellsTheTruth`
(`DocumentIsStored`) and `TypedTextIsAlwaysKept` (`TypedTextIsKept`). The inductive invariant `DocInv` adds three
things to what is proved: what is in the file, or was read from it, is something that was written there
(`FileIsKept`); there is one write on its way at most, and none unless a save is under way (`OneWrite`), since the
end of a save is taken for that of the write the document waits for; and of each job, what it carries and
what is still wanted besides it (`JobsAreKnown`): a write marked with the revision of the buffer carries all that is
typed, so that a document which comes out of a save clean has lost nothing.

## Language servers (`LanguageServerClient`)

The client lives in the thread of the window, the transport, which owns the process, in its own: what
the client asks of it (`toTransport`) and what it says (`toClient`) are queues between them.
`OnStarted`, `OnInitialized`, `OnShutdown`, `OnAnswer`, `OnProtocolFailed`, `OnExited` and the two
timers are the handlers of the client, `DoCall` those of the transport; `ProcessStarts`,
`ProcessExits`, `ServerAnswers` and `ServerBreaksProtocol` are the process. `SetLanguageServer`, `Reload`, `Edit`, `Saved`, `Detach` and
`Ask` are what a document does. The operations on a document are functions of the
client's copy to a new copy and the messages sent, and `Received` is what a server makes of those.

`SpokenToInTurn` (in `VersionsAgree`): every process is greeted first, told of documents once it answered, of changes and
closings of what is open there, in growing versions, and of nothing after a shutdown. It is what a
restart could break, because messages for the old process are still queued when the new one starts: the
code relies on the order of the two queues and on `processFinished` being heard before `started`.
`VersionsAgree`: a server that was told everything has the version the client counts.
`server_reload` refutes a comment (`LanguageServerClient.cpp:235`): a file that changed on disk and is
loaded again never reaches a server that has it open.

Bounds: one document of two contents, one edit, one restart, one crash, four requests, two
changes of an entry, and two calls waiting for the transport when a document acts (answers and
timeouts add more). One restart and one crash are enough for a message to meet the wrong
process. Not modelled: an answer whose identifier is null, which `toInt(-1)` makes equal to the identifier
of a shutdown nobody asked for (`LanguageServerClient.cpp:570`, 628) and so ends the server; and
completions decoded on a pool after they left the table of requests, which are shown even if a
newer request superseded them.

Proofs (`ServicesProofs`). `ServersAgree` (`VersionsAgree`) and, for a server that wants no changes,
`ServersAreSpokenToInTurn`: for any contents and words and any number of crashes, restarts, requests
and calls on their way. The inductive invariant `ServerInv` says that there is a chain (`Chain`) of states from what the
server is now, along every call that waits for the transport, each of them in turn where it will be heard, to a
state that the client believes in (`Believes`): initialized, with the document open there exactly when
the client says so and in the client's version. An action of the client makes the chain longer at its end, one of
the transport takes its first step. What holds the chain together at a restart is the order of the
two queues: a start is the last call that waits and finds no process (`StartsFromNothing`), an
end is the last signal of a process (`SignalsInOrder`), and a client that heard of a start has sent
nothing before it (`Conversation`). Hypotheses: the way of taking changes is one of the three of the code, and the server
wants to be told what is opened and closed. Of one that does not, `openDocument` tells what is
opened all the same (`LanguageServerClient.cpp:230`) and `closeDocument` does not tell what is closed (:312), so
that a document opened again is opened twice there.

## Folders and files of the code editor (`EditorWorkspaces`)

`CodeEditorPlugin.cpp` keeps the open folders and, of each, the open files; `CodeEditorView` shows them as
tabs; `CodeWorkspaceView` has the documents. A change is shown at once and saved by a timer; writes come
back in order, failed or not (`Persisted`), and an end saves what is left. Entries of a folder are created,
moved and removed by operations whose answers come later. `TabsMatch`: the tabs are the workspaces,
however changes and failing writes meet, and one of them is active. `EndsSaved`: the end of the editor leaves the workspaces stored,
unless a write failed. Both are in `AnswersFitTheEditor`. Bounds: two folders, one name, four
changes, one failure.

Met on the way: a file that is renamed onto one that is open gives a workspace with a path twice, which the
repository refuses to store (`SavesAreAccepted` with `Renames`, `CodeEditorRepository.cpp:36`); a write that fails and takes an
added folder back drops the text typed in it without a question (`UnsavedIsAskedAbout`); when one of the files
of a workspace is gone at a start, the active one is restored by an index that counts it
(`CodeWorkspaceView.cpp:251`).

## The servers of a workspace and what they answer (`CodeServers`)

Two machines. `CodeServersNext` has the clients of one language: made by the first document that needs one,
replaced when another program is found, dropped when servers are turned off, each taking its
time to end; and the list of problems. `DocumentsFollowTheServer`: a document speaks to the server of its
workspace or to none, and the workspace has none that ended. `AssistNext` has the questions about the place
of the cursor, whose answers may be decoded on other threads: the list of proposals, the documentation
beside it, hovers. `DocumentationFitsTheList`: documentation is about a row of the list that is shown, though
answers name a row only and lists change under them. Both are in `AnswersFitTheEditor`. Two programs, two
files, two clients, four changes; two kinds of question, two rows, four requests.

Met on the way: a client that was replaced and takes its time to end clears the problems of its language when
it does, though its successor reports them (`ProblemsStayReported`, `CodeWorkspaceView.cpp:1070`); completions that are being
decoded have left the table of requests and are shown though a newer request superseded them
(`SupersededAreNotShown`, `LanguageServerClient.cpp:319`).

## The rules of indentation (`EditorRules`)

`EditorConfig.cpp` reads the `.editorconfig` files above a document, and `CodeWorkspaceView.cpp` watches
them. `Resolve...` are the algorithm, line by line over what a line sets; `NearestHasTheLastWord` compares it
with a definition (the last line about a key in the nearest file that has one, up to the root) for all
sequences of up to three files of five texts. `RulesFollowTheFiles`: once files have been read, the open document
goes by what they say, in whatever order the loads came in. Excepted by the history `moved` is a document
that was moved to another folder: the folders it comes to are not watched
(`CodeDocument.cpp:355`), against the comment at `CodeWorkspaceView.cpp:459`. Which documents a pattern
matches is given.

## One run for several components (`MCServices`)

The parts of `services` share no state. Bounds: for `SavedState` those above; for `PluginBus` two plugins,
one of which needs the other, two requests and two contexts, so that requests share a context
or do not, and one may be decided when the other is asked; for `ChatClient` two clients at a provider
with one place, two requests that may be outstanding of each, and one retry; for
`CodeDocument` two contents (interchangeable, hence the symmetry), one edit that saving keeps and one that it trims,
two jobs or decodings at a time, and two of: a change by others, a save, a reading in another charset;
for the others those given with them. No fairness is
assumed, and none is needed: all properties are of what may never happen, for which the symmetry is sound.
The system may stop: the application ends, and all requests may have been made.


## The database from start to start (`StateStore`)

`src/persistence/StateStore.cpp`: a start opens the file with the log beside it; one that cannot be used is
set aside with its log and a new one is made; the schema of a plugin is brought from its version to the
declared one, step by step in one transaction, or dropped and created again where its definition differs;
one that is newer than the build is refused. Steps are actions, so that `StoreCrash` and the next
start, of another build, may fall between any two, the two renames of a file and its log among them, and each rename
may fail. `OnlyTornLogsAreLost`: a row that was committed is in the database, in a file set aside, was dropped by a
rebuild of its schema, or was in a log when its file was set aside without it (the history `torn`); no other step that
fails or is the last before a crash loses one. A plugin that runs has the schema it declares
(`SchemaIsTheDeclaredOne`, in `HostTypeOK`). Builds: a version, the next one, and another definition of that; two rows; two
ends, failures or damages.

Proof (`NoRowIsLost`, in `HostProofs`): for any builds whose versions start at one, and any number of rows,
crashes, failures and damages, both hold, without a condition on the renames.
The invariant is `EachRowIsSomewhere` (a recorded row is in the file, in its log, in a file set aside, was dropped or
is torn) with `LogHasItsFile`: a log can be let go of only where there is no file, or a file that was
never migrated, and what it then holds was torn from the file before. Without the second half the step that removes
what is left could lose a row.

Three things the code does otherwise than it says. Setting the file aside and its log are two renames
(`StateStore.cpp:204`, 217): where the second fails, or a crash falls between them, the rows of the log are in no file
that is kept, against "Nothing it held is destroyed by the recovery" (line 195; `NothingHeldIsDestroyed`, which TLC
violates). That a schema was rebuilt is noted in memory (`m_rebuiltSchemas`) and told once the window is there: a crash
before that leaves the rows of the plugin gone without a word. And a
schema of a later build keeps its plugin from opening (`FeaturesOpen`, against `StateStore.cpp:302`).

## Coming up and going down (`Startup`)

`Application.cpp`, `PluginManager.cpp` and `MainWindow.cpp`, run after run in one data directory: the lock (stale
after a crash), the loading of the plugins, the passes that initialize those whose dependencies are up, the
failure of any of these, the shutdown in reverse order, and the marker of a clean end. `DependenciesAreUp`:
a plugin that is up finds those it depends on up, whether coming or going. `StartsComeToAnEnd`: a start leads
to a running application, or to none with no plugin up; with fairness of the steps of a start and of a shutdown,
each of which is a call that returns. Both are `PluginsComeAndGoInOrder`. Three plugins, two of which depend
on the third, which is registered between them, and two crashes or failures.

Proof (`PluginsFindTheirOwn`, in `HostProofs`): `DependenciesAreUp` for any plugins, each registered once, and any
dependencies, also of one on another and back. The invariant is about order: `initialized` names nobody twice and
each after those it depends on (`NoneTwice`, `NoneBeforeItsOwn`), and who is up is a first part of it
(`ThoseThatAreUp`): while the application leaves, the part that is as long as what is still to leave.

Met on the way: a start that ends before its window tells what it found leaves that untold for good
(`NothingIsLeftUntold` with `Patient` FALSE, `Application.cpp:151`).

## Web servers (`WebServer`)

`WebServerPlugin.cpp`: configuring and starting a server waits for the disk, the database and the runtime,
in turn, and each continuation looks at what the user and the terminals did meanwhile. `StopIsKept`: a
server that was last asked to stop does not run once its operation has ended, whatever stage of its start
the stop came in. `TerminalsAreApart` (in `HostTypeOK`): the table never has two servers of one terminal, and as
long as no write has failed nor has memory, and the unique index refuses nothing. Two servers, a terminal, two
runtimes, two writes at a time, one refusal. With one terminal memory keeps them apart after a failure as well
(`OneServerPerTerminal`); with two it does not: the terminal of a server that is being moved to another
closes, the server goes back to the first when its write fails, and the unlink behind that write lets
another server have the first in the table, and in memory both have it. A server whose terminal closes while its change is on its way stays linked to
it (`LinksAreLive`, `README.md:123`).

Proof (`StopsAreKept`, in `HostProofs`): `StopIsKept` for any finite set of servers and any terminals,
ports and bounds. It is not inductive: the answer of the database starts a server behind its user. What
makes it safe is that an operation that waits for the disk or the database and is not cancelled was last
asked to run (`CancelledIfStopped`), and that a write on its way is of an operation that still waits for
it, one for each server (`WritesOfOperations`): otherwise a late answer could end, or go on with, an operation that is
not its own, and the cancellation would be forgotten with it. A server without an operation is cleared by the stop itself
(`StoppedHasNone`).

Proof (`TerminalsStayApart`): `TerminalsAreApart`, for the same. Memory alone says nothing of the writes that wait,
so the invariant is that, until one fails, they lead from the table to memory through tables each of which
keeps the terminals apart (`Leads`); a change adds tables at the end and a write that is run takes the first.

The second half of the module is a running server (`WebServerInstance.cpp`) and its log (`RequestLogModel.cpp`):
`FilesArriveWhole`, a connection that ends unaborted has carried its header and the whole file, and what is
buffered for it passes `maximumBufferedFileBytes` by less than a chunk: the loop looks at the limit before it adds a whole
chunk, behind a header that is there already (`WebServerInstance.cpp:191`, 224); `RequestsAreShownOnce`, the table shows each request once, in order, whatever the log
let go of and whoever cleared it between two looks; `PlacesAreGivenBack`, a connection that was
accepted gives its place back. Fair are the acceptance, the timer, the transfer, and the client, which reads
what it is sent: the code has a deadline for the request only. All are `ConnectionsEndWhole`. Two clients
at one place, a header of one unit and files of none and of six, read by chunks of two up to a limit of four, of
which the client takes any amount at a time; a log of one entry.

## The browser (`Browser`)

`BrowserPlugin.cpp` and its view: tabs, groups and bookmarks in memory, in the tab bar, and in
three tables with constraints. A write that fails takes memory back to the last write that did not.
`BarShowsTheTabs`: the bar shows the tabs in memory after every change and every failure.
`NoChangeIsRefused`: each statement meets the constraints on the tables as they are when it is run.
`SessionIsAccepted`: a start accepts what is stored. All are in `HostTypeOK`. Two tabs, two groups, one
bookmark, three changes, one failure.

Proof (`BrowserShowsWhatItKeeps`, in `HostProofs`): all three, for any tabs, groups, bookmarks and addresses that
the strict reading takes (`Spaced` empty). What is held, what is on its way in either direction, what a failure goes back to
and what is stored have exactly one active tab, or no tab, and no bookmark of a group that is not there
(`SoundTables`); the bar is that of memory. Two lemmas say what taking one of a sequence out and putting
it elsewhere does (`Shorter`, `Moved`): a drop is a permutation.

`HostTypeCorrect` puts the invariants of the import, the database, the servers and the browser together: the host's
parts share no state, and `HostTypeOK` holds for every value of the constants under the hypotheses of those proofs.

Met on the way: an address with an encoded space (`Spaced`) is stored in a form that the next start refuses
(`BrowserPlugin.cpp:589`), and with it the whole session; the page of a tab stays where it was when a
failed write takes its address back.


## Where the code differs from what it says

The six runs that expect a violation show one difference each. The following formulas are stated in the
modules, with the line they are taken from; TLC violates them where the named constant allows it. No run
lists them.

| Formula | Where it says so | When |
| --- | --- | --- |
| `AgentTools` `CommandsEndWithTheirRun` | `AiToolRegistry.cpp:534` | services number calls alike (`SharedIds`) |
| `AgentTools` `TaskToldIsItsOwn` | `AiPlugin.cpp:1533` | two tasks run |
| `SkillCatalog` `CatalogIsReadPerRun` | `AiSkillCatalog.cpp:101` | a second run of the same directory |
| `McpClient` `NoServerLeftBehind` | `AiMcpClient.cpp:202` | a process does not obey (`Obeys` FALSE) |
| `McpClient` `ReadyHasItsSession` | `AiMcpClient.cpp:440` | a server forgets its session |
| `StateStore` `NothingHeldIsDestroyed` | `StateStore.cpp:195` | a file is set aside without its log: a crash between the two renames, or a second one that fails |
| `StateStore` `FeaturesOpen` | `StateStore.cpp:302` | a newer schema, left by a later build |
| `Startup` `NothingIsLeftUntold` | `Application.cpp:151` | a start ends early (`Patient` FALSE) |
| `WebServer` `LinksAreLive` | `README.md:123` | a terminal closes while a change is on its way |
| `WebServer` `OneServerPerTerminal` | the unique index (`WebServerPlugin.cpp:190`), asked of memory at 416 | two terminals, and a write that fails with an unlink behind it |
| `Browser` `SessionIsAccepted` | `README.md:53` | an encoded space (`Spaced`) |
| `SavedState` `MemoryAgreesWithStorage` | `tests/core/CoreTests.cpp:704` | a result is found by its continuation |
| `CodeDocument` `AdoptedIsShown` | `CodeDocument.cpp:591` | a file goes back to what was loaded |
| `EditorWorkspaces` `SavesAreAccepted` | `CodeEditorRepository.cpp:36` | a rename onto an open file (`Renames`) |
| `EditorWorkspaces` `UnsavedIsAskedAbout` | the question before a folder is closed (`CodeEditorPlugin.cpp`) | the write that added a folder fails, and it is taken back |
| `CodeServers` `ProblemsStayReported` | `CodeWorkspaceView.cpp:982` | the client before it ends late |
| `CodeServers` `SupersededAreNotShown` | `LanguageServerClient.cpp:319` | an answer is decoded on a pool |
| `TerminalPlugin` `LookedAtIsTold` | `TerminalWidget.cpp:373` | a pane is retired with the focus, or the backend refuses the report |
| `TerminalScreen` `MarksAreOfMatches` | `TerminalWidget.cpp:263` | the program prints after the search |
| `TerminalPlugin` `AllowedMeansAllowed` | `TerminalTranslations.h:8` | the application starts again |

In the models, and excepted by name from a property that is otherwise kept:

- A schedule that comes due while its task's run is being written down is queued at once, because
  `armScheduleTimer` waits for no write and starts at 0 ms (`AiPlugin.cpp:2514`). The result of
  that write (line 2396) then takes the task out of the queue and puts it in its column, and the row stays:
  stored as waiting, and not queued until the next start. Until then each later start of the task is refused as
  a duplicate, and a schedule that was refused is put back as it was and due at once, again and again
  (`raced` in `SettlesToStorage`).
- A save of the assistant's settings that fails at once is heard of before the success of an earlier one that was
  posted; memory then goes back to something older than what is stored, and stays there until something else is
  set (`AiPlugin.cpp:622`; `overtaken` in `WhatIsSetIsStored`).
- The request for a summary is itself cut to the window (`AiPlugin.cpp:1689`). A message that is cut there
  is hidden by the summary and told to no model, against `README.md:178` (`cut` in `EveryMessageIsAnswered`).
- The backend may refuse a report of the mouse (`PosixPtyBackend.cpp:304`, `ConPtyBackend.cpp:201`), and the
  widget forgets the press all the same (`TerminalWidget.cpp:866`): the program goes on with the button held
  (`missed` in `NoButtonSticks`).
- A server of tools at an address that answers with an empty body, or with one that is not JSON, answers nothing
  (`AiMcpClient.cpp:461`, 468): the call is left to the deadline of its tool (`ignored` in `NoCallWaitsForTheDead`).
- The rows of a log that was parted from its file (`torn` in `OnlyTornLogsAreLost`).

Further, read and not modelled: a command that ignores the notice to end outlives a shutdown, whose event loop
takes the timer with it that would kill it (`AiCommandRunner.cpp:53`, `AiPlugin.cpp:420`); a generated file is reported as written whatever the write came to
(`AiToolRegistry.cpp:1254`); a search asks the provider that is set when the reply comes; a conversation
that is loaded twice at once drops the message said between the answers (`AiPlugin.cpp:778`), as does one
that is reset while a message is on its way (909); "ai_command_crashed" is never reported; a
clock that goes back gives entries that are refused (`AiTaskRepository.cpp:473`, 889); in the code editor
`m_rereading` stays set when the reading in another charset fails, and a failed save forgets that another
was asked for; and a save that is asked for between the renaming of a file and the answer to it is written
under the old name (`updatePath` comes with the answer, and is left out of `CodeDocument`).


## What is checked and what is proved

TLC checks every run above on its small instance. TLAPS proves, for every value of the constants
within the named assumptions, the theorems of `RequestGate`, `HostProofs`,
`ServicesProofs`, `TerminalProofs`, `TaskProofs`, `AssistantProofs` with the lemmas of `TaskTools`, and
`AgentTurn`. Of the properties of the runs, TLC alone has `AdmissionsKeepPace`, `ServicesTypeOK`,
`AnswersFitTheEditor`, `LayoutKeepsItsSessions`, `TasksAreInOrder` and `RequestsAreTaken`. Model-checked only are:
liveness under fairness; whatever needs induction over the length of a log (the pace of
`RequestGate`); the comparisons of an algorithm with its definition (`NoOccurrenceIsMissed`,
`NearestHasTheLastWord`, `ModelsCanBeUsed`); the properties of histories; and all modules without a theorem.
`TypeOK` of `ConfigurationTransfer`, `SlotsWithinLimit` of `RequestGate`, and `InputKeepsFlowing`,
`WaitedForOnce` and `StatusIsCurrent` of `TerminalSession` are theorems and not among the properties of a run.

The proofs assume of a constant what its module's ASSUME says, and nothing else, except a few that name a
hypothesis: in `TerminalProofs`, that of the mouse, that no pane is retired with a button held on it; in `HostProofs`, those of the import, that the log of a replaced database can be removed; that
of the store, that versions start at one; that of
the web servers, that they are finitely many; and that of the plugins, that each is registered once; in
`ServicesProofs`, that of the language servers, that they want to be told what is opened and closed.

## What is not modelled, and the plan

Theorems to add, in order: `LostChangesAreTold` of `SavedState`;
`SavesAreAccepted` of `TerminalWorkspace`; `PlacesMatchUse` of `ChatClient`.

Left out, though they keep state: speech, the search of tasks, the reset of a conversation while a
message is on its way; searching in the files of a workspace and its tree of files; transactions of plugins
other than saves; the child reaper's thread beyond what `TerminalSession` has of it.

Left out for good: the pages of settings and their forms, painting, colours and layout (`src/ui`, the views
of the plugins beyond the states above), the grid of the terminal emulator (a library keeps it), localization, logs and
system information (they show what they are given), the matching of globs, bodies and headers of requests
over the network, the discovery of models and the keeping of secrets, exports, the choice of a shell and
its environment, build and packaging scripts. They keep no state whose order matters, or
nothing TLC could enumerate.
