# Hermito in TLA+

Hermito is a terminal IDE: one process with a user interface thread, worker
threads and a Tokio runtime, which edits files, keeps a journal of what is not
saved, and runs terminals on the local host or, through a helper process
(`hermito-remote`) it installs over SSH, on a remote one. This directory holds
TLA+ specifications of the parts whose correctness depends on the order things
happen in, TLC configurations that check them on small instances, and TLAPS
proofs that hold for every instance. All paths below are relative to
`src/crates/hermito/src/` unless they say otherwise.

## Inventory

**Event loop** (`event_loop.rs`). One thread, one iteration after another:
drain project scans, file reads, syntax results, journal acknowledgements, save
results, terminal launches, SSH activations; refresh what is shown of the
authorities; handle one input event; on a tick (16 ms) retry what the journal
queue refused and dispatch syntax work; draw; look at the shutdown channel.
Every channel is bounded. What it calls changes `App` (`app.rs`), which only
this thread touches. Everything slow runs elsewhere and comes back as a message
with a workspace epoch and a revision or an id.

| Component | State | Operations | Talks to | What is hard |
|---|---|---|---|---|
| Journal (`persistence/journal.rs`) | worker's map of unsaved texts, the journal file | checkpoint, acknowledge a save, flush, persist, recover | App by a queue of 16 and an acknowledgement channel | full queue, failing writes, crash in a write, order of retries |
| App's journal side (`app.rs`, `buffer.rs`) | revisions, last durable checkpoint, retained checkpoints and compactions | edit, retry, acknowledge, drain at exit, restore | journal | stale acknowledgements, four exit paths |
| Saving (`event_loop.rs`, `persistence/mod.rs`) | saves in flight and pending per document | Save, Save As, rename, directory sync, result | file system, App, journal | overlapping saves, edits meanwhile, power loss |
| Opening files (`event_loop.rs`, `project/fs.rs`) | one read in flight, one pending | request, read, focus or create a buffer | App | a Save As to the same file |
| SSH authority (`authority/ssh.rs`, `event_loop.rs`, `app.rs`) | trust, overlay, in-flight map, slot, environment epoch, lifecycle lock | grant, revoke, change, activate, disconnect, watch | multiplexer, App by a result channel | aborts at any await, locks, late results, lost helpers |
| Multiplexer (`remote/multiplexer.rs`) | alive, generation, pending requests, PTY streams | start, request, register, route, mark lost | helper process | loss racing everything, bounded queues |
| PTY sessions (`pty/session.rs`) | shell, child mutex, state, cancellation token, input queue | spawn, read, write, resize, cancel, mark lost | local PTY or multiplexer, App | reader, writer and owner racing on the state |
| Local authority (`authority/local.rs`) | trust, root | admit, open a shell, run, read and write files | App, PTY sessions, supervisor | what an unfinished operation leaves |
| Process supervisor (`process/supervisor.rs`) | child, process group, collectors, token | exec, terminate, sweep | operating system | exit, timeout, cancel and forks racing |
| Terminal pane (`app.rs`, `event_loop.rs`) | starting, launch id, session, capture | open, dispatch, attach, fail, close | authority, sessions, layout | superseded launches, loss while starting, resizes meanwhile |
| Layout (`layout.rs`) | sizes and visibility of the panes | resize, toggle, drag, rectangles | pane, renderer, mouse | terminals smaller than the panes |
| Editor (`app.rs`, `coordinate.rs`, `buffer.rs`) | text, cursor, anchor | insert, paste, delete, move, page, click, drag | layout, journal | offsets inside characters, clusters, line ends |
| Syntax (`syntax/`, `event_loop.rs`) | one job in flight, highlights, retained tree and source | dispatch, compute, drain | App | stale results, edits between two texts |
| Remote helper (`src/crates/hermito-remote`) | sessions, requests in flight, queues | spawn, input, cancel, read, write, exec | multiplexer over stdio | limits, duplicate ids, loss of its client |
| Wire protocol (`src/crates/hermito-protocol`) | byte budgets | frame, negotiate | multiplexer, helper | aggregate budgets |
| Terminal emulation (`terminal/`), project tree, rendering (`ui/`) | sequential | | | bounds |
| TUF verifier, helper installer, SSH bootstrap, configuration | none that survives a call | drive external tools | SSH activation | failures |

What makes them correct: nothing a user was told is safe is lost (journal,
saving); older texts never replace newer ones; whatever had to wait is done in
the end; the user is shown what is so (clean, connected, starting); a
revocation cuts what it says it cuts; a lost transport is noticed by all who
wait for it; no process goes on for nobody; a place in a text or on the screen is
what it is shown as; no limit makes something wait for ever. `PROJECT.json` lists the
hazards one by one, each at its line, with the properties that are about it.

## Modules

| Component modules | Proofs | For TLC | Implements |
|---|---|---|---|
| `Journal` | `JournalProofs` | `MCJournal` | |
| `WorkspaceFiles` | `WorkspaceFilesProofs` | `MCWorkspaceFiles` | `SavedDocuments` |
| `SshAuthority` | `SshAuthorityProofs` | `MCSshAuthority` | |
| `RemoteSession` = `Multiplexer` and `RemoteHelper`, both over `RemoteWire` | `RemoteSessionProofs` | `MCRemoteSession` | |
| `LocalAuthority` = `LocalPty`, `ProcessSupervisor` | `LocalAuthorityProofs` | itself | `ShellSession` |
| `Workbench` = `TerminalPane`, `Layout`, `TextEditor`, `SyntaxHighlighting`, the last two over `Coordinates` | `TerminalPaneProofs`, `TextProofs`, and `WorkbenchProofs` over both | `MCWorkbench` | |

### Journal

The worker thread of `persistence/journal.rs` and App's side of it. A text is a
(document, revision) pair. `queue` is the command channel, `held` the worker's
map, `journal` what the file holds, `work` the command being persisted, `acks`
the acknowledgement channel. App has `revision`, `dirty`, `checkpointed` (the
last revision it was told is durable) and `pendingCheckpoints`,
`pendingCompactions` (what a full queue refused). One action per operation:
`Edit`, `SaveCompleted`, `ApplyJournalAck`; `Tick`, then `RetryCheckpoint` and
`RetryCompaction` for each retained entry, between which the worker may run; the
exit path (`BeginShutdown`, `SubmitCheckpoint`, `SubmitCompaction`, `SaveState`,
`SendFlush`, `Exit`) and `Panic`; the worker's `RecvCheckpoint`, `RecvAckSave`,
`RecvFlush`, `PersistSucceeds`, `PersistFails`; `Crash`, a kill or a power loss at
any time, in the middle of a write too, and `Restart` from the files. `saved` is
what the workspace file has. `staleRetry` is a history variable: an old retained
checkpoint went in behind a newer one, or after its document was saved; it
separates the properties that hold from the one that does not (finding 1).

### WorkspaceFiles and SavedDocuments

Save and Save As with its overlay, `SaveCoalesceState` (one save per document,
the latest request retained), the save thread step by step (temporary file and
rename as one step, which either lands or not; then the directory sync; then the
result, which blocks while the channel is full), `SaveCompleted`, and opening a
file from the tree with `ProjectFileCoalesceState`. `disk` and `synced`
separate what a rename did from what a power loss keeps; `Stop` is a quit, a kill
or a power loss. `stored` and `users` are history variables. `SavedDocuments` is
what a user expects: a stored text only gets newer, and a document is shown
clean only when the text on the screen is stored; `SavesAsPromised` says that
WorkspaceFiles implements it under a refinement mapping.

### SshAuthority

Three parties: the UI thread (trust, overlay, the connection shown, the in-flight
map, results), the tasks it spawns (activations, disconnections), and the
transports. An activation goes through `scanning` (host keys, then waiting for
the lifecycle lock), `launching`, `negotiating`, `finishing` (no await left) and
`sending`; `RevokeTrust` aborts the one the in-flight map knows if it still has
an await before it, and spawns a disconnection. `slot`, `environmentEpoch` are
`SshAuthority`'s fields; `alive`, `generation`, `reported` are the multiplexer's;
`watched` is the watcher that `activate` spawns. `cut` is a history variable:
revoked in the trust review and not granted since. The alive flag and the
generation, two stores in a row in `mark_lost`, change in one step. The report
of a loss is a step of its own, and, as the watch channel has no receiver before
`activate` subscribes, a report made before that is never seen (`Finish`).

### RemoteSession: Multiplexer and RemoteHelper over RemoteWire

One connection from the end of its negotiation to its own end. RemoteWire has
what both sides share: `outbound` (the host's queue), `stdin`, `replies` (the
helper's queue), `stdout`, and `LinkBreaks`, which cuts each direction after some
message. Multiplexer is the host: `pending` with the four ways a request ends
(`AwaitAnswer`), exec's cancellation forwarder (`Forward`), `streams` with
`RemotePtySession` from `RegisterPty` to `DropPty` (`session` is where `spawn`
is, then the handle's state), the reader (`RouteMessage`, with `Overflow` when
nobody reads in time) and `mark_lost` (`Lose`). RemoteHelper is
`hermito-remote/src/main.rs`: `Dispatch` takes one message, `saying` is what it
then waits to send (`FinishDispatch`), operations reserve the budget of their
reply before they run, drains send what the shells print and end the session,
`Cancelled` starts the thread that kills a shell, and `ServiceEnds` to `Exit` is
the end of `run`, which waits only for the sessions it found in its map
(`joins`). An exec is `running` while `execute` waits for its child, under the
token and the time limit (`StopExec`), and `collecting` while it awaits the rest of
the output, under neither; a file operation runs for as long as it likes. A shell
that died may be `left`: a job of it has the terminal open, so its drain stays in
read until `JobEnds`. A message is its kind and its id; what a process or a file
operation does is left out. `mark_lost` is one step, for what runs between its locks finds
`alive` false; reserving budget and then waiting for a place in the queue is one
step. `PTY_SESSION_BUDGET` is counted in reads (`MaxOutputs`).

### LocalAuthority: LocalPty and ProcessSupervisor

A request to the workstation's authority: `Ask` is the check of trust, epochs,
revision and path, after which one of four things happens. Trust is looked at
once, and two requests share nothing afterwards, so a behaviour has one request,
of any kind.

*LocalPty* is `LocalPtySession`. `at` says where each of its three threads is:
the owner (`spawn`, then `cancel`, `mark_lost`, `drop`, `join_reader`, one
`errand` at a time), the writer and the reader. What they share is the state,
the token and the child's mutex, and each step is one access to one of them:
`ReaderLoads` and `ReaderStores` are two, and killing is four (`Terminate`,
`Kill`, `LockAndKill`, `Reap`), any of which the others may come between. `tty`
is apart from `shell` because a shell may let go of its terminal and live, and a
background job, which is in a group of its own, may have it open when the shell is
dead (`Held`): the terminal hangs up with the shell (`Hang`) or later
(`SlaveCloses`), and nobody promises when.
`ShellSession` is what a session promises its pane, five kinds of steps long;
`PtyAsPromised` is the refinement mapping.

*ProcessSupervisor* is `exec`: `leader` and `descendant` stand for the process
and what it forks in (or out of) its group, `call` for where the future is,
`collector` for the two tasks that read the pipes. `AttachTree` and `TakePipes`
may fail; `CommandExits` and `GiveUp` are the branches of the `select!`;
`GraceEnds`, `KillTree`, `Settle` are `ProcessTree::terminate`, `Sweep` and
`SweepRest` are `cleanup_descendants`, `Abandon` is the drop of the future.

### Workbench: TerminalPane, Layout, TextEditor, SyntaxHighlighting

*TerminalPane* is App's side of terminals and the launch the loop has under
way. A launch is its id: `flight` is the one under way, `result` what came of
it, `launchId` and `starting` what App wants now, `terminal` what the pane has,
`session` what each launch's shell is doing. `host` is a history variable.
Whether a launch is still wanted is `IsWanted`; `AttachTerminal` cancels what is
not. Authorities come and go (`LinkChanges`), sessions end (`SessionEnds`): what
is behind these is in SshAuthority, LocalPty and RemoteSession.

*Layout* is `WorkbenchLayout` to the cell: `Recompute` with its shrinking and
closing of panes, `Resized`, `Toggled`, `Dragged` and the nine rectangles. App
resizes it and opens the bottom body; `toggle_pane` and `drag_separator` are
part of its interface and only called by tests.

*Coordinates* has the functions of `coordinate.rs` over a text that is a
sequence of character kinds with their bytes, cells and UTF-16 units, and twice
the area of the code: as the mouse mapping computes it (`EditorMouseToByte`) and
as the renderer lays it out (`CodeArea`, `ShownCells`); the two differ in a pane
with one row inside its border, which the renderer gives to the code. *TextEditor* has the
editing actions of App on one text with its cursor and anchor.

*SyntaxHighlighting* has the single job of the loop (`inFlight`), the thread that
computes it, the result channel, and what App keeps: the highlights with their
revision and the retained tree with its source. A tree is the text it was parsed
from; `InputEdit` is `text_diff_to_input_edit`, computed on real texts.

*Workbench* composes pane and layout: `OpenTerminal` shows the body
(`OpenBody`), a shell is given a size when it is launched, when it is attached
and when the terminal is resized (`Sizes`, `TerminalResize`). A resize may be
refused, by a full outbound queue or by the kernel, and App drops the error: the
history variable `missed` says that the shell in the pane was refused its last
size. The editor and the
highlighting share no variable with these or with each other, so a behaviour
moves one part (`part`) while the rest stands still; each property speaks of one part only, and
a step of another cannot change what it says. That keeps the states a sum and
not a product.

### Modelled and not

Data are abstracted to what the properties tell apart: texts are (document,
revision) pairs but where their characters matter (Coordinates and above),
workspace epochs (which never change in a run of the program) are left out,
paths are names. External edits of workspace files are not modelled. In
SshAuthority and TerminalPane the quit of the program is not modelled.

Not modelled at all: *terminal emulation*, an interpreter of escape sequences
that one thread runs over one grid, whose hundreds of cases are data to
everything else; the *project tree*, a walk of the file system; *helper
installation and verification* and the *SSH bootstrap*, which run external
programs one after the other and keep nothing between calls (SshAuthority has
their success and failure); *configuration and first run*, read before anything
runs; and most of *rendering*, which changes no state. `PROJECT.json` lists
every component with its status.

## Runs

The runs of Journal, WorkspaceFiles and SshAuthority check for deadlock; nothing
may stop but where `Stopped` says so. A connection, a request and a session end,
and a user may do nothing more, so the others may stop.

| Run | Bounds | Shows |
|---|---|---|
| `journal_one_doc` | 1 document, 2 revisions, queue of 2, a failing write, a restart | safety of checkpoints, saves, crashes and clean exits; a shutdown ends, what a full queue refused is handed over, the newest text becomes durable |
| `journal_ack_lost` (violation) | 2 documents, queue of 1 | finding 1 |
| `files_one_doc` | 1 document, 2 files, 1 result slot | clean means stored, SavedDocuments, what waits is started |
| `files_two_docs` | 2 documents, 1 file | every save is answered when the channel is full |
| `ssh_safety` | 1 SSH authority, 2 activations, 2 disconnections, 2 helpers | revocation, epochs, what is shown |
| `ssh_settles` | same with 1 helper | liveness of the in-flight map and the disconnections |
| `remote_shell` | 1 shell, queues of 1 and 2, 2 reads, a reply budget of one message | what is shown of a shell, no shell goes on for nobody, nothing left of ended handles, the helper follows its connection |
| `remote_requests` | 1 exec and 1 file request, 1 pending entry, 1 operation slot, budget for one reply | the pending map, dispatch stuck on the budget only behind an operation that never ends |
| `remote_shell_orphaned` (violation) | as `remote_shell` | finding 2 |
| `local_authority` | 1 request, input queue of 1, output budget and limit of 1, 2 units written per pipe | a local session and an exec leave nothing behind and say what happened; ShellSession |
| `workbench` | 2 authorities, 3 launches; 2 screens, drags of 14; texts of up to 3 characters of 4 kinds, 3 windows; 2 documents of 3 texts and 2 edits | trust and life of the shells in the pane and their size, the panes, conversions, clicks and edits, highlights and their trees |
| `editor_backspace` (violation) | as `workbench` | finding 3 |

*Why the bounds are enough.* A queue of one or two makes sends meet a full queue
all the time; 16 only needs longer runs. Two revisions have an older and a newer
text, which is all an order property compares. One failing write, one restart:
the faults interact through the state they leave, which the next command meets.
Two documents share the queue, the worker and the files. Two activations are an
old and a new one; two helpers are a lost and a new one; the authorities share
nothing but the result channel, and the theorems are for any number. In
RemoteSession the limits are as small as leaves each of them binding: an
operation that runs holds the whole reply budget, as four execs or two file
operations do in the program, and a stream's queue of one overflows with the
first message its reader is late for. Shells and requests share only the queues
and the budget, so they have runs of their own. In LocalAuthority two units
written meet a limit of one and of none at all, in one read or in two. Three
launches are one under way, one that overtook it and one that comes after both.
The screens are one below the minimum and one that squeezes the panes, after the
default of 120 by 36; a drag of 14 makes a pane both larger than it fits and smaller than
allowed. Three characters make a line with a line before and after it, and a
cluster of two with a neighbour; the kinds are those whose bytes, cells or units
differ (a plain letter, one of each, tells nothing apart that they do not). The
windows have three, five and six rows: one, three and four inside the border, on
each side of where the renderer drops the tabs and the breadcrumb.
The three `Sources` share a prefix and a suffix
that meet, a character of several bytes and a line break. `Restored` has a place in the
text, one that may be inside a character, and one behind its end. `Pointed` are
places on the tabs, the gutter, the text and below it. `Listed` (the files the
tree shows) is empty where opening files is not the question. The bounds are
constants: `MaxRevision`, `MaxFaults`, `MaxRestarts`, `QueueCap`, `ResultCap`,
`MaxTasks`, `MaxTransports`, `MaxLaunches`, `MaxText`, `MaxWritten`, `Screens`,
`Drags`, `Windows`, `Sources`, `Restored`; in RemoteSession `PipeSize` and
`MaxCommands` are bounds of the model, the others limits of the code made small.

*Fairness.* Weak fairness of the event loop's drains and of the tick (the loop
goes round), of the worker and of every thread's next step (the scheduler runs
them); strong fairness where several wait for one thing and take turns: room in
a channel, the lifecycle lock. The user owes nothing; that an edited document
becomes durable is stated for a user who pauses, as endless saving can keep the
queue full. No transport has to be lost and no network operation has to
succeed; that they end is the code's timeouts (`negotiating` in particular).
In RemoteSession the tasks run and whoever waits for a queue or the budget gets
its turn (Tokio's channels and semaphores are first come, first served); an exec
reaches its time limit while its child runs, and a shell dies when the helper kills
it, or hangs up when the helper is gone. That the killing thread gets to the kill
supposes that the interrupt it types first finds room in the terminal. A shell that
the exiting helper did not kill is finding 2. No file operation has to end, nor the
output of an exec whose child is gone, nor a job that has the terminal of a dead
shell; `DispatchMoves` and `HelperFollowsLink` except these by name (`BudgetLeft`,
`Blocked`), and the helper does not exit while a file operation runs, which its
runtime waits for. No shell has to exit by itself, no caller has to cancel, and the
connection need not break.
In LocalAuthority the three threads run, sleeps end and a read or a write of a
terminal that is hung up returns; nobody has to type, to print, to exit or to close
a terminal, and a shell need not heed SIGTERM. Of an exec the time limit expires
and the two tasks read; no process has to end by itself. In Workbench the loop turns, a
launch is answered (a remote one within ten seconds) and a parse ends; that the
pane leaves Starting is stated for an authority that is connected from some time
on, for no answer is owed by one that is not. Liveness is model-checked only;
TLAPS has no liveness under fairness.

## Findings

1. `ReportedAckRecovers`: App keeps an older retained payload although the queue
   accepts a newer one meanwhile (`app.rs:1070`), the tick re-sends it
   (`app.rs:1112`), and the worker inserts without comparing revisions
   (`persistence/journal.rs:267`): the journal then has an older text than the
   acknowledged one until the next edit. The phase 1 plan (line 179) says a
   reported acknowledgement recovers that exact revision.
2. `ShellsDieWithHelper`: at the end of `run` the helper cancels and joins the
   sessions in its map (`hermito-remote/src/main.rs:300`). A session that a Cancel
   has already taken out is being killed by a thread that first waits up to half a
   second (`main.rs:136`) and that nobody joins; the helper may exit before. That
   is what a revocation does: it cancels the session and disconnects. The phase 2
   plan (line 114) says the helper "shuts down children on EOF/authenticated
   shutdown". What is left is the hang-up of the terminal.
3. `BackspaceDeletesOne`: `move_left` subtracts one from the number of a cluster,
   and line ends have no number (`coordinate.rs:288`), so from the start of a
   line it goes before the last character of the line above. `coordinate.rs:390`
   says "Move exactly one grapheme cluster left". Backspace at the start of a
   line (`app.rs:951`) therefore deletes that character with the line break.

Met while modelling, visible in the models where those have it, and not given a run:

- Journal: a saved document can be journalled again by a stale retry
  (`app.rs:867`); when a write fails, the comment "do not ack; App will retain"
  (`persistence/journal.rs:277`) is not what App does, which retained nothing
  because the queue had accepted the payload, so only the worker's map has it until
  the next command; a failed compaction is not retried by itself
  (`persistence/journal.rs:287`). So no property promises durability after a failed
  write: `NewestBecomesDurable` and `CleanExitIsExact` except faults.
- Files: `SaveCompleted` gives a buffer its new path without looking for another
  buffer of that file (`app.rs:863`), while `app.rs:776` wants existing buffers
  focused "rather than dup".
- SSH: an activation aborted while it negotiates leaves its helper running
  (`event_loop.rs:849`); revocation from the palette changes the trust but does
  not disconnect (`app.rs:386`); the result of a superseded activation removes
  the new one's in-flight entry (`event_loop.rs:715`); a loss before
  `subscribe_loss` goes unseen (`authority/ssh.rs:119`) and leaves a dead helper in
  the slot, which `EpochsAgree` passes over, being about live ones; the Cancel of an
  exec can
  overtake the exec itself and is then ignored (`authority/ssh.rs:444`).
- Local sessions: `cancel` kills only if it finds the state running
  (`pty/session.rs:330`); when the shell let go of its terminal and the reader
  was first to store Exited, nobody kills the shell and the reader waits for it
  holding the child's mutex. `NothingLeft` names that case (`LeftToReader`). The
  reader leaves its read (`pty/session.rs:433`) when the last holder closes the
  terminal; the signals go to the group of the shell, so a background job may stay
  and hold it (`Held`). Then a shell that is dead is shown as running, and the
  `join_reader` of a closed pane (`app.rs:535`) waits, though the phase 2 plan (line
  122) says that closing a pane "cancels and joins its supervised session".
  `NothingLeft` and `ExitIsShown` except that case.
- Supervisor: the output tasks are awaited without a limit
  (`process/supervisor.rs:239`), so a descendant that left the group and keeps
  the pipe open keeps the call; `ExecReturns` names that case.
- Helper: so does `execute` (`hermito-remote/src/main.rs:1015`), after its token and
  its time limit, which end with the wait for the child. Such a process keeps the
  operation, its slot and its reply budget, though the phase 2 plan (line 32) wants
  for every remote exec "a wall-time watchdog". `DispatchMoves` names that case.
- Resizes: `TerminalResize` drops the error of `session.resize` (`app.rs:544`), which
  a full outbound queue causes, and the shell keeps its old size until the next
  resize; the phase 2 plan (line 122) says "pane resize updates the PTY".
  `ShellFitsPane` names that case (`missed`).
- Clicks: in an editor pane of three rows `render` gives the one row inside the border
  to the code (`ui/editor.rs:49`) and `editor_mouse_to_byte` takes it for the tabs
  (`coordinate.rs:366`), so every click on the code goes to the start of its line;
  `coordinate.rs:342` says "Must agree exactly with editor renderer layout".
  `ClickHitsWhatIsShown` names that case.
- Local files: a write that fails between creating and renaming the new file
  leaves it behind (`authority/local.rs:193`). The steps of the write are modelled
  for what they leave, but no property of this run is about them.
- Layout: `OpenTerminal` shows the bottom body without computing the layout, so
  the body has no rows until the terminal is resized (`app.rs:456`); a pane that
  a small terminal shrank does not grow back (`layout.rs:182`); the branches that
  close a pane for want of room are never taken (`layout.rs:197`,
  `RecomputeFits` in WorkbenchProofs), as shrinking has always made room before.
- Editor: a restored cursor is not checked against the text of the file
  (`app.rs:1419`), so `PlacesStayOnText` is about cursors that were on the text;
  a click into the editor leaves `terminal_capture` set (`app.rs:1022`).

## Proofs

`tlapm` checks, for every value of the constants (both
abstract specifications are shown to be implemented):

- `JournalProofs`: `TypeCorrect`, `JournalInvariant`, `AckedIsRecoverable`,
  `CheckpointsStayInOrder`, `JournalOnlyAdvances`, `PipelineInvariant`,
  `NewestIsNeverLost`, `CleanExitLosesNothing`. `AckedRecoverable` alone is
  not inductive: that the journal file is recent enough depends on what is still
  in the queue and in the worker's map, and on the write in progress. `JournalInv`
  adds that nothing is ahead of the buffer, that a compaction covers only saved
  text, and, while no stale checkpoint went in (`~staleRetry`), that queued
  checkpoints ascend and that what was acknowledged stays safe under the next
  write. `NewestInPipeline` needs on top of it (`PipelineInv`) that a dirty
  document is ahead of its file, so that no compaction takes its newest
  checkpoint, and that a retained newest checkpoint is above every
  acknowledgement on its way, so that none releases it. `CleanExitIsExact` needs
  that the flush is the last command of its process (`FlushInv`) and that the
  compaction of a saved document is retained or queued behind its checkpoints
  until nothing of it is left (`ForgettingInv`).
- `WorkspaceFilesProofs`: `FilesTypeCorrect`, `SavingInvariant`,
  `CleanStaysStored`, `SavesKeepThePromise` (the refinement: initial states map
  to initial states, every step to a step or a stutter). `SavingInv` says that the
  save threads are exactly the ones `SaveCoalesceState` has in flight, at most one
  per document, and that no save is older than what is stored. `CleanIsStored`
  needs besides (`CleanInv`) that the saves of a clean document have its present
  text, that a document nobody opened is in no save, and that what a save has
  written is on the disk unless another document writes the same file.
- `SshAuthorityProofs`: `SshTypeCorrect`, `AuthorityInvariant`,
  `RevokedAuthorityStaysDown`, `EpochsAlwaysAgree`, `ConnectingIsAlwaysReal`.
  `AuthorityInv` has one holder of the lifecycle lock per authority, whose helper
  is alone (the slot is empty) and has the authority's epoch; a revoked authority
  has a disconnection coming as long as anything could still connect it; a watcher
  of a helper put aside has nothing new to tell. `ConnectingIsReal` is
  inductive beside the types: an authority is at work (`AtWork`) while it has an
  activation or a result of one, and whatever takes the last of them away shows
  something else.
- `RemoteSessionProofs`: `SessionTypeCorrect`, `RequestInvariant`,
  `PendingIsAlwaysAwaited`, `SessionInvariant`, `StartedAlwaysComesFirst`,
  `RunningIsAlwaysBacked`, `CutInvariant`, `EndedIsAlwaysCut`,
  `HandlesAreAlwaysTrue`. `PendingIsAwaited` lacks one fact to be inductive: an
  answer is in its channel only after its entry left the map (`RequestInv`). The
  next two need the whole way from the client to the helper and back
  (`SessionInv`): before its Spawn is sent nobody has heard of a stream (`Fresh`);
  while spawn waits, the stream's channel is open and begins with a first message
  (`Opened`); until something is delivered, what is said first of it, in the
  pipe, in the helper's queue or in what the helper is about to say, opens it
  (`OnItsWay`); one that was said to have started is in the helper's map, in a
  drain, or its end is on its way (`Backed`). Where the transport has broken
  (`LinkInv`) what is still in the pipe is a prefix of what was, and says less.
  `HandlesAreTrue` is `RunningIsBacked` and `EndedIsCut`, which is the safety behind
  `EndedHandleLeavesNothing`: the two queues to
  the helper are one line (`OneLine`), in which whoever gives a stream up puts a
  Cancel behind its Spawn, and `CutInv` says what the ends of the line may rely
  on: a shell outside the map is being killed (`KeptOrKilled`), a stream still to
  be spawned is untouched (`Unspawned`), an end is told only once it has been seen
  to (`Answered`).
- `TextProofs` has no theorem of its own but what texts of any length have in
  common: what a sum over a text adds up to, that the places of its characters
  ascend, which line a place is in (`LineOfPlace`, `InLine`, `LineInside`), that
  `SnapToGraphemeStart` leads to a cluster of its line or to its end
  (`SnapOfPlace`), that an edit keeps the places before and after it
  (`EditKeepsPlaces`), and that the edit of `InputEdit` leads from one text to the
  other with the right points (`EditLeads`). The module cites no theorem with an
  operator for a parameter: an induction is `Everywhere`, a set of numbers with 0
  in it and with every number the next, which follows from the order of the numbers
  being well-founded; a recursive function is what it describes by
  `RecursionExists`.
- `LocalAuthorityProofs`: `ReturnsLeaveNoGroup`, `ResultsAreWhole`,
  `SessionsAreWatched`, `SessionsKeepThePromise` (the refinement of
  ShellSession). One invariant for each half. `ExecInv` follows the call: the
  leader is reaped before its descendants are swept, and after the second signal
  nothing of the group runs (`CallBooks`); what a collector kept is a function of
  what it drained, and one that is done has drained all, with nobody left to
  write more (`PipeBooks`). `PtyInv` has which threads and which shell there are
  while the session is opened (`OpeningBooks`), that a thread waits for the child
  exactly when it holds the mutex (`LockIsHeld`), and the property itself.
- `TerminalPaneProofs`: `PaneTypeCorrect`, `PaneStaysTrusted`, `NoSessionStrays`.
  `PaneInv` adds that ids only grow, that a pane that is starting is empty and its
  authority trusted, that the launch it waits for, once under way, was for that
  authority, and that a launch has no running shell before it delivers one: every
  action that changes one of these takes the wish back or gives it a new id.
- `WorkbenchProofs`: `LayoutTypeCorrect`, `PanesAlwaysFit`, `ShellAlwaysFits`,
  `WorkbenchIsSafe`, `EditorTypeCorrect`, `PlacesAlwaysStayOnText`,
  `ConversionsAlwaysAgree`, `ClicksAlwaysHit`, `OneJobAtATime`,
  `HighlightsAreAlwaysOfText`, `TreeIsAlwaysOfSource`, all of the composition.
  Panes: the visible side panes leave the editor its 40 columns and the body
  leaves the panes their rows; `recompute` brings that about from any sizes
  (`RecomputeFits`), and the rectangles follow from it (`FitsApart`). Shells:
  `SizeBooks` adds that a shell that is wanted or shown is so in an open body, so
  `OpenTerminal` never opens the body under one, and a resize gives the shell its
  new size or is recorded as missed. Texts: `EditorTypeOK` is inductive, and the conversions hold of every
  text there is. A snapped byte is a stop, a cluster or the end, of one line; its
  column leads to the first stop drawn there, which is it or one in front of it
  without width, and so does every column under a cluster, which is why the mouse
  finds what the renderer drew; in a pane of three rows a click is taken for one above
  the code and leads to the start of the only line shown. Highlighting (`SyntaxInv`): one parse
  or one result is in hand at a time (`OneInHand`), so the channel of four never
  refuses a result; it is of a revision App had, and, if that is still the
  revision, of the text the document has (`Faithful`), and so are the highlights.

Assumptions: `QueueCapAssumption`, `BoundsAssumption`, `SentinelAssumption`,
`ListedAssumption`, `ResultCapAssumption`, `MaxRevisionAssumption`,
`HostAssumption`, `SshAssumption`, `TransportAssumption`, `SetsAssumption`,
`QueuesAssumption`, `HelperAssumption`, `PtyLimits`, `SupervisorLimits`,
`PaneAssumption`, `LayoutAssumption`, `EditorAssumption`, `SyntaxAssumption`; they
say that bounds are numbers and that sentinels are not data, that windows are
rectangles of numbers (`EditorAssumption`) and that sources are texts
(`SyntaxAssumption`). No module uses a
RECURSIVE operator.

Every safety and every action property a passing run checks is proved. Only
model-checked: the liveness properties, for TLAPS has neither fairness nor
ENABLED. For texts, the runs show small instances of what the theorems say of all: texts of up
to three characters, as many as a cluster and its neighbours need.
