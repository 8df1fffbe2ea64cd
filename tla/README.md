# Verification of desktop-remote

TLA+ models of the parts of desktop-remote that run concurrently, the TLC
configurations that check them on small instances, and TLAPS proofs of the
properties that should hold whatever the limits, delays and numbers of calls
are.  Paths below are relative to the root of the repository.

Contents: [the system](#1-the-system), [the modules](#2-the-modules-and-the-code),
[the runs](#3-the-runs), [fairness](#4-fairness), [the proofs](#5-what-is-proved),
[what the runs found](#6-where-the-code-and-its-documents-disagree),
[limits](#7-what-is-not-modelled), [the plan](#8-plan).

## 1. The system

desktop-remote lets an agent in the cloud use tools on a Mac.  A background
**daemon**, kept alive by launchd, owns everything that lives longer than a
request.  Short-lived **MCP servers** (one per client session) and terminal
user interfaces (**TUIs**) are its clients over one Unix socket.

```
 agent ── MCP ──▶ mcp/handler ── client/operation-ipc-client ──┐ operation.request
                                                                ▼
 terminal ──▶ tui ◀── client/session-source ◀── Unix socket ── daemon/ipc-server
                        (lease, snapshot, events)               │
                                        daemon/daemon.execute ──┤── session/runtime-store
                                                                │        └─▶ daemon/history-store (file)
                       daemon/self-healing (timeout, watchdog)
                                                                │
                       core/executor ─▶ core/operation-scheduler ─▶ tools, processes, searches
 launchd ──▶ daemon/supervisor ─▶ runtime (restart policy)
```

Every process is one JavaScript event loop: a synchronous stretch of code runs
to its end, and everything can happen at an `await`.  The concurrency that
matters is therefore between callbacks of one process (timers, promise
reactions, socket events, task completions) and between processes.

### Components

| component | state | operations | what is hard | what makes it correct |
|---|---|---|---|---|
| operation scheduler `core/operation-scheduler.ts` | slots taken and FIFO queue per class, one global count of waiting calls, listener and timer per waiting call | `run`, the abort listener, the deadline timer, the finally callback, `drain` | late timers, aborts in the middle of a queue, a drain that discards and starts, counters kept by hand | limits hold, no slot is idle while a call waits, FIFO per class, each call ends once, no listener is left behind |
| dispatch and self-healing `daemon/ipc-server.ts` (operations), `daemon/daemon.ts`, `daemon/self-healing.ts`, `core/executor.ts` | pending requests, tracker of running operations, watchdog timer, one activity row per call | request, answer, deadline, lost socket, execution timeout, watchdog tick | five parties race to end one request | the row tells the truth, every request ends, no task starts for a client that is gone |
| daemon supervisor `daemon/supervisor.ts`, `daemon/restart-policy.ts` | desired state, lifecycle generation, the runtime, failure count | `start`, `stop`, runtime events, `restartAfter` | sleepers nobody cancels wake in a later lifecycle | reported state is true, exactly one retry is pending, backoff is honoured, it never gives up |
| visual session `daemon/ipc-server.ts` (visual), `client/session-source.ts`, `client/ipc-client.ts` | the one lease, subscriptions, connections; the state and the copy of the session of each TUI | hello, attach, snapshot, events, ping, detach, expiry, reconnect, stop | stale lease, events around a snapshot, stop in the middle of an attempt | one renderer, a mirror that agrees with the daemon, a TUI that gets in |
| session store `session/runtime-store.ts` | the newest 50 calls in order | `consume` | an event of a call that was pushed out before | bounded, ordered |
| history store `daemon/history-store.ts` | write chain, history file, temporary file | `append`, compaction, `loadInto` | crash between two steps, torn line, stale snapshot of a queued append | file and queue give back the session; a crash never takes a row back |
| MCP handler `mcp/handler.ts` | slots taken, one queue, the requester served last | the handler, `acquireSlot`, `releaseSlot`, the queue timer | timer races release; alternation between requesters | slots are counted right, nobody is passed over again and again |
| operation IPC client `client/operation-ipc-client.ts` | whether the contract is validated; the one pending promise and the one reference to a validation socket | `execute`, the callbacks of the validation socket and timer, `cleanupValidation` | concurrent first calls, each with a socket and a timer of its own, share what settles them | no operation before validation, every call ends, no slot is lost |
| process manager `process/manager.ts` | the table of sessions by PID, the ids, one termination promise per session, eviction timers, bounded output | start, read, interact, terminate, exit, timeout, evict | PIDs are used again while the old session is retained; exit races termination and eviction; input without a time limit | the latest process of a PID is the one listed, limits hold, a call is answered about the process it asked for, whoever is asked to end ends |
| search manager `search/manager.ts` | a job per search: status, results, lines around the next match | start, the events of the walk and of the line reader, page, stop, expire | the reader's close event comes inside other events; stop, expiry, time limit and paging come in between | results are in order and all there unless cut, pages make them up, nothing is added once they are final |
| file tools `filesystem/edit.ts`, `files.ts`, `directories.ts` | the file system, temporary files | edit_block, write_file, append, move; reading text, URLs and directories by pages | several heavy calls at once on one path; a source that changes between two pages | what is at a path is whole and meant; pages neither repeat nor omit what stayed |
| config store `config/store.ts` | the loaded configuration, a chain of writes | load, set, record a call, read | the first load runs while others go on; one failed write poisons the chain | what is answered is what the next start finds; a setting is replaced only by a later one |
| service controller `platform/service-controller.ts`, `desired-state.ts` | desired state, the service manager's state | install, start, stop, restart, update, rollback, ensureRunning | commands are processes that share all of it | what was stopped stays away; an update ends with a build that has passed the gate, or says otherwise |
| installation `platform/install.ts` | current, previous and staged files of a build | promote, roll back, undo | failure or crash between two renames; two layouts | nothing is lost, a failure changes nothing, success is one build |
| tunnel recovery `doctor/repair.ts`, `recovery-policy.ts`, `platform/tunnel-health.ts` | the restart history in a file | probe, decide, restart, record | what is read, decided and written lies apart in time | the budget and the cooldown bound the restarts |
| daemon log `logging/rotating-log.ts` | a write chain per process, the rotated files | write, rotate | failure in the middle of a rotation, several processes | the newest lines are kept in order, files are bounded |
| IPC framing `ipc/framing.ts`, `protocol.ts` | the remainder of the decoder | push a chunk, parse, handle | chunks cut anywhere | what is handled does not depend on the cuts |
| TUI view `session/store.ts`, `tui/interaction.ts`, `tui/app.tsx` | filter, search, selection, mode, follow state | keys, clicks, events of the session | rows that come, end and are pushed out under the selection | the selection moves only when it should |
| other | session bounds, response budget, incident and macOS adapters, upstream parsing, the command line | | | see `PROJECT.json` for why each is left out |

Interactions: the handler calls the daemon with `operation.request` and its own
deadline; `ipc-server` aborts a signal when the deadline passes or the socket
closes; `daemon.execute` writes "running" and then "completed" or "failed" rows
to the session store around the call; each row is appended to the history file
and broadcast to the TUI that holds the lease; the supervisor restarts the
runtime and the daemon's state follows its events.

`PROJECT.json` lists under "hazards" what can go wrong at which line of the
code and which property would notice.

## 2. The modules and the code

| module | models | how |
|---|---|---|
| `OperationScheduler` | `core/operation-scheduler.ts` | one action per synchronous stretch. `run()` is split into its four outcomes (`RejectEarly`, `StartImmediately`, `RejectBusy`, `Enqueue`); `Abort` and `DeadlineTimer` are the two callers of `cancel`; `Settle` and `Release` are the end of the task and the microtask of `finally`; `drain` is one action per turn of its loop because it reads the clock in each. While `draining` is set only the clock moves. |
| `BoundedAdmission` | what the scheduler promises | three sets (waiting, holding, over) and the actions `Enter`, `Wait`, `Serve`, `GiveUp`, `Leave`, `TurnAway`. `OperationScheduler` refines it; `OperationDispatch` is built on it. |
| `OperationDispatch` | the way of a request: `handleOperation`, `daemon.execute`, `SelfHealingExecutor.execute`, `DesktopOperationExecutor.execute` | one action per macrotask together with the promise reactions it sets off, which run before any timer or socket event. The scheduler is `BoundedAdmission`, justified by the refinement. |
| `DaemonSupervisor` | `daemon/supervisor.ts`, `daemon/restart-policy.ts` | clock readings are kept as durations; each pending `restartAfter` is a record in `sleepers` with its generation and the time it has left. |
| `RuntimeSession` | `session/runtime-store.ts` | an operator, `Consume(session, row)`, shared by `VisualSession`, `SessionHistory` and `ActivityView`. |
| `VisualSession` | the visual half of `ipc-server.ts`, `session-source.ts`, `ipc-client.ts` | a connection is two FIFO channels with an open flag at each end; `loop` is the await at which `connectLoop` stands; `Hear` is the server's handler of one message. |
| `SessionHistory` | `daemon/history-store.ts` and `daemon.consume` | `chain` is `writeChain`; a compaction is two actions (temporary file, rename); appends that are cut by a crash or a full disk leave a line that is cut or that lacks its newline. |
| `McpAdmission` | `mcp/handler.ts` | one action per outcome of `acquireSlot`, the queue timer, and `releaseSlot` with the turn of `startNextFromQueue` it makes (`ReturnSlot` if nobody waits, `HandOver` otherwise). `patience` is a history variable: how often a waiting call may still be passed. |
| `McpRequests` | `McpAdmission` together with `client/operation-ipc-client.ts` | the fields of the client are one record. One action per callback of a validation socket or timer, together with the promise reactions it sets off: if a call's execution settles, its slot goes to the next call, which begins. `latest` is whose socket `validationSocket` is, `pending` whose promise `pendingValidation` settles. |
| `ManagedProcesses` | `process/manager.ts` (ProcessManager) | sessions are numbered in the order they start; a PID is any that no living process has. `table` is the map of sessions by PID, `ids` the keys of the map of ids. A call that waits is a stage with the session it was asked about (`key`) and the one it waits for (`session`). `Evict` is part of every action that calls it. |
| `BoundedBuffer` | `process/manager.ts` (BoundedUtf8Buffer) | a text is its bytes; the first byte of a character is its length, the others are equal, which is all that the code looks at. Compared with everything ever written. |
| `SearchJob` | `search/manager.ts` | one session; a tree is the number of matches per line and file. One action per event of the reader; what `rl.close()` sets off runs inside the event, as it does in the code. |
| `FileWrites` | `filesystem/edit.ts`, `files.ts`, `directories.ts` (writes) | paths, inodes and contents; a content is the sequence of operations that made it. One action per file-system call that others can see. |
| `PagedReads` | `filesystem/files.ts`, `directories.ts` (reads) | a client that asks for page after page of a text, a URL or a directory, from which items go and to which items come between two pages. |
| `FrameStream` | `ipc/framing.ts`, the readers in `ipc-server.ts` and `ipc-client.ts` | bytes that carry the number of their frame; a chunk is any prefix of what is on the wire. |
| `ConfigWrites` | `config/store.ts`, `platform/atomic-file.ts` | `chain` is `pendingWrite`, each element with its snapshot; `poisoned` is its rejection. The load is two actions, with the flag set by the first. |
| `Installation` | `platform/install.ts` | an operation goes through a list of files, with the same three renames for each between four places (current, previous, next, aside); a failure puts the file at hand back and goes back through those that are done. |
| `ServiceControl` | `platform/service-controller.ts`, `desired-state.ts`, `launchd.ts`, `systemd.ts` | a command is the sequence of its steps; others may run between any two. Promotion and restoration are one step each here, `Installation` takes them apart. |
| `TunnelRecovery` | `doctor/repair.ts`, `recovery-policy.ts`, `platform/tunnel-health.ts`, `tunnel-install.ts` | a repair is a process with what it has read, seen and decided; the tunnel changes by itself. |
| `RotatingLog` | `logging/rotating-log.ts` | the files as sequences of lines with their sizes, one rename per action, several writers; `log` is the history of all lines appended. |
| `ActivityView` | `session/store.ts`, `tui/interaction.ts`, `tui/app.tsx` | built on `RuntimeSession`; one action per event, key or click with the refresh it causes. |
| `Subsequences` | `session/store.ts` (filterRows), and every other `filter` that is proved about | the part of a sequence at some of its places, in its order. |
| `Service`, `Tools` | | what `ServiceControl`, `Installation`, `DaemonSupervisor`, `TunnelRecovery`, `ConfigWrites`, `SessionHistory`, `RotatingLog` and `ActivityView`, or the six modules of the tools, are together. |
| `QueueLemmas` | | what is proved of sequences, their front, back and middle and what joins them, and of functions over their prefixes. |
| `OperationSchedulerProofs`, `OperationDispatchProofs`, `McpRequestsProofs`, `VisualSessionProofs`, `ToolsProofs`, `ServiceProofs`, `StorageProofs` | | the theorems of section 5; `ServiceProofs` those about the supervisor, the commands, the repairs and the view, `StorageProofs` those about what is on the disk: configuration, history and log. |

The modules named `MC...` give the constants small values.  `Tools` and `Service`
compose: the first the six modules of the tools, the second the eight of what keeps
the daemon and its data in order.  The components of each share no state in the
code, so a behaviour picks one of them (`focus`) and leaves the others where they
begin: the run checks the sum of their state spaces and not the product, which
would hold nothing more.

The definitions named "Mutant" in comments are deliberate mistakes (a dropped
guard, a missing reset, a swapped order).  Put in the place of the definition
they follow, each makes TLC report the property it is listed with in
`PROJECT.json`; no specification uses them.

Abstractions worth knowing when reading a result:

* **Calls, classes, rows** are model values.  The texts of a row are left out;
  its status is kept.  In `VisualSession` a call in `OverLimit` is one whose
  finished row does not fit in a frame.
* **Time.**  The scheduler and the dispatch have a clock of `MaxTime` ticks; a
  timer may fire at its deadline or at any later moment.  In `VisualSession`
  one tick is a heartbeat of 30 s and a request times out after 5 s, so a TUI
  that is in the middle of a request when the clock ticks has been frozen and
  counts as a fault.
* **Snapshot.**  `snapshot.begin`, its rows and `snapshot.end` are written by
  one synchronous stretch of the server and travel as one message.
* **Faults** (request timeouts, freezes, daemon restarts, crashes, failed
  writes) are bounded by `MaxFaults`.
* **No clock** in `McpRequests`: a timer that is set may fire at any moment, so
  every order of timers is included, also those that differ by hours.  An
  operation that was sent ends by one action; its own timer justifies that it
  does, and `OperationDispatch` says what happens to it in the daemon.
* **Sizes** of the history file are counted in rows; the checkpoint is assumed
  to fit below the ceiling, and the loop that shrinks one that does not is left
  out.
* **The pair hang-up and crash.**  A socket closed by one end may be noticed by
  the other after it has read everything or before; both happen.
* **Processes.**  A process that is asked to end may do so or not; a signal may
  be refused by the system.  The delay of `readOutput` is a choice: a read may
  return at any moment after it began.
* **Files.**  A file-system call is atomic, and renames replace their target.
  What a crash leaves of unsynced data is not modelled.
* **The service manager** is modelled by what `launchctl` and `systemctl` do
  with the commands of `launchd.ts` and `systemd.ts`; whether a build becomes
  healthy is a property of the build (`good`).

## 3. The runs

| run | instance | asks |
|---|---|---|
| `scheduler` | four calls of one class, one slot, two places, a second class that is idle and may not queue, deadline 1 or none, clock to 1 | are queues, counters, limits, listeners and FIFO order right under every order of arrival, abort, late timer, task end and drain; does the scheduler implement `BoundedAdmission`; does a deadline bound the wait even if tasks hang; is everybody served while tasks end |
| `dispatch` | three requests, one slot, one place | do client, row, tracker, watchdog and scheduler agree in every order of answer, deadline, lost socket, timeout and watchdog; does every request end |
| `visual_session` | two TUIs, three connections, one call, one fault | is there one lease and one renderer, does the mirror agree, does stop hold |
| `visual_liveness` | two TUIs, two connections, one fault, one call whose finished row exceeds a frame | does a TUI that wants in get in, unless another has the lease or such a row is retained |
| `mcp_requests` | five calls (three of one requester, one each of two others), two slots, two places, no validation yet | are slots given back once each, is anybody passed too often, is anything sent before the contract is confirmed, whatever validation socket or timer fails, closes or is late |
| `tools` | processes: two sessions, two PIDs, one at a time, one retained, time to live 1, clock to 2, one call; output: four bytes kept of ten; search: two files of three and two lines, context 0 or 1, limits 0, 2 and 9; files: two writes, an edit, an append, a move, two milliseconds; pages: four lines of 1 to 3 bytes, pages of 1 or 2, one removal, one insertion; frames: three of 0 to 4 bytes, limit 3 | do table, ids and limits agree with the processes, does everybody asked to end end and every call return; is the retained output the end of what was written, in whole characters; is a search complete, in order and final when it says so; is what is at a path what one operation meant; do pages make up the source; do the cuts of chunks not matter |
| `service` | supervisor: two normal delays, breaker at the third failure, three start/stop pairs; installation: three builds of either layout, two rollbacks, a failure, a crash; commands: two at once, two builds, both service managers, any set of healthy builds; repair: two, budget 2 in a window of 4, cooldown 1, clock to 6, one overlap or kill; config: two settings, one record, one read, one crash; history: three calls in a session of two, compaction at three rows, two faults; log: two writers, three files, five lines; view: three calls in a session of two, one reconnection | is one retry pending, never early, never none; is a failed promotion undone and a successful one of one build; does a stop hold and an update end on a build that passed; does the budget hold; is what memory says on its way to the file and a stored setting kept; do file and queue give the session back; does the log keep the newest lines; does the selection move only when it should |
| `history_torn` | as in `service` | is what was written what is loaded (it is not, see 6) |
| `mcp_first_calls` | two first calls, two slots | does every call end (it does not, see 6) |
| `edit_conflict` | two writes, two edits one of which gives a hash, an append, a move | does an edit with a hash overwrite only what it expects (it does not, see 6) |
| `rollback_mixes` | three builds of either layout, two rollbacks, two faults, a crash | does a rollback restore one build (it does not, see 6) |
| `follow_stops` | three calls in a session of two | is every new call selected while the view follows (it is not, see 6) |

Why these bounds are enough for the questions asked:

* Scheduler: with four calls for one slot and two places, one runs, two wait
  and one is refused, so removal from the head and the end of a queue, and a
  drain that discards before it starts, all happen.  Liveness forbids symmetry,
  and a second busy class takes the run beyond five minutes; such an instance
  (five calls, a global limit that binds before the class limits) was checked
  once, without an error, and the proofs remove the bounds altogether.
* Dispatch: one call runs, one waits, one is refused.  The races are between
  the parties of one request and, for the watchdog and the slot, between two.
* Supervisor: `MaxGeneration` 6 gives three lifecycles; delays differ from each
  other and from the healthy reset.  Safety is proved for every value.
* Visual session: two TUIs contend for the lease, the third connection is the
  one that is dialled while the old one is still open at the server.  In
  `visual_session` the session is never full (section 6 says what happens when
  it is).
* History: two rows and three calls push a row out; two faults allow a crash
  after a failed write and a crash after a crash.
* Requests: two of one requester's calls wait while two other requesters send,
  which is the least that can pass anybody; while the first two validate, three
  more arrive, so a call that waits inherits a slot with the validation of
  another still open.
* Processes: with one place a second process starts only after the first has
  ended, with its PID or another, while the first is retained, expired or
  evicted and a call still waits for it.  Safety is proved for every value.
* Output: characters of one to four bytes, two at a time, around a limit of
  four, so that the limit falls inside a character, inside a chunk and between
  two; one text is longer than the limit.
* Search: a line with two matches and one with none, a match on the last line,
  a limit that is met exactly, passed and never reached.
* Files: every pair of operations on the path, within one millisecond and
  apart.
* Installation: three builds are needed for files whose `.previous` are of
  different builds, two rollbacks for the way there and back.
* Repair: the window is longer than two cooldowns and shorter than the clock,
  so restarts are refused by each of the two and allowed again.
* Log: five lines fill three files of two bytes and push one out, by a rotation
  of one process or of two.

`CHECK_DEADLOCK FALSE` stands in the runs of terminating models: calls are
submitted once and clocks stop at their bound.

## 4. Fairness

Weak fairness is assumed of what the event loop or the operating system runs
by itself: expired timers, promise reactions, the drain loop, the clock, the
handlers of messages and of closed sockets, and, in `VisualSession`, the
restart of the daemon by launchd (`KeepAlive`).  In `McpRequests` it is the
timers and the close event of a destroyed socket; the daemon need not answer.
In `ManagedProcesses` it is the two timers of a termination, the promises that
continue a call, and the end of a process that has been sent SIGKILL, which no
process can ignore; none makes a process end by itself or read its input.  In
`SearchJob` the walk and the line reader go on: the file system answers, if
only with an error.  None is assumed of a task's end, of an abort, of a client
that closes its socket, of a TUI that starts, stops or sends heartbeats, nor of
a runtime that might exit.  So `EveryRequestEnds` and `DeadlineBoundsWaiting`
hold although every task may hang for ever; `NobodyStarves` states "as long as
tasks end" in its own hypothesis.  The other modules of `service` claim nothing
that needs fairness, except `NeverGivesUp`.

## 5. What is proved

TLAPS proves, for every value of the constants that the named assumptions allow,
the theorems below.  The assumptions say no more than the code does:

* `OpsAssumption`, `LimitsAssumption`, `TimeAssumption`, `DispatchTimes` (calls
  have a class, limits are numbers, a deadline is never later than the timeout of
  the execution), `PolicyAssumption` (delays are numbers and the breaker opens at
  a positive number of failures), `AdmissionAssumption`, `NoneIsNoCall`,
  `ProcessAssumption`, `SessionAssumption`, `HistoryLimitAssumption`: sorts and
  positive limits, as the classes' constructors have them.
* `RecoveryAssumption`: the window of the restart budget is longer than the
  cooldown, which is positive (`recovery-policy.ts:39`: 10 minutes, 60 seconds).
* `ControlAssumption`: there is at least one build.  `FileAssumption`: no operation is
  of two kinds.  `ConfigAssumption`: no key is read and set by one operation, and a
  call is kept.  `ViewAssumption`: what is shown are calls, a finite set of them.
* `HistoryAssumption`: the session holds a row; sizes and faults are counted.
* `LogAssumption`: there is at least one file and a line fits into one, which the
  constructor (`rotating-log.ts:36`) and `encodeBoundedRecord` see to.
* `InstallationAssumption`, `FrameAssumption`: the bound on the builds is a number, and so
  are the sizes of frames and their limits.
* `SearchAssumption`: the tree is a sequence of files, a file one of lines with their numbers
  of matches; contexts, limits and page sizes are numbers.  `PagesAssumption`: an item
  has a byte at least (its line's end), page lengths and the byte limit are numbers.
  `BufferAssumption`: limits are numbers, and a text consists of whole characters, as
  the decoder hands them out (`manager.ts:497`).

Those named from `RecoveryAssumption` on are operators of their modules, and `Service` and `Tools`
assume them of the modules they compose, so that TLC evaluates them in the runs
`service` and `tools`.

Theorems about `Service` and `Tools` are about the composition, which is what the
runs check: first that a step of the composition is a step of one component or
leaves it alone (`ServiceImplementsItsParts`, `ToolsImplementTheirParts`), then the
component's own invariant under its own specification.

| theorem | states |
|---|---|
| `TypeCorrect`, `QueuesCorrect`, `CountersCorrect`, `LimitsHold`, `NoIdleSlot`, `NoLeakedListener`, together `BooksBalance` | `Bookkeeping` of `scheduler`, part by part |
| `EndsAreFinal`, `FirstComeFirstServed`, together `NothingIsTakenBack` | its action property `VerdictsAndPlacesStand` |
| `SchedulerImplementsAdmission` | `Spec => Admission!Spec`: the scheduler refines `BoundedAdmission` |
| `EverybodyAlwaysAgrees`, `NothingBehindTheClientsBack` | `EverybodyAgrees` and `VerdictsStand`, the safety of `dispatch` |
| `SlotsCounted`, `NobodyStarves` | the two invariants of `McpAdmission`, for the admission queue alone |
| `RequestsImplementAdmission` | `Spec => AdmissionSpec`: the client only ever moves the queue by its own steps |
| `TypeCorrect`, `ContractFirst`, `SlotsCountedForRequests`, together `RequestsCorrect`; `NobodyStarvesForRequests` (of `McpRequestsProofs`) | the two invariants of `mcp_requests` |
| `LeaseIsAlwaysSound`, `StoppedIsForGood` | `LeaseIsSound` and `StoppedForGood` of `visual_session` |
| `ConnectedShowsTheSession` | `MirrorAgrees`, its third property, as long as nothing is dropped that a TUI waits for |
| `TableCorrect`, `CallsAnswerTheirProcess`, `SessionsAreRetained` | `TableIsSound`, `AnswersItsProcess` and `RetainedAsPromised` of the process manager |
| `StopEndsASearch` | `StoppedIsFinal` of a search |
| `FilesAreWhole` | `TargetIsMeant` of the file tools |
| `ChunksAreJoined` | `ChunksDoNotMatter` of a connection |
| `SearchesAreSound` | `ResultsAreSound` of a search |
| `OutputIsSound` | `BufferIsSound` of a process's output |
| `PagesTellTheTruth` | `PagesAreTrue` of the readers of texts, URLs and directories |
| `SupervisorTypeCorrect`, `StatusIsTruthful`, `NeverZeroNorTwoRetries`, together `StatusAndRetriesCorrect`; `RestartsHonourBackoff` | the safety of the supervisor |
| `StopIsRespected`, `UpdatesPassTheGate` | `StopHolds` and `UpdatesAreGated` of the service controller |
| `RepairsKeepTheBudget` | `RestartsAreBudgeted` of the tunnel recovery |
| `SelectionStaysTheUsers` | `SelectionIsTheUsers` of the view |
| `MemoryWillBeFound`, `SettingsSurvive` | `MemoryIsOnItsWay` and `SettingsArePreserved` of the config store |
| `HistoryIsSound`, `RestartsLoadForward` | `FileIsSound` and `LoadsForward` of the history store |
| `LogIsKept` | `LogKeepsTheNewest` of the daemon log |
| `InstallationsAreSound`, `FailureIsUndone` | `InstallationIsSound` and `FailureChangesNothing` of the installation of builds |
| `ServiceImplementsItsParts`, `ToolsImplementTheirParts` | a composition implements the specification of each component |

**The scheduler's argument.**  None of the invariants is inductive alone.  The
inductive one, `IInv` in `OperationSchedulerProofs`, joins them, with the queue
invariant in the form `Lists(queues[c], WaitingIn(c))`: a queue is an
enumeration without repetition of the waiting calls of its class.  The counters
are right because each action moves one call in or out of one queue, which
changes a set by one element; limits and the absence of idle slots follow from
the counters; that listeners exist exactly for waiting calls is what lets a
late timer find its call in the queue.  `QueueLemmas` states what append,
removal and tail do to an enumeration and to the order of the elements that
stay; there is one lemma per action, and FIFO order and the refinement are
consequences of the same invariant.

**The supervisor's argument.**  `BackoffHonoured` needs to know why a retry
that wakes is late enough: `RetrySleepsLongEnough` says that what a current
sleeper has left and the time since the exit together cover the delay of the
failures counted so far.  With `OneRetryPending` (there is no second, older
retry of the same generation) and `FailuresCounted` it is inductive.

**The request queue's argument.**  That nobody is passed for long is not
inductive: a call may be passed only while its requester was the one served
last, and each time it is, somebody else becomes the last.  `PatienceLasts` says
that the patience left covers the calls of its own requester still in front of
it, and one more while its requester is the last.  Serving a fellow in front
shortens that set by one and sets the last, so the sum does not grow; passing
the call spends one and resets the last.  With the queue as an enumeration of
the waiting calls (`QueueLemmas` again) this is inductive.  The client adds one
fact, `CInv`: a call waits for something exactly while it holds a slot, and for
an answer only once the contract is validated.

**The process table's argument.**  `TableIsSound` relates the table to the living
processes, but a start replaces the entry of its PID whatever it was, and an
eviction timer fires for sessions that are no longer listed.  What makes both
harmless is `TableIsLatest`: an entry is the latest session that was ever given
its PID, and with it that every living process is an entry (`RunningAreListed`).
So a start never hides a living process, and a timer whose session is not the
entry does nothing.  With it, that the ids of unlisted sessions are exactly those whose PID
was taken, that a call which has moved to another session has moved to a later
one of the same PID, and the two limits (an exit evicts as many as are too many,
so the completed are never more than before or than allowed) are inductive
together.

**The dispatch's argument.**  The client may have its answer (deadline, lost
socket, timeout) while its call still waits or runs, so what is left to show is
that nothing more happens to such a call.  A waiting one would be started by the
drain, were it not past its deadline (`LateMeansPast`): it has been answered by
its deadline or by the timeout of its execution, and a deadline is never later
than that timeout (`DeadlinesComeFirst`), so the drain discards it.  A lost socket
takes it out of the queue itself.  A call without a deadline that the timeout has
answered may start late, and the property excludes it.  That the watchdog watches exactly what it
should follows from `TrackedAreKnown`: a tracked request is in flight, or is one
that was declared hung and whose task is still out.

**The session's argument.**  The lease is one variable of the server, while who
believes to have it is known only at the other ends of the connections.
`Handshake` says what may be on the wires in between: `attached` is on its way
only to the holder, a farewell only behind a socket its TUI has closed, and a
source that is past `attach` holds the lease as long as the server has its
connection.  With it, that a closed end holds no messages and that no two
sources share a connection (`Ends`), which is what keeps a connection that is
used again from receiving what was meant for the one before it.

**The config store's argument.**  `SettingsAccumulate` orders everything that
holds a configuration: the file, the snapshots of the chain from first to last,
and the memory.  Each is the one before it but for keys that an operation has
set since, so the rename of the first snapshot replaces no setting by an older
one, and a crash, which leaves only the file, does not either.  `LoadedByOne`
says that whoever loads the store finds nothing queued, unless another operation
went on without waiting for it (the flag is set before the file is read,
`config/store.ts:103`); this is the case both properties exclude.

**The commands' argument.**  A command is where it is in its script
(`FollowsScript`): what it has left is the end of the script of its operation.  One
that has the field to itself knows, at the steps that start a daemon, that the
service is wanted (`KnowsWhatIsWanted`), and, in an update, which build it has put
in place and which it can go back to (`KnowsTheBuild`, `OnTrial`).  Both are
inductive because such a command is the only one at work, and `StopHolds` and
`UpdatesAreGated` are read off its last step.

**The repairs' argument.**  The budget is about all restarts there were, while a
repair decides by a file with at most `MaxRestarts` of them.  `Remembers(h, t)` closes
the gap: the history is the end of the restarts, and those before it are out of
the window.  It holds of the file unless a repair has restarted and not yet written,
and of what that repair is about to write.  `Budgeted` is kept by a restart because
the recent part of the history is then shorter than the budget.

**The view's argument.**  `SelectionIsTheUsers` relates two states, so the invariant
only has to say that the selection is one of the visible calls or there are none
(`Selected`), that a call has one row (`Once`), and that the follow state knows the
total (`FollowState`): a new call is then exactly a total that has grown, as long as
the session has room.

**The history's argument.**  `HistoryFollows` and `Begins` say that the file and the waiting
appends are links of one chain: the first append continues what the file gives back,
each further one its predecessor, the last is the session in memory.  An append moves
the first link from the queue to the file; a compaction replaces all the file by the
snapshot of the first link, which is the same session (`LoadedAppended`,
`LoadedOfOne`).  A torn line ends the claim (section 6).

**The log's argument.**  Between two steps a file may be larger than its limit, since
several writers have found room for their line before any has appended: `Room` says that
the newest file has room for the lines of all who have found it, but for one line
each of the others.  While one process rotates at a time, the name it moves a file to
is free, so no rename loses lines but that of the oldest file, whose lines are the
oldest.

**The installation's argument.**  `EachFile` says of every file how far the operation
has come with it: not begun, between two of its renames, or through (`PromotesAt`,
`RollsBackAt`, `UndoesAt`).  At each point one of the places has what the file held
before, and only the file at hand is out of its place.  A failure turns the files that
are through into those an undo has yet to swap, which are exactly in the state that an
undo expects; so an undo that ends without a failure of its own has put all of them
back.  `OfOneBuild` adds what a success needs: while nothing has failed and the layout
stays, the parts that every build has are of one build in place, among the former ones,
and in what a rollback is putting in place.

**The search's argument.**  Every event of the reader ends in `AddAll`, `Cut` or the end
of a file, none of which makes a job go on that has ended (`Steady`); so a search whose
stop has returned is left alone by all events that are still to come.

**The files' argument.**  Everything is said of states without a collision of two
temporary names.  `OwnsItsInode`: the temporary file of a write is its own until it is
renamed, whole when it is full; `LeftBehind`: what is at a temporary name belongs to the
write that made it; `KeepsWhatItRead`: an edit is based on a content of operations that
succeeded; `PublishedIsMeant`: a content that is, or was, at a path that clients use is
what one operation meant and appends.  No step takes the last from a published inode,
since only appends write to one.

**The connection's argument.**  `Marks` says where each frame ends in all that was ever
written, so what is on the wire is known byte by byte (`OnTheWire`), and how far the
reader has come is a number of bytes and of whole frames, with the remainder in between
(`ReadTo`).  The decoder is followed a byte at a time (`PushStep`): behind every byte it has
failed, in a frame that is bad, or has decoded the frames since the chunk began that are
not blank, all of which were JSON.  A chunk is the sum of its bytes (`Decodes`), and where it was cut
appears nowhere in what results.

**The search's argument.**  The job is a record that one event of its reader changes in
several steps, so the invariant is one of such records (`JobIsRight`), and each helper
of the module is a lemma about them: what `addResult`, `emitReady`, the close event
and the line event make of a job in the middle of a file (`Reading`) or of one between
two files or over (`AtRest`).  `Reading` divides the matches of the lines read so far
among results and pending ones, the former in front (`Ahead`), so that order and
uniqueness survive each move from the one to the other, and says of a pending match
exactly how many lines behind it were seen.  Since later lines are pushed behind, those that are
due are the first ones (`HowManyDue`).  A job that was not cut has every match of
the files behind it (`FindsAll`), except of those that could not be read.  The pages
hold because results only grow (`Extended`).

**The pages' argument.**  A page is a part of the source as it is (`IsPart`), but the
source of the page before may have been another one.  What a change costs is the size
of two sets: the items that were handed out and are ahead of the reader again
(`AheadOf`), and those that are behind it, or gone, and were not (`MissedBy`).  A page
repeats only items that were ahead, which then no longer are, and misses none
(`PageAdds`); an insertion pushes at most one item ahead (`InsertionRepeats`), a removal
pulls at most one behind (`RemovalMisses`).  So repetitions and items ahead together
are no more than the insertions, and the missed ones no more than the removals
(`AreCounted`).  `WalkIsRight` says how far a walk is, and for a URL that the
lines passed are those the bytes complete (`Lines`), from which it follows that a read
that the byte limit cuts has not seen the last line.

**The buffer's argument.**  The chunks lie one behind the other on the end of all that
was written, and where each of them ends a character begins (`Laid`): texts are whole,
so that is so of a new one, and neither a dropped chunk nor a cut one changes it behind
the cut.  `Buffered` adds that no longer end would fit.  A trim keeps that (`TrimIs`):
until the front moves, what fitted before is all that could fit now, and when it
moves, it does so to the first character that lies within the limit.  For a read, every
character that is kept is followed by another one or by the end (`Even`), so the last
lead byte in front of a boundary is that of a character which ends there: `SafeEnd`
cuts none that is whole (`RangeIs`).

**The mirror's argument.**  `MirrorAgrees` speaks of connected TUIs; `Follows` says of
each point of the connection what is to come.  Before the request no snapshot is on
the wire and the server has answered nothing (`NotYet`).  While the request is on its
way the events that are on the wire, or pending, only bring rows that the session
still has or that later events replace (`Requested`); once the snapshot is sent, it
and the events behind it, taken together with those before it, make up the session
(`Answered`).  An event that comes before the snapshot and is replayed on top of it
does no harm, since a row that is there already is replaced in its place, by an older
one at most until the newer event behind it comes (`Absorbed`).  That fails when a
row was pushed out of the session in between: it would come back as the newest.  So
the theorem assumes, step by step, what section 6 shows to be needed
(`NothingDropped`): no row exceeds a frame, a full session takes in no new call while
a TUI waits for the snapshot, and a full pending buffer takes in no event.  The run
`visual_session` satisfies it; `MCVisualSessionEvicted.cfg` shows what happens without.

**The stopped session's argument.**  A stopped TUI is idle (`StoppedIsIdle`), and each
action of the loop begins where a source is not.  That the two belong together needs
the actions of all others to leave it alone (`OnlyMoves`).

**Recursion.**  The theorems about sizes, loaded sessions, order of log lines and
filtered rows are about folds of sequences.  The modules write these as recursive
functions over a prefix, and not with the operators of the community modules, since
the theorems of the library that would describe those take operators as parameters.
`QueueLemmas` proves what is needed of such functions instead, by the least
counterexample (`LeastNumber`, `AlikeAsFarAs`, `FoldIsDefined`, the lemmas about `Keep`).

**Only model-checked.**  Everything under fairness (`NobodyStarves`,
`DeadlineBoundsWaiting`, `EveryRequestEnds`, `NeverGivesUp`,
`OnlySizeKeepsViewersOut`, `TerminationEnds`, `OnlyAFullPipeHolds`,
`SearchesEnd`): TLAPS proves neither liveness from weak fairness nor `ENABLED`.
Every other property of a passing run is a theorem.

## 6. Where the code and its documents disagree

Checked by a run each:

* **A first call can be lost for ever** (`mcp_first_calls`).  Two first calls
  open a validation socket each; the second one to connect replaces
  `pendingValidation`.  The status that arrives on the first socket settles the
  second call's promise and clears the first call's timer
  (`client/operation-ipc-client.ts:64`), so nothing is left that could settle the
  first call.  Its MCP slot is never given back.
* **Rows behind a torn line are not restored** (`history_torn`).  `append` writes
  behind the rest of an interrupted line; `loadInto` stops at the first line
  that does not parse.
* **An edit overwrites what it did not expect** (`edit_conflict`).  The hash is
  compared when the file is read (`filesystem/edit.ts:25`), the file replaced
  later; an append in between is undone and the edit reports success.
* **A rollback mixes two builds** (`rollback_mixes`).  Each file has a
  `.previous` of its own (`platform/install.ts:154`).  Split, split, single, roll
  back: the layout is split again, the cli is of the second build, the daemon of
  the first.
* **The view stops following** (`follow_stops`).  A new call is recognised by a
  total that has grown (`tui/interaction.ts:76`), and the total is the number of
  retained rows: once the session is full, no new call is selected.

Stated in the modules and refuted by TLC too, without a run of their own (those
with a cfg name it; for the others, add the name to the PROPERTIES of a cfg, or
the INVARIANTS for `ContextIsBounded`):

* `OperationDispatch.CancellationFreesTheSlot` (`MCOperationDispatchCancel.cfg`):
  `core/executor.ts:98` calls the tool without the signal, so a cancelled
  operation whose task hangs keeps its slot.  The design of 2026-08-26 says that
  cancellation propagates into the long-running waits.
* `VisualSession.EveryViewerGetsIn` (`MCVisualSessionFrame.cfg`): a row within the
  256 KiB telemetry limit can exceed the 512 KiB frame once it is encoded; the
  server then sends an error, the snapshot fails, and the TUI retries as long as
  the row is retained.
* `VisualSession.MirrorAgrees` with a session that is full
  (`MCVisualSessionEvicted.cfg`): the client subscribes before it asks for the
  snapshot and replays the events it received meanwhile on top of it; one of a
  row that was pushed out since is added again as the newest.
* `ServiceControl.StopIsPersistent`: `ensureRunning` reads the desired state once
  (`platform/service-controller.ts:99`); a stop that comes in before its
  `manager.start()` is undone.  `StopHolds` states what remains true: a command
  that has the field to itself never starts what is not wanted.
* `ConfigWrites.TelemetryChangesNothing`: after one failed write of a recorded
  call (`config/store.ts:116`) every setting fails without being tried, until
  the daemon is restarted.
* `ActivityView.InspectionIsFrozen`: a call that is inspected is replaced by
  another when it leaves the visible rows (`session/store.ts:106`).
* `SearchJob.ContextIsBounded`: with `contextLines` 0 the lines in front of a match
  are `slice(-0)`, all of them (`search/manager.ts:354`).

Also noted, without a property: the TUI design says that a second attach exits,
while the source retries for ever; a change of layout leaves the service
definition pointing at the old executable; repairs that overlap or are killed
lose a record of the budget, and a clock that is set back forgets it; a result
too large for a frame becomes an `error` frame, which the operation client does
not take for its answer (`client/operation-ipc-client.ts:171`); an id whose PID was
given to another process names that process for as long as it lives.

## 7. What is not modelled

* `VisualSession`: status and admin clients, pong, operation requests on the
  same socket, and the connection, device and authorization parts of the
  session, which are single registers overwritten by each event.
* `SessionHistory`: shrinking of a checkpoint that exceeds the ceiling, file
  permissions and size accounting in bytes.
* `DaemonSupervisor`: a `stop()` of the runtime that takes time.
* `McpRequests`: frames that are cut between two chunks (the calls share one
  decoder too), and the abort of a request by its caller, which the validation
  ignores.  A daemon that is replaced after the validation
  is not validated again; the code never resets the flag.
* `OperationScheduler`: the abort of a running call, which the scheduler does
  not listen to; `cancel` from outside `run`.
* `OperationDispatch`: a result that does not fit into a frame.
* `ManagedProcesses`: `listProcesses`, which runs `ps` and keeps nothing, and
  errors of the output streams, which are a line in the output.
* `SearchJob`: what matches, and the text of a result.
* `FileWrites`: directories, permissions, and data that a crash loses.
* `Installation`: two installers at once, which share the `.new` names.
* `RotatingLog`: a line cut by an append that fails.
* `TunnelRecovery`: the choice among several tunnel URLs and profiles.
* `ActivityView`: scrolling inside a result, notices, the clipboard.
* The components marked `not_modelled` in `PROJECT.json`, each with its reason.
* Two MCP processes at one daemon, whose call ids may coincide.

## 8. Plan

Done: all modules of section 2, and the proofs of section 5.

Next, in this order:

1. The composition of two MCP processes with one daemon (coinciding call ids,
   results that do not fit into a frame).
2. `Installation` under `ServiceControl`, with the restart between promotion and
   gate, and two installers at once.
