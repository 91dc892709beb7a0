# A verification of ngy-coding-agent in TLA+

ngy-coding-agent is a local web application: one Rust process keeps tasks in
SQLite, runs them one to a few at a time, and shows them in a browser through a
REST API and an event stream. This directory models its core in TLA+, checks
the models with TLC on small instances, and proves their safety for instances of
any size with TLAPS. Paths below are relative to the
repository; `store` is `crates/coding-agent-store/src`, `app` is
`crates/coding-agent-app/src`, `api` is `crates/coding-agent-api/src`, `web` is
`web/src`.

    tlc -workers 2 -config MCTaskStore.cfg MCTaskStore.tla
    tlapm TaskStoreProofs.tla

## The system

| Part | State | Operations | Hard because |
|---|---|---|---|
| store (`store/tasks.rs`) | tables `tasks` and `task_events` | create, retry, transition, append, recover: one transaction each | callers repeat and overtake each other; every write has to fit table *and* log |
| store writer (`app/store_writer.rs`) | a queue of commands | one command at a time, retried while SQLite is busy, answered once | callers give up or fail while their command is still queued; a commit may be answered with an error |
| task manager (`app/task_manager.rs`) | handles of active runners, permits, `degraded`, `frozen` | scan and claim, cancel, runner events and results, finalise a recovery, quiesce | an actor that suspends at every write, while others freeze it or change the service state |
| runner (`app/fake_runner.rs`) | its script and its cancellation token | emits events, succeeds, fails, stops | reports after its task is over |
| service state (`app/service_state.rs`) | `Ready`, `StoreDegraded`, `Quiescing` and a generation | `set` | read by everybody, at any time |
| mutation gate and backend (`app/server.rs`) | guards held, gate closed | every HTTP command | a guard is dropped when the client goes away, its command is not |
| shutdown, degraded coordinator (`app/shutdown.rs`) | its phase, a recovery loop | close the gate, wait, barrier, cancel, drain, exit; recover, flush, finalise | deadlines, and answers that arrive after them |
| event dispatcher (`app/event_dispatcher.rs`) | a cursor, flush waiters | read pages after a wake or a poll, publish | reads fail, wakes coalesce, callers rely on a flush |
| event stream (`api/sse.rs`) | per connection: last id sent, a buffer, refills | replay, drain, refill after a lag, live delivery, reset | commits and publications run on between any two of its steps |
| browser's stream client (`web/api/sse.ts`) | the cursor | apply, reconnect, recover by bootstrap | connections break with frames under way |
| browser's state (`web/state`) | tasks, selected detail, commands | a reducer of REST answers and events | answers and events of one task overtake each other |
| single instance (`app/single_instance.rs`) | lock, descriptor, marker | recover the store, publish the descriptor, hand over | crashes between any two steps, reused ports and process ids |
| security (`app/security.rs`) | launch tokens, sessions | issue, exchange, expire | single use, a token sent to a reused port |
| repository registration (`app/repository_service.rs`, `store/repositories.rs`) | what discovery found so far, a table | add, pick, register | registrations of one repository overtake each other, answers are lost |
| native dialog (`app/native_dialog.rs`) | the picker gate, the dialog under way | open, close, answer | a caller that goes away, a dialog that stays open while the program quits |

Commands go from the browser through the gate to the store writer's queue; the
task manager is told of new tasks by a message that may be lost and looks for
them itself every tick. Runners send events and their result to the task
manager, which writes them through the same writer. The writer wakes the
dispatcher after a commit; the dispatcher publishes to a bounded broadcast
channel every stream receives from; a stream that falls behind reads the store.
The service state is shared by all of them.

What makes each part correct, in short: a row is always readable and its events
are the history that leads to it; a command repeated has one effect; a task that
runs can be cancelled and holds a permit, and one that is over is stopped; a
clean shutdown, and every restart, leaves no task queued or running; a scan starts
tasks in order; nothing waits for ever, except for a user's dialog that has the main
thread; the browser applies every event once, in order, and shows nothing older than
what it has applied; an answer of the writer is true; one process at a time owns the
store and can be found; a repository has one row.

## Modules

| Module | Models | Kind |
|---|---|---|
| `TaskDomain` | statuses, transitions, event kinds | definitions |
| `TaskTable` | what the store promises: rows moved by atomic steps | abstract specification |
| `TaskStore` | the transactions of `store/tasks.rs` on rows and log | detailed specification, refines `TaskTable` |
| `TaskStoreProofs` | theorems about `TaskStore` | proofs |
| `TaskManager` | callers, gate, writer, actor, runners, degraded coordinator, shutdown, crash and restart, over the rows of `TaskTable` | composition, refines `TaskTable` |
| `TaskManagerProofs` | theorems about `TaskManager` | proofs |
| `EventDispatcher` | the dispatcher, its waiters and the channel's contents | component |
| `EventFeed` | what the stream promises a browser | abstract specification |
| `EventDelivery` | dispatcher, live subscription, stream, connection, browser's cursor | composition, refines `EventFeed` |
| `EventDispatcherProofs` | theorems about `EventDispatcher` | proofs |
| `EventDeliveryProofs` | theorems about `EventDelivery` | proofs |
| `BrowserState` | the browser's reducer and hook over the log, REST calls and bootstraps | component |
| `BrowserStateProofs` | theorems about `BrowserState` | proofs |
| `StoreWriter` | the writer by the clock: deadlines, retries, lost answers | component |
| `StoreWriterProofs` | theorems about `StoreWriter` | proofs |
| `Startup` | launches, lock, descriptor, markers, tokens and sessions, shutdown, crashes | composition |
| `StartupProofs` | theorems about `Startup` | proofs |
| `Registration` | handlers, discovery, dialog, the table of repositories, a quit | composition |
| `RegistrationProofs` | theorems about `Registration` | proofs |
| `MC...` | values for the constants | model checking |

`TaskManager` uses the rows only, so it is built on `TaskTable`; that this is
enough is the refinement of `TaskTable` by `TaskStore`. `EventDelivery` uses the
log only as a growing sequence of ids.

### TaskStore

`tasks` is the sequence of rows in order of insertion, `events` the log; a task's
id is its position, an event's id likewise (AUTOINCREMENT without deletions, and
a transaction that rolls back gives its ids back). Rows carry status, request id, repository and
prompt as one `input`, attempt, `retry_of`, presence of `started_at` and `finished_at`, failure and
`last_event_id`. Each public method of `Store` that writes is an action with the
early returns of the code: an existing request id answers with its task, a retry
of a task that has a child answers with the child, a transition that finds
another status conflicts, an append to a task that is not running is refused.
`append_lifecycle_event` is kept in two steps, the row stamped with the id of its event
and the payload taken from it afterwards, because the order shows: the queued event's
payload carries `last_event_id` as stamped. Recovery reads the incomplete rows in the order
`created_at, id`. The wall clock may stand still or step back and the ids are random, so
this may be any order of theirs, whatever the order of insertion, and each is a step of
the model (`Listings` of `TaskDomain`).

Left out: the texts, the contents of panel events (they are one kind), times
other than present or absent, and errors for tasks that do not exist or prompts that are not valid.

### TaskManager

The variables are those of the Rust structs (`pc` is the actor's place in its
loop). Every handler is an action up to the write it sends (`Claim`,
`CancelRunning`, `WriteResult`, ...) and one that takes the answer
(`ClaimApplied`, `ResultFailed`, ...): what other parts do in between is what
the model is about. Callers enter the gate, queue their command, may go away
(`Disconnect`: the guard is dropped and the command stays), and notify the
actor. `WriterExecute` and `WriterFail` run one command; a failed command has
had no effect. `ShutdownTimeout` may happen at any moment of its wait, `Crash`
at any moment; only `rows` outlives the process.

A task's id is the place of its insertion; where it ranks in `(created_at, id)` order,
by which a scan sorts its snapshot, is another matter, as the wall clock may stand
still or be set back and the ids that settle a tie are random. The constant `Rank` gives
the place of every task and may be any injection. `scanned` is history: how many rows the
snapshot of the scan under way had, since a row inserted while the scan is suspended at a
write may rank before what it claims next, and is left to the next scan.

`picker` is the gate of the folder dialog and where the dialog runs (`Dialogs`): `"apart"`
from the runtime, or on the `"main"` thread, which on macOS also polls `run_application`
(`MainThreadIsFree`). The dialog outlives the client that asked for it; the rest of what it
does is in `Registration`.

A failed command having had no effect is an assumption, the design's own (a claim
whose write fails stays Queued, `docs/superpowers/specs/2026-07-14-local-web-platform-design.md:502`),
and how SQLite means a `COMMIT` that it reports as failed. `StoreWriter` does without it.
The manager could not: it drops the handle of a claim that was answered with an error
(`app/task_manager.rs:682`) and does not read the row again, so one that had been
committed all the same would stay Running without a runner until the next restart.

Left out: replayed creates (they change nothing, `TaskStore` has them), several
repositories, the retry schedule of the writer (`StoreWriter`), the server's
drain and the lock (`Startup`).

### EventDispatcher and EventDelivery

Events are ids. `published` is what was sent on the broadcast channel; a
receiver is a position in it, and it has lagged when it is more than `Capacity`
behind. A dispatcher step is one turn of `run_dispatcher`'s `select!`, one read
of a page, or one send. A stream step is what `connect` does between two awaits,
except that `drain_ready_live` takes one item a step, since the dispatcher runs
on another thread. The refill loop is written three times in the code (first
replay, after the first drain, after a lag) and once here: read the high
watermark, send pages up to it, forget what they covered, drain; `refills`
counts how often to do it again. `wire` holds the frames under way. The client
applies, reconnects from its cursor, and recovers by bootstrap in the two reads
the backend makes (snapshot, then service state). A client's first cursor may be
ahead of the log, which the API resets; the tests of the repository produce it
with `BootstrapCursorAhead`.

While the service is Quiescing the live subscription may end or still yield a
received event; the code lets at most one such event win, the model any number.

Left out: heartbeats, the parser and validation of frames, schema versions,
session expiry, and the delays between reconnections.

### BrowserState

The server is its log; a row is a function of the log up to a place, which is
what `TaskStore` proves. `Commit` is another browser's or a runner's event. The
reducer's cases are operators with the names of its functions; `Answer` is the
`then` of a call, `Receive` the next event of the stream (in order, once: that is
`EventDelivery`), `ReceiveBootstrap` a recovery. A call carries the place at which the server read its answer,
and answers arrive in any order or fail. `fetched` stands for the effect's
dependencies: a detail is asked for once a generation. `Current` lets an answer of
an older generation arrive, as it may before the effect's clean-up has run.

What a model of this shows and a test would not: between a bootstrap and the events
that follow, a REST answer of before may be ahead of the screen, and the
bootstrap takes that task back (or a task just created off the screen, with its
selection) until the events catch up. The screen is never behind the events
applied, which is what `ShownTasksAreCurrent` says.

Left out: the connection's state, diagnostics and unknown events, the service
generation (a maximum), repositories, session expiry, and that a recovery of the store
writes several events in one commit (they are single events here).

### StoreWriter

Time is counted in the shortest delay. `Call` fixes the deadline, `Send` waits for
room in the channel, `Receive` takes the next command or refuses a late one, an
attempt commits, is refused, finds the store busy (`BackOff` to the
next delay, or `GiveUp` with the delays or the time at an end), or fails;
`LoseAcknowledgement` is an error after the commit. `woken` says how much of
the log the dispatcher has been told of. Time passes during attempts and sleeps.

### Startup

A process is one launch, its stage the place in `launch`, `start_primary`,
`start_secondary` or the shutdown; `lease` are the handles that hold the lock
file open, one of the process and one of its server, since the lock is free
only when both are gone. `BecomePrimary` is a successful `try_lock`. Files
survive (`descriptor`, `temporaries`, `markers`); `unsettled` is history: whose
work may still be Queued or Running in the store. Ports are
reused by the operating system, and a dead process's id may look alive, so a
secondary may talk to a stranger: the launcher secret is what tells. Every
failure of the code is an action (`StartFails`, `PublishFails`, `QuiesceFails`,
`ShutdownPanics`, `EmergencyPanics`, `MarkerFails`), and `Crash` may happen anywhere.

Worth knowing: the documentation names the marker `unclean-shutdown.json`
(`README.md:126`), the code writes `unclean-shutdown.json.<uuid>.marker`
(`app/shutdown.rs:524`) and removes both. A start whose publication fails at the
directory sync, after its phase is ready, can leave a server with an open gate
until the process ends, although the lock is let go; `NoWorkBehindTheOwner` is
therefore about primaries that have run.

Left out: the drain of connections and the close of the pool (a write still under
way when the pool's close times out), the secondary's delays, cookies and CSRF
values, liveness.

### Registration

A request walks through `register_path`: validation of the selected directory,
git, the search for a manifest, cargo, the writer's queue. Directories are a tree
(`Above`); git, cargo and the file system answer anything at every read, and what
the code accepts is the guard. The dialog's task and its `PickerGate` outlive
the handler. Both backends are there: `dispatched` is macOS, where the main thread
shows the dialog and polls `run_application` between dialogs. The wall clock may stand
still and is assumed not to go back. Windows' lower-case identity keys are
abstracted: two directories are the same when their canonical names are.

## Runs

| Run | Bounds | Shows |
|---|---|---|
| `store` | 3 tasks, 7 events, 2 requests, 2 inputs, attempts up to 2 | every order of transactions; refinement of `TaskTable` |
| `manager` | 1 caller at a time and 1 abandoned request, 2 tasks of which the later ranks first, a permit for each, 1 store fault, runners that may fail, 1 restart that finds a task | safety of the running process and of the quit; what a crash or a shutdown leaves behind |
| `live` | 2 tasks, 1 permit, 1 fault, dialogs of both kinds | permits, which the tasks contend for; liveness |
| `quit` | 1 task | **violation**, see below |
| `dispatcher` | 4 events, pages of 2, 2 callers, 1 failed read | order, flushes, liveness |
| `delivery` | 3 events, pages of 2, channel of 1, batch of 1, 1 break, 1 change of state, cursor ahead by 1 | no gap, no repetition; refinement of `EventFeed` |
| `delivery_live` | 2 events, pages of 1, channel of 1, 1 break, 1 change of state | delivery in the end |
| `startup` | 3 launches, 2 ports | one owner, which can be found; tabs and sessions are its own; markers |
| `writer` | 3 commands, channel of 1, delays 1 and 2, a budget of 4, sends up to time 1 | answers are true; every call is answered |
| `registration` | 3 requests, 3 directories (file system, repository, member), 2 times | one row a repository, one dialog, the list's order |
| `registration_quit` | 1 request, the same directories | **violation**, see below |
| `browser` | 2 tasks, 2 calls under way, 3 events, 2 selections or recoveries | the screen against the log |

Why these bounds: two retries of one task, a retry of a retry and a recovery of
several tasks need three rows; seven events let one of them go through its whole life.
A claim overtaken needs two tasks, and a scan that sorts them otherwise than they were
inserted a rank that runs backward. Two tasks and two permits let a cancellation, a result or a
recovery of one meet the run of the other; one permit (`live`) makes them
contend for it. One fault at any of the writes is enough to degrade the store, and the recovery that
follows can again meet a create, a cancel, a claim or a quit. A channel of one
loses an event whenever the receiver is one behind, a batch of one exhausts at
every event, and three events make two pages, a second lag and a refill that is
itself overtaken. Three launches are an owner that goes away, its successor and
a secondary that holds an old descriptor, and two ports let a successor take
the port of that descriptor. Three commands are one under way, one in the
channel and one that waits for room, and the budget ends between two retries.
Three requests are two registrations that overtake each other and a
third that opens what they made; three directories give a root, a workspace and a selection
that differ, and the root without a name. Three events take a task to its end or
interleave two tasks, and two calls overtake each other and a recovery.

**Violations.** `QuitNeverFailsATask`: the design says that after a normal exit
unfinished tasks are `Interrupted`
(`docs/superpowers/specs/2026-07-14-local-web-platform-design.md:868`,
`README.md:181`). The code refuses runner events from the moment the gate closes
(`app/task_manager.rs:811`), and freezes the actor only at the barrier, after
`wait_for_idle`. A fake runner that is refused returns a failure
(`app/fake_runner.rs:79`), and the actor, not frozen yet, stores the task as
`Failed`. An open dialog keeps that window open, for as long as the deadline allows or,
on macOS, for as long as the user does.

`QuitEndsTheProcess`: the design gives the whole shutdown ten seconds
(`docs/superpowers/specs/2026-07-14-local-web-platform-design.md:718`). On macOS
`NativeDialogMainThreadHost::run` (`app/native_dialog.rs:224`) shows the dialog
with a call that blocks the main thread, the one that polls `run_application`
(`app/main.rs:99`). While the dialog is open the process neither sees a signal nor ends,
under any fairness that does not make the user close it.

Deadlock is checked in `store` and `delivery`. The other systems really
stop: processes exit for good, the dispatcher is closed, all commands are
answered, or (`browser`) the bounds on events and selections are used up.

### Fairness

Every part is a tokio task that is scheduled again when it can go on: weak
fairness of the writer, the actor's awaits, runners, coordinator, shutdown,
dispatcher, stream and browser. On macOS `run_application`, and with it the shutdown's
steps, its deadlines and the exit, is polled by the thread that shows the dialog
(`app/main.rs:77`): in `TaskManager` these are fair only while `MainThreadIsFree`, and
`QuitCompletes` is about a quit from a moment when no dialog has that thread (none can be
opened after the gate is closed). `select!` picks at random among its ready
branches, so no branch that is ready again and again is passed over for ever:
strong fairness of the actor's tick and messages, the dispatcher's commands and
the stream's service state. The dispatcher's poll and the actor's tick are
timers, so they are always ready in the end. Nothing makes a client call or
leave, a dialog close, a store operation or a connection fail, a process crash or quit; the
counts of failures are bounded, that is, they stop in the end. Clients send the
commands of the requests they have begun. The writer's clock, its attempts and
its timers go on (`StoreWriter`), as SQLite's busy timeout ends every attempt. In
`Registration` the main thread, the dialog's task and the shutdown are fair and
the user is not.

## Proofs

`TaskStoreProofs` holds for every set of requests,
inputs and failures, every number of tasks and events, and every width of the
attempt counter, under the named assumptions of `TaskDomain`, `TaskTable` and `TaskStore`.

1. `TransactionEffect`: under `TypeOK` every transaction either changes nothing or
   has `StepEffect`, which says row by row what may be different (created,
   moved, extended, untouched) and which event is new for it. Recovery, which
   moves any number of rows at once, is the hard case (`RecoverEffect`); its new
   events are at places given by a listing of the incomplete tasks, in whatever order it has them.
2. `StoreInv` is the conjunction of `TypeOK` and the seven invariants of the
   `store` run. It is inductive and the parts are not, on their own:
   that nothing follows a terminal event needs the last lifecycle event to match the
   row's status, which needs payloads to fit their kinds. Each part has a
   lemma of its own from `StepEffect` (`StoredTasksStep`, `ChainsStep`,
   `MatchStep`, `LifecycleStep`, `DescribesStep`, ...).
3. `StoreInvariant` puts them together, and the corollaries state each property.
   `HistoryPreserved` is the action property.
4. `StoreImplementsTable`: a row is mapped to the columns `TaskTable` has; an
   append is a stutter, every other transaction one abstract step
   (`InsertMaps`, `UpdateMaps`, `RecoveryMaps`).

`EventDispatcherProofs` does the same for the dispatcher, for any number of
events, any page size and any callers. `DispatcherInv` adds two facts to what
the `dispatcher` run checks. `PageContinues`: the rest of the page in hand goes
on where the cursor stands; without it `Publish` could put any id on the
channel. `OnePlace`: the command of a caller is in the mailbox once, while it
waits and is not among the waiters; without it an answer to one place would
leave the caller waiting in the other. `DispatcherInvariant` is the inductive
invariant, `DispatcherTypes`, `DispatcherPublishesInOrder` and `DispatcherFlushes` its parts.

`StartupProofs` holds for any launches and ports. `OwnersAreAlone` needs
`OnlyOneHolds`: at most one process has handles on the lock, and whoever is in an
owner's stage or serves has one. From it comes `FilesAreTheOwners` (the
descriptor and the temporaries are as their owner left them). For the tabs,
`ReadyOnce`, `TabsComeLast` and `TokensAreSpent` say in which order the phase opens, a
tab is made and its token is used up. For the markers, `GateInv` says that a
descriptor names a process that was a primary (`SeenOthers`), that a shutdown
closes the gate before it writes a marker (`GatesClose`), and that between a
recovery and the removal of markers nobody who wrote one can add work (`RecoverySettles`).

`StoreWriterProofs`: `WriterInv` is `AnswersAreTrue` with `OnePlace`, that a
command is with its caller, once in the channel, or being executed, and has had no effect
before its commit. Without it a command could be executed twice.

`RegistrationProofs`: `RegistrationInv` is inductive. `FoundInv` is what
discovery has established of a request, in the queue too (a commit relies on it
much later), `RowsInv` adds to `OneRowPerRepository` that rows are finitely many
and none was opened in the future (`LastOpenedIsFirst` needs that), `DialogInv` says
whose gate is whose.

`BrowserStateProofs` holds for any tasks, calls, logs and selections.
`BrowserInv` adds three facts to the properties. `LogInv`, of the server: the events of a
task begin with a lifecycle event and end with its end. `DetailInv`: the detail is a
history up to its own cursor, and no event of the task was applied beyond it.
`FetchInv`: one call asks for each selection, and the buffer holds what was applied
since its answer was read; without it an installed detail could have a gap. The
lemmas before them are about `RowAt`, the row as a function of the log: a row
that names no later event is the same row (`LastDecides`), which is why
comparing `lastEventId` in `upsertRestTask` is enough (`NotBehind`), and a finished task
keeps its row (`FinishedStays`), which is why a cancellation may be dropped for good.

Types (`TypeOK`, `DispatcherTypeOK`, `StartupTypeOK`, `WriterTypeOK`,
`RegistrationTypeOK`, `BrowserTypeOK`), `LogMatchesStatus`, `LifecyclePayloadsConsistent`,
`RowsAreNested` and `AttemptsKeepTheDeadline` are proved, and so not among
the properties of the runs.

`TaskManagerProofs` holds for any callers, tasks, ranking of the tasks, permits, kinds of
dialog and runner scripts, and any number of faults, abandoned requests and restarts. `ManagerInv` is about what is
under way while the actor is suspended at a write:

- `QueueInv`: the writer's queue holds at most one command of the actor, the one it
  waits for, at most one recovery of the coordinator, and otherwise inserts. Every
  command carries a transition the domain can construct (its type).
- `MailboxInv`: a message of a runner is its last one and fits the state the runner is
  in, so a result is written once; a cancellation is some user's.
- `HandleInv`, `ScanInv`, `ClaimInv`: a live runner has a handle; what a scan has still
  to claim are all the rows of its snapshot that are still queued without a handle, in
  the order of `Rank`, and the claim under way ranks before them. `ClaimsInOrder` is read
  off them, and needs that a claim answered with an error ends the scan. Rows beyond
  `scanned` may rank anywhere.
- `DegradedInv`, `ResultInv`: a degraded manager has told every runner to stop, and
  asks for Ready only when no row is Running. With them `RunningHasHandle` is
  inductive through a recovery that overlaps a claim or a result.
- `CancelInv`: a token is cancelled, a result says Cancelled, or a command writes it
  only if a user asked, or the row can no longer take it.
- `QuitInv`: from the barrier on nobody can insert, and in the queue no insert comes
  behind the actor's recovery, so when that is durable nothing is incomplete
  (`Settled`). It turned out not to be inductive without two facts no property
  mentions: the gate is closed in every phase between `up` and `stopped`, and the
  root token is cancelled only while stopping.

Each part has a lemma per group of actions, over lemmas that say which variables a
step leaves alone (`CallerFootprint`, `LoopFootprint`, ...) and what one command does
to the rows (`Execution`). All of `ManagerInv` was checked with TLC on the bounds of
`manager` before it was proved. From it follow the properties of that run, the
invariant of `live`, and `ManagerImplementsTable`: through all of this the rows move only by the steps of
`TaskTable`, so `FinishedRowsAreFinal`, a task that is over is never written again.

`EventDeliveryProofs` holds for any number of events, any page, channel, batch and
buffer, and any lags, failures and breaks; it extends `EventDispatcherProofs`, whose
invariant says what is on the channel. `DeliveryInv` places the stream between the
log, its pages, its subscription and the connection. `StreamInv` has the two facts
everything rests on. The watermark of a refill is not below anything received live, so
its pages leave nothing in the buffer, and a batch is all that a buffer can
hold (`BufferWithinABatch`, with `BatchInv`). And as long as no refill is owed,
the buffer is exactly what was received beyond the last event sent, so what the
flush and the live loop send next is the next event. `WireInv` and `ClientInv` say what a frame
under way means: a reset goes only to a client whose cursor is of another database,
with no event under way. `FramesAreInOrder` is then inductive, and
`DeliveryImplementsFeed` maps a frame applied to a `Deliver`, a commit to a `Commit`,
a recovery to a `Resnapshot` and everything else to a stutter. This invariant
too was checked with TLC on the bounds of `delivery` first.

Only model-checked: liveness, which is out of the prover's reach (`QueuedTasksAreTaken`,
`RunningTasksFinish`, `DegradedStoreRecovers`, `QuitCompletes`, `FlushesAreAnswered`,
`EventsReachTheClient`, `ServiceStateIsSeen`, `CommandsAreAnswered`), and the
two violations. Every invariant and action property of a passing run is a theorem.

## Not modelled

Reasons are in `PROJECT.json`, part by part. In short: single requests without
protocol (router, contract, values), operating-system calls (platform, access
control lists, assets), the connection and the migration of SQLite, whose
transactions are taken as atomic and durable, test support, the views of the
browser, cookies, CSRF values and session lifetimes.

## Plan

1. Proofs: the safety halves of the liveness properties (a command of the writer, a
   phase of a quit is always with somebody who can take its next step), and an abstract
   ownership of the store that `Startup` implements and the restarts of `TaskManager` use.
2. `BrowserState`: several events of one commit, session expiry.
3. `Startup`: liveness, a launch ends with a tab whenever a primary lives on;
   a write under way when the pool is closed.
