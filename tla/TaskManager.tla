----------------------------- MODULE TaskManager ----------------------------
(***************************************************************************)
(* The running process: HTTP callers behind the mutation gate, the FIFO    *)
(* store writer, the task manager actor, the runners it spawns, the        *)
(* coordinator that recovers a degraded store, the shutdown sequence, and  *)
(* the crash or exit and restart of the whole process.  Only `rows', the   *)
(* table of tasks (TaskTable), survives a restart.                         *)
(*                                                                         *)
(* The actor handles one message at a time but suspends at every write; a  *)
(* handler is therefore an action up to the write it sends, and an action  *)
(* that takes the writer's answer.  The actor and the writer each consume  *)
(* an mpsc channel in the order of arrival: two sequences.                 *)
(***************************************************************************)
EXTENDS TaskTable, FiniteSets

CONSTANTS
  Callers,          \* concurrent HTTP requests
  Dialogs,          \* where the platform runs its native dialog
  Rank,             \* the place of each task in (created_at, id) order
  MaxRunning,       \* MAX_CONCURRENT_TASKS, permits of the semaphore
  RunnerSteps,      \* events a runner emits before it succeeds
  RunnersMayFail,   \* whether a runner may fail or panic of its own accord
  MaxOrphans,       \* bound: requests under way whose client is gone
  MaxFaults,        \* bound: store operations that fail
  MaxRestarts       \* bound: restarts of the process

NoCaller == "nobody"

Codes ==
  {"APP_SHUTDOWN", "STORE_WRITE_FAILED", "APP_RESTARTED",
   "FAKE_RUNNER_EVENT_REJECTED", "RUNNER_FAILED"}

Ids == 1..MaxTasks

\* created_at is read from the wall clock, which may stand still or be set back, and
\* the id that settles a tie is random: an insertion may take any place, and what
\* holds holds whichever Rank says.
ASSUME RankAssumption ==
  /\ Rank \in [Ids -> Nat]
  /\ \A s, t \in Ids : Rank[s] = Rank[t] => s = t

ASSUME ManagerAssumption ==
  /\ Failures = Codes
  /\ NoCaller \notin Callers
  /\ {"actor", "coordinator"} \cap Callers = {}
  /\ Dialogs \subseteq {"apart", "main"}
  /\ MaxRunning \in Nat \ {0}
  /\ RunnerSteps \in Nat
  /\ RunnersMayFail \in BOOLEAN
  /\ MaxOrphans \in Nat
  /\ MaxFaults \in Nat
  /\ MaxRestarts \in Nat

VARIABLES
  service,          \* ServiceState
  gateClosed,       \* MutationLifecycle.closed; the guards held are InFlight
  picker,           \* PICKER_OPEN, and where the dialog runs
  call,             \* what each caller is doing
  writer,           \* queue of the store writer
  mailbox,          \* messages sent to the actor and not yet received
  pc,               \* where the actor is in its loop
  todo,             \* queued tasks the current scan has still to claim
  scanned,          \* rows of the snapshot of the current scan, 0 between scans
  current,          \* the task of the write the actor waits for
  asker,            \* who waits for the actor's answer to that message
  answer,           \* the writer's answer to the actor
  scan_requested, degraded,
  frozen,           \* TaskManagerShutdownControl.frozen
  active,           \* tasks with an ActiveRunner: a token and a permit
  cancelled,        \* tasks whose token was cancelled
  root_cancelled,   \* the token all tokens are children of
  runner, emitted,  \* the state of each runner and how many events it got stored
  coordinator,      \* DegradedCoordinator
  phase,            \* RuntimeShutdown::shutdown
  outcome,          \* ShutdownOutcome of the last shutdown
  inherited,        \* history: rows the process found when it started
  user_cancelled,   \* history: tasks some caller asked to cancel
  faults, restarts  \* counters of the bounds

actorVars    == <<pc, todo, scanned, current, asker, answer>>
managerVars  == <<scan_requested, degraded, active>>
tokenVars    == <<frozen, cancelled, root_cancelled>>
runnerVars   == <<runner, emitted>>
processVars  == <<phase, outcome, inherited, restarts>>
gateVars     == <<service, gateClosed, picker>>
vars == <<rows, gateVars, call, writer, mailbox, actorVars, managerVars, tokenVars,
          runnerVars, coordinator, processVars, user_cancelled, faults>>

Alive == phase # "stopped"

Idle == [op |-> "idle", task |-> NoTask]

\* The callers that hold a MutationGuard.
InFlight == {c \in Callers : call[c] # Idle}

\* The thread that polls run_application is not inside a native dialog.
MainThreadIsFree == picker # "main"

IsCancelled(t) == t \in cancelled \/ root_cancelled

\* A read or a write of the store fails without effect.
StoreFault ==
  /\ faults < MaxFaults
  /\ faults' = faults + 1

claims_allowed == ~degraded /\ ~frozen /\ service = "Ready"

-----------------------------------------------------------------------------
(* Commands, messages and answers.                                         *)

Transition(next, failure) == [next |-> next, failure |-> failure]

Command(op, by, t, expected, transition) ==
  [op |-> op, by |-> by, task |-> t, expected |-> expected, transition |-> transition]

NoTransition == Transition("Running", NoFailure)

InsertCommand(c, source) == Command("insert", c, source, "Queued", NoTransition)
TransitionCommand(t, expected, next, failure) ==
  Command("transition", "actor", t, expected, Transition(next, failure))
AppendCommand(t) == Command("append", "actor", t, "Running", NoTransition)
RecoverCommand(by, failure) ==
  Command("recover", by, NoTask, "Queued", Transition("Interrupted", failure))

Message(kind, t, from, result) ==
  [kind |-> kind, task |-> t, from |-> from, result |-> result]

\* RunnerOutcome as the transition it stands for.
RunnerOutcomes ==
  {Transition("Completed", NoFailure), Transition("Cancelled", NoFailure),
   Transition("Failed", "FAKE_RUNNER_EVENT_REJECTED"), Transition("Failed", "RUNNER_FAILED")}

-----------------------------------------------------------------------------
(* A process that has just started: start_primary builds every part anew.  *)

FreshProcess ==
  /\ service = "Ready" /\ gateClosed = FALSE /\ picker = "closed"
  /\ call = [c \in Callers |-> Idle]
  /\ writer = << >> /\ mailbox = << >>
  /\ pc = "idle" /\ todo = << >> /\ scanned = 0
  /\ current = NoTask /\ asker = NoCaller /\ answer = "none"
  /\ scan_requested = FALSE /\ degraded = FALSE /\ active = {}
  /\ frozen = FALSE /\ cancelled = {} /\ root_cancelled = FALSE
  /\ runner = [t \in Ids |-> "none"] /\ emitted = [t \in Ids |-> 0]
  /\ coordinator = "off"

\* The same of the next state: a process is gone, and the next one starts anew.
NewProcess ==
  /\ service' = "Ready" /\ gateClosed' = FALSE /\ picker' = "closed"
  /\ call' = [c \in Callers |-> Idle]
  /\ writer' = << >> /\ mailbox' = << >>
  /\ pc' = "idle" /\ todo' = << >> /\ scanned' = 0
  /\ current' = NoTask /\ asker' = NoCaller /\ answer' = "none"
  /\ scan_requested' = FALSE /\ degraded' = FALSE /\ active' = {}
  /\ frozen' = FALSE /\ cancelled' = {} /\ root_cancelled' = FALSE
  /\ runner' = [t \in Ids |-> "none"] /\ emitted' = [t \in Ids |-> 0]
  /\ coordinator' = "off"

Init ==
  /\ TableInit
  /\ FreshProcess
  /\ phase = "up" /\ outcome = "none" /\ inherited = 0
  /\ user_cancelled = {}
  /\ faults = 0 /\ restarts = 0

-----------------------------------------------------------------------------
(* HTTP callers (ApplicationBackend and MutationGate).                     *)

\* Inserts under way, each of which may take one of the MaxTasks rows.
PendingInserts ==
  Cardinality({c \in Callers : call[c].op = "insert"})
    + Cardinality({i \in DOMAIN writer : writer[i].op = "insert"})

enter_data_mutation(c) ==
  /\ Alive
  /\ call[c] = Idle
  /\ ~gateClosed
  /\ service = "Ready"

\* create_task (source = NoTask) and retry_task pass the gate.
BeginInsert(c, source) ==
  /\ enter_data_mutation(c)
  /\ Len(rows) + PendingInserts < MaxTasks
  /\ call' = [call EXCEPT ![c] = [op |-> "insert", task |-> source]]
  /\ UNCHANGED <<rows, gateVars, writer, mailbox, actorVars, managerVars, tokenVars,
                 runnerVars, coordinator, processVars, user_cancelled, faults>>

\* ... and hand their command to the writer.
SendInsert(c) ==
  /\ Alive
  /\ call[c].op = "insert"
  /\ writer' = Append(writer, InsertCommand(c, call[c].task))
  /\ call' = [call EXCEPT ![c].op = "writing"]
  /\ UNCHANGED <<rows, gateVars, mailbox, actorVars, managerVars, tokenVars,
                 runnerVars, coordinator, processVars, user_cancelled, faults>>

\* notify_after_commit, once the row is durable.
SendNotify(c) ==
  /\ Alive
  /\ call[c].op = "notify"
  /\ mailbox' = Append(mailbox, Message("NotifyQueued", NoTask, c, NoTransition))
  /\ call' = [call EXCEPT ![c].op = "waiting"]
  /\ UNCHANGED <<rows, gateVars, writer, actorVars, managerVars, tokenVars,
                 runnerVars, coordinator, processVars, user_cancelled, faults>>

\* cancel_task passes the gate and asks the actor.
SendCancel(c, t) ==
  /\ enter_data_mutation(c)
  /\ t \in DOMAIN rows
  /\ mailbox' = Append(mailbox, Message("Cancel", t, c, NoTransition))
  /\ call' = [call EXCEPT ![c] = [op |-> "waiting", task |-> NoTask]]
  /\ user_cancelled' = user_cancelled \cup {t}
  /\ UNCHANGED <<rows, gateVars, writer, actorVars, managerVars, tokenVars,
                 runnerVars, coordinator, processVars, faults>>

\* pick_repository holds its guard for as long as the native dialog is open; the
\* repository it then registers is no part of the table of tasks.
OpenDialog(c) ==
  /\ enter_data_mutation(c)
  /\ picker = "closed"
  /\ picker' \in Dialogs
  /\ call' = [call EXCEPT ![c] = [op |-> "dialog", task |-> NoTask]]
  /\ UNCHANGED <<rows, service, gateClosed, writer, mailbox, actorVars, managerVars, tokenVars,
                 runnerVars, coordinator, processVars, user_cancelled, faults>>

\* The user closes it, whether or not the client that asked for it is still there.
CloseDialog ==
  /\ Alive
  /\ picker # "closed"
  /\ picker' = "closed"
  /\ call' = [c \in Callers |-> IF call[c].op = "dialog" THEN Idle ELSE call[c]]
  /\ UNCHANGED <<rows, service, gateClosed, writer, mailbox, actorVars, managerVars, tokenVars,
                 runnerVars, coordinator, processVars, user_cancelled, faults>>

\* What clients that are gone have left behind.
Orphans ==
  Cardinality({i \in DOMAIN writer : writer[i].by = NoCaller})
    + Cardinality({i \in DOMAIN mailbox : /\ mailbox[i].kind \in {"NotifyQueued", "Cancel"}
                                         /\ mailbox[i].from = NoCaller})
    + Cardinality({p \in {picker} \ {"closed"} : \A c \in Callers : call[c].op # "dialog"})

\* The client goes away: the handler and its guard are dropped, while the dialog
\* stays open and what was sent to the writer or the actor is still carried out.
Disconnect(c) ==
  /\ Alive
  /\ call[c] # Idle
  /\ Orphans < MaxOrphans
  /\ call' = [call EXCEPT ![c] = Idle]
  /\ writer' = [i \in DOMAIN writer |->
                  IF writer[i].by = c THEN [writer[i] EXCEPT !.by = NoCaller] ELSE writer[i]]
  /\ mailbox' = [i \in DOMAIN mailbox |->
                  IF mailbox[i].from = c THEN [mailbox[i] EXCEPT !.from = NoCaller]
                                         ELSE mailbox[i]]
  /\ asker' = IF asker = c THEN NoCaller ELSE asker
  /\ UNCHANGED <<rows, gateVars, pc, todo, scanned, current, answer, managerVars, tokenVars,
                 runnerVars, coordinator, processVars, user_cancelled, faults>>

\* A handler got its answer and returns, which drops the guard.
Return(c) ==
  call' = IF c \in Callers THEN [call EXCEPT ![c] = Idle] ELSE call

-----------------------------------------------------------------------------
(* The store writer: one command at a time, in the order of arrival.       *)

\* One command on the table, and what its caller is told.
Executes(command, result) ==
  CASE command.op = "insert" ->
         \/ /\ command.task = NoTask
            /\ InsertTask
            /\ result = "applied"
         \/ /\ command.task # NoTask
            /\ is_retryable(rows[command.task].status)
            /\ ~HasRetryChild(command.task)
            /\ InsertRetry(command.task)
            /\ result = "applied"
         \/ /\ command.task # NoTask
            /\ ~is_retryable(rows[command.task].status) \/ HasRetryChild(command.task)
            /\ UNCHANGED rows
            /\ result = "conflict"
    [] command.op = "transition" ->
         \/ /\ ApplyTransition(command.task, command.expected, command.transition)
            /\ result = "applied"
         \/ /\ rows[command.task].status # command.expected
            /\ UNCHANGED rows
            /\ result = "conflict"
    [] command.op = "append" ->
         /\ UNCHANGED rows
         /\ result = IF rows[command.task].status = "Running" THEN "applied" ELSE "conflict"
    [] command.op = "recover" ->
         /\ RecoverRows(command.transition.failure)
         /\ result = "applied"

\* The oneshot response: it wakes whoever still waits for it.
Respond(by, result) ==
  /\ answer' = IF by = "actor" THEN result ELSE answer
  /\ coordinator' = IF by # "coordinator" THEN coordinator
                    ELSE IF result = "applied" THEN "flush" ELSE "recover"
  /\ call' = IF by \notin Callers THEN call
             ELSE [call EXCEPT ![by] = IF result = "applied"
                                         THEN [op |-> "notify", task |-> NoTask]
                                         ELSE Idle]

WriterExecute ==
  /\ Alive
  /\ writer # << >>
  /\ \E result \in {"applied", "conflict"} :
       /\ Executes(Head(writer), result)
       /\ Respond(Head(writer).by, result)
  /\ writer' = Tail(writer)
  /\ UNCHANGED <<gateVars, mailbox, pc, todo, scanned, current, asker, managerVars, tokenVars,
                 runnerVars, processVars, user_cancelled, faults>>

\* Busy until the deadline or the retries ran out, or an I/O error: not committed.
WriterFail ==
  /\ Alive
  /\ writer # << >>
  /\ StoreFault
  /\ Respond(Head(writer).by, "error")
  /\ writer' = Tail(writer)
  /\ UNCHANGED <<rows, gateVars, mailbox, pc, todo, scanned, current, asker, managerVars, tokenVars,
                 runnerVars, processVars, user_cancelled>>

-----------------------------------------------------------------------------
(* The actor: its loop and the scan that claims queued tasks.              *)

\* The actor sends one write and waits for the answer at `where'.
AwaitWrite(command, where, t, from) ==
  /\ writer' = Append(writer, command)
  /\ pc' = where /\ current' = t /\ asker' = from
  /\ UNCHANGED answer

\* The actor takes the answer it waited for at `where'.
TakeAnswer(where) ==
  /\ Alive
  /\ pc = where
  /\ answer # "none"
  /\ answer' = "none" /\ current' = NoTask /\ asker' = NoCaller

\* The tick that asks for nothing: only notifications start a scan.
Tick_Mutant ==
  /\ Alive
  /\ pc = "idle"
  /\ claims_allowed
  /\ pc' = "check"
  /\ UNCHANGED <<rows, gateVars, call, writer, mailbox, todo, scanned, current, asker, answer,
                 managerVars, tokenVars, runnerVars, coordinator, processVars,
                 user_cancelled, faults>>

\* The reconcile interval of the select loop.
Tick ==
  /\ Alive
  /\ pc = "idle"
  /\ claims_allowed
  /\ scan_requested' = TRUE
  /\ pc' = "check"
  /\ UNCHANGED <<rows, gateVars, call, writer, mailbox, todo, scanned, current, asker, answer,
                 degraded, active, tokenVars, runnerVars, coordinator, processVars,
                 user_cancelled, faults>>

\* The queued rows of the snapshot in (created_at, id) order, without those that
\* have a handle already (the scan itself is all that changes `active' meanwhile).
QueuedInOrder ==
  {o \in Listings({t \in DOMAIN rows : rows[t].status = "Queued" /\ t \notin active}) :
     \A i, j \in DOMAIN o : i < j => Rank[o[i]] < Rank[o[j]]}

\* After every message and tick: begin a scan that was asked for, or wait again.
Check ==
  /\ Alive
  /\ pc = "check"
  /\ IF scan_requested /\ claims_allowed
       THEN /\ scan_requested' = FALSE
            /\ pc' = "claim"
            /\ todo' \in QueuedInOrder /\ scanned' = Len(rows)
       ELSE /\ pc' = "idle"
            /\ UNCHANGED <<scan_requested, todo, scanned>>
  /\ UNCHANGED <<rows, gateVars, call, writer, mailbox, current, asker, answer,
                 degraded, active, tokenVars, runnerVars, coordinator, processVars,
                 user_cancelled, faults>>

\* bootstrap_snapshot fails: the request for a scan is already gone.
ScanFails ==
  /\ Alive
  /\ pc = "check"
  /\ scan_requested /\ claims_allowed
  /\ StoreFault
  /\ scan_requested' = FALSE
  /\ pc' = "idle"
  /\ UNCHANGED <<rows, gateVars, call, writer, mailbox, todo, scanned, current, asker, answer,
                 degraded, active, tokenVars, runnerVars, coordinator, processVars,
                 user_cancelled>>

\* A permit is free as soon as its task has been told to stop.
PermitsLeft_Mutant == Cardinality(active \ cancelled) < MaxRunning

\* try_acquire_owned: a permit is free when its handle has been removed.
PermitsLeft == Cardinality(active) < MaxRunning

\* The scan ends: every task seen, no permit left, or a frozen manager.
EndScan ==
  /\ Alive
  /\ pc = "claim"
  /\ todo # << >> => ~PermitsLeft \/ frozen
  /\ pc' = "idle"
  /\ todo' = << >> /\ scanned' = 0
  /\ UNCHANGED <<rows, gateVars, call, writer, mailbox, current, asker, answer,
                 managerVars, tokenVars, runnerVars, coordinator, processVars,
                 user_cancelled, faults>>

\* A permit and a fresh token are registered, then Queued -> Running is written.
Claim ==
  /\ Alive
  /\ pc = "claim"
  /\ todo # << >> /\ PermitsLeft /\ ~frozen
  /\ active' = active \cup {Head(todo)}
  /\ AwaitWrite(TransitionCommand(Head(todo), "Queued", "Running", NoFailure),
                "claim_wait", Head(todo), NoCaller)
  /\ todo' = Tail(todo) /\ UNCHANGED scanned
  /\ UNCHANGED <<rows, gateVars, call, mailbox, scan_requested, degraded, tokenVars,
                 runnerVars, coordinator, processVars, user_cancelled, faults>>

\* remove_active drops the token and the permit of a task.
DropHandle(t) ==
  /\ active' = active \ {t}
  /\ cancelled' = cancelled \ {t}

\* Applied: the runner starts, unless the manager was frozen meanwhile.
ClaimApplied ==
  /\ TakeAnswer("claim_wait")
  /\ answer = "applied"
  /\ pc' = IF frozen THEN "idle" ELSE "claim"
  /\ todo' = IF frozen THEN << >> ELSE todo
  /\ scanned' = IF frozen THEN 0 ELSE scanned
  /\ IF frozen
       THEN /\ DropHandle(current)
            /\ UNCHANGED runner
       ELSE /\ runner' = [runner EXCEPT ![current] = "working"]
            /\ UNCHANGED <<active, cancelled>>
  /\ UNCHANGED <<rows, gateVars, call, writer, mailbox, scan_requested, degraded, frozen,
                 root_cancelled, emitted, coordinator, processVars, user_cancelled, faults>>

\* A claim that could not be written is skipped like one that came too late.
ClaimRefused_Mutant ==
  /\ TakeAnswer("claim_wait")
  /\ answer # "applied"
  /\ pc' = "claim"
  /\ DropHandle(current)
  /\ UNCHANGED <<rows, gateVars, call, writer, mailbox, todo, scanned, scan_requested, degraded, frozen,
                 root_cancelled, runnerVars, coordinator, processVars, user_cancelled, faults>>

\* Conflict: on with the scan.  An error ends it.
ClaimRefused ==
  /\ TakeAnswer("claim_wait")
  /\ answer # "applied"
  /\ pc' = IF answer = "conflict" THEN "claim" ELSE "idle"
  /\ todo' = IF answer = "conflict" THEN todo ELSE << >>
  /\ scanned' = IF answer = "conflict" THEN scanned ELSE 0
  /\ DropHandle(current)
  /\ UNCHANGED <<rows, gateVars, call, writer, mailbox, scan_requested, degraded, frozen,
                 root_cancelled, runnerVars, coordinator, processVars, user_cancelled, faults>>

-----------------------------------------------------------------------------
(* The actor: messages of callers.                                         *)

msg == Head(mailbox)

\* The select loop hands the next message to its handler.
Receive(kind) ==
  /\ Alive
  /\ pc = "idle"
  /\ mailbox # << >>
  /\ msg.kind = kind
  /\ mailbox' = Tail(mailbox)

\* NotifyQueued asks for a scan, or is refused (Frozen, StoreDegraded).
NotifyQueued ==
  /\ Receive("NotifyQueued")
  /\ scan_requested' = (scan_requested \/ claims_allowed)
  /\ Return(msg.from)
  /\ pc' = "check"
  /\ UNCHANGED <<rows, gateVars, writer, todo, scanned, current, asker, answer, degraded, active,
                 tokenVars, runnerVars, coordinator, processVars, user_cancelled, faults>>

\* Cancelling a queued task: the row is written, no runner is involved.
CancelQueued ==
  /\ Receive("Cancel")
  /\ ~frozen /\ ~degraded
  /\ rows[msg.task].status = "Queued"
  /\ AwaitWrite(TransitionCommand(msg.task, "Queued", "Cancelled", NoFailure),
                "cancel_wait", msg.task, msg.from)
  /\ UNCHANGED <<rows, gateVars, call, todo, scanned, managerVars, tokenVars, runnerVars,
                 coordinator, processVars, user_cancelled, faults>>

\* Cancelling a running task: its token is cancelled and the runner decides.
CancelRunning ==
  /\ Receive("Cancel")
  /\ ~frozen /\ ~degraded
  /\ rows[msg.task].status = "Running"
  /\ cancelled' = IF msg.task \in active THEN cancelled \cup {msg.task} ELSE cancelled
  /\ Return(msg.from)
  /\ pc' = "check"
  /\ UNCHANGED <<rows, gateVars, writer, todo, scanned, current, asker, answer, managerVars, frozen,
                 root_cancelled, runnerVars, coordinator, processVars, user_cancelled, faults>>

\* Frozen, StoreDegraded, already Cancelled, TaskNotCancellable, or a failed read.
CancelRefused ==
  /\ Receive("Cancel")
  /\ \/ /\ frozen \/ degraded \/ is_retryable(rows[msg.task].status)
        /\ UNCHANGED faults
     \/ StoreFault
  /\ Return(msg.from)
  /\ pc' = "check"
  /\ UNCHANGED <<rows, gateVars, writer, todo, scanned, current, asker, answer, managerVars,
                 tokenVars, runnerVars, coordinator, processVars, user_cancelled>>

\* The answer to CancelQueued: applied, an error, or cancel_current on a conflict.
CancelAnswered ==
  /\ TakeAnswer("cancel_wait")
  /\ cancelled' = IF /\ answer = "conflict"
                     /\ rows[current].status = "Running" /\ current \in active
                    THEN cancelled \cup {current} ELSE cancelled
  /\ Return(asker)
  /\ pc' = "check"
  /\ UNCHANGED <<rows, gateVars, writer, mailbox, todo, scanned, managerVars, frozen, root_cancelled,
                 runnerVars, coordinator, processVars, user_cancelled, faults>>

-----------------------------------------------------------------------------
(* The actor: messages of runners, and the degraded store.                 *)

\* The store is degraded and the runners are left alone.
enter_degraded_Mutant(finished) ==
  /\ active' = active \ finished
  /\ cancelled' = cancelled \ finished
  /\ degraded' = TRUE
  /\ scan_requested' = FALSE
  /\ service' = IF service = "Quiescing" THEN service ELSE "StoreDegraded"
  /\ coordinator' = "recover"

\* Recovery is left to the next restart: no coordinator is started.
enter_degraded_MutantAlone(finished) ==
  /\ active' = active \ finished
  /\ IF degraded
       THEN /\ cancelled' = cancelled \ finished
            /\ UNCHANGED <<degraded, scan_requested, service, coordinator>>
       ELSE /\ cancelled' = (cancelled \cup active) \ finished
            /\ degraded' = TRUE
            /\ scan_requested' = FALSE
            /\ service' = IF service = "Quiescing" THEN service ELSE "StoreDegraded"
            /\ UNCHANGED coordinator

\* A durable result could not be written: stop claiming, stop every runner,
\* start the coordinator.  The handles of `finished' are removed right after.
\* (ServiceStateController::set refuses to leave Quiescing.)
enter_degraded(finished) ==
  /\ active' = active \ finished
  /\ IF degraded
       THEN /\ cancelled' = cancelled \ finished
            /\ UNCHANGED <<degraded, scan_requested, service, coordinator>>
       ELSE /\ cancelled' = (cancelled \cup active) \ finished
            /\ degraded' = TRUE
            /\ scan_requested' = FALSE
            /\ service' = IF service = "Quiescing" THEN service ELSE "StoreDegraded"
            /\ coordinator' = "recover"

EventAccepted(t) == ~frozen /\ ~degraded /\ service = "Ready" /\ t \in active

\* RunnerEvent of a task that may still record events.
AppendEvent ==
  /\ Receive("RunnerEvent")
  /\ EventAccepted(msg.task)
  /\ AwaitWrite(AppendCommand(msg.task), "event_wait", msg.task, NoCaller)
  /\ UNCHANGED <<rows, gateVars, call, todo, scanned, managerVars, tokenVars, runnerVars,
                 coordinator, processVars, user_cancelled, faults>>

\* RunnerEvent turned away: StoreDegraded or TaskNotRunning.
RefuseEvent ==
  /\ Receive("RunnerEvent")
  /\ ~EventAccepted(msg.task)
  /\ runner' = [runner EXCEPT ![msg.task] = "rejected"]
  /\ pc' = "check"
  /\ UNCHANGED <<rows, gateVars, call, writer, todo, scanned, current, asker, answer, managerVars,
                 tokenVars, emitted, coordinator, processVars, user_cancelled, faults>>

\* The event is stored, or the row is no longer Running.
EventAnswered ==
  /\ TakeAnswer("event_wait")
  /\ answer # "error"
  /\ runner' = [runner EXCEPT ![current] = IF answer = "applied" THEN "working" ELSE "rejected"]
  /\ emitted' = [emitted EXCEPT ![current] = IF answer = "applied" THEN @ + 1 ELSE @]
  /\ pc' = "check"
  /\ UNCHANGED <<rows, gateVars, call, writer, mailbox, todo, scanned, managerVars, tokenVars,
                 coordinator, processVars, user_cancelled, faults>>

\* The event could not be stored.
EventFailed ==
  /\ TakeAnswer("event_wait")
  /\ answer = "error"
  /\ enter_degraded({})
  /\ runner' = [runner EXCEPT ![current] = "rejected"]
  /\ pc' = "check"
  /\ UNCHANGED <<rows, gateClosed, picker, call, writer, mailbox, todo, scanned, frozen,
                 root_cancelled, emitted, processVars, user_cancelled, faults>>

\* A result written whatever happened to the manager since the runner started.
WriteResult_Mutant ==
  /\ Receive("RunnerFinished")
  /\ msg.task \in active
  /\ AwaitWrite(TransitionCommand(msg.task, "Running", msg.result.next, msg.result.failure),
                "finish_wait", msg.task, NoCaller)
  /\ UNCHANGED <<rows, gateVars, call, todo, scanned, managerVars, tokenVars, runnerVars,
                 coordinator, processVars, user_cancelled, faults>>

\* RunnerFinished: Running -> Completed, Cancelled or Failed is written.
WriteResult ==
  /\ Receive("RunnerFinished")
  /\ msg.task \in active /\ ~frozen /\ ~degraded
  /\ AwaitWrite(TransitionCommand(msg.task, "Running", msg.result.next, msg.result.failure),
                "finish_wait", msg.task, NoCaller)
  /\ UNCHANGED <<rows, gateVars, call, todo, scanned, managerVars, tokenVars, runnerVars,
                 coordinator, processVars, user_cancelled, faults>>

\* RunnerFinished of a frozen or degraded manager: the result is not written.
DiscardResult ==
  /\ Receive("RunnerFinished")
  /\ msg.task \notin active \/ frozen \/ degraded
  /\ DropHandle(msg.task)
  /\ pc' = "check"
  /\ UNCHANGED <<rows, gateVars, call, writer, todo, scanned, current, asker, answer, scan_requested,
                 degraded, frozen, root_cancelled, runnerVars, coordinator, processVars,
                 user_cancelled, faults>>

\* The result is stored, or came too late (Conflict): the permit is free again.
ResultAnswered ==
  /\ TakeAnswer("finish_wait")
  /\ answer # "error"
  /\ DropHandle(current)
  /\ scan_requested' = (scan_requested \/ claims_allowed)
  /\ pc' = "check"
  /\ UNCHANGED <<rows, gateVars, call, writer, mailbox, todo, scanned, degraded, frozen,
                 root_cancelled, runnerVars, coordinator, processVars, user_cancelled, faults>>

\* A result that could not be stored is forgotten.
ResultFailed_Mutant ==
  /\ TakeAnswer("finish_wait")
  /\ answer = "error"
  /\ DropHandle(current)
  /\ pc' = "check"
  /\ UNCHANGED <<rows, gateVars, call, writer, mailbox, todo, scanned, scan_requested, degraded,
                 frozen, root_cancelled, runnerVars, coordinator, processVars,
                 user_cancelled, faults>>

\* The result could not be stored: enter_degraded, then remove_active.
ResultFailed ==
  /\ TakeAnswer("finish_wait")
  /\ answer = "error"
  /\ enter_degraded({current})
  /\ pc' = "check"
  /\ UNCHANGED <<rows, gateClosed, picker, call, writer, mailbox, todo, scanned, frozen, root_cancelled,
                 runnerVars, processVars, user_cancelled, faults>>

-----------------------------------------------------------------------------
(* The coordinator of a degraded store (DegradedCoordinator::run).         *)

\* recover_store: one recovery transaction, unless the application quits.
CoordinatorRecover ==
  /\ Alive
  /\ coordinator = "recover"
  /\ IF service = "Quiescing"
       THEN /\ coordinator' = "off"
            /\ UNCHANGED writer
       ELSE /\ coordinator' = "recover_wait"
            /\ writer' = Append(writer, RecoverCommand("coordinator", "STORE_WRITE_FAILED"))
  /\ UNCHANGED <<rows, gateVars, call, mailbox, actorVars, managerVars, tokenVars,
                 runnerVars, processVars, user_cancelled, faults>>

\* A failed recovery attempt that is taken for a successful one.
CoordinatorFinalize_Mutant ==
  /\ Alive
  /\ coordinator \in {"recover", "flush"}
  /\ coordinator' = "finalize_wait"
  /\ mailbox' = Append(mailbox, Message("FinalizeDegraded", NoTask, NoCaller, NoTransition))
  /\ UNCHANGED <<rows, gateVars, call, writer, actorVars, managerVars, tokenVars,
                 runnerVars, processVars, user_cancelled, faults>>

\* flush_recovery, retried until the dispatcher has published the recovery, and
\* finalize: the actor is asked to be Ready again.
CoordinatorFinalize ==
  /\ Alive
  /\ coordinator = "flush"
  /\ IF service = "Quiescing"
       THEN /\ coordinator' = "off"
            /\ UNCHANGED mailbox
       ELSE /\ coordinator' = "finalize_wait"
            /\ mailbox' = Append(mailbox,
                           Message("FinalizeDegraded", NoTask, NoCaller, NoTransition))
  /\ UNCHANGED <<rows, gateVars, call, writer, actorVars, managerVars, tokenVars,
                 runnerVars, processVars, user_cancelled, faults>>

\* FinalizeDegraded: what runners sent meanwhile is discarded, claiming resumes.
FinalizeDegraded ==
  /\ Receive("FinalizeDegraded")
  /\ IF frozen \/ service = "Quiescing" \/ ~degraded
       THEN UNCHANGED <<degraded, scan_requested, service>>
       ELSE /\ degraded' = FALSE
            /\ scan_requested' = TRUE
            /\ service' = "Ready"
  /\ coordinator' = "off"
  /\ pc' = "check"
  /\ UNCHANGED <<rows, gateClosed, picker, call, writer, todo, scanned, current, asker, answer, active,
                 tokenVars, runnerVars, processVars, user_cancelled, faults>>

-----------------------------------------------------------------------------
(* Runners (FakeTaskRunner::run and the task that reports its outcome).    *)

Finish(t, result) ==
  /\ runner' = [runner EXCEPT ![t] = "done"]
  /\ mailbox' = Append(mailbox, Message("RunnerFinished", t, NoCaller, result))
  /\ UNCHANGED <<rows, gateVars, call, writer, actorVars, managerVars, tokenVars, emitted,
                 coordinator, processVars, user_cancelled, faults>>

\* The next event is sent through the sink.
Emit(t) ==
  /\ Alive
  /\ runner[t] = "working"
  /\ ~IsCancelled(t)
  /\ emitted[t] < RunnerSteps
  /\ runner' = [runner EXCEPT ![t] = "sending"]
  /\ mailbox' = Append(mailbox, Message("RunnerEvent", t, NoCaller, NoTransition))
  /\ UNCHANGED <<rows, gateVars, call, writer, actorVars, managerVars, tokenVars, emitted,
                 coordinator, processVars, user_cancelled, faults>>

Succeed(t) ==
  /\ Alive
  /\ runner[t] = "working"
  /\ ~IsCancelled(t)
  /\ emitted[t] = RunnerSteps
  /\ Finish(t, Transition("Completed", NoFailure))

StopOnCancel(t) ==
  /\ Alive
  /\ runner[t] \in {"working", "rejected"}
  /\ IsCancelled(t)
  /\ Finish(t, Transition("Cancelled", NoFailure))

FailOnRejection(t) ==
  /\ Alive
  /\ runner[t] = "rejected"
  /\ ~IsCancelled(t)
  /\ Finish(t, Transition("Failed", "FAKE_RUNNER_EVENT_REJECTED"))

\* A runner that fails by itself, or panics.
FailByItself(t) ==
  /\ Alive
  /\ RunnersMayFail
  /\ runner[t] = "working"
  /\ Finish(t, Transition("Failed", "RUNNER_FAILED"))

-----------------------------------------------------------------------------
(* Shutdown (RuntimeShutdown::shutdown), exit, crash and restart.          *)

\* begin_quiescing: no caller passes the gate any more.
BeginQuiescing ==
  /\ phase = "up"
  /\ gateClosed' = TRUE
  /\ service' = "Quiescing"
  /\ phase' = "idle_wait"
  /\ UNCHANGED <<rows, picker, call, writer, mailbox, actorVars, managerVars, tokenVars, runnerVars,
                 coordinator, outcome, inherited, restarts, user_cancelled, faults>>

\* The barrier is sent while callers are still inside the gate.
SendQuiesce_Mutant ==
  /\ phase = "idle_wait"
  /\ mailbox' = Append(mailbox, Message("Quiesce", NoTask, NoCaller, NoTransition))
  /\ phase' = "barrier"
  /\ UNCHANGED <<rows, gateVars, call, writer, actorVars, managerVars, tokenVars, runnerVars,
                 coordinator, outcome, inherited, restarts, user_cancelled, faults>>

\* wait_for_idle, then the barrier message of quiesce_and_interrupt.
SendQuiesce ==
  /\ phase = "idle_wait"
  /\ InFlight = {}
  /\ mailbox' = Append(mailbox, Message("Quiesce", NoTask, NoCaller, NoTransition))
  /\ phase' = "barrier"
  /\ UNCHANGED <<rows, gateVars, call, writer, actorVars, managerVars, tokenVars, runnerVars,
                 coordinator, outcome, inherited, restarts, user_cancelled, faults>>

\* The actor freezes itself and writes the recovery of an orderly quit.
Quiesce ==
  /\ Receive("Quiesce")
  /\ ~frozen
  /\ frozen' = TRUE
  /\ scan_requested' = FALSE
  /\ service' = "Quiescing"
  /\ AwaitWrite(RecoverCommand("actor", "APP_SHUTDOWN"), "quiesce_wait", NoTask, NoCaller)
  /\ UNCHANGED <<rows, gateClosed, picker, call, todo, scanned, degraded, active, cancelled, root_cancelled,
                 runnerVars, coordinator, processVars, user_cancelled, faults>>

\* The barrier of a shutdown that gave up waiting and froze the manager itself.
QuiesceRefused ==
  /\ Receive("Quiesce")
  /\ frozen
  /\ pc' = "check"
  /\ UNCHANGED <<rows, gateVars, call, writer, todo, scanned, current, asker, answer, managerVars,
                 tokenVars, runnerVars, coordinator, processVars, user_cancelled, faults>>

\* Durable: the outcome is Clean and the runners are cancelled after the fact.
QuiesceDurable ==
  /\ TakeAnswer("quiesce_wait")
  /\ answer = "applied"
  /\ pc' = "check"
  /\ IF phase = "barrier"
       THEN /\ phase' = "draining" /\ outcome' = "Clean"
            /\ cancelled' = cancelled \cup active
       ELSE UNCHANGED <<phase, outcome, cancelled>>
  /\ UNCHANGED <<rows, gateVars, call, writer, mailbox, todo, scanned, managerVars, frozen,
                 root_cancelled, runnerVars, coordinator, inherited, restarts, user_cancelled, faults>>

\* Frozen: the recovery failed, the next start has to do it.
QuiesceFailed ==
  /\ TakeAnswer("quiesce_wait")
  /\ answer = "error"
  /\ pc' = "check"
  /\ IF phase = "barrier"
       THEN /\ phase' = "stopping" /\ outcome' = "Degraded"
            /\ root_cancelled' = TRUE
       ELSE UNCHANGED <<phase, outcome, root_cancelled>>
  /\ UNCHANGED <<rows, gateVars, call, writer, mailbox, todo, scanned, managerVars, frozen, cancelled,
                 runnerVars, coordinator, inherited, restarts, user_cancelled, faults>>

\* A deadline on the barrier only, not on the callers still inside the gate.
ShutdownTimeout_Mutant ==
  /\ phase = "barrier"
  /\ frozen' = TRUE
  /\ root_cancelled' = TRUE
  /\ phase' = "stopping" /\ outcome' = "Degraded"
  /\ UNCHANGED <<rows, gateVars, call, writer, mailbox, actorVars, managerVars, cancelled,
                 runnerVars, coordinator, inherited, restarts, user_cancelled, faults>>

\* The persistence deadline passes: freeze_and_cancel from outside the actor.
ShutdownTimeout ==
  /\ phase \in {"idle_wait", "barrier"}
  /\ frozen' = TRUE
  /\ root_cancelled' = TRUE
  /\ phase' = "stopping" /\ outcome' = "Degraded"
  /\ UNCHANGED <<rows, gateVars, call, writer, mailbox, actorVars, managerVars, cancelled,
                 runnerVars, coordinator, inherited, restarts, user_cancelled, faults>>

\* wait_for_runners: every runner is done, or the runner deadline passes.
RunnersDrained ==
  /\ phase = "draining"
  /\ phase' = "stopping"
  /\ UNCHANGED <<rows, gateVars, call, writer, mailbox, actorVars, managerVars, tokenVars,
                 runnerVars, coordinator, outcome, inherited, restarts, user_cancelled, faults>>

\* The pool is closed and the process exits: only the table is left.
Exit ==
  /\ phase = "stopping"
  /\ phase' = "stopped"
  /\ NewProcess
  /\ UNCHANGED <<rows, outcome, inherited, restarts, user_cancelled, faults>>

\* The process is killed at any point.
Crash ==
  /\ Alive
  /\ phase' = "stopped" /\ outcome' = "Crashed"
  /\ NewProcess
  /\ UNCHANGED <<rows, inherited, restarts, user_cancelled, faults>>

\* start_primary: the recovery transaction precedes everything else.  (Without a task
\* it is the first start again.)
Restart ==
  /\ phase = "stopped"
  /\ restarts < MaxRestarts /\ rows # << >>
  /\ restarts' = restarts + 1
  /\ RecoverRows("APP_RESTARTED")
  /\ phase' = "up" /\ outcome' = "none" /\ inherited' = Len(rows)
  /\ NewProcess
  /\ UNCHANGED <<user_cancelled, faults>>

-----------------------------------------------------------------------------
CallerStep ==
  \/ \E c \in Callers :
       \/ \E source \in {NoTask} \cup DOMAIN rows : BeginInsert(c, source)
       \/ SendInsert(c)
       \/ SendNotify(c)
       \/ \E t \in DOMAIN rows : SendCancel(c, t)
       \/ OpenDialog(c)
       \/ Disconnect(c)
  \/ CloseDialog

ActorMessage ==
  \/ NotifyQueued
  \/ CancelQueued \/ CancelRunning \/ CancelRefused
  \/ AppendEvent \/ RefuseEvent
  \/ WriteResult \/ DiscardResult
  \/ FinalizeDegraded
  \/ Quiesce \/ QuiesceRefused

ActorLoop ==
  \/ Check \/ ScanFails \/ EndScan \/ Claim
  \/ ClaimApplied \/ ClaimRefused \/ CancelAnswered
  \/ EventAnswered \/ EventFailed \/ ResultAnswered \/ ResultFailed
  \/ QuiesceDurable \/ QuiesceFailed

RunnerStep ==
  \E t \in Ids :
    Emit(t) \/ Succeed(t) \/ StopOnCancel(t) \/ FailOnRejection(t) \/ FailByItself(t)

Next ==
  \/ CallerStep
  \/ WriterExecute \/ WriterFail
  \/ Tick \/ ActorMessage \/ ActorLoop
  \/ CoordinatorRecover \/ CoordinatorFinalize
  \/ RunnerStep
  \/ BeginQuiescing \/ SendQuiesce \/ ShutdownTimeout \/ RunnersDrained
  \/ Exit \/ Crash \/ Restart

Spec == Init /\ [][Next]_vars

\* Every part of the process is a task of the runtime, and each runs again when
\* it can go on; select! picks at random between a message and the tick, so
\* neither is passed over for ever.  A dialog on the main thread (macOS) keeps
\* run_application from being polled: it does not start the shutdown, nor exit.
\* Nothing obliges a client to go away or to call, a user to close a dialog, the
\* store to fail, the application to quit or the process to crash.
Fairness ==
  /\ \A c \in Callers : WF_vars(SendInsert(c) \/ SendNotify(c))
  /\ WF_vars(WriterExecute)
  /\ SF_vars(Tick) /\ SF_vars(ActorMessage) /\ WF_vars(ActorLoop)
  /\ WF_vars(CoordinatorRecover \/ CoordinatorFinalize)
  /\ \A t \in Ids :
       WF_vars(Emit(t) \/ Succeed(t) \/ StopOnCancel(t) \/ FailOnRejection(t))
  /\ WF_vars(MainThreadIsFree /\ (SendQuiesce \/ ShutdownTimeout))
  /\ WF_vars(RunnersDrained) /\ WF_vars(MainThreadIsFree /\ Exit)

FairSpec == Spec /\ Fairness

-----------------------------------------------------------------------------
(* Safety.                                                                 *)

LiveRunner(t) == runner[t] \in {"working", "sending", "rejected"}

\* "running task has no active cancellation token" (cancel_current_with_status)
\* never happens: while the manager serves requests, every Running row, whoever
\* made it so and whatever failed since, has a handle that can cancel it.
RunningHasHandle ==
  (Alive /\ ~frozen /\ ~degraded) =>
    \A t \in DOMAIN rows : rows[t].status = "Running" => t \in active

\* The semaphore bounds what really runs: a runner keeps its permit until it has
\* stopped, across cancellation, a degraded store and its recovery.
RunnersHoldPermits ==
  /\ \A t \in Ids : LiveRunner(t) => t \in active
  /\ Cardinality(active) <= MaxRunning

\* Only a user's request makes a task Cancelled.  Runners stopped by a degraded
\* store or by a quit also report Cancelled, and those results must be lost.
CancelledOnlyByUser ==
  \A t \in DOMAIN rows : rows[t].status = "Cancelled" => t \in user_cancelled

\* A runner whose task the table calls finished has been told to stop, except
\* between the recovery write of a quit and the cancel_all that follows it.
FinishedTasksAreStopped ==
  \A t \in DOMAIN rows :
    (LiveRunner(t) /\ rows[t].status # "Running" /\ ~(frozen /\ phase = "barrier"))
      => IsCancelled(t)

\* A shutdown that reports Clean has left no task behind: nothing that passed the
\* gate, sat in a queue or was being claimed is Queued or Running afterwards.
CleanShutdownLeavesNothing ==
  outcome = "Clean" => \A t \in DOMAIN rows : ~Incomplete(rows[t].status)

\* A restart resumes nothing: what an earlier process left behind, however it
\* ended, is final before the first request, and stays so.
InheritedTasksAreOver ==
  Alive => \A t \in 1..inherited : ~Incomplete(rows[t].status)

\* A scan starts tasks in (created_at, id) order: whatever conflicts or fails on the
\* way, none it started from is overtaken by one that ranks behind it, and only a
\* task that its snapshot holds is started.  (A row inserted meanwhile may rank
\* anywhere, and waits for the next scan.)
ClaimsInOrder ==
  [][\A t \in DOMAIN rows :
       rows[t].status = "Queued" /\ rows'[t].status = "Running"
         => /\ t \in 1..scanned
            /\ \A s \in 1..scanned :
                 rows[s].status = "Queued" => Rank[t] <= Rank[s]]_vars

\* What the design says of a quit: a task it finds unfinished becomes Interrupted.
\* No task fails because the application is quitting.
QuitNeverFailsATask ==
  gateClosed => \A t \in DOMAIN rows : rows[t].failure # "FAKE_RUNNER_EVENT_REJECTED"

-----------------------------------------------------------------------------
(* Liveness.                                                               *)

Has(t, status) == t \in DOMAIN rows /\ rows[t].status = status

\* Whatever became of its notification, a queued task is claimed, cancelled or
\* interrupted as long as the application stays up (the reconcile tick).
QueuedTasksAreTaken ==
  \A t \in Ids : Has(t, "Queued") ~> (~Has(t, "Queued") \/ phase # "up")

\* A running task gets a final state: from its runner, or from the recovery of a
\* store that could not record it.
RunningTasksFinish ==
  \A t \in Ids : Has(t, "Running") ~> (~Has(t, "Running") \/ phase # "up")

\* A degraded store is recovered and the service is Ready again.
DegradedStoreRecovers == degraded ~> (~degraded \/ phase # "up")

\* A quit ends within its deadlines, whoever still holds the gate: a caller that
\* waits, a dialog nobody closes, a runner that does not stop.  A dialog on the main
\* thread holds it up, as QuitEndsTheProcess of Registration shows, until it is closed.
QuitCompletes == (phase \notin {"up", "stopped"} /\ MainThreadIsFree) ~> phase = "stopped"

=============================================================================
