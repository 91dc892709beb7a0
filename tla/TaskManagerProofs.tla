-------------------------- MODULE TaskManagerProofs -------------------------
(***************************************************************************)
(* Theorems about TaskManager, for any callers, tasks, permits and runner  *)
(* scripts, and any number of faults and restarts.                         *)
(*                                                                         *)
(* The inductive invariant says how the parts of the process hang together *)
(* while their messages and commands are under way: whose command is in    *)
(* the writer's queue, what a message in the mailbox says of its runner,   *)
(* what the scan knows of the rows it has still to claim, what a degraded  *)
(* store and a quit rule out.  Each part has a lemma of its own, and a     *)
(* lemma says which steps can change which variables.                      *)
(***************************************************************************)
EXTENDS TaskManager, FiniteSetTheorems, SequenceTheorems, TLAPS

-----------------------------------------------------------------------------
(* Types.                                                                  *)

Waits == {"claim_wait", "cancel_wait", "event_wait", "finish_wait", "quiesce_wait"}

ActorAt == {"idle", "check", "claim"} \cup Waits

Calls ==
  [op : {"idle", "insert", "writing", "notify", "waiting", "dialog"}, task : Ids \cup {NoTask}]

\* Whoever sends a command has one of the transitions the domain can construct.
Commands ==
  {c \in [op : {"insert", "transition", "append", "recover"},
          by : Callers \cup {NoCaller, "actor", "coordinator"},
          task : Ids \cup {NoTask}, expected : TaskStatus, transition : TaskTransition] :
     c.op = "recover" => c.transition.next = "Interrupted"}

Messages ==
  [kind : {"NotifyQueued", "Cancel", "RunnerEvent", "RunnerFinished",
           "FinalizeDegraded", "Quiesce"},
   task : Ids \cup {NoTask}, from : Callers \cup {NoCaller}, result : TaskTransition]

StoreTypeOK ==
  /\ rows \in Seq(Row) /\ Len(rows) <= MaxTasks
  /\ writer \in Seq(Commands)
  /\ inherited \in Nat
  /\ user_cancelled \subseteq Ids
  /\ faults \in Nat /\ restarts \in Nat

ActorTypeOK ==
  /\ mailbox \in Seq(Messages)
  /\ pc \in ActorAt
  /\ todo \in Seq(Ids) /\ scanned \in Nat
  /\ current \in Ids \cup {NoTask}
  /\ asker \in Callers \cup {NoCaller}
  /\ answer \in {"none", "applied", "conflict", "error"}
  /\ active \subseteq Ids /\ cancelled \subseteq Ids
  /\ runner \in [Ids -> {"none", "working", "sending", "rejected", "done"}]
  /\ emitted \in [Ids -> Nat]

ProcessTypeOK ==
  /\ call \in [Callers -> Calls]
  /\ service \in {"Ready", "StoreDegraded", "Quiescing"}
  /\ picker \in {"closed"} \cup Dialogs
  /\ coordinator \in {"off", "recover", "recover_wait", "flush", "finalize_wait"}
  /\ phase \in {"up", "idle_wait", "barrier", "draining", "stopping", "stopped"}
  /\ outcome \in {"none", "Clean", "Degraded", "Crashed"}
  /\ gateClosed \in BOOLEAN /\ scan_requested \in BOOLEAN /\ degraded \in BOOLEAN
  /\ frozen \in BOOLEAN /\ root_cancelled \in BOOLEAN

\* Every variable has its type, and the table keeps within its size.
TypeOK == StoreTypeOK /\ ActorTypeOK /\ ProcessTypeOK

-----------------------------------------------------------------------------
(* The invariant, part by part.                                            *)

Status(t) == rows[t].status

\* The one command the actor is waiting for at pc.
Awaited(command) ==
  /\ answer = "none"
  /\ command.task = current
  /\ \/ /\ pc = "claim_wait" /\ command.op = "transition"
        /\ command.expected = "Queued" /\ command.transition.next = "Running"
     \/ /\ pc = "cancel_wait" /\ command.op = "transition"
        /\ command.expected = "Queued" /\ command.transition.next = "Cancelled"
     \/ /\ pc = "event_wait" /\ command.op = "append"
     \/ /\ pc = "finish_wait" /\ command.op = "transition"
        /\ command.expected = "Running" /\ is_retryable(command.transition.next)
     \/ /\ pc = "quiesce_wait" /\ command.op = "recover"

\* The writer's queue: inserts of callers, the command the actor waits for, the
\* recovery the coordinator waits for, and of the last two never a second one.
QueueInv ==
  /\ \A i \in DOMAIN writer :
       /\ writer[i].by = "actor" => Awaited(writer[i])
       /\ writer[i].by = "coordinator" =>
            writer[i].op = "recover" /\ coordinator = "recover_wait"
       /\ writer[i].by \notin {"actor", "coordinator"} => writer[i].op = "insert"
  /\ \A i, j \in DOMAIN writer :
       writer[i].by \in {"actor", "coordinator"} /\ writer[i].by = writer[j].by => i = j
  /\ pc \notin Waits => answer = "none"

FromRunner(m) == m.kind \in {"RunnerEvent", "RunnerFinished"}

\* Two messages that only the same part of the process could have sent.
SameSender(m, n) ==
  \/ m.kind = "FinalizeDegraded" /\ n.kind = "FinalizeDegraded"
  \/ FromRunner(m) /\ FromRunner(n) /\ m.task = n.task

\* What a message says still holds of its sender.
Says(m) ==
  /\ FromRunner(m) => m.task \in Ids
  /\ m.kind = "RunnerEvent" =>
       runner[m.task] = "sending" /\ ~(pc = "event_wait" /\ current = m.task)
  /\ m.kind = "RunnerFinished" =>
       /\ runner[m.task] = "done" /\ is_retryable(m.result.next)
       /\ ~(pc = "finish_wait" /\ current = m.task)
  /\ m.kind = "Cancel" => m.task \in user_cancelled
  /\ m.kind = "FinalizeDegraded" => coordinator = "finalize_wait"
  /\ m.kind = "Quiesce" => phase = "barrier" \/ frozen

\* The mailbox: a runner's message is its last one, and the actor handles no
\* earlier one of it.
MailboxInv ==
  /\ \A i \in DOMAIN mailbox : Says(mailbox[i])
  /\ \A i, j \in DOMAIN mailbox : SameSender(mailbox[i], mailbox[j]) => i = j
  /\ pc = "cancel_wait" => current \in user_cancelled
  /\ pc = "event_wait" => current \in Ids /\ runner[current] = "sending"
  /\ pc = "finish_wait" => current \in Ids /\ runner[current] = "done"

\* Handles: a runner lives with its handle and after its row was Running.
HandleInv ==
  /\ \A t \in Ids : LiveRunner(t) => t \in active
  /\ \A t \in Ids : runner[t] # "none" => t \in DOMAIN rows /\ Status(t) # "Queued"
  /\ \A t \in active :
       /\ t \in DOMAIN rows
       /\ Status(t) = "Queued" => pc = "claim_wait" /\ current = t
  /\ cancelled \subseteq active
  /\ IsFiniteSet(active) /\ Cardinality(active) <= MaxRunning

Listed(t) == \E i \in DOMAIN todo : todo[i] = t

\* The scan: what it has still to claim are the queued rows of its snapshot, in order.
ScanInv ==
  pc \in {"claim", "claim_wait"} =>
    /\ ~degraded
    /\ \A i \in DOMAIN todo :
         todo[i] \in 1..scanned /\ Status(todo[i]) = "Queued" /\ todo[i] \notin active
    /\ \A i, j \in DOMAIN todo : i < j => Rank[todo[i]] < Rank[todo[j]]
    /\ \A s \in 1..scanned :
         /\ s \in DOMAIN rows
         /\ Status(s) = "Queued" => Listed(s) \/ (pc = "claim_wait" /\ s = current)

\* The claim under way: a handle without a runner, ahead of the rest of the scan.
ClaimInv ==
  pc = "claim_wait" =>
    /\ current \in active /\ current \notin cancelled
    /\ runner[current] = "none"
    /\ answer \in {"none", "error"} => Status(current) = "Queued"
    /\ answer = "applied" => Status(current) = "Running"
    /\ answer # "conflict"
    /\ current \in 1..scanned
    /\ \A i \in DOMAIN todo : Rank[current] < Rank[todo[i]]

\* A degraded store: every runner has been told to stop, and the coordinator
\* asks for Ready only when no row is Running.
DegradedInv ==
  /\ degraded => \A t \in active : IsCancelled(t)
  /\ coordinator # "off" => degraded
  /\ coordinator \in {"flush", "finalize_wait"} =>
       \A t \in DOMAIN rows : Status(t) # "Running"

\* The result of the actor's last write has been taken into account.
ResultInv ==
  pc = "finish_wait" /\ answer \in {"applied", "conflict"} => Status(current) # "Running"

\* Nobody but a user can have a running task cancelled for good.
MayCancel(t) == t \in user_cancelled \/ frozen \/ degraded \/ Status(t) # "Running"

CancelInv ==
  /\ \A t \in cancelled : MayCancel(t)
  /\ root_cancelled => frozen
  /\ \A i \in DOMAIN mailbox :
       mailbox[i].kind = "RunnerFinished" /\ mailbox[i].result.next = "Cancelled"
         => MayCancel(mailbox[i].task)
  /\ \A i \in DOMAIN writer :
       writer[i].op = "transition" /\ writer[i].transition.next = "Cancelled" =>
         \/ writer[i].task \in user_cancelled
         \/ writer[i].expected = "Running" /\ Status(writer[i].task) # "Running"

NothingIncomplete == \A t \in DOMAIN rows : ~Incomplete(Status(t))

\* The recovery of an orderly quit is durable.
Settled ==
  \/ phase = "barrier" /\ pc = "quiesce_wait" /\ answer = "applied"
  \/ outcome = "Clean"

\* A quit: the gate stays closed, at the barrier nobody can insert, and what was
\* sent before the recovery is before it in the writer's queue.
QuitInv ==
  /\ phase \notin {"up", "stopped"} => gateClosed
  /\ root_cancelled => phase = "stopping"
  /\ pc = "quiesce_wait" => frozen /\ (phase = "barrier" \/ root_cancelled)
  /\ Alive /\ (phase = "barrier" \/ outcome = "Clean") =>
       gateClosed /\ \A c \in Callers : call[c].op # "insert"
  /\ phase = "barrier" =>
       \A i, j \in DOMAIN writer : writer[i].by = "actor" /\ writer[i].op = "recover"
                                     /\ i < j => writer[j].op # "insert"
  /\ Settled => NothingIncomplete /\ \A i \in DOMAIN writer : writer[i].op # "insert"

InheritedInv ==
  \A t \in 1..inherited : t \in DOMAIN rows /\ ~Incomplete(Status(t))

ManagerInv ==
  /\ TypeOK
  /\ QueueInv /\ MailboxInv
  /\ HandleInv /\ ScanInv /\ ClaimInv
  /\ DegradedInv /\ ResultInv /\ RunningHasHandle /\ FinishedTasksAreStopped
  /\ CancelInv /\ CancelledOnlyByUser
  /\ QuitInv /\ InheritedInv

-----------------------------------------------------------------------------
(* Queues and rows.                                                        *)

LEMMA Pushed ==
  ASSUME NEW S, NEW s \in Seq(S), NEW e \in S
  PROVE  /\ Append(s, e) \in Seq(S)
         /\ DOMAIN Append(s, e) = 1..(Len(s) + 1)
         /\ DOMAIN s = 1..Len(s) /\ Len(s) \in Nat
         /\ Len(Append(s, e)) = Len(s) + 1
         /\ \A i \in 1..Len(s) : Append(s, e)[i] = s[i]
         /\ Append(s, e)[Len(s) + 1] = e
  BY AppendProperties, LenProperties

LEMMA Popped ==
  ASSUME NEW S, NEW s \in Seq(S), s # << >>
  PROVE  /\ Tail(s) \in Seq(S)
         /\ Head(s) \in S /\ Head(s) = s[1] /\ 1 \in DOMAIN s
         /\ DOMAIN s = 1..Len(s) /\ DOMAIN Tail(s) = 1..(Len(s) - 1)
         /\ Len(s) \in Nat /\ Len(s) >= 1
         /\ \A i \in 1..(Len(s) - 1) : Tail(s)[i] = s[i + 1]
  BY HeadTailProperties, LenProperties, EmptySeq

\* A command appended to the writer's queue is its last one.
LEMMA Sent ==
  ASSUME StoreTypeOK, NEW command \in Commands, writer' = Append(writer, command)
  PROVE  /\ writer' \in Seq(Commands)
         /\ \A i \in DOMAIN writer : i \in DOMAIN writer' /\ writer'[i] = writer[i]
         /\ \A i \in DOMAIN writer' :
              \/ i \in DOMAIN writer /\ writer'[i] = writer[i]
              \/ /\ writer'[i] = command
                 /\ \A j \in DOMAIN writer' : i <= j => i = j
                 /\ i \notin DOMAIN writer
<1>1. writer \in Seq(Commands)
  BY DEF StoreTypeOK
<1>2. QED BY <1>1, Pushed

\* The command the writer has executed was its first one.
LEMMA Executed ==
  ASSUME StoreTypeOK, writer # << >>, writer' = Tail(writer)
  PROVE  /\ writer' \in Seq(Commands)
         /\ Head(writer) \in Commands /\ Head(writer) = writer[1] /\ 1 \in DOMAIN writer
         /\ \A i \in DOMAIN writer' : /\ i + 1 \in DOMAIN writer /\ i + 1 > 1
                                      /\ i \in Nat
                                      /\ writer'[i] = writer[i + 1]
<1>1. writer \in Seq(Commands)
  BY DEF StoreTypeOK
<1>2. QED BY <1>1, Popped

\* The same of the actor's mailbox.
LEMMA Posted ==
  ASSUME ActorTypeOK, NEW m \in Messages, mailbox' = Append(mailbox, m)
  PROVE  /\ mailbox' \in Seq(Messages)
         /\ \A i \in DOMAIN mailbox : i \in DOMAIN mailbox' /\ mailbox'[i] = mailbox[i]
         /\ \A i \in DOMAIN mailbox' :
              \/ i \in DOMAIN mailbox /\ mailbox'[i] = mailbox[i]
              \/ /\ mailbox'[i] = m
                 /\ \A j \in DOMAIN mailbox' : i <= j => i = j
                 /\ i \notin DOMAIN mailbox
<1>1. mailbox \in Seq(Messages)
  BY DEF ActorTypeOK
<1>2. QED BY <1>1, Pushed

LEMMA Received ==
  ASSUME ActorTypeOK, mailbox # << >>, mailbox' = Tail(mailbox)
  PROVE  /\ mailbox' \in Seq(Messages)
         /\ msg \in Messages /\ msg = mailbox[1] /\ 1 \in DOMAIN mailbox
         /\ \A i \in DOMAIN mailbox' : /\ i + 1 \in DOMAIN mailbox /\ i + 1 > 1
                                       /\ i \in Nat
                                       /\ mailbox'[i] = mailbox[i + 1]
<1>1. mailbox \in Seq(Messages)
  BY DEF ActorTypeOK
<1>2. QED BY <1>1, Popped DEF msg

\* A client that goes away takes its name off what it has sent, and nothing else.
LEMMA Orphaned ==
  ASSUME TypeOK, NEW c \in Callers, Disconnect(c)
  PROVE  /\ writer' \in Seq(Commands) /\ mailbox' \in Seq(Messages)
         /\ DOMAIN writer' = DOMAIN writer /\ DOMAIN mailbox' = DOMAIN mailbox
         /\ \A i \in DOMAIN writer :
              /\ writer'[i].op = writer[i].op /\ writer'[i].task = writer[i].task
              /\ writer'[i].expected = writer[i].expected
              /\ writer'[i].transition = writer[i].transition
              /\ \/ writer'[i].by = writer[i].by
                 \/ writer[i].by \in Callers /\ writer'[i].by = NoCaller
         /\ \A i \in DOMAIN mailbox :
              /\ mailbox'[i].kind = mailbox[i].kind /\ mailbox'[i].task = mailbox[i].task
              /\ mailbox'[i].result = mailbox[i].result
<1>1. /\ writer \in Seq(Commands) /\ DOMAIN writer = 1..Len(writer) /\ Len(writer) \in Nat
      /\ mailbox \in Seq(Messages) /\ DOMAIN mailbox = 1..Len(mailbox)
      /\ Len(mailbox) \in Nat
  BY LenProperties DEF TypeOK, StoreTypeOK, ActorTypeOK
<1>2. \A i \in DOMAIN writer : writer[i] \in Commands
  BY <1>1, ElementOfSeq
<1>3. \A i \in DOMAIN mailbox : mailbox[i] \in Messages
  BY <1>1, ElementOfSeq
<1>4. /\ DOMAIN writer' = DOMAIN writer
      /\ \A i \in DOMAIN writer :
           writer'[i] = IF writer[i].by = c THEN [writer[i] EXCEPT !.by = NoCaller]
                                            ELSE writer[i]
  BY DEF Disconnect
<1>5. /\ DOMAIN mailbox' = DOMAIN mailbox
      /\ \A i \in DOMAIN mailbox :
           mailbox'[i] = IF mailbox[i].from = c THEN [mailbox[i] EXCEPT !.from = NoCaller]
                                                ELSE mailbox[i]
  BY DEF Disconnect
<1>6. ASSUME NEW w \in Commands
      PROVE  LET v == [w EXCEPT !.by = NoCaller] IN
             /\ v \in Commands /\ v.op = w.op /\ v.task = w.task /\ v.expected = w.expected
             /\ v.transition = w.transition /\ v.by = NoCaller
  BY DEF Commands
<1>7. ASSUME NEW m \in Messages
      PROVE  LET n == [m EXCEPT !.from = NoCaller] IN
             /\ n \in Messages /\ n.kind = m.kind /\ n.task = m.task /\ n.result = m.result
  BY DEF Messages
<1>8. /\ \A i \in 1..Len(writer) : writer'[i] \in Commands
      /\ \A i \in 1..Len(mailbox) : mailbox'[i] \in Messages
  BY <1>1, <1>2, <1>3, <1>4, <1>5, <1>6, <1>7
<1>9. /\ writer' = [i \in 1..Len(writer) |-> writer'[i]]
      /\ mailbox' = [i \in 1..Len(mailbox) |-> mailbox'[i]]
  BY <1>1 DEF Disconnect
<1>10. /\ writer' \in [1..Len(writer) -> Commands]
       /\ mailbox' \in [1..Len(mailbox) -> Messages]
  BY <1>8, <1>9
<1>11. writer' \in Seq(Commands) /\ mailbox' \in Seq(Messages)
  <2>1. ASSUME NEW S, NEW n \in Nat, NEW s \in [1..n -> S]  PROVE  s \in Seq(S)
    BY SeqDef
  <2>2. Len(writer) \in Nat /\ Len(mailbox) \in Nat
    BY <1>1
  <2>3. writer' \in Seq(Commands)
    BY <1>10, <2>1, <2>2, Zenon
  <2>4. mailbox' \in Seq(Messages)
    BY <1>10, <2>1, <2>2, Zenon
  <2>5. QED BY <2>3, <2>4
<1>12. \A i \in DOMAIN writer :
         /\ writer'[i].op = writer[i].op /\ writer'[i].task = writer[i].task
         /\ writer'[i].expected = writer[i].expected
         /\ writer'[i].transition = writer[i].transition
         /\ \/ writer'[i].by = writer[i].by
            \/ writer[i].by \in Callers /\ writer'[i].by = NoCaller
  <2> SUFFICES ASSUME NEW i \in DOMAIN writer
               PROVE  /\ writer'[i].op = writer[i].op /\ writer'[i].task = writer[i].task
                      /\ writer'[i].expected = writer[i].expected
                      /\ writer'[i].transition = writer[i].transition
                      /\ \/ writer'[i].by = writer[i].by
                         \/ writer[i].by \in Callers /\ writer'[i].by = NoCaller
    OBVIOUS
  <2>1. CASE writer[i].by = c
    <3>1. writer[i] \in Commands /\ writer'[i] = [writer[i] EXCEPT !.by = NoCaller]
      BY <1>2, <1>4, <2>1
    <3>2. /\ writer'[i].op = writer[i].op /\ writer'[i].task = writer[i].task
          /\ writer'[i].expected = writer[i].expected
          /\ writer'[i].transition = writer[i].transition /\ writer'[i].by = NoCaller
      BY <1>6, <3>1
    <3>3. QED BY <2>1, <3>2
  <2>2. CASE writer[i].by # c
    BY <1>4, <2>2
  <2>3. QED BY <2>1, <2>2
<1>13. \A i \in DOMAIN mailbox :
         /\ mailbox'[i].kind = mailbox[i].kind /\ mailbox'[i].task = mailbox[i].task
         /\ mailbox'[i].result = mailbox[i].result
  BY <1>3, <1>5, <1>7
<1>14. QED BY <1>4, <1>5, <1>11, <1>12, <1>13

-----------------------------------------------------------------------------
(* Which steps change which variables.                                     *)

Renewal == Exit \/ Crash \/ Restart

WriterStep == WriterExecute \/ WriterFail

\* The steps of the actor that send a command to the writer.
Sends == Claim \/ CancelQueued \/ AppendEvent \/ WriteResult \/ Quiesce

\* The steps that take the writer's answer.
Takes ==
  \/ ClaimApplied \/ ClaimRefused \/ CancelAnswered
  \/ EventAnswered \/ EventFailed \/ ResultAnswered \/ ResultFailed
  \/ QuiesceDurable \/ QuiesceFailed

LEMMA CallerFootprint ==
  ASSUME CallerStep
  PROVE  /\ UNCHANGED <<rows, service, gateClosed, pc, todo, scanned, current, answer,
                        managerVars, tokenVars, runnerVars, coordinator, processVars, faults>>
         /\ \/ UNCHANGED writer
            \/ \E c \in Callers : SendInsert(c) \/ Disconnect(c)
         /\ \/ UNCHANGED mailbox
            \/ \E c \in Callers : SendNotify(c) \/ Disconnect(c)
            \/ \E c \in Callers, t \in DOMAIN rows : SendCancel(c, t)
         /\ \/ UNCHANGED user_cancelled
            \/ \E c \in Callers, t \in DOMAIN rows : SendCancel(c, t)
         /\ \/ UNCHANGED asker
            \/ \E c \in Callers : Disconnect(c)
         /\ picker' \in {picker, "closed"} \cup Dialogs
<1> USE DEF gateVars, actorVars, managerVars
<1>1. CASE \E c \in Callers, source \in {NoTask} \cup DOMAIN rows : BeginInsert(c, source)
  BY <1>1 DEF BeginInsert
<1>2. CASE \E c \in Callers : SendInsert(c)
  BY <1>2 DEF SendInsert
<1>3. CASE \E c \in Callers : SendNotify(c)
  BY <1>3 DEF SendNotify
<1>4. CASE \E c \in Callers, t \in DOMAIN rows : SendCancel(c, t)
  BY <1>4 DEF SendCancel
<1>5. CASE \E c \in Callers : OpenDialog(c)
  BY <1>5 DEF OpenDialog
<1>6. CASE \E c \in Callers : Disconnect(c)
  BY <1>6 DEF Disconnect
<1>7. CASE CloseDialog
  BY <1>7 DEF CloseDialog
<1>8. QED BY <1>1, <1>2, <1>3, <1>4, <1>5, <1>6, <1>7 DEF CallerStep

LEMMA WriterFootprint ==
  ASSUME WriterStep
  PROVE  /\ UNCHANGED <<gateVars, mailbox, pc, todo, scanned, current, asker, managerVars, tokenVars,
                        runnerVars, processVars, user_cancelled>>
         /\ writer # << >> /\ writer' = Tail(writer)
         /\ UNCHANGED rows \/ WriterExecute
  BY DEF WriterStep, WriterExecute, WriterFail

LEMMA LoopFootprint ==
  ASSUME ActorLoop
  PROVE  /\ UNCHANGED <<rows, gateClosed, picker, mailbox, frozen, inherited, restarts,
                        user_cancelled>>
         /\ UNCHANGED writer \/ Claim
         /\ UNCHANGED runner \/ ClaimApplied \/ EventAnswered \/ EventFailed
         /\ UNCHANGED emitted \/ EventAnswered
         /\ UNCHANGED degraded \/ EventFailed \/ ResultFailed
         /\ UNCHANGED service \/ EventFailed \/ ResultFailed
         /\ UNCHANGED coordinator \/ EventFailed \/ ResultFailed
         /\ UNCHANGED <<phase, outcome>> \/ QuiesceDurable \/ QuiesceFailed
         /\ UNCHANGED root_cancelled \/ QuiesceFailed
         /\ UNCHANGED answer \/ Takes
         /\ UNCHANGED active \/ Claim \/ Takes
         /\ UNCHANGED cancelled \/ Takes
         /\ UNCHANGED call \/ CancelAnswered
<1> USE DEF gateVars, actorVars, managerVars, tokenVars, runnerVars, processVars
<1>1. CASE Check
  BY <1>1 DEF Check
<1>2. CASE ScanFails \/ EndScan
  BY <1>2 DEF ScanFails, EndScan
<1>3. CASE Claim
  BY <1>3 DEF Claim, AwaitWrite
<1>4. CASE ClaimApplied
  BY <1>4 DEF ClaimApplied, Takes
<1>5. CASE ClaimRefused \/ CancelAnswered
  BY <1>5 DEF ClaimRefused, CancelAnswered, Takes
<1>6. CASE EventAnswered
  BY <1>6 DEF EventAnswered, Takes
<1>7. CASE EventFailed
  BY <1>7 DEF EventFailed, Takes
<1>8. CASE ResultAnswered
  BY <1>8 DEF ResultAnswered, Takes
<1>9. CASE ResultFailed
  BY <1>9 DEF ResultFailed, Takes
<1>10. CASE QuiesceDurable \/ QuiesceFailed
  BY <1>10 DEF QuiesceDurable, QuiesceFailed, Takes
<1>11. QED
  BY <1>1, <1>2, <1>3, <1>4, <1>5, <1>6, <1>7, <1>8, <1>9, <1>10 DEF ActorLoop

LEMMA MessageFootprint ==
  ASSUME ActorMessage
  PROVE  /\ UNCHANGED <<rows, gateClosed, picker, todo, scanned, answer, root_cancelled,
                        emitted, processVars, user_cancelled>>
         /\ Alive /\ pc = "idle" /\ mailbox # << >> /\ mailbox' = Tail(mailbox)
         /\ UNCHANGED writer \/ Sends
         /\ UNCHANGED <<current, asker>> \/ Sends
         /\ pc' = "check" \/ Sends
         /\ UNCHANGED runner \/ RefuseEvent
         /\ UNCHANGED active \/ DiscardResult
         /\ UNCHANGED cancelled \/ CancelRunning \/ DiscardResult
         /\ UNCHANGED <<degraded, coordinator>> \/ FinalizeDegraded
         /\ UNCHANGED service \/ FinalizeDegraded \/ Quiesce
         /\ UNCHANGED frozen \/ Quiesce
         /\ UNCHANGED faults \/ CancelRefused
<1> USE DEF gateVars, actorVars, managerVars, tokenVars, runnerVars, Receive, AwaitWrite
<1>1. CASE NotifyQueued
  BY <1>1 DEF NotifyQueued
<1>2. CASE CancelQueued \/ AppendEvent \/ WriteResult
  BY <1>2 DEF CancelQueued, AppendEvent, WriteResult, Sends
<1>3. CASE CancelRunning
  BY <1>3 DEF CancelRunning
<1>4. CASE CancelRefused
  BY <1>4 DEF CancelRefused
<1>5. CASE RefuseEvent
  BY <1>5 DEF RefuseEvent
<1>6. CASE DiscardResult
  BY <1>6 DEF DiscardResult
<1>7. CASE FinalizeDegraded
  BY <1>7 DEF FinalizeDegraded
<1>8. CASE Quiesce
  BY <1>8 DEF Quiesce, Sends
<1>9. CASE QuiesceRefused
  BY <1>9 DEF QuiesceRefused
<1>10. QED
  BY <1>1, <1>2, <1>3, <1>4, <1>5, <1>6, <1>7, <1>8, <1>9 DEF ActorMessage

LEMMA RunnerFootprint ==
  ASSUME RunnerStep
  PROVE  /\ UNCHANGED <<rows, gateVars, call, writer, actorVars, managerVars, tokenVars,
                        emitted, coordinator, processVars, user_cancelled, faults>>
         /\ Alive
  BY DEF RunnerStep, Emit, Succeed, StopOnCancel, FailOnRejection, FailByItself, Finish

\* The coordinator and the shutdown.
Shutdown == BeginQuiescing \/ SendQuiesce \/ ShutdownTimeout \/ RunnersDrained

LEMMA OtherFootprint ==
  ASSUME CoordinatorRecover \/ CoordinatorFinalize \/ Shutdown \/ Tick
  PROVE  /\ UNCHANGED <<rows, picker, call, todo, scanned, current, asker, answer, degraded, active, cancelled,
                        runnerVars, inherited, restarts, user_cancelled, faults>>
         /\ UNCHANGED writer \/ CoordinatorRecover
         /\ UNCHANGED mailbox \/ CoordinatorFinalize \/ SendQuiesce
         /\ UNCHANGED coordinator \/ CoordinatorRecover \/ CoordinatorFinalize
         /\ UNCHANGED <<gateClosed, service>> \/ BeginQuiescing
         /\ UNCHANGED <<phase, outcome>> \/ Shutdown
         /\ UNCHANGED <<frozen, root_cancelled>> \/ ShutdownTimeout
         /\ UNCHANGED <<pc, scan_requested>> \/ Tick
<1> USE DEF gateVars, actorVars, managerVars, tokenVars, runnerVars, processVars
<1>1. CASE CoordinatorRecover \/ CoordinatorFinalize
  BY <1>1 DEF CoordinatorRecover, CoordinatorFinalize
<1>2. CASE BeginQuiescing \/ SendQuiesce
  BY <1>2 DEF BeginQuiescing, SendQuiesce, Shutdown
<1>3. CASE ShutdownTimeout \/ RunnersDrained
  BY <1>3 DEF ShutdownTimeout, RunnersDrained, Shutdown
<1>4. CASE Tick
  BY <1>4 DEF Tick
<1>5. QED BY <1>1, <1>2, <1>3, <1>4 DEF Shutdown

\* Every step is one of these.
LEMMA Steps ==
  ASSUME Next
  PROVE  \/ CallerStep \/ WriterStep \/ ActorLoop \/ ActorMessage \/ RunnerStep
         \/ CoordinatorRecover \/ CoordinatorFinalize \/ Shutdown \/ Tick \/ Renewal
  BY DEF Next, WriterStep, Shutdown, Renewal

-----------------------------------------------------------------------------
(* What the execution of one command does to the rows.                     *)

\* The steps of a row that was there before.
Advances(t) ==
  \/ rows'[t].status = rows[t].status
  \/ /\ pc = "claim_wait" /\ t = current /\ answer' = "applied"
     /\ rows[t].status = "Queued" /\ rows'[t].status = "Running"
  \/ /\ pc = "cancel_wait" /\ t = current
     /\ rows[t].status = "Queued" /\ rows'[t].status = "Cancelled"
     /\ writer[1].transition.next = "Cancelled" /\ writer[1].op = "transition"
     /\ writer[1].task = t /\ writer[1].expected = "Queued"
  \/ /\ pc = "finish_wait" /\ t = current
     /\ rows[t].status = "Running" /\ rows'[t].status = writer[1].transition.next
     /\ is_retryable(rows'[t].status) /\ writer[1].op = "transition"
     /\ writer[1].task = t /\ writer[1].expected = "Running"
  \/ /\ Incomplete(rows[t].status) /\ rows'[t].status = "Interrupted"
     /\ writer[1].op = "recover"
     /\ pc = "quiesce_wait" \/ coordinator = "recover_wait"

LEMMA HeadOfQueue ==
  ASSUME TypeOK, QueueInv, writer # << >>
  PROVE  /\ Head(writer) = writer[1] /\ writer[1] \in Commands /\ 1 \in DOMAIN writer
         /\ writer[1].by = "actor" => Awaited(writer[1])
         /\ writer[1].by = "coordinator" =>
              writer[1].op = "recover" /\ coordinator = "recover_wait"
         /\ writer[1].by \notin {"actor", "coordinator"} => writer[1].op = "insert"
         /\ writer[1].op = "transition" => writer[1].by = "actor"
         /\ writer[1].op = "append" => writer[1].by = "actor"
         /\ writer[1].op = "insert" => writer[1].by \notin {"actor", "coordinator"}
<1>1. Head(writer) = writer[1] /\ writer[1] \in Commands /\ 1 \in DOMAIN writer
  BY Popped DEF TypeOK, StoreTypeOK
<1>2. QED BY <1>1 DEF QueueInv, Awaited

\* Recovery leaves nothing incomplete.
LEMMA Recovery ==
  ASSUME StoreTypeOK, NEW failure \in Failures \cup {NoFailure}, RecoverRows(failure)
  PROVE  /\ rows' \in Seq(Row) /\ Len(rows') <= MaxTasks /\ DOMAIN rows' = DOMAIN rows
         /\ \A t \in DOMAIN rows :
              \/ rows'[t].status = rows[t].status /\ ~Incomplete(rows[t].status)
              \/ Incomplete(rows[t].status) /\ rows'[t].status = "Interrupted"
<1>1. rows \in Seq(Row) /\ Len(rows) \in Nat /\ DOMAIN rows = 1..Len(rows)
  BY LenProperties DEF StoreTypeOK
<1>2. \A t \in DOMAIN rows : rows[t] \in Row
  BY <1>1, ElementOfSeq
<1>3. \A t \in DOMAIN rows :
        rows'[t] = IF Incomplete(rows[t].status)
                     THEN [status |-> "Interrupted", failure |-> failure,
                           retry_of |-> rows[t].retry_of]
                     ELSE rows[t]
  BY DEF RecoverRows, Interrupted, Moved
<1>4. \A t \in DOMAIN rows : rows'[t] \in Row
  <2>1. ASSUME NEW row \in Row
        PROVE  [status |-> "Interrupted", failure |-> failure, retry_of |-> row.retry_of] \in Row
    BY DEF Row, TaskStatus
  <2>2. QED BY <1>2, <1>3, <2>1
<1>5. rows' \in [1..Len(rows) -> Row]
  <2>1. rows' = [t \in 1..Len(rows) |-> rows'[t]]
    BY <1>1 DEF RecoverRows
  <2>2. QED BY <1>1, <1>4, <2>1
<1>6. rows' \in Seq(Row) /\ Len(rows') = Len(rows) /\ DOMAIN rows' = DOMAIN rows
  <2>1. ASSUME NEW S, NEW n \in Nat, NEW s \in [1..n -> S]
        PROVE  s \in Seq(S) /\ Len(s) = n /\ DOMAIN s = 1..n
    BY SeqDef, LenProperties
  <2>2. QED BY <1>1, <1>5, <2>1
<1>7. QED BY <1>3, <1>6 DEF StoreTypeOK

\* A row that is inserted is queued and comes last.
LEMMA Insertion ==
  ASSUME StoreTypeOK, NEW source \in Nat, Len(rows) < MaxTasks,
         rows' = Append(rows, NewRow(source))
  PROVE  /\ rows' \in Seq(Row) /\ Len(rows') <= MaxTasks /\ DOMAIN rows \subseteq DOMAIN rows'
         /\ \A t \in DOMAIN rows : rows'[t] = rows[t]
         /\ \A t \in DOMAIN rows' :
              t \notin DOMAIN rows =>
                rows'[t].status = "Queued" /\ \A s \in DOMAIN rows : s < t
<1>1. rows \in Seq(Row) /\ NewRow(source) \in Row /\ NewRow(source).status = "Queued"
  BY DEF StoreTypeOK, NewRow, Row, TaskStatus
<1>2. QED BY <1>1, Pushed, MaxTasksAssumption

\* What a transition carries, and which of them the manager builds itself.
LEMMA TransitionFields ==
  /\ \A x \in TaskTransition :
       /\ x.next \in TaskStatus /\ x.failure \in Failures \cup {NoFailure}
       /\ x.next = "Interrupted" => x.failure \in Failures
       /\ x = [next |-> x.next, failure |-> x.failure]
  /\ \A n \in {"Running", "Completed", "Cancelled"} :
       [next |-> n, failure |-> NoFailure] \in TaskTransition
  /\ \A n \in {"Failed", "Interrupted"}, f \in Failures :
       [next |-> n, failure |-> f] \in TaskTransition
<1>1. ASSUME NEW x \in TaskTransition
      PROVE  /\ x.next \in TaskStatus /\ x.failure \in Failures \cup {NoFailure}
             /\ x.next = "Interrupted" => x.failure \in Failures
             /\ x = [next |-> x.next, failure |-> x.failure]
  BY DEF TaskTransition, TaskStatus
<1>2. QED BY <1>1 DEF TaskTransition

\* A transition moves one row.
LEMMA Transitioned ==
  ASSUME StoreTypeOK, NEW command \in Commands,
         ApplyTransition(command.task, command.expected, command.transition)
  PROVE  /\ rows' \in Seq(Row) /\ Len(rows') <= MaxTasks /\ DOMAIN rows' = DOMAIN rows
         /\ command.task \in DOMAIN rows /\ rows[command.task].status = command.expected
         /\ rows'[command.task].status = command.transition.next
         /\ \A t \in DOMAIN rows : t # command.task => rows'[t] = rows[t]
<1>1. rows \in Seq(Row) /\ command.task \in DOMAIN rows
  BY DEF StoreTypeOK, ApplyTransition
<1>2. rows[command.task] \in Row
  BY <1>1, ElementOfSeq, LenProperties
<1> DEFINE new == Moved(rows[command.task], command.transition.next,
                        command.transition.failure)
<1>3. new \in Row /\ new.status = command.transition.next
  <2>1. /\ command.transition.next \in TaskStatus
        /\ command.transition.failure \in Failures \cup {NoFailure}
    BY TransitionFields DEF Commands
  <2>2. QED BY <1>2, <2>1 DEF Moved, Row
<1>4. rows' = [rows EXCEPT ![command.task] = new]
  BY DEF ApplyTransition
<1> HIDE DEF new
<1>5. rows' \in Seq(Row) /\ Len(rows') = Len(rows) /\ DOMAIN rows' = DOMAIN rows
  BY <1>1, <1>3, <1>4, ExceptSeq, LenProperties
<1>6. QED BY <1>1, <1>3, <1>4, <1>5 DEF ApplyTransition, StoreTypeOK

LEMMA Execution ==
  ASSUME TypeOK, QueueInv, WriterExecute
  PROVE  /\ rows' \in Seq(Row) /\ Len(rows') <= MaxTasks /\ DOMAIN rows \subseteq DOMAIN rows'
         /\ \A t \in DOMAIN rows : Advances(t)
         /\ \A t \in DOMAIN rows' :
              t \notin DOMAIN rows => /\ rows'[t].status = "Queued"
                                      /\ writer[1].op = "insert"
                                      /\ \A s \in DOMAIN rows : s < t
         /\ writer[1].op = "recover" =>
              answer' \in {answer, "applied"}
                /\ \A t \in DOMAIN rows' : ~Incomplete(rows'[t].status)
         /\ writer[1].op = "recover" /\ writer[1].by = "actor" => answer' = "applied"
         /\ writer[1].by = "actor" => answer = "none" /\ answer' \in {"applied", "conflict"}
         /\ writer[1].by # "actor" => answer' = answer
         /\ coordinator' = IF writer[1].by = "coordinator" THEN "flush" ELSE coordinator
         /\ writer[1].op = "transition" /\ answer' = "applied" =>
              /\ current \in DOMAIN rows
              /\ rows'[current].status = writer[1].transition.next
         /\ writer[1].op = "transition" /\ answer' = "conflict" =>
              rows[current].status # writer[1].expected /\ rows' = rows
<1> DEFINE w == writer[1]
<1>1. PICK result \in {"applied", "conflict"} :
        Executes(Head(writer), result) /\ Respond(Head(writer).by, result)
  BY DEF WriterExecute
<1>2. /\ Head(writer) = w /\ w \in Commands
      /\ w.by = "actor" => Awaited(w)
      /\ w.by = "coordinator" => w.op = "recover" /\ coordinator = "recover_wait"
      /\ w.by \notin {"actor", "coordinator"} => w.op = "insert"
      /\ w.op \in {"transition", "append"} => w.by = "actor"
      /\ w.op = "insert" => w.by \notin {"actor", "coordinator"}
  BY HeadOfQueue DEF WriterExecute
<1>3. /\ answer' = IF w.by = "actor" THEN result ELSE answer
      /\ coordinator' = IF w.by # "coordinator" THEN coordinator
                        ELSE IF result = "applied" THEN "flush" ELSE "recover"
  BY <1>1, <1>2 DEF Respond
<1>4. w.op \in {"insert", "transition", "append", "recover"}
      /\ w.transition.failure \in Failures \cup {NoFailure}
      /\ w.task \in Nat
  BY <1>2, MaxTasksAssumption, TransitionFields DEF Commands, Ids, NoTask
<1>5. StoreTypeOK /\ rows \in Seq(Row) /\ Len(rows) <= MaxTasks
  BY DEF TypeOK, StoreTypeOK
<1> HIDE DEF w
<1>6. CASE w.op = "insert"
  <2>1. \/ rows' = rows
        \/ \E source \in Nat : Len(rows) < MaxTasks /\ rows' = Append(rows, NewRow(source))
    BY <1>1, <1>2, <1>4, <1>6 DEF Executes, InsertTask, InsertRetry, NoTask
  <2>2. CASE rows' = rows
    BY <1>2, <1>3, <1>5, <1>6, <2>2 DEF Advances, w
  <2>3. CASE \E source \in Nat : Len(rows) < MaxTasks /\ rows' = Append(rows, NewRow(source))
    BY <1>2, <1>3, <1>5, <1>6, <2>3, Insertion DEF Advances, w
  <2>4. QED BY <2>1, <2>2, <2>3
<1>7. CASE w.op = "transition"
  <2>1. \/ ApplyTransition(w.task, w.expected, w.transition) /\ result = "applied"
        \/ rows[w.task].status # w.expected /\ rows' = rows /\ result = "conflict"
    BY <1>1, <1>2, <1>7 DEF Executes
  <2>2. Awaited(w) /\ w.by = "actor"
    BY <1>2, <1>7
  <2>3. CASE rows[w.task].status # w.expected /\ rows' = rows /\ result = "conflict"
    BY <1>3, <1>5, <1>7, <2>2, <2>3 DEF Advances, w, Awaited
  <2>4. CASE ApplyTransition(w.task, w.expected, w.transition) /\ result = "applied"
    BY <1>2, <1>3, <1>5, <1>7, <2>2, <2>4, Transitioned DEF Advances, w, Awaited
  <2>5. QED BY <2>1, <2>3, <2>4
<1>8. CASE w.op = "append"
  <2>1. rows' = rows
    BY <1>1, <1>2, <1>8 DEF Executes
  <2>2. Awaited(w) /\ w.by = "actor"
    BY <1>2, <1>8
  <2>3. QED BY <1>3, <1>5, <1>8, <2>1, <2>2 DEF Advances, w, Awaited
<1>9. CASE w.op = "recover"
  <2>1. RecoverRows(w.transition.failure) /\ result = "applied"
    BY <1>1, <1>2, <1>9 DEF Executes
  <2>2. w.by = "actor" => Awaited(w)
    BY <1>2
  <2>3. w.by \in {"actor", "coordinator"}
        /\ (pc = "quiesce_wait" \/ coordinator = "recover_wait")
    BY <1>2, <1>9 DEF Awaited
  <2>4. \A t \in DOMAIN rows' : ~Incomplete(rows'[t].status)
    BY <1>4, <1>5, <2>1, Recovery DEF Incomplete
  <2>5. \A t \in DOMAIN rows : Advances(t)
    BY <1>4, <1>5, <1>9, <2>1, <2>3, Recovery DEF Advances, w
  <2>6. rows' \in Seq(Row) /\ Len(rows') <= MaxTasks /\ DOMAIN rows' = DOMAIN rows
    BY <1>4, <1>5, <2>1, Recovery
  <2>7. QED BY <1>3, <1>9, <2>1, <2>2, <2>3, <2>4, <2>5, <2>6 DEF w, Awaited
<1>10. QED BY <1>4, <1>6, <1>7, <1>8, <1>9

LEMMA Failure ==
  ASSUME TypeOK, QueueInv, WriterFail
  PROVE  /\ rows' = rows
         /\ writer[1].by = "actor" => answer = "none" /\ answer' = "error"
         /\ writer[1].by # "actor" => answer' = answer
         /\ coordinator' = IF writer[1].by = "coordinator" THEN "recover" ELSE coordinator
  BY HeadOfQueue DEF WriterFail, Respond, Awaited

-----------------------------------------------------------------------------
(* Commands and messages.                                                  *)

LEMMA CommandTypes ==
  /\ \A c \in Callers, t \in Ids \cup {NoTask} : InsertCommand(c, t) \in Commands
  /\ \A t \in Ids, e \in TaskStatus, x \in TaskTransition :
       TransitionCommand(t, e, x.next, x.failure) \in Commands
  /\ \A t \in Ids, e \in TaskStatus, n \in {"Running", "Cancelled"} :
       TransitionCommand(t, e, n, NoFailure) \in Commands
  /\ \A t \in Ids : AppendCommand(t) \in Commands
  /\ \A by \in {"actor", "coordinator"}, f \in Failures : RecoverCommand(by, f) \in Commands
<1>1. ASSUME NEW op \in {"insert", "transition", "append", "recover"},
             NEW by \in Callers \cup {NoCaller, "actor", "coordinator"},
             NEW t \in Ids \cup {NoTask}, NEW e \in TaskStatus, NEW x \in TaskTransition,
             op = "recover" => x.next = "Interrupted"
      PROVE  Command(op, by, t, e, x) \in Commands
  BY <1>1 DEF Command, Commands
<1>2. \A x \in TaskTransition : Transition(x.next, x.failure) = x
  BY TransitionFields DEF Transition
<1>3. \A n \in {"Running", "Cancelled"} : Transition(n, NoFailure) \in TaskTransition
  BY TransitionFields DEF Transition
<1>4. \A f \in Failures : /\ Transition("Interrupted", f) \in TaskTransition
                           /\ Transition("Interrupted", f).next = "Interrupted"
  BY TransitionFields DEF Transition
<1>5. {"Queued", "Running"} \subseteq TaskStatus
  BY DEF TaskStatus
<1>6. \A c \in Callers, t \in Ids \cup {NoTask} : InsertCommand(c, t) \in Commands
  BY <1>1, <1>3, <1>5 DEF InsertCommand, NoTransition
<1>7. \A t \in Ids, e \in TaskStatus, x \in TaskTransition :
        TransitionCommand(t, e, x.next, x.failure) \in Commands
  BY <1>1, <1>2 DEF TransitionCommand
<1>8. \A t \in Ids, e \in TaskStatus, n \in {"Running", "Cancelled"} :
        TransitionCommand(t, e, n, NoFailure) \in Commands
  BY <1>1, <1>3 DEF TransitionCommand
<1>9. \A t \in Ids : AppendCommand(t) \in Commands
  BY <1>1, <1>3, <1>5 DEF AppendCommand, NoTransition
<1>10. \A by \in {"actor", "coordinator"}, f \in Failures : RecoverCommand(by, f) \in Commands
  BY <1>1, <1>4, <1>5 DEF RecoverCommand
<1>11. QED BY <1>6, <1>7, <1>8, <1>9, <1>10

LEMMA MessageTypes ==
  /\ \A kind \in {"NotifyQueued", "Cancel", "RunnerEvent", "RunnerFinished",
                  "FinalizeDegraded", "Quiesce"},
        t \in Ids \cup {NoTask}, from \in Callers \cup {NoCaller}, result \in TaskTransition :
       /\ Message(kind, t, from, result) \in Messages
       /\ Message(kind, t, from, result).kind = kind
       /\ Message(kind, t, from, result).task = t
       /\ Message(kind, t, from, result).from = from
       /\ Message(kind, t, from, result).result = result
  /\ NoTransition \in TaskTransition
  /\ \A result \in RunnerOutcomes :
       result \in TaskTransition /\ is_retryable(result.next)
<1>1. \A f \in Codes : f \in Failures
  BY ManagerAssumption
<1>2. /\ NoTransition \in TaskTransition
      /\ \A result \in RunnerOutcomes :
           result \in TaskTransition /\ is_retryable(result.next)
  BY <1>1 DEF NoTransition, RunnerOutcomes, Transition, TaskTransition, TaskStatus,
              is_retryable, Codes
<1>3. QED BY <1>2 DEF Message, Messages

\* The actor sends one command, the one it then waits for.
LEMMA Sending ==
  ASSUME TypeOK, QueueInv, MailboxInv, HandleInv, ScanInv, Sends
  PROVE  \E command \in Commands :
           /\ writer' = Append(writer, command)
           /\ command.by = "actor" /\ command.op # "insert"
           /\ answer = "none" /\ answer' = "none"
           /\ current' = command.task /\ asker' \in Callers \cup {NoCaller}
           /\ pc' \in Waits /\ Awaited(command)'
           /\ command.transition.next = "Cancelled" =>
                \/ CancelQueued /\ command.task \in user_cancelled
                \/ WriteResult /\ command.expected = "Running"
                     /\ command.task = msg.task /\ msg.result.next = "Cancelled"
                \/ command.op = "append"
<1>1. mailbox # << >> => msg = mailbox[1] /\ msg \in Messages /\ 1 \in DOMAIN mailbox
  BY Popped DEF TypeOK, ActorTypeOK, msg
<1>2. ASSUME pc \in {"idle", "claim"}  PROVE  answer = "none"
  BY <1>2 DEF QueueInv, Waits
<1>3. CASE Claim
  <2>1. /\ Head(todo) \in Ids /\ writer' = Append(writer,
             TransitionCommand(Head(todo), "Queued", "Running", NoFailure))
        /\ answer = "none" /\ answer' = "none" /\ current' = Head(todo)
        /\ pc' = "claim_wait" /\ asker' = NoCaller
    BY <1>2, <1>3, Popped DEF Claim, AwaitWrite, TypeOK, ActorTypeOK
  <2>2. TransitionCommand(Head(todo), "Queued", "Running", NoFailure) \in Commands
    BY <2>1, CommandTypes DEF TaskStatus
  <2>3. QED BY <2>1, <2>2 DEF TransitionCommand, Command, Transition, Awaited, Waits
<1>4. CASE CancelQueued
  <2>1. /\ msg.task \in user_cancelled /\ msg.from \in Callers \cup {NoCaller}
        /\ msg.task \in Ids
    BY <1>1, <1>4 DEF CancelQueued, Receive, MailboxInv, Says, TypeOK, StoreTypeOK, Messages
  <2>2. /\ writer' = Append(writer,
             TransitionCommand(msg.task, "Queued", "Cancelled", NoFailure))
        /\ answer = "none" /\ answer' = "none" /\ current' = msg.task
        /\ pc' = "cancel_wait" /\ asker' = msg.from
    BY <1>2, <1>4 DEF CancelQueued, Receive, AwaitWrite
  <2>3. TransitionCommand(msg.task, "Queued", "Cancelled", NoFailure) \in Commands
    BY <2>1, CommandTypes DEF TaskStatus
  <2>4. QED BY <1>4, <2>1, <2>2, <2>3 DEF TransitionCommand, Command, Transition, Awaited, Waits
<1>5. CASE AppendEvent
  <2>1. msg.task \in Ids
    BY <1>1, <1>5 DEF AppendEvent, Receive, MailboxInv, Says, FromRunner
  <2>2. /\ writer' = Append(writer, AppendCommand(msg.task))
        /\ answer = "none" /\ answer' = "none" /\ current' = msg.task
        /\ pc' = "event_wait" /\ asker' = NoCaller
    BY <1>2, <1>5 DEF AppendEvent, Receive, AwaitWrite
  <2>3. AppendCommand(msg.task) \in Commands
    BY <2>1, CommandTypes
  <2>4. QED BY <2>1, <2>2, <2>3 DEF AppendCommand, Command, Awaited, Waits
<1>6. CASE WriteResult
  <2>1. /\ msg.task \in Ids /\ is_retryable(msg.result.next)
        /\ msg.result \in TaskTransition
    BY <1>1, <1>6 DEF WriteResult, Receive, MailboxInv, Says, FromRunner, Messages
  <2>2. /\ writer' = Append(writer,
             TransitionCommand(msg.task, "Running", msg.result.next, msg.result.failure))
        /\ answer = "none" /\ answer' = "none" /\ current' = msg.task
        /\ pc' = "finish_wait" /\ asker' = NoCaller
    BY <1>2, <1>6 DEF WriteResult, Receive, AwaitWrite
  <2>3. TransitionCommand(msg.task, "Running", msg.result.next, msg.result.failure)
          \in Commands
    BY <2>1, CommandTypes DEF TaskStatus
  <2>4. QED BY <1>6, <2>1, <2>2, <2>3 DEF TransitionCommand, Command, Transition, Awaited, Waits
<1>7. CASE Quiesce
  <2>1. /\ writer' = Append(writer, RecoverCommand("actor", "APP_SHUTDOWN"))
        /\ answer = "none" /\ answer' = "none" /\ current' = NoTask
        /\ pc' = "quiesce_wait" /\ asker' = NoCaller
    BY <1>2, <1>7 DEF Quiesce, Receive, AwaitWrite
  <2>2. RecoverCommand("actor", "APP_SHUTDOWN") \in Commands
    BY CommandTypes, ManagerAssumption DEF Codes
  <2>3. QED BY <2>1, <2>2 DEF RecoverCommand, Command, Transition, Awaited, Waits
<1>8. QED BY <1>3, <1>4, <1>5, <1>6, <1>7 DEF Sends

-----------------------------------------------------------------------------
(* Type correctness.                                                       *)

LEMMA RowsType ==
  ASSUME TypeOK, QueueInv, Next
  PROVE  rows' \in Seq(Row) /\ Len(rows') <= MaxTasks /\ DOMAIN rows \subseteq DOMAIN rows'
<1>1. CASE UNCHANGED rows
  BY <1>1 DEF TypeOK, StoreTypeOK
<1>2. CASE WriterExecute
  BY <1>2, Execution
<1>3. CASE Restart
  BY <1>3, Recovery, ManagerAssumption DEF Restart, TypeOK, Codes
<1>4. QED
  BY <1>1, <1>2, <1>3, Steps, CallerFootprint, WriterFootprint, LoopFootprint,
     MessageFootprint, RunnerFootprint, OtherFootprint DEF Renewal, Exit, Crash

LEMMA WriterType ==
  ASSUME TypeOK, QueueInv, MailboxInv, HandleInv, ScanInv, Next
  PROVE  writer' \in Seq(Commands)
<1>1. CASE UNCHANGED writer
  BY <1>1 DEF TypeOK, StoreTypeOK
<1>2. ASSUME NEW c \in Callers, SendInsert(c)  PROVE writer' \in Seq(Commands)
  <2>1. call[c].task \in Ids \cup {NoTask}
    BY DEF TypeOK, ProcessTypeOK, Calls
  <2>2. InsertCommand(c, call[c].task) \in Commands
    BY <2>1, CommandTypes
  <2>3. QED BY <1>2, <2>2, Sent DEF SendInsert, TypeOK
<1>3. ASSUME NEW c \in Callers, Disconnect(c)  PROVE writer' \in Seq(Commands)
  BY <1>3, Orphaned
<1>4. CASE WriterStep
  BY <1>4, WriterFootprint, Executed DEF TypeOK
<1>5. CASE Sends
  <2>1. PICK command \in Commands : writer' = Append(writer, command)
    BY <1>5, Sending
  <2>2. QED BY <2>1, Sent DEF TypeOK
<1>6. CASE CoordinatorRecover
  <2>1. RecoverCommand("coordinator", "STORE_WRITE_FAILED") \in Commands
    BY CommandTypes, ManagerAssumption DEF Codes
  <2>2. QED BY <1>6, <2>1, <1>1, Sent DEF CoordinatorRecover, TypeOK
<1>7. CASE Renewal
  <2>1. writer' = << >>
    BY <1>7 DEF Renewal, Exit, Crash, Restart, NewProcess
  <2>2. QED BY <2>1, EmptySeq
<1>8. QED
  BY <1>1, <1>2, <1>3, <1>4, <1>5, <1>6, <1>7, Steps, CallerFootprint, LoopFootprint,
     MessageFootprint, RunnerFootprint, OtherFootprint DEF Sends

LEMMA MailboxType ==
  ASSUME TypeOK, QueueInv, MailboxInv, HandleInv, ScanInv, Next
  PROVE  mailbox' \in Seq(Messages)
<1>1. CASE UNCHANGED mailbox
  BY <1>1 DEF TypeOK, ActorTypeOK
<1>2. ASSUME NEW m \in Messages, mailbox' = Append(mailbox, m)
      PROVE  mailbox' \in Seq(Messages)
  BY <1>2, Posted DEF TypeOK
<1>3. ASSUME NEW c \in Callers, SendNotify(c)  PROVE mailbox' \in Seq(Messages)
  BY <1>2, <1>3, MessageTypes DEF SendNotify
<1>4. ASSUME NEW c \in Callers, Disconnect(c)  PROVE mailbox' \in Seq(Messages)
  BY <1>4, Orphaned
<1>5. ASSUME NEW c \in Callers, NEW t \in DOMAIN rows, SendCancel(c, t)
      PROVE  mailbox' \in Seq(Messages)
  <2>1. t \in Ids
    BY LenProperties, MaxTasksAssumption DEF TypeOK, StoreTypeOK, Ids
  <2>2. QED BY <1>2, <1>5, <2>1, MessageTypes DEF SendCancel
<1>6. CASE ActorMessage
  BY <1>6, MessageFootprint, Received DEF TypeOK
<1>7. CASE RunnerStep
  <2>1. \E t \in Ids, kind \in {"RunnerEvent", "RunnerFinished"},
           result \in RunnerOutcomes \cup {NoTransition} :
          mailbox' = Append(mailbox, Message(kind, t, NoCaller, result))
    BY <1>7 DEF RunnerStep, Emit, Succeed, StopOnCancel, FailOnRejection, FailByItself,
                Finish, RunnerOutcomes
  <2>2. \A t \in Ids, kind \in {"RunnerEvent", "RunnerFinished"},
           result \in RunnerOutcomes \cup {NoTransition} :
          Message(kind, t, NoCaller, result) \in Messages
    BY MessageTypes
  <2>3. QED BY <1>2, <2>1, <2>2
<1>8. CASE CoordinatorFinalize \/ SendQuiesce
  <2>1. \/ UNCHANGED mailbox
        \/ \E kind \in {"FinalizeDegraded", "Quiesce"} :
             mailbox' = Append(mailbox, Message(kind, NoTask, NoCaller, NoTransition))
    BY <1>8 DEF CoordinatorFinalize, SendQuiesce
  <2>2. \A kind \in {"FinalizeDegraded", "Quiesce"} :
          Message(kind, NoTask, NoCaller, NoTransition) \in Messages
    BY MessageTypes
  <2>3. QED BY <1>1, <1>2, <2>1, <2>2
<1>9. CASE Renewal
  <2>1. mailbox' = << >>
    BY <1>9 DEF Renewal, Exit, Crash, Restart, NewProcess
  <2>2. QED BY <2>1, EmptySeq
<1>10. QED
  BY <1>1, <1>3, <1>4, <1>5, <1>6, <1>7, <1>8, <1>9, Steps, CallerFootprint,
     WriterFootprint, LoopFootprint, OtherFootprint

LEMMA StoreTypes ==
  ASSUME TypeOK, QueueInv, MailboxInv, HandleInv, ScanInv, Next
  PROVE  StoreTypeOK'
<1>1. inherited' \in Nat /\ restarts' \in Nat
  <2>1. CASE UNCHANGED <<inherited, restarts>>
    BY <2>1 DEF TypeOK, StoreTypeOK
  <2>2. CASE Renewal
    BY <2>2, LenProperties DEF TypeOK, StoreTypeOK, Renewal, Exit, Crash, Restart
  <2>3. QED
    BY <2>1, <2>2, Steps, CallerFootprint, WriterFootprint, LoopFootprint,
       MessageFootprint, RunnerFootprint, OtherFootprint DEF processVars
<1>2. user_cancelled' \subseteq Ids
  <2>1. CASE UNCHANGED user_cancelled
    BY <2>1 DEF TypeOK, StoreTypeOK
  <2>2. ASSUME NEW c \in Callers, NEW t \in DOMAIN rows, SendCancel(c, t)
        PROVE  user_cancelled' \subseteq Ids
    <3>1. t \in Ids
      BY LenProperties, MaxTasksAssumption DEF TypeOK, StoreTypeOK, Ids
    <3>2. QED BY <2>2, <3>1 DEF SendCancel, TypeOK, StoreTypeOK
  <2>3. QED
    BY <2>1, <2>2, Steps, CallerFootprint, WriterFootprint, LoopFootprint,
       MessageFootprint, RunnerFootprint, OtherFootprint DEF Renewal, Exit, Crash, Restart
<1>3. faults' \in Nat
  <2>1. CASE UNCHANGED faults \/ StoreFault
    BY <2>1 DEF TypeOK, StoreTypeOK, StoreFault
  <2>2. UNCHANGED faults \/ StoreFault
    <3>1. CASE WriterStep
      BY <3>1 DEF WriterStep, WriterExecute, WriterFail
    <3>2. CASE ActorLoop
      BY <3>2 DEF ActorLoop, Check, ScanFails, EndScan, Claim, ClaimApplied, ClaimRefused,
                  CancelAnswered, EventAnswered, EventFailed, ResultAnswered, ResultFailed,
                  QuiesceDurable, QuiesceFailed
    <3>3. CASE ActorMessage
      BY <3>3, MessageFootprint DEF CancelRefused
    <3>4. QED
      BY <3>1, <3>2, <3>3, Steps, CallerFootprint, RunnerFootprint, OtherFootprint
         DEF Renewal, Exit, Crash, Restart
  <2>3. QED BY <2>1, <2>2
<1>4. QED BY <1>1, <1>2, <1>3, RowsType, WriterType DEF StoreTypeOK

LEMMA ActorTypes ==
  ASSUME TypeOK, QueueInv, MailboxInv, HandleInv, ScanInv, Next
  PROVE  ActorTypeOK'
<1> USE DEF actorVars, managerVars, tokenVars, runnerVars
<1>1. pc' \in ActorAt /\ current' \in Ids \cup {NoTask} /\ asker' \in Callers \cup {NoCaller}
      /\ answer' \in {"none", "applied", "conflict", "error"}
  <2> DEFINE Good == /\ pc' \in ActorAt /\ current' \in Ids \cup {NoTask}
                     /\ asker' \in Callers \cup {NoCaller}
                     /\ answer' \in {"none", "applied", "conflict", "error"}
  <2>1. CASE UNCHANGED <<current, asker, answer>> /\ (pc' = pc \/ pc' = "check")
    BY <2>1 DEF TypeOK, ActorTypeOK, ActorAt
  <2>2. CASE CallerStep
    BY <2>2, CallerFootprint DEF Disconnect, TypeOK, ActorTypeOK
  <2>3. CASE WriterStep
    BY <2>3, WriterFootprint DEF WriterStep, WriterExecute, WriterFail, Respond, TypeOK,
                                 ActorTypeOK
  <2>4. CASE Sends
    <3>1. PICK command \in Commands :
            /\ answer' = "none" /\ current' = command.task
            /\ asker' \in Callers \cup {NoCaller} /\ pc' \in Waits
      BY <2>4, Sending
    <3>2. QED BY <3>1 DEF Commands, ActorAt
  <2>5. CASE Takes
    BY <2>5 DEF Takes, ClaimApplied, ClaimRefused, CancelAnswered, EventAnswered,
                EventFailed, ResultAnswered, ResultFailed, QuiesceDurable, QuiesceFailed,
                TakeAnswer, ActorAt
  <2>6. CASE Check \/ ScanFails \/ EndScan
    BY <2>6 DEF Check, ScanFails, EndScan, TypeOK, ActorTypeOK, ActorAt
  <2>7. CASE Tick
    BY <2>1, <2>7 DEF Tick
  <2>8. CASE Renewal
    BY <2>8 DEF Renewal, Exit, Crash, Restart, NewProcess, ActorAt
  <2>9. CASE Shutdown \/ CoordinatorRecover \/ CoordinatorFinalize
    BY <2>1, <2>7, <2>9, OtherFootprint
  <2>10. QED
    BY <2>1, <2>2, <2>3, <2>4, <2>5, <2>6, <2>7, <2>8, <2>9, Steps, MessageFootprint,
       RunnerFootprint DEF ActorLoop, Sends, Takes
<1>2. todo' \in Seq(Ids)
  <2>1. CASE UNCHANGED todo \/ todo' = << >>
    BY <2>1, EmptySeq DEF TypeOK, ActorTypeOK
  <2>2. CASE Claim
    BY <2>2, Popped DEF Claim, TypeOK, ActorTypeOK
  <2>3. CASE todo' \in QueuedInOrder
    <3> DEFINE Q == {t \in DOMAIN rows : rows[t].status = "Queued" /\ t \notin active}
    <3>1. DOMAIN rows = 1..Len(rows) /\ Len(rows) \in Nat /\ DOMAIN rows \subseteq Ids
      BY LenProperties, MaxTasksAssumption DEF TypeOK, StoreTypeOK, Ids
    <3>2. IsFiniteSet(1..Len(rows)) /\ Q \subseteq 1..Len(rows) /\ Q \subseteq Ids
      <4>1. Q \subseteq DOMAIN rows
        OBVIOUS
      <4> HIDE DEF Q
      <4>2. IsFiniteSet(1..Len(rows))
        BY <3>1, FS_Interval
      <4>3. QED BY <3>1, <4>1, <4>2
    <3>3. Cardinality(Q) \in Nat
      BY <3>2, FS_Subset, FS_CardinalityType
    <3>4. todo' \in [1..Cardinality(Q) -> Q]
      <4>1. ASSUME NEW S, NEW o \in Listings(S)
            PROVE  o \in [1..Cardinality(S) -> S]
        BY DEF Listings
      <4>2. todo' \in Listings(Q)
        BY <2>3 DEF QueuedInOrder
      <4> HIDE DEF Q
      <4>3. QED BY <4>1, <4>2
    <3>5. todo' \in [1..Cardinality(Q) -> Ids]
      BY <3>2, <3>4
    <3> HIDE DEF Q
    <3>6. ASSUME NEW S, NEW n \in Nat, NEW s \in [1..n -> S]  PROVE  s \in Seq(S)
      BY SeqDef
    <3>7. QED BY <3>3, <3>5, <3>6
  <2>4. CASE ActorLoop
    <3>1. UNCHANGED todo \/ todo' = << >> \/ Claim \/ todo' \in QueuedInOrder
      BY <2>4 DEF ActorLoop, Check, ScanFails, EndScan, ClaimApplied, ClaimRefused,
                  CancelAnswered, EventAnswered, EventFailed, ResultAnswered, ResultFailed,
                  QuiesceDurable, QuiesceFailed
    <3>2. QED BY <2>1, <2>2, <2>3, <3>1
  <2>5. CASE Renewal
    BY <2>1, <2>5 DEF Renewal, Exit, Crash, Restart, NewProcess
  <2>6. QED
    BY <2>1, <2>4, <2>5, Steps, CallerFootprint, WriterFootprint, MessageFootprint,
       RunnerFootprint, OtherFootprint
<1>3. scanned' \in Nat
  <2>1. CASE UNCHANGED scanned \/ scanned' = 0
    BY <2>1 DEF TypeOK, ActorTypeOK
  <2>2. CASE scanned' = Len(rows)
    BY <2>2, LenProperties DEF TypeOK, StoreTypeOK
  <2>3. CASE ActorLoop
    <3>1. UNCHANGED scanned \/ scanned' = 0 \/ scanned' = Len(rows)
      BY <2>3 DEF ActorLoop, Check, ScanFails, EndScan, Claim, ClaimApplied, ClaimRefused,
                  CancelAnswered, EventAnswered, EventFailed, ResultAnswered, ResultFailed,
                  QuiesceDurable, QuiesceFailed
    <3>2. QED BY <2>1, <2>2, <3>1
  <2>4. CASE Renewal
    BY <2>1, <2>4 DEF Renewal, Exit, Crash, Restart, NewProcess
  <2>5. QED
    BY <2>1, <2>3, <2>4, Steps, CallerFootprint, WriterFootprint, MessageFootprint,
       RunnerFootprint, OtherFootprint
<1>4. active' \subseteq Ids /\ cancelled' \subseteq Ids
  <2>1. CASE UNCHANGED <<active, cancelled>>
    BY <2>1 DEF TypeOK, ActorTypeOK
  <2>2. CASE Claim
    <3>1. Head(todo) \in Ids
      BY <2>2, Popped DEF Claim, TypeOK, ActorTypeOK
    <3>2. QED BY <2>2, <3>1 DEF Claim, TypeOK, ActorTypeOK
  <2>3. CASE Takes
    BY <2>3 DEF Takes, ClaimApplied, ClaimRefused, CancelAnswered, EventAnswered,
                EventFailed, ResultAnswered, ResultFailed, QuiesceDurable, QuiesceFailed,
                enter_degraded, DropHandle, TypeOK, ActorTypeOK
  <2>4. CASE CancelRunning \/ DiscardResult
    BY <2>4 DEF CancelRunning, DiscardResult, DropHandle, TypeOK, ActorTypeOK
  <2>5. CASE Renewal
    BY <2>5 DEF Renewal, Exit, Crash, Restart, NewProcess
  <2>6. QED
    BY <2>1, <2>2, <2>3, <2>4, <2>5, Steps, CallerFootprint, WriterFootprint,
       LoopFootprint, MessageFootprint, RunnerFootprint, OtherFootprint
<1>5. runner' \in [Ids -> {"none", "working", "sending", "rejected", "done"}]
  <2> USE DEF TypeOK, ActorTypeOK
  <2>1. CASE UNCHANGED runner
    BY <2>1
  <2>2. CASE ClaimApplied \/ EventAnswered \/ EventFailed
    BY <2>2 DEF ClaimApplied, EventAnswered, EventFailed
  <2>3. CASE RefuseEvent
    BY <2>3 DEF RefuseEvent
  <2>4. CASE RunnerStep
    BY <2>4 DEF RunnerStep, Emit, Succeed, StopOnCancel, FailOnRejection, FailByItself, Finish
  <2>5. CASE Renewal
    BY <2>5 DEF Renewal, Exit, Crash, Restart, NewProcess
  <2>6. QED
    BY <2>1, <2>2, <2>3, <2>4, <2>5, Steps, CallerFootprint, WriterFootprint,
       LoopFootprint, MessageFootprint, OtherFootprint
<1>6. emitted' \in [Ids -> Nat]
  <2> USE DEF TypeOK, ActorTypeOK
  <2>1. CASE UNCHANGED emitted
    BY <2>1
  <2>2. CASE EventAnswered
    <3>1. current \in Ids
      BY <2>2 DEF EventAnswered, TakeAnswer, MailboxInv, Says
    <3> DEFINE n == IF answer = "applied" THEN emitted[current] + 1 ELSE emitted[current]
    <3>2. n \in Nat
      BY <3>1
    <3>3. emitted' = [emitted EXCEPT ![current] = n]
      BY <2>2 DEF EventAnswered
    <3> HIDE DEF n
    <3>4. QED BY <3>2, <3>3
  <2>3. CASE Renewal
    BY <2>3 DEF Renewal, Exit, Crash, Restart, NewProcess
  <2>4. QED
    BY <2>1, <2>2, <2>3, Steps, CallerFootprint, WriterFootprint, LoopFootprint,
       MessageFootprint, RunnerFootprint, OtherFootprint
<1>7. QED BY <1>1, <1>2, <1>4, <1>5, <1>6, <1>3, MailboxType DEF ActorTypeOK

LEMMA CallTypes ==
  ASSUME TypeOK, QueueInv, Next
  PROVE  call' \in [Callers -> Calls]
<1>1. call \in [Callers -> Calls] /\ Idle \in Calls
      /\ \A op \in {"notify", "waiting", "dialog"} : [op |-> op, task |-> NoTask] \in Calls
  BY DEF TypeOK, ProcessTypeOK, Calls, Idle
<1>2. CASE UNCHANGED call
  BY <1>1, <1>2
<1>3. CASE \E c \in Callers : call' = [call EXCEPT ![c] = Idle]
  BY <1>1, <1>3
<1>4. ASSUME NEW c \in Callers, NEW op \in {"writing", "waiting"},
             call' = [call EXCEPT ![c].op = op]
      PROVE  call' \in [Callers -> Calls]
  <2>1. [call[c] EXCEPT !.op = op] \in Calls
    BY <1>1 DEF Calls
  <2>2. call' = [call EXCEPT ![c] = [call[c] EXCEPT !.op = op]]
    BY <1>4
  <2> HIDE <1>4
  <2>3. QED BY <1>1, <2>1, <2>2
<1>5. CASE CloseDialog
  BY <1>1, <1>5 DEF CloseDialog
<1>6. CASE CallerStep /\ ~CloseDialog
  <2>1. PICK c \in Callers :
          \/ \E source \in {NoTask} \cup DOMAIN rows : BeginInsert(c, source)
          \/ SendInsert(c) \/ SendNotify(c) \/ \E t \in DOMAIN rows : SendCancel(c, t)
          \/ OpenDialog(c) \/ Disconnect(c)
    BY <1>6 DEF CallerStep
  <2>2. ASSUME NEW source \in {NoTask} \cup DOMAIN rows, BeginInsert(c, source)
        PROVE  call' \in [Callers -> Calls]
    <3>1. source \in Ids \cup {NoTask}
      BY LenProperties, MaxTasksAssumption DEF TypeOK, StoreTypeOK, Ids
    <3>2. [op |-> "insert", task |-> source] \in Calls
      BY <3>1 DEF Calls
    <3>3. QED BY <1>1, <2>2, <3>2 DEF BeginInsert
  <2>3. CASE SendInsert(c)
    BY <1>4, <2>3 DEF SendInsert
  <2>4. CASE SendNotify(c)
    BY <1>4, <2>4 DEF SendNotify
  <2>5. CASE \E t \in DOMAIN rows : SendCancel(c, t)
    BY <1>1, <2>5 DEF SendCancel
  <2>6. CASE OpenDialog(c) \/ Disconnect(c)
    BY <1>1, <2>6 DEF OpenDialog, Disconnect
  <2>7. QED BY <2>1, <2>2, <2>3, <2>4, <2>5, <2>6
<1>7. CASE WriterStep
  BY <1>1, <1>7 DEF WriterStep, WriterExecute, WriterFail, Respond
<1>8. CASE ActorMessage
  BY <1>1, <1>2, <1>8 DEF ActorMessage, NotifyQueued, CancelQueued, CancelRunning,
       CancelRefused, AppendEvent, RefuseEvent, WriteResult, DiscardResult,
       FinalizeDegraded, Quiesce, QuiesceRefused, Return
<1>9. CASE CancelAnswered
  BY <1>1, <1>2, <1>9 DEF CancelAnswered, Return
<1>10. CASE Renewal
  BY <1>1, <1>10 DEF Renewal, Exit, Crash, Restart, NewProcess
<1>11. QED
  BY <1>2, <1>6, <1>7, <1>8, <1>9, <1>10, <1>5, Steps, LoopFootprint, RunnerFootprint,
     OtherFootprint

\* The same of the dialog.
LEMMA PickerType ==
  ASSUME ProcessTypeOK, Next
  PROVE  picker' \in {"closed"} \cup Dialogs
<1>1. UNCHANGED picker \/ CallerStep \/ Renewal
  BY Steps, WriterFootprint, LoopFootprint, MessageFootprint, RunnerFootprint,
     OtherFootprint DEF gateVars
<1>2. QED
  BY <1>1, CallerFootprint DEF ProcessTypeOK, Renewal, Exit, Crash, Restart, NewProcess

\* The same of the variables that are true or false.
LEMMA FlagTypes ==
  ASSUME ProcessTypeOK, Next
  PROVE  /\ gateClosed' \in BOOLEAN /\ scan_requested' \in BOOLEAN
         /\ degraded' \in BOOLEAN /\ frozen' \in BOOLEAN /\ root_cancelled' \in BOOLEAN
<1> USE DEF ProcessTypeOK, gateVars, managerVars, tokenVars, processVars
<1>1. gateClosed' \in BOOLEAN
  BY Steps, CallerFootprint, WriterFootprint, LoopFootprint, MessageFootprint,
     RunnerFootprint, OtherFootprint
     DEF BeginQuiescing, Renewal, Exit, Crash, Restart, NewProcess
<1>2. degraded' \in BOOLEAN
  BY Steps, CallerFootprint, WriterFootprint, LoopFootprint, MessageFootprint,
     RunnerFootprint, OtherFootprint
     DEF EventFailed, ResultFailed, enter_degraded, FinalizeDegraded, Renewal, Exit, Crash,
         Restart, NewProcess
<1>3. frozen' \in BOOLEAN
  BY Steps, CallerFootprint, WriterFootprint, LoopFootprint, MessageFootprint,
     RunnerFootprint, OtherFootprint
     DEF Quiesce, ShutdownTimeout, Renewal, Exit, Crash, Restart, NewProcess
<1>4. root_cancelled' \in BOOLEAN
  BY Steps, CallerFootprint, WriterFootprint, LoopFootprint, MessageFootprint,
     RunnerFootprint, OtherFootprint
     DEF QuiesceFailed, ShutdownTimeout, Renewal, Exit, Crash, Restart, NewProcess
<1>5. scan_requested' \in BOOLEAN
  <2>1. CASE ActorLoop
    BY <2>1 DEF ActorLoop, Check, ScanFails, EndScan, Claim, ClaimApplied, ClaimRefused,
                CancelAnswered, EventAnswered, EventFailed, ResultAnswered, ResultFailed,
                QuiesceDurable, QuiesceFailed, enter_degraded
  <2>2. CASE ActorMessage
    BY <2>2 DEF ActorMessage, NotifyQueued, CancelQueued, CancelRunning, CancelRefused,
                AppendEvent, RefuseEvent, WriteResult, DiscardResult, FinalizeDegraded,
                Quiesce, QuiesceRefused
  <2>3. QED
    BY <2>1, <2>2, Steps, CallerFootprint, WriterFootprint, RunnerFootprint, OtherFootprint
       DEF Tick, Renewal, Exit, Crash, Restart, NewProcess
<1>6. QED BY <1>1, <1>2, <1>3, <1>4, <1>5

LEMMA ProcessTypes ==
  ASSUME TypeOK, QueueInv, Next
  PROVE  ProcessTypeOK'
<1> USE DEF TypeOK, ProcessTypeOK, gateVars, processVars
<1>1. service' \in {"Ready", "StoreDegraded", "Quiescing"}
  <2>1. CASE EventFailed \/ ResultFailed
    BY <2>1 DEF EventFailed, ResultFailed, enter_degraded
  <2>2. CASE FinalizeDegraded \/ Quiesce
    BY <2>2 DEF FinalizeDegraded, Quiesce
  <2>3. QED
    BY <2>1, <2>2, Steps, CallerFootprint, WriterFootprint, LoopFootprint,
       MessageFootprint, RunnerFootprint, OtherFootprint
       DEF BeginQuiescing, Renewal, Exit, Crash, Restart, NewProcess
<1>2. coordinator' \in {"off", "recover", "recover_wait", "flush", "finalize_wait"}
  <2>1. CASE WriterStep
    BY <2>1 DEF WriterStep, WriterExecute, WriterFail, Respond
  <2>2. CASE EventFailed \/ ResultFailed
    BY <2>2 DEF EventFailed, ResultFailed, enter_degraded
  <2>3. QED
    BY <2>1, <2>2, Steps, CallerFootprint, LoopFootprint, MessageFootprint,
       RunnerFootprint, OtherFootprint
       DEF FinalizeDegraded, CoordinatorRecover, CoordinatorFinalize, Renewal, Exit, Crash,
           Restart, NewProcess
<1>3. /\ phase' \in {"up", "idle_wait", "barrier", "draining", "stopping", "stopped"}
      /\ outcome' \in {"none", "Clean", "Degraded", "Crashed"}
  <2>1. CASE QuiesceDurable \/ QuiesceFailed
    BY <2>1 DEF QuiesceDurable, QuiesceFailed
  <2>2. CASE Shutdown
    BY <2>2 DEF Shutdown, BeginQuiescing, SendQuiesce, ShutdownTimeout, RunnersDrained
  <2>3. QED
    BY <2>1, <2>2, Steps, CallerFootprint, WriterFootprint, LoopFootprint,
       MessageFootprint, RunnerFootprint, OtherFootprint DEF Renewal, Exit, Crash, Restart
<1>4. QED BY <1>1, <1>2, <1>3, CallTypes, FlagTypes, PickerType

LEMMA TypesPreserved ==
  ASSUME TypeOK, QueueInv, MailboxInv, HandleInv, ScanInv, Next
  PROVE  TypeOK'
  BY StoreTypes, ActorTypes, ProcessTypes DEF TypeOK

-----------------------------------------------------------------------------
(* The writer's queue.                                                     *)

LEMMA QueueKept ==
  ASSUME QueueInv, UNCHANGED writer,
         \/ UNCHANGED <<pc, current, answer>>
         \/ pc' \notin Waits /\ answer' = "none" /\ (pc \notin Waits \/ answer # "none"),
         UNCHANGED coordinator \/ coordinator # "recover_wait"
  PROVE  QueueInv'
  BY DEF QueueInv, Awaited, Waits

LEMMA QueueStep ==
  ASSUME ManagerInv, Next
  PROVE  QueueInv'
<1> USE DEF ManagerInv
<1>0. TypeOK /\ StoreTypeOK /\ QueueInv
  BY DEF TypeOK
<1>1. CASE UNCHANGED <<writer, pc, current, answer, coordinator>>
  BY <1>1, QueueKept
<1>2. ASSUME NEW c \in Callers, SendInsert(c)  PROVE QueueInv'
  <2> DEFINE new == InsertCommand(c, call[c].task)
  <2>1. writer' = Append(writer, new) /\ UNCHANGED <<pc, current, answer, coordinator>>
    BY <1>2 DEF SendInsert, actorVars
  <2>2. call[c].task \in Ids \cup {NoTask}
    BY DEF TypeOK, ProcessTypeOK, Calls
  <2>3. new \in Commands /\ new.op = "insert" /\ new.by \notin {"actor", "coordinator"}
    BY <2>2, CommandTypes, ManagerAssumption DEF InsertCommand, Command
  <2> HIDE DEF new
  <2>4. /\ \A i \in DOMAIN writer' :
             \/ i \in DOMAIN writer /\ writer'[i] = writer[i]
             \/ writer'[i] = new
    BY <1>0, <2>1, <2>3, Sent
  <2>5. QED BY <2>1, <2>3, <2>4 DEF QueueInv, Awaited
<1>3. ASSUME NEW c \in Callers, Disconnect(c)  PROVE QueueInv'
  <2>1. UNCHANGED <<pc, current, answer, coordinator>>
    BY <1>3 DEF Disconnect
  <2>2. /\ DOMAIN writer' = DOMAIN writer
        /\ \A i \in DOMAIN writer :
              /\ writer'[i].op = writer[i].op /\ writer'[i].task = writer[i].task
              /\ writer'[i].expected = writer[i].expected
              /\ writer'[i].transition = writer[i].transition
              /\ \/ writer'[i].by = writer[i].by
                 \/ writer[i].by \in Callers /\ writer'[i].by = NoCaller
    BY <1>3, Orphaned
  <2>3. "actor" \notin Callers /\ "coordinator" \notin Callers
        /\ NoCaller \notin {"actor", "coordinator"}
    BY ManagerAssumption DEF NoCaller
  <2>4. QED BY <2>1, <2>2, <2>3 DEF QueueInv, Awaited
<1>4. CASE WriterStep
  <2>1. /\ UNCHANGED <<pc, current>>
        /\ 1 \in DOMAIN writer
        /\ \A i \in DOMAIN writer' : /\ i + 1 \in DOMAIN writer /\ i + 1 > 1
                                     /\ i \in Nat
                                     /\ writer'[i] = writer[i + 1]
    BY <1>0, <1>4, WriterFootprint, Executed
  <2>2. /\ writer[1].by = "actor" => answer = "none" /\ pc \in Waits
        /\ writer[1].by # "actor" => answer' = answer
        /\ writer[1].by = "coordinator" \/ coordinator' = coordinator
    <3>1. CASE WriterExecute
      BY <1>0, <2>1, <3>1, Execution DEF QueueInv, Awaited, Waits
    <3>2. CASE WriterFail
      BY <1>0, <2>1, <3>2, Failure DEF QueueInv, Awaited, Waits
    <3>3. QED BY <1>4, <3>1, <3>2 DEF WriterStep
  <2>3. ASSUME NEW i \in DOMAIN writer'
        PROVE  /\ writer'[i].by = "actor" => Awaited(writer'[i]) /\ writer[1].by # "actor"
               /\ writer'[i].by = "coordinator" =>
                    /\ writer'[i].op = "recover" /\ coordinator = "recover_wait"
                    /\ writer[1].by # "coordinator"
               /\ writer'[i].by \notin {"actor", "coordinator"} => writer'[i].op = "insert"
    BY <2>1 DEF QueueInv
  <2>4. ASSUME NEW i \in DOMAIN writer', NEW j \in DOMAIN writer',
               writer'[i].by \in {"actor", "coordinator"}, writer'[i].by = writer'[j].by
        PROVE  i = j
    BY <2>1, <2>4 DEF QueueInv
  <2>5. pc' \notin Waits => answer' = "none"
    BY <2>1, <2>2 DEF QueueInv
  <2>6. ASSUME NEW w, answer' = answer, Awaited(w)
        PROVE  Awaited(w)'
    BY <2>1, <2>6 DEF Awaited
  <2>7. ASSUME NEW i \in DOMAIN writer', NEW w, w = writer'[i]
        PROVE  /\ w.by = "actor" => Awaited(w)'
               /\ w.by = "coordinator" => w.op = "recover" /\ coordinator' = "recover_wait"
    BY <2>1, <2>2, <2>3, <2>6, <2>7
  <2>8. QED BY <2>1, <2>3, <2>4, <2>5, <2>7 DEF QueueInv, Awaited
<1>5. CASE Sends
  <2>1. PICK command \in Commands :
          /\ writer' = Append(writer, command) /\ command.by = "actor"
          /\ answer = "none" /\ answer' = "none" /\ pc' \in Waits /\ Awaited(command)'
    BY <1>5, Sending
  <2>2. pc \notin Waits /\ UNCHANGED coordinator
    BY <1>5 DEF Sends, Claim, CancelQueued, AppendEvent, WriteResult, Quiesce, Receive, Waits
  <2>3. \A i \in DOMAIN writer : writer[i].by # "actor"
    BY <2>2 DEF QueueInv, Awaited, Waits
  <2>4. /\ \A i \in DOMAIN writer' :
              \/ i \in DOMAIN writer /\ writer'[i] = writer[i]
              \/ /\ writer'[i] = command /\ i \notin DOMAIN writer
    BY <1>0, <2>1, Sent
  <2>5. ASSUME NEW i \in DOMAIN writer', NEW j \in DOMAIN writer',
               writer'[i] = command, writer'[j] = command
        PROVE  i = j
    <3>1. i \notin DOMAIN writer /\ j \notin DOMAIN writer
      BY <2>1, <2>3, <2>4, <2>5
    <3>2. writer \in Seq(Commands)
      BY <1>0 DEF StoreTypeOK
    <3>3. QED BY <2>1, <3>1, <3>2, Pushed
  <2>6. QED BY <2>1, <2>2, <2>3, <2>4, <2>5 DEF QueueInv, Awaited
<1>6. CASE Takes
  <2>1. /\ answer # "none" /\ answer' = "none" /\ pc' \notin Waits /\ UNCHANGED writer
    BY <1>6 DEF Takes, ClaimApplied, ClaimRefused, CancelAnswered, EventAnswered,
                EventFailed, ResultAnswered, ResultFailed, QuiesceDurable, QuiesceFailed,
                TakeAnswer, Waits
  <2>2. UNCHANGED coordinator \/ coordinator # "recover_wait"
    BY <1>6 DEF Takes, ClaimApplied, ClaimRefused, CancelAnswered, EventAnswered,
                EventFailed, ResultAnswered, ResultFailed, QuiesceDurable, QuiesceFailed,
                enter_degraded, DegradedInv
  <2>3. QED BY <1>0, <2>1, <2>2, QueueKept
<1>7. CASE Check \/ ScanFails \/ EndScan \/ Tick
  <2>1. /\ pc \notin Waits /\ pc' \notin Waits
        /\ UNCHANGED <<writer, answer, coordinator>>
    BY <1>7 DEF Check, ScanFails, EndScan, Tick, Waits, actorVars
  <2>2. answer' = "none"
    BY <2>1 DEF QueueInv
  <2>3. QED BY <1>0, <2>1, <2>2, QueueKept
<1>8. CASE ActorMessage /\ ~Sends
  <2>1. /\ pc \notin Waits /\ pc' \notin Waits
        /\ UNCHANGED <<writer, answer>>
    BY <1>8, MessageFootprint DEF Waits
  <2>2. answer' = "none"
    BY <2>1 DEF QueueInv
  <2>3. UNCHANGED coordinator \/ coordinator # "recover_wait"
    <3>1. CASE FinalizeDegraded
      <4>1. msg = mailbox[1] /\ 1 \in DOMAIN mailbox /\ msg.kind = "FinalizeDegraded"
        BY <3>1, Received DEF FinalizeDegraded, Receive, TypeOK
      <4>2. QED BY <4>1 DEF MailboxInv, Says
    <3>2. QED BY <1>8, <3>1, MessageFootprint
  <2>4. QED BY <1>0, <2>1, <2>2, <2>3, QueueKept
<1>9. CASE CoordinatorRecover /\ UNCHANGED writer
  BY <1>9, QueueKept DEF CoordinatorRecover, actorVars
<1>10. CASE CoordinatorRecover /\ ~UNCHANGED writer
  <2> DEFINE new == RecoverCommand("coordinator", "STORE_WRITE_FAILED")
  <2>1. /\ writer' = Append(writer, new) /\ UNCHANGED <<pc, current, answer>>
        /\ coordinator = "recover" /\ coordinator' = "recover_wait"
    BY <1>10 DEF CoordinatorRecover, actorVars
  <2>2. new \in Commands /\ new.op = "recover" /\ new.by = "coordinator"
    <3>1. new \in Commands
      BY CommandTypes, ManagerAssumption DEF Codes
    <3>2. QED BY <3>1 DEF RecoverCommand, Command
  <2> HIDE DEF new
  <2>3. \A i \in DOMAIN writer : writer[i].by # "coordinator"
    BY <2>1 DEF QueueInv
  <2>4. /\ \A i \in DOMAIN writer' :
              \/ i \in DOMAIN writer /\ writer'[i] = writer[i]
              \/ /\ writer'[i] = new /\ i \notin DOMAIN writer
    BY <1>0, <2>1, <2>2, Sent
  <2>5. ASSUME NEW i \in DOMAIN writer', NEW j \in DOMAIN writer',
               writer'[i] = new, writer'[j] = new
        PROVE  i = j
    <3>1. i \notin DOMAIN writer /\ j \notin DOMAIN writer
      BY <2>2, <2>3, <2>4, <2>5
    <3>2. writer \in Seq(Commands)
      BY <1>0 DEF StoreTypeOK
    <3>3. QED BY <2>1, <2>2, <3>1, <3>2, Pushed
  <2>6. QED BY <2>1, <2>2, <2>3, <2>4, <2>5 DEF QueueInv, Awaited
<1>11. CASE CoordinatorFinalize
  BY <1>11, QueueKept DEF CoordinatorFinalize, actorVars
<1>12. CASE Renewal
  BY <1>12 DEF Renewal, Exit, Crash, Restart, NewProcess, QueueInv, Waits
<1>13. CASE CallerStep
  BY <1>1, <1>2, <1>3, <1>13, CallerFootprint
<1>14. CASE ActorLoop
  BY <1>5, <1>6, <1>7, <1>14 DEF ActorLoop, Sends, Takes
<1>15. QED
  BY <1>1, <1>4, <1>5, <1>7, <1>8, <1>9, <1>10, <1>11, <1>12, <1>13, <1>14, Steps,
     RunnerFootprint, OtherFootprint DEF actorVars

-----------------------------------------------------------------------------
(* The mailbox.                                                            *)

LEMMA MailboxKept ==
  ASSUME MailboxInv, UNCHANGED <<mailbox, runner>>,
         user_cancelled \subseteq user_cancelled',
         UNCHANGED coordinator \/ coordinator # "finalize_wait",
         UNCHANGED phase \/ phase # "barrier" \/ frozen',
         frozen => frozen',
         \/ UNCHANGED <<pc, current>>
         \/ pc' \notin {"cancel_wait", "event_wait", "finish_wait"}
  PROVE  MailboxInv'
<1>1. ASSUME NEW m, Says(m)  PROVE Says(m)'
  BY <1>1 DEF Says
<1>2. \A i \in DOMAIN mailbox' : Says(mailbox[i])'
  BY <1>1 DEF MailboxInv
<1>3. QED BY <1>2 DEF MailboxInv, SameSender, FromRunner

\* What is left in the mailbox when the actor has received a message.
LEMMA Remaining ==
  ASSUME TypeOK, MailboxInv, ActorMessage
  PROVE  /\ msg \in Messages /\ Says(msg)
         /\ \A i \in DOMAIN mailbox' :
              Says(mailbox'[i]) /\ ~SameSender(mailbox'[i], msg)
         /\ \A i, j \in DOMAIN mailbox' : SameSender(mailbox'[i], mailbox'[j]) => i = j
<1>1. /\ msg \in Messages /\ msg = mailbox[1] /\ 1 \in DOMAIN mailbox
      /\ \A i \in DOMAIN mailbox' : /\ i + 1 \in DOMAIN mailbox /\ i + 1 > 1
                                    /\ i \in Nat
                                    /\ mailbox'[i] = mailbox[i + 1]
  BY Received, MessageFootprint DEF TypeOK
<1>2. ASSUME NEW i \in DOMAIN mailbox'
      PROVE  Says(mailbox'[i]) /\ ~SameSender(mailbox'[i], msg)
  <2>1. Says(mailbox[i + 1]) /\ (SameSender(mailbox[i + 1], mailbox[1]) => i + 1 = 1)
    BY <1>1 DEF MailboxInv
  <2>2. QED BY <1>1, <2>1
<1>3. ASSUME NEW i \in DOMAIN mailbox', NEW j \in DOMAIN mailbox',
             SameSender(mailbox'[i], mailbox'[j])
      PROVE  i = j
  <2>1. SameSender(mailbox[i + 1], mailbox[j + 1]) => i + 1 = j + 1
    BY <1>1 DEF MailboxInv
  <2>2. QED BY <1>1, <1>3, <2>1
<1>4. QED BY <1>1, <1>2, <1>3 DEF MailboxInv

\* A message is posted that nobody else could have sent, and the rest still holds.
LEMMA MailboxPosted ==
  ASSUME TypeOK, MailboxInv, NEW m \in Messages, mailbox' = Append(mailbox, m),
         Says(m)', \A i \in DOMAIN mailbox : Says(mailbox[i]) => ~SameSender(mailbox[i], m),
         \A n \in Messages : Says(n) /\ ~SameSender(n, m) => Says(n)',
         UNCHANGED <<pc, current>>, user_cancelled \subseteq user_cancelled',
         pc = "event_wait" => runner'[current] = runner[current],
         pc = "finish_wait" => runner'[current] = runner[current]
  PROVE  MailboxInv'
<1>1. /\ \A i \in DOMAIN mailbox' :
              \/ i \in DOMAIN mailbox /\ mailbox'[i] = mailbox[i]
              \/ mailbox'[i] = m /\ i \notin DOMAIN mailbox
      /\ \A i \in DOMAIN mailbox' : i \notin DOMAIN mailbox => i = Len(mailbox) + 1
      /\ \A i \in DOMAIN mailbox : mailbox[i] \in Messages
  <2>1. mailbox \in Seq(Messages)
    BY DEF TypeOK, ActorTypeOK
  <2>2. QED BY <2>1, Pushed, ElementOfSeq, LenProperties
<1>2. ASSUME NEW n, NEW i \in DOMAIN mailbox', n = mailbox'[i]  PROVE Says(n)'
  BY <1>1, <1>2 DEF MailboxInv
<1>3. ASSUME NEW n, NEW k  PROVE SameSender(n, k) <=> SameSender(k, n)
  BY DEF SameSender
<1>4. ASSUME NEW i \in DOMAIN mailbox', NEW j \in DOMAIN mailbox',
             SameSender(mailbox'[i], mailbox'[j])
      PROVE  i = j
  <2>1. CASE i \in DOMAIN mailbox /\ j \in DOMAIN mailbox
    BY <1>1, <1>4, <2>1 DEF MailboxInv
  <2>2. CASE i \in DOMAIN mailbox /\ j \notin DOMAIN mailbox
    BY <1>1, <1>4, <2>2 DEF MailboxInv
  <2>3. CASE i \notin DOMAIN mailbox /\ j \in DOMAIN mailbox
    BY <1>1, <1>3, <1>4, <2>3 DEF MailboxInv
  <2>4. CASE i \notin DOMAIN mailbox /\ j \notin DOMAIN mailbox
    BY <1>1, <2>4
  <2>5. QED BY <2>1, <2>2, <2>3, <2>4
<1>5. \A i \in DOMAIN mailbox' : Says(mailbox[i])'
  BY <1>2
<1>6. ASSUME NEW n, NEW k  PROVE SameSender(n, k)' <=> SameSender(n, k)
  BY DEF SameSender, FromRunner
<1>7. QED BY <1>4, <1>5, <1>6 DEF MailboxInv, SameSender, FromRunner

LEMMA MailboxOfCallers ==
  ASSUME ManagerInv, CallerStep
  PROVE  MailboxInv'
<1> USE DEF ManagerInv
<1>1. /\ TypeOK /\ MailboxInv
      /\ UNCHANGED <<runner, pc, current, coordinator, phase, frozen>>
  BY CallerFootprint DEF runnerVars, processVars, tokenVars
<1>2. ASSUME NEW n, user_cancelled \subseteq user_cancelled', Says(n)  PROVE Says(n)'
  BY <1>1, <1>2 DEF Says
<1>3. CASE UNCHANGED mailbox /\ UNCHANGED user_cancelled
  BY <1>1, <1>3, MailboxKept
<1>4. ASSUME NEW c \in Callers, SendNotify(c)  PROVE MailboxInv'
  <2> DEFINE m == Message("NotifyQueued", NoTask, c, NoTransition)
  <2>1. m \in Messages /\ m.kind = "NotifyQueued"
    BY MessageTypes
  <2>2. mailbox' = Append(mailbox, m) /\ user_cancelled' = user_cancelled
    BY <1>4 DEF SendNotify
  <2> HIDE DEF m
  <2>3. Says(m)' /\ \A n : ~SameSender(n, m)
    BY <2>1 DEF Says, SameSender, FromRunner
  <2>4. QED BY <1>1, <1>2, <2>1, <2>2, <2>3, MailboxPosted
<1>5. ASSUME NEW c \in Callers, NEW t \in DOMAIN rows, SendCancel(c, t)  PROVE MailboxInv'
  <2> DEFINE m == Message("Cancel", t, c, NoTransition)
  <2>1. t \in Ids
    BY LenProperties, MaxTasksAssumption DEF TypeOK, StoreTypeOK, Ids
  <2>2. m \in Messages /\ m.kind = "Cancel" /\ m.task = t
    BY <2>1, MessageTypes
  <2>3. mailbox' = Append(mailbox, m) /\ user_cancelled' = user_cancelled \cup {t}
    BY <1>5 DEF SendCancel
  <2> HIDE DEF m
  <2>4. Says(m)' /\ \A n : ~SameSender(n, m)
    BY <2>2, <2>3 DEF Says, SameSender, FromRunner
  <2>5. QED BY <1>1, <1>2, <2>2, <2>3, <2>4, MailboxPosted
<1>6. ASSUME NEW c \in Callers, Disconnect(c)  PROVE MailboxInv'
  <2>1. /\ DOMAIN mailbox' = DOMAIN mailbox /\ UNCHANGED user_cancelled
        /\ \A i \in DOMAIN mailbox :
              /\ mailbox'[i].kind = mailbox[i].kind /\ mailbox'[i].task = mailbox[i].task
              /\ mailbox'[i].result = mailbox[i].result
    BY <1>6, Orphaned DEF Disconnect
  <2>2. QED BY <1>1, <2>1 DEF MailboxInv, Says, SameSender, FromRunner
<1>7. QED BY <1>3, <1>4, <1>5, <1>6, CallerFootprint

LEMMA MailboxOfMessages ==
  ASSUME ManagerInv, ActorMessage
  PROVE  MailboxInv'
<1> USE DEF ManagerInv
<1>1. /\ TypeOK /\ MailboxInv
      /\ pc = "idle" /\ UNCHANGED <<user_cancelled, phase>>
      /\ msg \in Messages /\ Says(msg)
      /\ \A i \in DOMAIN mailbox' : Says(mailbox'[i]) /\ ~SameSender(mailbox'[i], msg)
      /\ \A i, j \in DOMAIN mailbox' : SameSender(mailbox'[i], mailbox'[j]) => i = j
  BY Remaining, MessageFootprint DEF processVars
<1>2. ASSUME \A n : Says(n) /\ ~SameSender(n, msg) => Says(n)',
             pc' = "cancel_wait" => current' \in user_cancelled',
             pc' = "event_wait" => current' \in Ids /\ runner'[current'] = "sending",
             pc' = "finish_wait" => current' \in Ids /\ runner'[current'] = "done"
      PROVE  MailboxInv'
  <2>1. \A i \in DOMAIN mailbox' : Says(mailbox[i])'
    <3>1. ASSUME NEW i \in DOMAIN mailbox', NEW n, n = mailbox'[i]  PROVE Says(n)'
      BY <1>1, <1>2, <3>1
    <3>2. QED BY <3>1 DEF Says
  <2>2. QED BY <1>1, <1>2, <2>1 DEF MailboxInv, SameSender, FromRunner
<1>3. CASE UNCHANGED <<runner, coordinator>> /\ pc' = "check" /\ (frozen => frozen')
  BY <1>1, <1>2, <1>3 DEF Says
<1>4. CASE CancelQueued
  <2>1. /\ UNCHANGED <<runner, coordinator, frozen>> /\ pc' = "cancel_wait"
        /\ current' = msg.task /\ msg.kind = "Cancel"
    BY <1>4 DEF CancelQueued, Receive, AwaitWrite, runnerVars, tokenVars
  <2>2. QED BY <1>1, <1>2, <2>1 DEF Says
<1>5. CASE AppendEvent
  <2>1. /\ UNCHANGED <<runner, coordinator, frozen>> /\ pc' = "event_wait"
        /\ current' = msg.task /\ msg.kind = "RunnerEvent"
    BY <1>5 DEF AppendEvent, Receive, AwaitWrite, runnerVars, tokenVars
  <2>2. QED BY <1>1, <1>2, <2>1 DEF Says, SameSender, FromRunner
<1>6. CASE WriteResult
  <2>1. /\ UNCHANGED <<runner, coordinator, frozen>> /\ pc' = "finish_wait"
        /\ current' = msg.task /\ msg.kind = "RunnerFinished"
    BY <1>6 DEF WriteResult, Receive, AwaitWrite, runnerVars, tokenVars
  <2>2. QED BY <1>1, <1>2, <2>1 DEF Says, SameSender, FromRunner
<1>7. CASE Quiesce
  <2>1. UNCHANGED <<runner, coordinator>> /\ pc' = "quiesce_wait" /\ frozen'
    BY <1>7 DEF Quiesce, Receive, AwaitWrite, runnerVars
  <2>2. QED BY <1>1, <1>2, <2>1 DEF Says
<1>8. CASE RefuseEvent
  <2>1. /\ UNCHANGED <<coordinator, frozen>> /\ pc' = "check"
        /\ runner' = [runner EXCEPT ![msg.task] = "rejected"]
        /\ msg.kind = "RunnerEvent"
    BY <1>8 DEF RefuseEvent, Receive, tokenVars
  <2>2. runner \in [Ids -> {"none", "working", "sending", "rejected", "done"}]
    BY DEF TypeOK, ActorTypeOK
  <2>3. ASSUME NEW n, Says(n), ~SameSender(n, msg)  PROVE Says(n)'
    <3>1. FromRunner(n) => n.task \in Ids /\ n.task # msg.task
      BY <2>1, <2>3 DEF SameSender, FromRunner, Says
    <3>2. FromRunner(n) => runner'[n.task] = runner[n.task]
      BY <2>1, <2>2, <3>1
    <3>3. QED BY <1>1, <2>1, <2>3, <3>2 DEF Says, FromRunner
  <2>4. QED BY <1>2, <2>1, <2>3
<1>9. CASE FinalizeDegraded
  <2>1. UNCHANGED <<runner, frozen>> /\ pc' = "check" /\ msg.kind = "FinalizeDegraded"
    BY <1>9 DEF FinalizeDegraded, Receive, runnerVars, tokenVars
  <2>2. QED BY <1>1, <1>2, <2>1 DEF Says, SameSender
<1>10. QED
  BY <1>3, <1>4, <1>5, <1>6, <1>7, <1>8, <1>9, MessageFootprint DEF Sends, Claim

\* A runner whose state changes has sent nothing that is still under way.
LEMMA MailboxOfLoop ==
  ASSUME ManagerInv, ActorLoop
  PROVE  MailboxInv'
<1> USE DEF ManagerInv
<1>1. /\ TypeOK /\ MailboxInv
      /\ UNCHANGED <<mailbox, user_cancelled, frozen>>
      /\ runner \in [Ids -> {"none", "working", "sending", "rejected", "done"}]
  BY LoopFootprint DEF TypeOK, ActorTypeOK
<1>2. UNCHANGED coordinator \/ coordinator # "finalize_wait"
  BY LoopFootprint DEF EventFailed, ResultFailed, enter_degraded, DegradedInv
<1>3. UNCHANGED phase \/ phase # "barrier" \/ frozen'
  BY <1>1, LoopFootprint DEF QuiesceDurable, QuiesceFailed, TakeAnswer, QuitInv
<1>4. pc' \notin {"cancel_wait", "event_wait", "finish_wait"}
  BY DEF ActorLoop, Check, ScanFails, EndScan, Claim, AwaitWrite, ClaimApplied, ClaimRefused,
         CancelAnswered, EventAnswered, EventFailed, ResultAnswered, ResultFailed,
         QuiesceDurable, QuiesceFailed
<1>5. CASE UNCHANGED runner
  BY <1>1, <1>2, <1>3, <1>4, <1>5, MailboxKept
<1>6. CASE ~UNCHANGED runner
  <2>1. /\ current \in Ids /\ runner[current] \in {"none", "sending"}
        /\ pc = "event_wait" <=> runner[current] = "sending"
        /\ \E v : runner' = [runner EXCEPT ![current] = v]
    BY <1>1, <1>6, LoopFootprint DEF ClaimApplied, EventAnswered, EventFailed, TakeAnswer,
             MailboxInv, ClaimInv, TypeOK, ActorTypeOK
  <2>2. ASSUME NEW n, Says(n)  PROVE Says(n)'
    <3>1. FromRunner(n) => n.task \in Ids /\ n.task # current
      BY <2>1, <2>2 DEF Says, FromRunner
    <3>2. FromRunner(n) => runner'[n.task] = runner[n.task]
      BY <1>1, <2>1, <3>1
    <3>3. QED BY <1>1, <1>2, <1>3, <1>4, <2>2, <3>2 DEF Says, FromRunner
  <2>3. \A i \in DOMAIN mailbox' : Says(mailbox[i])'
    BY <1>1, <2>2 DEF MailboxInv
  <2>4. QED BY <1>1, <1>4, <2>3 DEF MailboxInv, SameSender, FromRunner
<1>7. QED BY <1>5, <1>6

\* A runner posts one message, as what it has then become.
LEMMA RunnerPosts ==
  ASSUME TypeOK, RunnerStep
  PROVE  \E t \in Ids :
           /\ runner[t] \in {"working", "rejected"}
           /\ \/ /\ runner[t] = "working" /\ ~IsCancelled(t)
                 /\ runner' = [runner EXCEPT ![t] = "sending"]
                 /\ mailbox' = Append(mailbox, Message("RunnerEvent", t, NoCaller, NoTransition))
              \/ \E result \in RunnerOutcomes :
                   /\ runner' = [runner EXCEPT ![t] = "done"]
                   /\ mailbox' = Append(mailbox, Message("RunnerFinished", t, NoCaller, result))
                   /\ result.next = "Cancelled" => IsCancelled(t)
<1>1. PICK t \in Ids :
        Emit(t) \/ Succeed(t) \/ StopOnCancel(t) \/ FailOnRejection(t) \/ FailByItself(t)
  BY DEF RunnerStep
<1>2. CASE Emit(t)
  BY <1>2 DEF Emit
<1>3. CASE Succeed(t) \/ FailOnRejection(t) \/ FailByItself(t)
  BY <1>3 DEF Succeed, FailOnRejection, FailByItself, Finish, RunnerOutcomes, Transition
<1>4. CASE StopOnCancel(t)
  BY <1>4 DEF StopOnCancel, Finish, RunnerOutcomes, Transition
<1>5. QED BY <1>1, <1>2, <1>3, <1>4

LEMMA MailboxOfRunners ==
  ASSUME ManagerInv, RunnerStep
  PROVE  MailboxInv'
<1> USE DEF ManagerInv
<1>1. /\ TypeOK /\ MailboxInv
      /\ UNCHANGED <<pc, current, user_cancelled, coordinator, phase, frozen>>
      /\ runner \in [Ids -> {"none", "working", "sending", "rejected", "done"}]
  BY RunnerFootprint DEF TypeOK, ActorTypeOK, actorVars, tokenVars, processVars
<1>2. PICK t \in Ids, kind \in {"RunnerEvent", "RunnerFinished"},
           result \in RunnerOutcomes \cup {NoTransition} :
        /\ runner[t] \in {"working", "rejected"}
        /\ runner' = [runner EXCEPT ![t] = IF kind = "RunnerEvent" THEN "sending" ELSE "done"]
        /\ mailbox' = Append(mailbox, Message(kind, t, NoCaller, result))
        /\ kind = "RunnerFinished" => result \in RunnerOutcomes
  BY RunnerPosts
<1> DEFINE m == Message(kind, t, NoCaller, result)
<1>3. /\ m \in Messages /\ m.kind = kind /\ m.task = t
      /\ kind = "RunnerFinished" => is_retryable(m.result.next)
  BY <1>2, MessageTypes
<1>4. mailbox' = Append(mailbox, m)
  BY <1>2
<1> HIDE DEF m
<1>5. ASSUME NEW n, Says(n)  PROVE ~SameSender(n, m)
  BY <1>2, <1>3, <1>5 DEF Says, SameSender, FromRunner
<1>6. (pc = "event_wait" \/ pc = "finish_wait") => current \in Ids /\ current # t
  BY <1>1, <1>2 DEF MailboxInv
<1>7. Says(m)'
  BY <1>1, <1>2, <1>3, <1>6 DEF Says, FromRunner
<1>8. ASSUME NEW n, Says(n)  PROVE Says(n)'
  <2>1. FromRunner(n) => n.task \in Ids /\ n.task # t
    BY <1>2, <1>8 DEF Says, FromRunner
  <2>2. FromRunner(n) => runner'[n.task] = runner[n.task]
    BY <1>1, <1>2, <2>1
  <2>3. QED BY <1>1, <1>8, <2>2 DEF Says, FromRunner
<1>9. (pc = "event_wait" \/ pc = "finish_wait") => runner'[current] = runner[current]
  BY <1>1, <1>2, <1>6
<1>10. QED BY <1>1, <1>3, <1>4, <1>5, <1>7, <1>8, <1>9, MailboxPosted

LEMMA MailboxOfOthers ==
  ASSUME ManagerInv, CoordinatorFinalize \/ SendQuiesce
  PROVE  MailboxInv'
<1> USE DEF ManagerInv
<1>1. /\ TypeOK /\ MailboxInv
      /\ UNCHANGED <<pc, current, user_cancelled, runner, frozen>>
  BY OtherFootprint DEF Shutdown, CoordinatorFinalize, SendQuiesce, actorVars, tokenVars,
                        runnerVars
<1>2. CASE UNCHANGED mailbox
  <2>1. UNCHANGED <<coordinator, phase>> \/ (coordinator = "flush" /\ UNCHANGED phase)
    BY <1>2 DEF CoordinatorFinalize, SendQuiesce, processVars
  <2>2. QED BY <1>1, <1>2, <2>1, MailboxKept
<1>3. CASE CoordinatorFinalize /\ ~UNCHANGED mailbox
  <2> DEFINE m == Message("FinalizeDegraded", NoTask, NoCaller, NoTransition)
  <2>1. m \in Messages /\ m.kind = "FinalizeDegraded"
    BY MessageTypes
  <2>2. /\ mailbox' = Append(mailbox, m) /\ UNCHANGED phase
        /\ coordinator = "flush" /\ coordinator' = "finalize_wait"
    BY <1>3 DEF CoordinatorFinalize, processVars
  <2> HIDE DEF m
  <2>3. Says(m)' /\ \A n : Says(n) => Says(n)' /\ ~SameSender(n, m)
    BY <1>1, <2>1, <2>2 DEF Says, SameSender, FromRunner
  <2>4. QED BY <1>1, <2>1, <2>2, <2>3, MailboxPosted
<1>4. CASE SendQuiesce
  <2> DEFINE m == Message("Quiesce", NoTask, NoCaller, NoTransition)
  <2>1. m \in Messages /\ m.kind = "Quiesce"
    BY MessageTypes
  <2>2. /\ mailbox' = Append(mailbox, m) /\ UNCHANGED coordinator
        /\ phase' = "barrier"
    BY <1>4 DEF SendQuiesce
  <2> HIDE DEF m
  <2>3. Says(m)' /\ \A n : Says(n) => Says(n)' /\ ~SameSender(n, m)
    BY <1>1, <2>1, <2>2 DEF Says, SameSender, FromRunner
  <2>4. QED BY <1>1, <2>1, <2>2, <2>3, MailboxPosted
<1>5. QED BY <1>2, <1>3, <1>4

LEMMA MailboxStep ==
  ASSUME ManagerInv, Next
  PROVE  MailboxInv'
<1> USE DEF ManagerInv
<1>1. CASE WriterStep
  <2>1. UNCHANGED coordinator \/ coordinator # "finalize_wait"
    BY <1>1, Execution, Failure, HeadOfQueue, WriterFootprint DEF WriterStep
  <2>2. QED
    BY <1>1, <2>1, WriterFootprint, MailboxKept DEF runnerVars, tokenVars, processVars
<1>2. CASE Tick \/ CoordinatorRecover
  <2>1. UNCHANGED coordinator \/ coordinator # "finalize_wait"
    BY <1>2 DEF Tick, CoordinatorRecover
  <2>2. UNCHANGED phase /\ UNCHANGED frozen /\ UNCHANGED <<mailbox, runner, user_cancelled>>
    BY <1>2 DEF Tick, CoordinatorRecover, processVars, tokenVars, runnerVars
  <2>3. UNCHANGED <<pc, current>> \/ pc' = "check"
    BY <1>2 DEF Tick, CoordinatorRecover, actorVars
  <2>4. QED BY <2>1, <2>2, <2>3, MailboxKept
<1>3. CASE BeginQuiescing \/ ShutdownTimeout \/ RunnersDrained
  <2>1. UNCHANGED <<mailbox, runner, user_cancelled, coordinator, pc, current>>
    BY <1>3 DEF BeginQuiescing, ShutdownTimeout, RunnersDrained, actorVars, runnerVars
  <2>2. (phase # "barrier" \/ frozen') /\ (frozen => frozen')
    BY <1>3 DEF BeginQuiescing, ShutdownTimeout, RunnersDrained, tokenVars
  <2>3. QED BY <2>1, <2>2, MailboxKept
<1>4. CASE Renewal
  BY <1>4 DEF Renewal, Exit, Crash, Restart, NewProcess, MailboxInv
<1>5. QED
  BY <1>1, <1>2, <1>3, <1>4, MailboxOfCallers, MailboxOfMessages, MailboxOfLoop,
     MailboxOfRunners, MailboxOfOthers, Steps DEF Shutdown

-----------------------------------------------------------------------------
(* Handles.                                                                *)

LEMMA FewerHandles ==
  ASSUME HandleInv, NEW S, S \subseteq active
  PROVE  IsFiniteSet(S) /\ Cardinality(S) <= MaxRunning
<1>1. IsFiniteSet(active) /\ Cardinality(active) <= MaxRunning
  BY DEF HandleInv
<1>2. IsFiniteSet(S) /\ Cardinality(S) <= Cardinality(active)
  BY <1>1, FS_Subset
<1>3. Cardinality(S) \in Nat /\ Cardinality(active) \in Nat /\ MaxRunning \in Nat
  BY <1>1, <1>2, FS_CardinalityType, ManagerAssumption
<1>4. QED BY <1>1, <1>2, <1>3

\* The states of a LiveRunner.
Live == {"working", "sending", "rejected"}

\* No runner starts, and what has stopped stays so.
NoneStarts ==
  \A t \in Ids : \/ runner'[t] = runner[t]
                 \/ runner[t] \in Live
                 \/ runner[t] # "none" /\ runner'[t] \notin Live

\* A handle is dropped only when nothing runs under it.
NoneAbandoned == \A t \in active : t \notin active' => runner[t] \notin Live

\* The rows only move on, and the handles stay or are dropped once nothing runs.
LEMMA HandlesKept ==
  ASSUME TypeOK, HandleInv,
         DOMAIN rows \subseteq DOMAIN rows',
         \A t \in DOMAIN rows : rows'[t].status = "Queued" => rows[t].status = "Queued",
         \/ UNCHANGED <<pc, current>>
         \/ pc # "claim_wait"
         \/ pc = "claim_wait" /\ current \notin active',
         active' \subseteq active, cancelled' \subseteq active',
         NoneStarts, NoneAbandoned
  PROVE  HandleInv'
<1> USE DEF NoneStarts, NoneAbandoned, Live
<1>1. \A t \in Ids : LiveRunner(t)' => t \in active'
  <2> SUFFICES ASSUME NEW t \in Ids, LiveRunner(t)'  PROVE t \in active'
    OBVIOUS
  <2>1. runner[t] \in Live
    BY DEF LiveRunner
  <2>2. QED BY <2>1 DEF HandleInv, LiveRunner
<1>2. \A t \in Ids : runner'[t] # "none" => t \in DOMAIN rows' /\ rows'[t].status # "Queued"
  BY DEF HandleInv, LiveRunner, Status
<1>3. ASSUME NEW t \in active', rows'[t].status = "Queued"
      PROVE  pc' = "claim_wait" /\ current' = t
  BY <1>3 DEF HandleInv, Status
<1>4. IsFiniteSet(active') /\ Cardinality(active') <= MaxRunning
  BY FewerHandles
<1>5. \A t \in active' : t \in DOMAIN rows'
  BY DEF HandleInv
<1>6. QED BY <1>1, <1>2, <1>3, <1>4, <1>5 DEF HandleInv, Status, LiveRunner

LEMMA HandlesOfLoop ==
  ASSUME ManagerInv, ActorLoop
  PROVE  HandleInv'
<1> USE DEF ManagerInv
<1>1. /\ TypeOK /\ HandleInv /\ UNCHANGED rows
      /\ runner \in [Ids -> {"none", "working", "sending", "rejected", "done"}]
      /\ active \subseteq Ids /\ cancelled \subseteq active
      /\ \A t \in Ids : LiveRunner(t) => t \in active
  BY LoopFootprint DEF TypeOK, ActorTypeOK, HandleInv
<1>2. CASE UNCHANGED <<active, cancelled, runner>> /\ ~Takes /\ ~Claim
  <2>1. pc # "claim_wait"
    BY <1>2 DEF ActorLoop, Takes, Check, ScanFails, EndScan
  <2>2. QED BY <1>1, <1>2, <2>1, HandlesKept DEF NoneStarts, NoneAbandoned
<1>3. CASE Claim
  <2> DEFINE t == Head(todo)
  <2>1. /\ todo \in Seq(Ids) /\ todo # << >> /\ pc = "claim"
        /\ active' = active \cup {t} /\ UNCHANGED <<cancelled, runner>>
        /\ pc' = "claim_wait" /\ current' = t /\ Cardinality(active) < MaxRunning
    BY <1>3 DEF Claim, AwaitWrite, PermitsLeft, TypeOK, ActorTypeOK, tokenVars, runnerVars
  <2>2. t \in DOMAIN rows /\ t \notin active
    BY <2>1, Popped DEF ScanInv
  <2> HIDE DEF t
  <2>3. IsFiniteSet(active) /\ Cardinality(active) \in Nat
    BY FS_CardinalityType DEF HandleInv
  <2>4. IsFiniteSet(active') /\ Cardinality(active') = Cardinality(active) + 1
    BY <2>1, <2>2, <2>3, FS_AddElement
  <2>5. Cardinality(active') <= MaxRunning
    BY <2>1, <2>3, <2>4, ManagerAssumption
  <2>6. QED BY <1>1, <2>1, <2>2, <2>4, <2>5 DEF HandleInv, LiveRunner, Status
<1>4. CASE ClaimApplied /\ ~frozen
  <2>1. /\ runner' = [runner EXCEPT ![current] = "working"]
        /\ UNCHANGED <<active, cancelled>> /\ pc = "claim_wait" /\ pc' = "claim"
        /\ current \in active /\ Status(current) = "Running"
    BY <1>4 DEF ClaimApplied, TakeAnswer, ClaimInv
  <2>2. current \in Ids /\ current \in DOMAIN rows
    BY <1>1, <2>1 DEF HandleInv
  <2>3. \A t \in Ids : t # current => runner'[t] = runner[t]
    BY <1>1, <2>1
  <2>4. \A t \in active : Status(t) # "Queued"
    BY <2>1 DEF HandleInv
  <2>5. QED BY <1>1, <2>1, <2>2, <2>3, <2>4 DEF HandleInv, LiveRunner, Status
<1>5. CASE (ClaimApplied /\ frozen) \/ ClaimRefused
  <2>1. /\ active' = active \ {current} /\ cancelled' = cancelled \ {current}
        /\ UNCHANGED runner /\ pc = "claim_wait"
        /\ runner[current] = "none"
    BY <1>5 DEF ClaimApplied, ClaimRefused, TakeAnswer, DropHandle, ClaimInv, runnerVars
  <2>2. NoneAbandoned
    BY <2>1 DEF NoneAbandoned, Live
  <2>3. QED BY <1>1, <2>1, <2>2, HandlesKept DEF NoneStarts, NoneAbandoned
<1>6. CASE CancelAnswered
  <2>1. /\ UNCHANGED <<active, runner>> /\ pc = "cancel_wait"
        /\ cancelled' \subseteq active
    BY <1>1, <1>6 DEF CancelAnswered, TakeAnswer, managerVars, runnerVars
  <2>2. QED BY <1>1, <2>1, HandlesKept DEF NoneStarts, NoneAbandoned
<1>7. CASE EventAnswered \/ EventFailed
  <2>1. /\ active' = active /\ cancelled' \subseteq active /\ pc = "event_wait"
        /\ current \in Ids /\ runner[current] = "sending"
        /\ \E v \in {"working", "rejected"} : runner' = [runner EXCEPT ![current] = v]
    BY <1>1, <1>7 DEF EventAnswered, EventFailed, TakeAnswer, enter_degraded, MailboxInv,
             managerVars, tokenVars
  <2>2. NoneStarts
    BY <1>1, <2>1 DEF NoneStarts, Live
  <2>3. QED BY <1>1, <2>1, <2>2, HandlesKept DEF NoneStarts, NoneAbandoned
<1>8. CASE ResultAnswered \/ ResultFailed
  <2>1. /\ active' = active \ {current} /\ cancelled' \subseteq active'
        /\ UNCHANGED runner /\ pc = "finish_wait"
        /\ runner[current] = "done"
    BY <1>1, <1>8 DEF ResultAnswered, ResultFailed, TakeAnswer, DropHandle, enter_degraded,
             MailboxInv, runnerVars
  <2>2. NoneAbandoned
    BY <2>1 DEF NoneAbandoned, Live
  <2>3. QED BY <1>1, <2>1, <2>2, HandlesKept DEF NoneStarts, NoneAbandoned
<1>9. CASE QuiesceDurable \/ QuiesceFailed
  <2>1. /\ UNCHANGED <<active, runner>> /\ cancelled' \subseteq active
        /\ pc = "quiesce_wait"
    BY <1>1, <1>9 DEF QuiesceDurable, QuiesceFailed, TakeAnswer, managerVars, runnerVars
  <2>2. QED BY <1>1, <2>1, HandlesKept DEF NoneStarts, NoneAbandoned
<1>10. QED
  BY <1>2, <1>3, <1>4, <1>5, <1>6, <1>7, <1>8, <1>9, LoopFootprint DEF Takes

LEMMA HandlesOfMessages ==
  ASSUME ManagerInv, ActorMessage
  PROVE  HandleInv'
<1> USE DEF ManagerInv
<1>1. /\ TypeOK /\ HandleInv /\ UNCHANGED rows /\ pc = "idle"
      /\ runner \in [Ids -> {"none", "working", "sending", "rejected", "done"}]
      /\ active \subseteq Ids /\ cancelled \subseteq active
      /\ Says(msg)
  BY MessageFootprint, Remaining DEF TypeOK, ActorTypeOK, HandleInv
<1>2. CASE UNCHANGED <<active, cancelled, runner>>
  BY <1>1, <1>2, HandlesKept DEF NoneStarts, NoneAbandoned
<1>3. CASE RefuseEvent
  <2>1. /\ UNCHANGED <<active, cancelled>> /\ msg.kind = "RunnerEvent"
        /\ runner' = [runner EXCEPT ![msg.task] = "rejected"]
    BY <1>3 DEF RefuseEvent, Receive, managerVars, tokenVars
  <2>2. msg.task \in Ids /\ runner[msg.task] = "sending"
    BY <1>1, <2>1 DEF Says, FromRunner
  <2>3. NoneStarts
    BY <1>1, <2>1, <2>2 DEF NoneStarts, Live
  <2>4. QED BY <1>1, <2>1, <2>3, HandlesKept DEF NoneStarts, NoneAbandoned
<1>4. CASE CancelRunning
  <2>1. UNCHANGED <<active, runner>> /\ cancelled' \subseteq active
    BY <1>1, <1>4 DEF CancelRunning, managerVars, runnerVars
  <2>2. QED BY <1>1, <2>1, HandlesKept DEF NoneStarts, NoneAbandoned
<1>5. CASE DiscardResult
  <2>1. /\ active' = active \ {msg.task} /\ cancelled' = cancelled \ {msg.task}
        /\ UNCHANGED runner /\ msg.kind = "RunnerFinished"
    BY <1>5 DEF DiscardResult, Receive, DropHandle, runnerVars
  <2>2. runner[msg.task] = "done"
    BY <1>1, <2>1 DEF Says
  <2>3. NoneAbandoned
    BY <2>1, <2>2 DEF NoneAbandoned, Live
  <2>4. QED BY <1>1, <2>1, <2>3, HandlesKept DEF NoneStarts, NoneAbandoned
<1>6. QED BY <1>2, <1>3, <1>4, <1>5, MessageFootprint

LEMMA HandleStep ==
  ASSUME ManagerInv, Next
  PROVE  HandleInv'
<1> USE DEF ManagerInv
<1>1. /\ TypeOK /\ QueueInv /\ HandleInv
      /\ runner \in [Ids -> {"none", "working", "sending", "rejected", "done"}]
      /\ active \subseteq Ids /\ cancelled \subseteq active
  BY DEF TypeOK, ActorTypeOK, HandleInv
<1>2. CASE UNCHANGED <<rows, active, cancelled, runner, pc, current>>
  BY <1>1, <1>2, HandlesKept DEF NoneStarts, NoneAbandoned
<1>3. CASE WriterExecute
  <2>1. UNCHANGED <<active, cancelled, runner, pc, current>>
    BY <1>3, WriterFootprint DEF WriterStep, managerVars, tokenVars, runnerVars
  <2>2. /\ DOMAIN rows \subseteq DOMAIN rows'
        /\ \A t \in DOMAIN rows : rows'[t].status = "Queued" => rows[t].status = "Queued"
    BY <1>1, <1>3, Execution DEF Advances, is_retryable
  <2>3. QED BY <1>1, <2>1, <2>2, HandlesKept DEF NoneStarts, NoneAbandoned
<1>4. CASE RunnerStep
  <2>1. PICK t \in Ids, v \in {"sending", "done"} :
          runner[t] \in {"working", "rejected"} /\ runner' = [runner EXCEPT ![t] = v]
    BY <1>1, <1>4, RunnerPosts
  <2>2. UNCHANGED <<rows, active, cancelled, pc, current>>
    BY <1>4, RunnerFootprint DEF managerVars, tokenVars, actorVars
  <2>3. NoneStarts
    BY <1>1, <2>1 DEF NoneStarts, Live
  <2>4. QED BY <1>1, <2>2, <2>3, HandlesKept DEF NoneStarts, NoneAbandoned
<1>5. CASE Tick
  <2>1. UNCHANGED <<rows, active, cancelled, runner>> /\ pc # "claim_wait"
    BY <1>5 DEF Tick, tokenVars, runnerVars
  <2>2. QED BY <1>1, <2>1, HandlesKept DEF NoneStarts, NoneAbandoned
<1>6. CASE Renewal
  <2>1. active' = {} /\ cancelled' = {} /\ runner' = [t \in Ids |-> "none"]
    BY <1>6 DEF Renewal, Exit, Crash, Restart, NewProcess
  <2>2. IsFiniteSet({}) /\ Cardinality({}) = 0
    BY FS_EmptySet
  <2>3. QED BY <2>1, <2>2, ManagerAssumption DEF HandleInv, LiveRunner
<1>7. QED
  BY <1>2, <1>3, <1>4, <1>5, <1>6, HandlesOfLoop, HandlesOfMessages, Steps,
     CallerFootprint, WriterFootprint, OtherFootprint
     DEF managerVars, tokenVars, runnerVars, actorVars

-----------------------------------------------------------------------------
(* The scan.                                                               *)

Scanning == pc \in {"claim", "claim_wait"}

\* While the actor scans, nothing but its own claim moves a row that exists.
LEMMA RowsDuringScan ==
  ASSUME ManagerInv, WriterExecute, Scanning
  PROVE  /\ DOMAIN rows \subseteq DOMAIN rows' /\ DOMAIN rows' \subseteq Nat
         /\ \A t \in DOMAIN rows :
              \/ rows'[t].status = rows[t].status
              \/ /\ pc = "claim_wait" /\ t = current /\ answer' = "applied"
                 /\ rows[t].status = "Queued" /\ rows'[t].status = "Running"
         /\ \A t \in DOMAIN rows' : t \notin DOMAIN rows => \A s \in DOMAIN rows : s < t
<1> USE DEF ManagerInv
<1>1. ~degraded /\ coordinator # "recover_wait"
  BY DEF ScanInv, DegradedInv, Scanning
<1>2. /\ DOMAIN rows \subseteq DOMAIN rows' /\ rows' \in Seq(Row)
      /\ \A t \in DOMAIN rows : Advances(t)
      /\ \A t \in DOMAIN rows' : t \notin DOMAIN rows => \A s \in DOMAIN rows : s < t
  BY Execution
<1>3. DOMAIN rows' \subseteq Nat
  BY <1>2, LenProperties
<1>4. QED BY <1>1, <1>2, <1>3 DEF Advances, Scanning

LEMMA ScanKept ==
  ASSUME ScanInv, UNCHANGED <<rows, todo, scanned, active, degraded>>,
         UNCHANGED <<pc, current>> \/ pc' \notin {"claim", "claim_wait"}
  PROVE  ScanInv'
  BY DEF ScanInv, Listed, Status

LEMMA ScanStep ==
  ASSUME ManagerInv, Next
  PROVE  ScanInv'
<1> USE DEF ManagerInv
<1>1. TypeOK /\ QueueInv /\ ScanInv /\ rows \in Seq(Row) /\ todo \in Seq(Ids)
  BY DEF TypeOK, ActorTypeOK, StoreTypeOK
<1>2. CASE UNCHANGED <<rows, todo, scanned, active, degraded, pc, current>>
  BY <1>1, <1>2, ScanKept
<1>3. CASE pc' \notin {"claim", "claim_wait"}
  BY <1>3 DEF ScanInv
<1>4. CASE WriterExecute /\ Scanning
  <2>1. UNCHANGED <<todo, scanned, active, degraded, pc, current>>
    BY <1>4, WriterFootprint DEF WriterStep, managerVars
  <2>2. pc = "claim_wait" => current \in active
    BY DEF ClaimInv
  <2>3. \A s \in 1..scanned :
          /\ s \in DOMAIN rows
          /\ rows[s].status = "Queued" => Listed(s) \/ (pc = "claim_wait" /\ s = current)
    BY <1>4 DEF ScanInv, Scanning, Status
  <2>4. ASSUME NEW i \in DOMAIN todo
        PROVE  rows'[todo[i]].status = "Queued"
    <3>1. todo[i] \in DOMAIN rows /\ rows[todo[i]].status = "Queued" /\ todo[i] \notin active
      BY <1>4, <2>3 DEF ScanInv, Scanning, Status
    <3>2. QED BY <1>4, <2>2, <3>1, RowsDuringScan
  <2>5. ASSUME NEW s \in 1..scanned
        PROVE  /\ s \in DOMAIN rows'
               /\ rows'[s].status = "Queued" => rows[s].status = "Queued"
    BY <1>4, <2>3, RowsDuringScan
  <2>6. \A s : Listed(s)' <=> Listed(s)
    BY <2>1 DEF Listed
  <2>7. QED BY <1>4, <2>1, <2>3, <2>4, <2>5, <2>6 DEF ScanInv, Scanning, Status
<1>5. CASE Check /\ pc' = "claim"
  <2>1. /\ todo' \in QueuedInOrder /\ scanned' = Len(rows)
        /\ ~degraded /\ UNCHANGED <<rows, active, degraded, current>>
    BY <1>5 DEF Check, claims_allowed
  <2> DEFINE Q == {t \in DOMAIN rows : rows[t].status = "Queued" /\ t \notin active}
             n == Cardinality(Q)
  <2>2. /\ todo' \in [1..n -> Q]
        /\ \A i, j \in DOMAIN todo' : i < j => Rank[todo'[i]] < Rank[todo'[j]]
        /\ \A t \in Q : \E i \in 1..n : todo'[i] = t
    BY <2>1 DEF QueuedInOrder, Listings
  <2>3. /\ DOMAIN todo' = 1..n
        /\ \A i \in DOMAIN todo' :
             todo'[i] \in DOMAIN rows /\ rows[todo'[i]].status = "Queued" /\ todo'[i] \notin active
    <3>1. \A t \in Q : t \in DOMAIN rows /\ rows[t].status = "Queued" /\ t \notin active
      OBVIOUS
    <3> HIDE DEF Q, n
    <3>2. QED BY <2>2, <3>1
  <2>4. \A s \in DOMAIN rows : rows[s].status = "Queued" => s \notin active
    BY <1>5 DEF HandleInv, Check, Status
  <2>5. \A s \in DOMAIN rows : rows[s].status = "Queued" => s \in Q
    BY <2>4
  <2> HIDE DEF Q, n
  <2>6. \A s \in DOMAIN rows : rows[s].status = "Queued" => \E i \in DOMAIN todo' : todo'[i] = s
    BY <2>2, <2>3, <2>5
  <2>7. DOMAIN rows = 1..scanned'
    BY <1>1, <2>1, LenProperties
  <2>8. QED BY <1>5, <2>1, <2>2, <2>3, <2>6, <2>7 DEF ScanInv, Listed, Status
<1>6. CASE Claim
  <2>1. /\ todo # << >> /\ pc = "claim" /\ pc' = "claim_wait" /\ todo' = Tail(todo)
        /\ current' = Head(todo) /\ active' = active \cup {Head(todo)}
        /\ UNCHANGED <<rows, scanned, degraded>>
    BY <1>6 DEF Claim, AwaitWrite
  <2>2. /\ Head(todo) = todo[1] /\ 1 \in DOMAIN todo
        /\ DOMAIN todo = 1..Len(todo) /\ DOMAIN todo' = 1..(Len(todo) - 1) /\ Len(todo) \in Nat
        /\ \A i \in 1..(Len(todo) - 1) : todo'[i] = todo[i + 1]
    BY <1>1, <2>1, Popped
  <2>3. \A i \in DOMAIN todo' : i \in Nat /\ i + 1 \in DOMAIN todo /\ i + 1 > 1 /\ todo'[i] = todo[i + 1]
    BY <2>2
  <2>4. ASSUME NEW i \in DOMAIN todo'
        PROVE  /\ todo'[i] \in 1..scanned /\ Status(todo'[i]) = "Queued"
               /\ todo'[i] \notin active /\ todo'[i] # Head(todo)
    <3>1. todo[1] \in Ids /\ Rank[todo[1]] \in Nat
      BY <1>1, <2>2, ElementOfSeq, RankAssumption
    <3>2. Rank[todo[1]] < Rank[todo[i + 1]]
      BY <2>1, <2>2, <2>3 DEF ScanInv
    <3>3. QED BY <2>1, <2>2, <2>3, <3>1, <3>2 DEF ScanInv
  <2>5. ASSUME NEW i \in DOMAIN todo', NEW j \in DOMAIN todo', i < j
        PROVE  Rank[todo'[i]] < Rank[todo'[j]]
    <3>1. i + 1 < j + 1
      BY <2>3, <2>5
    <3>2. QED BY <2>1, <2>3, <3>1 DEF ScanInv
  <2>6. ASSUME NEW s \in 1..scanned, Status(s) = "Queued", s # current'
        PROVE  Listed(s)'
    <3>1. PICK k \in DOMAIN todo : todo[k] = s
      BY <2>1, <2>6 DEF ScanInv, Listed
    <3>2. k # 1
      BY <2>1, <2>2, <2>6, <3>1
    <3>3. k - 1 \in DOMAIN todo' /\ todo'[k - 1] = todo[k]
      BY <2>2, <3>2
    <3>4. QED BY <3>1, <3>3 DEF Listed
  <2>7. \A s \in 1..scanned : s \in DOMAIN rows
    BY <2>1 DEF ScanInv
  <2>8. QED BY <2>1, <2>4, <2>5, <2>6, <2>7 DEF ScanInv, Status
<1>7. CASE ClaimApplied /\ ~frozen
  <2>1. /\ pc = "claim_wait" /\ pc' = "claim"
        /\ UNCHANGED <<rows, todo, scanned, active, degraded>>
        /\ Status(current) = "Running"
    BY <1>7 DEF ClaimApplied, TakeAnswer, ClaimInv
  <2>2. QED BY <1>1, <2>1 DEF ScanInv, Listed, Status
<1>8. CASE ActorLoop
  <2>1. CASE ClaimRefused
    BY <1>3, <2>1 DEF ClaimRefused, TakeAnswer, ClaimInv
  <2>2. CASE ClaimApplied /\ frozen
    BY <1>3, <2>2 DEF ClaimApplied
  <2>3. CASE Check /\ pc' # "claim"
    BY <1>3, <2>3 DEF Check
  <2>4. CASE ~(Check \/ Claim \/ ClaimApplied \/ ClaimRefused)
    BY <1>3, <1>8, <2>4 DEF ActorLoop, ScanFails, EndScan, CancelAnswered, EventAnswered,
       EventFailed, ResultAnswered, ResultFailed, QuiesceDurable, QuiesceFailed
  <2>5. QED BY <1>5, <1>6, <1>7, <2>1, <2>2, <2>3, <2>4
<1>9. CASE ActorMessage
  <2>1. pc' \notin {"claim", "claim_wait"}
    BY <1>9, MessageFootprint DEF Sends, Claim, CancelQueued, AppendEvent, WriteResult,
       Quiesce, AwaitWrite
  <2>2. QED BY <1>3, <2>1
<1>10. CASE Renewal
  BY <1>3, <1>10 DEF Renewal, Exit, Crash, Restart, NewProcess
<1>11. CASE Tick
  BY <1>3, <1>11 DEF Tick
<1>12. CASE WriterStep /\ ~(WriterExecute /\ Scanning)
  <2>1. CASE Scanning
    BY <1>2, <1>12, <2>1, WriterFootprint DEF managerVars, WriterStep
  <2>2. CASE ~Scanning
    BY <1>3, <1>12, <2>2, WriterFootprint DEF Scanning
  <2>3. QED BY <2>1, <2>2
<1>13. QED
  BY <1>2, <1>4, <1>8, <1>9, <1>10, <1>11, <1>12, Steps, CallerFootprint, RunnerFootprint,
     OtherFootprint DEF managerVars, actorVars, WriterStep

LEMMA ClaimKept ==
  ASSUME ClaimInv,
         UNCHANGED <<rows, todo, scanned, active, cancelled, runner, answer, pc, current>>
           \/ pc' # "claim_wait"
  PROVE  ClaimInv'
  BY DEF ClaimInv, Listed, Status

LEMMA ClaimStep ==
  ASSUME ManagerInv, Next
  PROVE  ClaimInv'
<1> USE DEF ManagerInv
<1>1. /\ TypeOK /\ QueueInv /\ ClaimInv /\ rows \in Seq(Row) /\ todo \in Seq(Ids)
      /\ runner \in [Ids -> {"none", "working", "sending", "rejected", "done"}]
  BY DEF TypeOK, ActorTypeOK, StoreTypeOK
<1>2. CASE UNCHANGED <<rows, todo, scanned, active, cancelled, runner, answer, pc, current>>
  BY <1>1, <1>2, ClaimKept
<1>3. CASE pc' # "claim_wait"
  BY <1>3 DEF ClaimInv
<1>4. CASE WriterStep /\ pc = "claim_wait"
  <2>1. UNCHANGED <<todo, scanned, active, cancelled, runner, pc, current>>
    BY <1>4, WriterFootprint DEF managerVars, tokenVars, runnerVars
  <2>3. current \in DOMAIN rows /\ Scanning
    BY <1>4 DEF ClaimInv, HandleInv, Scanning
  <2>4. CASE WriterExecute
    <3>1. /\ writer[1].by = "actor" => answer = "none" /\ answer' \in {"applied", "conflict"}
          /\ writer[1].by # "actor" => answer' = answer
          /\ writer[1].by = "actor" /\ answer' = "applied" =>
               rows'[current].status = "Running"
          /\ writer[1].by = "actor" /\ answer' = "conflict" =>
               rows[current].status # "Queued"
      BY <1>1, <1>4, <2>4, Execution, HeadOfQueue DEF Awaited, WriterExecute
    <3>2. \/ rows'[current].status = rows[current].status
          \/ answer' = "applied"
               /\ rows[current].status = "Queued" /\ rows'[current].status = "Running"
      BY <2>3, <2>4, RowsDuringScan
    <3>3. /\ answer' # "conflict"
          /\ answer' \in {"none", "error"} => rows'[current].status = "Queued"
          /\ answer' = "applied" => rows'[current].status = "Running"
      BY <1>4, <3>1, <3>2 DEF ClaimInv, Status
    <3>4. QED BY <1>4, <2>1, <3>3 DEF ClaimInv, Status
  <2>5. CASE WriterFail
    <3>1. rows' = rows /\ answer' \in {answer, "error"} /\ (answer' = "error" => answer \in {"none", "error"})
      BY <1>1, <2>5, Failure
    <3>2. QED BY <1>4, <2>1, <3>1 DEF ClaimInv, Status
  <2>6. QED BY <1>4, <2>4, <2>5 DEF WriterStep
<1>5. CASE Claim
  <2>1. /\ todo # << >> /\ pc = "claim" /\ todo' = Tail(todo)
        /\ current' = Head(todo) /\ active' = active \cup {Head(todo)}
        /\ UNCHANGED <<rows, scanned, cancelled, runner, answer>>
    BY <1>5 DEF Claim, AwaitWrite, tokenVars, runnerVars
  <2>2. /\ Head(todo) = todo[1] /\ 1 \in DOMAIN todo
        /\ \A i \in DOMAIN todo' : i \in Nat /\ i + 1 \in DOMAIN todo /\ i + 1 > 1
                                     /\ todo'[i] = todo[i + 1]
    BY <1>1, <2>1, Popped
  <2> DEFINE t == todo[1]
  <2>3. t \in Ids /\ t \in 1..scanned /\ Status(t) = "Queued" /\ t \notin active
    BY <1>1, <2>1, <2>2, ElementOfSeq DEF ScanInv
  <2>4. t \notin cancelled /\ runner[t] = "none" /\ answer = "none"
    BY <2>1, <2>3 DEF HandleInv, QueueInv, Waits
  <2>5. \A i \in DOMAIN todo' : Rank[t] < Rank[todo'[i]]
    BY <2>1, <2>2 DEF ScanInv
  <2>6. QED BY <2>1, <2>2, <2>3, <2>4, <2>5 DEF ClaimInv, Status
<1>6. CASE RunnerStep
  <2>1. PICK t \in Ids, v \in {"sending", "done"} :
          runner[t] \in {"working", "rejected"} /\ runner' = [runner EXCEPT ![t] = v]
    BY <1>1, <1>6, RunnerPosts
  <2>2. UNCHANGED <<rows, todo, scanned, active, cancelled, answer, pc, current>>
    BY <1>6, RunnerFootprint DEF managerVars, tokenVars, actorVars
  <2>3. pc = "claim_wait" => t # current /\ runner'[current] = runner[current]
    BY <1>1, <2>1 DEF ClaimInv
  <2>4. QED BY <2>2, <2>3 DEF ClaimInv, Status
<1>7. CASE ActorLoop /\ ~Claim
  <2>1. pc' # "claim_wait"
    BY <1>7 DEF ActorLoop, Check, ScanFails, EndScan, ClaimApplied, ClaimRefused,
       CancelAnswered, EventAnswered, EventFailed, ResultAnswered, ResultFailed,
       QuiesceDurable, QuiesceFailed
  <2>2. QED BY <1>3, <2>1
<1>8. CASE ActorMessage
  <2>1. pc' # "claim_wait"
    BY <1>8, MessageFootprint DEF Sends, Claim, CancelQueued, AppendEvent, WriteResult,
       Quiesce, AwaitWrite
  <2>2. QED BY <1>3, <2>1
<1>9. CASE Tick \/ Renewal
  BY <1>3, <1>9 DEF Tick, Renewal, Exit, Crash, Restart, NewProcess
<1>10. CASE WriterStep /\ pc # "claim_wait"
  BY <1>3, <1>10, WriterFootprint
<1>11. QED
  BY <1>2, <1>4, <1>5, <1>6, <1>7, <1>8, <1>9, <1>10, Steps, CallerFootprint,
     OtherFootprint DEF managerVars, actorVars, tokenVars, runnerVars

-----------------------------------------------------------------------------
(* The degraded store.                                                     *)

LEMMA DegradedKept ==
  ASSUME DegradedInv, UNCHANGED <<rows, degraded, coordinator>>,
         active' \subseteq active,
         \A t \in active' : t \in cancelled => t \in cancelled',
         root_cancelled => root_cancelled'
  PROVE  DegradedInv'
  BY DEF DegradedInv, IsCancelled, Status

LEMMA DegradedStep ==
  ASSUME ManagerInv, Next
  PROVE  DegradedInv'
<1> USE DEF ManagerInv
<1>1. TypeOK /\ QueueInv /\ DegradedInv
  OBVIOUS
<1>2. CASE UNCHANGED <<rows, degraded, coordinator, active, cancelled, root_cancelled>>
  BY <1>1, <1>2, DegradedKept
<1>3. CASE WriterStep
  <2>1. UNCHANGED <<degraded, active, cancelled, root_cancelled>>
    BY <1>3, WriterFootprint DEF managerVars, tokenVars
  <2>2. CASE WriterExecute
    <3>1. /\ \A t \in DOMAIN rows : Advances(t)
          /\ \A t \in DOMAIN rows' : t \notin DOMAIN rows => rows'[t].status = "Queued"
          /\ writer[1].op = "recover" => \A t \in DOMAIN rows' : ~Incomplete(rows'[t].status)
          /\ coordinator' = IF writer[1].by = "coordinator" THEN "flush" ELSE coordinator
          /\ writer[1].by = "coordinator" =>
               writer[1].op = "recover" /\ coordinator = "recover_wait"
      BY <1>1, <2>2, Execution, HeadOfQueue DEF WriterExecute
    <3>2. CASE writer[1].by = "coordinator"
      BY <1>1, <2>1, <3>1, <3>2 DEF DegradedInv, IsCancelled, Status, Incomplete
    <3>3. CASE writer[1].by # "coordinator" /\ coordinator \in {"flush", "finalize_wait"}
      <4>1. degraded /\ pc # "claim_wait"
        BY <3>3 DEF DegradedInv, ScanInv
      <4>2. \A t \in DOMAIN rows : rows[t].status # "Running"
        BY <3>3 DEF DegradedInv, Status
      <4>3. \A t \in DOMAIN rows : rows'[t].status # "Running"
        BY <3>1, <4>1, <4>2 DEF Advances, is_retryable
      <4>4. QED BY <1>1, <2>1, <3>1, <3>3, <4>3 DEF DegradedInv, IsCancelled, Status
    <3>4. CASE writer[1].by # "coordinator" /\ coordinator \notin {"flush", "finalize_wait"}
      BY <1>1, <2>1, <3>1, <3>4 DEF DegradedInv, IsCancelled
    <3>5. QED BY <3>2, <3>3, <3>4
  <2>3. CASE WriterFail
    <3>1. /\ rows' = rows
          /\ \/ coordinator' = coordinator
             \/ coordinator = "recover_wait" /\ coordinator' = "recover"
      BY <1>1, <2>3, Failure, HeadOfQueue DEF WriterFail
    <3>2. QED BY <1>1, <2>1, <3>1 DEF DegradedInv, IsCancelled, Status
  <2>4. QED BY <1>3, <2>2, <2>3 DEF WriterStep
<1>4. CASE ActorLoop
  <2>1. rows' = rows
    BY <1>4, LoopFootprint
  <2>2. CASE Claim
    <3>1. ~degraded /\ UNCHANGED <<degraded, coordinator>>
      BY <2>2 DEF Claim, ScanInv
    <3>2. QED BY <1>1, <2>1, <3>1 DEF DegradedInv, Status
  <2>3. CASE EventFailed \/ ResultFailed
    <3>1. PICK finished \in {{}, {current}} : enter_degraded(finished)
      BY <2>3 DEF EventFailed, ResultFailed
    <3>2. UNCHANGED root_cancelled
      BY <2>3 DEF EventFailed, ResultFailed
    <3>3. CASE degraded
      BY <1>1, <2>1, <3>1, <3>2, <3>3, DegradedKept DEF enter_degraded
    <3>4. CASE ~degraded
      BY <1>1, <3>1, <3>4 DEF enter_degraded, DegradedInv, IsCancelled
    <3>5. QED BY <3>3, <3>4
  <2>4. CASE ClaimApplied \/ ClaimRefused \/ ResultAnswered
    <3>1. /\ UNCHANGED <<degraded, coordinator, root_cancelled>>
          /\ \/ UNCHANGED <<active, cancelled>>
             \/ DropHandle(current)
      BY <2>4 DEF ClaimApplied, ClaimRefused, ResultAnswered
    <3>2. QED BY <1>1, <2>1, <3>1, DegradedKept DEF DropHandle
  <2>5. CASE CancelAnswered \/ EventAnswered \/ QuiesceDurable \/ QuiesceFailed
    <3>1. /\ UNCHANGED <<degraded, coordinator, active>> /\ cancelled \subseteq cancelled'
          /\ root_cancelled => root_cancelled'
      BY <2>5 DEF CancelAnswered, EventAnswered, QuiesceDurable, QuiesceFailed, managerVars,
         tokenVars
    <3>2. QED BY <1>1, <2>1, <3>1, DegradedKept
  <2>6. CASE Check \/ ScanFails \/ EndScan
    BY <1>2, <2>6 DEF Check, ScanFails, EndScan, managerVars, tokenVars
  <2>7. QED BY <1>4, <2>2, <2>3, <2>4, <2>5, <2>6 DEF ActorLoop
<1>5. CASE ActorMessage
  <2>1. UNCHANGED <<rows, root_cancelled>>
    BY <1>5, MessageFootprint
  <2>2. CASE CancelRunning
    <3>1. /\ UNCHANGED <<degraded, coordinator, active>> /\ cancelled \subseteq cancelled'
      BY <2>2 DEF CancelRunning, managerVars
    <3>2. QED BY <1>1, <2>1, <3>1, DegradedKept
  <2>3. CASE DiscardResult
    BY <1>1, <2>1, <2>3, DegradedKept DEF DiscardResult, DropHandle
  <2>4. CASE FinalizeDegraded
    <3>1. /\ (degraded' => degraded) /\ coordinator' = "off"
          /\ UNCHANGED <<active, cancelled>>
      BY <2>4 DEF FinalizeDegraded, tokenVars
    <3>2. QED BY <1>1, <2>1, <3>1 DEF DegradedInv, IsCancelled
  <2>5. QED BY <1>2, <1>5, <2>1, <2>2, <2>3, <2>4, MessageFootprint
<1>6. CASE CoordinatorRecover \/ CoordinatorFinalize
  <2>1. UNCHANGED <<rows, degraded, active, cancelled, root_cancelled>>
    BY <1>6 DEF CoordinatorRecover, CoordinatorFinalize, managerVars, tokenVars
  <2>2. \/ coordinator' = "off"
        \/ coordinator = "recover" /\ coordinator' = "recover_wait"
        \/ coordinator = "flush" /\ coordinator' = "finalize_wait"
    BY <1>6 DEF CoordinatorRecover, CoordinatorFinalize
  <2>3. QED BY <1>1, <2>1, <2>2 DEF DegradedInv, IsCancelled, Status
<1>7. CASE Shutdown
  <2>1. UNCHANGED <<rows, degraded, coordinator, active, cancelled>>
    BY <1>7 DEF Shutdown, BeginQuiescing, SendQuiesce, ShutdownTimeout, RunnersDrained,
       managerVars, tokenVars
  <2>2. root_cancelled => root_cancelled'
    BY <1>7 DEF Shutdown, BeginQuiescing, SendQuiesce, ShutdownTimeout, RunnersDrained,
       tokenVars
  <2>3. QED BY <1>1, <2>1, <2>2, DegradedKept
<1>8. CASE Renewal
  BY <1>8 DEF Renewal, Exit, Crash, Restart, NewProcess, DegradedInv
<1>9. QED
  BY <1>2, <1>3, <1>4, <1>5, <1>6, <1>7, <1>8, Steps, CallerFootprint, RunnerFootprint,
     OtherFootprint DEF managerVars, tokenVars, Tick

-----------------------------------------------------------------------------
(* Running rows and their handles.                                         *)

LEMMA ResultStep ==
  ASSUME ManagerInv, Next
  PROVE  ResultInv'
<1> USE DEF ManagerInv
<1>1. TypeOK /\ QueueInv /\ ResultInv
  OBVIOUS
<1>2. CASE UNCHANGED <<rows, pc, current, answer>>
  BY <1>1, <1>2 DEF ResultInv, Status
<1>3. CASE pc' # "finish_wait"
  BY <1>3 DEF ResultInv
<1>4. CASE WriterStep /\ pc = "finish_wait"
  <2>1. UNCHANGED <<pc, current>>
    BY <1>4, WriterFootprint
  <2>2. current \in DOMAIN rows
    BY <1>4 DEF MailboxInv, HandleInv
  <2>3. CASE WriterExecute
    <3>1. /\ writer[1].by = "actor" =>
               /\ writer[1].expected = "Running" /\ is_retryable(writer[1].transition.next)
               /\ writer[1].op = "transition" /\ answer' \in {"applied", "conflict"}
      BY <1>1, <1>4, <2>3, Execution, HeadOfQueue DEF Awaited, WriterExecute
    <3>2. /\ writer[1].by # "actor" => answer' = answer
          /\ writer[1].op = "transition" /\ answer' = "applied" =>
               rows'[current].status = writer[1].transition.next
          /\ writer[1].op = "transition" /\ answer' = "conflict" =>
               rows[current].status # writer[1].expected /\ rows' = rows
          /\ Advances(current)
      BY <1>1, <2>2, <2>3, Execution
    <3>3. CASE writer[1].by = "actor"
      BY <3>1, <3>2, <3>3, <2>1 DEF ResultInv, Status, is_retryable
    <3>4. CASE writer[1].by # "actor"
      BY <1>1, <1>4, <3>2, <3>4, <2>1 DEF ResultInv, Status, Advances, is_retryable
    <3>5. QED BY <3>3, <3>4
  <2>4. CASE WriterFail
    <3>1. rows' = rows /\ answer' \in {answer, "error"}
      BY <1>1, <2>4, Failure
    <3>2. QED BY <1>1, <1>4, <2>1, <3>1 DEF ResultInv, Status
  <2>5. QED BY <1>4, <2>3, <2>4 DEF WriterStep
<1>5. CASE ActorLoop
  <2>1. pc' # "finish_wait"
    BY <1>5 DEF ActorLoop, Check, ScanFails, EndScan, Claim, AwaitWrite, ClaimApplied,
       ClaimRefused, CancelAnswered, EventAnswered, EventFailed, ResultAnswered, ResultFailed,
       QuiesceDurable, QuiesceFailed
  <2>2. QED BY <1>3, <2>1
<1>6. CASE ActorMessage
  <2>1. answer' = "none"
    BY <1>1, <1>6, MessageFootprint DEF QueueInv, Waits
  <2>2. QED BY <2>1 DEF ResultInv
<1>7. CASE Renewal \/ Tick
  BY <1>3, <1>7 DEF Renewal, Exit, Crash, Restart, NewProcess, Tick
<1>8. CASE WriterStep /\ pc # "finish_wait"
  BY <1>3, <1>8, WriterFootprint
<1>9. QED
  BY <1>2, <1>4, <1>5, <1>6, <1>7, <1>8, Steps, CallerFootprint, RunnerFootprint,
     OtherFootprint DEF actorVars

\* While the manager serves requests.
Serves == Alive /\ ~frozen /\ ~degraded

LEMMA RunningKept ==
  ASSUME RunningHasHandle, UNCHANGED rows, active \subseteq active', Serves' => Serves
  PROVE  RunningHasHandle'
  BY DEF RunningHasHandle, Serves

LEMMA RunningStep ==
  ASSUME ManagerInv, Next
  PROVE  RunningHasHandle'
<1> USE DEF ManagerInv
<1>1. TypeOK /\ QueueInv /\ RunningHasHandle
  OBVIOUS
<1>2. CASE UNCHANGED <<rows, active, frozen, degraded, phase>>
  BY <1>1, <1>2, RunningKept DEF Serves, Alive
<1>3. CASE WriterStep
  <2>1. UNCHANGED <<active, frozen, degraded, phase, pc>>
    BY <1>3, WriterFootprint DEF managerVars, tokenVars, processVars
  <2>2. CASE WriterExecute
    <3>1. /\ \A t \in DOMAIN rows : Advances(t)
          /\ \A t \in DOMAIN rows' : t \notin DOMAIN rows => rows'[t].status = "Queued"
      BY <1>1, <2>2, Execution
    <3>2. pc = "claim_wait" => current \in active
      BY DEF ClaimInv
    <3>3. ASSUME NEW t \in DOMAIN rows, rows'[t].status = "Running", t \notin active
          PROVE  rows[t].status = "Running"
      BY <3>1, <3>2, <3>3 DEF Advances, is_retryable
    <3>4. QED BY <1>1, <2>1, <3>1, <3>3 DEF RunningHasHandle, Alive
  <2>3. CASE UNCHANGED rows
    BY <1>1, <2>1, <2>3, RunningKept DEF Serves, Alive
  <2>4. QED BY <1>3, <2>2, <2>3, WriterFootprint
<1>4. CASE ActorLoop
  <2>1. UNCHANGED <<rows, frozen>>
    BY <1>4, LoopFootprint
  <2>2. Alive' => Alive
    BY <1>4 DEF ActorLoop, Check, ScanFails, EndScan, Claim, ClaimApplied,
       ClaimRefused, CancelAnswered, EventAnswered, EventFailed, ResultAnswered, ResultFailed,
       QuiesceDurable, QuiesceFailed, TakeAnswer, Alive
  <2>3. CASE Claim
    BY <1>1, <2>1, <2>2, <2>3, RunningKept DEF Claim, Serves
  <2>4. CASE ClaimApplied
    <3>1. frozen \/ UNCHANGED active
      BY <2>4 DEF ClaimApplied
    <3>2. UNCHANGED degraded
      BY <2>4 DEF ClaimApplied
    <3>3. QED BY <1>1, <2>1, <2>2, <3>1, <3>2 DEF RunningHasHandle
  <2>5. CASE ClaimRefused \/ ResultAnswered
    <3>1. active' = active \ {current} /\ UNCHANGED degraded
      BY <2>5 DEF ClaimRefused, ResultAnswered, DropHandle
    <3>2. rows[current].status # "Running"
      BY <1>1, <2>5 DEF ClaimRefused, ResultAnswered, TakeAnswer, ClaimInv, ResultInv, Status,
         TypeOK, ActorTypeOK
    <3>3. QED BY <1>1, <2>1, <2>2, <3>1, <3>2 DEF RunningHasHandle
  <2>6. CASE EventFailed \/ ResultFailed
    <3>1. degraded'
      BY <2>6 DEF EventFailed, ResultFailed, enter_degraded
    <3>2. QED BY <3>1 DEF RunningHasHandle
  <2>7. CASE CancelAnswered \/ EventAnswered \/ QuiesceDurable \/ QuiesceFailed
    <3>1. UNCHANGED <<active, degraded>>
      BY <2>7 DEF CancelAnswered, EventAnswered, QuiesceDurable, QuiesceFailed, managerVars
    <3>2. QED BY <1>1, <2>1, <2>2, <3>1, RunningKept DEF Serves
  <2>8. CASE Check \/ ScanFails \/ EndScan
    <3>1. UNCHANGED <<active, degraded>>
      BY <2>8 DEF Check, ScanFails, EndScan, managerVars
    <3>2. QED BY <1>1, <2>1, <2>2, <3>1, RunningKept DEF Serves
  <2>9. QED BY <1>4, <2>3, <2>4, <2>5, <2>6, <2>7, <2>8 DEF ActorLoop
<1>5. CASE ActorMessage
  <2>1. UNCHANGED <<rows, phase>> /\ (frozen => frozen') /\ Says(msg)
    <3>1. UNCHANGED <<rows, phase>> /\ Says(msg)
      BY <1>1, <1>5, MessageFootprint, Remaining DEF processVars
    <3>2. UNCHANGED frozen \/ frozen'
      BY <1>5, MessageFootprint DEF Quiesce
    <3>3. QED BY <3>1, <3>2
  <2>2. CASE DiscardResult
    <3>1. /\ UNCHANGED <<degraded, frozen>>
          /\ UNCHANGED active \/ frozen \/ degraded
      BY <2>2 DEF DiscardResult, DropHandle
    <3>2. QED BY <1>1, <2>1, <3>1 DEF RunningHasHandle, Alive
  <2>3. CASE FinalizeDegraded
    <3>1. coordinator = "finalize_wait"
      BY <2>1, <2>3 DEF FinalizeDegraded, Receive, Says
    <3>2. \A t \in DOMAIN rows : rows[t].status # "Running"
      BY <3>1 DEF DegradedInv, Status
    <3>3. QED BY <2>1, <3>2 DEF RunningHasHandle
  <2>4. CASE UNCHANGED <<degraded, active>>
    BY <1>1, <2>1, <2>4, RunningKept DEF Serves, Alive
  <2>5. QED BY <1>5, <2>2, <2>3, <2>4, MessageFootprint
<1>6. CASE Shutdown
  <2>1. UNCHANGED <<rows, active, degraded>> /\ (frozen => frozen') /\ Alive
    BY <1>6 DEF Shutdown, BeginQuiescing, SendQuiesce, ShutdownTimeout, RunnersDrained, Alive,
       managerVars, tokenVars
  <2>2. QED BY <1>1, <2>1, RunningKept DEF Serves
<1>7. CASE Exit \/ Crash
  BY <1>7 DEF Exit, Crash, RunningHasHandle, Alive
<1>8. CASE Restart
  <2>1. "APP_RESTARTED" \in Failures
    BY ManagerAssumption DEF Codes
  <2>2. \A t \in DOMAIN rows' : ~Incomplete(rows'[t].status)
    BY <1>1, <1>8, <2>1, Recovery DEF Restart, TypeOK, Incomplete
  <2>3. QED BY <2>2 DEF RunningHasHandle, Incomplete
<1>9. QED
  BY <1>2, <1>3, <1>4, <1>5, <1>6, <1>7, <1>8, Steps, CallerFootprint, RunnerFootprint,
     OtherFootprint DEF managerVars, tokenVars, processVars, Renewal, Shutdown

-----------------------------------------------------------------------------
(* Runners of finished tasks.                                              *)

LEMMA RowsAreIds ==
  ASSUME StoreTypeOK
  PROVE  DOMAIN rows \subseteq Ids
  BY LenProperties, MaxTasksAssumption DEF StoreTypeOK, Ids

LEMMA StoppedKept ==
  ASSUME TypeOK, FinishedTasksAreStopped, UNCHANGED rows,
         \A t \in Ids : runner'[t] \in Live => runner[t] \in Live,
         \A t \in Ids : runner'[t] \in Live /\ t \in cancelled => t \in cancelled',
         root_cancelled' \/ UNCHANGED root_cancelled,
         root_cancelled' \/ phase # "barrier" \/ UNCHANGED phase,
         root_cancelled' \/ frozen' \/ UNCHANGED frozen
  PROVE  FinishedTasksAreStopped'
<1>1. DOMAIN rows \subseteq Ids
  BY RowsAreIds DEF TypeOK
<1> SUFFICES ASSUME NEW t \in DOMAIN rows', runner'[t] \in Live, rows'[t].status # "Running",
                    ~(frozen' /\ phase' = "barrier")
             PROVE  t \in cancelled' \/ root_cancelled'
  BY DEF FinishedTasksAreStopped, LiveRunner, Live, IsCancelled
<1>2. CASE root_cancelled'
  BY <1>2
<1>3. CASE ~root_cancelled'
  <2>1. t \in Ids /\ LiveRunner(t) /\ ~(frozen /\ phase = "barrier") /\ ~root_cancelled
    BY <1>1, <1>3 DEF LiveRunner, Live
  <2>2. t \in cancelled
    BY <2>1 DEF FinishedTasksAreStopped, IsCancelled
  <2>3. QED BY <2>1, <2>2
<1>4. QED BY <1>2, <1>3

LEMMA StoppedByWriter ==
  ASSUME ManagerInv, WriterExecute
  PROVE  FinishedTasksAreStopped'
<1> USE DEF ManagerInv
<1>1. TypeOK /\ QueueInv /\ StoreTypeOK
  BY DEF TypeOK
<1>2. UNCHANGED <<pc, current, active, cancelled, root_cancelled, frozen, runner, phase>>
  BY WriterFootprint DEF WriterStep, managerVars, tokenVars, runnerVars, processVars
<1>3. /\ Len(rows') <= MaxTasks /\ rows' \in Seq(Row)
      /\ \A t \in DOMAIN rows : Advances(t)
  BY <1>1, Execution
<1> SUFFICES ASSUME NEW t \in DOMAIN rows', LiveRunner(t), rows'[t].status # "Running",
                    ~(frozen /\ phase = "barrier")
             PROVE  IsCancelled(t)
  BY <1>2 DEF FinishedTasksAreStopped, LiveRunner, IsCancelled
<1>4. t \in Ids
  BY <1>3, LenProperties, MaxTasksAssumption DEF Ids
<1>5. t \in active /\ t \in DOMAIN rows /\ rows[t].status # "Queued"
  BY <1>4 DEF HandleInv, LiveRunner, Status
<1>6. ~(pc = "finish_wait" /\ t = current)
  BY DEF MailboxInv, LiveRunner
<1>7. CASE rows'[t].status = rows[t].status
  BY <1>5, <1>7 DEF FinishedTasksAreStopped
<1>8. CASE pc = "quiesce_wait"
  BY <1>8 DEF QuitInv, IsCancelled
<1>9. CASE coordinator = "recover_wait"
  BY <1>5, <1>9 DEF DegradedInv
<1>10. QED BY <1>3, <1>5, <1>6, <1>7, <1>8, <1>9 DEF Advances

LEMMA StoppedByLoop ==
  ASSUME ManagerInv, ActorLoop
  PROVE  FinishedTasksAreStopped'
<1> USE DEF ManagerInv
<1>1. TypeOK /\ FinishedTasksAreStopped /\ UNCHANGED <<rows, frozen>>
  BY LoopFootprint
<1>2. /\ runner \in [Ids -> {"none", "working", "sending", "rejected", "done"}]
      /\ \A t \in Ids : runner[t] \in Live => t \in active
  BY DEF TypeOK, ActorTypeOK, HandleInv, Live, LiveRunner
<1>3. CASE ClaimApplied /\ ~frozen
  <2>1. /\ runner' = [runner EXCEPT ![current] = "working"]
        /\ UNCHANGED <<cancelled, root_cancelled, phase>> /\ rows[current].status = "Running"
    BY <1>3 DEF ClaimApplied, TakeAnswer, ClaimInv, processVars, Status
  <2>2. \A t \in DOMAIN rows : t # current => runner'[t] = runner[t]
    BY <1>1, <1>2, <2>1, RowsAreIds DEF TypeOK
  <2>3. QED BY <1>1, <2>1, <2>2 DEF FinishedTasksAreStopped, LiveRunner, IsCancelled
<1>4. CASE (ClaimApplied /\ frozen) \/ ClaimRefused \/ ResultAnswered
  <2>1. /\ cancelled' = cancelled \ {current}
        /\ UNCHANGED <<runner, root_cancelled, phase>>
        /\ runner[current] \in {"none", "done"}
    BY <1>4 DEF ClaimApplied, ClaimRefused, ResultAnswered, TakeAnswer, DropHandle, ClaimInv,
       MailboxInv, runnerVars, processVars
  <2>2. QED BY <1>1, <2>1, StoppedKept DEF Live
<1>5. CASE ResultFailed
  <2>1. /\ \/ cancelled' = cancelled \ {current}
           \/ cancelled' = (cancelled \cup active) \ {current}
        /\ UNCHANGED <<runner, root_cancelled, phase>>
        /\ runner[current] = "done"
    BY <1>5 DEF ResultFailed, TakeAnswer, enter_degraded, MailboxInv, runnerVars, processVars
  <2>2. QED BY <1>1, <2>1, StoppedKept DEF Live
<1>6. CASE EventAnswered \/ EventFailed
  <2>1. /\ cancelled \subseteq cancelled' /\ UNCHANGED <<root_cancelled, phase>>
        /\ current \in Ids /\ runner[current] = "sending"
        /\ \E v \in {"working", "rejected"} : runner' = [runner EXCEPT ![current] = v]
    BY <1>6 DEF EventAnswered, EventFailed, TakeAnswer, enter_degraded, MailboxInv,
             tokenVars, processVars
  <2>2. \A t \in Ids : runner'[t] \in Live => runner[t] \in Live
    BY <1>2, <2>1 DEF Live
  <2>3. QED BY <1>1, <2>1, <2>2, StoppedKept
<1>7. CASE CancelAnswered
  <2>1. UNCHANGED <<runner, root_cancelled, phase>>
    BY <1>7 DEF CancelAnswered, runnerVars, processVars
  <2>2. \A t \in cancelled : t \in cancelled'
    BY <1>7 DEF CancelAnswered
  <2>3. QED BY <1>1, <2>1, <2>2, StoppedKept
<1>8. CASE QuiesceDurable
  <2>1. CASE phase = "barrier"
    <3>1. cancelled' = cancelled \cup active /\ UNCHANGED runner
      BY <1>8, <2>1 DEF QuiesceDurable, runnerVars
    <3>2. \A t \in DOMAIN rows : runner[t] \in Live => t \in cancelled'
      BY <1>1, <1>2, <3>1, RowsAreIds DEF TypeOK
    <3>3. SUFFICES ASSUME NEW t \in DOMAIN rows, runner'[t] \in Live
                   PROVE  t \in cancelled'
      BY <1>1 DEF FinishedTasksAreStopped, LiveRunner, Live, IsCancelled
    <3>4. QED BY <3>1, <3>2, <3>3
  <2>2. CASE phase # "barrier"
    <3>1. UNCHANGED <<runner, root_cancelled, phase, cancelled>>
      BY <1>8, <2>2 DEF QuiesceDurable, runnerVars
    <3>2. QED BY <1>1, <3>1, StoppedKept
  <2>3. QED BY <2>1, <2>2
<1>9. CASE QuiesceFailed
  <2>1. UNCHANGED <<runner, cancelled>>
    BY <1>9 DEF QuiesceFailed, runnerVars
  <2>2. CASE phase = "barrier"
    <3>1. root_cancelled'
      BY <1>9, <2>2 DEF QuiesceFailed
    <3>2. QED BY <1>1, <2>1, <3>1, StoppedKept
  <2>3. CASE phase # "barrier"
    <3>1. UNCHANGED <<root_cancelled, phase>>
      BY <1>9, <2>3 DEF QuiesceFailed
    <3>2. QED BY <1>1, <2>1, <3>1, StoppedKept
  <2>4. QED BY <2>2, <2>3
<1>10. CASE Check \/ ScanFails \/ EndScan \/ Claim
  <2>1. UNCHANGED <<runner, root_cancelled, phase, cancelled>>
    BY <1>10 DEF Check, ScanFails, EndScan, Claim, runnerVars, tokenVars, processVars
  <2>2. QED BY <1>1, <2>1, StoppedKept
<1>11. QED
  BY <1>3, <1>4, <1>5, <1>6, <1>7, <1>8, <1>9, <1>10 DEF ActorLoop

LEMMA StoppedByMessages ==
  ASSUME ManagerInv, ActorMessage
  PROVE  FinishedTasksAreStopped'
<1> USE DEF ManagerInv
<1>1. /\ TypeOK /\ FinishedTasksAreStopped /\ UNCHANGED <<rows, root_cancelled, phase>>
      /\ runner \in [Ids -> {"none", "working", "sending", "rejected", "done"}]
      /\ Says(msg) /\ (frozen' \/ UNCHANGED frozen)
  <2>1. frozen' \/ UNCHANGED frozen
    BY MessageFootprint DEF Quiesce
  <2>2. QED BY <2>1, MessageFootprint, Remaining DEF TypeOK, ActorTypeOK, processVars
<1>2. CASE UNCHANGED <<cancelled, runner>>
  BY <1>1, <1>2, StoppedKept
<1>3. CASE RefuseEvent
  <2>1. /\ UNCHANGED cancelled /\ msg.kind = "RunnerEvent"
        /\ runner' = [runner EXCEPT ![msg.task] = "rejected"]
    BY <1>3 DEF RefuseEvent, Receive, tokenVars
  <2>2. msg.task \in Ids /\ runner[msg.task] = "sending"
    BY <1>1, <2>1 DEF Says, FromRunner
  <2>3. \A t \in Ids : runner'[t] \in Live => runner[t] \in Live
    BY <1>1, <2>1, <2>2 DEF Live
  <2>4. QED BY <1>1, <2>1, <2>3, StoppedKept
<1>4. CASE CancelRunning
  <2>1. UNCHANGED runner /\ cancelled \subseteq cancelled'
    BY <1>4 DEF CancelRunning, runnerVars
  <2>2. /\ \A t \in Ids : runner'[t] \in Live => runner[t] \in Live
        /\ \A t \in Ids : runner'[t] \in Live /\ t \in cancelled => t \in cancelled'
    BY <2>1
  <2>3. QED BY <1>1, <2>1, <2>2, StoppedKept
<1>5. CASE DiscardResult
  <2>1. /\ cancelled' = cancelled \ {msg.task} /\ UNCHANGED runner
        /\ msg.kind = "RunnerFinished"
    BY <1>5 DEF DiscardResult, Receive, DropHandle, runnerVars
  <2>2. runner[msg.task] = "done"
    BY <1>1, <2>1 DEF Says
  <2>3. QED BY <1>1, <2>1, <2>2, StoppedKept DEF Live
<1>6. QED BY <1>2, <1>3, <1>4, <1>5, MessageFootprint

LEMMA StoppedStep ==
  ASSUME ManagerInv, Next
  PROVE  FinishedTasksAreStopped'
<1> USE DEF ManagerInv
<1>1. /\ TypeOK /\ FinishedTasksAreStopped
      /\ runner \in [Ids -> {"none", "working", "sending", "rejected", "done"}]
  BY DEF TypeOK, ActorTypeOK
<1>2. CASE UNCHANGED <<rows, runner, cancelled, root_cancelled, frozen, phase>>
  BY <1>1, <1>2, StoppedKept
<1>3. CASE RunnerStep
  <2>1. PICK t \in Ids, v \in {"sending", "done"} :
          runner[t] \in {"working", "rejected"} /\ runner' = [runner EXCEPT ![t] = v]
    BY <1>1, <1>3, RunnerPosts
  <2>2. UNCHANGED <<rows, cancelled, root_cancelled, frozen, phase>>
    BY <1>3, RunnerFootprint DEF tokenVars, processVars
  <2>3. \A u \in Ids : runner'[u] \in Live => runner[u] \in Live
    BY <1>1, <2>1 DEF Live
  <2>4. QED BY <1>1, <2>2, <2>3, StoppedKept
<1>4. CASE Shutdown
  <2>1. UNCHANGED <<rows, runner, cancelled>>
    BY <1>4 DEF Shutdown, BeginQuiescing, SendQuiesce, ShutdownTimeout, RunnersDrained,
       runnerVars, tokenVars
  <2>2. CASE ShutdownTimeout
    <3>1. root_cancelled'
      BY <2>2 DEF ShutdownTimeout
    <3>2. QED BY <1>1, <2>1, <3>1, StoppedKept
  <2>3. CASE ~ShutdownTimeout
    <3>1. UNCHANGED <<root_cancelled, frozen>> /\ phase # "barrier"
      BY <1>4, <2>3 DEF Shutdown, BeginQuiescing, SendQuiesce, RunnersDrained, tokenVars
    <3>2. QED BY <1>1, <2>1, <3>1, StoppedKept
  <2>4. QED BY <2>2, <2>3
<1>5. CASE Renewal
  <2>1. /\ runner' = [t \in Ids |-> "none"]
    BY <1>5 DEF Renewal, Exit, Crash, Restart, NewProcess
  <2>2. DOMAIN rows' \subseteq Ids
    <3>1. StoreTypeOK /\ "APP_RESTARTED" \in Failures
      BY <1>1, ManagerAssumption DEF Codes, TypeOK
    <3>2. DOMAIN rows' = DOMAIN rows
      BY <1>5, <3>1, Recovery DEF Renewal, Exit, Crash, Restart
    <3>3. QED BY <3>1, <3>2, RowsAreIds
  <2>3. QED BY <2>1, <2>2 DEF FinishedTasksAreStopped, LiveRunner
<1>6. CASE WriterFail
  BY <1>2, <1>6, WriterFootprint DEF WriterStep, WriterFail, tokenVars, runnerVars, processVars
<1>7. QED
  BY <1>2, <1>3, <1>4, <1>5, <1>6, StoppedByWriter, StoppedByLoop, StoppedByMessages, Steps,
     CallerFootprint, OtherFootprint
     DEF WriterStep, Shutdown, tokenVars, runnerVars, processVars

-----------------------------------------------------------------------------
(* Cancelled tasks.                                                        *)

\* Within one life of the process requests, a freeze and a degraded store last.
LEMMA Lasting ==
  ASSUME Next, ~Renewal
  PROVE  /\ \A t \in user_cancelled : t \in user_cancelled'
         /\ frozen' \/ UNCHANGED frozen
         /\ degraded' \/ UNCHANGED degraded \/ FinalizeDegraded
         /\ UNCHANGED rows \/ WriterExecute
<1>1. CASE CallerStep
  <2>1. UNCHANGED <<frozen, degraded, rows>>
    BY <1>1, CallerFootprint DEF tokenVars, managerVars
  <2>2. \A t \in user_cancelled : t \in user_cancelled'
    BY <1>1, CallerFootprint DEF SendCancel
  <2>3. QED BY <2>1, <2>2
<1>2. CASE WriterStep
  BY <1>2, WriterFootprint DEF tokenVars, managerVars
<1>3. CASE ActorLoop
  <2>1. UNCHANGED <<frozen, rows, user_cancelled>>
    BY <1>3, LoopFootprint
  <2>2. degraded' \/ UNCHANGED degraded
    BY <1>3, LoopFootprint DEF EventFailed, ResultFailed, enter_degraded
  <2>3. QED BY <2>1, <2>2
<1>4. CASE ActorMessage
  <2>1. UNCHANGED <<rows, user_cancelled>>
    BY <1>4, MessageFootprint
  <2>2. frozen' \/ UNCHANGED frozen
    BY <1>4, MessageFootprint DEF Quiesce
  <2>3. QED BY <1>4, <2>1, <2>2, MessageFootprint
<1>5. CASE RunnerStep
  BY <1>5, RunnerFootprint DEF tokenVars, managerVars
<1>6. CASE CoordinatorRecover \/ CoordinatorFinalize \/ Shutdown \/ Tick
  <2>1. UNCHANGED <<rows, user_cancelled, degraded>>
    BY <1>6, OtherFootprint
  <2>2. frozen' \/ UNCHANGED frozen
    BY <1>6, OtherFootprint DEF ShutdownTimeout
  <2>3. QED BY <2>1, <2>2
<1>7. QED BY <1>1, <1>2, <1>3, <1>4, <1>5, <1>6, Steps

\* What may cancel a task that is not being claimed still may after any step.
LEMMA MayCancelLasts ==
  ASSUME ManagerInv, Next, ~Renewal, NEW t \in DOMAIN rows,
         ~(pc = "claim_wait" /\ current = t), MayCancel(t)
  PROVE  MayCancel(t)'
<1> USE DEF ManagerInv
<1>1. CASE t \in user_cancelled
  BY <1>1, Lasting DEF MayCancel
<1>2. CASE frozen
  BY <1>2, Lasting DEF MayCancel
<1>3. CASE Status(t) # "Running"
  <2>1. CASE UNCHANGED rows
    BY <1>3, <2>1 DEF MayCancel, Status
  <2>2. CASE WriterExecute
    <3>1. Advances(t)
      BY <2>2, Execution
    <3>2. rows'[t].status # "Running"
      BY <1>3, <3>1 DEF Advances, Status, is_retryable
    <3>3. QED BY <3>2 DEF MayCancel, Status
  <2>3. QED BY <2>1, <2>2, Lasting
<1>4. CASE degraded
  <2>1. CASE FinalizeDegraded
    <3>1. Says(msg) /\ msg.kind = "FinalizeDegraded" /\ UNCHANGED rows
      BY <2>1, Remaining DEF FinalizeDegraded, Receive, ActorMessage
    <3>2. Status(t) # "Running"
      BY <3>1 DEF Says, DegradedInv
    <3>3. QED BY <1>3, <3>2
  <2>2. CASE ~FinalizeDegraded
    <3>1. degraded'
      BY <1>4, <2>2, Lasting
    <3>2. QED BY <3>1 DEF MayCancel
  <2>3. QED BY <2>1, <2>2
<1>5. QED BY <1>1, <1>2, <1>3, <1>4 DEF MayCancel

\* The tokens: a user, a degraded store or a quit cancels them.
LEMMA TokensStep ==
  ASSUME ManagerInv, Next, ~Renewal, NEW t \in cancelled'
  PROVE  MayCancel(t)'
<1> USE DEF ManagerInv
<1>1. CASE t \in cancelled
  <2>1. t \in DOMAIN rows /\ ~(pc = "claim_wait" /\ current = t) /\ MayCancel(t)
    BY <1>1 DEF HandleInv, ClaimInv, CancelInv
  <2>2. QED BY <2>1, MayCancelLasts
<1>2. CASE t \notin cancelled /\ (CancelRunning \/ CancelAnswered)
  <2>1. CASE CancelRunning
    <3>1. ActorMessage /\ msg.kind = "Cancel" /\ t = msg.task /\ UNCHANGED user_cancelled
      BY <1>2, <2>1 DEF CancelRunning, Receive, ActorMessage
    <3>2. Says(msg)
      BY <3>1, Remaining
    <3>3. QED BY <3>1, <3>2 DEF Says, MayCancel
  <2>2. CASE CancelAnswered
    <3>1. pc = "cancel_wait" /\ t = current /\ UNCHANGED user_cancelled
      BY <1>2, <2>2 DEF CancelAnswered, TakeAnswer
    <3>2. QED BY <3>1 DEF MailboxInv, MayCancel
  <2>3. QED BY <1>2, <2>1, <2>2
<1>3. CASE t \notin cancelled /\ (EventFailed \/ ResultFailed)
  <2>1. degraded'
    BY <1>3 DEF EventFailed, ResultFailed, enter_degraded
  <2>2. QED BY <2>1 DEF MayCancel
<1>4. CASE QuiesceDurable
  <2>1. UNCHANGED frozen /\ frozen
    BY <1>4 DEF QuiesceDurable, TakeAnswer, QuitInv
  <2>2. QED BY <2>1 DEF MayCancel
<1>5. CASE ActorLoop /\ ~(CancelAnswered \/ EventFailed \/ ResultFailed \/ QuiesceDurable)
  <2>1. cancelled' \subseteq cancelled
    BY <1>5 DEF ActorLoop, Check, ScanFails, EndScan, Claim, ClaimApplied, ClaimRefused,
       EventAnswered, ResultAnswered, QuiesceFailed, DropHandle, tokenVars
  <2>2. QED BY <1>1, <2>1
<1>6. CASE ActorMessage /\ ~CancelRunning
  <2>1. cancelled' \subseteq cancelled
    BY <1>6, MessageFootprint DEF DiscardResult, DropHandle
  <2>2. QED BY <1>1, <2>1
<1>7. QED
  BY <1>1, <1>2, <1>3, <1>4, <1>5, <1>6, Steps, CallerFootprint, WriterFootprint,
     RunnerFootprint, OtherFootprint DEF tokenVars

\* The results on their way: that of a cancelled task was caused by its token.
LEMMA ResultsStep ==
  ASSUME ManagerInv, Next, ~Renewal, NEW i \in DOMAIN mailbox',
         mailbox'[i].kind = "RunnerFinished", mailbox'[i].result.next = "Cancelled",
         NEW t, mailbox'[i].task = t
  PROVE  MayCancel(t)'
<1> USE DEF ManagerInv
<1>1. TypeOK /\ ActorTypeOK
  BY DEF TypeOK
<1>2. ASSUME NEW j \in DOMAIN mailbox, mailbox[j].kind = "RunnerFinished",
             mailbox[j].result.next = "Cancelled", mailbox[j].task = t
      PROVE  MayCancel(t)'
  <2>1. t \in Ids /\ runner[t] = "done" /\ MayCancel(t)
    BY <1>2 DEF MailboxInv, Says, FromRunner, CancelInv
  <2>2. t \in DOMAIN rows /\ ~(pc = "claim_wait" /\ current = t)
    BY <2>1 DEF HandleInv, ClaimInv
  <2>3. QED BY <2>1, <2>2, MayCancelLasts
<1>3. CASE UNCHANGED mailbox
  BY <1>2, <1>3
<1>4. CASE ActorMessage
  <2>1. /\ i + 1 \in DOMAIN mailbox /\ mailbox'[i] = mailbox[i + 1]
    BY <1>1, <1>4, Received, MessageFootprint
  <2>2. QED BY <1>2, <2>1
<1>5. CASE \E c \in Callers : Disconnect(c)
  <2>1. PICK c \in Callers : Disconnect(c)
    BY <1>5
  <2>2. /\ i \in DOMAIN mailbox /\ mailbox'[i].kind = mailbox[i].kind
        /\ mailbox'[i].task = mailbox[i].task /\ mailbox'[i].result = mailbox[i].result
    BY <1>1, <2>1, Orphaned
  <2>3. QED BY <1>2, <2>2
<1>6. ASSUME NEW m \in Messages, mailbox' = Append(mailbox, m), m.kind # "RunnerFinished"
      PROVE  MayCancel(t)'
  <2>1. i \in DOMAIN mailbox /\ mailbox'[i] = mailbox[i]
    BY <1>1, <1>6, Posted
  <2>2. QED BY <1>2, <2>1
<1>7. CASE \E c \in Callers : SendNotify(c)
  <2>1. PICK c \in Callers : SendNotify(c)
    BY <1>7
  <2>2. QED BY <1>6, <2>1, MessageTypes DEF SendNotify
<1>8. CASE \E c \in Callers, u \in DOMAIN rows : SendCancel(c, u)
  <2>1. PICK c \in Callers, u \in DOMAIN rows : SendCancel(c, u)
    BY <1>8
  <2>2. u \in Ids
    BY <1>1, RowsAreIds DEF TypeOK
  <2>3. QED BY <1>6, <2>1, <2>2, MessageTypes DEF SendCancel
<1>9. CASE SendQuiesce \/ (CoordinatorFinalize /\ ~UNCHANGED mailbox)
  <2>1. PICK kind \in {"Quiesce", "FinalizeDegraded"} :
          mailbox' = Append(mailbox, Message(kind, NoTask, NoCaller, NoTransition))
    BY <1>9 DEF SendQuiesce, CoordinatorFinalize
  <2> DEFINE m == Message(kind, NoTask, NoCaller, NoTransition)
  <2>2. m \in Messages /\ m.kind = kind
    BY MessageTypes
  <2> HIDE DEF m
  <2>3. mailbox' = Append(mailbox, m)
    BY <2>1 DEF m
  <2>4. QED BY <1>6, <2>2, <2>3
<1>10. CASE RunnerStep
  <2>1. PICK u \in Ids :
           /\ runner[u] \in {"working", "rejected"}
           /\ \/ mailbox' = Append(mailbox, Message("RunnerEvent", u, NoCaller, NoTransition))
              \/ \E result \in RunnerOutcomes :
                   /\ mailbox' = Append(mailbox, Message("RunnerFinished", u, NoCaller, result))
                   /\ result.next = "Cancelled" => IsCancelled(u)
    BY <1>1, <1>10, RunnerPosts
  <2>2. CASE mailbox' = Append(mailbox, Message("RunnerEvent", u, NoCaller, NoTransition))
    BY <1>6, <2>2, MessageTypes
  <2>3. ASSUME NEW result \in RunnerOutcomes,
               mailbox' = Append(mailbox, Message("RunnerFinished", u, NoCaller, result)),
               result.next = "Cancelled" => IsCancelled(u)
        PROVE  MayCancel(t)'
    <3> DEFINE m == Message("RunnerFinished", u, NoCaller, result)
    <3>1. m \in Messages /\ m.task = u /\ m.result = result
      BY MessageTypes
    <3> HIDE DEF m
    <3>2. \/ i \in DOMAIN mailbox /\ mailbox'[i] = mailbox[i]
          \/ mailbox'[i] = m
      BY <1>1, <2>3, <3>1, Posted DEF m
    <3>3. CASE i \in DOMAIN mailbox /\ mailbox'[i] = mailbox[i]
      BY <1>2, <3>3
    <3>4. CASE mailbox'[i] = m
      <4>1. t = u /\ IsCancelled(u)
        BY <2>3, <3>1, <3>4
      <4>2. MayCancel(u)
        BY <4>1 DEF IsCancelled, CancelInv, MayCancel
      <4>3. u \in DOMAIN rows /\ ~(pc = "claim_wait" /\ current = u)
        BY <2>1 DEF HandleInv, ClaimInv
      <4>4. MayCancel(u)'
        BY <4>2, <4>3, MayCancelLasts
      <4>5. QED BY <4>1, <4>4
    <3>5. QED BY <3>2, <3>3, <3>4
  <2>4. QED BY <2>1, <2>2, <2>3
<1>11. QED
  BY <1>3, <1>4, <1>5, <1>7, <1>8, <1>9, <1>10, Steps, CallerFootprint, WriterFootprint,
     LoopFootprint, OtherFootprint

\* A Cancelled that is on its way to the table, and that will be written.
CancelCommand(w) == w.op = "transition" /\ w.transition.next = "Cancelled"

\* The commands on their way: a task becomes Cancelled because a user wanted it.
LEMMA CommandsStep ==
  ASSUME ManagerInv, Next, ~Renewal, NEW i \in DOMAIN writer',
         CancelCommand(writer'[i]), NEW t, writer'[i].task = t
  PROVE  \/ t \in user_cancelled'
         \/ writer'[i].expected = "Running" /\ rows'[t].status # "Running"
<1> USE DEF ManagerInv
<1>1. TypeOK /\ StoreTypeOK /\ QueueInv
  BY DEF TypeOK
<1>2. ASSUME NEW j \in DOMAIN writer, CancelCommand(writer[j]), writer[j].task = t,
             writer[j].expected = writer'[i].expected
      PROVE  \/ t \in user_cancelled'
             \/ writer'[i].expected = "Running" /\ rows'[t].status # "Running"
  <2>1. \/ t \in user_cancelled
        \/ writer'[i].expected = "Running" /\ rows[t].status # "Running"
    BY <1>2 DEF CancelInv, CancelCommand, Status
  <2>2. CASE t \in user_cancelled
    BY <2>2, Lasting
  <2>3. CASE writer'[i].expected = "Running" /\ rows[t].status # "Running"
    <3>1. Awaited(writer[j])
      BY <1>2 DEF QueueInv, CancelCommand
    <3>2. pc = "finish_wait" /\ t = current
      BY <1>2, <2>3, <3>1 DEF Awaited, CancelCommand
    <3>3. t \in DOMAIN rows
      BY <3>2 DEF MailboxInv, HandleInv
    <3>4. CASE UNCHANGED rows
      BY <2>3, <3>4
    <3>5. CASE WriterExecute
      <4>1. Advances(t)
        BY <1>1, <3>3, <3>5, Execution
      <4>2. QED BY <2>3, <3>2, <4>1 DEF Advances, is_retryable
    <3>6. QED BY <3>4, <3>5, Lasting
  <2>4. QED BY <2>1, <2>2, <2>3
<1>3. CASE UNCHANGED writer
  BY <1>2, <1>3
<1>4. CASE WriterStep
  <2>1. i + 1 \in DOMAIN writer /\ writer'[i] = writer[i + 1]
    BY <1>1, <1>4, Executed, WriterFootprint
  <2>2. QED BY <1>2, <2>1
<1>5. CASE \E c \in Callers : Disconnect(c)
  <2>1. PICK c \in Callers : Disconnect(c)
    BY <1>5
  <2>2. /\ i \in DOMAIN writer /\ writer'[i].op = writer[i].op
        /\ writer'[i].task = writer[i].task /\ writer'[i].expected = writer[i].expected
        /\ writer'[i].transition = writer[i].transition
    BY <1>1, <2>1, Orphaned
  <2>3. QED BY <1>2, <2>2 DEF CancelCommand
<1>6. ASSUME NEW command \in Commands, writer' = Append(writer, command),
             ~CancelCommand(command)
      PROVE  \/ t \in user_cancelled'
             \/ writer'[i].expected = "Running" /\ rows'[t].status # "Running"
  <2>1. i \in DOMAIN writer /\ writer'[i] = writer[i]
    BY <1>1, <1>6, Sent
  <2>2. QED BY <1>2, <2>1
<1>7. CASE \E c \in Callers : SendInsert(c)
  <2>1. PICK c \in Callers : SendInsert(c)
    BY <1>7
  <2>2. call[c].task \in Ids \cup {NoTask}
    BY DEF TypeOK, ProcessTypeOK, Calls
  <2>3. ~CancelCommand(InsertCommand(c, call[c].task))
    BY DEF CancelCommand, InsertCommand, Command
  <2>4. QED BY <1>6, <2>1, <2>2, <2>3, CommandTypes DEF SendInsert
<1>8. CASE CoordinatorRecover /\ ~UNCHANGED writer
  <2>1. "STORE_WRITE_FAILED" \in Failures
    BY ManagerAssumption DEF Codes
  <2>2. ~CancelCommand(RecoverCommand("coordinator", "STORE_WRITE_FAILED"))
    BY DEF CancelCommand, RecoverCommand, Command
  <2>3. QED BY <1>6, <1>8, <2>1, <2>2, CommandTypes DEF CoordinatorRecover
<1>9. CASE Sends
  <2>1. PICK command \in Commands :
           /\ writer' = Append(writer, command)
           /\ command.transition.next = "Cancelled" =>
                \/ CancelQueued /\ command.task \in user_cancelled
                \/ WriteResult /\ command.expected = "Running"
                     /\ command.task = msg.task /\ msg.result.next = "Cancelled"
                \/ command.op = "append"
    BY <1>1, <1>9, Sending
  <2>2. \/ i \in DOMAIN writer /\ writer'[i] = writer[i]
        \/ writer'[i] = command
    BY <1>1, <2>1, Sent
  <2>3. CASE i \in DOMAIN writer /\ writer'[i] = writer[i]
    BY <1>2, <2>3
  <2>4. CASE writer'[i] = command /\ CancelQueued
    BY <2>1, <2>4, Lasting DEF CancelCommand, CancelQueued, WriteResult, Receive
  <2>5. CASE writer'[i] = command /\ WriteResult
    <3>1. /\ command.expected = "Running" /\ t = msg.task /\ msg.result.next = "Cancelled"
          /\ msg.kind = "RunnerFinished" /\ ~frozen /\ ~degraded
          /\ UNCHANGED <<rows, user_cancelled>>
      BY <2>1, <2>5 DEF CancelCommand, CancelQueued, WriteResult, Receive
    <3>2. mailbox # << >> /\ mailbox \in Seq(Messages)
      BY <1>1, <2>5 DEF WriteResult, Receive, TypeOK, ActorTypeOK
    <3>3. msg = mailbox[1] /\ 1 \in DOMAIN mailbox
      BY <3>2, Popped DEF msg
    <3>4. MayCancel(t)
      BY <3>1, <3>3 DEF CancelInv
    <3>5. QED BY <2>5, <3>1, <3>4 DEF MayCancel, Status
  <2>6. CASE writer'[i] = command /\ ~CancelQueued /\ ~WriteResult
    BY <2>1, <2>6 DEF CancelCommand
  <2>7. QED BY <2>2, <2>3, <2>4, <2>5, <2>6
<1>10. QED
  BY <1>3, <1>4, <1>5, <1>7, <1>8, <1>9, Steps, CallerFootprint, LoopFootprint,
     MessageFootprint, RunnerFootprint, OtherFootprint DEF Sends

LEMMA CancelStep ==
  ASSUME ManagerInv, Next
  PROVE  CancelInv'
<1> USE DEF ManagerInv
<1>1. CASE Renewal
  BY <1>1 DEF Renewal, Exit, Crash, Restart, NewProcess, CancelInv
<1>2. CASE ~Renewal
  <2>1. \A t \in cancelled' : MayCancel(t)'
    BY <1>2, TokensStep
  <2>2. root_cancelled' => frozen'
    <3>1. CASE UNCHANGED root_cancelled
      <4>1. root_cancelled => frozen
        BY DEF CancelInv
      <4>2. frozen' \/ UNCHANGED frozen
        BY <1>2, Lasting
      <4>3. QED BY <3>1, <4>1, <4>2
    <3>2. CASE QuiesceFailed
      <4>1. frozen /\ UNCHANGED frozen
        BY <3>2 DEF QuiesceFailed, TakeAnswer, QuitInv
      <4>2. QED BY <4>1
    <3>3. CASE ShutdownTimeout
      BY <3>3 DEF ShutdownTimeout
    <3>4. QED
      BY <1>2, <3>1, <3>2, <3>3, Steps, CallerFootprint, WriterFootprint, LoopFootprint,
         MessageFootprint, RunnerFootprint, OtherFootprint DEF tokenVars
  <2>3. ASSUME NEW i \in DOMAIN mailbox', NEW n, n = mailbox'[i],
               n.kind = "RunnerFinished", n.result.next = "Cancelled", NEW t, t = n.task
        PROVE  MayCancel(t)'
    BY <1>2, <2>3, ResultsStep
  <2>4. \A i \in DOMAIN mailbox' :
          mailbox'[i].kind = "RunnerFinished" /\ mailbox'[i].result.next = "Cancelled"
            => MayCancel(mailbox[i].task)'
    BY <2>3
  <2>5. \A i \in DOMAIN writer' :
          writer'[i].op = "transition" /\ writer'[i].transition.next = "Cancelled" =>
            \/ writer'[i].task \in user_cancelled'
            \/ writer'[i].expected = "Running" /\ rows'[writer'[i].task].status # "Running"
    BY <1>2, CommandsStep DEF CancelCommand
  <2>6. QED BY <2>1, <2>2, <2>4, <2>5 DEF CancelInv, Status
<1>3. QED BY <1>1, <1>2

LEMMA CancelledStep ==
  ASSUME ManagerInv, Next
  PROVE  CancelledOnlyByUser'
<1> USE DEF ManagerInv
<1>1. TypeOK /\ QueueInv /\ StoreTypeOK
  BY DEF TypeOK
<1>2. CASE UNCHANGED rows /\ \A t \in user_cancelled : t \in user_cancelled'
  BY <1>2 DEF CancelledOnlyByUser
<1>3. CASE WriterExecute
  <2>1. /\ UNCHANGED user_cancelled
        /\ \A t \in DOMAIN rows : Advances(t)
        /\ \A t \in DOMAIN rows' : t \notin DOMAIN rows => rows'[t].status = "Queued"
        /\ 1 \in DOMAIN writer
    BY <1>1, <1>3, Execution, HeadOfQueue DEF WriterExecute
  <2>2. ASSUME NEW t \in DOMAIN rows, rows'[t].status = "Cancelled"
        PROVE  t \in user_cancelled
    <3>1. CASE rows[t].status = "Cancelled"
      BY <3>1 DEF CancelledOnlyByUser
    <3>2. CASE pc = "cancel_wait" /\ t = current
      BY <3>2 DEF MailboxInv
    <3>3. CASE /\ rows[t].status = "Running" /\ writer[1].transition.next = "Cancelled"
               /\ writer[1].op = "transition" /\ writer[1].task = t
      BY <2>1, <3>3 DEF CancelInv, Status
    <3>4. QED BY <2>1, <2>2, <3>1, <3>2, <3>3 DEF Advances
  <2>3. QED BY <2>1, <2>2 DEF CancelledOnlyByUser
<1>4. CASE Renewal
  <2>1. UNCHANGED user_cancelled /\ (UNCHANGED rows \/ RecoverRows("APP_RESTARTED"))
    BY <1>4 DEF Renewal, Exit, Crash, Restart
  <2>2. "APP_RESTARTED" \in Failures
    BY ManagerAssumption DEF Codes
  <2>3. CASE RecoverRows("APP_RESTARTED")
    BY <1>1, <2>1, <2>2, <2>3, Recovery DEF CancelledOnlyByUser
  <2>4. QED BY <1>2, <2>1, <2>3
<1>5. QED BY <1>2, <1>3, <1>4, Lasting

-----------------------------------------------------------------------------
(* The quit.                                                               *)

\* The phases of a quit, its gate and its freeze.
LEMMA PhaseStep ==
  ASSUME ManagerInv, Next, ~Renewal
  PROVE  /\ phase' \notin {"up", "stopped"} => gateClosed'
         /\ root_cancelled' => phase' = "stopping"
         /\ pc' = "quiesce_wait" => frozen' /\ (phase' = "barrier" \/ root_cancelled')
<1> USE DEF ManagerInv
<1>1. /\ phase \notin {"up", "stopped"} => gateClosed
      /\ root_cancelled => phase = "stopping"
      /\ pc = "quiesce_wait" => frozen /\ (phase = "barrier" \/ root_cancelled)
  BY DEF QuitInv
<1>2. CASE /\ UNCHANGED <<phase, gateClosed, root_cancelled, frozen>>
           /\ UNCHANGED pc \/ pc' # "quiesce_wait"
  BY <1>1, <1>2
<1>3. CASE Quiesce
  <2>1. /\ UNCHANGED <<phase, gateClosed, root_cancelled>> /\ frozen'
        /\ ~frozen /\ msg.kind = "Quiesce" /\ ActorMessage
    BY <1>3 DEF Quiesce, Receive, processVars, ActorMessage
  <2>2. phase = "barrier"
    BY <2>1, Remaining DEF Says
  <2>3. QED BY <1>1, <2>1, <2>2
<1>4. CASE QuiesceDurable
  <2>1. /\ UNCHANGED <<gateClosed, root_cancelled>> /\ pc' = "check"
        /\ \/ UNCHANGED phase
           \/ phase = "barrier" /\ phase' = "draining"
    BY <1>4 DEF QuiesceDurable, gateVars
  <2>2. QED BY <1>1, <2>1
<1>5. CASE QuiesceFailed
  <2>1. UNCHANGED gateClosed /\ pc' = "check"
    BY <1>5 DEF QuiesceFailed, gateVars
  <2>2. \/ UNCHANGED <<phase, root_cancelled>>
        \/ phase = "barrier" /\ phase' = "stopping"
    BY <1>5 DEF QuiesceFailed
  <2>3. QED BY <1>1, <2>1, <2>2
<1>6. CASE BeginQuiescing
  <2>1. gateClosed' /\ UNCHANGED <<root_cancelled, frozen, pc>> /\ phase = "up"
    BY <1>6 DEF BeginQuiescing, tokenVars, actorVars
  <2>2. QED BY <1>1, <2>1
<1>7. CASE SendQuiesce \/ RunnersDrained
  <2>1. /\ UNCHANGED <<root_cancelled, frozen, pc, gateClosed>>
        /\ phase \in {"idle_wait", "draining"}
    BY <1>7 DEF SendQuiesce, RunnersDrained, tokenVars, actorVars, gateVars
  <2>2. QED BY <1>1, <2>1
<1>8. CASE ShutdownTimeout
  <2>1. /\ root_cancelled' /\ frozen' /\ UNCHANGED gateClosed /\ phase' = "stopping"
    BY <1>8 DEF ShutdownTimeout, gateVars
  <2>2. gateClosed
    BY <1>1, <1>8 DEF ShutdownTimeout
  <2>3. QED BY <2>1, <2>2
<1>9. CASE ActorLoop /\ ~QuiesceDurable /\ ~QuiesceFailed
  <2>1. UNCHANGED <<phase, gateClosed, root_cancelled, frozen>>
    BY <1>9, LoopFootprint
  <2>2. pc' # "quiesce_wait"
    BY <1>9 DEF ActorLoop, Check, ScanFails, EndScan, Claim, AwaitWrite, ClaimApplied,
       ClaimRefused, CancelAnswered, EventAnswered, EventFailed, ResultAnswered, ResultFailed
  <2>3. QED BY <1>2, <2>1, <2>2
<1>10. CASE ActorMessage /\ ~Quiesce
  <2>1. UNCHANGED <<phase, gateClosed, root_cancelled, frozen>>
    BY <1>10, MessageFootprint DEF processVars
  <2>2. pc' # "quiesce_wait"
    BY <1>10, MessageFootprint DEF Sends, Claim, CancelQueued, AppendEvent, WriteResult,
       AwaitWrite
  <2>3. QED BY <1>2, <2>1, <2>2
<1>11. CASE Tick
  BY <1>2, <1>11 DEF Tick, tokenVars, processVars, gateVars
<1>12. QED
  BY <1>2, <1>3, <1>4, <1>5, <1>6, <1>7, <1>8, <1>9, <1>10, <1>11, Steps, CallerFootprint,
     WriterFootprint, RunnerFootprint, OtherFootprint
     DEF Shutdown, tokenVars, processVars, gateVars, actorVars

\* Behind a closed gate no caller begins an insert.
LEMMA GateHolds ==
  ASSUME TypeOK, Next, ~Renewal, gateClosed,
         \A c \in Callers : call[c].op # "insert"
  PROVE  \A c \in Callers : call'[c].op # "insert"
<1>1. call \in [Callers -> Calls]
  BY DEF TypeOK, ProcessTypeOK
<1>2. CASE UNCHANGED call
  BY <1>2
<1>3. ASSUME NEW c \in Callers, NEW op \in {"idle", "notify", "waiting", "dialog"},
             call' = [call EXCEPT ![c] = [op |-> op, task |-> NoTask]]
      PROVE  \A d \in Callers : call'[d].op # "insert"
  BY <1>1, <1>3
<1>4. Idle = [op |-> "idle", task |-> NoTask]
  BY DEF Idle
<1>5. CASE CloseDialog
  BY <1>1, <1>4, <1>5 DEF CloseDialog
<1>6. CASE CallerStep /\ ~CloseDialog
  <2>1. PICK c \in Callers :
          \/ SendInsert(c) \/ SendNotify(c) \/ \E t \in DOMAIN rows : SendCancel(c, t)
          \/ OpenDialog(c) \/ Disconnect(c)
    BY <1>6 DEF CallerStep, BeginInsert, enter_data_mutation
  <2>2. ~SendInsert(c)
    BY DEF SendInsert
  <2>3. CASE SendNotify(c)
    <3>1. call' = [call EXCEPT ![c] = [call[c] EXCEPT !.op = "waiting"]]
      BY <2>3 DEF SendNotify
    <3>2. [call[c] EXCEPT !.op = "waiting"].op = "waiting"
      BY <1>1 DEF Calls
    <3>3. QED BY <1>1, <3>1, <3>2
  <2>4. CASE \E t \in DOMAIN rows : SendCancel(c, t)
    BY <1>3, <2>4 DEF SendCancel
  <2>5. CASE OpenDialog(c) \/ Disconnect(c)
    BY <1>3, <1>4, <2>5 DEF OpenDialog, Disconnect
  <2>6. QED BY <2>1, <2>2, <2>3, <2>4, <2>5
<1>7. CASE WriterStep
  BY <1>2, <1>3, <1>4, <1>7 DEF WriterStep, WriterExecute, WriterFail, Respond
<1>8. CASE ActorMessage
  BY <1>2, <1>3, <1>4, <1>8 DEF ActorMessage, NotifyQueued, CancelQueued, CancelRunning,
       CancelRefused, AppendEvent, RefuseEvent, WriteResult, DiscardResult,
       FinalizeDegraded, Quiesce, QuiesceRefused, Return
<1>9. CASE CancelAnswered
  BY <1>2, <1>3, <1>4, <1>9 DEF CancelAnswered, Return
<1>10. QED
  BY <1>2, <1>6, <1>7, <1>8, <1>9, <1>5, Steps, LoopFootprint, RunnerFootprint,
     OtherFootprint

\* A process that is gone does nothing until it is started again.
LEMMA OnlyAlive ==
  ASSUME Next, ~Renewal
  PROVE  Alive
  BY DEF Renewal, Next, CallerStep, BeginInsert, SendInsert, SendNotify, SendCancel,
     OpenDialog, CloseDialog, Disconnect, enter_data_mutation, WriterExecute, WriterFail, Tick,
     ActorMessage, NotifyQueued, CancelQueued, CancelRunning, CancelRefused, AppendEvent,
     RefuseEvent, WriteResult, DiscardResult, FinalizeDegraded, Quiesce, QuiesceRefused, Receive,
     ActorLoop, Check, ScanFails, EndScan, Claim, ClaimApplied, ClaimRefused, CancelAnswered,
     EventAnswered, EventFailed, ResultAnswered, ResultFailed, QuiesceDurable, QuiesceFailed,
     TakeAnswer, CoordinatorRecover, CoordinatorFinalize, RunnerStep, Emit, Succeed,
     StopOnCancel, FailOnRejection, FailByItself, BeginQuiescing, SendQuiesce,
     ShutdownTimeout, RunnersDrained, Alive

\* At the barrier, and after a clean shutdown, no caller is about to insert.
LEMMA BarrierStep ==
  ASSUME ManagerInv, Next, ~Renewal,
         phase' = "barrier" \/ outcome' = "Clean"
  PROVE  gateClosed' /\ \A c \in Callers : call'[c].op # "insert"
<1> USE DEF ManagerInv
<1>1. TypeOK
  OBVIOUS
<1>2. CASE Alive /\ (phase = "barrier" \/ outcome = "Clean")
  <2>1. gateClosed /\ \A c \in Callers : call[c].op # "insert"
    BY <1>2 DEF QuitInv
  <2>2. \A c \in Callers : call'[c].op # "insert"
    BY <1>1, <2>1, GateHolds
  <2>3. gateClosed'
    <3>1. UNCHANGED gateClosed \/ gateClosed'
      BY Steps, CallerFootprint, WriterFootprint, LoopFootprint, MessageFootprint,
         RunnerFootprint, OtherFootprint DEF gateVars, BeginQuiescing
    <3>2. QED BY <2>1, <3>1
  <2>4. QED BY <2>2, <2>3
<1>3. CASE SendQuiesce
  <2>1. UNCHANGED <<call, gateClosed>> /\ phase = "idle_wait" /\ InFlight = {}
    BY <1>3 DEF SendQuiesce, gateVars
  <2>2. gateClosed'
    BY <2>1 DEF QuitInv
  <2>3. \A c \in Callers : call[c] = Idle
    BY <2>1 DEF InFlight
  <2>4. QED BY <2>1, <2>2, <2>3 DEF Idle
<1>4. Alive
  BY OnlyAlive
<1>5. CASE ~(phase = "barrier" \/ outcome = "Clean")
  <2>1. ~UNCHANGED <<phase, outcome>>
    BY <1>5
  <2>2. Shutdown \/ QuiesceDurable \/ QuiesceFailed
    BY <2>1, Steps, CallerFootprint, WriterFootprint, LoopFootprint, MessageFootprint,
       RunnerFootprint, OtherFootprint DEF processVars
  <2>3. SendQuiesce
    BY <1>5, <2>2 DEF Shutdown, BeginQuiescing, ShutdownTimeout, RunnersDrained,
       QuiesceDurable, QuiesceFailed
  <2>4. QED BY <1>3, <2>3
<1>6. QED BY <1>2, <1>4, <1>5

\* What the writer's queue still holds of inserts was there before, or is of a caller.
LEMMA InsertsQueued ==
  ASSUME ManagerInv, Next, ~Renewal, NEW j \in DOMAIN writer', writer'[j].op = "insert",
         \A c \in Callers : call[c].op # "insert"
  PROVE  \/ WriterStep /\ j + 1 \in DOMAIN writer /\ writer[j + 1].op = "insert"
         \/ j \in DOMAIN writer /\ writer[j].op = "insert"
<1> USE DEF ManagerInv
<1>1. TypeOK /\ StoreTypeOK /\ QueueInv
  BY DEF TypeOK
<1>2. ~(\E c \in Callers : SendInsert(c))
  BY DEF SendInsert
<1>3. CASE UNCHANGED writer
  BY <1>3
<1>4. CASE WriterStep
  <2>1. j + 1 \in DOMAIN writer /\ writer'[j] = writer[j + 1]
    BY <1>1, <1>4, Executed, WriterFootprint
  <2>2. QED BY <1>4, <2>1
<1>5. CASE \E c \in Callers : Disconnect(c)
  BY <1>1, <1>5, Orphaned
<1>6. ASSUME NEW command \in Commands, writer' = Append(writer, command),
             command.op # "insert"
      PROVE  j \in DOMAIN writer /\ writer[j].op = "insert"
  BY <1>1, <1>6, Sent
<1>7. CASE Sends
  BY <1>1, <1>6, <1>7, Sending
<1>8. CASE CoordinatorRecover /\ ~UNCHANGED writer
  <2>1. "STORE_WRITE_FAILED" \in Failures
    BY ManagerAssumption DEF Codes
  <2>2. RecoverCommand("coordinator", "STORE_WRITE_FAILED").op # "insert"
    BY DEF RecoverCommand, Command
  <2>3. QED BY <1>6, <1>8, <2>1, <2>2, CommandTypes DEF CoordinatorRecover
<1>9. QED
  BY <1>2, <1>3, <1>4, <1>5, <1>7, <1>8, Steps, CallerFootprint, LoopFootprint,
     MessageFootprint, RunnerFootprint, OtherFootprint DEF Sends

\* What is in the writer's queue stays where it is until the writer takes it.
LEMMA QueueStays ==
  ASSUME ManagerInv, Next, ~Renewal, ~WriterStep, NEW i \in DOMAIN writer
  PROVE  /\ writer'[i].op = writer[i].op
         /\ writer'[i].by = writer[i].by \/ writer'[i].by = NoCaller
<1> USE DEF ManagerInv
<1>1. TypeOK /\ StoreTypeOK /\ QueueInv
  BY DEF TypeOK
<1>2. CASE UNCHANGED writer
  BY <1>2
<1>3. ASSUME NEW command \in Commands, writer' = Append(writer, command)
      PROVE  writer'[i] = writer[i]
  BY <1>1, <1>3, Sent
<1>4. CASE \E c \in Callers : SendInsert(c)
  <2>1. PICK c \in Callers : SendInsert(c)
    BY <1>4
  <2>2. call[c].task \in Ids \cup {NoTask}
    BY DEF TypeOK, ProcessTypeOK, Calls
  <2>3. writer' = Append(writer, InsertCommand(c, call[c].task))
    BY <2>1 DEF SendInsert
  <2>4. QED BY <1>3, <2>2, <2>3, CommandTypes
<1>5. CASE \E c \in Callers : Disconnect(c)
  BY <1>1, <1>5, Orphaned
<1>6. CASE Sends
  BY <1>1, <1>3, <1>6, Sending
<1>7. CASE CoordinatorRecover /\ ~UNCHANGED writer
  <2>1. "STORE_WRITE_FAILED" \in Failures
    BY ManagerAssumption DEF Codes
  <2>2. QED BY <1>3, <1>7, <2>1, CommandTypes DEF CoordinatorRecover
<1>8. QED
  BY <1>2, <1>4, <1>5, <1>6, <1>7, Steps, CallerFootprint, LoopFootprint,
     MessageFootprint, RunnerFootprint, OtherFootprint DEF Sends

\* Nothing is inserted after the recovery of a quit.
LEMMA RecoveryIsLast ==
  ASSUME ManagerInv, Next, ~Renewal, phase' = "barrier",
         NEW i \in DOMAIN writer', NEW j \in DOMAIN writer',
         writer'[i].by = "actor", writer'[i].op = "recover", i < j
  PROVE  writer'[j].op # "insert"
<1> USE DEF ManagerInv
<1>1. TypeOK /\ StoreTypeOK /\ QueueInv
  BY DEF TypeOK
<1>2. CASE phase = "barrier"
  <2>1. \A c \in Callers : call[c].op # "insert"
    BY <1>2 DEF QuitInv, Alive
  <2>2. SUFFICES ASSUME writer'[j].op = "insert"  PROVE FALSE
    OBVIOUS
  <2>3. CASE WriterStep
    <3>1. /\ i + 1 \in DOMAIN writer /\ writer'[i] = writer[i + 1] /\ i \in Nat
          /\ j + 1 \in DOMAIN writer /\ writer'[j] = writer[j + 1] /\ j \in Nat
      BY <1>1, <2>3, Executed, WriterFootprint
    <3>2. i + 1 < j + 1
      BY <3>1
    <3>3. QED BY <1>2, <2>2, <3>1, <3>2 DEF QuitInv
  <2>4. CASE ~WriterStep
    <3>1. j \in DOMAIN writer /\ writer[j].op = "insert"
      BY <2>1, <2>2, <2>4, InsertsQueued
    <3>2. /\ writer \in Seq(Commands) /\ DOMAIN writer = 1..Len(writer) /\ Len(writer) \in Nat
          /\ writer' \in Seq(Commands)
      BY <1>1, LenProperties, StoreTypes DEF StoreTypeOK
    <3>3. DOMAIN writer' = 1..Len(writer')
      BY <3>2, LenProperties
    <3>4. i \in DOMAIN writer
      BY <3>1, <3>2, <3>3
    <3>5. writer[i].op = "recover" /\ writer[i].by = "actor"
      BY <2>4, <3>4, QueueStays DEF NoCaller
    <3>6. QED BY <1>2, <3>1, <3>4, <3>5 DEF QuitInv
  <2>5. QED BY <2>3, <2>4
<1>3. CASE SendQuiesce
  <2>1. UNCHANGED writer /\ phase = "idle_wait"
    BY <1>3 DEF SendQuiesce
  <2>2. Awaited(writer[i])
    BY <2>1 DEF QueueInv
  <2>3. pc = "quiesce_wait"
    BY <2>1, <2>2 DEF Awaited
  <2>4. QED BY <2>1, <2>3 DEF QuitInv
<1>4. CASE phase # "barrier" /\ ~SendQuiesce
  <2>1. ~UNCHANGED <<phase, outcome>>
    BY <1>4
  <2>2. Shutdown \/ QuiesceDurable \/ QuiesceFailed
    BY <2>1, Steps, CallerFootprint, WriterFootprint, LoopFootprint, MessageFootprint,
       RunnerFootprint, OtherFootprint DEF processVars
  <2>3. QED
    BY <1>4, <2>2 DEF Shutdown, BeginQuiescing, ShutdownTimeout, RunnersDrained,
       QuiesceDurable, QuiesceFailed
<1>5. QED BY <1>2, <1>3, <1>4

\* The recovery of a quit becomes durable when the writer executes it.
LEMMA Settles ==
  ASSUME ManagerInv, Next, ~Renewal, Settled'
  PROVE  \/ Settled
         \/ /\ WriterExecute /\ phase = "barrier" /\ writer[1].by = "actor"
            /\ writer[1].op = "recover"
<1> USE DEF ManagerInv
<1>1. TypeOK /\ QueueInv
  OBVIOUS
<1>2. CASE outcome' = "Clean"
  <2>1. UNCHANGED outcome \/ Shutdown \/ QuiesceDurable \/ QuiesceFailed
    BY Steps, CallerFootprint, WriterFootprint, LoopFootprint, MessageFootprint,
       RunnerFootprint, OtherFootprint DEF processVars
  <2>2. QED
    BY <1>2, <2>1 DEF Settled, Shutdown, BeginQuiescing, SendQuiesce, ShutdownTimeout,
       RunnersDrained, QuiesceDurable, QuiesceFailed, TakeAnswer
<1>3. CASE phase' = "barrier" /\ pc' = "quiesce_wait" /\ answer' = "applied"
  <2>1. CASE UNCHANGED <<phase, pc, answer>>
    BY <1>3, <2>1 DEF Settled
  <2>2. CASE WriterStep
    <3>1. UNCHANGED <<phase, pc>>
      BY <2>2, WriterFootprint DEF processVars
    <3>2. CASE WriterFail
      BY <1>1, <1>3, <3>1, <3>2, Failure DEF Settled
    <3>3. CASE WriterExecute /\ writer[1].by # "actor"
      BY <1>1, <1>3, <3>1, <3>3, Execution DEF Settled
    <3>4. CASE WriterExecute /\ writer[1].by = "actor"
      <4>1. Awaited(writer[1])
        BY <1>1, <3>4, HeadOfQueue DEF WriterExecute
      <4>2. QED BY <1>3, <3>1, <3>4, <4>1 DEF Awaited
    <3>5. QED BY <2>2, <3>2, <3>3, <3>4 DEF WriterStep
  <2>3. CASE ActorLoop
    BY <1>3, <2>3 DEF ActorLoop, Check, ScanFails, EndScan, Claim, AwaitWrite, ClaimApplied,
       ClaimRefused, CancelAnswered, EventAnswered, EventFailed, ResultAnswered, ResultFailed,
       QuiesceDurable, QuiesceFailed
  <2>4. CASE ActorMessage
    BY <1>1, <1>3, <2>4, MessageFootprint DEF QueueInv, Waits
  <2>5. CASE Tick
    BY <1>3, <2>5 DEF Tick
  <2>6. CASE Shutdown
    <3>1. UNCHANGED <<pc, answer>>
      BY <2>6 DEF Shutdown, BeginQuiescing, SendQuiesce, ShutdownTimeout, RunnersDrained,
         actorVars
    <3>2. phase = "barrier" \/ root_cancelled
      BY <1>3, <3>1 DEF QuitInv
    <3>3. phase = "barrier" \/ phase = "stopping"
      BY <3>2 DEF QuitInv
    <3>4. QED
      BY <1>3, <2>6, <3>3 DEF Shutdown, BeginQuiescing, SendQuiesce, ShutdownTimeout,
         RunnersDrained
  <2>7. QED
    BY <2>1, <2>2, <2>3, <2>4, <2>5, <2>6, Steps, CallerFootprint, RunnerFootprint,
       OtherFootprint DEF processVars, actorVars
<1>4. QED BY <1>2, <1>3 DEF Settled

LEMMA SettledStep ==
  ASSUME ManagerInv, Next, ~Renewal, Settled'
  PROVE  /\ \A t \in DOMAIN rows' : ~Incomplete(rows'[t].status)
         /\ \A i \in DOMAIN writer' : writer'[i].op # "insert"
<1> USE DEF ManagerInv
<1>1. TypeOK /\ QueueInv /\ StoreTypeOK
  BY DEF TypeOK
<1>2. CASE Settled
  <2>1. /\ \A t \in DOMAIN rows : ~Incomplete(rows[t].status)
        /\ \A i \in DOMAIN writer : writer[i].op # "insert"
    BY <1>2 DEF QuitInv, NothingIncomplete, Status
  <2>2. \A c \in Callers : call[c].op # "insert"
    BY <1>2, OnlyAlive DEF QuitInv, Settled
  <2>3. \A i \in DOMAIN writer' : writer'[i].op # "insert"
    BY <2>1, <2>2, InsertsQueued
  <2>4. CASE UNCHANGED rows
    BY <2>1, <2>3, <2>4
  <2>5. CASE WriterExecute
    <3>1. /\ \A t \in DOMAIN rows : Advances(t)
          /\ \A t \in DOMAIN rows' : t \notin DOMAIN rows => writer[1].op = "insert"
          /\ 1 \in DOMAIN writer
      BY <1>1, <2>5, Execution, HeadOfQueue DEF WriterExecute
    <3>2. DOMAIN rows' \subseteq DOMAIN rows
      BY <2>1, <3>1
    <3>3. ASSUME NEW t \in DOMAIN rows  PROVE rows'[t].status = rows[t].status
      BY <2>1, <3>1 DEF Advances, Incomplete
    <3>4. QED BY <2>1, <2>3, <3>2, <3>3
  <2>6. QED BY <2>4, <2>5, Lasting
<1>3. CASE /\ WriterExecute /\ phase = "barrier" /\ writer[1].by = "actor"
           /\ writer[1].op = "recover"
  <2>1. \A t \in DOMAIN rows' : ~Incomplete(rows'[t].status)
    BY <1>1, <1>3, Execution
  <2>2. ASSUME NEW i \in DOMAIN writer'  PROVE writer'[i].op # "insert"
    <3>1. /\ i + 1 \in DOMAIN writer /\ i + 1 > 1 /\ writer'[i] = writer[i + 1]
          /\ 1 \in DOMAIN writer
      BY <1>1, <1>3, Executed DEF WriterExecute
    <3>2. 1 < i + 1
      BY <3>1
    <3>3. QED BY <1>3, <3>1, <3>2 DEF QuitInv
  <2>3. QED BY <2>1, <2>2
<1>4. QED BY <1>2, <1>3, Settles

LEMMA QuitStep ==
  ASSUME ManagerInv, Next
  PROVE  QuitInv'
<1> USE DEF ManagerInv
<1>1. CASE ~Renewal
  <2>1. Alive' /\ (phase' = "barrier" \/ outcome' = "Clean") =>
          gateClosed' /\ \A c \in Callers : call'[c].op # "insert"
    BY <1>1, BarrierStep
  <2>2. phase' = "barrier" =>
          \A i, j \in DOMAIN writer' : writer'[i].by = "actor" /\ writer'[i].op = "recover"
                                        /\ i < j => writer'[j].op # "insert"
    BY <1>1, RecoveryIsLast
  <2>3. Settled' => /\ \A t \in DOMAIN rows' : ~Incomplete(rows'[t].status)
                    /\ \A i \in DOMAIN writer' : writer'[i].op # "insert"
    BY <1>1, SettledStep
  <2>4. QED BY <1>1, <2>1, <2>2, <2>3, PhaseStep DEF QuitInv, NothingIncomplete, Status
<1>2. CASE Exit \/ Crash
  <2>1. /\ phase' = "stopped" /\ writer' = << >> /\ pc' = "idle" /\ UNCHANGED rows
        /\ UNCHANGED outcome \/ outcome' = "Crashed"
        /\ root_cancelled' = FALSE
    BY <1>2 DEF Exit, Crash, NewProcess
  <2>2. outcome' = "Clean" => NothingIncomplete
    BY <2>1 DEF QuitInv, Settled
  <2>3. QED BY <2>1, <2>2 DEF QuitInv, Settled, NothingIncomplete, Alive, Status
<1>3. CASE Restart
  BY <1>3 DEF Restart, NewProcess, QuitInv, Settled
<1>4. QED BY <1>1, <1>2, <1>3 DEF Renewal

-----------------------------------------------------------------------------
(* Restarts, and the order of the claims.                                  *)

LEMMA InheritedStep ==
  ASSUME ManagerInv, Next
  PROVE  InheritedInv'
<1> USE DEF ManagerInv
<1>1. TypeOK /\ QueueInv /\ StoreTypeOK
  BY DEF TypeOK
<1>2. CASE ~Renewal
  <2>1. UNCHANGED inherited
    BY <1>2, Steps, CallerFootprint, WriterFootprint, LoopFootprint, MessageFootprint,
       RunnerFootprint, OtherFootprint DEF processVars
  <2>2. CASE UNCHANGED rows
    BY <2>1, <2>2 DEF InheritedInv, Status
  <2>3. CASE WriterExecute
    <3>1. DOMAIN rows \subseteq DOMAIN rows' /\ \A t \in DOMAIN rows : Advances(t)
      BY <1>1, <2>3, Execution
    <3>2. ASSUME NEW t \in 1..inherited
          PROVE  t \in DOMAIN rows' /\ ~Incomplete(rows'[t].status)
      <4>1. t \in DOMAIN rows /\ ~Incomplete(rows[t].status)
        BY DEF InheritedInv, Status
      <4>2. rows'[t].status = rows[t].status
        BY <3>1, <4>1 DEF Advances, Incomplete
      <4>3. QED BY <3>1, <4>1, <4>2
    <3>3. QED BY <2>1, <3>2 DEF InheritedInv, Status
  <2>4. QED BY <1>2, <2>2, <2>3, Lasting
<1>3. CASE Exit \/ Crash
  BY <1>3 DEF Exit, Crash, InheritedInv, Status
<1>4. CASE Restart
  <2>1. "APP_RESTARTED" \in Failures
    BY ManagerAssumption DEF Codes
  <2>2. DOMAIN rows' = DOMAIN rows /\ \A t \in DOMAIN rows : ~Incomplete(rows'[t].status)
    BY <1>1, <1>4, <2>1, Recovery DEF Restart, Incomplete
  <2>3. inherited' = Len(rows) /\ DOMAIN rows = 1..Len(rows)
    BY <1>1, <1>4, LenProperties DEF Restart, StoreTypeOK
  <2>4. QED BY <2>2, <2>3 DEF InheritedInv, Status
<1>5. QED BY <1>2, <1>3, <1>4 DEF Renewal

\* A row becomes Running by the claim the actor waits for, and what is left of the
\* scan ranks behind it.
LEMMA ClaimOrder ==
  ASSUME ManagerInv, Next, NEW t \in DOMAIN rows,
         rows[t].status = "Queued", rows'[t].status = "Running"
  PROVE  /\ t \in 1..scanned
         /\ \A s \in 1..scanned : rows[s].status = "Queued" => Rank[t] <= Rank[s]
<1> USE DEF ManagerInv
<1>1. TypeOK /\ QueueInv /\ StoreTypeOK
  BY DEF TypeOK
<1>2. WriterExecute
  <2>1. ~Renewal
    <3>1. "APP_RESTARTED" \in Failures
      BY ManagerAssumption DEF Codes
    <3>2. QED BY <1>1, <3>1, Recovery DEF Renewal, Exit, Crash, Restart
  <2>2. QED BY <2>1, Lasting
<1>3. pc = "claim_wait" /\ t = current
  BY <1>1, <1>2, Execution DEF Advances, is_retryable
<1>4. \A s \in DOMAIN rows : Rank[s] \in Nat
  BY <1>1, LenProperties, MaxTasksAssumption, RankAssumption DEF StoreTypeOK, Ids
<1>5. t \in 1..scanned
  BY <1>3 DEF ClaimInv
<1>6. ASSUME NEW s \in 1..scanned, rows[s].status = "Queued"
      PROVE  Rank[t] <= Rank[s]
  <2>1. s \in DOMAIN rows /\ (Listed(s) \/ s = t)
    BY <1>3, <1>6 DEF ScanInv, Status
  <2>2. Rank[s] \in Nat /\ Rank[t] \in Nat
    BY <1>4, <2>1
  <2>3. CASE Listed(s)
    <3>1. Rank[t] < Rank[s]
      BY <1>3, <2>3 DEF ClaimInv, Listed
    <3>2. QED BY <2>2, <3>1
  <2>4. CASE s = t
    BY <2>2, <2>4
  <2>5. QED BY <2>1, <2>3, <2>4
<1>7. QED BY <1>5, <1>6

-----------------------------------------------------------------------------
(* The theorems.                                                           *)

LEMMA ManagerInit ==
  ASSUME Init
  PROVE  ManagerInv
<1> USE DEF Init, FreshProcess, TableInit
<1>1. << >> \in Seq(Row) /\ << >> \in Seq(Commands) /\ << >> \in Seq(Messages)
      /\ << >> \in Seq(Ids) /\ Len(<< >>) = 0 /\ DOMAIN << >> = {}
  BY EmptySeq
<1>2. StoreTypeOK
  BY <1>1, MaxTasksAssumption DEF StoreTypeOK
<1>3. ActorTypeOK
  BY <1>1 DEF ActorTypeOK, ActorAt
<1>4. ProcessTypeOK
  BY DEF ProcessTypeOK, Calls, Idle
<1>5. IsFiniteSet({}) /\ Cardinality({}) = 0
  BY FS_EmptySet
<1>6. HandleInv
  BY <1>5, ManagerAssumption DEF HandleInv, LiveRunner
<1>7. QueueInv /\ MailboxInv
  BY <1>1 DEF QueueInv, MailboxInv
<1>8. ScanInv /\ ClaimInv /\ DegradedInv /\ ResultInv
  BY DEF ScanInv, ClaimInv, DegradedInv, ResultInv
<1>9. RunningHasHandle /\ FinishedTasksAreStopped /\ CancelledOnlyByUser
  BY <1>1 DEF RunningHasHandle, FinishedTasksAreStopped, CancelledOnlyByUser
<1>10. CancelInv
  BY <1>1 DEF CancelInv
<1>11. QuitInv
  BY DEF QuitInv, Settled
<1>12. InheritedInv
  BY DEF InheritedInv
<1>13. QED
  BY <1>2, <1>3, <1>4, <1>6, <1>7, <1>8, <1>9, <1>10, <1>11, <1>12 DEF ManagerInv, TypeOK

LEMMA ManagerNext ==
  ASSUME ManagerInv, Next
  PROVE  ManagerInv'
<1>1. TypeOK'
  BY TypesPreserved DEF ManagerInv
<1>2. QED
  BY <1>1, QueueStep, MailboxStep, HandleStep, ScanStep, ClaimStep, DegradedStep, ResultStep,
     RunningStep, StoppedStep, CancelStep, CancelledStep, QuitStep, InheritedStep
     DEF ManagerInv

LEMMA ManagerStutter ==
  ASSUME ManagerInv, UNCHANGED vars
  PROVE  ManagerInv'
<1> USE DEF ManagerInv, vars, gateVars, actorVars, managerVars, tokenVars, runnerVars,
            processVars
<1>1. TypeOK'
  BY DEF TypeOK, StoreTypeOK, ActorTypeOK, ProcessTypeOK
<1>2. QueueInv' /\ MailboxInv'
  BY DEF QueueInv, Awaited, MailboxInv, Says, SameSender, FromRunner
<1>3. HandleInv' /\ ScanInv' /\ ClaimInv'
  BY DEF HandleInv, LiveRunner, Status, ScanInv, ClaimInv, Listed
<1>4. DegradedInv' /\ ResultInv' /\ RunningHasHandle' /\ FinishedTasksAreStopped'
  BY DEF DegradedInv, IsCancelled, Status, ResultInv, RunningHasHandle, Alive,
         FinishedTasksAreStopped, LiveRunner
<1>5. CancelInv' /\ CancelledOnlyByUser'
  BY DEF CancelInv, MayCancel, Status, CancelledOnlyByUser
<1>6. QuitInv' /\ InheritedInv'
  BY DEF QuitInv, Alive, Settled, NothingIncomplete, Status, InheritedInv
<1>7. QED BY <1>1, <1>2, <1>3, <1>4, <1>5, <1>6

\* The inductive invariant: types, what the queues hold, what a scan, a degraded
\* store and a quit rule out (TaskManager::run and everything it talks to).
THEOREM ManagerInvariant == Spec => []ManagerInv
<1>1. ManagerInv /\ [Next]_vars => ManagerInv'
  BY ManagerNext, ManagerStutter
<1>2. QED BY ManagerInit, <1>1, PTL DEF Spec

\* Every variable keeps its type and the table its size, through crashes and
\* restarts (task_manager.rs, shutdown.rs, store_writer.rs together).
THEOREM ManagerTypes == Spec => []TypeOK
<1>1. ManagerInv => TypeOK
  BY DEF ManagerInv
<1>2. QED BY <1>1, ManagerInvariant, PTL

\* While the manager serves requests, every Running row has the handle that
\* cancel_current_with_status needs, whatever failed before.
THEOREM RunningTasksHaveHandles == Spec => []RunningHasHandle
<1>1. ManagerInv => RunningHasHandle
  BY DEF ManagerInv
<1>2. QED BY <1>1, ManagerInvariant, PTL

\* A runner keeps its permit of the semaphore until it has stopped, and there are
\* never more permits in use than MAX_CONCURRENT_TASKS.
THEOREM RunnersHavePermits == Spec => []RunnersHoldPermits
<1>1. ManagerInv => RunnersHoldPermits
  BY DEF ManagerInv, HandleInv, RunnersHoldPermits
<1>2. QED BY <1>1, ManagerInvariant, PTL

\* No runner that a degraded store or a quit stopped, and no failed write, makes a
\* task Cancelled: that takes a request of a user.
THEOREM CancelledByUsersOnly == Spec => []CancelledOnlyByUser
<1>1. ManagerInv => CancelledOnlyByUser
  BY DEF ManagerInv
<1>2. QED BY <1>1, ManagerInvariant, PTL

\* A runner that outlives its task in the table has been told to stop, except
\* between the recovery write of a quit and cancel_all.
THEOREM FinishedTasksStop == Spec => []FinishedTasksAreStopped
<1>1. ManagerInv => FinishedTasksAreStopped
  BY DEF ManagerInv
<1>2. QED BY <1>1, ManagerInvariant, PTL

\* A shutdown that reports Clean leaves no row Queued or Running, whatever was in
\* the gate, in a queue or being claimed when it began.
THEOREM CleanShutdownIsComplete == Spec => []CleanShutdownLeavesNothing
<1>1. ManagerInv => CleanShutdownLeavesNothing
  BY DEF ManagerInv, QuitInv, Settled, NothingIncomplete, Status, CleanShutdownLeavesNothing
<1>2. QED BY <1>1, ManagerInvariant, PTL

\* What an earlier process left behind is final before the first request of the
\* next one, and stays so (start_primary's recovery).
THEOREM InheritedStayOver == Spec => []InheritedTasksAreOver
<1>1. ManagerInv => InheritedTasksAreOver
  BY DEF ManagerInv, InheritedInv, Status, InheritedTasksAreOver
<1>2. QED BY <1>1, ManagerInvariant, PTL

\* Whatever places the clock and chance give the tasks: through conflicts, failed
\* writes and insertions, a scan starts the tasks of its snapshot in (created_at, id)
\* order, and no other.
THEOREM ClaimsKeepOrder == Spec => ClaimsInOrder
<1>1. ManagerInv /\ [Next]_vars =>
        [\A t \in DOMAIN rows :
           rows[t].status = "Queued" /\ rows'[t].status = "Running"
             => /\ t \in 1..scanned
                /\ \A s \in 1..scanned :
                     rows[s].status = "Queued" => Rank[t] <= Rank[s]]_vars
  BY ClaimOrder
<1>2. QED BY <1>1, ManagerInvariant, PTL DEF Spec, ClaimsInOrder

\* A row that is final stays as it is under every step of the table.
LEMMA FinalRows ==
  ASSUME StoreTypeOK, TableNext
  PROVE  \A t \in DOMAIN rows : ~Incomplete(Status(t)) => rows'[t] = rows[t]
<1>1. rows \in Seq(Row)
  BY DEF StoreTypeOK
<1>2. ASSUME NEW source \in Nat, rows' = Append(rows, NewRow(source))
      PROVE  \A t \in DOMAIN rows : rows'[t] = rows[t]
  BY <1>1, <1>2, LenProperties
<1>3. CASE InsertTask \/ \E source \in DOMAIN rows : InsertRetry(source)
  <2>1. DOMAIN rows \subseteq Nat
    BY <1>1, LenProperties
  <2>2. QED BY <1>2, <1>3, <2>1 DEF InsertTask, InsertRetry, NoTask
<1>4. CASE \E t \in DOMAIN rows, expected \in TaskStatus, transition \in TaskTransition :
             ApplyTransition(t, expected, transition)
  BY <1>4 DEF ApplyTransition, can_transition_to, Incomplete, Status
<1>5. CASE \E failure \in Failures : RecoverRows(failure)
  BY <1>5 DEF RecoverRows, Interrupted, Status
<1>6. QED BY <1>3, <1>4, <1>5 DEF TableNext

\* What a command does to the rows is a step of the table.
LEMMA ExecutionMaps ==
  ASSUME TypeOK, QueueInv, WriterExecute
  PROVE  TableNext \/ UNCHANGED rows
<1> DEFINE w == writer[1]
<1>1. PICK result : Executes(w, result)
  BY HeadOfQueue DEF WriterExecute
<1>2. w \in Commands /\ rows \in Seq(Row)
  BY HeadOfQueue DEF WriterExecute, TypeOK, StoreTypeOK
<1>3. /\ w.op \in {"insert", "transition", "append", "recover"}
      /\ w.expected \in TaskStatus /\ w.transition \in TaskTransition
      /\ w.op = "recover" => w.transition.failure \in Failures
  BY <1>2, TransitionFields DEF Commands
<1> HIDE DEF w
<1>4. CASE w.op = "insert"
  BY <1>1, <1>4 DEF Executes, InsertRetry, TableNext
<1>5. CASE w.op = "transition"
  BY <1>1, <1>3, <1>5 DEF Executes, ApplyTransition, TableNext
<1>6. CASE w.op = "append"
  BY <1>1, <1>6 DEF Executes
<1>7. CASE w.op = "recover"
  BY <1>1, <1>3, <1>7 DEF Executes, TableNext
<1>8. QED BY <1>3, <1>4, <1>5, <1>6, <1>7

\* Everything else leaves the rows alone, except the recovery of a new process.
LEMMA StepMaps ==
  ASSUME TypeOK, QueueInv, Next
  PROVE  TableNext \/ UNCHANGED rows
<1>1. CASE WriterExecute
  BY <1>1, ExecutionMaps
<1>2. CASE Restart
  BY <1>2, ManagerAssumption DEF Restart, TableNext, Codes
<1>3. QED
  BY <1>1, <1>2, Steps, CallerFootprint, WriterFootprint, LoopFootprint,
     MessageFootprint, RunnerFootprint, OtherFootprint DEF Renewal, Exit, Crash

\* The manager implements the table: callers that go away, failed writes, degraded
\* stores, quits, crashes and restarts move rows only by the store's atomic steps.
THEOREM ManagerImplementsTable == Spec => TableSpec
<1>1. Init => TableInit
  BY DEF Init
<1>2. ManagerInv /\ [Next]_vars => [TableNext]_rows
  <2>1. CASE Next
    BY <2>1, StepMaps DEF ManagerInv
  <2>2. CASE UNCHANGED vars
    BY <2>2 DEF vars
  <2>3. QED BY <2>1, <2>2
<1>3. QED BY <1>1, <1>2, ManagerInvariant, PTL DEF Spec, TableSpec

\* A task that is over stays as it is, its failure included: no late result of a
\* runner, no late cancellation and no recovery of a later process rewrites it.
THEOREM FinishedRowsAreFinal ==
  Spec => [][\A t \in DOMAIN rows : ~Incomplete(Status(t)) => rows'[t] = rows[t]]_rows
<1>1. ManagerInv /\ [TableNext]_rows
        => [\A t \in DOMAIN rows : ~Incomplete(Status(t)) => rows'[t] = rows[t]]_rows
  BY FinalRows DEF ManagerInv, TypeOK
<1>2. QED BY <1>1, ManagerInvariant, ManagerImplementsTable, PTL DEF TableSpec

=============================================================================
