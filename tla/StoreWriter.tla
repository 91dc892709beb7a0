----------------------------- MODULE StoreWriter ----------------------------
(***************************************************************************)
(* The store writer actor by the clock: callers with a deadline, a bounded *)
(* channel, one command executed at a time, a bounded number of retries    *)
(* with growing delays while SQLite is busy, and the wake that tells the   *)
(* event dispatcher of a commit.  What a transaction does is the subject   *)
(* of TaskStore; here it is applied (an event), refused (none), rolled     *)
(* back, or applied with its answer lost; register_repository, which has   *)
(* no event, goes the same way and wakes nobody (Registration).            *)
(* Time is counted in steps of RETRY_DELAYS[0] and passes during attempts  *)
(* and sleeps alike.                                                       *)
(***************************************************************************)
EXTENDS Naturals, Sequences

CONSTANTS
  Commands,         \* write commands, each sent once
  Capacity,         \* ACTOR_QUEUE_CAPACITY
  Delays,           \* RETRY_DELAYS
  Budget,           \* WRITE_BUDGET, from the call to the deadline
  MaxSendTime       \* bound: the last moment at which a command is sent

NoCommand == "none"

ASSUME WriterAssumption ==
  /\ NoCommand \notin Commands
  /\ Capacity \in Nat \ {0}
  /\ Delays \in Seq(Nat \ {0})
  /\ Budget \in Nat \ {0}
  /\ MaxSendTime \in Nat

VARIABLES
  now,
  caller,           \* what the caller of each command waits for
  deadline,
  queue,            \* the mpsc channel
  phase,            \* where `execute' is
  current,          \* the command being executed
  retry,            \* retries of it so far
  wakeAt,           \* end of the sleep before the next attempt
  answer,           \* the result sent for each command
  log,              \* the store: the commands applied, in order of commit
  woken             \* how far the event dispatcher has been told of the log

callVars == <<caller, deadline>>
execVars == <<phase, current, retry, wakeAt>>
vars == <<now, callVars, queue, execVars, answer, log, woken>>

Init ==
  /\ now = 0
  /\ caller = [c \in Commands |-> "new"] /\ deadline = [c \in Commands |-> 0]
  /\ queue = << >>
  /\ phase = "idle" /\ current = NoCommand /\ retry = 0 /\ wakeAt = 0
  /\ answer = [c \in Commands |-> "none"]
  /\ log = << >> /\ woken = 0

\* The deadline of a command lies at most this far ahead.
MaxTime == MaxSendTime + Budget

Tick ==
  /\ now < MaxTime
  /\ now' = now + 1
  /\ UNCHANGED <<callVars, queue, execVars, answer, log, woken>>

-----------------------------------------------------------------------------
(* StoreWriterHandle.                                                      *)

Call(c) ==
  /\ caller[c] = "new" /\ now <= MaxSendTime
  /\ caller' = [caller EXCEPT ![c] = "sending"]
  /\ deadline' = [deadline EXCEPT ![c] = now + Budget]
  /\ UNCHANGED <<now, queue, execVars, answer, log, woken>>

\* The channel has room.
Send(c) ==
  /\ caller[c] = "sending" /\ Len(queue) < Capacity
  /\ caller' = [caller EXCEPT ![c] = "waiting"]
  /\ queue' = Append(queue, c)
  /\ UNCHANGED <<now, deadline, execVars, answer, log, woken>>

\* The future of the call is dropped: a command not yet sent is never executed,
\* one that is sent is executed all the same.
DropCall(c) ==
  /\ caller[c] \in {"sending", "waiting"}
  /\ caller' = [caller EXCEPT ![c] = "dropped"]
  /\ UNCHANGED <<now, deadline, queue, execVars, answer, log, woken>>

-----------------------------------------------------------------------------
(* run_writer and execute.                                                 *)

Late(c) == now >= deadline[c]

\* The command ends with an answer; the writer turns to the next.
Answer(c, result) ==
  /\ answer' = [answer EXCEPT ![c] = result]
  /\ caller' = [caller EXCEPT ![c] = IF @ = "waiting" THEN "answered" ELSE @]
  /\ phase' = "idle" /\ current' = NoCommand /\ retry' = 0 /\ wakeAt' = 0

\* A command that waited past its deadline is not attempted.
Receive ==
  /\ phase = "idle" /\ queue # << >>
  /\ queue' = Tail(queue)
  /\ IF Late(Head(queue))
       THEN Answer(Head(queue), "Busy")
       ELSE /\ phase' = "executing" /\ current' = Head(queue)
            /\ retry' = 0 /\ wakeAt' = 0
            /\ UNCHANGED <<answer, caller>>
  /\ UNCHANGED <<now, deadline, log, woken>>

\* The transaction commits with an event; readers see it before the answer.
Commit ==
  /\ phase = "executing"
  /\ log' = Append(log, current)
  /\ phase' = "committed"
  /\ UNCHANGED <<now, callVars, queue, current, retry, wakeAt, answer, woken>>

\* receipt_and_wake.
Acknowledge ==
  /\ phase = "committed"
  /\ woken' = Len(log)
  /\ Answer(current, "Receipt")
  /\ UNCHANGED <<now, deadline, queue, log>>

\* Mutant: every error of the store is taken for a busy one and retried.
LoseAcknowledgement_Mutant ==
  /\ phase = "committed" /\ retry < Len(Delays)
  /\ phase' = "sleeping" /\ retry' = retry + 1 /\ wakeAt' = now
  /\ UNCHANGED <<now, callVars, queue, current, answer, log, woken>>

\* The commit is durable and its answer an I/O error: not one that is retried.
LoseAcknowledgement ==
  /\ phase = "committed"
  /\ Answer(current, "Store")
  /\ UNCHANGED <<now, deadline, queue, log, woken>>

\* Existing, Conflict or NotRunning: nothing is written and nobody woken.
Refuse ==
  /\ phase = "executing"
  /\ Answer(current, "Refusal")
  /\ UNCHANGED <<now, deadline, queue, log, woken>>

\* The transaction is rolled back by an error that no retry can mend.
Fail ==
  /\ phase = "executing"
  /\ Answer(current, "Store")
  /\ UNCHANGED <<now, deadline, queue, log, woken>>

\* Mutant: retried at once for as long as the store is busy.
BackOff_Mutant ==
  /\ phase = "executing"
  /\ retry' = (retry + 1) % (Len(Delays) + 1)
  /\ UNCHANGED <<now, callVars, queue, phase, current, wakeAt, answer, log, woken>>

\* SQLITE_BUSY or SQLITE_LOCKED, and a retry is left in time: sleep to it, or to
\* the deadline if that comes first.
BackOff ==
  /\ phase = "executing"
  /\ retry < Len(Delays) /\ ~Late(current)
  /\ LET retryAt == now + Delays[retry + 1] IN
     wakeAt' = IF retryAt >= deadline[current] THEN deadline[current] ELSE retryAt
  /\ retry' = retry + 1
  /\ phase' = "sleeping"
  /\ UNCHANGED <<now, callVars, queue, current, answer, log, woken>>

GiveUp ==
  /\ phase = "executing"
  /\ retry = Len(Delays) \/ Late(current)
  /\ Answer(current, "Busy")
  /\ UNCHANGED <<now, deadline, queue, log, woken>>

\* The sleep ends, perhaps later than it should.
WakeUp ==
  /\ phase = "sleeping" /\ now >= wakeAt
  /\ IF Late(current)
       THEN Answer(current, "Busy")
       ELSE /\ phase' = "executing" /\ wakeAt' = 0
            /\ UNCHANGED <<current, retry, answer, caller>>
  /\ UNCHANGED <<now, deadline, queue, log, woken>>

AttemptEnds ==
  Commit \/ Acknowledge \/ LoseAcknowledgement \/ Refuse \/ Fail \/ BackOff \/ GiveUp

Next ==
  \/ Tick
  \/ \E c \in Commands : Call(c) \/ Send(c) \/ DropCall(c)
  \/ Receive \/ AttemptEnds \/ WakeUp

\* Time passes, the actor is scheduled, SQLite answers, a free slot is taken.
Spec ==
  /\ Init /\ [][Next]_vars
  /\ WF_vars(Tick) /\ WF_vars(Receive) /\ WF_vars(AttemptEnds) /\ WF_vars(WakeUp)
  /\ \A c \in Commands : WF_vars(Send(c))

-----------------------------------------------------------------------------
(* Properties.                                                             *)

\* Every variable keeps its type; the channel is never over its capacity.
WriterTypeOK ==
  /\ now \in Nat /\ deadline \in [Commands -> Nat]
  /\ caller \in [Commands -> {"new", "sending", "waiting", "answered", "dropped"}]
  /\ queue \in Seq(Commands) /\ Len(queue) <= Capacity
  /\ phase \in {"idle", "executing", "committed", "sleeping"}
  /\ current \in Commands \cup {NoCommand}
  /\ retry \in 0..Len(Delays) /\ wakeAt \in Nat
  /\ answer \in [Commands -> {"none", "Receipt", "Refusal", "Store", "Busy"}]
  /\ log \in Seq(Commands) /\ woken \in 0..Len(log)

Effects(c) == {i \in 1..Len(log) : log[i] = c}

\* The answers are true, whatever was retried on the way: a receipt stands for one
\* commit of which the dispatcher has been told, a busy store or a refusal for none,
\* and no command commits twice even if its answer is an error.
AnswersAreTrue ==
  \A c \in Commands :
    /\ answer[c] = "Receipt" => \E i \in Effects(c) : i <= woken
    /\ answer[c] \in {"Busy", "Refusal"} => Effects(c) = {}
    /\ \A i, j \in Effects(c) : i = j

\* No attempt begins once the deadline of its command has passed: who was told
\* that the time was up never finds the command executed later.
AttemptsKeepTheDeadline ==
  [][phase # "executing" /\ phase' = "executing" => now < deadline[current']]_vars

\* Every command that was sent is answered, whatever waits or retries before it.
CommandsAreAnswered ==
  \A c \in Commands : caller[c] = "waiting" ~> caller[c] \in {"answered", "dropped"}

=============================================================================
