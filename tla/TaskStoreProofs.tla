--------------------------- MODULE TaskStoreProofs --------------------------
(***************************************************************************)
(* Theorems about TaskStore, for every set of requests, inputs and failure *)
(* codes and every bound.                                                  *)
(*                                                                         *)
(* The argument has two halves.  StepEffect says what any transaction does *)
(* to the two tables: each row is untouched, created, moved to another     *)
(* state or extended by a panel event, and each of the last three writes   *)
(* one event, whose id the row then holds.  It is proved once, action by   *)
(* action; the invariants are then proved from it alone.                   *)
(***************************************************************************)
EXTENDS TaskStore, FiniteSetTheorems, SequenceTheorems, TLAPS

-----------------------------------------------------------------------------
(* Rows and events.                                                        *)

\* What stays the same in a row for ever.
SameTask(row, later) ==
  /\ later.request = row.request
  /\ later.input = row.input
  /\ later.attempt = row.attempt
  /\ later.retry_of = row.retry_of

\* Stamping a row replaces its last_event_id and nothing else.
LEMMA StampedRow ==
  ASSUME NEW row \in Task, NEW id \in Nat
  PROVE  /\ Stamped(row, id) \in Task
         /\ Stamped(row, id).last_event_id = id
         /\ SameTask(row, Stamped(row, id))
         /\ Stamped(row, id).status = row.status
         /\ Stamped(row, id).started = row.started
         /\ Stamped(row, id).finished = row.finished
         /\ Stamped(row, id).failure = row.failure
  BY DEF Stamped, Task, SameTask

\* A transition names a later state, with no failure when that state is Running.
LEMMA TransitionFields ==
  ASSUME NEW transition \in TaskTransition
  PROVE  /\ transition.next \in TaskStatus \ {"Queued"}
         /\ transition.failure \in Failures \cup {NoFailure}
         /\ transition.failure = NoFailure
              <=> transition.next \in {"Running", "Completed", "Cancelled"}
  BY FailuresAssumption DEF TaskTransition, TaskStatus

\* A row moved along a transition keeps what identifies it and is well typed.
LEMMA MovedRow ==
  ASSUME NEW row \in Task, NEW transition \in TaskTransition
  PROVE  /\ UpdatedRow(row, transition) \in Task
         /\ UpdatedRow(row, transition).status = transition.next
         /\ SameTask(row, UpdatedRow(row, transition))
<1> /\ transition.next \in TaskStatus
    /\ transition.failure \in Failures \cup {NoFailure}
  BY TransitionFields
<1>1. CASE transition.next = "Running"
  BY <1>1 DEF UpdatedRow, Task, TaskStatus, SameTask
<1>2. CASE transition.next # "Running"
  BY <1>2 DEF UpdatedRow, Task, SameTask
<1>3. QED BY <1>1, <1>2

\* A row moved from a readable row along the state machine is readable.
LEMMA MovedRowReadable ==
  ASSUME NEW row \in Task, NEW transition \in TaskTransition, NEW id \in Nat,
         can_transition_to(row.status, transition.next), try_from_stored(row)
  PROVE  try_from_stored(Stamped(UpdatedRow(row, transition), id))
<1> DEFINE new == Stamped(UpdatedRow(row, transition), id)
<1>1. new.status = transition.next
  BY MovedRow, StampedRow
<1>2. CASE transition.next = "Running"
  <2>1. new.started /\ ~new.finished /\ new.failure = NoFailure
    BY <1>2 DEF UpdatedRow, Stamped, Task
  <2>2. QED BY <1>1, <1>2, <2>1 DEF try_from_stored
<1>3. CASE transition.next # "Running"
  <2>1. new.started = row.started /\ new.finished /\ new.failure = transition.failure
    BY <1>3 DEF UpdatedRow, Stamped, Task
  <2>2. row.status = "Running" => new.started
    BY <2>1 DEF try_from_stored
  <2>3. row.status \in {"Queued", "Running"}
    BY DEF can_transition_to
  <2>4. QED
    BY <1>1, <1>3, <2>1, <2>2, <2>3, TransitionFields
       DEF try_from_stored, can_transition_to, TaskStatus
<1>4. QED BY <1>2, <1>3

-----------------------------------------------------------------------------
(* What a transaction does to the tables.                                  *)

NewEvents == (Len(events) + 1)..Len(events')

\* The transaction wrote one event of t, with id i, and stored i in the row.
Logged(t, i) ==
  /\ i \in NewEvents
  /\ events'[i].task = t
  /\ tasks'[t].last_event_id = i
  /\ \A j \in NewEvents : events'[j].task = t => j = i

Untouched(t) ==
  /\ t \in DOMAIN tasks
  /\ tasks'[t] = tasks[t]
  /\ \A j \in NewEvents : events'[j].task # t

\* A first attempt under a request id not seen before, or the only retry.
Permitted(row) ==
  \/ /\ row.request \in Requests
     /\ WithRequest(row.request) = {}
     /\ row.retry_of = NoTask
     /\ row.attempt = 1
  \/ /\ row.request = OwnRequest
     /\ row.retry_of \in DOMAIN tasks
     /\ is_retryable(tasks[row.retry_of].status)
     /\ RetryChildren(row.retry_of) = {}
     /\ row.attempt = tasks[row.retry_of].attempt + 1
     /\ row.input = tasks[row.retry_of].input

Created(t) ==
  /\ t = Len(tasks) + 1
  /\ tasks'[t].status = "Queued"
  /\ try_from_stored(tasks'[t])
  /\ Permitted(tasks'[t])
  /\ \E i \in NewEvents : Logged(t, i) /\ events'[i] = LifecycleEvent(t, tasks'[t])

Moved(t) ==
  /\ t \in DOMAIN tasks
  /\ can_transition_to(tasks[t].status, tasks'[t].status)
  /\ try_from_stored(tasks[t]) => try_from_stored(tasks'[t])
  /\ SameTask(tasks[t], tasks'[t])
  /\ \E i \in NewEvents : Logged(t, i) /\ events'[i] = LifecycleEvent(t, tasks'[t])

Extended(t) ==
  /\ t \in DOMAIN tasks
  /\ tasks[t].status = "Running"
  /\ \E i \in NewEvents :
       Logged(t, i) /\ events'[i] = PanelEvent(t) /\ tasks'[t] = Stamped(tasks[t], i)

StepEffect ==
  /\ TypeOK'
  /\ DOMAIN tasks \subseteq DOMAIN tasks'
  /\ DOMAIN events \subseteq DOMAIN events'
  /\ \A i \in DOMAIN events : events'[i] = events[i]
  /\ \A i \in NewEvents : events'[i].task \in DOMAIN tasks'
  /\ \A t \in DOMAIN tasks' : Untouched(t) \/ Created(t) \/ Moved(t) \/ Extended(t)

\* A lifecycle event of a row of the table is an event.
LEMMA LifecycleEventType ==
  ASSUME NEW t \in Nat \ {0}, NEW row \in Task
  PROVE  LifecycleEvent(t, row) \in Event
<1>1. row.status \in TaskStatus
  BY DEF Task
<1>2. lifecycle_kind(row.status) \in TaskEventKind
  BY <1>1 DEF lifecycle_kind, TaskStatus, TaskEventKind, LifecycleKinds
<1>3. QED BY <1>2 DEF LifecycleEvent, Event

LEMMA LifecycleEventFields ==
  ASSUME NEW t, NEW row
  PROVE  /\ LifecycleEvent(t, row).task = t
         /\ LifecycleEvent(t, row).kind = lifecycle_kind(row.status)
         /\ LifecycleEvent(t, row).snapshot = row
  BY DEF LifecycleEvent

LEMMA PanelEventType ==
  ASSUME NEW t \in Nat \ {0}
  PROVE  PanelEvent(t) \in Event
  BY DEF PanelEvent, Event, TaskEventKind

\* What Append does, in the form the steps below use.
LEMMA Appended ==
  ASSUME NEW S, NEW s \in Seq(S), NEW e \in S
  PROVE  /\ Append(s, e) \in Seq(S)
         /\ Len(s) \in Nat
         /\ Len(Append(s, e)) = Len(s) + 1
         /\ DOMAIN s = 1..Len(s)
         /\ DOMAIN Append(s, e) = 1..(Len(s) + 1)
         /\ \A i \in 1..Len(s) : Append(s, e)[i] = s[i]
         /\ Append(s, e)[Len(s) + 1] = e
  OBVIOUS

\* A row is created.
LEMMA InsertEffect ==
  ASSUME TypeOK, NEW row \in Task, InsertQueued(row),
         row.status = "Queued", try_from_stored(row), Permitted(row)
  PROVE  StepEffect
<1> DEFINE id == Len(events) + 1
           t == Len(tasks) + 1
           new == Stamped(row, id)
<1>1. /\ Len(events) \in Nat /\ Len(tasks) \in Nat /\ id \in Nat
      /\ tasks' = Append(tasks, new)
      /\ events' = Append(events, LifecycleEvent(t, new))
  BY DEF TypeOK, InsertQueued, append_lifecycle_event
<1>2. /\ new \in Task /\ new.last_event_id = id /\ new.status = "Queued"
      /\ SameTask(row, new)
      /\ new.started = row.started /\ new.finished = row.finished
      /\ new.failure = row.failure
  <2> HIDE DEF id
  <2> QED BY <1>1, StampedRow
<1>3. LifecycleEvent(t, new) \in Event /\ LifecycleEvent(t, new).task = t
  BY <1>1, <1>2, LifecycleEventType DEF LifecycleEvent
<1>4. /\ tasks' \in Seq(Task)
      /\ DOMAIN tasks = 1..Len(tasks) /\ DOMAIN tasks' = 1..t
      /\ \A u \in 1..Len(tasks) : tasks'[u] = tasks[u]
      /\ tasks'[t] = new
  BY <1>1, <1>2, Appended DEF TypeOK
<1>5. /\ events' \in Seq(Event)
      /\ DOMAIN events = 1..Len(events) /\ DOMAIN events' = 1..id
      /\ \A i \in 1..Len(events) : events'[i] = events[i]
      /\ events'[id] = LifecycleEvent(t, new)
      /\ NewEvents = {id}
  BY <1>1, <1>3, Appended DEF TypeOK, NewEvents
<1> HIDE DEF id, t, new
<1>6. Created(t)
  <2>1. try_from_stored(tasks'[t])
    BY <1>2, <1>4 DEF try_from_stored
  <2>2. Permitted(tasks'[t])
    BY <1>2, <1>4 DEF Permitted, SameTask
  <2>3. Logged(t, id)
    BY <1>2, <1>3, <1>4, <1>5 DEF Logged
  <2>4. t = Len(tasks) + 1
    BY DEF t
  <2>5. QED BY <2>1, <2>2, <2>3, <2>4, <1>2, <1>4, <1>5 DEF Created
<1>7. \A u \in 1..Len(tasks) : Untouched(u)
  <2>1. \A j \in NewEvents : events'[j].task = t
    BY <1>3, <1>5
  <2>2. \A u \in 1..Len(tasks) : u # t
    BY <1>1 DEF t
  <2>3. QED BY <1>4, <2>1, <2>2 DEF Untouched
<1>8. QED
  BY <1>1, <1>3, <1>4, <1>5, <1>6, <1>7 DEF StepEffect, TypeOK, t, id

\* One row is replaced and one event is appended.
LEMMA UpdateEffect ==
  ASSUME TypeOK, NEW t \in DOMAIN tasks, NEW row \in Task, NEW event \in Event,
         row.last_event_id = Len(events) + 1, event.task = t,
         tasks' = [tasks EXCEPT ![t] = row],
         events' = Append(events, event)
  PROVE  /\ TypeOK'
         /\ DOMAIN tasks' = DOMAIN tasks
         /\ DOMAIN events \subseteq DOMAIN events'
         /\ \A i \in DOMAIN events : events'[i] = events[i]
         /\ NewEvents = {Len(events) + 1}
         /\ events'[Len(events) + 1] = event
         /\ \A u \in DOMAIN tasks : u # t => Untouched(u)
         /\ tasks'[t] = row
         /\ Logged(t, Len(events) + 1)
<1> DEFINE id == Len(events) + 1
<1>1. /\ tasks' \in Seq(Task)
      /\ DOMAIN tasks' = DOMAIN tasks
      /\ tasks'[t] = row
      /\ \A u \in DOMAIN tasks : u # t => tasks'[u] = tasks[u]
  BY ExceptSeq, LenProperties DEF TypeOK
<1>2. /\ events' \in Seq(Event) /\ Len(events) \in Nat
      /\ DOMAIN events = 1..Len(events) /\ DOMAIN events' = 1..id
      /\ \A i \in 1..Len(events) : events'[i] = events[i]
      /\ events'[id] = event
      /\ NewEvents = {id}
  BY Appended DEF TypeOK, NewEvents
<1>3. Logged(t, id)
  BY <1>1, <1>2 DEF Logged
<1>4. \A u \in DOMAIN tasks : u # t => Untouched(u)
  BY <1>1, <1>2 DEF Untouched
<1>5. QED BY <1>1, <1>2, <1>3, <1>4 DEF TypeOK

\* The id of a new event and of a row are ids.
LEMMA Ids ==
  ASSUME TypeOK
  PROVE  /\ Len(tasks) \in Nat /\ Len(events) \in Nat
         /\ Len(events) + 1 \in Nat
         /\ DOMAIN tasks = 1..Len(tasks) /\ DOMAIN events = 1..Len(events)
         /\ DOMAIN tasks \subseteq Nat \ {0}
         /\ \A t \in DOMAIN tasks : tasks[t] \in Task
         /\ \A i \in DOMAIN events : events[i] \in Event
  BY LenProperties, ElementOfSeq DEF TypeOK

\* A row is moved along the state machine.
LEMMA TransitionEffect ==
  ASSUME TypeOK, NEW t \in DOMAIN tasks, NEW transition \in TaskTransition,
         can_transition_to(tasks[t].status, transition.next),
         append_lifecycle_event(t, UpdatedRow(tasks[t], transition)),
         tasks' = [tasks EXCEPT ![t] = Stamped(UpdatedRow(tasks[t], transition),
                                               Len(events) + 1)]
  PROVE  StepEffect
<1> DEFINE id  == Len(events) + 1
           row == UpdatedRow(tasks[t], transition)
           new == Stamped(row, id)
<1>1. id \in Nat /\ t \in Nat \ {0} /\ tasks[t] \in Task
  BY Ids
<1>2. row \in Task /\ row.status = transition.next /\ SameTask(tasks[t], row)
  BY <1>1, MovedRow
<1>3. /\ new \in Task /\ new.last_event_id = id
      /\ new.status = transition.next /\ SameTask(tasks[t], new)
  <2> HIDE DEF row, id
  <2>1. QED BY <1>1, <1>2, StampedRow DEF SameTask
<1>4. LifecycleEvent(t, new) \in Event /\ LifecycleEvent(t, new).task = t
  <2> HIDE DEF new
  <2>1. QED BY <1>1, <1>3, LifecycleEventType DEF LifecycleEvent
<1>5. /\ tasks' = [tasks EXCEPT ![t] = new]
      /\ events' = Append(events, LifecycleEvent(t, new))
  BY DEF append_lifecycle_event
<1>6. try_from_stored(tasks[t]) => try_from_stored(new)
  BY <1>1, MovedRowReadable
<1> HIDE DEF new, row
<1>7. /\ TypeOK'
      /\ DOMAIN tasks' = DOMAIN tasks
      /\ DOMAIN events \subseteq DOMAIN events'
      /\ \A i \in DOMAIN events : events'[i] = events[i]
      /\ NewEvents = {id}
      /\ events'[id] = LifecycleEvent(t, new)
      /\ \A u \in DOMAIN tasks : u # t => Untouched(u)
      /\ tasks'[t] = new
      /\ Logged(t, id)
  BY <1>3, <1>4, <1>5, UpdateEffect
<1> HIDE DEF id
<1>8. Moved(t)
  BY <1>3, <1>6, <1>7 DEF Moved
<1>9. QED BY <1>4, <1>7, <1>8 DEF StepEffect

\* A panel event is added to a running task.
LEMMA AppendEffect ==
  ASSUME TypeOK, NEW t \in DOMAIN tasks, tasks[t].status = "Running",
         events' = Append(events, PanelEvent(t)),
         tasks' = [tasks EXCEPT ![t].last_event_id = Len(events) + 1]
  PROVE  StepEffect
<1> DEFINE id  == Len(events) + 1
           new == Stamped(tasks[t], id)
<1>1. id \in Nat /\ t \in Nat \ {0} /\ tasks[t] \in Task
  BY Ids
<1>2. new \in Task /\ new.last_event_id = id
  BY <1>1, StampedRow
<1>3. PanelEvent(t) \in Event /\ PanelEvent(t).task = t
  BY <1>1, PanelEventType DEF PanelEvent
<1>4. tasks' = [tasks EXCEPT ![t] = new]
  BY DEF Stamped
<1> HIDE DEF new
<1>5. /\ TypeOK'
      /\ DOMAIN tasks' = DOMAIN tasks
      /\ DOMAIN events \subseteq DOMAIN events'
      /\ \A i \in DOMAIN events : events'[i] = events[i]
      /\ NewEvents = {id}
      /\ events'[id] = PanelEvent(t)
      /\ \A u \in DOMAIN tasks : u # t => Untouched(u)
      /\ tasks'[t] = new
      /\ Logged(t, id)
  BY <1>2, <1>3, <1>4, UpdateEffect
<1> HIDE DEF id
<1>6. Extended(t)
  BY <1>5 DEF Extended, new
<1>7. QED BY <1>3, <1>5, <1>6 DEF StepEffect

\* The incomplete tasks are finitely many.
LEMMA IncompleteFinite ==
  ASSUME TypeOK
  PROVE  Cardinality(IncompleteTasks) \in Nat
<1>1. IsFiniteSet(DOMAIN tasks)
  BY Ids, FS_Interval
<1>2. IncompleteTasks \subseteq DOMAIN tasks
  BY DEF IncompleteTasks
<1>3. QED BY <1>1, <1>2, FS_Subset, FS_CardinalityType

\* The place of a task in a listing is where it is listed, and the only one.
LEMMA Places ==
  ASSUME NEW S, S \subseteq Nat, Cardinality(S) \in Nat, NEW o \in Listings(S)
  PROVE  /\ \A i \in 1..Cardinality(S) : o[i] \in S /\ Place(o, o[i]) = i
         /\ \A t \in S : Place(o, t) \in 1..Cardinality(S) /\ o[Place(o, t)] = t
<1> DEFINE n == Cardinality(S)
<1> HIDE DEF n
<1>1. /\ o \in [1..n -> S] /\ DOMAIN o = 1..n
      /\ \A i, j \in 1..n : o[i] = o[j] => i = j
      /\ \A t \in S : \E i \in 1..n : o[i] = t
  BY DEF Listings, n
<1>2. n \in Nat
  BY DEF n
<1>3. \A t \in S : Place(o, t) \in 1..n /\ o[Place(o, t)] = t
  BY <1>1 DEF Place
<1>5. ASSUME NEW i \in 1..n
      PROVE  o[i] \in S /\ Place(o, o[i]) = i
  <2>1. o[i] \in S
    BY <1>1
  <2>2. Place(o, o[i]) \in 1..n /\ o[Place(o, o[i])] = o[i]
    BY <1>3, <2>1
  <2>3. QED BY <1>1, <2>1, <2>2
<1>6. QED BY <1>3, <1>5 DEF n

\* Every incomplete row is interrupted, each with an event of its own.
LEMMA RecoverEffect ==
  ASSUME TypeOK, NEW failure \in Failures, recover_incomplete(failure)
  PROVE  StepEffect
<1> DEFINE S == IncompleteTasks
           n == Cardinality(S)
           L == Len(events)
           interrupted == [next |-> "Interrupted", failure |-> failure]
<1>1. /\ n \in Nat /\ L \in Nat /\ Len(tasks) \in Nat
      /\ DOMAIN tasks = 1..Len(tasks) /\ DOMAIN events = 1..L
      /\ S \subseteq DOMAIN tasks /\ S \subseteq Nat \ {0}
      /\ \A t \in DOMAIN tasks : tasks[t] \in Task
      /\ \A i \in 1..L : events[i] \in Event
  BY IncompleteFinite, Ids DEF IncompleteTasks
<1>2. PICK o \in Listings(S) :
        /\ events' = [i \in 1..(L + n) |->
                        IF i <= L THEN events[i]
                        ELSE LifecycleEvent(o[i - L], RecoveredRow(o[i - L], failure, i))]
        /\ tasks' = [t \in DOMAIN tasks |->
                       IF Incomplete(tasks[t].status)
                         THEN RecoveredRow(t, failure, L + Place(o, t))
                         ELSE tasks[t]]
  BY DEF recover_incomplete
<1>3. /\ \A i \in 1..n : o[i] \in S /\ Place(o, o[i]) = i
      /\ \A t \in S : Place(o, t) \in 1..n /\ o[Place(o, t)] = t
  BY <1>1, Places
<1>4. interrupted \in TaskTransition
  BY DEF TaskTransition
<1>5. ASSUME NEW t \in S, NEW i \in Nat
      PROVE  LET new == RecoveredRow(t, failure, i) IN
             /\ new \in Task /\ new.last_event_id = i /\ new.status = "Interrupted"
             /\ SameTask(tasks[t], new)
             /\ can_transition_to(tasks[t].status, new.status)
             /\ try_from_stored(tasks[t]) => try_from_stored(new)
  <2> DEFINE row == UpdatedRow(tasks[t], interrupted)
  <2>1. tasks[t] \in Task /\ Incomplete(tasks[t].status)
    BY <1>1 DEF IncompleteTasks
  <2>2. /\ row \in Task /\ row.status = "Interrupted" /\ SameTask(tasks[t], row)
    BY <1>4, <2>1, MovedRow
  <2>3. /\ Stamped(row, i) \in Task /\ Stamped(row, i).last_event_id = i
        /\ Stamped(row, i).status = "Interrupted" /\ SameTask(tasks[t], Stamped(row, i))
    <3> HIDE DEF row
    <3>1. QED BY <2>2, StampedRow DEF SameTask
  <2>4. can_transition_to(tasks[t].status, "Interrupted")
    BY <2>1 DEF Incomplete, can_transition_to
  <2>5. try_from_stored(tasks[t]) => try_from_stored(Stamped(row, i))
    BY <1>4, <2>1, <2>4, MovedRowReadable
  <2>6. RecoveredRow(t, failure, i) = Stamped(row, i)
    BY DEF RecoveredRow
  <2> HIDE DEF row
  <2>7. QED BY <2>3, <2>4, <2>5, <2>6
<1> HIDE DEF n, L, S, interrupted
<1>6. \A t \in S : L + Place(o, t) \in Nat /\ L + Place(o, t) \in (L + 1)..(L + n)
  BY <1>1, <1>3
<1>7. /\ tasks' \in Seq(Task)
      /\ DOMAIN tasks' = DOMAIN tasks
      /\ \A t \in S : tasks'[t] = RecoveredRow(t, failure, L + Place(o, t))
      /\ \A t \in DOMAIN tasks \ S : tasks'[t] = tasks[t]
  <2>1. \A t \in DOMAIN tasks : Incomplete(tasks[t].status) <=> t \in S
    BY DEF S, IncompleteTasks
  <2>2. tasks' \in [1..Len(tasks) -> Task]
    BY <1>1, <1>2, <1>5, <1>6, <2>1
  <2>3. QED BY <1>1, <1>2, <2>1, <2>2, SeqDef
<1>8. /\ events' \in Seq(Event)
      /\ DOMAIN events' = 1..(L + n) /\ NewEvents = (L + 1)..(L + n)
      /\ \A i \in 1..L : events'[i] = events[i]
      /\ \A i \in NewEvents :
           /\ i - L \in 1..n /\ o[i - L] \in S
           /\ events'[i] = LifecycleEvent(o[i - L], RecoveredRow(o[i - L], failure, i))
           /\ events'[i].task = o[i - L]
  <2>1. \A i \in (L + 1)..(L + n) :
           /\ i \in Nat /\ i - L \in 1..n /\ o[i - L] \in S
           /\ LifecycleEvent(o[i - L], RecoveredRow(o[i - L], failure, i)) \in Event
    BY <1>1, <1>3, <1>5, LifecycleEventType
  <2>2. events' \in [1..(L + n) -> Event]
    BY <1>1, <1>2, <2>1
  <2>3. L + n \in Nat
    BY <1>1
  <2>4. events' \in Seq(Event) /\ Len(events') = L + n
    BY <2>2, <2>3, SeqDef
  <2>5. /\ DOMAIN events' = 1..(L + n) /\ NewEvents = (L + 1)..(L + n)
        /\ \A i \in 1..L : events'[i] = events[i]
        /\ \A i \in NewEvents :
             events'[i] = LifecycleEvent(o[i - L], RecoveredRow(o[i - L], failure, i))
    BY <1>1, <1>2, <2>1, <2>2, <2>4 DEF NewEvents, L
  <2>6. \A i \in NewEvents : events'[i].task = o[i - L]
    BY <2>5, LifecycleEventFields
  <2>7. QED BY <2>1, <2>4, <2>5, <2>6
<1>9. ASSUME NEW t \in S
      PROVE  Moved(t)
  <2> DEFINE i == L + Place(o, t)
  <2>1. i \in NewEvents /\ i \in Nat /\ i - L = Place(o, t)
    BY <1>1, <1>3, <1>6, <1>8
  <2>2. o[i - L] = t
    BY <1>3, <2>1
  <2> HIDE DEF i
  <2>3. tasks'[t] = RecoveredRow(t, failure, i)
    BY <1>7 DEF i
  <2>4. events'[i] = LifecycleEvent(t, tasks'[t]) /\ events'[i].task = t
    BY <1>8, <2>1, <2>2, <2>3
  <2>5. \A j \in NewEvents : events'[j].task = t => j = i
    <3> SUFFICES ASSUME NEW j \in NewEvents, events'[j].task = t
                 PROVE  j = i
      OBVIOUS
    <3>1. o[j - L] = t /\ j - L \in 1..n
      BY <1>8
    <3>2. Place(o, t) = j - L
      BY <1>3, <3>1
    <3>3. QED BY <1>1, <1>8, <3>2 DEF i
  <2>6. tasks'[t].last_event_id = i
    BY <1>5, <2>1, <2>3
  <2>7. Logged(t, i)
    BY <2>1, <2>4, <2>5, <2>6 DEF Logged
  <2>8. QED BY <1>1, <1>5, <2>1, <2>3, <2>4, <2>7 DEF Moved
<1>10. ASSUME NEW t \in DOMAIN tasks \ S
       PROVE  Untouched(t)
  <2>1. \A j \in NewEvents : events'[j].task \in S
    BY <1>8
  <2>2. QED BY <1>7, <2>1 DEF Untouched
<1>11. \A i \in NewEvents : events'[i].task \in DOMAIN tasks'
  BY <1>1, <1>7, <1>8
<1>12. QED
  BY <1>1, <1>7, <1>8, <1>9, <1>10, <1>11 DEF StepEffect, TypeOK

\* Every transaction has such an effect or none at all.
THEOREM TransactionEffect ==
  ASSUME TypeOK, Next
  PROVE  StepEffect \/ UNCHANGED vars
<1>1. CASE \E request \in Requests, input \in Inputs : create_task(request, input)
  <2>1. PICK request \in Requests, input \in Inputs : create_task(request, input)
    BY <1>1
  <2> DEFINE row == QueuedRow(request, input, 1, NoTask)
  <2>2. SUFFICES ASSUME WithRequest(request) = {}, InsertQueued(row)
                 PROVE  StepEffect
    BY <2>1 DEF create_task
  <2>3. row \in Task /\ row.status = "Queued"
    BY StoreAssumption DEF QueuedRow, Task, TaskStatus, NoTask
  <2>4. try_from_stored(row)
    BY DEF QueuedRow, try_from_stored
  <2>5. Permitted(row)
    BY <2>2 DEF QueuedRow, Permitted
  <2> HIDE DEF row
  <2>6. QED BY <2>2, <2>3, <2>4, <2>5, InsertEffect
<1>2. CASE \E source \in DOMAIN tasks : retry_task(source)
  <2>1. PICK source \in DOMAIN tasks : retry_task(source)
    BY <1>2
  <2> DEFINE row == QueuedRow(OwnRequest, tasks[source].input,
                              tasks[source].attempt + 1, source)
  <2>2. SUFFICES ASSUME is_retryable(tasks[source].status), RetryChildren(source) = {},
                        tasks[source].attempt < MaxAttempt, InsertQueued(row)
                 PROVE  StepEffect
    BY <2>1 DEF retry_task
  <2>3. tasks[source] \in Task /\ source \in Nat
    BY Ids
  <2>4. tasks[source].input \in Inputs /\ tasks[source].attempt + 1 \in 1..MaxAttempt
    BY <2>2, <2>3, StoreAssumption DEF Task
  <2>5. row \in Task /\ row.status = "Queued"
    BY <2>3, <2>4 DEF QueuedRow, Task, TaskStatus
  <2>6. try_from_stored(row)
    BY DEF QueuedRow, try_from_stored
  <2>7. Permitted(row)
    BY <2>2 DEF QueuedRow, Permitted
  <2> HIDE DEF row
  <2>8. QED BY <2>2, <2>5, <2>6, <2>7, InsertEffect
<1>3. CASE \E t \in DOMAIN tasks, expected \in TaskStatus, transition \in TaskTransition :
             transition_with_event(t, expected, transition)
  BY <1>3, TransitionEffect DEF transition_with_event
<1>4. CASE \E t \in DOMAIN tasks : append_running_event(t)
  BY <1>4, AppendEffect DEF append_running_event
<1>5. CASE \E failure \in Failures : recover_incomplete(failure)
  BY <1>5, RecoverEffect
<1>6. QED BY <1>1, <1>2, <1>3, <1>4, <1>5 DEF Next

\* The variables always hold what their tables hold, whatever is called in
\* whatever order (tasks.rs against migrations/0001_initial.sql).
THEOREM StoreTypeCorrect == Spec => []TypeOK
<1>1. Init => TypeOK
  BY EmptySeq DEF Init, TypeOK
<1>2. TypeOK /\ [Next]_vars => TypeOK'
  BY TransactionEffect DEF StepEffect, TypeOK, vars
<1>3. QED BY <1>1, <1>2, PTL DEF Spec

\* Nothing that was recorded is ever lost or rewritten: the log is append-only
\* and a finished row is final.
THEOREM HistoryPreserved == Spec => HistoryIsImmutable
<1>1. TypeOK /\ Next => HistoryStep
  <2> SUFFICES ASSUME TypeOK, StepEffect
               PROVE  HistoryStep
    BY TransactionEffect, Ids DEF vars, HistoryStep
  <2>1. /\ Len(tasks) <= Len(tasks')
        /\ Len(events) <= Len(events')
    <3>1. /\ DOMAIN tasks = 1..Len(tasks) /\ DOMAIN tasks' = 1..Len(tasks')
          /\ DOMAIN events = 1..Len(events) /\ DOMAIN events' = 1..Len(events')
          /\ {Len(tasks), Len(tasks'), Len(events), Len(events')} \subseteq Nat
      BY LenProperties DEF StepEffect, TypeOK
    <3>2. QED BY <3>1 DEF StepEffect
  <2>2. ASSUME NEW t \in DOMAIN tasks, is_retryable(tasks[t].status)
        PROVE  tasks'[t] = tasks[t]
    <3>1. t \in DOMAIN tasks' /\ ~Created(t)
      BY Ids DEF StepEffect, Created
    <3>2. ~Moved(t) /\ ~Extended(t)
      BY <2>2 DEF is_retryable, Moved, Extended, can_transition_to
    <3>3. QED BY <3>1, <3>2 DEF StepEffect, Untouched
  <2>3. QED BY <2>1, <2>2 DEF StepEffect, HistoryStep
<1>2. TypeOK /\ [Next]_vars => [HistoryStep]_vars
  BY <1>1
<1>3. QED BY <1>2, StoreTypeCorrect, PTL DEF Spec, HistoryIsImmutable

-----------------------------------------------------------------------------
(* Invariants of the table.                                                *)

\* What every step leaves behind, in the form the proofs below use.
LEMMA EffectBasics ==
  ASSUME TypeOK, StepEffect
  PROVE  /\ DOMAIN tasks = 1..Len(tasks) /\ Len(tasks) \in Nat
         /\ DOMAIN tasks' = 1..Len(tasks') /\ Len(tasks') \in Nat
         /\ DOMAIN events = 1..Len(events) /\ Len(events) \in Nat
         /\ DOMAIN events' = 1..Len(events') /\ Len(events') \in Nat
         /\ Len(tasks) <= Len(tasks') /\ Len(events) <= Len(events')
         /\ DOMAIN events' = DOMAIN events \cup NewEvents
         /\ \A i \in DOMAIN events : i \notin NewEvents
         /\ \A i \in DOMAIN events, j \in NewEvents : i < j
         /\ \A t \in DOMAIN tasks' : t \notin DOMAIN tasks => Created(t)
         /\ \A t \in DOMAIN tasks : Untouched(t) \/ Moved(t) \/ Extended(t)
<1>1. /\ DOMAIN tasks = 1..Len(tasks) /\ Len(tasks) \in Nat
      /\ DOMAIN tasks' = 1..Len(tasks') /\ Len(tasks') \in Nat
      /\ DOMAIN events = 1..Len(events) /\ Len(events) \in Nat
      /\ DOMAIN events' = 1..Len(events') /\ Len(events') \in Nat
  BY LenProperties DEF StepEffect, TypeOK
<1>2. /\ Len(tasks) <= Len(tasks') /\ Len(events) <= Len(events')
  BY <1>1 DEF StepEffect
<1>3. /\ DOMAIN events' = DOMAIN events \cup NewEvents
      /\ \A i \in DOMAIN events : i \notin NewEvents
      /\ \A i \in DOMAIN events, j \in NewEvents : i < j
  BY <1>1, <1>2 DEF NewEvents
<1>4. \A t \in DOMAIN tasks' : t \notin DOMAIN tasks => Created(t)
  BY DEF StepEffect, Untouched, Moved, Extended
<1>5. \A t \in DOMAIN tasks : Untouched(t) \/ Moved(t) \/ Extended(t)
  BY <1>1 DEF StepEffect, Created
<1>6. QED BY <1>1, <1>2, <1>3, <1>4, <1>5

\* A row keeps what identifies it.
LEMMA OldRowsKept ==
  ASSUME TypeOK, StepEffect, NEW t \in DOMAIN tasks
  PROVE  /\ t \in DOMAIN tasks'
         /\ SameTask(tasks[t], tasks'[t])
         /\ is_retryable(tasks[t].status) => tasks'[t] = tasks[t]
<1>1. CASE Untouched(t)
  BY <1>1 DEF Untouched, SameTask, StepEffect
<1>2. CASE Moved(t)
  BY <1>2 DEF Moved, is_retryable, can_transition_to, StepEffect
<1>3. CASE Extended(t)
  <2>1. tasks[t] \in Task
    BY Ids
  <2>2. PICK i \in NewEvents : tasks'[t] = Stamped(tasks[t], i)
    BY <1>3 DEF Extended
  <2>3. i \in Nat
    BY EffectBasics DEF NewEvents
  <2>4. SameTask(tasks[t], tasks'[t])
    BY <2>1, <2>2, <2>3, StampedRow
  <2>5. QED BY <1>3, <2>4 DEF Extended, is_retryable, StepEffect
<1>4. QED BY <1>1, <1>2, <1>3, EffectBasics

LEMMA StoredTasksStep ==
  ASSUME TypeOK, StepEffect, StoredTasksValid
  PROVE  StoredTasksValid'
<1> SUFFICES ASSUME NEW t \in DOMAIN tasks'
             PROVE  try_from_stored(tasks'[t])
  BY DEF StoredTasksValid, try_from_stored
<1>1. CASE Created(t)
  BY <1>1 DEF Created
<1>2. CASE Untouched(t)
  BY <1>2 DEF Untouched, StoredTasksValid
<1>3. CASE Moved(t)
  BY <1>3 DEF Moved, StoredTasksValid
<1>4. CASE Extended(t)
  <2>1. PICK i \in NewEvents : tasks'[t] = Stamped(tasks[t], i)
    BY <1>4 DEF Extended
  <2>2. tasks[t] \in Task /\ i \in Nat
    BY <1>4, Ids, EffectBasics DEF Extended, NewEvents
  <2>3. try_from_stored(tasks[t])
    BY <1>4 DEF Extended, StoredTasksValid
  <2>4. /\ tasks[t].status = "Running" /\ tasks[t].started
        /\ ~tasks[t].finished /\ tasks[t].failure = NoFailure
    BY <1>4, <2>3 DEF Extended, try_from_stored
  <2>5. /\ tasks'[t].status = "Running" /\ tasks'[t].started
        /\ ~tasks'[t].finished /\ tasks'[t].failure = NoFailure
    BY <2>1, <2>2, <2>4, StampedRow
  <2>6. QED BY <2>5 DEF try_from_stored
<1>5. QED BY <1>1, <1>2, <1>3, <1>4 DEF StepEffect

LEMMA RequestsStep ==
  ASSUME TypeOK, StepEffect, RequestsNameOneTask
  PROVE  RequestsNameOneTask'
<1> SUFFICES ASSUME NEW t \in DOMAIN tasks', NEW u \in DOMAIN tasks',
                    tasks'[t].request = tasks'[u].request, tasks'[t].request \in Requests
             PROVE  t = u
  BY DEF RequestsNameOneTask
<1>1. \A v \in DOMAIN tasks : tasks'[v].request = tasks[v].request
  BY OldRowsKept DEF SameTask
<1>2. ASSUME NEW v \in DOMAIN tasks', v \notin DOMAIN tasks, tasks'[v].request \in Requests
      PROVE  \A w \in DOMAIN tasks : tasks[w].request # tasks'[v].request
  BY <1>2, EffectBasics, StoreAssumption DEF Created, Permitted, WithRequest
<1>3. ASSUME t \notin DOMAIN tasks, u \notin DOMAIN tasks
      PROVE  t = u
  BY <1>3, EffectBasics DEF Created
<1>4. QED BY <1>1, <1>2, <1>3 DEF RequestsNameOneTask

LEMMA ChainsStep ==
  ASSUME TypeOK, StepEffect, RetriesFormChains
  PROVE  RetriesFormChains'
<1>1. \A v \in DOMAIN tasks :
        /\ v \in DOMAIN tasks'
        /\ SameTask(tasks[v], tasks'[v])
        /\ is_retryable(tasks[v].status) => tasks'[v] = tasks[v]
  BY OldRowsKept
<1>2. ASSUME NEW source \in DOMAIN tasks, is_retryable(tasks[source].status)
      PROVE  is_retryable(tasks'[source].status)
  BY <1>1, <1>2
<1>3. \A v \in DOMAIN tasks' : v \notin DOMAIN tasks => v = Len(tasks) + 1 /\ Permitted(tasks'[v])
  BY EffectBasics DEF Created
<1>4. ASSUME NEW t \in DOMAIN tasks
      PROVE  /\ tasks'[t].retry_of = NoTask => tasks'[t].attempt = 1
             /\ tasks'[t].retry_of # NoTask =>
                  LET source == tasks'[t].retry_of IN
                    /\ source \in 1..(t - 1)
                    /\ is_retryable(tasks'[source].status)
                    /\ tasks'[t].attempt = tasks'[source].attempt + 1
                    /\ tasks'[t].input = tasks'[source].input
                    /\ \A v \in DOMAIN tasks' : tasks'[v].retry_of = source <=> v = t
  <2> DEFINE source == tasks[t].retry_of
  <2>1. SameTask(tasks[t], tasks'[t])
    BY <1>1
  <2>2. CASE source = NoTask
    BY <2>1, <2>2 DEF SameTask, RetriesFormChains
  <2>3. CASE source # NoTask
    <3>0. /\ source \in 1..(t - 1)
          /\ is_retryable(tasks[source].status)
          /\ tasks[t].attempt = tasks[source].attempt + 1
          /\ tasks[t].input = tasks[source].input
          /\ RetryChildren(source) = {t}
      BY <2>3 DEF RetriesFormChains
    <3>1. source \in DOMAIN tasks
      BY <3>0, EffectBasics
    <3>2. tasks'[source] = tasks[source]
      BY <1>1, <3>0, <3>1
    <3>3. \A v \in DOMAIN tasks' : tasks'[v].retry_of = source <=> v = t
      <4>1. ASSUME NEW v \in DOMAIN tasks
            PROVE  tasks'[v].retry_of = source <=> v = t
        BY <1>1, <3>0 DEF SameTask, RetryChildren
      <4>2. ASSUME NEW v \in DOMAIN tasks', v \notin DOMAIN tasks
            PROVE  tasks'[v].retry_of # source
        <5>1. Permitted(tasks'[v])
          BY <1>3, <4>2
        <5>2. t \in RetryChildren(source)
          BY <3>0
        <5>3. QED BY <2>3, <5>1, <5>2 DEF Permitted
      <4>3. QED BY <4>1, <4>2
    <3>4. QED BY <2>1, <2>3, <3>0, <3>1, <3>2, <3>3 DEF SameTask
  <2>4. QED BY <2>2, <2>3
<1>5. ASSUME NEW t \in DOMAIN tasks', t \notin DOMAIN tasks
      PROVE  /\ tasks'[t].retry_of = NoTask => tasks'[t].attempt = 1
             /\ tasks'[t].retry_of # NoTask =>
                  LET source == tasks'[t].retry_of IN
                    /\ source \in 1..(t - 1)
                    /\ is_retryable(tasks'[source].status)
                    /\ tasks'[t].attempt = tasks'[source].attempt + 1
                    /\ tasks'[t].input = tasks'[source].input
                    /\ \A v \in DOMAIN tasks' : tasks'[v].retry_of = source <=> v = t
  <2> DEFINE source == tasks'[t].retry_of
  <2>1. t = Len(tasks) + 1 /\ Permitted(tasks'[t])
    BY <1>3, <1>5
  <2>2. CASE source = NoTask
    <3>1. NoTask \notin DOMAIN tasks
      BY EffectBasics DEF NoTask
    <3>2. QED BY <2>1, <2>2, <3>1 DEF Permitted
  <2>3. CASE source # NoTask
    <3>1. /\ source \in DOMAIN tasks
          /\ is_retryable(tasks[source].status)
          /\ RetryChildren(source) = {}
          /\ tasks'[t].attempt = tasks[source].attempt + 1
          /\ tasks'[t].input = tasks[source].input
      BY <2>1, <2>3 DEF Permitted
    <3>2. source \in 1..(t - 1)
      BY <2>1, <3>1, EffectBasics
    <3>3. tasks'[source] = tasks[source]
      BY <1>1, <3>1
    <3>4. ASSUME NEW v \in DOMAIN tasks'
          PROVE  tasks'[v].retry_of = source <=> v = t
      <4>1. CASE v \in DOMAIN tasks
        <5>1. tasks[v].retry_of # source
          BY <3>1, <4>1 DEF RetryChildren
        <5>2. QED BY <1>1, <1>5, <4>1, <5>1 DEF SameTask
      <4>2. CASE v \notin DOMAIN tasks
        BY <1>3, <2>1, <4>2
      <4>3. QED BY <4>1, <4>2
    <3>5. QED BY <2>3, <3>1, <3>2, <3>3, <3>4
  <2>4. QED BY <2>2, <2>3
<1>6. ASSUME NEW t \in DOMAIN tasks', NEW source,
             \A v \in DOMAIN tasks' : tasks'[v].retry_of = source <=> v = t
      PROVE  RetryChildren(source)' = {t}
  BY <1>6 DEF RetryChildren
<1>7. \A t \in DOMAIN tasks' : tasks'[t].attempt <= MaxAttempt
  <2>1. tasks' \in Seq(Task)
    BY DEF StepEffect, TypeOK
  <2>2. \A t \in DOMAIN tasks' : tasks'[t] \in Task
    BY <2>1
  <2>3. \A row \in Task : row.attempt <= MaxAttempt
    BY StoreAssumption DEF Task
  <2>4. QED BY <2>2, <2>3
<1>8. QED BY <1>4, <1>5, <1>6, <1>7 DEF RetriesFormChains

-----------------------------------------------------------------------------
(* Invariants of the log.                                                  *)

\* The invariant: the conjuncts of the log hold one another up.  That nothing
\* follows a final event needs LogMatchesStatus, which needs every event to
\* belong to a row, which LifecyclePayloadsConsistent says.
StoreInv ==
  /\ TypeOK
  /\ StoredTasksValid
  /\ RequestsNameOneTask
  /\ RetriesFormChains
  /\ LifecyclePayloadsConsistent
  /\ LogMatchesStatus
  /\ LogFollowsLifecycle
  /\ LogDescribesTable

\* A panel event leaves the state of its task alone.
LEMMA ExtendedStatus ==
  ASSUME TypeOK, StepEffect, NEW t, Extended(t)
  PROVE  tasks'[t].status = tasks[t].status
<1>1. PICK i \in NewEvents : tasks'[t] = Stamped(tasks[t], i)
  BY DEF Extended
<1>2. tasks[t] \in Task /\ i \in Nat
  BY Ids, EffectBasics DEF Extended, NewEvents
<1>3. QED BY <1>1, <1>2, StampedRow

\* A new event belongs to a row that was created, moved or extended by it.
LEMMA NewEvent ==
  ASSUME TypeOK, StepEffect, NEW j \in NewEvents
  PROVE  LET t == events'[j].task IN
         /\ t \in DOMAIN tasks'
         /\ Logged(t, j)
         /\ \/ Created(t) /\ events'[j] = LifecycleEvent(t, tasks'[t])
            \/ Moved(t) /\ events'[j] = LifecycleEvent(t, tasks'[t])
            \/ /\ Extended(t) /\ events'[j] = PanelEvent(t)
               /\ tasks'[t] = Stamped(tasks[t], j)
<1> DEFINE t == events'[j].task
<1>1. t \in DOMAIN tasks' /\ ~Untouched(t)
  BY DEF StepEffect, Untouched
<1>2. \A i \in NewEvents : Logged(t, i) => i = j
  BY DEF Logged
<1>3. CASE Created(t)
  BY <1>1, <1>2, <1>3 DEF Created
<1>4. CASE Moved(t)
  BY <1>1, <1>2, <1>4 DEF Moved
<1>5. CASE Extended(t)
  BY <1>1, <1>2, <1>5 DEF Extended
<1>6. QED BY <1>1, <1>3, <1>4, <1>5 DEF StepEffect

\* The fields of a new event.
LEMMA NewEventFields ==
  ASSUME TypeOK, StepEffect, NEW j \in NewEvents
  PROVE  LET t == events'[j].task IN
         /\ Created(t) \/ Moved(t) =>
              /\ events'[j].snapshot = tasks'[t] /\ events'[j].snapshot \in Task
              /\ events'[j].kind = lifecycle_kind(tasks'[t].status)
              /\ events'[j].kind \in LifecycleKinds
         /\ Extended(t) =>
              /\ events'[j].snapshot = NoSnapshot
              /\ events'[j].kind = PanelKind
         /\ tasks'[t].last_event_id = j
<1> DEFINE t == events'[j].task
<1>1. /\ t \in DOMAIN tasks' /\ tasks'[t].last_event_id = j
  BY NewEvent DEF Logged
<1>2. tasks'[t] \in Task
  BY <1>1, LenProperties, ElementOfSeq DEF StepEffect, TypeOK
<1>3. lifecycle_kind(tasks'[t].status) \in LifecycleKinds
  <2>1. tasks'[t].status \in TaskStatus
    BY <1>2 DEF Task
  <2>2. QED BY <2>1 DEF lifecycle_kind, TaskStatus, LifecycleKinds
<1>4. ~(Created(t) /\ Extended(t)) /\ ~(Moved(t) /\ Extended(t))
  <2>1. ~(Created(t) /\ Extended(t))
    BY EffectBasics DEF Created, Extended
  <2>2. ASSUME Extended(t)
        PROVE  tasks'[t].status = tasks[t].status
    BY <2>2, ExtendedStatus
  <2>3. QED BY <2>1, <2>2 DEF Moved, can_transition_to
<1> HIDE DEF t
<1>5. ASSUME Created(t) \/ Moved(t)
      PROVE  events'[j] = LifecycleEvent(t, tasks'[t])
  BY <1>4, <1>5, NewEvent DEF t
<1>6. ASSUME Extended(t)
      PROVE  events'[j] = PanelEvent(t)
  BY <1>4, <1>6, NewEvent DEF t
<1>7. QED
  BY <1>1, <1>2, <1>3, <1>5, <1>6, LifecycleEventFields DEF t, PanelEvent

LEMMA PayloadsStep ==
  ASSUME TypeOK, StepEffect, LifecyclePayloadsConsistent
  PROVE  LifecyclePayloadsConsistent'
<1>1. ASSUME NEW i \in DOMAIN events
      PROVE  events'[i] = events[i] /\ events[i].task \in DOMAIN tasks'
  BY DEF StepEffect, LifecyclePayloadsConsistent
<1>2. ASSUME NEW j \in NewEvents
      PROVE  /\ events'[j].task \in DOMAIN tasks'
             /\ events'[j].snapshot = NoSnapshot <=> events'[j].kind = PanelKind
             /\ events'[j].snapshot # NoSnapshot =>
                  /\ events'[j].kind = lifecycle_kind(events'[j].snapshot.status)
                  /\ events'[j].snapshot.last_event_id = j
  <2>1. PanelKind \notin LifecycleKinds
    BY DEF PanelKind, LifecycleKinds
  <2>2. QED BY <2>1, NewEvent, NewEventFields, SnapshotAssumption
<1>3. QED BY <1>1, <1>2, EffectBasics, ZenonT(40) DEF LifecyclePayloadsConsistent

\* The events of a row after a step: the old ones, and the one it was logged with.
LEMMA EventsAfter ==
  ASSUME TypeOK, StepEffect, LifecyclePayloadsConsistent, NEW t \in DOMAIN tasks'
  PROVE  /\ \A i \in EventsOf(t) : i \in EventsOf(t)' /\ events'[i] = events[i]
         /\ Untouched(t) => EventsOf(t)' = EventsOf(t)
         /\ Created(t) => EventsOf(t) = {}
         /\ \A j \in NewEvents : Logged(t, j) => EventsOf(t)' = EventsOf(t) \cup {j}
<1>1. \A i \in EventsOf(t) : i \in EventsOf(t)' /\ events'[i] = events[i]
  BY DEF StepEffect, EventsOf
<1>2. \A i \in EventsOf(t)' : i \in EventsOf(t) \/ (i \in NewEvents /\ events'[i].task = t)
  BY EffectBasics DEF StepEffect, EventsOf
<1>3. ASSUME Created(t)
      PROVE  EventsOf(t) = {}
  <2>1. t \notin DOMAIN tasks
    BY <1>3, EffectBasics DEF Created
  <2>2. QED BY <2>1 DEF EventsOf, LifecyclePayloadsConsistent
<1>4. ASSUME NEW j \in NewEvents, Logged(t, j)
      PROVE  EventsOf(t)' = EventsOf(t) \cup {j}
  <2>1. j \in EventsOf(t)'
    BY <1>4, EffectBasics DEF Logged, EventsOf
  <2>2. \A i \in EventsOf(t)' : i \in EventsOf(t) \/ i = j
    BY <1>2, <1>4 DEF Logged
  <2>3. QED BY <1>1, <2>1, <2>2
<1>5. ASSUME Untouched(t)
      PROVE  EventsOf(t)' = EventsOf(t)
  BY <1>1, <1>2, <1>5 DEF Untouched
<1>6. QED BY <1>1, <1>3, <1>4, <1>5

LEMMA MatchStep ==
  ASSUME TypeOK, StepEffect, LifecyclePayloadsConsistent, LogMatchesStatus
  PROVE  LogMatchesStatus'
<1> SUFFICES ASSUME NEW t \in DOMAIN tasks'
             PROVE  /\ tasks'[t].status = "Queued" =>
                         \A i \in EventsOf(t)' : events'[i].kind = "task.queued"
                    /\ tasks'[t].status = "Running" =>
                         /\ \A i \in EventsOf(t)' : events'[i].kind \notin TerminalKinds
                         /\ \E i \in EventsOf(t)' : events'[i].kind = "task.started"
  BY DEF LogMatchesStatus
<1>1. CASE Untouched(t)
  BY <1>1, EventsAfter DEF Untouched, LogMatchesStatus
<1>2. CASE Created(t)
  <2>1. PICK j \in NewEvents : Logged(t, j) /\ events'[j] = LifecycleEvent(t, tasks'[t])
    BY <1>2 DEF Created
  <2>2. EventsOf(t)' = {j}
    BY <1>2, <2>1, EventsAfter
  <2>3. tasks'[t].status = "Queued" /\ events'[j].kind = "task.queued"
    BY <1>2, <2>1, LifecycleEventFields DEF Created, lifecycle_kind
  <2>4. QED BY <2>2, <2>3
<1>3. CASE Moved(t)
  <2>1. CASE tasks'[t].status = "Running"
    <3>1. PICK j \in NewEvents : Logged(t, j) /\ events'[j] = LifecycleEvent(t, tasks'[t])
      BY <1>3 DEF Moved
    <3>2. EventsOf(t)' = EventsOf(t) \cup {j}
      BY <3>1, EventsAfter
    <3>3. events'[j].kind = "task.started"
      BY <2>1, <3>1, LifecycleEventFields DEF lifecycle_kind
    <3>4. t \in DOMAIN tasks /\ tasks[t].status = "Queued"
      BY <1>3, <2>1 DEF Moved, can_transition_to
    <3>5. \A i \in EventsOf(t) : events'[i].kind = "task.queued"
      BY <3>4, EventsAfter DEF LogMatchesStatus
    <3>6. QED BY <2>1, <3>2, <3>3, <3>5 DEF TerminalKinds, LifecycleKinds
  <2>2. CASE tasks'[t].status # "Running"
    BY <1>3, <2>2 DEF Moved, can_transition_to
  <2>3. QED BY <2>1, <2>2
<1>4. CASE Extended(t)
  <2>1. PICK j \in NewEvents : Logged(t, j) /\ events'[j] = PanelEvent(t)
    BY <1>4 DEF Extended
  <2>2. EventsOf(t)' = EventsOf(t) \cup {j}
    BY <2>1, EventsAfter
  <2>3. events'[j].kind \notin TerminalKinds
    BY <2>1 DEF PanelEvent, PanelKind, TerminalKinds, LifecycleKinds
  <2>4. t \in DOMAIN tasks /\ tasks[t].status = "Running" /\ tasks'[t].status = "Running"
    BY <1>4, ExtendedStatus DEF Extended
  <2>5. QED BY <2>2, <2>3, <2>4, EventsAfter DEF LogMatchesStatus
<1>5. QED BY <1>1, <1>2, <1>3, <1>4 DEF StepEffect

LEMMA LifecycleStep ==
  ASSUME TypeOK, StepEffect, LifecyclePayloadsConsistent, LogMatchesStatus,
         LogFollowsLifecycle
  PROVE  LogFollowsLifecycle'
\* What was logged of a task before its new event.
<1>1. ASSUME NEW j \in NewEvents
      PROVE  LET t == events'[j].task IN
             /\ \A i \in EventsOf(t) :
                  /\ events'[i].kind \notin TerminalKinds
                  /\ events'[j].kind # "task.queued"
                  /\ events'[j].kind = "task.started" => events'[i].kind = "task.queued"
             /\ events'[j].kind \in {PanelKind, "task.completed", "task.failed"} =>
                  \E i \in EventsOf(t) : events'[i].kind = "task.started"
  <2> DEFINE t == events'[j].task
  <2>1. t \in DOMAIN tasks' /\ Logged(t, j) /\ (Created(t) \/ Moved(t) \/ Extended(t))
    BY NewEvent
  <2>2. CASE Created(t)
    <3>1. EventsOf(t) = {}
      BY <2>1, <2>2, EventsAfter
    <3>2. events'[j].kind = "task.queued"
      BY <2>2, NewEventFields DEF Created, lifecycle_kind
    <3>3. QED BY <3>1, <3>2 DEF PanelKind
  <2>3. CASE Moved(t)
    <3>1. events'[j].kind = lifecycle_kind(tasks'[t].status)
      BY <2>3, NewEventFields
    <3>2. t \in DOMAIN tasks /\ can_transition_to(tasks[t].status, tasks'[t].status)
      BY <2>3 DEF Moved
    <3>3. \A i \in EventsOf(t) : events'[i] = events[i]
      BY <2>1, EventsAfter
    <3> HIDE DEF t
    <3>4. CASE tasks[t].status = "Queued"
      <4>1. \A i \in EventsOf(t) : events'[i].kind = "task.queued"
        BY <3>2, <3>3, <3>4 DEF LogMatchesStatus
      <4>2. events'[j].kind \in {"task.started", "task.cancelled", "task.interrupted"}
        BY <3>1, <3>2, <3>4 DEF can_transition_to, lifecycle_kind
      <4>3. QED BY <4>1, <4>2 DEF TerminalKinds, PanelKind, t
    <3>5. CASE tasks[t].status = "Running"
      <4>1. /\ \A i \in EventsOf(t) : events'[i].kind \notin TerminalKinds
            /\ \E i \in EventsOf(t) : events'[i].kind = "task.started"
        BY <3>2, <3>3, <3>5 DEF LogMatchesStatus
      <4>2. events'[j].kind \in {"task.completed", "task.failed",
                                 "task.cancelled", "task.interrupted"}
        BY <3>1, <3>2, <3>5 DEF can_transition_to, lifecycle_kind
      <4>3. QED BY <4>1, <4>2 DEF t
    <3>6. QED BY <3>2, <3>4, <3>5 DEF can_transition_to
  <2>4. CASE Extended(t)
    <3>1. events'[j].kind = PanelKind
      BY <2>4, NewEventFields
    <3>2. t \in DOMAIN tasks /\ tasks[t].status = "Running"
      BY <2>4 DEF Extended
    <3>3. /\ \A i \in EventsOf(t) : events'[i].kind \notin TerminalKinds
          /\ \E i \in EventsOf(t) : events'[i].kind = "task.started"
      BY <2>1, <3>2, EventsAfter DEF LogMatchesStatus
    <3>4. QED BY <3>1, <3>3 DEF PanelKind
  <2>5. QED BY <2>1, <2>2, <2>3, <2>4
<1>2. ASSUME NEW i \in DOMAIN events', NEW j \in DOMAIN events',
             i < j, events'[i].task = events'[j].task
      PROVE  /\ events'[i].kind \notin TerminalKinds
             /\ events'[j].kind # "task.queued"
             /\ events'[j].kind = "task.started" => events'[i].kind = "task.queued"
  <2>1. CASE j \in DOMAIN events
    <3>1. i \in DOMAIN events
      BY <1>2, <2>1, EffectBasics
    <3>2. QED BY <1>2, <2>1, <3>1 DEF StepEffect, LogFollowsLifecycle
  <2>2. CASE j \in NewEvents
    <3>1. Logged(events'[j].task, j)
      BY <2>2, NewEvent
    <3>2. i \in DOMAIN events
      <4>1. i \notin NewEvents
        BY <1>2, <3>1, EffectBasics DEF Logged
      <4>2. QED BY <4>1, EffectBasics
    <3>3. i \in EventsOf(events'[j].task)
      BY <1>2, <3>2 DEF StepEffect, EventsOf
    <3>4. QED BY <1>1, <2>2, <3>3
  <2>3. QED BY <2>1, <2>2, EffectBasics
<1>3. ASSUME NEW j \in DOMAIN events',
             events'[j].kind \in {PanelKind, "task.completed", "task.failed"}
      PROVE  \E i \in DOMAIN events' :
               i < j /\ events'[i].task = events'[j].task /\ events'[i].kind = "task.started"
  <2>1. CASE j \in DOMAIN events
    BY <1>3, <2>1 DEF StepEffect, LogFollowsLifecycle
  <2>2. CASE j \in NewEvents
    <3>1. PICK i \in EventsOf(events'[j].task) : events'[i].kind = "task.started"
      BY <1>1, <1>3, <2>2
    <3>2. i \in DOMAIN events /\ events[i].task = events'[j].task
      BY DEF EventsOf
    <3>3. i < j /\ i \in DOMAIN events' /\ events'[i] = events[i]
      BY <2>2, <3>2, EffectBasics DEF StepEffect
    <3>4. QED BY <3>1, <3>2, <3>3
  <2>3. QED BY <2>1, <2>2, EffectBasics
<1>4. QED BY <1>2, <1>3 DEF LogFollowsLifecycle

\* Stamping twice is stamping once; stamping with the id a row has changes nothing.
LEMMA StampedAgain ==
  ASSUME NEW row \in Task, NEW i \in Nat, NEW j \in Nat
  PROVE  /\ Stamped(Stamped(row, j), i) = Stamped(row, i)
         /\ row.last_event_id = i => Stamped(row, i) = row
  BY DEF Stamped, Task

LEMMA DescribesStep ==
  ASSUME TypeOK, StepEffect, LifecyclePayloadsConsistent, LogDescribesTable
  PROVE  LogDescribesTable'
<1> SUFFICES ASSUME NEW t \in DOMAIN tasks'
             PROVE  /\ IsLast(tasks'[t].last_event_id, EventsOf(t)')
                    /\ \E i \in LifecycleEventsOf(t)' :
                         /\ \A k \in LifecycleEventsOf(t)' : k <= i
                         /\ events'[i].snapshot = Stamped(tasks'[t], i)
  BY DEF LogDescribesTable, SnapshotsRow, IsLast
<1>1. tasks'[t] \in Task
  BY LenProperties, ElementOfSeq DEF StepEffect, TypeOK
<1>2. CASE Untouched(t)
  <2>1. /\ t \in DOMAIN tasks /\ tasks'[t] = tasks[t]
        /\ EventsOf(t)' = EventsOf(t)
        /\ \A i \in EventsOf(t) : events'[i] = events[i]
    BY <1>2, EventsAfter DEF Untouched
  <2>2. LifecycleEventsOf(t)' = LifecycleEventsOf(t)
    BY <2>1 DEF LifecycleEventsOf
  <2>3. QED
    BY <2>1, <2>2 DEF LogDescribesTable, SnapshotsRow, IsLast, LifecycleEventsOf
<1>3. ASSUME NEW j \in NewEvents, Logged(t, j)
      PROVE  /\ IsLast(j, EventsOf(t)') /\ tasks'[t].last_event_id = j
             /\ EventsOf(t)' = EventsOf(t) \cup {j}
             /\ \A i \in EventsOf(t) : i < j /\ events'[i] = events[i]
             /\ j \in Nat
  <2>1. EventsOf(t)' = EventsOf(t) \cup {j}
    BY <1>3, EventsAfter
  <2>2. \A i \in EventsOf(t) : i < j /\ i \in Nat
    BY EffectBasics DEF EventsOf
  <2>3. j \in Nat
    BY EffectBasics DEF NewEvents
  <2>4. QED BY <1>3, <2>1, <2>2, <2>3, EventsAfter DEF IsLast, Logged
<1>4. CASE Created(t) \/ Moved(t)
  <2>1. PICK j \in NewEvents : Logged(t, j) /\ events'[j] = LifecycleEvent(t, tasks'[t])
    BY <1>4 DEF Created, Moved
  <2>2. events'[j].snapshot = tasks'[t] /\ tasks'[t] # NoSnapshot
    BY <1>1, <2>1, LifecycleEventFields, SnapshotAssumption
  <2>3. j \in LifecycleEventsOf(t)'
    BY <1>3, <2>1, <2>2 DEF LifecycleEventsOf
  <2>4. \A k \in LifecycleEventsOf(t)' : k <= j
    BY <1>3, <2>1 DEF LifecycleEventsOf, IsLast
  <2>5. events'[j].snapshot = Stamped(tasks'[t], j)
    BY <1>1, <1>3, <2>1, <2>2, StampedAgain
  <2>6. QED BY <1>3, <2>1, <2>3, <2>4, <2>5
<1>5. CASE Extended(t)
  <2>1. PICK j \in NewEvents :
          Logged(t, j) /\ events'[j] = PanelEvent(t) /\ tasks'[t] = Stamped(tasks[t], j)
    BY <1>5 DEF Extended
  <2>2. t \in DOMAIN tasks /\ tasks[t] \in Task
    BY <1>5, Ids DEF Extended
  <2>3. events'[j].snapshot = NoSnapshot
    BY <2>1 DEF PanelEvent
  <2>4. LifecycleEventsOf(t)' = LifecycleEventsOf(t)
    BY <1>3, <2>1, <2>3 DEF LifecycleEventsOf
  <2>5. PICK i \in LifecycleEventsOf(t) :
          /\ \A k \in LifecycleEventsOf(t) : k <= i
          /\ events[i].snapshot = Stamped(tasks[t], i)
    BY <2>2 DEF LogDescribesTable, SnapshotsRow, IsLast
  <2>6. i \in EventsOf(t) /\ i \in Nat
    BY EffectBasics DEF LifecycleEventsOf, EventsOf
  <2>7. events'[i].snapshot = Stamped(tasks'[t], i)
    BY <1>3, <2>1, <2>2, <2>5, <2>6, StampedAgain
  <2>8. QED BY <1>3, <2>1, <2>4, <2>5, <2>7
<1>6. QED BY <1>2, <1>4, <1>5 DEF StepEffect

\* The invariant is inductive, whatever the requests, the failures and the bounds.
THEOREM StoreInvariant == Spec => []StoreInv
<1>1. Init => StoreInv
  <2> SUFFICES ASSUME Init
               PROVE  StoreInv
    OBVIOUS
  <2>1. TypeOK /\ DOMAIN tasks = {} /\ DOMAIN events = {}
    BY EmptySeq DEF Init, TypeOK
  <2>2. QED
    BY <2>1 DEF StoreInv, StoredTasksValid, RequestsNameOneTask, RetriesFormChains,
                LifecyclePayloadsConsistent, LogMatchesStatus, LogFollowsLifecycle,
                LogDescribesTable
<1>2. StoreInv /\ [Next]_vars => StoreInv'
  <2> SUFFICES ASSUME StoreInv, [Next]_vars
               PROVE  StoreInv'
    OBVIOUS
  <2>1. CASE UNCHANGED vars
    <3> SUFFICES ASSUME tasks' = tasks, events' = events
                 PROVE  StoreInv'
      BY <2>1 DEF vars
    <3>1. TypeOK'
      BY DEF StoreInv, TypeOK
    <3>2. StoredTasksValid' /\ RequestsNameOneTask'
      BY DEF StoreInv, StoredTasksValid, RequestsNameOneTask, try_from_stored
    <3>3. RetriesFormChains'
      BY DEF StoreInv, RetriesFormChains, RetryChildren
    <3>4. LifecyclePayloadsConsistent' /\ LogFollowsLifecycle'
      BY DEF StoreInv, LifecyclePayloadsConsistent, LogFollowsLifecycle
    <3>5. LogMatchesStatus'
      BY DEF StoreInv, LogMatchesStatus, EventsOf
    <3>6. LogDescribesTable'
      BY DEF StoreInv, LogDescribesTable, SnapshotsRow, LifecycleEventsOf, EventsOf, IsLast
    <3>7. QED BY <3>1, <3>2, <3>3, <3>4, <3>5, <3>6 DEF StoreInv
  <2>2. CASE StepEffect
    <3>1. TypeOK'
      BY <2>2 DEF StepEffect
    <3>2. StoredTasksValid' /\ RequestsNameOneTask' /\ RetriesFormChains'
      BY <2>2, StoredTasksStep, RequestsStep, ChainsStep DEF StoreInv
    <3>3. /\ LifecyclePayloadsConsistent' /\ LogMatchesStatus'
          /\ LogFollowsLifecycle' /\ LogDescribesTable'
      BY <2>2, PayloadsStep, MatchStep, LifecycleStep, DescribesStep DEF StoreInv
    <3>4. QED BY <3>1, <3>2, <3>3 DEF StoreInv
  <2>3. QED BY <2>1, <2>2, TransactionEffect DEF StoreInv
<1>3. QED BY <1>1, <1>2, PTL DEF Spec

\* Every row can be read back by Task::try_from_stored.
THEOREM StoredTasksReadable == Spec => []StoredTasksValid
<1>1. StoreInv => StoredTasksValid
  BY DEF StoreInv
<1>2. QED BY <1>1, StoreInvariant, PTL

\* A client request id names one task: create_task is idempotent.
THEOREM RequestsIdempotent == Spec => []RequestsNameOneTask
<1>1. StoreInv => RequestsNameOneTask
  BY DEF StoreInv
<1>2. QED BY <1>1, StoreInvariant, PTL

\* A finished task has at most one retry: retry_task is idempotent.
THEOREM RetriesIdempotent == Spec => []RetriesFormChains
<1>1. StoreInv => RetriesFormChains
  BY DEF StoreInv
<1>2. QED BY <1>1, StoreInvariant, PTL

\* Replaying the log of a task gives its row, and stops where the row stopped.
THEOREM LogIsFaithful ==
  Spec => [](LogDescribesTable /\ LifecyclePayloadsConsistent)
<1>1. StoreInv => LogDescribesTable /\ LifecyclePayloadsConsistent
  BY DEF StoreInv
<1>2. QED BY <1>1, StoreInvariant, PTL

\* The log of each task reads queued, started, panels, one final event, no more.
THEOREM LogIsOrdered == Spec => [](LogFollowsLifecycle /\ LogMatchesStatus)
<1>1. StoreInv => LogFollowsLifecycle /\ LogMatchesStatus
  BY DEF StoreInv
<1>2. QED BY <1>1, StoreInvariant, PTL

-----------------------------------------------------------------------------
(* TaskStore implements TaskTable: seen through TableRows, which forgets   *)
(* the log, the request ids, the attempts and the times, a transaction is  *)
(* one atomic step of the abstract table or no step at all.                *)

\* The row a reader of the abstract table sees.
AbstractRow(row) ==
  [status |-> row.status, failure |-> row.failure, retry_of |-> row.retry_of]

\* The instance speaks of the same states, failures and transitions.
LEMMA SameVocabulary ==
  /\ Table!TaskStatus = TaskStatus
  /\ Table!NoFailure = NoFailure
  /\ Table!NoTask = NoTask
  /\ Table!TaskTransition = TaskTransition
  /\ \A a, b : Table!can_transition_to(a, b) <=> can_transition_to(a, b)
  /\ \A a : Table!is_retryable(a) <=> is_retryable(a)
  /\ \A a : Table!Incomplete(a) <=> Incomplete(a)
  BY DEF Table!TaskStatus, TaskStatus, Table!NoFailure, NoFailure, Table!NoTask, NoTask,
         Table!TaskTransition, TaskTransition, Table!can_transition_to, can_transition_to,
         Table!is_retryable, is_retryable, Table!Incomplete, Incomplete

\* TableRows has one row for each task.
LEMMA RowsOfTasks ==
  ASSUME TypeOK
  PROVE  /\ TableRows \in Seq(Table!Row)
         /\ Len(TableRows) = Len(tasks)
         /\ DOMAIN TableRows = DOMAIN tasks
         /\ \A t \in DOMAIN tasks : TableRows[t] = AbstractRow(tasks[t])
<1>1. DOMAIN tasks = 1..Len(tasks) /\ Len(tasks) \in Nat
  BY Ids
<1>2. \A t \in DOMAIN tasks : TableRows[t] = AbstractRow(tasks[t])
  BY DEF TableRows, AbstractRow
<1>3. \A t \in DOMAIN tasks : AbstractRow(tasks[t]) \in Table!Row
  BY Ids, SameVocabulary DEF AbstractRow, Task, Table!Row
<1>4. TableRows \in [1..Len(tasks) -> Table!Row]
  BY <1>1, <1>2, <1>3 DEF TableRows
<1>5. QED BY <1>1, <1>2, <1>4, SeqDef

\* A row that is created is appended to the abstract table.
LEMMA InsertMaps ==
  ASSUME TypeOK, TypeOK', NEW row \in Task, InsertQueued(row),
         row.status = "Queued", row.failure = NoFailure
  PROVE  /\ TableRows' = Append(TableRows, Table!NewRow(row.retry_of))
         /\ Len(TableRows) < MaxTasks
<1> DEFINE id == Len(events) + 1
           new == Stamped(row, id)
<1>1. /\ tasks' = Append(tasks, new) /\ Len(tasks) < MaxTasks /\ id \in Nat
      /\ Len(tasks) \in Nat
  BY Ids DEF InsertQueued
<1> HIDE DEF id
<1>2. new \in Task /\ AbstractRow(new) = Table!NewRow(row.retry_of)
  BY <1>1, StampedRow, SameVocabulary DEF AbstractRow, Table!NewRow, SameTask
<1> HIDE DEF new
<1>3. /\ DOMAIN tasks' = 1..(Len(tasks) + 1) /\ DOMAIN tasks = 1..Len(tasks)
      /\ \A t \in 1..Len(tasks) : tasks'[t] = tasks[t]
      /\ tasks'[Len(tasks) + 1] = new
  BY <1>1, <1>2, Appended DEF TypeOK
<1>4. TableRows' = [t \in 1..(Len(tasks) + 1) |-> AbstractRow(tasks'[t])]
  BY <1>3 DEF TableRows, AbstractRow
<1> DEFINE appended == Append(TableRows, Table!NewRow(row.retry_of))
<1>5. AbstractRow(new) \in Table!Row
  BY <1>2, SameVocabulary DEF AbstractRow, Table!Row, Task
<1>6. /\ appended \in Seq(Table!Row)
      /\ Len(appended) = Len(tasks) + 1
      /\ \A t \in 1..Len(tasks) : appended[t] = AbstractRow(tasks[t])
      /\ appended[Len(tasks) + 1] = AbstractRow(new)
  BY <1>2, <1>3, <1>5, RowsOfTasks, Appended
<1> HIDE DEF appended
<1>7. \A t \in 1..(Len(tasks) + 1) : appended[t] = AbstractRow(tasks'[t])
  BY <1>1, <1>3, <1>6
<1>8. appended = [t \in 1..(Len(tasks) + 1) |-> AbstractRow(tasks'[t])]
  BY <1>6, <1>7, LenProperties
<1>9. QED BY <1>1, <1>4, <1>8, RowsOfTasks DEF appended

\* A row that is updated is updated in the abstract table.
LEMMA UpdateMaps ==
  ASSUME TypeOK, NEW t \in DOMAIN tasks, NEW row \in Task,
         tasks' = [tasks EXCEPT ![t] = row], row.retry_of = tasks[t].retry_of
  PROVE  TableRows' = [TableRows EXCEPT ![t] = Table!Moved(@, row.status, row.failure)]
<1>1. /\ DOMAIN tasks' = DOMAIN tasks
      /\ tasks'[t] = row
      /\ \A u \in DOMAIN tasks : u # t => tasks'[u] = tasks[u]
  BY DEF TypeOK
<1>2. TableRows' = [u \in DOMAIN tasks |-> AbstractRow(tasks'[u])]
  BY <1>1 DEF TableRows, AbstractRow
<1>3. Table!Moved(TableRows[t], row.status, row.failure) = AbstractRow(row)
  BY RowsOfTasks DEF AbstractRow, Table!Moved
<1>4. [TableRows EXCEPT ![t] = Table!Moved(@, row.status, row.failure)]
        = [u \in DOMAIN tasks |-> IF u = t THEN AbstractRow(row) ELSE TableRows[u]]
  BY <1>3, RowsOfTasks
<1>5. QED BY <1>1, <1>2, <1>4, RowsOfTasks

\* A panel event moves last_event_id alone, which the abstract table has not.
LEMMA PanelMaps ==
  ASSUME TypeOK, NEW t \in DOMAIN tasks,
         tasks' = [tasks EXCEPT ![t].last_event_id = Len(events) + 1]
  PROVE  TableRows' = TableRows
<1>1. /\ DOMAIN tasks' = DOMAIN tasks
      /\ tasks'[t] = [tasks[t] EXCEPT !.last_event_id = Len(events) + 1]
      /\ \A u \in DOMAIN tasks : u # t => tasks'[u] = tasks[u]
  BY DEF TypeOK
<1>2. /\ tasks'[t].status = tasks[t].status
      /\ tasks'[t].failure = tasks[t].failure
      /\ tasks'[t].retry_of = tasks[t].retry_of
  BY <1>1, Ids DEF Task
<1>3. \A u \in DOMAIN tasks : /\ tasks'[u].status = tasks[u].status
                             /\ tasks'[u].failure = tasks[u].failure
                             /\ tasks'[u].retry_of = tasks[u].retry_of
  BY <1>1, <1>2
<1>4. QED BY <1>1, <1>3 DEF TableRows

\* Recovery interrupts the same rows of the abstract table.
LEMMA RecoveryMaps ==
  ASSUME TypeOK, NEW failure \in Failures, recover_incomplete(failure)
  PROVE  Table!RecoverRows(failure)
<1> DEFINE interrupted == [next |-> "Interrupted", failure |-> failure]
<1>1. PICK o \in Listings(IncompleteTasks) :
        tasks' = [t \in DOMAIN tasks |->
                    IF Incomplete(tasks[t].status)
                      THEN RecoveredRow(t, failure, Len(events) + Place(o, t))
                      ELSE tasks[t]]
  BY DEF recover_incomplete
<1>2. DOMAIN tasks' = DOMAIN tasks
  BY <1>1
<1>3. ASSUME NEW t \in DOMAIN tasks
      PROVE  AbstractRow(tasks'[t]) = Table!Interrupted(AbstractRow(tasks[t]), failure)
  <2>1. AbstractRow(tasks[t]).status = tasks[t].status
    BY DEF AbstractRow
  <2>2. CASE Incomplete(tasks[t].status)
    <3> DEFINE moved == UpdatedRow(tasks[t], interrupted)
    <3>1. tasks'[t] = Stamped(moved, Len(events) + Place(o, t))
      BY <1>1, <2>2 DEF RecoveredRow
    <3>2. /\ moved.status = "Interrupted" /\ moved.failure = failure
          /\ moved.retry_of = tasks[t].retry_of /\ moved \in Task
      BY Ids, ZenonT(40) DEF UpdatedRow, Task, TaskStatus
    <3>3. /\ tasks'[t].status = "Interrupted" /\ tasks'[t].failure = failure
          /\ tasks'[t].retry_of = tasks[t].retry_of
      BY <3>1, <3>2 DEF Stamped, Task
    <3>4. Table!Interrupted(AbstractRow(tasks[t]), failure)
            = Table!Moved(AbstractRow(tasks[t]), "Interrupted", failure)
      BY <2>1, <2>2, SameVocabulary DEF Table!Interrupted
    <3>5. QED BY <3>3, <3>4 DEF AbstractRow, Table!Moved
  <2>3. CASE ~Incomplete(tasks[t].status)
    BY <1>1, <2>1, <2>3, SameVocabulary DEF Table!Interrupted
  <2>4. QED BY <2>2, <2>3
<1>4. TableRows' = [t \in DOMAIN tasks |-> AbstractRow(tasks'[t])]
  BY <1>2 DEF TableRows, AbstractRow
<1>5. TableRows' = [t \in DOMAIN TableRows |-> Table!Interrupted(TableRows[t], failure)]
  BY <1>3, <1>4, RowsOfTasks
<1>6. QED BY <1>5 DEF Table!RecoverRows

\* Each transaction is one step of the abstract table or none.
THEOREM TransactionRefines ==
  ASSUME TypeOK, TypeOK', Next
  PROVE  Table!TableNext \/ UNCHANGED TableRows
<1>1. CASE \E request \in Requests, input \in Inputs : create_task(request, input)
  <2>1. PICK request \in Requests, input \in Inputs : create_task(request, input)
    BY <1>1
  <2> DEFINE row == QueuedRow(request, input, 1, NoTask)
  <2>2. CASE UNCHANGED vars
    BY <2>2 DEF vars, TableRows
  <2>3. CASE InsertQueued(row)
    <3>1. /\ row \in Task /\ row.status = "Queued" /\ row.failure = NoFailure
          /\ row.retry_of = Table!NoTask
      BY StoreAssumption, SameVocabulary DEF QueuedRow, Task, TaskStatus, NoTask
    <3> HIDE DEF row
    <3>2. Table!InsertTask
      BY <2>3, <3>1, InsertMaps, RowsOfTasks DEF Table!InsertTask
    <3>3. QED BY <3>2 DEF Table!TableNext
  <2>4. QED BY <2>1, <2>2, <2>3 DEF create_task
<1>2. CASE \E source \in DOMAIN tasks : retry_task(source)
  <2>1. PICK source \in DOMAIN tasks : retry_task(source)
    BY <1>2
  <2> DEFINE row == QueuedRow(OwnRequest, tasks[source].input,
                              tasks[source].attempt + 1, source)
  <2>2. CASE UNCHANGED vars
    BY <2>2 DEF vars, TableRows
  <2>3. CASE /\ is_retryable(tasks[source].status) /\ RetryChildren(source) = {}
             /\ tasks[source].attempt < MaxAttempt /\ InsertQueued(row)
    <3>1. tasks[source] \in Task /\ source \in Nat
      BY Ids
    <3>2. tasks[source].input \in Inputs /\ tasks[source].attempt + 1 \in 1..MaxAttempt
      BY <2>3, <3>1, StoreAssumption DEF Task
    <3>3. /\ row \in Task /\ row.status = "Queued" /\ row.failure = NoFailure
          /\ row.retry_of = source
      BY <3>1, <3>2 DEF QueuedRow, Task, TaskStatus
    <3> HIDE DEF row
    <3>4. ~Table!HasRetryChild(source)
      BY <2>3, RowsOfTasks DEF Table!HasRetryChild, RetryChildren, AbstractRow
    <3>5. source \in DOMAIN TableRows /\ Table!is_retryable(TableRows[source].status)
      BY <2>3, RowsOfTasks, SameVocabulary DEF AbstractRow
    <3>6. Table!InsertRetry(source)
      BY <2>3, <3>3, <3>4, <3>5, InsertMaps DEF Table!InsertRetry
    <3>7. QED BY <3>5, <3>6 DEF Table!TableNext
  <2>4. QED BY <2>1, <2>2, <2>3 DEF retry_task
<1>3. CASE \E t \in DOMAIN tasks, expected \in TaskStatus, transition \in TaskTransition :
             transition_with_event(t, expected, transition)
  <2>1. PICK t \in DOMAIN tasks, expected \in TaskStatus, transition \in TaskTransition :
          transition_with_event(t, expected, transition)
    BY <1>3
  <2> DEFINE row == UpdatedRow(tasks[t], transition)
             new == Stamped(row, Len(events) + 1)
  <2>2. CASE UNCHANGED vars
    BY <2>2 DEF vars, TableRows
  <2>3. CASE /\ can_transition_to(expected, transition.next)
             /\ tasks[t].status = expected
             /\ tasks' = [tasks EXCEPT ![t] = new]
    <3>1. /\ row \in Task /\ row.status = transition.next
          /\ row.retry_of = tasks[t].retry_of
      BY MovedRow, Ids DEF SameTask
    <3>2. row.failure = transition.failure
      BY Ids, TransitionFields DEF UpdatedRow, Task
    <3> HIDE DEF row
    <3>3. /\ new \in Task /\ new.status = transition.next
          /\ new.failure = transition.failure /\ new.retry_of = tasks[t].retry_of
      BY <3>1, <3>2, Ids, StampedRow DEF Stamped, Task
    <3> HIDE DEF new
    <3>4. TableRows' = [TableRows EXCEPT
                          ![t] = Table!Moved(@, transition.next, transition.failure)]
      BY <2>3, <3>3, UpdateMaps
    <3>5. Table!ApplyTransition(t, expected, transition)
      BY <2>3, <3>4, RowsOfTasks, SameVocabulary DEF Table!ApplyTransition, AbstractRow
    <3>6. QED BY <3>5, RowsOfTasks, SameVocabulary DEF Table!TableNext
  <2>4. QED BY <2>1, <2>2, <2>3 DEF transition_with_event
<1>4. CASE \E t \in DOMAIN tasks : append_running_event(t)
  <2>1. PICK t \in DOMAIN tasks : append_running_event(t)
    BY <1>4
  <2>2. CASE UNCHANGED vars
    BY <2>2 DEF vars, TableRows
  <2>3. QED BY <2>1, <2>2, PanelMaps DEF append_running_event
<1>5. CASE \E failure \in Failures : recover_incomplete(failure)
  BY <1>5, RecoveryMaps DEF Table!TableNext
<1>6. QED BY <1>1, <1>2, <1>3, <1>4, <1>5 DEF Next

\* The store implements the abstract table: whatever the callers do, the rows
\* move only as TaskTable lets them (tasks.rs against TaskStatus in task.rs).
THEOREM StoreImplementsTable == Spec => ImplementsTaskTable
<1>1. Init => Table!TableInit
  <2> SUFFICES ASSUME Init
               PROVE  TableRows = << >>
    BY DEF Table!TableInit
  <2>1. TypeOK /\ tasks = << >>
    BY EmptySeq DEF Init, TypeOK
  <2>2. TableRows \in Seq(Table!Row) /\ Len(TableRows) = 0
    BY <2>1, RowsOfTasks
  <2>3. QED BY <2>2, EmptySeq
<1>2. TypeOK /\ TypeOK' /\ [Next]_vars => [Table!TableNext]_TableRows
  BY TransactionRefines DEF vars, TableRows
<1>3. QED
  BY <1>1, <1>2, StoreTypeCorrect, PTL DEF Spec, ImplementsTaskTable, Table!TableSpec

=============================================================================
