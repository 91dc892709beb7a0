------------------------- MODULE BrowserStateProofs -------------------------
(* The browser's screen is never behind the events it has applied, for any     *)
(* tasks, calls, events and selections.                                        *)
EXTENDS BrowserState, TLAPS

Lifecycle(t, n) == {i \in EventsOf(t, n) : isLifecycleEvent(i)}

HasLast(S) == \E m \in S : \A k \in S : k <= m

\* What the transactions of the store make of the log: the events of a task begin with
\* one of its lifecycle, and nothing follows its end.
LogInv ==
  /\ log \in Seq([task : Tasks, change : Changes])
  /\ \A t \in Tasks, n \in 0..Len(log) :
       EventsOf(t, n) # {} => HasLast(EventsOf(t, n)) /\ HasLast(Lifecycle(t, n))
  /\ \A i, j \in 1..Len(log) :
       log[i].task = log[j].task /\ i < j => ~is_retryable(log[i].change)

-----------------------------------------------------------------------------
(* Rows as a function of the log.                                            *)

\* Max of the community modules, where the greatest element is known.
LEMMA MaxIs ==
  ASSUME NEW S \in SUBSET Nat, NEW m \in S, \A k \in S : k <= m
  PROVE  Max(S) = m
<1>1. \A y \in S : m >= y
  OBVIOUS
<1>2. \A x \in S : (\A y \in S : x >= y) => x = m
  <2>1. SUFFICES ASSUME NEW x \in S, x >= m
                 PROVE  x = m
    OBVIOUS
  <2> QED
    BY <1>1, <2>1
<1> QED
  BY <1>1, <1>2 DEF Max

\* An event is of a task and of one of the kinds of change.
LEMMA EventTypes ==
  ASSUME LogInv, NEW i \in 1..Len(log)
  PROVE  log[i].task \in Tasks /\ log[i].change \in Changes
<1> DEFINE Event == [task : Tasks, change : Changes]
<1>1. log \in Seq(Event)
  BY DEF LogInv
<1> HIDE DEF Event
<1>2. log[i] \in Event
  BY <1>1
<1> QED
  BY <1>2 DEF Event

\* The row of a task with events shows its last lifecycle event and names its last event.
LEMMA RowOfEvents ==
  ASSUME LogInv, NEW t \in Tasks, NEW n \in 0..Len(log), EventsOf(t, n) # {}
  PROVE  \E l \in Lifecycle(t, n), m \in EventsOf(t, n) :
           /\ \A k \in Lifecycle(t, n) : k <= l
           /\ \A k \in EventsOf(t, n) : k <= m
           /\ RowAt(t, n) = [status |-> log[l].change, last |-> m]
<1>1. PICK m \in EventsOf(t, n) : \A k \in EventsOf(t, n) : k <= m
  BY DEF LogInv, HasLast
<1>2. PICK l \in Lifecycle(t, n) : \A k \in Lifecycle(t, n) : k <= l
  BY DEF LogInv, HasLast
<1>3. EventsOf(t, n) \in SUBSET Nat /\ Lifecycle(t, n) \in SUBSET Nat
  BY DEF EventsOf, Lifecycle
<1>4. Max(EventsOf(t, n)) = m /\ Max(Lifecycle(t, n)) = l
  BY <1>1, <1>2, <1>3, MaxIs
<1>5. RowAt(t, n) = [status |-> log[l].change, last |-> m]
  BY <1>4 DEF RowAt, Lifecycle
<1> QED
  BY <1>1, <1>2, <1>5

\* A task without events has no row, and a row that is there names an event.
LEMMA RowOrNone ==
  ASSUME LogInv, NEW t \in Tasks, NEW n \in 0..Len(log)
  PROVE  /\ EventsOf(t, n) = {} => RowAt(t, n) = NoRow
         /\ EventsOf(t, n) # {} => /\ RowAt(t, n) # NoRow
                                   /\ RowAt(t, n).last \in EventsOf(t, n)
                                   /\ \A k \in EventsOf(t, n) : k <= RowAt(t, n).last
         /\ RowAt(t, n).last \in 0..n
<1>1. CASE EventsOf(t, n) = {}
  BY <1>1 DEF RowAt, NoRow
<1>2. CASE EventsOf(t, n) # {}
  <2>1. PICK l \in Lifecycle(t, n), m \in EventsOf(t, n) :
          /\ \A k \in EventsOf(t, n) : k <= m
          /\ RowAt(t, n) = [status |-> log[l].change, last |-> m]
    BY <1>2, RowOfEvents
  <2>2. RowAt(t, n).last = m
    BY <2>1
  <2>3. m \in 1..n
    BY DEF EventsOf
  <2> QED
    BY <1>2, <2>1, <2>2, <2>3 DEF NoRow
<1> QED
  BY <1>1, <1>2

\* Between two places without an event of the task its row is the same.
LEMMA QuietRow ==
  ASSUME LogInv, NEW t \in Tasks, NEW n \in 0..Len(log), NEW m \in 0..Len(log), n <= m,
         \A i \in 1..Len(log) : n < i /\ i <= m => log[i].task # t
  PROVE  EventsOf(t, m) = EventsOf(t, n) /\ RowAt(t, m) = RowAt(t, n)
<1>1. EventsOf(t, m) = EventsOf(t, n)
  BY DEF EventsOf, LogInv
<1> QED
  BY <1>1 DEF RowAt

\* A row that names no later event is not newer.
LEMMA LastDecides ==
  ASSUME LogInv, NEW t \in Tasks, NEW n \in 0..Len(log), NEW m \in 0..Len(log), n <= m,
         RowAt(t, m).last <= RowAt(t, n).last
  PROVE  RowAt(t, m) = RowAt(t, n)
<1>1. SUFFICES ASSUME NEW i \in 1..Len(log), n < i, i <= m, log[i].task = t
               PROVE  FALSE
  BY QuietRow
<1>2. i \in EventsOf(t, m)
  BY <1>1 DEF EventsOf
<1>3. i <= RowAt(t, m).last /\ RowAt(t, m).last \in 0..m /\ RowAt(t, n).last \in 0..n
  BY <1>2, RowOrNone
<1> QED
  BY <1>1, <1>3 DEF LogInv

\* A later row never names an earlier event.
LEMMA LastGrows ==
  ASSUME LogInv, NEW t \in Tasks, NEW n \in 0..Len(log), NEW m \in 0..Len(log), n <= m
  PROVE  RowAt(t, n).last <= RowAt(t, m).last
<1>1. CASE EventsOf(t, n) = {}
  <2>1. RowAt(t, n).last = 0 /\ RowAt(t, m).last \in 0..m
    BY <1>1, RowOrNone DEF NoRow
  <2> QED
    BY <2>1
<1>2. CASE EventsOf(t, n) # {}
  <2>1. RowAt(t, n).last \in EventsOf(t, n)
    BY <1>2, RowOrNone
  <2>2. EventsOf(t, n) \subseteq EventsOf(t, m)
    BY DEF EventsOf, LogInv
  <2> QED
    BY <2>1, <2>2, RowOrNone
<1> QED
  BY <1>1, <1>2

\* A finished task keeps its row.
LEMMA FinishedStays ==
  ASSUME LogInv, NEW t \in Tasks, NEW n \in 0..Len(log), NEW m \in 0..Len(log), n <= m,
         is_retryable(RowAt(t, n).status)
  PROVE  RowAt(t, m) = RowAt(t, n) /\ EventsOf(t, m) = EventsOf(t, n)
<1>1. EventsOf(t, n) # {}
  BY RowOrNone DEF NoRow, is_retryable
<1>2. PICK l \in Lifecycle(t, n), k \in EventsOf(t, n) :
        RowAt(t, n) = [status |-> log[l].change, last |-> k]
  BY <1>1, RowOfEvents
<1>3. is_retryable(log[l].change) /\ l \in 1..n /\ log[l].task = t
  BY <1>2 DEF Lifecycle, EventsOf
<1>4. SUFFICES ASSUME NEW i \in 1..Len(log), n < i, i <= m, log[i].task = t
               PROVE  FALSE
  BY QuietRow
<1>5. l \in 1..Len(log) /\ l < i
  BY <1>3, <1>4 DEF LogInv
<1> QED
  BY <1>3, <1>4, <1>5 DEF LogInv

\* What one more event does to the row of its task.
LEMMA NextEvent ==
  ASSUME LogInv, NEW i \in 1..Len(log), NEW t \in Tasks, log[i].task = t
  PROVE  /\ EventsOf(t, i) = EventsOf(t, i - 1) \cup {i}
         /\ isLifecycleEvent(i) => RowAt(t, i) = PayloadRow(i)
         /\ ~isLifecycleEvent(i) =>
              /\ EventsOf(t, i - 1) # {}
              /\ RowAt(t, i) = [status |-> RowAt(t, i - 1).status, last |-> i]
<1>0. i - 1 \in 0..Len(log) /\ i \in 0..Len(log)
  BY DEF LogInv
<1>1. EventsOf(t, i) = EventsOf(t, i - 1) \cup {i}
  BY DEF EventsOf, LogInv
<1>2. PICK l \in Lifecycle(t, i), m \in EventsOf(t, i) :
        /\ \A k \in Lifecycle(t, i) : k <= l
        /\ \A k \in EventsOf(t, i) : k <= m
        /\ RowAt(t, i) = [status |-> log[l].change, last |-> m]
  BY <1>0, <1>1, RowOfEvents
<1>3. m = i /\ l \in 1..i
  BY <1>1, <1>2 DEF EventsOf, Lifecycle
<1>4. CASE isLifecycleEvent(i)
  <2>1. l = i
    BY <1>1, <1>2, <1>3, <1>4 DEF Lifecycle
  <2> QED
    BY <1>1, <1>2, <1>3, <1>4, <2>1 DEF PayloadRow
<1>5. CASE ~isLifecycleEvent(i)
  <2>1. Lifecycle(t, i) = Lifecycle(t, i - 1)
    BY <1>1, <1>5 DEF Lifecycle
  <2>2. EventsOf(t, i - 1) # {}
    BY <1>2, <2>1 DEF Lifecycle
  <2>3. PICK l2 \in Lifecycle(t, i - 1), m2 \in EventsOf(t, i - 1) :
          /\ \A k \in Lifecycle(t, i - 1) : k <= l2
          /\ RowAt(t, i - 1) = [status |-> log[l2].change, last |-> m2]
    BY <1>0, <2>2, RowOfEvents
  <2>4. l \in Nat /\ l2 \in Nat
    BY DEF Lifecycle, EventsOf
  <2>5. l = l2
    BY <1>2, <2>1, <2>3, <2>4
  <2> QED
    BY <1>1, <1>2, <1>3, <1>5, <2>2, <2>3, <2>5
<1> QED
  BY <1>4, <1>5

-----------------------------------------------------------------------------
(* The log grows.                                                            *)

\* What is in the log stays there.
LogExtends ==
  /\ LogInv'
  /\ Len(log) <= Len(log')
  /\ \A i \in 1..Len(log) : log'[i] = log[i]

\* The store's answers about earlier places do not change.
LEMMA OldRowsStay ==
  ASSUME LogInv, LogExtends, NEW t \in Tasks, NEW n \in 0..Len(log)
  PROVE  EventsOf(t, n)' = EventsOf(t, n) /\ RowAt(t, n)' = RowAt(t, n)
<1>1. n \in Nat /\ \A i \in 1..n : i \in 1..Len(log)
  BY DEF LogInv
<1>2. EventsOf(t, n)' = EventsOf(t, n)
  BY <1>1 DEF EventsOf, LogExtends
<1>3. \A i \in EventsOf(t, n) : log'[i] = log[i]
  BY <1>1 DEF EventsOf, LogExtends
<1>4. Lifecycle(t, n)' = Lifecycle(t, n)
  BY <1>2, <1>3 DEF Lifecycle, isLifecycleEvent
<1>5. CASE EventsOf(t, n) = {}
  BY <1>2, <1>5 DEF RowAt
<1>6. CASE EventsOf(t, n) # {}
  <2>1. PICK l \in Lifecycle(t, n) : \A k \in Lifecycle(t, n) : k <= l
    BY <1>6 DEF LogInv, HasLast
  <2>2. Lifecycle(t, n) \in SUBSET Nat
    BY DEF Lifecycle, EventsOf
  <2>3. Max(Lifecycle(t, n)) = l
    BY <2>1, <2>2, MaxIs
  <2>4. RowAt(t, n) = [status |-> log[l].change, last |-> Max(EventsOf(t, n))]
    BY <1>6, <2>3 DEF RowAt, Lifecycle
  <2>5. RowAt(t, n)' = [status |-> log'[l].change, last |-> Max(EventsOf(t, n))]
    <3>1. Max(Lifecycle(t, n)') = l
      BY <1>4, <2>3
    <3> QED
      BY <1>2, <1>6, <3>1 DEF RowAt, Lifecycle
  <2> QED
    BY <1>2, <1>3, <2>4, <2>5 DEF Lifecycle
<1> QED
  BY <1>2, <1>5, <1>6

\* An event is appended that may follow those of its task.
LEMMA LogGrows ==
  ASSUME LogInv, NEW u \in Tasks, NEW change \in Changes, Appends(u, change),
         change = PanelKind => EventsOf(u, Len(log)) # {},
         \A i \in 1..Len(log) : log[i].task = u => ~is_retryable(log[i].change)
  PROVE  LogExtends
<1>0. SUFFICES ASSUME NEW old \in Nat, old = Len(log), NEW new \in Nat, new = old + 1
               PROVE  LogExtends
  BY DEF LogInv
<1>1. /\ log' \in Seq([task : Tasks, change : Changes]) /\ Len(log') = new
      /\ \A i \in 1..old : log'[i] = log[i]
      /\ log'[new] = [task |-> u, change |-> change]
  BY <1>0 DEF LogInv, Appends
<1>2. ASSUME NEW i \in 1..Len(log'), NEW j \in 1..Len(log'),
             log'[i].task = log'[j].task, i < j
      PROVE  ~is_retryable(log'[i].change)
  <2>1. i \in 1..old
    BY <1>0, <1>1, <1>2
  <2>2. CASE j = new
    BY <1>0, <1>1, <1>2, <2>1, <2>2
  <2>3. CASE j \in 1..old
    BY <1>0, <1>1, <1>2, <2>1, <2>3 DEF LogInv
  <2> QED
    BY <1>0, <1>1, <2>2, <2>3
<1>3. ASSUME NEW t \in Tasks, NEW n \in 0..old
      PROVE  EventsOf(t, n)' = EventsOf(t, n) /\ Lifecycle(t, n)' = Lifecycle(t, n)
  <2>1. EventsOf(t, n)' = EventsOf(t, n)
    BY <1>1, <1>3 DEF EventsOf
  <2>2. \A i \in EventsOf(t, n) : log'[i] = log[i]
    BY <1>1, <1>3 DEF EventsOf
  <2> QED
    BY <2>1, <2>2 DEF Lifecycle, isLifecycleEvent
<1>4. ASSUME NEW t \in Tasks, EventsOf(t, new)' # {}
      PROVE  HasLast(EventsOf(t, new)') /\ HasLast(Lifecycle(t, new)')
  <2>0. EventsOf(t, old) # {} => HasLast(EventsOf(t, old)) /\ HasLast(Lifecycle(t, old))
    BY <1>0 DEF LogInv
  <2>1. CASE t # u
    <3>1. EventsOf(t, new)' = EventsOf(t, old)'
      BY <1>0, <1>1, <2>1 DEF EventsOf
    <3>2. Lifecycle(t, new)' = Lifecycle(t, old)'
      BY <3>1 DEF Lifecycle
    <3> QED
      BY <1>3, <1>4, <2>0, <3>1, <3>2
  <2>2. CASE t = u
    <3>1. EventsOf(t, new)' = EventsOf(t, old) \cup {new}
      <4>1. EventsOf(t, new)' = EventsOf(t, old)' \cup {new}
        BY <1>0, <1>1, <2>2 DEF EventsOf
      <4> QED
        BY <1>3, <4>1
    <3>2. HasLast(EventsOf(t, new)')
      BY <1>0, <3>1 DEF HasLast, EventsOf
    <3>3. \A i \in EventsOf(t, old) : log'[i] = log[i]
      BY <1>1 DEF EventsOf
    <3>4. CASE change # PanelKind
      <4>1. new \in Lifecycle(t, new)'
        BY <1>1, <3>1, <3>4 DEF Lifecycle, isLifecycleEvent
      <4>2. \A k \in Lifecycle(t, new)' : k <= new
        BY <1>0, <3>1 DEF Lifecycle, EventsOf
      <4> QED
        BY <3>2, <4>1, <4>2 DEF HasLast
    <3>5. CASE change = PanelKind
      <4>1. Lifecycle(t, new)' = Lifecycle(t, old)
        BY <1>1, <3>1, <3>3, <3>5 DEF Lifecycle, isLifecycleEvent
      <4>2. HasLast(Lifecycle(t, old))
        BY <1>0, <2>0, <2>2, <3>5
      <4> QED
        BY <3>2, <4>1, <4>2
    <3> QED
      BY <3>4, <3>5
  <2> QED
    BY <2>1, <2>2
<1>5. ASSUME NEW t \in Tasks, NEW n \in 0..Len(log'), EventsOf(t, n)' # {}
      PROVE  HasLast(EventsOf(t, n)') /\ HasLast(Lifecycle(t, n)')
  <2>1. CASE n \in 0..old
    BY <1>0, <1>3, <1>5, <2>1 DEF LogInv
  <2>2. CASE n = new
    BY <1>4, <1>5, <2>2
  <2> QED
    BY <1>0, <1>1, <1>5, <2>1, <2>2
<1>6. LogInv'
  BY <1>1, <1>2, <1>5 DEF LogInv
<1> QED
  BY <1>0, <1>1, <1>6 DEF LogExtends

\* A task that is not over has no event that ends it.
LEMMA NotOver ==
  ASSUME LogInv, NEW t \in Tasks, ~is_retryable(Now(t).status)
  PROVE  /\ \A i \in 1..Len(log) : log[i].task = t => ~is_retryable(log[i].change)
         /\ Now(t).status # "none" => EventsOf(t, Len(log)) # {}
<1>0. Len(log) \in 0..Len(log)
  BY DEF LogInv
<1>1. Now(t).status # "none" => EventsOf(t, Len(log)) # {}
  BY <1>0, RowOrNone DEF Now, NoRow
<1>2. ASSUME NEW i \in 1..Len(log), log[i].task = t, is_retryable(log[i].change)
      PROVE  FALSE
  <2>1. isLifecycleEvent(i)
    BY <1>2 DEF isLifecycleEvent, is_retryable, PanelKind
  <2>2. RowAt(t, i) = PayloadRow(i)
    BY <1>2, <2>1, NextEvent
  <2>3. i \in 0..Len(log) /\ i <= Len(log)
    BY <1>0, <1>2 DEF LogInv
  <2>4. is_retryable(RowAt(t, i).status)
    BY <1>2, <2>2 DEF PayloadRow
  <2>5. RowAt(t, Len(log)) = RowAt(t, i)
    BY <1>0, <2>3, <2>4, FinishedStays
  <2> QED
    BY <2>4, <2>5 DEF Now
<1> QED
  BY <1>1, <1>2

\* A commit only appends what may follow.
LEMMA CommitExtends ==
  ASSUME LogInv, NEW t \in Tasks, Commit(t)
  PROVE  LogExtends
<1>1. PICK change \in Changes :
        /\ \/ Now(t).status = "none" /\ change = "Queued"
           \/ can_transition_to(Now(t).status, change)
           \/ Now(t).status = "Running" /\ change = PanelKind
        /\ Appends(t, change)
  BY DEF Commit
<1>2. ~is_retryable(Now(t).status)
  BY <1>1 DEF can_transition_to, is_retryable
<1>3. change = PanelKind => Now(t).status # "none"
  BY <1>1 DEF can_transition_to, PanelKind
<1> QED
  BY <1>1, <1>2, <1>3, NotOver, LogGrows

\* So does a request that the server carries out.
LEMMA ServeExtends ==
  ASSUME LogInv, NEW c \in Calls, Serve(c), calls[c].kind = "cancel" => calls[c].task \in Tasks
  PROVE  LogExtends
<1>1. CASE UNCHANGED log
  <2>1. LogInv'
    BY <1>1, ZenonT(40) DEF LogInv, EventsOf, Lifecycle, isLifecycleEvent
  <2> QED
    BY <1>1, <2>1 DEF LogExtends, LogInv
<1>2. ASSUME NEW u \in Tasks, Now(u) = NoRow, Appends(u, "Queued")
      PROVE  LogExtends
  <2>1. ~is_retryable(Now(u).status)
    BY <1>2 DEF NoRow, is_retryable
  <2> QED
    BY <1>2, <2>1, NotOver, LogGrows DEF Changes, PanelKind
<1>3. ASSUME NEW u \in Tasks, Now(u).status = "Queued", Appends(u, "Cancelled")
      PROVE  LogExtends
  <2>1. ~is_retryable(Now(u).status)
    BY <1>3 DEF is_retryable
  <2> QED
    BY <1>3, <2>1, NotOver, LogGrows DEF Changes, PanelKind
<1> QED
  BY <1>1, <1>2, <1>3 DEF Serve

-----------------------------------------------------------------------------
(* The invariant.                                                            *)

Rows == [status : Changes \cup {"none"}, last : Nat]
Details == [task : Tasks \cup {NoTask}, row : Rows, events : SUBSET Nat, cursor : Nat]
CallRecords ==
  [kind : {"none", "detail", "create", "cancel"}, task : Tasks \cup {NoTask},
   generation : Nat, stage : {"idle", "sent", "served", "failed"}, at : Nat]

\* Every variable keeps its type; answers were read from the log, about a task.
BrowserTypeOK ==
  /\ shown \in [Tasks -> Rows]
  /\ applied \in Nat /\ applied <= Len(log)
  /\ selected \in Tasks \cup {NoTask}
  /\ generation \in Nat /\ fetched \in Nat
  /\ loading \in BOOLEAN
  /\ detail \in Details
  /\ buffer \in SUBSET Nat
  /\ cancels \in [Tasks -> {"none", "pending", "error"}]
  /\ calls \in [Calls -> CallRecords]
  /\ recovery \in [stage : {"none", "sent", "served"}, at : Nat]
  /\ recovery.at <= Len(log)
  /\ \A c \in Calls :
       /\ calls[c].at <= Len(log)
       /\ calls[c].kind \in {"detail", "cancel"} \/ calls[c].stage = "served" =>
            calls[c].task \in Tasks

\* The detail on the screen is the history of the selected task up to its cursor, and no
\* event that was applied is missing from it.
DetailInv ==
  detail # NoDetail =>
    /\ detail.task = selected /\ selected \in Tasks
    /\ detail.cursor \in 0..Len(log)
    /\ detail.row = RowAt(selected, detail.cursor)
    /\ detail.events = EventsOf(selected, detail.cursor)
    /\ \A i \in 1..Len(log) : detail.cursor < i /\ i <= applied => log[i].task # selected

\* Each selection asks for its detail once.  Until the answer is there, the events that
\* were applied after it was read are in the buffer.
FetchInv ==
  /\ loading => selected \in Tasks /\ detail = NoDetail
  /\ fetched <= generation
  /\ \A i \in buffer : i \in EventsOf(selected, applied)
  /\ \A c \in Calls : calls[c].kind = "detail" =>
       /\ calls[c].generation <= fetched
       /\ \A d \in Calls :
            calls[d].kind = "detail" /\ calls[d].generation = calls[c].generation => c = d
       /\ Current(calls[c]) => detail = NoDetail
       /\ Current(calls[c]) /\ calls[c].stage = "served" =>
            \A i \in EventsOf(selected, applied) : i > calls[c].at => i \in buffer

BrowserInv ==
  /\ LogInv /\ BrowserTypeOK /\ DetailInv /\ FetchInv
  /\ ShownTasksAreCurrent /\ CancelEndsWithTheTask

\* Rows have their type.
LEMMA RowTypes ==
  ASSUME LogInv, NEW t \in Tasks, NEW n \in 0..Len(log)
  PROVE  RowAt(t, n) \in Rows
<1>1. CASE EventsOf(t, n) = {}
  BY <1>1, RowOrNone DEF NoRow, Rows
<1>2. CASE EventsOf(t, n) # {}
  <2>1. PICK l \in Lifecycle(t, n), m \in EventsOf(t, n) :
          RowAt(t, n) = [status |-> log[l].change, last |-> m]
    BY <1>2, RowOfEvents
  <2>2. l \in 1..Len(log) /\ m \in Nat
    BY DEF Lifecycle, EventsOf, LogInv
  <2>3. log[l].change \in Changes
    BY <2>2, EventTypes
  <2> QED
    BY <2>1, <2>2, <2>3 DEF Rows
<1> QED
  BY <1>1, <1>2

\* A record with the fields of a detail is one.
LEMMA DetailTypes ==
  ASSUME NEW t \in Tasks, NEW row \in Rows, NEW e \in SUBSET Nat, NEW c \in Nat
  PROVE  [task |-> t, row |-> row, events |-> e, cursor |-> c] \in Details
BY DEF Details

\* A detail read at `at', with the events of the buffer that followed, is a history.
LEMMA InstalledDetail ==
  ASSUME LogInv, applied \in Nat, applied <= Len(log), NEW t \in Tasks, NEW at \in 0..Len(log),
         NEW B, B = {i \in buffer : i > at},
         \A i \in buffer : i \in EventsOf(t, applied),
         \A i \in EventsOf(t, applied) : i > at => i \in buffer,
         NEW d, d = Replayed(DetailAt(t, at), B)
  PROVE  /\ d \in Details /\ d.task = t /\ d.cursor \in 0..Len(log)
         /\ d.row = RowAt(t, d.cursor) /\ d.events = EventsOf(t, d.cursor)
         /\ \A i \in 1..Len(log) : d.cursor < i /\ i <= applied => log[i].task # t
<1>1. /\ DetailAt(t, at) = [task |-> t, row |-> RowAt(t, at), events |-> EventsOf(t, at), cursor |-> at]
      /\ RowAt(t, at) \in Rows /\ EventsOf(t, at) \in SUBSET Nat
      /\ DetailAt(t, at) \in Details
  <2>1. RowAt(t, at) \in Rows /\ EventsOf(t, at) \in SUBSET Nat /\ at \in Nat
    BY RowTypes DEF EventsOf
  <2> QED
    BY <2>1 DEF DetailAt, Details
<1>2. B = {i \in EventsOf(t, applied) : i > at}
  OBVIOUS
<1>3. CASE B = {}
  <2>1. d = DetailAt(t, at)
    BY <1>3 DEF Replayed
  <2>2. ASSUME NEW i \in 1..Len(log), at < i, i <= applied, log[i].task = t
        PROVE  FALSE
    BY <1>2, <1>3, <2>2 DEF EventsOf
  <2>3. d.task = t /\ d.cursor = at /\ d.row = RowAt(t, at) /\ d.events = EventsOf(t, at)
    BY <1>1, <2>1
  <2> QED
    BY <1>1, <2>1, <2>2, <2>3
<1>4. CASE B # {}
  <2>0. applied \in 0..Len(log) /\ EventsOf(t, applied) # {}
    BY <1>2, <1>4 DEF LogInv
  <2>1. PICK l \in Lifecycle(t, applied), m \in EventsOf(t, applied) :
          /\ \A k \in Lifecycle(t, applied) : k <= l
          /\ \A k \in EventsOf(t, applied) : k <= m
          /\ RowAt(t, applied) = [status |-> log[l].change, last |-> m]
    BY <2>0, RowOfEvents
  <2>2. m \in B /\ B \in SUBSET Nat /\ m \in 1..applied /\ at < m /\ log[m].task = t
    BY <1>2, <1>4, <2>1 DEF EventsOf
  <2>3. Max(B) = m
    BY <1>2, <2>1, <2>2, MaxIs
  <2>4. /\ EventsOf(t, m) = EventsOf(t, applied) /\ RowAt(t, m) = RowAt(t, applied)
        /\ m \in 0..Len(log)
    <3>1. m \in 0..Len(log) /\ m <= applied
      BY <2>0, <2>2
    <3>2. ASSUME NEW i \in 1..Len(log), m < i, i <= applied, log[i].task = t
          PROVE  FALSE
      BY <2>1, <2>2, <3>2 DEF EventsOf
    <3> QED
      BY <2>0, <3>1, <3>2, QuietRow
  <2>5. EventsOf(t, applied) = EventsOf(t, at) \cup B
    BY <1>2, <2>0, <2>2 DEF EventsOf
  <2>L. PICK L : L = {i \in B : isLifecycleEvent(i)}
    OBVIOUS
  <2>6. (IF L = {} THEN RowAt(t, at).status ELSE log[Max(L)].change) = log[l].change
    <3>1. CASE L = {}
      <4>1. Lifecycle(t, applied) = Lifecycle(t, at)
        BY <2>5, <2>L, <3>1 DEF Lifecycle
      <4>2. EventsOf(t, at) # {}
        BY <2>1, <4>1 DEF Lifecycle
      <4>3. PICK l2 \in Lifecycle(t, at), m2 \in EventsOf(t, at) :
              /\ \A k \in Lifecycle(t, at) : k <= l2
              /\ RowAt(t, at) = [status |-> log[l2].change, last |-> m2]
        BY <4>2, RowOfEvents
      <4>4. l = l2
        BY <2>1, <4>1, <4>3 DEF Lifecycle, EventsOf
      <4> QED
        BY <3>1, <4>3, <4>4
    <3>2. CASE L # {}
      <4>1. l \in L /\ L \in SUBSET Nat /\ \A k \in L : k <= l
        BY <1>2, <2>1, <2>2, <2>5, <2>L, <3>2 DEF Lifecycle, EventsOf
      <4>2. Max(L) = l
        BY <4>1, MaxIs
      <4> QED
        BY <3>2, <4>2
    <3> QED
      BY <3>1, <3>2
  <2>7. d = [task |-> t, row |-> RowAt(t, m), events |-> EventsOf(t, m), cursor |-> m]
    <3>2. d = Replayed([task |-> t, row |-> RowAt(t, at), events |-> EventsOf(t, at),
                        cursor |-> at], B)
      BY <1>1
    <3>3. Replayed([task |-> t, row |-> RowAt(t, at), events |-> EventsOf(t, at),
                    cursor |-> at], B)
            = [task |-> t, row |-> [status |-> log[l].change, last |-> m],
               events |-> EventsOf(t, at) \cup B, cursor |-> m]
      BY <1>4, <2>3, <2>6, <2>L DEF Replayed
    <3>4. RowAt(t, m) = [status |-> log[l].change, last |-> m]
      BY <2>1, <2>4
    <3>5. EventsOf(t, m) = EventsOf(t, at) \cup B
      BY <2>4, <2>5
    <3> QED
      BY <3>2, <3>3, <3>4, <3>5, Zenon
  <2>8. d.row = RowAt(t, m) /\ d.events = EventsOf(t, m) /\ d.cursor = m /\ d.task = t
    BY <2>7
  <2>9. d \in Details
    <3>1. RowAt(t, m) \in Rows /\ EventsOf(t, m) \in SUBSET Nat /\ m \in Nat
      BY <2>2, <2>4, RowTypes DEF EventsOf
    <3> QED
      BY <2>7, <3>1, DetailTypes, Zenon
  <2>10. ASSUME NEW i \in 1..Len(log), m < i, i <= applied, log[i].task = t
         PROVE  FALSE
    BY <2>1, <2>2, <2>10 DEF EventsOf
  <2> QED
    BY <2>4, <2>8, <2>9, <2>10
<1> QED
  BY <1>3, <1>4

-----------------------------------------------------------------------------
(* Types.                                                                    *)

\* The answer of a call, and the row in it.
AnswerRow(c) == RowAt(calls[c].task, calls[c].at)

\* What an answer says is in the log.
LEMMA ServedAnswers ==
  ASSUME LogInv, BrowserTypeOK, NEW c \in Calls
  PROVE  /\ calls[c] \in CallRecords /\ calls[c].at \in 0..Len(log)
         /\ calls[c].stage = "served" => calls[c].task \in Tasks /\ AnswerRow(c) \in Rows
<1>1. calls[c] \in CallRecords /\ calls[c].at <= Len(log)
  BY DEF BrowserTypeOK
<1>2. calls[c].at \in 0..Len(log)
  BY <1>1 DEF CallRecords, LogInv
<1>3. calls[c].stage = "served" => calls[c].task \in Tasks
  BY DEF BrowserTypeOK
<1> QED
  BY <1>1, <1>2, <1>3, RowTypes DEF AnswerRow

\* upsertRestTask keeps the type of the rows.
LEMMA UpsertTypes ==
  ASSUME shown \in [Tasks -> Rows], NEW t \in Tasks, NEW row \in Rows, upsertRestTask(t, row)
  PROVE  shown' \in [Tasks -> Rows]
BY DEF upsertRestTask

\* The detail that an answer brings to the screen.
Installed(c) ==
  Replayed(DetailAt(calls[c].task, calls[c].at), {i \in buffer : i > calls[c].at})

\* What InstalledDetail says of the answer of a call.
LEMMA InstalledFacts ==
  ASSUME LogInv, BrowserTypeOK, FetchInv, NEW c \in Calls,
         calls[c].stage = "served", calls[c].kind = "detail", Current(calls[c])
  PROVE  /\ selected \in Tasks /\ calls[c].task = selected
         /\ Installed(c) \in Details /\ Installed(c).task = selected
         /\ Installed(c).cursor \in 0..Len(log)
         /\ Installed(c).row = RowAt(selected, Installed(c).cursor)
         /\ Installed(c).events = EventsOf(selected, Installed(c).cursor)
         /\ \A i \in 1..Len(log) :
              Installed(c).cursor < i /\ i <= applied => log[i].task # selected
<1>1. calls[c].task \in Tasks /\ calls[c].at \in 0..Len(log) /\ calls[c].task = selected
  BY ServedAnswers DEF Current
<1>2. /\ \A i \in buffer : i \in EventsOf(selected, applied)
      /\ \A i \in EventsOf(selected, applied) : i > calls[c].at => i \in buffer
  BY DEF FetchInv
<1>3. applied \in Nat /\ applied <= Len(log)
  BY DEF BrowserTypeOK
<1> QED
  BY <1>1, <1>2, <1>3, InstalledDetail DEF Installed

\* Every answer keeps the types.
LEMMA AnswerTypes ==
  ASSUME LogInv, BrowserTypeOK, FetchInv, NEW c \in Calls, Answer(c)
  PROVE  BrowserTypeOK'
<1>1. /\ calls' = [calls EXCEPT ![c] = Idle] /\ UNCHANGED <<log, fetched, recovery>>
      /\ Idle \in CallRecords /\ Idle.at = 0 /\ Idle.kind = "none" /\ Idle.stage = "idle"
  BY DEF Answer, Idle, CallRecords
<1>2. /\ calls' \in [Calls -> CallRecords]
      /\ \A d \in Calls :
           /\ calls'[d].at <= Len(log')
           /\ calls'[d].kind \in {"detail", "cancel"} \/ calls'[d].stage = "served" =>
                calls'[d].task \in Tasks
  BY <1>1 DEF BrowserTypeOK, LogInv
<1>3. SUFFICES /\ shown' \in [Tasks -> Rows] /\ UNCHANGED <<applied, selected, generation>>
               /\ loading' \in BOOLEAN /\ detail' \in Details /\ buffer' \in SUBSET Nat
               /\ cancels' \in [Tasks -> {"none", "pending", "error"}]
  BY <1>1, <1>2 DEF BrowserTypeOK
<1>4. CASE calls[c].stage = "served" /\ calls[c].kind = "detail" /\ installDetail(calls[c])
  <2>1. CASE ~Current(calls[c])
    BY <1>4, <2>1 DEF installDetail, screenVars, BrowserTypeOK
  <2>2. CASE Current(calls[c])
    <3>1. /\ Installed(c) \in Details /\ calls[c].task \in Tasks
          /\ Installed(c).row \in Rows
      BY <1>4, <2>2, InstalledFacts DEF Details
    <3>2. /\ shown' \in {shown, [shown EXCEPT ![calls[c].task] = Installed(c).row]}
          /\ detail' = Installed(c) /\ buffer' = {} /\ loading' = FALSE
          /\ UNCHANGED <<applied, selected, generation, cancels>>
      BY <1>4, <2>2 DEF installDetail, Installed
    <3> QED
      BY <3>1, <3>2 DEF BrowserTypeOK
  <2> QED
    BY <2>1, <2>2
<1>5. CASE /\ calls[c].stage = "served"
           /\ upsertRestTask(calls[c].task, AnswerRow(c))
           /\ cancels' = cancels \/ removeCancelCommand(calls[c].task)
           /\ UNCHANGED <<applied, selected, generation, loading, detail, buffer>>
  <2>1. shown' \in [Tasks -> Rows]
    BY <1>5, ServedAnswers, UpsertTypes DEF BrowserTypeOK
  <2> QED
    BY <1>5, <2>1 DEF BrowserTypeOK, removeCancelCommand
<1>6. CASE calls[c].kind = "detail" /\ DetailFailed(calls[c])
  BY <1>6 DEF DetailFailed, BrowserTypeOK
<1>7. CASE calls[c].kind = "cancel" /\ CancelFailed(calls[c].task)
  BY <1>7 DEF CancelFailed, BrowserTypeOK, removeCancelCommand
<1>8. CASE UNCHANGED screenVars
  BY <1>8 DEF screenVars, BrowserTypeOK
<1> QED
  BY <1>4, <1>5, <1>6, <1>7, <1>8 DEF Answer, CancelSucceeded, AnswerRow

\* One event more in the detail.
LEMMA ReplayedOne ==
  ASSUME detail \in Details, NEW i \in Nat
  PROVE  Replayed(detail, {i}) =
           [task |-> detail.task,
            row |-> [status |-> IF isLifecycleEvent(i) THEN log[i].change ELSE detail.row.status,
                     last |-> i],
            events |-> detail.events \cup {i}, cursor |-> i]
<1>1. Max({i}) = i
  BY MaxIs
<1> DEFINE L == {k \in {i} : isLifecycleEvent(k)}
<1>2. /\ isLifecycleEvent(i) => L # {} /\ Max(L) = i
      /\ ~isLifecycleEvent(i) => L = {}
  <2>1. isLifecycleEvent(i) => L = {i}
    OBVIOUS
  <2> QED
    BY <1>1, <2>1
<1>3. detail = [task |-> detail.task, row |-> detail.row, events |-> detail.events,
                cursor |-> detail.cursor]
  BY DEF Details
<1> HIDE DEF L
<1>4. Replayed(detail, {i}) = [task |-> detail.task,
         row |-> [status |-> IF L = {} THEN detail.row.status ELSE log[Max(L)].change,
                  last |-> i],
         events |-> detail.events \cup {i}, cursor |-> i]
  BY <1>1, <1>3 DEF Replayed, L
<1> QED
  BY <1>2, <1>4

\* So does an event.
LEMMA ReceiveTypes ==
  ASSUME LogInv, BrowserTypeOK, Receive
  PROVE  BrowserTypeOK'
<1> DEFINE i == applied + 1
           t == log[i].task
<1>1. i \in 1..Len(log) /\ t \in Tasks /\ log[i].change \in Changes
  <2>1. i \in 1..Len(log)
    BY DEF Receive, BrowserTypeOK, LogInv
  <2> QED
    BY <2>1, EventTypes
<1>2. PayloadRow(i) \in Rows
  BY <1>1 DEF PayloadRow, Rows
<1>3. shown' \in [Tasks -> Rows]
  <2>1. updateSummaryForEvent(t, i)
    BY DEF Receive
  <2>2. shown' \in {shown, [shown EXCEPT ![t] = PayloadRow(i)], [shown EXCEPT ![t].last = i]}
    BY <2>1 DEF updateSummaryForEvent
  <2>3. [shown EXCEPT ![t].last = i] \in [Tasks -> Rows]
    BY <1>1, SMTT(30) DEF BrowserTypeOK, Rows
  <2> QED
    BY <1>1, <1>2, <2>2, <2>3 DEF BrowserTypeOK
<1>4. detail' \in Details
  <2>1. Replayed(detail, {i}) \in Details
    <3>1. detail.task \in Tasks \cup {NoTask} /\ detail.events \in SUBSET Nat
          /\ detail.row.status \in Changes \cup {"none"}
      BY DEF BrowserTypeOK, Details, Rows
    <3>2. (IF isLifecycleEvent(i) THEN log[i].change ELSE detail.row.status)
            \in Changes \cup {"none"}
      BY <1>1, <3>1
    <3>3. i \in Nat /\ detail.events \cup {i} \in SUBSET Nat
      BY <1>1, <3>1
    <3> HIDE DEF i, t
    <3>4. Replayed(detail, {i}) =
            [task |-> detail.task,
             row |-> [status |-> IF isLifecycleEvent(i) THEN log[i].change ELSE detail.row.status,
                      last |-> i],
             events |-> detail.events \cup {i}, cursor |-> i]
      BY <3>3, ReplayedOne DEF BrowserTypeOK
    <3> QED
      BY <3>1, <3>2, <3>3, <3>4 DEF Details, Rows
  <2> QED
    BY <2>1 DEF Receive, applyEventToDetail, BrowserTypeOK
<1>5. buffer' \in SUBSET Nat /\ cancels' \in [Tasks -> {"none", "pending", "error"}]
  <2>1. buffer' \in {buffer, buffer \cup {i}}
    BY DEF Receive
  <2>2. UNCHANGED cancels \/ removeCancelCommand(t)
    BY DEF Receive
  <2>3. i \in Nat
    BY <1>1
  <2> HIDE DEF i, t
  <2>4. buffer' \in SUBSET Nat
    BY <2>1, <2>3 DEF BrowserTypeOK
  <2>5. cancels' \in [Tasks -> {"none", "pending", "error"}]
    BY <2>2 DEF BrowserTypeOK, removeCancelCommand
  <2> QED
    BY <2>4, <2>5
<1>6. /\ applied' = i /\ i \in Nat /\ i <= Len(log)
      /\ UNCHANGED <<log, selected, generation, loading, fetched, calls, recovery>>
  BY <1>1 DEF Receive, hookVars
<1> HIDE DEF i
<1> QED
  BY <1>3, <1>4, <1>5, <1>6 DEF BrowserTypeOK

\* So does a bootstrap.
LEMMA BootstrapTypes ==
  ASSUME LogInv, BrowserTypeOK, ReceiveBootstrap
  PROVE  BrowserTypeOK'
<1>1. recovery.at \in 0..Len(log)
  BY DEF BrowserTypeOK, LogInv
<1>2. shown' \in [Tasks -> Rows]
  BY <1>1, RowTypes DEF ReceiveBootstrap
<1>3. NoDetail \in Details /\ Open \in [stage : {"none", "sent", "served"}, at : Nat] /\ Open.at = 0
  BY DEF NoDetail, NoRow, Details, Rows, Open
<1>4. cancels' \in [Tasks -> {"none", "pending", "error"}]
  BY DEF ReceiveBootstrap, reconcileCommands, BrowserTypeOK
<1>5. /\ applied' \in Nat /\ applied' <= Len(log') /\ log' = log
      /\ selected' \in Tasks \cup {NoTask} /\ generation' \in Nat /\ loading' \in BOOLEAN
      /\ detail' = NoDetail /\ buffer' = {} /\ recovery' = Open
      /\ fetched' = fetched /\ calls' = calls
  BY <1>1 DEF ReceiveBootstrap, BrowserTypeOK
<1> QED
  BY <1>2, <1>3, <1>4, <1>5 DEF BrowserTypeOK, LogInv

\* Every step keeps the types.
LEMMA TypeStep ==
  ASSUME BrowserInv, LogExtends, [Next]_vars
  PROVE  BrowserTypeOK'
<1> USE DEF BrowserInv
<1>0. Len(log) \in Nat /\ Len(log') \in Nat /\ Len(log) <= Len(log')
  BY DEF LogExtends, LogInv
<1>1. CASE UNCHANGED vars
  BY <1>1 DEF vars, screenVars, hookVars, BrowserTypeOK
<1>2. ASSUME NEW t \in Tasks, Commit(t)
      PROVE  BrowserTypeOK'
  BY <1>0, <1>2 DEF Commit, screenVars, hookVars, BrowserTypeOK, CallRecords
<1>3. ASSUME NEW t \in Tasks, Select(t)
      PROVE  BrowserTypeOK'
  <2>1. NoDetail \in Details
    BY DEF NoDetail, NoRow, Details, Rows
  <2> QED
    BY <1>3, <2>1 DEF Select, hookVars, BrowserTypeOK
<1>4. ASSUME NEW c \in Calls, NEW kind \in {"detail", "create", "cancel"},
             NEW t \in Tasks \cup {NoTask}, kind # "create" => t \in Tasks,
             Sends(c, kind, t), log' = log
      PROVE  /\ calls' \in [Calls -> CallRecords]
             /\ \A d \in Calls :
                  /\ calls'[d].at <= Len(log')
                  /\ calls'[d].kind \in {"detail", "cancel"} \/ calls'[d].stage = "served" =>
                       calls'[d].task \in Tasks
  <2> DEFINE sent == [kind |-> kind, task |-> t, stage |-> "sent", at |-> 0,
                      generation |-> IF kind = "detail" THEN generation ELSE 0]
  <2>1. sent \in CallRecords /\ sent.at = 0 /\ sent.kind = kind /\ sent.task = t
          /\ sent.stage = "sent"
    BY DEF CallRecords, BrowserTypeOK
  <2>2. calls' = [calls EXCEPT ![c] = sent]
    BY <1>4 DEF Sends
  <2> HIDE DEF sent
  <2> QED
    BY <1>0, <1>4, <2>1, <2>2 DEF BrowserTypeOK
<1>5. ASSUME NEW c \in Calls, Fetch(c)
      PROVE  BrowserTypeOK'
  <2>1. selected \in Tasks /\ Sends(c, "detail", selected)
    BY <1>5 DEF Fetch, FetchInv
  <2>2. fetched' = generation /\ UNCHANGED <<log, screenVars, recovery>>
    BY <1>5 DEF Fetch
  <2> QED
    BY <1>4, <2>1, <2>2 DEF screenVars, BrowserTypeOK
<1>6. ASSUME NEW c \in Calls, SendCreate(c)
      PROVE  BrowserTypeOK'
  <2>1. Sends(c, "create", NoTask) /\ UNCHANGED <<log, screenVars, fetched, recovery>>
    BY <1>6 DEF SendCreate
  <2> QED
    BY <1>4, <2>1 DEF screenVars, BrowserTypeOK
<1>7. ASSUME NEW c \in Calls, SendCancel(c)
      PROVE  BrowserTypeOK'
  <2>1. /\ selected \in Tasks /\ Sends(c, "cancel", selected)
        /\ cancels' \in [Tasks -> {"none", "pending", "error"}]
        /\ UNCHANGED <<log, shown, applied, selected, generation, loading, detail, buffer,
                       fetched, recovery>>
    BY <1>7 DEF SendCancel, BrowserTypeOK
  <2> QED
    BY <1>4, <2>1 DEF BrowserTypeOK
<1>8. ASSUME NEW c \in Calls, Serve(c)
      PROVE  BrowserTypeOK'
  <2>1. calls[c] \in CallRecords /\ calls[c].at <= Len(log)
    BY DEF BrowserTypeOK
  <2>2. ASSUME NEW new \in CallRecords, new.at <= Len(log'), new.kind = calls[c].kind,
               new.kind \in {"detail", "cancel"} \/ new.stage = "served" => new.task \in Tasks,
               calls' = [calls EXCEPT ![c] = new]
        PROVE  BrowserTypeOK'
    <3>1. calls' \in [Calls -> CallRecords]
      BY <2>2 DEF BrowserTypeOK
    <3>2. ASSUME NEW d \in Calls
          PROVE  /\ calls'[d].at <= Len(log')
                 /\ calls'[d].kind \in {"detail", "cancel"} \/ calls'[d].stage = "served" =>
                      calls'[d].task \in Tasks
      <4>1. CASE d = c
        BY <2>2, <4>1 DEF BrowserTypeOK
      <4>2. CASE d # c
        <5>1. calls'[d] = calls[d] /\ calls[d] \in CallRecords
          BY <2>2, <4>2 DEF BrowserTypeOK
        <5> QED
          BY <1>0, <5>1 DEF BrowserTypeOK, CallRecords
      <4> QED
        BY <4>1, <4>2
    <3> QED
      BY <1>0, <1>8, <3>1, <3>2 DEF Serve, screenVars, BrowserTypeOK
  <2>3. CASE calls' = [calls EXCEPT ![c].stage = "failed"] /\ UNCHANGED log
    <3> DEFINE new == [calls[c] EXCEPT !.stage = "failed"]
    <3>1. /\ new \in CallRecords /\ new.at = calls[c].at /\ new.kind = calls[c].kind
          /\ new.task = calls[c].task /\ new.stage = "failed"
      BY <2>1 DEF CallRecords
    <3>2. calls' = [calls EXCEPT ![c] = new]
      BY <2>3
    <3>3. new.kind \in {"detail", "cancel"} => new.task \in Tasks
      BY <3>1 DEF BrowserTypeOK
    <3> HIDE DEF new
    <3> QED
      BY <2>1, <2>2, <2>3, <3>1, <3>2, <3>3
  <2>4. ASSUME NEW u \in Tasks, NEW n \in 0..Len(log'), Served(c, u, n)
        PROVE  BrowserTypeOK'
    <3> DEFINE new == [calls[c] EXCEPT !.stage = "served", !.task = u, !.at = n]
    <3>0. n \in Nat /\ n <= Len(log')
      BY <1>0
    <3>1. /\ new \in CallRecords /\ new.at = n /\ new.kind = calls[c].kind /\ new.task = u
      BY <2>1, <3>0 DEF CallRecords
    <3>2. calls' = [calls EXCEPT ![c] = new]
      BY <2>4 DEF Served
    <3> HIDE DEF new
    <3> QED
      BY <2>2, <3>0, <3>1, <3>2
  <2>5. \A u \in Tasks : /\ Len(log) \in 0..Len(log)
                         /\ \A change \in Changes : Appends(u, change) => Len(log) + 1 \in 0..Len(log')
    BY <1>0 DEF Appends, LogInv
  <2>6. {"Queued", "Cancelled"} \subseteq Changes
    BY DEF Changes
  <2>7. calls[c].kind \in {"detail", "cancel"} => calls[c].task \in Tasks
    BY DEF BrowserTypeOK
  <2>8. CASE calls[c].kind = "detail" /\ Served(c, calls[c].task, Len(log)) /\ UNCHANGED log
    BY <2>4, <2>5, <2>7, <2>8
  <2>9. CASE /\ calls[c].kind = "create"
             /\ \E u \in Tasks :
                  IF Now(u) = NoRow
                  THEN Appends(u, "Queued") /\ Served(c, u, Len(log) + 1)
                  ELSE Served(c, u, Len(log)) /\ UNCHANGED log
    BY <2>4, <2>5, <2>6, <2>9
  <2>10. CASE /\ calls[c].kind = "cancel"
              /\ IF Now(calls[c].task).status = "Queued"
                 THEN Appends(calls[c].task, "Cancelled") /\ Served(c, calls[c].task, Len(log) + 1)
                 ELSE Served(c, calls[c].task, Len(log)) /\ UNCHANGED log
    BY <2>4, <2>5, <2>6, <2>7, <2>10
  <2> QED
    BY <1>8, <2>3, <2>8, <2>9, <2>10 DEF Serve
<1>9. ASSUME NEW c \in Calls, Answer(c)
      PROVE  BrowserTypeOK'
  BY <1>9, AnswerTypes
<1>10. CASE Receive
  BY <1>10, ReceiveTypes
<1>11. CASE Recover
  BY <1>11 DEF Recover, screenVars, BrowserTypeOK, LogInv
<1>12. CASE ServeBootstrap
  BY <1>12 DEF ServeBootstrap, screenVars, BrowserTypeOK, LogInv
<1>13. CASE ReceiveBootstrap
  BY <1>13, BootstrapTypes
<1> QED
  BY <1>1, <1>2, <1>3, <1>5, <1>6, <1>7, <1>8, <1>9, <1>10, <1>11, <1>12, <1>13 DEF Next

-----------------------------------------------------------------------------
(* No step takes the screen behind the events.                               *)

\* No step takes anything out of the log.
LEMMA LogStep ==
  ASSUME BrowserInv, [Next]_vars
  PROVE  LogExtends
<1> USE DEF BrowserInv
<1>1. CASE UNCHANGED log
  <2>1. LogInv'
    BY <1>1 DEF LogInv, EventsOf, Lifecycle, isLifecycleEvent
  <2> QED
    BY <1>1, <2>1 DEF LogExtends, LogInv
<1>2. ASSUME NEW c \in Calls, Serve(c)
      PROVE  LogExtends
  BY <1>2, ServeExtends DEF BrowserTypeOK
<1> QED
  BY <1>1, <1>2, CommitExtends
     DEF Next, vars, Select, Fetch, SendCreate, SendCancel, Answer, Receive, Recover,
         ServeBootstrap, ReceiveBootstrap

\* A row that is put on the screen because it names no earlier event is current.
LEMMA NotBehind ==
  ASSUME LogInv, BrowserTypeOK, NEW t \in Tasks, NEW k \in 0..Len(log),
         NEW n \in applied..Len(log),
         RowAt(t, n) = NoRow \/ RowAt(t, n).last <= RowAt(t, k).last
  PROVE  \E m \in applied..Len(log) : RowAt(t, k) = RowAt(t, m)
<1>1. n \in 0..Len(log) /\ applied \in Nat
  BY DEF BrowserTypeOK, LogInv
<1>2. CASE k >= applied
  BY <1>1, <1>2
<1>3. CASE k < applied
  <2>1. RowAt(t, k).last \in 0..k
    BY RowOrNone
  <2>2. RowAt(t, n).last <= RowAt(t, k).last
    BY <2>1 DEF NoRow
  <2> QED
    BY <1>1, <1>3, <2>2, LastDecides
<1> QED
  BY <1>1, <1>2, <1>3

\* No answer takes a task back.
LEMMA AnswerShown ==
  ASSUME BrowserInv, NEW c \in Calls, Answer(c), NEW t \in Tasks
  PROVE  \E m \in applied..Len(log) : shown'[t] = RowAt(t, m)
<1> USE DEF BrowserInv
<1>1. PICK n \in applied..Len(log) : shown[t] = RowAt(t, n)
  BY DEF ShownTasksAreCurrent
<1>2. CASE shown'[t] = shown[t]
  BY <1>1, <1>2
<1>3. shown \in [Tasks -> Rows] /\ shown[t].last \in Int
  BY DEF BrowserTypeOK, Rows
<1>4. CASE calls[c].stage = "served" /\ upsertRestTask(calls[c].task, AnswerRow(c))
  <2>1. calls[c].at \in 0..Len(log) /\ AnswerRow(c).last \in Int
    BY <1>4, ServedAnswers DEF Rows
  <2>2. CASE t # calls[c].task \/ UNCHANGED shown
    BY <1>2, <1>3, <1>4, <2>2 DEF upsertRestTask
  <2>3. CASE t = calls[c].task /\ ~UNCHANGED shown
    <3>1. /\ shown[t] = NoRow \/ shown[t].last <= AnswerRow(c).last
          /\ shown'[t] = AnswerRow(c)
      BY <1>3, <1>4, <2>1, <2>3 DEF upsertRestTask
    <3> QED
      BY <1>1, <2>1, <2>3, <3>1, NotBehind DEF AnswerRow
  <2> QED
    BY <2>2, <2>3
<1>5. CASE calls[c].stage = "served" /\ calls[c].kind = "detail" /\ installDetail(calls[c])
  <2>1. CASE t # calls[c].task \/ ~Current(calls[c])
    BY <1>2, <1>3, <1>5, <2>1 DEF installDetail, screenVars
  <2>2. CASE t = calls[c].task /\ Current(calls[c])
    <3>1. /\ Installed(c).cursor \in 0..Len(log) /\ calls[c].task = selected
          /\ Installed(c).row = RowAt(selected, Installed(c).cursor)
          /\ Installed(c) \in Details
      BY <1>5, <2>2, InstalledFacts
    <3>2. shown' = IF shown[t] # NoRow /\ shown[t].last > Installed(c).row.last THEN shown
                   ELSE [shown EXCEPT ![t] = Installed(c).row]
      BY <1>5, <2>2 DEF installDetail, Installed
    <3>3. Installed(c).row.last \in Int
      BY <3>1 DEF Details, Rows
    <3>4. CASE shown'[t] # shown[t]
      <4>1. /\ shown[t] = NoRow \/ shown[t].last <= Installed(c).row.last
            /\ shown'[t] = Installed(c).row
        BY <1>3, <3>2, <3>3, <3>4
      <4> QED
        BY <1>1, <2>2, <3>1, <4>1, NotBehind
    <3> QED
      BY <1>2, <3>4
  <2> QED
    BY <2>1, <2>2
<1>6. CASE UNCHANGED shown
  BY <1>2, <1>6
<1> QED
  BY <1>4, <1>5, <1>6 DEF Answer, CancelSucceeded, CancelFailed, DetailFailed, AnswerRow, screenVars

\* An event takes its task forward, and leaves the others where they were.
LEMMA ReceiveShown ==
  ASSUME BrowserInv, Receive, NEW t \in Tasks
  PROVE  \E m \in (applied + 1)..Len(log) : shown'[t] = RowAt(t, m)
<1> USE DEF BrowserInv
<1>0. PICK i \in 1..Len(log) : i = applied + 1
  BY DEF Receive, BrowserTypeOK, LogInv
<1>1. PICK n \in applied..Len(log) : shown[t] = RowAt(t, n)
  BY DEF ShownTasksAreCurrent
<1>2. /\ applied \in 0..Len(log) /\ n \in 0..Len(log) /\ i \in 0..Len(log) /\ i - 1 = applied
      /\ shown \in [Tasks -> Rows] /\ i <= Len(log)
  BY <1>0 DEF BrowserTypeOK, LogInv
<1>3. shown[t].last \in 0..n
  BY <1>1, <1>2, RowOrNone
<1>4. updateSummaryForEvent(log[i].task, i)
  BY <1>0 DEF Receive
<1>5. CASE log[i].task # t
  <2>1. shown'[t] = shown[t]
    BY <1>2, <1>4, <1>5 DEF updateSummaryForEvent
  <2>2. RowAt(t, i) = RowAt(t, applied)
    BY <1>0, <1>2, <1>5, QuietRow
  <2> QED
    BY <1>0, <1>1, <1>2, <2>1, <2>2
<1>6. CASE log[i].task = t
  <2>0. i \in EventsOf(t, i) /\ i \notin EventsOf(t, applied)
    BY <1>0, <1>2, <1>6 DEF EventsOf
  <2>1. CASE isLifecycleEvent(i)
    <3>1. RowAt(t, i) = PayloadRow(i)
      BY <1>6, <2>1, NextEvent
    <3>2. CASE shown' = [shown EXCEPT ![t] = PayloadRow(i)]
      BY <1>0, <1>2, <3>1, <3>2
    <3>3. CASE UNCHANGED shown /\ (i <= shown[t].last \/ isTerminalTask(shown[t]))
      <4>1. n # applied
        <5>1. SUFFICES ASSUME n = applied
                       PROVE  FALSE
          OBVIOUS
        <5>2. isTerminalTask(shown[t])
          BY <1>0, <1>2, <1>3, <3>3, <5>1
        <5> QED
          BY <1>0, <1>1, <1>2, <2>0, <5>1, <5>2, FinishedStays DEF isTerminalTask
      <4> QED
        BY <1>0, <1>1, <1>2, <3>3, <4>1
    <3> QED
      BY <1>4, <1>6, <2>1, <3>2, <3>3 DEF updateSummaryForEvent
  <2>2. CASE ~isLifecycleEvent(i)
    <3>1. /\ EventsOf(t, applied) # {}
          /\ RowAt(t, i) = [status |-> RowAt(t, applied).status, last |-> i]
      BY <1>2, <1>6, <2>2, NextEvent
    <3>2. EventsOf(t, applied) \subseteq EventsOf(t, n)
      BY <1>2 DEF EventsOf
    <3>3. shown[t] # NoRow /\ \A k \in EventsOf(t, n) : k <= shown[t].last
      BY <1>1, <1>2, <3>1, <3>2, RowOrNone
    <3>4. CASE shown[t].last >= i
      <4>1. n # applied /\ UNCHANGED shown
        BY <1>0, <1>2, <1>3, <1>4, <1>6, <2>2, <3>3, <3>4 DEF updateSummaryForEvent
      <4> QED
        BY <1>0, <1>1, <1>2, <4>1
    <3>5. CASE ~(shown[t].last >= i)
      <4>1. n = applied
        <5>1. i \notin EventsOf(t, n)
          BY <1>3, <3>3, <3>5
        <5> QED
          BY <1>0, <1>2, <1>6, <5>1 DEF EventsOf
      <4>2. shown' = [shown EXCEPT ![t].last = i]
        BY <1>4, <1>6, <2>2, <3>3, <3>5 DEF updateSummaryForEvent
      <4>3. shown'[t] = [status |-> shown[t].status, last |-> i]
        BY <1>2, <4>2 DEF Rows
      <4> QED
        BY <1>0, <1>1, <1>2, <3>1, <4>1, <4>3
    <3> QED
      BY <3>4, <3>5
  <2> QED
    BY <2>1, <2>2
<1> QED
  BY <1>5, <1>6

\* Every step keeps the rows on the screen current.
LEMMA ShownStep ==
  ASSUME BrowserInv, LogExtends, [Next]_vars
  PROVE  ShownTasksAreCurrent'
<1> USE DEF BrowserInv
<1>1. SUFFICES ASSUME NEW t \in Tasks
               PROVE  \E m \in applied'..Len(log') : shown'[t] = RowAt(t, m)'
  BY DEF ShownTasksAreCurrent
<1>2. applied \in Nat /\ Len(log) \in Nat /\ Len(log') \in Nat /\ Len(log) <= Len(log')
  BY DEF BrowserTypeOK, LogInv, LogExtends
<1>3. ASSUME applied' \in Nat, NEW m \in applied'..Len(log), shown'[t] = RowAt(t, m)
      PROVE  \E k \in applied'..Len(log') : shown'[t] = RowAt(t, k)'
  BY <1>2, <1>3, OldRowsStay
<1>4. CASE UNCHANGED <<shown, applied>>
  BY <1>2, <1>3, <1>4 DEF ShownTasksAreCurrent
<1>5. ASSUME NEW c \in Calls, Answer(c)
      PROVE  \E m \in applied'..Len(log') : shown'[t] = RowAt(t, m)'
  <2>1. applied' = applied
    BY <1>5 DEF Answer, installDetail, CancelSucceeded, CancelFailed, DetailFailed, screenVars
  <2> QED
    BY <1>2, <1>3, <1>5, <2>1, AnswerShown
<1>6. CASE Receive
  BY <1>2, <1>3, <1>6, ReceiveShown DEF Receive
<1>7. CASE ReceiveBootstrap
  <2>1. shown'[t] = RowAt(t, recovery.at) /\ applied' = recovery.at
    BY <1>7 DEF ReceiveBootstrap
  <2> QED
    BY <1>2, <1>3, <2>1 DEF BrowserTypeOK
<1> QED
  BY <1>4, <1>5, <1>6, <1>7
     DEF Next, vars, screenVars, hookVars, Commit, Select, Fetch, SendCreate, SendCancel, Serve,
         Recover, ServeBootstrap

\* Every step keeps the cancellations those of tasks that are not over.
LEMMA CancelStep ==
  ASSUME BrowserInv, LogExtends, ShownTasksAreCurrent', [Next]_vars
  PROVE  CancelEndsWithTheTask'
<1> USE DEF BrowserInv
<1> DEFINE Waits(t) == \A c \in Calls : ~(calls[c].kind = "cancel" /\ calls[c].task = t)
           Waits2(t) == \A c \in Calls : ~(calls'[c].kind = "cancel" /\ calls'[c].task = t)
<1>1. SUFFICES ASSUME NEW t \in Tasks, cancels'[t] # "none", Waits2(t),
                      NEW a, a = applied'
               PROVE  ~isTerminalTask(RowAt(t, a)')
  BY DEF CancelEndsWithTheTask, isTerminalTask, RowAt, EventsOf, isLifecycleEvent
<1>2. applied \in 0..Len(log) /\ calls \in [Calls -> CallRecords]
  BY DEF BrowserTypeOK, LogInv
<1>3. ASSUME a = applied, cancels[t] # "none", Waits(t)
      PROVE  ~isTerminalTask(RowAt(t, a)')
  <2>1. ~isTerminalTask(RowAt(t, a))
    BY <1>3 DEF CancelEndsWithTheTask
  <2>2. RowAt(t, a)' = RowAt(t, a)
    BY <1>2, <1>3, OldRowsStay
  <2> QED
    BY <2>1, <2>2 DEF isTerminalTask
<1>4. ASSUME UNCHANGED <<applied, cancels, calls>>
      PROVE  ~isTerminalTask(RowAt(t, a)')
  BY <1>1, <1>3, <1>4
<1>5. ASSUME NEW c \in Calls, NEW kind, NEW u, Sends(c, kind, u)
      PROVE  /\ Waits(t)
             /\ kind = "cancel" => u # t
  <2>1. calls[c].kind = "none" /\ calls'[c].kind = kind /\ calls'[c].task = u
    BY <1>2, <1>5 DEF Sends, Idle
  <2>2. \A d \in Calls : d # c => calls'[d] = calls[d]
    BY <1>2, <1>5 DEF Sends
  <2> QED
    BY <1>1, <2>1, <2>2
<1>6. ASSUME NEW c \in Calls, Fetch(c) \/ SendCreate(c)
      PROVE  ~isTerminalTask(RowAt(t, a)')
  BY <1>1, <1>3, <1>5, <1>6 DEF Fetch, SendCreate, screenVars
<1>7. ASSUME NEW c \in Calls, SendCancel(c)
      PROVE  ~isTerminalTask(RowAt(t, a)')
  <2>1. Waits(t) /\ t # selected
    BY <1>5, <1>7 DEF SendCancel
  <2>2. cancels'[t] = cancels[t] /\ applied' = applied
    BY <1>7, <2>1 DEF SendCancel, BrowserTypeOK
  <2> QED
    BY <1>1, <1>3, <2>1, <2>2
<1>8. ASSUME NEW c \in Calls, Serve(c)
      PROVE  ~isTerminalTask(RowAt(t, a)')
  <2>1. \A d \in Calls : d # c => calls'[d] = calls[d]
    BY <1>2, <1>8 DEF Serve, Served
  <2>2. calls[c].kind = "cancel" => calls'[c].kind = "cancel" /\ calls'[c].task = calls[c].task
    BY <1>2, <1>8 DEF Serve, Served, CallRecords
  <2>3. Waits(t) /\ UNCHANGED <<applied, cancels>>
    BY <1>1, <1>8, <2>1, <2>2 DEF Serve, screenVars
  <2> QED
    BY <1>1, <1>3, <2>3
<1>9. ASSUME NEW c \in Calls, Answer(c)
      PROVE  ~isTerminalTask(RowAt(t, a)')
  <2>1. applied' = applied /\ log' = log
    BY <1>9 DEF Answer, installDetail, CancelSucceeded, CancelFailed, DetailFailed, screenVars
  <2>2. \A d \in Calls : d # c => calls'[d] = calls[d]
    BY <1>2, <1>9 DEF Answer
  <2>3. CASE calls[c].kind # "cancel"
    <3>1. UNCHANGED cancels
      BY <1>9, <2>3 DEF Answer, installDetail, DetailFailed, screenVars
    <3>2. Waits(t)
      BY <1>1, <2>2, <2>3
    <3> QED
      BY <1>1, <1>3, <2>1, <3>1, <3>2
  <2>4. CASE calls[c].kind = "cancel" /\ calls[c].task # t
    <3>1. cancels'[t] = cancels[t]
      BY <1>9, <2>4 DEF Answer, CancelSucceeded, CancelFailed, removeCancelCommand, BrowserTypeOK
    <3>2. Waits(t)
      BY <1>1, <2>2, <2>4
    <3> QED
      BY <1>1, <1>3, <2>1, <3>1, <3>2
  <2>5. CASE calls[c].kind = "cancel" /\ calls[c].task = t
    <3>1. ~isTerminalTask(shown'[t])
      BY <1>1, <1>9, <2>5
         DEF Answer, CancelSucceeded, CancelFailed, removeCancelCommand, BrowserTypeOK
    <3>2. PICK n \in applied'..Len(log') : shown'[t] = RowAt(t, n)'
      BY DEF ShownTasksAreCurrent
    <3>3. n \in 0..Len(log) /\ a \in 0..Len(log) /\ a <= n /\ shown'[t] = RowAt(t, n)
      <4>1. n \in 0..Len(log)
        BY <1>2, <2>1
      <4> QED
        BY <1>1, <1>2, <2>1, <3>2, <4>1, OldRowsStay
    <3>4. ~isTerminalTask(RowAt(t, a))
      BY <3>1, <3>3, FinishedStays DEF isTerminalTask
    <3>5. RowAt(t, a)' = RowAt(t, a)
      BY <3>3, OldRowsStay
    <3> QED
      BY <3>4, <3>5 DEF isTerminalTask
  <2> QED
    BY <2>3, <2>4, <2>5
<1>10. CASE Receive
  <2>0. PICK i \in 1..Len(log) : i = applied + 1
    BY <1>10 DEF Receive, BrowserTypeOK, LogInv
  <2>1. /\ log' = log /\ calls' = calls /\ a = i /\ i \in 0..Len(log) /\ i - 1 = applied
        /\ applied <= i
        /\ IF isLifecycleEvent(i) /\ isTerminalTask(PayloadRow(i))
           THEN removeCancelCommand(log[i].task)
           ELSE UNCHANGED cancels
    BY <1>1, <1>2, <1>10, <2>0 DEF Receive, hookVars
  <2>2. /\ cancels[t] # "none"
        /\ ~(log[i].task = t /\ isLifecycleEvent(i) /\ isTerminalTask(PayloadRow(i)))
    BY <1>1, <2>1 DEF removeCancelCommand, BrowserTypeOK
  <2>3. ~isTerminalTask(RowAt(t, applied))
    BY <1>1, <2>1, <2>2 DEF CancelEndsWithTheTask
  <2>4. ~isTerminalTask(RowAt(t, i))
    <3>1. CASE log[i].task # t
      <4>1. RowAt(t, i) = RowAt(t, applied)
        BY <1>2, <2>0, <2>1, <3>1, QuietRow
      <4> QED
        BY <2>3, <4>1
    <3>2. CASE log[i].task = t /\ isLifecycleEvent(i)
      BY <2>2, <3>2, NextEvent
    <3>3. CASE log[i].task = t /\ ~isLifecycleEvent(i)
      <4>1. RowAt(t, i).status = RowAt(t, applied).status
        BY <2>1, <3>3, NextEvent
      <4> QED
        BY <2>3, <4>1 DEF isTerminalTask
    <3> QED
      BY <3>1, <3>2, <3>3
  <2>5. RowAt(t, i)' = RowAt(t, i)
    BY <2>1, OldRowsStay
  <2> QED
    BY <2>1, <2>4, <2>5 DEF isTerminalTask
<1>11. CASE ReceiveBootstrap
  <2>1. a = recovery.at /\ a \in 0..Len(log)
    BY <1>1, <1>11 DEF ReceiveBootstrap, BrowserTypeOK, LogInv
  <2>2. ~isTerminalTask(RowAt(t, a))
    BY <1>1, <1>11, <2>1 DEF ReceiveBootstrap, reconcileCommands
  <2>3. RowAt(t, a)' = RowAt(t, a)
    BY <2>1, OldRowsStay
  <2> QED
    BY <2>2, <2>3 DEF isTerminalTask
<1> QED
  BY <1>4, <1>6, <1>7, <1>8, <1>9, <1>10, <1>11
     DEF Next, vars, screenVars, hookVars, Commit, Select, Recover, ServeBootstrap

\* Every step keeps the detail a history.
LEMMA DetailStep ==
  ASSUME BrowserInv, LogExtends, [Next]_vars
  PROVE  DetailInv'
<1> USE DEF BrowserInv
<1>1. applied \in 0..Len(log) /\ Len(log) \in Nat /\ Len(log') \in Nat /\ Len(log) <= Len(log')
  BY DEF BrowserTypeOK, LogInv, LogExtends
<1>2. ASSUME NEW t \in Tasks, NEW k \in 0..Len(log), selected' = t,
             detail'.task = t, detail'.cursor = k,
             detail'.row = RowAt(t, k), detail'.events = EventsOf(t, k),
             applied' \in 0..Len(log),
             \A i \in 1..Len(log) : k < i /\ i <= applied' => log[i].task # t
      PROVE  DetailInv'
  <2>1. EventsOf(t, k)' = EventsOf(t, k) /\ RowAt(t, k)' = RowAt(t, k) /\ k \in 0..Len(log')
    BY <1>1, OldRowsStay
  <2>2. \A i \in 1..Len(log') : k < i /\ i <= applied' => log'[i].task # t
    BY <1>1, <1>2 DEF LogExtends
  <2> QED
    BY <1>2, <2>1, <2>2 DEF DetailInv, RowAt, EventsOf, isLifecycleEvent
<1>3. CASE detail' = NoDetail
  BY <1>3 DEF DetailInv, NoDetail, NoRow
<1>4. CASE UNCHANGED <<detail, selected, applied>>
  <2>1. CASE detail # NoDetail
    <3>1. /\ selected \in Tasks /\ detail.task = selected /\ detail.cursor \in 0..Len(log)
          /\ detail.row = RowAt(selected, detail.cursor)
          /\ detail.events = EventsOf(selected, detail.cursor)
          /\ \A i \in 1..Len(log) : detail.cursor < i /\ i <= applied => log[i].task # selected
      BY <2>1 DEF DetailInv
    <3> QED
      BY <1>1, <1>2, <1>4, <3>1
  <2> QED
    BY <1>3, <1>4, <2>1
<1>5. ASSUME NEW c \in Calls, Answer(c)
      PROVE  DetailInv'
  <2>1. CASE UNCHANGED <<detail, selected, applied>>
    BY <1>4, <2>1
  <2>2. CASE /\ calls[c].stage = "served" /\ calls[c].kind = "detail" /\ Current(calls[c])
             /\ installDetail(calls[c])
    <3>1. detail' = Installed(c) /\ UNCHANGED <<selected, applied>>
      BY <2>2 DEF installDetail, Installed
    <3> QED
      BY <1>1, <1>2, <2>2, <3>1, InstalledFacts
  <2> QED
    BY <1>5, <2>1, <2>2
       DEF Answer, installDetail, CancelSucceeded, CancelFailed, DetailFailed, screenVars
<1>6. CASE Receive
  <2>0. PICK i \in 1..Len(log) : i = applied + 1
    BY <1>6 DEF Receive, BrowserTypeOK, LogInv
  <2>1. /\ IF selected = log[i].task /\ detail # NoDetail THEN applyEventToDetail(i)
           ELSE UNCHANGED detail
        /\ applied' = i /\ UNCHANGED selected /\ i \in 0..Len(log) /\ i - 1 = applied
    BY <1>1, <1>6, <2>0 DEF Receive
  <2>2. CASE detail = NoDetail
    BY <1>3, <2>1, <2>2
  <2>3. CASE detail # NoDetail
    <3>1. /\ selected \in Tasks /\ detail.task = selected /\ detail.cursor \in 0..Len(log)
          /\ detail.row = RowAt(selected, detail.cursor)
          /\ detail.events = EventsOf(selected, detail.cursor)
          /\ \A j \in 1..Len(log) : detail.cursor < j /\ j <= applied => log[j].task # selected
      BY <2>3 DEF DetailInv
    <3>2. CASE selected # log[i].task \/ i <= detail.cursor
      <4>1. detail' = detail
        BY <2>1, <3>1, <3>2 DEF applyEventToDetail
      <4>2. \A j \in 1..Len(log) : detail.cursor < j /\ j <= i => log[j].task # selected
        BY <1>1, <2>0, <3>1, <3>2
      <4> QED
        BY <1>2, <2>1, <3>1, <4>1, <4>2
    <3>3. CASE selected = log[i].task /\ ~(i <= detail.cursor)
      <4>1. /\ RowAt(selected, applied) = detail.row
            /\ EventsOf(selected, applied) = detail.events
        <5>1. detail.cursor <= applied
          BY <1>1, <2>0, <3>1, <3>3
        <5> QED
          BY <1>1, <3>1, <5>1, QuietRow
      <4>2. detail' = Replayed(detail, {i})
        BY <2>1, <2>3, <3>1, <3>3 DEF applyEventToDetail
      <4>3. detail' = [task |-> detail.task,
              row |-> [status |-> IF isLifecycleEvent(i) THEN log[i].change ELSE detail.row.status,
                       last |-> i],
              events |-> detail.events \cup {i}, cursor |-> i]
        BY <4>2, ReplayedOne DEF BrowserTypeOK
      <4>4. /\ EventsOf(selected, i) = detail.events \cup {i}
            /\ RowAt(selected, i) =
                 [status |-> IF isLifecycleEvent(i) THEN log[i].change ELSE detail.row.status,
                  last |-> i]
        BY <2>1, <3>1, <3>3, <4>1, NextEvent DEF PayloadRow
      <4>5. /\ detail'.task = selected /\ detail'.cursor = i
            /\ detail'.row = RowAt(selected, i) /\ detail'.events = EventsOf(selected, i)
        BY <3>1, <4>3, <4>4
      <4> QED
        BY <1>2, <2>1, <3>1, <4>5
    <3> QED
      BY <3>2, <3>3
  <2> QED
    BY <2>2, <2>3
<1> QED
  BY <1>3, <1>4, <1>5, <1>6
     DEF Next, vars, screenVars, hookVars, Commit, Select, Fetch, SendCreate, SendCancel, Serve,
         Recover, ServeBootstrap, ReceiveBootstrap

\* Every step keeps the buffer what the answer to the current selection lacks.
LEMMA FetchStep ==
  ASSUME BrowserInv, LogExtends, [Next]_vars
  PROVE  FetchInv'
<1> USE DEF BrowserInv
<1> DEFINE Fetching(cs) == {c \in Calls : cs[c].kind = "detail"}
<1>0. /\ applied \in 0..Len(log) /\ generation \in Nat /\ fetched \in Nat
      /\ Len(log) \in Nat /\ calls \in [Calls -> CallRecords] /\ fetched <= generation
  BY DEF BrowserTypeOK, LogInv, FetchInv
\* The events that the buffer stands for.
<1>1. ASSUME UNCHANGED <<selected, applied>>
      PROVE  EventsOf(selected, applied)' = EventsOf(selected, applied)
  BY <1>0, <1>1 DEF EventsOf, LogExtends
\* Nothing is asked for, or the answer of a call is there or gone.
<1>2. ASSUME UNCHANGED <<selected, applied, generation, detail, buffer, loading, fetched>>,
             \A c \in Fetching(calls') :
               /\ c \in Fetching(calls) /\ calls'[c].generation = calls[c].generation
               /\ calls'[c].task = calls[c].task
               /\ \/ calls'[c] = calls[c]
                  \/ calls'[c].stage # "served" \/ calls'[c].at = Len(log)
      PROVE  FetchInv'
  <2>1. ASSUME NEW c \in Fetching(calls'), Current(calls[c])', calls'[c].stage = "served",
               NEW i \in EventsOf(selected, applied), i > calls'[c].at
        PROVE  i \in buffer
    <3>1. Current(calls[c])
      BY <1>2, <2>1 DEF Current
    <3>2. calls'[c] = calls[c]
      BY <1>0, <1>2, <2>1 DEF EventsOf
    <3> QED
      BY <2>1, <3>1, <3>2 DEF FetchInv
  <2>2. ASSUME NEW c \in Fetching(calls')
        PROVE  /\ calls'[c].generation <= fetched'
               /\ \A d \in Fetching(calls') :
                    calls'[d].generation = calls'[c].generation => c = d
               /\ Current(calls[c])' => detail' = NoDetail
    BY <1>2, <2>2 DEF FetchInv, Current
  <2> HIDE DEF Fetching
  <2>3. \A c \in Calls : calls'[c].kind = "detail" <=> c \in Fetching(calls')
    BY DEF Fetching
  <2> QED
    BY <1>1, <1>2, <2>1, <2>2, <2>3 DEF FetchInv
\* Another selection, or none: no answer that is under way is about it.
<1>3. ASSUME detail' = NoDetail, buffer' = {}, UNCHANGED <<calls, fetched>>,
             generation' \in Nat, generation <= generation',
             loading' => selected' \in Tasks,
             selected' = NoTask \/ generation' = generation + 1
      PROVE  FetchInv'
  <2>1. ASSUME NEW c \in Fetching(calls)
        PROVE  ~Current(calls[c])'
    <3>1. calls[c].generation \in Nat /\ calls[c].generation <= fetched /\ calls[c].task \in Tasks
      BY <1>0, <2>1 DEF FetchInv, BrowserTypeOK, CallRecords
    <3> QED
      BY <1>0, <1>3, <3>1, TasksAssumption DEF Current
  <2>2. fetched' <= generation'
    BY <1>0, <1>3
  <2> QED
    BY <1>3, <2>1, <2>2 DEF FetchInv
<1>4. ASSUME NEW c \in Calls, NEW kind, NEW u, kind # "detail", Sends(c, kind, u),
             UNCHANGED <<selected, applied, generation, detail, buffer, loading, fetched>>
      PROVE  FetchInv'
  <2>1. ASSUME NEW d \in Fetching(calls')
        PROVE  calls'[d] = calls[d]
    BY <1>0, <1>4, <2>1 DEF Sends
  <2> QED
    BY <1>2, <1>4, <2>1
<1>5. ASSUME NEW c \in Calls, Fetch(c)
      PROVE  FetchInv'
  <2>1. /\ loading /\ fetched < generation /\ fetched' = generation
        /\ UNCHANGED <<selected, applied, generation, detail, buffer, loading>>
        /\ calls'[c].generation = generation /\ calls'[c].stage = "sent"
        /\ \A d \in Calls : d # c => calls'[d] = calls[d]
    BY <1>0, <1>5 DEF Fetch, Sends, screenVars
  <2>2. detail = NoDetail
    BY <2>1 DEF FetchInv
  <2>3. ASSUME NEW d \in Fetching(calls'), d # c
        PROVE  /\ calls'[d].generation <= fetched /\ calls'[d].generation \in Nat
               /\ calls'[d] = calls[d] /\ d \in Fetching(calls)
    BY <1>0, <2>1, <2>3 DEF FetchInv, CallRecords
  <2>4. ASSUME NEW d \in Fetching(calls')
        PROVE  /\ calls'[d].generation <= fetched'
               /\ \A e \in Fetching(calls') :
                    calls'[e].generation = calls'[d].generation => d = e
    <3>1. ASSUME NEW e \in Fetching(calls'), calls'[e].generation = calls'[d].generation
          PROVE  d = e
      <4>1. CASE d # c /\ e # c
        BY <2>3, <3>1, <4>1 DEF FetchInv
      <4>2. CASE d = c \/ e = c
        BY <1>0, <2>1, <2>3, <3>1, <4>2
      <4> QED
        BY <4>1, <4>2
    <3> QED
      BY <1>0, <2>1, <2>3, <3>1
  <2>5. ASSUME NEW d \in Fetching(calls'), Current(calls[d])', calls'[d].stage = "served",
               NEW i \in EventsOf(selected, applied), i > calls'[d].at
        PROVE  i \in buffer
    <3>1. d # c
      BY <2>1, <2>5
    <3>2. calls'[d] = calls[d] /\ Current(calls[d])
      BY <2>1, <2>3, <2>5, <3>1 DEF Current
    <3> QED
      BY <2>3, <2>5, <3>1, <3>2 DEF FetchInv
  <2>6. fetched' <= generation' /\ \A i \in buffer : i \in EventsOf(selected, applied)
    BY <1>0, <2>1 DEF FetchInv
  <2>7. loading' => selected' \in Tasks /\ detail' = NoDetail
    BY <2>1 DEF FetchInv
  <2> HIDE DEF Fetching
  <2>8. \A d \in Calls : calls'[d].kind = "detail" <=> d \in Fetching(calls')
    BY DEF Fetching
  <2> QED
    BY <1>1, <2>1, <2>2, <2>4, <2>5, <2>6, <2>7, <2>8 DEF FetchInv
<1>6. ASSUME NEW c \in Calls, Serve(c)
      PROVE  FetchInv'
  <2>1. \A d \in Calls : d # c => calls'[d] = calls[d]
    BY <1>0, <1>6 DEF Serve, Served
  <2>2. calls[c] \in CallRecords
    BY <1>0
  <2>3. calls'[c].kind = "detail" =>
          /\ calls[c].kind = "detail" /\ calls'[c].generation = calls[c].generation
          /\ calls'[c].task = calls[c].task
          /\ calls'[c].stage # "served" \/ calls'[c].at = Len(log)
    <3>1. CASE calls' = [calls EXCEPT ![c].stage = "failed"]
      BY <1>0, <2>2, <3>1 DEF CallRecords
    <3>2. ASSUME NEW u, NEW n, Served(c, u, n)
          PROVE  /\ calls'[c].kind = calls[c].kind /\ calls'[c].generation = calls[c].generation
                 /\ calls'[c].task = u /\ calls'[c].at = n
      BY <1>0, <2>2, <3>2 DEF CallRecords, Served
    <3> QED
      BY <1>6, <3>1, <3>2 DEF Serve
  <2>4. UNCHANGED <<selected, applied, generation, detail, buffer, loading, fetched>>
    BY <1>6 DEF Serve, screenVars
  <2> QED
    BY <1>2, <2>1, <2>3, <2>4
<1>7. ASSUME NEW c \in Calls, Answer(c)
      PROVE  FetchInv'
  <2>1. /\ calls' = [calls EXCEPT ![c] = Idle] /\ calls'[c].kind = "none"
        /\ \A d \in Calls : d # c => calls'[d] = calls[d]
        /\ UNCHANGED <<log, fetched>>
    BY <1>0, <1>7 DEF Answer, Idle
  <2>2. \A d \in Fetching(calls') : d # c /\ d \in Fetching(calls) /\ calls'[d] = calls[d]
    BY <2>1
  <2>3. CASE UNCHANGED <<selected, applied, generation, detail, buffer, loading>>
    BY <1>2, <2>1, <2>2, <2>3
  <2>4. CASE /\ calls[c].kind = "detail" /\ DetailFailed(calls[c])
    <3>1. /\ UNCHANGED <<selected, applied, generation, detail, buffer>>
          /\ loading' => loading
      BY <2>4 DEF DetailFailed
    <3>2. ASSUME NEW d \in Fetching(calls')
          PROVE  /\ calls'[d].generation <= fetched'
                 /\ \A e \in Fetching(calls') :
                      calls'[e].generation = calls'[d].generation => d = e
                 /\ Current(calls[d])' => detail' = NoDetail
                 /\ Current(calls[d])' /\ calls'[d].stage = "served" =>
                      \A i \in EventsOf(selected, applied) : i > calls'[d].at => i \in buffer'
      BY <2>1, <2>2, <3>1 DEF FetchInv, Current
    <3> HIDE DEF Fetching
    <3>3. \A d \in Calls : calls'[d].kind = "detail" <=> d \in Fetching(calls')
      BY DEF Fetching
    <3> QED
      BY <1>1, <2>1, <3>1, <3>2, <3>3, ZenonT(40) DEF FetchInv
  <2>5. CASE calls[c].kind = "detail" /\ Current(calls[c]) /\ installDetail(calls[c])
    <3>1. /\ UNCHANGED <<selected, applied, generation>>
          /\ buffer' = {} /\ loading' = FALSE
      BY <2>5 DEF installDetail
    <3>2. ASSUME NEW d \in Fetching(calls')
          PROVE  /\ calls'[d].generation <= fetched'
                 /\ \A e \in Fetching(calls') :
                      calls'[e].generation = calls'[d].generation => d = e
                 /\ ~Current(calls[d])'
      BY <2>1, <2>2, <2>5, <3>1 DEF FetchInv, Current
    <3> HIDE DEF Fetching
    <3>3. \A d \in Calls : calls'[d].kind = "detail" <=> d \in Fetching(calls')
      BY DEF Fetching
    <3> QED
      BY <1>0, <2>1, <3>1, <3>2, <3>3 DEF FetchInv
  <2> QED
    BY <1>7, <2>3, <2>4, <2>5
       DEF Answer, installDetail, CancelSucceeded, CancelFailed, screenVars
<1>8. CASE Receive
  <2>0. PICK i \in 1..Len(log) : i = applied + 1
    BY <1>0, <1>8 DEF Receive
  <2>1. /\ applied' = i /\ UNCHANGED <<log, selected, generation, loading, fetched, calls>>
        /\ buffer' = IF selected = log[i].task /\ detail = NoDetail THEN buffer \cup {i} ELSE buffer
        /\ detail = NoDetail => detail' = NoDetail
    BY <1>8, <2>0 DEF Receive, hookVars
  <2>2. \A j : j \in EventsOf(selected, applied)'
                 <=> j \in EventsOf(selected, applied) \/ (j = i /\ log[i].task = selected)
    BY <1>0, <2>0, <2>1 DEF EventsOf
  <2>3. ASSUME NEW c \in Fetching(calls)
        PROVE  /\ Current(calls[c])' => detail' = NoDetail
               /\ Current(calls[c])' /\ calls[c].stage = "served" =>
                    \A j \in EventsOf(selected, applied)' : j > calls[c].at => j \in buffer'
    BY <2>1, <2>2, <2>3 DEF FetchInv, Current
  <2>4. \A j \in buffer' : j \in EventsOf(selected, applied)'
    BY <2>1, <2>2 DEF FetchInv
  <2> HIDE DEF Fetching
  <2>5. \A c \in Calls : calls[c].kind = "detail" <=> c \in Fetching(calls)
    BY DEF Fetching
  <2> QED
    BY <2>1, <2>3, <2>4, <2>5 DEF FetchInv
<1>9. ASSUME UNCHANGED <<selected, applied, generation, detail, buffer, loading, fetched, calls>>
      PROVE  FetchInv'
  BY <1>2, <1>9
<1>10. ASSUME NEW t \in Tasks, Select(t)
       PROVE  FetchInv'
  BY <1>0, <1>3, <1>10 DEF Select, hookVars
<1>11. CASE ReceiveBootstrap
  <2>1. selected # NoTask => selected \in Tasks
    BY DEF BrowserTypeOK
  <2>2. /\ detail' = NoDetail /\ buffer' = {} /\ UNCHANGED <<calls, fetched>>
        /\ \/ selected # NoTask /\ selected' = selected /\ generation' = generation + 1
           \/ selected' = NoTask /\ generation' = generation /\ loading' = FALSE
    BY <1>11 DEF ReceiveBootstrap
  <2>3. /\ generation' \in Nat /\ generation <= generation'
        /\ loading' => selected' \in Tasks
        /\ selected' = NoTask \/ generation' = generation + 1
    BY <1>0, <2>1, <2>2
  <2> QED
    BY <1>3, <2>2, <2>3
<1>12. ASSUME NEW c \in Calls, SendCreate(c) \/ SendCancel(c)
       PROVE  FetchInv'
  BY <1>4, <1>12 DEF SendCreate, SendCancel, screenVars
<1> QED
  BY <1>5, <1>6, <1>7, <1>8, <1>9, <1>10, <1>11, <1>12
     DEF Next, vars, screenVars, hookVars, Commit, Recover, ServeBootstrap

-----------------------------------------------------------------------------
(* The results.                                                              *)

\* The browser starts with nothing on its screen.
LEMMA BrowserInit ==
  ASSUME Init
  PROVE  BrowserInv
<1> USE DEF Init
<1>1. log = << >> /\ Len(log) = 0
  OBVIOUS
<1>2. \A t \in Tasks : EventsOf(t, 0) = {}
  BY DEF EventsOf
<1>3. LogInv
  BY <1>1, <1>2 DEF LogInv
<1>4. BrowserTypeOK
  <2>1. NoDetail \in Details /\ NoRow \in Rows /\ Idle \in CallRecords
    BY DEF NoDetail, NoRow, Details, Rows, Idle, CallRecords
  <2>2. /\ recovery \in [stage : {"none", "sent", "served"}, at : Nat] /\ recovery.at = 0
        /\ calls \in [Calls -> CallRecords] /\ shown \in [Tasks -> Rows]
        /\ cancels \in [Tasks -> {"none", "pending", "error"}]
    BY <2>1
  <2>3. \A c \in Calls :
          /\ calls[c].at = 0 /\ calls[c].kind = "none" /\ calls[c].stage = "idle"
    BY DEF Idle
  <2>4. /\ applied = 0 /\ generation = 0 /\ fetched = 0 /\ selected = NoTask /\ loading = FALSE
        /\ detail \in Details /\ buffer = {}
    BY <2>1
  <2> HIDE DEF Init
  <2>5. \A c \in Calls :
          /\ calls[c].at <= Len(log)
          /\ calls[c].kind \notin {"detail", "cancel"} /\ calls[c].stage # "served"
    BY <1>1, <2>3
  <2>6. /\ applied \in Nat /\ applied <= Len(log) /\ selected \in Tasks \cup {NoTask}
        /\ generation \in Nat /\ fetched \in Nat /\ buffer \in SUBSET Nat
        /\ recovery.at <= Len(log)
    BY <1>1, <2>2, <2>4
  <2>7. loading \in BOOLEAN
    BY <2>4
  <2> QED
    BY <2>2, <2>4, <2>5, <2>6, <2>7 DEF BrowserTypeOK
<1>5. DetailInv /\ FetchInv
  BY DEF DetailInv, FetchInv, Idle
<1>6. ShownTasksAreCurrent
  <2>1. \A t \in Tasks : RowAt(t, 0) = NoRow
    BY <1>2 DEF RowAt
  <2> QED
    BY <1>1, <2>1 DEF ShownTasksAreCurrent
<1>7. CancelEndsWithTheTask
  BY DEF CancelEndsWithTheTask
<1> QED
  BY <1>3, <1>4, <1>5, <1>6, <1>7 DEF BrowserInv

\* The invariant holds always.
LEMMA BrowserHolds == Spec => []BrowserInv
<1>1. BrowserInv /\ [Next]_vars => BrowserInv'
  <2> SUFFICES ASSUME BrowserInv, [Next]_vars
               PROVE  BrowserInv'
    OBVIOUS
  <2>1. LogExtends
    BY LogStep
  <2>2. ShownTasksAreCurrent'
    BY <2>1, ShownStep
  <2> QED
    BY <2>1, <2>2, TypeStep, DetailStep, FetchStep, CancelStep DEF BrowserInv, LogExtends
<1> QED
  BY <1>1, BrowserInit, PTL DEF Spec

\* For any tasks, calls and numbers of events and selections, and however answers,
\* events and bootstraps overtake each other, the reducer shows every task as it was
\* at some time since the last event it applied.
THEOREM ScreenIsCurrent == Spec => []ShownTasksAreCurrent
<1>1. BrowserInv => ShownTasksAreCurrent
  BY DEF BrowserInv
<1> QED
  BY <1>1, BrowserHolds, PTL

\* The detail that installDetail puts on the screen, and applyEventToDetail keeps up to
\* date, is the history of the selected task without a gap or an event of another task.
THEOREM DetailsAreHistories == Spec => []DetailIsTheHistory
<1>1. BrowserInv => DetailIsTheHistory
  <2>1. SUFFICES ASSUME BrowserInv, detail # NoDetail
                 PROVE  /\ detail.task = selected
                        /\ \E n \in applied..Len(log) :
                             /\ detail.row = RowAt(selected, n)
                             /\ detail.events = EventsOf(selected, n)
    BY DEF DetailIsTheHistory
  <2>2. /\ detail.task = selected /\ selected \in Tasks /\ detail.cursor \in 0..Len(log)
        /\ detail.row = RowAt(selected, detail.cursor)
        /\ detail.events = EventsOf(selected, detail.cursor)
        /\ \A i \in 1..Len(log) : detail.cursor < i /\ i <= applied => log[i].task # selected
    BY <2>1 DEF BrowserInv, DetailInv
  <2>3. LogInv /\ applied \in 0..Len(log) /\ Len(log) \in Nat
    BY <2>1 DEF BrowserInv, BrowserTypeOK, LogInv
  <2>4. CASE detail.cursor >= applied
    BY <2>2, <2>3, <2>4
  <2>5. CASE detail.cursor <= applied
    <3>1. /\ EventsOf(selected, applied) = EventsOf(selected, detail.cursor)
          /\ RowAt(selected, applied) = RowAt(selected, detail.cursor)
      BY <2>2, <2>3, <2>5, QuietRow
    <3> QED
      BY <2>2, <2>3, <3>1
  <2> QED
    BY <2>2, <2>3, <2>4, <2>5
<1> QED
  BY <1>1, BrowserHolds, PTL

\* Whichever of the answer and the last event comes first, a cancellation that has been
\* answered leaves the screen when the events that were applied end its task.
THEOREM CancellationsEnd == Spec => []CancelEndsWithTheTask
<1>1. BrowserInv => CancelEndsWithTheTask
  BY DEF BrowserInv
<1> QED
  BY <1>1, BrowserHolds, PTL

=============================================================================
