------------------------ MODULE EventDispatcherProofs ------------------------
(* What the dispatcher promises its channel and its callers, for any number of *)
(* events, any page size and any callers: PublishedInOrder and                 *)
(* FlushMeansPublished, from the inductive invariant DispatcherInv.            *)
EXTENDS EventDispatcher, TLAPS

Commands == [ kind : {"close"} ] \cup [ kind : {"flush"}, by : Flushers ]

DispatcherStates ==
    [ pc : {"idle", "read", "publish", "closed"}, spawned : Nat, cursor : Nat,
      page : Seq(Nat), high : Nat, before : Nat,
      waiters : SUBSET Flushers, closing : BOOLEAN ]

\* The shape of the actor and of its mailbox.
Shape ==
    /\ dispatcher \in DispatcherStates
    /\ commands \in Seq(Commands)

\* A caller is in one place: its command is in the mailbox once and while it
\* waits, and it is then not yet among the waiters.
OnePlace ==
    /\ \A i \in 1..Len(commands) :
         commands[i].kind = "flush" =>
             /\ flusher[commands[i].by].status = "waiting"
             /\ commands[i].by \notin dispatcher.waiters
    /\ \A i, j \in 1..Len(commands) :
         /\ commands[i].kind = "flush" /\ commands[j].kind = "flush"
         /\ commands[i].by = commands[j].by
         => i = j

\* Consecutive ids, as they are in a page and on the channel.
Ids(after, n) == [ i \in 1..n |-> after + i ]

\* What is left of the page goes on where the cursor stands.
PageContinues ==
    \E n \in Nat :
        /\ dispatcher.cursor + n <= log
        /\ dispatcher.page = Ids(dispatcher.cursor, n)

DispatcherInv ==
    /\ DispatcherTypeOK
    /\ Shape
    /\ OnePlace
    /\ PageContinues
    /\ PublishedInOrder
    /\ FlushMeansPublished

-----------------------------------------------------------------------------
(* Runs of consecutive ids *)

\* The first of n + 1 consecutive ids, and the n that follow it.
LEMMA FirstOfIds ==
    ASSUME NEW after \in Nat, NEW n \in Nat, n # 0
    PROVE  /\ Ids(after, n) # << >>
           /\ Head(Ids(after, n)) = after + 1
           /\ Tail(Ids(after, n)) = Ids(after + 1, n - 1)
<1> DEFINE ids == Ids(after, n)
<1>1. ids \in Seq(Nat) /\ Len(ids) = n
  BY DEF Ids
<1>2. ids # << >> /\ Head(ids) = after + 1
  BY <1>1 DEF Ids
<1>3. /\ Tail(ids) \in Seq(Nat) /\ Len(Tail(ids)) = n - 1
      /\ \A i \in 1..(n - 1) : Tail(ids)[i] = (after + 1) + i
  BY <1>1 DEF Ids
<1>4. Tail(ids) = Ids(after + 1, n - 1)
  BY <1>3 DEF Ids
<1> QED
  BY <1>2, <1>4

\* A run of ids goes on with the next one.
LEMMA OneMoreId ==
    ASSUME NEW after \in Nat, NEW n \in Nat
    PROVE  Append(Ids(after, n), after + n + 1) = Ids(after, n + 1)
<1> DEFINE ids == Ids(after, n)
           more == Append(ids, after + n + 1)
<1>1. ids \in Seq(Nat) /\ Len(ids) = n
  BY DEF Ids
<1>2. /\ more \in Seq(Nat) /\ Len(more) = n + 1
      /\ \A i \in 1..(n + 1) : more[i] = after + i
  BY <1>1 DEF Ids
<1> QED
  BY <1>2 DEF Ids

\* events_after gives a run of ids that ends in the log.
LEMMA PageIsIds ==
    ASSUME log \in Nat, NEW after \in 0..log
    PROVE  \E n \in Nat : after + n <= log /\ events_after(after) = Ids(after, n)
<1> DEFINE n == Smaller(PageSize, IF after < log THEN log - after ELSE 0)
<1>1. n \in Nat /\ after + n <= log
  BY DispatcherAssumption DEF Smaller, DispatcherAssumption
<1>2. events_after(after) = Ids(after, n)
  BY DEF events_after, Ids
<1> QED
  BY <1>1, <1>2

-----------------------------------------------------------------------------
(* The invariant holds at the start *)

\* A dispatcher starts at the end of the log, with nothing in hand.
LEMMA DispatcherInvInit ==
    ASSUME DispatcherInit
    PROVE  DispatcherInv
<1> USE DEF DispatcherInit
<1>1. DispatcherTypeOK
  <2>1. log \in 0..MaxEvents /\ log \in Nat /\ readErrors \in 0..MaxReadErrors
    BY DispatcherAssumption DEF DispatcherAssumption
  <2>2. flusher \in [ Flushers -> FlusherStates ]
    BY DispatcherAssumption DEF DispatcherAssumption, FlusherStates
  <2>3. /\ dispatcher.pc = "idle" /\ dispatcher.spawned = log /\ dispatcher.cursor = log
        /\ dispatcher.high = 0 /\ dispatcher.before = 0 /\ dispatcher.waiters = {}
    OBVIOUS
  <2>4. log \in log..log /\ 0 \in 0..log
    BY <2>1
  <2>5. wakeOwed \in BOOLEAN /\ permit \in BOOLEAN
    OBVIOUS
  <2> QED
    BY <2>1, <2>2, <2>3, <2>4, <2>5, Zenon DEF DispatcherTypeOK
<1>2. Shape
  BY DEF Shape, DispatcherStates
<1>3. OnePlace
  BY DEF OnePlace
<1>4. PageContinues
  <2>1. << >> = Ids(dispatcher.cursor, 0) /\ dispatcher.page = << >>
    BY DEF Ids
  <2> QED
    BY <2>1 DEF PageContinues
<1>5. PublishedInOrder
  <2>1. dispatcher.cursor - dispatcher.spawned = 0
    OBVIOUS
  <2> QED
    BY <2>1 DEF PublishedInOrder
<1>6. FlushMeansPublished
  BY DEF FlushMeansPublished
<1> QED
  BY <1>1, <1>2, <1>3, <1>4, <1>5, <1>6 DEF DispatcherInv

-----------------------------------------------------------------------------
(* The step *)

\* What the invariant says of the actor's types, in the form the steps need.
LEMMA Typed ==
    ASSUME DispatcherInv
    PROVE  /\ dispatcher \in DispatcherStates /\ commands \in Seq(Commands)
           /\ log \in Nat /\ MaxEvents \in Nat
           /\ dispatcher.spawned <= dispatcher.cursor /\ dispatcher.cursor \in 0..log
           /\ dispatcher.waiters \subseteq Flushers
BY DispatcherAssumption
DEF DispatcherAssumption, DispatcherInv, DispatcherTypeOK, Shape, DispatcherStates

\* Every action keeps the shape of the actor and of its mailbox.
LEMMA ShapeStep ==
    ASSUME DispatcherInv, [DispatcherNext]_dispatcherVars
    PROVE  Shape'
<1>a. /\ dispatcher \in DispatcherStates /\ commands \in Seq(Commands)
      /\ log \in Nat /\ dispatcher.cursor \in 0..log /\ dispatcher.waiters \subseteq Flushers
  BY Typed
<1> USE <1>a DEF Shape, DispatcherStates
<1>1. CASE Commit
  BY <1>1 DEF Commit
<1>2. CASE Wake
  BY <1>2 DEF Wake
<1>3. ASSUME NEW f \in Flushers, BeginFlush(f)
      PROVE  Shape'
  BY <1>3 DEF BeginFlush
<1>4. ASSUME NEW f \in Flushers, SendFlush(f)
      PROVE  Shape'
  <2>1. FlushCommand(f) \in Commands
    BY DEF FlushCommand, Commands
  <2>2. commands' = commands \/ commands' = Append(commands, FlushCommand(f))
    BY <1>4 DEF SendFlush
  <2>3. commands' \in Seq(Commands)
    <3> HIDE DEF DispatcherStates, Shape
    <3>1. Append(commands, FlushCommand(f)) \in Seq(Commands)
      BY <2>1
    <3> QED
      BY <2>2, <3>1
  <2>4. dispatcher' = dispatcher
    BY <1>4 DEF SendFlush
  <2> QED
    BY <2>3, <2>4
<1>5. CASE close
  <2>1. CloseCommand \in Commands
    BY DEF CloseCommand, Commands
  <2>2. commands' \in Seq(Commands)
    BY <2>1, <1>5 DEF close
  <2>3. dispatcher' \in DispatcherStates
    BY <1>5 DEF close
  <2> QED
    BY <2>2, <2>3
<1>6. CASE TakeFlush
  <2> DEFINE f == Head(commands).by
  <2>1. Head(commands) \in Commands /\ commands' \in Seq(Commands)
    BY <1>6 DEF TakeFlush
  <2>2. f \in Flushers
    BY <2>1, <1>6 DEF TakeFlush, Commands
  <2>3. \/ dispatcher' = dispatcher
        \/ dispatcher' = [ dispatcher EXCEPT !.pc = "read", !.waiters = @ \cup {f} ]
    BY <1>6 DEF TakeFlush
  <2>4. dispatcher' \in DispatcherStates
    <3>1. CASE dispatcher' = dispatcher
      BY <3>1
    <3>2. CASE dispatcher' = [ dispatcher EXCEPT !.pc = "read", !.waiters = @ \cup {f} ]
      <4>1. dispatcher.waiters \cup {f} \in SUBSET Flushers
        BY <2>2
      <4> HIDE DEF f
      <4> QED
        BY <3>2, <4>1
    <3> QED
      BY <2>3, <3>1, <3>2
  <2> QED
    BY <2>1, <2>4
<1>7. CASE TakeClose
  <2>1. commands' \in Seq(Commands)
    BY <1>7 DEF TakeClose
  <2>2. dispatcher' \in DispatcherStates
    BY <1>7 DEF TakeClose
  <2> QED
    BY <2>1, <2>2
<1>8. CASE TakeWake
  BY <1>8 DEF TakeWake
<1>9. CASE Poll
  BY <1>9 DEF Poll
<1>10. CASE ReadPage
  <2>1. events_after(dispatcher.cursor) \in Seq(Nat)
    BY PageIsIds DEF Ids
  <2> QED
    BY <2>1, <1>10 DEF ReadPage
<1>11. CASE Publish
  <2>1. Head(dispatcher.page) \in Nat /\ Tail(dispatcher.page) \in Seq(Nat)
    BY <1>11 DEF Publish
  <2> QED
    BY <2>1, <1>11 DEF Publish
<1>12. CASE EndPage
  BY <1>12 DEF EndPage
<1>13. CASE ReadFails
  BY <1>13 DEF ReadFails
<1>14. CASE UNCHANGED dispatcherVars
  BY <1>14 DEF dispatcherVars
<1> QED
  BY <1>1, <1>2, <1>3, <1>4, <1>5, <1>6, <1>7,
     <1>8, <1>9, <1>10, <1>11, <1>12, <1>13, <1>14
  DEF DispatcherNext, CallerStep, TakeCommand, ActorStep

\* The page stays a continuation of the cursor and the channel the trace of it;
\* so the cursor never goes back.
LEMMA ChannelStep ==
    ASSUME DispatcherInv, [DispatcherNext]_dispatcherVars
    PROVE  /\ PageContinues' /\ PublishedInOrder'
           /\ dispatcher'.spawned = dispatcher.spawned
           /\ dispatcher'.cursor >= dispatcher.cursor
<1>a. PageContinues /\ PublishedInOrder
  BY DEF DispatcherInv
<1> DEFINE Goal == /\ PageContinues' /\ PublishedInOrder'
                   /\ dispatcher'.spawned = dispatcher.spawned
                   /\ dispatcher'.cursor >= dispatcher.cursor
           Quiet == /\ dispatcher'.cursor = dispatcher.cursor
                    /\ dispatcher'.page = dispatcher.page
                    /\ dispatcher'.spawned = dispatcher.spawned
                    /\ log' \in Nat /\ log' >= log /\ published' = published
<1>b. ASSUME Quiet PROVE Goal
  <2>1. PICK n \in Nat : /\ dispatcher.cursor + n <= log
                        /\ dispatcher.page = Ids(dispatcher.cursor, n)
    BY <1>a DEF PageContinues
  <2>2. dispatcher'.cursor + n <= log' /\ dispatcher'.page = Ids(dispatcher'.cursor, n)
    BY <1>b, <2>1, Typed DEF DispatcherStates
  <2>3. PageContinues'
    BY <2>2 DEF PageContinues, Ids
  <2>4. PublishedInOrder'
    BY <1>a, <1>b DEF PublishedInOrder
  <2> QED
    BY <1>b, <2>3, <2>4, Typed DEF DispatcherStates
<1>1. CASE Commit
  <2>1. Quiet
    BY <1>1, Typed DEF Commit, DispatcherStates
  <2> QED
    BY <2>1, <1>b
<1>2. CASE Wake
  <2>1. Quiet
    BY <1>2, Typed DEF Wake, DispatcherStates
  <2> QED
    BY <2>1, <1>b
<1>3. ASSUME NEW f \in Flushers, BeginFlush(f)
      PROVE  Goal
  <2>1. Quiet
    BY <1>3, Typed DEF BeginFlush, DispatcherStates
  <2> QED
    BY <2>1, <1>b
<1>4. ASSUME NEW f \in Flushers, SendFlush(f)
      PROVE  Goal
  <2>1. Quiet
    BY <1>4, Typed DEF SendFlush, DispatcherStates
  <2> QED
    BY <2>1, <1>b
<1>5. CASE close
  <2>1. Quiet
    BY <1>5, Typed DEF close, DispatcherStates
  <2> QED
    BY <2>1, <1>b
<1>6. CASE TakeFlush
  <2> DEFINE f == Head(commands).by
  <2>1. \/ dispatcher' = dispatcher
        \/ dispatcher' = [ dispatcher EXCEPT !.pc = "read", !.waiters = @ \cup {f} ]
    BY <1>6 DEF TakeFlush
  <2>2. log' = log /\ published' = published
    BY <1>6 DEF TakeFlush
  <2> HIDE DEF f
  <2>3. dispatcher \in DispatcherStates /\ log \in Nat
    BY Typed
  <2>4. Quiet
    <3>1. CASE dispatcher' = dispatcher
      BY <2>2, <2>3, <3>1
    <3>2. CASE dispatcher' = [ dispatcher EXCEPT !.pc = "read", !.waiters = @ \cup {f} ]
      BY <2>2, <2>3, <3>2 DEF DispatcherStates
    <3> QED
      BY <2>1, <3>1, <3>2
  <2> QED
    BY <2>4, <1>b
<1>7. CASE TakeClose
  <2>1. Quiet
    BY <1>7, Typed DEF TakeClose, DispatcherStates
  <2> QED
    BY <2>1, <1>b
<1>8. CASE TakeWake
  <2>1. Quiet
    BY <1>8, Typed DEF TakeWake, DispatcherStates
  <2> QED
    BY <2>1, <1>b
<1>9. CASE Poll
  <2>1. Quiet
    BY <1>9, Typed DEF Poll, DispatcherStates
  <2> QED
    BY <2>1, <1>b
<1>10. CASE ReadPage
  <2>1. PICK n \in Nat : /\ dispatcher.cursor + n <= log
                        /\ events_after(dispatcher.cursor) = Ids(dispatcher.cursor, n)
    BY Typed, PageIsIds
  <2>2. /\ dispatcher'.cursor = dispatcher.cursor
        /\ dispatcher'.page = Ids(dispatcher.cursor, n)
        /\ dispatcher'.spawned = dispatcher.spawned
        /\ log' = log /\ published' = published
    BY <2>1, Typed, <1>10 DEF ReadPage, DispatcherStates
  <2>3. PageContinues'
    BY <2>1, <2>2 DEF PageContinues, Ids
  <2>4. PublishedInOrder'
    BY <1>a, <2>2 DEF PublishedInOrder
  <2> QED
    BY <2>2, <2>3, <2>4, Typed DEF DispatcherStates
<1>11. CASE Publish
  <2>1. PICK n \in Nat : /\ dispatcher.cursor + n <= log
                        /\ dispatcher.page = Ids(dispatcher.cursor, n)
    BY <1>a DEF PageContinues
  <2> DEFINE sent == dispatcher.cursor - dispatcher.spawned
  <2>2. dispatcher.cursor \in Nat /\ dispatcher.spawned \in Nat /\ sent \in Nat
    BY Typed DEF DispatcherStates
  <2>3. n # 0
    BY <2>1, <1>11 DEF Publish, Ids
  <2>4. /\ Head(dispatcher.page) = dispatcher.cursor + 1
        /\ Tail(dispatcher.page) = Ids(dispatcher.cursor + 1, n - 1)
    BY <2>1, <2>2, <2>3, FirstOfIds, ZenonT(40)
  <2>5. /\ published' = Append(published, dispatcher.cursor + 1)
        /\ dispatcher'.cursor = dispatcher.cursor + 1
        /\ dispatcher'.page = Ids(dispatcher.cursor + 1, n - 1)
        /\ dispatcher'.spawned = dispatcher.spawned
        /\ log' = log
    BY <2>4, Typed, <1>11 DEF Publish, DispatcherStates
  <2>6. PageContinues'
    <3>1. n - 1 \in Nat /\ dispatcher'.cursor + (n - 1) <= log'
      BY <2>1, <2>2, <2>3, <2>5, Typed
    <3> QED
      BY <2>5, <3>1 DEF PageContinues, Ids
  <2>7. PublishedInOrder'
    <3>1. published = Ids(dispatcher.spawned, sent)
      BY <1>a DEF PublishedInOrder, Ids
    <3>2. Append(published, dispatcher.spawned + sent + 1) = Ids(dispatcher.spawned, sent + 1)
      BY <2>2, <3>1, OneMoreId
    <3>3. /\ dispatcher.spawned + sent + 1 = dispatcher.cursor + 1
          /\ dispatcher'.cursor - dispatcher'.spawned = sent + 1
      BY <2>2, <2>5
    <3>4. published' = Ids(dispatcher.spawned, sent + 1)
      BY <2>5, <3>2, <3>3
    <3> QED
      BY <2>5, <3>3, <3>4 DEF PublishedInOrder, Ids
  <2> QED
    BY <2>2, <2>5, <2>6, <2>7
<1>12. CASE EndPage
  <2>1. Quiet
    BY <1>12, Typed DEF EndPage, DispatcherStates
  <2> QED
    BY <2>1, <1>b
<1>13. CASE ReadFails
  <2>1. Quiet
    BY <1>13, Typed DEF ReadFails, DispatcherStates
  <2> QED
    BY <2>1, <1>b
<1>14. CASE UNCHANGED dispatcherVars
  <2>1. Quiet
    BY <1>14, Typed DEF dispatcherVars, DispatcherStates
  <2> QED
    BY <2>1, <1>b
<1> QED
  BY <1>1, <1>2, <1>3, <1>4, <1>5, <1>6, <1>7,
     <1>8, <1>9, <1>10, <1>11, <1>12, <1>13, <1>14
  DEF DispatcherNext, CallerStep, TakeCommand, ActorStep

\* Answering callers changes their status and nothing else.
LEMMA AnsweredIs ==
    ASSUME flusher \in [ Flushers -> FlusherStates ], NEW callers,
           NEW status \in {"ok", "failed", "closed"}
    PROVE  /\ Answered(callers, status) \in [ Flushers -> FlusherStates ]
           /\ \A f \in Flushers :
                /\ Answered(callers, status)[f].target = flusher[f].target
                /\ Answered(callers, status)[f].status =
                     IF f \in callers THEN status ELSE flusher[f].status
<1>1. ASSUME NEW f \in Flushers
      PROVE  /\ [ flusher[f] EXCEPT !.status = status ] \in FlusherStates
             /\ [ flusher[f] EXCEPT !.status = status ].target = flusher[f].target
             /\ [ flusher[f] EXCEPT !.status = status ].status = status
  <2>1. flusher[f] \in FlusherStates
    OBVIOUS
  <2> QED
    BY <2>1 DEF FlusherStates
<1> QED
  BY <1>1 DEF Answered

\* What each action does to the callers: it keeps their type, answers only
\* waiting ones, and answers ok only those whose target the cursor has reached.
LEMMA CallersStep ==
    ASSUME DispatcherInv, [DispatcherNext]_dispatcherVars
    PROVE  flusher' \in [ Flushers -> FlusherStates ] /\ FlushMeansPublished'
<1>a. /\ flusher \in [ Flushers -> FlusherStates ] /\ FlushMeansPublished
      /\ dispatcher'.cursor >= dispatcher.cursor
      /\ dispatcher'.cursor \in Nat /\ dispatcher.cursor \in Nat
      /\ MaxEvents \in Nat /\ log \in 0..MaxEvents
  BY Typed, ChannelStep, ShapeStep DEF DispatcherInv, DispatcherTypeOK, DispatcherStates, Shape
<1> DEFINE Goal == flusher' \in [ Flushers -> FlusherStates ] /\ FlushMeansPublished'
<1>b. ASSUME flusher' = flusher PROVE Goal
  BY <1>a, <1>b DEF FlushMeansPublished, FlusherStates
<1>c. ASSUME NEW callers, NEW status \in {"ok", "failed", "closed"},
             flusher' = Answered(callers, status),
             status = "ok" => \A f \in callers \cap Flushers : flusher[f].target <= dispatcher'.cursor
      PROVE  Goal
  <2>1. /\ flusher' \in [ Flushers -> FlusherStates ]
        /\ \A f \in Flushers : /\ flusher'[f].target = flusher[f].target
                               /\ flusher'[f].status =
                                    IF f \in callers THEN status ELSE flusher[f].status
    BY <1>a, <1>c, AnsweredIs
  <2>2. ASSUME NEW f \in Flushers, flusher'[f].status = "ok"
        PROVE  flusher'[f].target <= dispatcher'.cursor
    <3>1. CASE f \in callers
      BY <1>c, <2>1, <2>2, <3>1
    <3>2. CASE f \notin callers
      <4>1. flusher[f].target <= dispatcher.cursor /\ flusher[f].target \in Nat
        BY <1>a, <2>1, <2>2, <3>2 DEF FlushMeansPublished, FlusherStates
      <4> QED
        BY <1>a, <2>1, <4>1
    <3> QED
      BY <3>1, <3>2
  <2> QED
    BY <2>1, <2>2 DEF FlushMeansPublished
<1>1. CASE Commit
  <2>1. flusher' = flusher
    BY <1>1 DEF Commit
  <2> QED
    BY <2>1, <1>b
<1>2. CASE Wake
  <2>1. flusher' = flusher
    BY <1>2 DEF Wake
  <2> QED
    BY <2>1, <1>b
<1>3. ASSUME NEW f \in Flushers, BeginFlush(f)
      PROVE  Goal
  <2>1. PICK target \in 1..log :
          flusher' = [ flusher EXCEPT ![f] =
              [ status |-> IF dispatcher.closing THEN "closed" ELSE "checked",
                target |-> target ] ]
    BY <1>3 DEF BeginFlush
  <2>2. /\ flusher' \in [ Flushers -> FlusherStates ] /\ flusher'[f].status # "ok"
        /\ \A g \in Flushers \ {f} : flusher'[g] = flusher[g]
    BY <1>a, <2>1 DEF FlusherStates
  <2>3. dispatcher' = dispatcher
    BY <1>3 DEF BeginFlush
  <2> QED
    BY <1>a, <2>2, <2>3 DEF FlushMeansPublished
<1>4. ASSUME NEW f \in Flushers, SendFlush(f)
      PROVE  Goal
  <2>1. \/ flusher' = [ flusher EXCEPT ![f].status = "closed" ]
        \/ flusher' = [ flusher EXCEPT ![f].status = "waiting" ]
    BY <1>4 DEF SendFlush
  <2>2. flusher[f] \in FlusherStates
    BY <1>a
  <2>3. /\ flusher' \in [ Flushers -> FlusherStates ] /\ flusher'[f].status # "ok"
        /\ \A g \in Flushers \ {f} : flusher'[g] = flusher[g]
    BY <1>a, <2>1, <2>2 DEF FlusherStates
  <2>4. dispatcher' = dispatcher
    BY <1>4 DEF SendFlush
  <2> QED
    BY <1>a, <2>3, <2>4 DEF FlushMeansPublished
<1>5. CASE close
  <2>1. flusher' = flusher
    BY <1>5 DEF close
  <2> QED
    BY <2>1, <1>b
<1>6. CASE TakeFlush
  <2> DEFINE f == Head(commands).by
  <2>1. CASE dispatcher.cursor >= flusher[f].target
    <3>1. flusher' = Answered({f}, "ok") /\ dispatcher' = dispatcher
      BY <2>1, <1>6 DEF TakeFlush
    <3>2. \A g \in {f} \cap Flushers : flusher[g].target <= dispatcher'.cursor
      BY <1>a, <2>1, <3>1 DEF FlusherStates
    <3> HIDE DEF f
    <3> QED
      BY <1>c, <3>1, <3>2
  <2>2. CASE ~(dispatcher.cursor >= flusher[f].target)
    BY <1>b, <2>2, <1>6 DEF TakeFlush
  <2> QED
    BY <2>1, <2>2
<1>7. CASE TakeClose
  <2>1. \E callers : flusher' = Answered(callers, "closed")
    BY <1>7 DEF TakeClose
  <2> QED
    BY <1>c, <2>1
<1>8. CASE TakeWake
  <2>1. flusher' = flusher
    BY <1>8 DEF TakeWake
  <2> QED
    BY <2>1, <1>b
<1>9. CASE Poll
  <2>1. flusher' = flusher
    BY <1>9 DEF Poll
  <2> QED
    BY <2>1, <1>b
<1>10. CASE ReadPage
  <2>1. flusher' = flusher
    BY <1>10 DEF ReadPage
  <2> QED
    BY <2>1, <1>b
<1>11. CASE Publish
  <2> DEFINE id == Head(dispatcher.page)
  <2>1. flusher' = Answered(Reached(id), "ok")
    BY <1>11 DEF Publish
  <2>2. dispatcher'.cursor = id
    BY Typed, <1>11 DEF Publish, DispatcherStates
  <2>3. \A f \in Reached(id) \cap Flushers : flusher[f].target <= dispatcher'.cursor
    BY <1>a, <2>2 DEF Reached, FlusherStates
  <2> HIDE DEF id
  <2> QED
    BY <1>c, <2>1, <2>3
<1>12. CASE EndPage
  <2>1. flusher' = flusher
    BY <1>12 DEF EndPage
  <2> QED
    BY <2>1, <1>b
<1>13. CASE ReadFails
  <2>1. flusher' = Answered(dispatcher.waiters, "failed")
    BY <1>13 DEF ReadFails
  <2> QED
    BY <1>c, <2>1
<1>14. CASE UNCHANGED dispatcherVars
  <2>1. flusher' = flusher
    BY <1>14 DEF dispatcherVars
  <2> QED
    BY <2>1, <1>b
<1> QED
  BY <1>1, <1>2, <1>3, <1>4, <1>5, <1>6, <1>7,
     <1>8, <1>9, <1>10, <1>11, <1>12, <1>13, <1>14
  DEF DispatcherNext, CallerStep, TakeCommand, ActorStep

\* The command is taken from the mailbox, or added to it, together with the
\* caller's own state, so a caller never waits in two places.
LEMMA OnePlaceStep ==
    ASSUME DispatcherInv, [DispatcherNext]_dispatcherVars
    PROVE  /\ OnePlace'
           /\ (dispatcher.waiters \subseteq { f \in Flushers : flusher[f].status = "waiting" })'
<1> DEFINE WaitersWait ==
             dispatcher.waiters \subseteq { f \in Flushers : flusher[f].status = "waiting" }
           Goal == OnePlace' /\ WaitersWait'
           Flush(i) == commands[i].kind = "flush"
           By(i) == commands[i].by
<1>a. /\ flusher \in [ Flushers -> FlusherStates ] /\ flusher' \in [ Flushers -> FlusherStates ]
      /\ dispatcher \in DispatcherStates /\ commands \in Seq(Commands)
      /\ OnePlace /\ WaitersWait
  BY Typed, CallersStep DEF DispatcherInv, DispatcherTypeOK
<1>by. ASSUME NEW i \in 1..Len(commands), Flush(i)
       PROVE  By(i) \in Flushers
  <2>1. commands[i] \in Commands
    BY <1>a
  <2> QED
    BY <1>by, <2>1 DEF Commands
\* A step that leaves the mailbox and the waiting callers alone, but may answer waiters.
<1>b. ASSUME commands' = commands, dispatcher'.waiters \subseteq dispatcher.waiters,
             \A f \in Flushers : flusher[f].status = "waiting" /\ flusher'[f].status # "waiting" =>
                 f \in dispatcher.waiters \ dispatcher'.waiters
      PROVE  Goal
  <2>1. WaitersWait'
    BY <1>a, <1>b
  <2>2. ASSUME NEW i \in 1..Len(commands), Flush(i)
        PROVE  /\ flusher'[By(i)].status = "waiting"
               /\ By(i) \notin dispatcher'.waiters
    <3>1. flusher[By(i)].status = "waiting" /\ By(i) \notin dispatcher.waiters
      BY <1>a, <2>2 DEF OnePlace
    <3> QED
      BY <1>b, <1>by, <2>2, <3>1
  <2> QED
    BY <1>a, <1>b, <2>1, <2>2 DEF OnePlace
<1>1. CASE Commit
  <2>1. /\ commands' = commands /\ flusher' = flusher
        /\ dispatcher'.waiters = dispatcher.waiters
    BY <1>a, <1>1 DEF Commit, DispatcherStates
  <2> QED
    BY <1>b, <2>1
<1>2. CASE Wake
  <2>1. /\ commands' = commands /\ flusher' = flusher
        /\ dispatcher'.waiters = dispatcher.waiters
    BY <1>a, <1>2 DEF Wake, DispatcherStates
  <2> QED
    BY <1>b, <2>1
<1>3. ASSUME NEW f \in Flushers, BeginFlush(f)
      PROVE  Goal
  <2>1. /\ commands' = commands /\ dispatcher' = dispatcher /\ flusher[f].status = "idle"
        /\ \A g \in Flushers \ {f} : flusher'[g] = flusher[g]
    BY <1>a, <1>3 DEF BeginFlush
  <2> QED
    BY <1>b, <2>1
<1>4. ASSUME NEW f \in Flushers, SendFlush(f)
      PROVE  Goal
  <2>1. /\ dispatcher' = dispatcher /\ flusher[f].status = "checked"
        /\ \A g \in Flushers \ {f} : flusher'[g] = flusher[g]
    BY <1>a, <1>4 DEF SendFlush
  <2>2. CASE commands' = commands
    BY <1>b, <2>1, <2>2
  <2>3. CASE commands' # commands
    <3>1. /\ commands' = Append(commands, FlushCommand(f))
          /\ flusher' = [ flusher EXCEPT ![f].status = "waiting" ]
      BY <2>3, <1>4 DEF SendFlush
    <3>2. flusher'[f].status = "waiting"
      BY <1>a, <3>1 DEF FlusherStates
    <3>3. WaitersWait' /\ f \notin dispatcher'.waiters
      BY <1>a, <2>1, <3>2
    <3> DEFINE n == Len(commands)
    <3>4. /\ n \in Nat /\ Len(commands') = n + 1
          /\ \A i \in 1..n : commands'[i] = commands[i]
          /\ commands'[n + 1].kind = "flush" /\ commands'[n + 1].by = f
      <4>1. FlushCommand(f).kind = "flush" /\ FlushCommand(f).by = f
        BY DEF FlushCommand
      <4> QED
        BY <1>a, <3>1, <4>1
    <3>5. ASSUME NEW i \in 1..n, Flush(i)
          PROVE  /\ By(i) # f /\ flusher'[By(i)].status = "waiting"
                 /\ By(i) \notin dispatcher'.waiters
      <4>1. flusher[By(i)].status = "waiting" /\ By(i) \notin dispatcher.waiters
        BY <1>a, <3>5 DEF OnePlace
      <4> QED
        BY <1>by, <2>1, <3>5, <4>1
    <3> HIDE DEF n
    <3>6. \A i \in 1..(n + 1) : i \in 1..n \/ i = n + 1
      BY <3>4
    <3>7. ASSUME NEW i \in 1..(n + 1), commands'[i].kind = "flush"
          PROVE  /\ flusher'[commands'[i].by].status = "waiting"
                 /\ commands'[i].by \notin dispatcher'.waiters
      BY <3>2, <3>3, <3>4, <3>5, <3>6, <3>7
    <3>8. ASSUME NEW i \in 1..(n + 1), NEW j \in 1..(n + 1),
                 commands'[i].kind = "flush", commands'[j].kind = "flush",
                 commands'[i].by = commands'[j].by
          PROVE  i = j
      <4>1. CASE i \in 1..n /\ j \in 1..n
        BY <1>a, <3>4, <3>8, <4>1 DEF OnePlace, n
      <4>2. CASE i = n + 1 \/ j = n + 1
        BY <3>4, <3>5, <3>6, <3>8, <4>2
      <4> QED
        BY <3>6, <4>1, <4>2
    <3> QED
      BY <3>3, <3>4, <3>7, <3>8 DEF OnePlace
  <2> QED
    BY <2>2, <2>3
<1>5. CASE close
  <2>1. /\ commands' = Append(commands, CloseCommand) /\ flusher' = flusher
        /\ dispatcher'.waiters = dispatcher.waiters
    BY <1>a, <1>5 DEF close, DispatcherStates
  <2>2. /\ Len(commands') = Len(commands) + 1 /\ Len(commands) \in Nat
        /\ \A i \in 1..Len(commands) : commands'[i] = commands[i]
        /\ commands'[Len(commands) + 1].kind # "flush"
    BY <1>a, <2>1 DEF CloseCommand
  <2>3. \A i \in 1..Len(commands') :
          commands'[i].kind = "flush" => i \in 1..Len(commands) /\ commands'[i] = commands[i]
    BY <2>2
  <2> QED
    BY <1>a, <2>1, <2>2, <2>3 DEF OnePlace
<1>6. CASE TakeFlush
  <2> DEFINE f == Head(commands).by
  <2>1. /\ commands # << >> /\ commands' = Tail(commands)
        /\ Head(commands) = commands[1] /\ 1 \in 1..Len(commands)
        /\ Flush(1) /\ By(1) = f
    BY <1>a, <1>6 DEF TakeFlush
  <2>2. /\ f \in Flushers /\ flusher[f].status = "waiting" /\ f \notin dispatcher.waiters
    BY <1>a, <1>by, <2>1 DEF OnePlace
  <2>3. /\ dispatcher'.waiters \subseteq dispatcher.waiters \cup {f}
        /\ \A g \in Flushers \ {f} : flusher'[g].status = flusher[g].status
        /\ f \in dispatcher'.waiters => flusher' = flusher
    <3>1. CASE dispatcher.cursor >= flusher[f].target
      <4>1. flusher' = Answered({f}, "ok") /\ dispatcher' = dispatcher
        BY <3>1, <1>6 DEF TakeFlush
      <4> HIDE DEF f
      <4> QED
        BY <1>a, <2>2, <4>1, AnsweredIs
    <3>2. CASE ~(dispatcher.cursor >= flusher[f].target)
      <4>1. /\ flusher' = flusher
            /\ dispatcher' = [ dispatcher EXCEPT !.pc = "read", !.waiters = @ \cup {f} ]
        BY <3>2, <1>6 DEF TakeFlush
      <4> HIDE DEF f
      <4> QED
        BY <1>a, <4>1 DEF DispatcherStates
    <3> QED
      BY <3>1, <3>2
  <2> HIDE DEF f
  <2>4. WaitersWait'
    BY <1>a, <2>2, <2>3
  <2>5. /\ Len(commands) \in Nat /\ Len(commands') = Len(commands) - 1
        /\ \A i \in 1..Len(commands') :
             i + 1 \in 1..Len(commands) /\ i + 1 # 1 /\ commands'[i] = commands[i + 1]
    BY <1>a, <2>1
  <2>6. ASSUME NEW k \in 1..Len(commands), k # 1, Flush(k)
        PROVE  /\ flusher'[By(k)].status = "waiting"
               /\ By(k) \notin dispatcher'.waiters
    <3>1. By(k) # f
      BY <1>a, <2>1, <2>6 DEF OnePlace
    <3>2. flusher[By(k)].status = "waiting" /\ By(k) \notin dispatcher.waiters
      BY <1>a, <2>6 DEF OnePlace
    <3> QED
      BY <1>by, <2>3, <2>6, <3>1, <3>2
  <2>7. ASSUME NEW i \in 1..Len(commands'), commands'[i].kind = "flush"
        PROVE  /\ flusher'[commands'[i].by].status = "waiting"
               /\ commands'[i].by \notin dispatcher'.waiters
    BY <2>5, <2>6, <2>7
  <2>8. ASSUME NEW i \in 1..Len(commands'), NEW j \in 1..Len(commands'),
               commands'[i].kind = "flush", commands'[j].kind = "flush",
               commands'[i].by = commands'[j].by
        PROVE  i = j
    <3>1. i + 1 = j + 1
      BY <1>a, <2>5, <2>8 DEF OnePlace
    <3> QED
      BY <2>5, <3>1
  <2> QED
    BY <2>4, <2>7, <2>8 DEF OnePlace
<1>7. CASE TakeClose
  <2>1. commands' = << >> /\ dispatcher'.waiters = {}
    BY <1>a, <1>7 DEF TakeClose, DispatcherStates
  <2> QED
    BY <2>1 DEF OnePlace
<1>8. CASE TakeWake
  <2>1. /\ commands' = commands /\ flusher' = flusher
        /\ dispatcher'.waiters = dispatcher.waiters
    BY <1>a, <1>8 DEF TakeWake, DispatcherStates
  <2> QED
    BY <1>b, <2>1
<1>9. CASE Poll
  <2>1. /\ commands' = commands /\ flusher' = flusher
        /\ dispatcher'.waiters = dispatcher.waiters
    BY <1>a, <1>9 DEF Poll, DispatcherStates
  <2> QED
    BY <1>b, <2>1
<1>10. CASE ReadPage
  <2>1. /\ commands' = commands /\ flusher' = flusher
        /\ dispatcher'.waiters = dispatcher.waiters
    BY <1>a, <1>10 DEF ReadPage, DispatcherStates
  <2> QED
    BY <1>b, <2>1
<1>11. CASE Publish
  <2> DEFINE id == Head(dispatcher.page)
  <2>1. commands' = commands /\ flusher' = Answered(Reached(id), "ok")
    BY <1>11 DEF Publish
  <2>2. dispatcher'.waiters = dispatcher.waiters \ Reached(id)
    BY <1>a, <1>11 DEF Publish, DispatcherStates
  <2>3. Reached(id) \subseteq dispatcher.waiters
    BY DEF Reached
  <2> HIDE DEF id
  <2>4. \A f \in Flushers : f \notin Reached(id) => flusher'[f].status = flusher[f].status
    BY <1>a, <2>1, AnsweredIs
  <2> QED
    BY <1>b, <2>1, <2>2, <2>3, <2>4
<1>12. CASE EndPage
  <2>1. /\ commands' = commands /\ flusher' = flusher
        /\ dispatcher'.waiters = dispatcher.waiters
    BY <1>a, <1>12 DEF EndPage, DispatcherStates
  <2> QED
    BY <1>b, <2>1
<1>13. CASE ReadFails
  <2>1. commands' = commands /\ flusher' = Answered(dispatcher.waiters, "failed")
    BY <1>13 DEF ReadFails
  <2>2. dispatcher'.waiters = {}
    BY <1>a, <1>13 DEF ReadFails, DispatcherStates
  <2>3. \A f \in Flushers : f \notin dispatcher.waiters => flusher'[f].status = flusher[f].status
    BY <1>a, <2>1, AnsweredIs
  <2> QED
    BY <1>b, <2>1, <2>2, <2>3
<1>14. CASE UNCHANGED dispatcherVars
  <2>1. /\ commands' = commands /\ flusher' = flusher
        /\ dispatcher'.waiters = dispatcher.waiters
    BY <1>a, <1>14 DEF dispatcherVars, DispatcherStates
  <2> QED
    BY <1>b, <2>1
<1> QED
  BY <1>1, <1>2, <1>3, <1>4, <1>5, <1>6, <1>7,
     <1>8, <1>9, <1>10, <1>11, <1>12, <1>13, <1>14
  DEF DispatcherNext, CallerStep, TakeCommand, ActorStep

\* What is left of the type invariant: the log and the numbers bounded by it.
LEMMA TypeStep ==
    ASSUME DispatcherInv, [DispatcherNext]_dispatcherVars
    PROVE  DispatcherTypeOK'
<1> DEFINE Goal == /\ log' \in 0..MaxEvents /\ log' >= log
                   /\ wakeOwed' \in BOOLEAN /\ permit' \in BOOLEAN
                   /\ readErrors' \in 0..MaxReadErrors
                   /\ dispatcher'.high \in 0..log' /\ dispatcher'.before \in 0..log'
<1>a. /\ dispatcher \in DispatcherStates /\ MaxEvents \in Nat /\ MaxReadErrors \in Nat
      /\ log \in 0..MaxEvents /\ readErrors \in 0..MaxReadErrors
      /\ wakeOwed \in BOOLEAN /\ permit \in BOOLEAN
      /\ dispatcher.high \in 0..log /\ dispatcher.before \in 0..log
      /\ dispatcher.cursor \in 0..log
  BY Typed, DispatcherAssumption DEF DispatcherAssumption, DispatcherInv, DispatcherTypeOK
<1>1. ASSUME Commit PROVE Goal
  BY <1>a, <1>1 DEF Commit, DispatcherStates
<1>2. ASSUME Wake PROVE Goal
  <2>1. wakeOwed' \in BOOLEAN /\ permit' \in BOOLEAN
    BY <1>a, <1>2, Zenon DEF Wake
  <2>2. /\ log' = log /\ readErrors' = readErrors
        /\ dispatcher'.high = dispatcher.high /\ dispatcher'.before = dispatcher.before
    BY <1>a, <1>2 DEF Wake, DispatcherStates
  <2> QED
    BY <1>a, <2>1, <2>2
<1>3. ASSUME NEW f \in Flushers, BeginFlush(f)
      PROVE  Goal
  BY <1>a, <1>3 DEF BeginFlush, DispatcherStates
<1>4. ASSUME NEW f \in Flushers, SendFlush(f)
      PROVE  Goal
  BY <1>a, <1>4 DEF SendFlush, DispatcherStates
<1>5. ASSUME close PROVE Goal
  BY <1>a, <1>5 DEF close, DispatcherStates
<1>6. ASSUME TakeFlush PROVE Goal
  <2> DEFINE f == Head(commands).by
  <2>1. \/ dispatcher' = dispatcher
        \/ dispatcher' = [ dispatcher EXCEPT !.pc = "read", !.waiters = @ \cup {f} ]
    BY <1>6 DEF TakeFlush
  <2> HIDE DEF f
  <2>2. dispatcher'.high = dispatcher.high /\ dispatcher'.before = dispatcher.before
    BY <1>a, <2>1 DEF DispatcherStates
  <2>3. log' = log /\ UNCHANGED << wakeOwed, permit, readErrors >>
    BY <1>6 DEF TakeFlush
  <2> QED
    BY <1>a, <2>2, <2>3
<1>7. ASSUME TakeClose PROVE Goal
  BY <1>a, <1>7 DEF TakeClose, DispatcherStates
<1>8. ASSUME TakeWake PROVE Goal
  <2>1. wakeOwed' \in BOOLEAN /\ permit' \in BOOLEAN
    BY <1>a, <1>8, Zenon DEF TakeWake
  <2>2. /\ log' = log /\ readErrors' = readErrors
        /\ dispatcher'.high = dispatcher.high /\ dispatcher'.before = dispatcher.before
    BY <1>a, <1>8 DEF TakeWake, DispatcherStates
  <2> QED
    BY <1>a, <2>1, <2>2
<1>9. ASSUME Poll PROVE Goal
  BY <1>a, <1>9 DEF Poll, DispatcherStates
<1>10. ASSUME ReadPage PROVE Goal
  BY <1>a, <1>10 DEF ReadPage, DispatcherStates
<1>11. ASSUME Publish PROVE Goal
  BY <1>a, <1>11 DEF Publish, DispatcherStates
<1>12. ASSUME EndPage PROVE Goal
  BY <1>a, <1>12 DEF EndPage, DispatcherStates
<1>13. ASSUME ReadFails PROVE Goal
  BY <1>a, <1>13 DEF ReadFails, DispatcherStates
<1>14. ASSUME UNCHANGED dispatcherVars PROVE Goal
  BY <1>a, <1>14 DEF dispatcherVars, DispatcherStates
<1>15. Goal
  BY <1>1, <1>2, <1>3, <1>4, <1>5, <1>6, <1>7,
     <1>8, <1>9, <1>10, <1>11, <1>12, <1>13, <1>14
  DEF DispatcherNext, CallerStep, TakeCommand, ActorStep
<1>16. PageContinues' /\ PublishedInOrder' /\ Shape' /\ OnePlace'
  BY ChannelStep, ShapeStep, OnePlaceStep
<1>17. dispatcher'.cursor \in dispatcher'.spawned..log'
  <2>1. /\ dispatcher'.cursor \in Nat /\ dispatcher'.spawned \in Nat
        /\ dispatcher.cursor \in Nat /\ dispatcher.spawned <= dispatcher.cursor
    BY <1>16, Typed DEF Shape, DispatcherStates
  <2>2. dispatcher'.cursor <= log'
    BY <1>15, <1>16, <2>1 DEF PageContinues
  <2> QED
    BY <1>a, <1>15, <2>1, <2>2, ChannelStep
<1>18. dispatcher'.pc \in {"idle", "read", "publish", "closed"}
  BY <1>16 DEF Shape, DispatcherStates
<1> QED
  BY <1>15, <1>17, <1>18, CallersStep, OnePlaceStep DEF DispatcherTypeOK

-----------------------------------------------------------------------------
(* Theorems *)

\* DispatcherInv holds in every state of the dispatcher: the type invariant,
\* with every caller in one place, and the page in hand as the continuation of
\* what is on the channel (run_dispatcher, publish_available).
THEOREM DispatcherInvariant == DispatcherSpec => []DispatcherInv
<1>1. DispatcherInit => DispatcherInv
  BY DispatcherInvInit
<1>2. DispatcherInv /\ [DispatcherNext]_dispatcherVars => DispatcherInv'
  <2> SUFFICES ASSUME DispatcherInv, [DispatcherNext]_dispatcherVars PROVE DispatcherInv'
    OBVIOUS
  <2> QED
    BY TypeStep, ShapeStep, OnePlaceStep, ChannelStep, CallersStep DEF DispatcherInv
<1> QED
  BY <1>1, <1>2, PTL DEF DispatcherSpec

\* The types of the dispatcher, the waiters among the callers that wait.
THEOREM DispatcherTypes == DispatcherSpec => []DispatcherTypeOK
<1>1. DispatcherInv => DispatcherTypeOK
  BY DEF DispatcherInv
<1> QED
  BY <1>1, DispatcherInvariant, PTL

\* The channel carries every event committed after the start, once and in
\* order, up to the cursor (publish_available).
THEOREM DispatcherPublishesInOrder == DispatcherSpec => []PublishedInOrder
<1>1. DispatcherInv => PublishedInOrder
  BY DEF DispatcherInv
<1> QED
  BY <1>1, DispatcherInvariant, PTL

\* A flush that was answered Ok has been published (flush_to).
THEOREM DispatcherFlushes == DispatcherSpec => []FlushMeansPublished
<1>1. DispatcherInv => FlushMeansPublished
  BY DEF DispatcherInv
<1> QED
  BY <1>1, DispatcherInvariant, PTL
=============================================================================
