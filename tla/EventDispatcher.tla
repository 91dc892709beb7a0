--------------------------- MODULE EventDispatcher ---------------------------
(* The event dispatcher of the application (event_dispatcher.rs): one actor    *)
(* reads the events that are committed to the store and publishes them, in     *)
(* order, on a broadcast channel.  It is woken by the store writer after a     *)
(* commit, by a poll every second, and by callers that want everything up to   *)
(* some event published before they go on (flush_to).                          *)
(*                                                                             *)
(* Events are their ids.  Ids are given by AUTOINCREMENT, no event is deleted  *)
(* and one that is rolled back gives its id back, so the ids of the store are  *)
(* 1..log.  A caller that stops waiting for its flush only drops the answer    *)
(* and is not modelled.                                                        *)
EXTENDS Naturals, Sequences

CONSTANTS
    MaxEvents,      \* bound: the events of a run
    PageSize,       \* EVENT_PAGE_SIZE and the PAGE_SIZE of the event stream
    Flushers,       \* callers of flush_to: the shutdown, the degraded coordinator
    MaxReadErrors   \* bound: reads of the dispatcher that fail

ASSUME DispatcherAssumption ==
    /\ MaxEvents \in Nat \ {0} /\ MaxReadErrors \in Nat
    /\ PageSize \in Nat \ {0}

VARIABLES
    log,         \* the id of the last committed event, 0 before the first
    wakeOwed,    \* a commit is done and the writer has not called wake yet
    permit,      \* the permit Notify keeps for the next notified()
    dispatcher,  \* the actor: cursor, place in its loop, page, waiters
    commands,    \* its unbounded mailbox
    flusher,     \* the callers of flush_to
    published,   \* what was sent on the broadcast channel, oldest first
    readErrors   \* the failed reads so far

dispatcherVars ==
    << log, wakeOwed, permit, dispatcher, commands, flusher, published, readErrors >>

Smaller(m, n) == IF m < n THEN m ELSE n

\* A page of the log: the events after an id, oldest first, at most PageSize.
events_after(after) ==
    [i \in 1..Smaller(PageSize, IF after < log THEN log - after ELSE 0) |-> after + i]

CloseCommand == [kind |-> "close"]
FlushCommand(f) == [kind |-> "flush", by |-> f]

DispatcherInit ==
    /\ log \in 0..1
    /\ wakeOwed = FALSE
    /\ permit = FALSE
    /\ dispatcher = [ pc |-> "idle", spawned |-> log, cursor |-> log, page |-> << >>,
                      high |-> 0, before |-> 0, waiters |-> {}, closing |-> FALSE ]
    /\ commands = << >>
    /\ flusher = [ f \in Flushers |-> [ status |-> "idle", target |-> 0 ] ]
    /\ published = << >>
    /\ readErrors = 0

\* A transaction of the store writer commits; a recovery commits several events.
Commit ==
    /\ \E n \in (log + 1)..MaxEvents : log' = n
    /\ wakeOwed' = TRUE
    /\ UNCHANGED << permit, dispatcher, commands, flusher, published, readErrors >>

\* receipt_and_wake: one permit is kept, however often wake is called.
Wake ==
    /\ wakeOwed
    /\ wakeOwed' = FALSE
    /\ permit' = TRUE
    /\ UNCHANGED << log, dispatcher, commands, flusher, published, readErrors >>

-----------------------------------------------------------------------------
(* Callers *)

\* flush_to looks at the lifecycle first; its command is sent a moment later.
BeginFlush(f) ==
    /\ flusher[f].status = "idle"
    /\ \E target \in 1..log :
         flusher' = [ flusher EXCEPT ![f] =
             [ status |-> IF dispatcher.closing THEN "closed" ELSE "checked",
               target |-> target ] ]
    /\ UNCHANGED << log, wakeOwed, permit, dispatcher, commands, published, readErrors >>

SendFlush(f) ==
    /\ flusher[f].status = "checked"
    /\ IF dispatcher.pc = "closed"
         THEN /\ flusher' = [ flusher EXCEPT ![f].status = "closed" ]
              /\ UNCHANGED commands
         ELSE /\ flusher' = [ flusher EXCEPT ![f].status = "waiting" ]
              /\ commands' = Append(commands, FlushCommand(f))
    /\ UNCHANGED << log, wakeOwed, permit, dispatcher, published, readErrors >>

\* A second close sends nothing and waits for the first.
close ==
    /\ ~dispatcher.closing
    /\ dispatcher' = [ dispatcher EXCEPT !.closing = TRUE ]
    /\ commands' = Append(commands, CloseCommand)
    /\ UNCHANGED << log, wakeOwed, permit, flusher, published, readErrors >>

-----------------------------------------------------------------------------
(* The actor *)

Answered(callers, status) ==
    [ f \in Flushers |->
        IF f \in callers THEN [ flusher[f] EXCEPT !.status = status ] ELSE flusher[f] ]

Reached(cursor) == { f \in dispatcher.waiters : cursor >= flusher[f].target }

TakeFlush ==
    /\ dispatcher.pc = "idle"
    /\ commands # << >> /\ Head(commands).kind = "flush"
    /\ LET f == Head(commands).by
       IN  IF dispatcher.cursor >= flusher[f].target
             THEN /\ flusher' = Answered({f}, "ok")
                  /\ UNCHANGED dispatcher
             ELSE /\ dispatcher' = [ dispatcher EXCEPT !.pc = "read", !.waiters = @ \cup {f} ]
                  /\ UNCHANGED flusher
    /\ commands' = Tail(commands)
    /\ UNCHANGED << log, wakeOwed, permit, published, readErrors >>

\* The actor returns: its waiters, and the flushes still in the mailbox, fail.
TakeClose ==
    /\ dispatcher.pc = "idle"
    /\ commands # << >> /\ Head(commands).kind = "close"
    /\ flusher' = Answered(
           dispatcher.waiters \cup { f \in Flushers : flusher[f].status = "waiting" }, "closed")
    /\ dispatcher' = [ dispatcher EXCEPT !.pc = "closed", !.waiters = {} ]
    /\ commands' = << >>
    /\ UNCHANGED << log, wakeOwed, permit, published, readErrors >>

TakeWake ==
    /\ dispatcher.pc = "idle"
    /\ permit
    /\ permit' = FALSE
    /\ dispatcher' = [ dispatcher EXCEPT !.pc = "read" ]
    /\ UNCHANGED << log, wakeOwed, commands, flusher, published, readErrors >>

Poll ==
    /\ dispatcher.pc = "idle"
    /\ dispatcher' = [ dispatcher EXCEPT !.pc = "read" ]
    /\ UNCHANGED << log, wakeOwed, permit, commands, flusher, published, readErrors >>

\* A bug that answers waiters from the high watermark of a page, not the cursor.
ReadPage_Mutant ==
    /\ dispatcher.pc = "read"
    /\ dispatcher' = [ dispatcher EXCEPT !.pc = "publish", !.high = log,
                         !.page = events_after(dispatcher.cursor), !.before = dispatcher.cursor,
                         !.waiters = @ \ Reached(log) ]
    /\ flusher' = Answered(Reached(log), "ok")
    /\ UNCHANGED << log, wakeOwed, permit, commands, published, readErrors >>

\* Page and high watermark are of one snapshot.
ReadPage ==
    /\ dispatcher.pc = "read"
    /\ dispatcher' = [ dispatcher EXCEPT !.pc = "publish", !.high = log,
                         !.page = events_after(dispatcher.cursor), !.before = dispatcher.cursor ]
    /\ UNCHANGED << log, wakeOwed, permit, commands, flusher, published, readErrors >>

ReadFails ==
    /\ dispatcher.pc = "read"
    /\ readErrors < MaxReadErrors
    /\ readErrors' = readErrors + 1
    /\ flusher' = Answered(dispatcher.waiters, "failed")
    /\ dispatcher' = [ dispatcher EXCEPT !.pc = "idle", !.waiters = {} ]
    /\ UNCHANGED << log, wakeOwed, permit, commands, published >>

\* A bug that forgets complete_waiters after a send.
Publish_Mutant ==
    /\ dispatcher.pc = "publish"
    /\ dispatcher.page # << >>
    /\ LET id == Head(dispatcher.page)
       IN  /\ published' = Append(published, id)
           /\ dispatcher' = [ dispatcher EXCEPT !.cursor = id, !.page = Tail(@) ]
    /\ UNCHANGED << log, wakeOwed, permit, commands, flusher, readErrors >>

\* One event of the page is sent, and the waiters it reaches are answered.
Publish ==
    /\ dispatcher.pc = "publish"
    /\ dispatcher.page # << >>
    /\ LET id == Head(dispatcher.page)
       IN  /\ published' = Append(published, id)
           /\ dispatcher' = [ dispatcher EXCEPT !.cursor = id, !.page = Tail(@),
                                !.waiters = @ \ Reached(id) ]
           /\ flusher' = Answered(Reached(id), "ok")
    /\ UNCHANGED << log, wakeOwed, permit, commands, readErrors >>

\* A bug that takes a page for all there was.
EndPage_Mutant ==
    /\ dispatcher.pc = "publish"
    /\ dispatcher.page = << >>
    /\ dispatcher' = [ dispatcher EXCEPT !.cursor = dispatcher.high, !.pc = "idle",
                         !.high = 0, !.before = 0 ]
    /\ UNCHANGED << log, wakeOwed, permit, commands, flusher, published, readErrors >>

\* Another page is read until the high watermark is reached or a page brings nothing.
EndPage ==
    /\ dispatcher.pc = "publish"
    /\ dispatcher.page = << >>
    /\ LET over == \/ dispatcher.cursor >= dispatcher.high
                   \/ dispatcher.cursor = dispatcher.before
       IN  dispatcher' = [ dispatcher EXCEPT !.pc = IF over THEN "idle" ELSE "read",
                             !.high = 0, !.before = 0 ]
    /\ UNCHANGED << log, wakeOwed, permit, commands, flusher, published, readErrors >>

TakeCommand == TakeFlush \/ TakeClose
ActorStep == TakeWake \/ Poll \/ ReadPage \/ Publish \/ EndPage
CallerStep == \E f \in Flushers : BeginFlush(f) \/ SendFlush(f)

DispatcherNext ==
    \/ Commit \/ Wake \/ CallerStep \/ close
    \/ TakeCommand \/ ActorStep \/ ReadFails

\* The actor is scheduled and its poll ticks; select! picks among its ready
\* branches at random, so a command is not passed over for ever.
DispatcherFairness ==
    /\ WF_dispatcherVars(ActorStep)
    /\ SF_dispatcherVars(TakeCommand)
    /\ \A f \in Flushers : WF_dispatcherVars(SendFlush(f))

DispatcherSpec == DispatcherInit /\ [][DispatcherNext]_dispatcherVars /\ DispatcherFairness

-----------------------------------------------------------------------------
FlusherStates == [ status : {"idle", "checked", "waiting", "ok", "failed", "closed"},
                   target : 0..MaxEvents ]

\* Type invariant.  A caller is a waiter, or in the mailbox, only while it waits.
DispatcherTypeOK ==
    /\ log \in 0..MaxEvents
    /\ wakeOwed \in BOOLEAN /\ permit \in BOOLEAN
    /\ dispatcher.pc \in {"idle", "read", "publish", "closed"}
    /\ dispatcher.cursor \in dispatcher.spawned..log
    /\ dispatcher.high \in 0..log /\ dispatcher.before \in 0..log
    /\ dispatcher.waiters \subseteq { f \in Flushers : flusher[f].status = "waiting" }
    /\ flusher \in [ Flushers -> FlusherStates ]
    /\ readErrors \in 0..MaxReadErrors

\* The channel carries every event committed after the start, once and in order,
\* up to the cursor: no page limit, failed read or poll in between skips or
\* repeats one (publish_available).
PublishedInOrder ==
    published = [ i \in 1..(dispatcher.cursor - dispatcher.spawned) |-> dispatcher.spawned + i ]

\* flush_to answers Ok only when everything up to its target has been published:
\* the shutdown and the degraded coordinator go on with that in mind.
FlushMeansPublished ==
    \A f \in Flushers : flusher[f].status = "ok" => flusher[f].target <= dispatcher.cursor

\* Whoever asks for a flush is answered: reached, failed or closed.
FlushesAreAnswered ==
    \A f \in Flushers :
        (flusher[f].status = "checked") ~> (flusher[f].status \in {"ok", "failed", "closed"})
=============================================================================
