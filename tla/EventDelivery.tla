---------------------------- MODULE EventDelivery ----------------------------
(* The way of an event to the browser: the dispatcher (EventDispatcher), the   *)
(* live subscription of the backend (server.rs), the stream the API answers    *)
(* GET /api/events with (sse.rs), the connection, and the browser's client     *)
(* with its cursor (sse.ts), its recovery and its knowledge of the service     *)
(* state.                                                                      *)
(*                                                                             *)
(* One action is what the stream does between two awaits, or one turn of a     *)
(* loop another thread can run into.  The three copies of the refill loop in   *)
(* connect, after the replay, after a lag and at the start, are one path here: *)
(* read the high watermark, send pages up to it, drain what is live.           *)
(* Heartbeats are left out, and so are frames the client cannot parse.         *)
EXTENDS EventDispatcher, FiniteSets

CONSTANTS
    Capacity,        \* of the broadcast channel (a power of two, as tokio rounds it)
    BatchSize,       \* READY_LIVE_BATCH_SIZE
    MaxBuffered,     \* MAX_BUFFERED_LIVE_EVENTS
    MaxWire,         \* bound: frames between the stream and the client
    MaxGenerations,  \* bound: changes of the service state
    MaxBreaks,       \* bound: connections that break or reads of the stream that fail
    MaxAhead         \* bound: how far the client's first cursor may be ahead of the log

ASSUME DeliveryAssumption ==
    /\ Capacity \in Nat \ {0} /\ BatchSize \in Nat \ {0} /\ MaxWire \in Nat \ {0}
    /\ MaxBuffered \in Nat \ {0} /\ MaxGenerations \in Nat /\ MaxBreaks \in Nat
    /\ MaxAhead \in Nat

VARIABLES
    service,   \* the service state and its generation
    stream,    \* the stream on the server's side, pc "none" without one
    wire,      \* frames sent and not applied yet, oldest first
    client,    \* the browser's SseClient
    breaks     \* the failures of connections so far

deliveryVars == << service, stream, wire, client, breaks >>
vars == << dispatcherVars, deliveryVars >>

EventFrame(id) == [kind |-> "event", number |-> id]
ServiceFrame(generation) == [kind |-> "service", number |-> generation]
ResetFrame(high) == [kind |-> "reset", number |-> high]

NoStream ==
    [ pc |-> "none", last |-> 0, high |-> 0, before |-> 0, page |-> << >>, buffered |-> {},
      refills |-> 0, taken |-> 0, next |-> 1, liveClosed |-> FALSE,
      serviceClosed |-> FALSE, noticed |-> 0, generation |-> 0 ]

Init ==
    /\ DispatcherInit
    /\ service = [ state |-> "Ready", generation |-> 0 ]
    /\ stream = NoStream
    /\ wire = << >>
    /\ \E cursor \in 0..(log + MaxAhead) :
         client = [ pc |-> "connect", applied |-> cursor, generation |-> 0,
                    foreign |-> cursor > log ]
    /\ breaks = 0

\* ServiceStateController::set: no state follows Quiescing, each has its generation.
set(state) ==
    /\ service.generation < MaxGenerations
    /\ service.state \notin { state, "Quiescing" }
    /\ service' = [ state |-> state, generation |-> service.generation + 1 ]
    /\ UNCHANGED << dispatcherVars, stream, wire, client, breaks >>

SetService == \E state \in {"Ready", "StoreDegraded", "Quiescing"} : set(state)

-----------------------------------------------------------------------------
(* The stream *)

Send(frame) ==
    /\ Len(wire) < MaxWire
    /\ wire' = Append(wire, frame)

StreamMoves ==
    /\ UNCHANGED << dispatcherVars, service, client, breaks >>

\* Both subscriptions are made before the first await of the stream.
connect ==
    /\ client.pc = "connect"
    /\ client' = [ client EXCEPT !.pc = "open" ]
    /\ stream' = [ NoStream EXCEPT !.pc = "state", !.last = client.applied,
                     !.next = Len(published) + 1, !.noticed = service.generation ]
    /\ wire' = << >>
    /\ UNCHANGED << dispatcherVars, service, breaks >>

SendCurrentState ==
    /\ stream.pc = "state"
    /\ Send(ServiceFrame(service.generation))
    /\ stream' = [ stream EXCEPT !.pc = "high", !.generation = service.generation ]
    /\ StreamMoves

\* The subscription to the service state has something to say: a change not
\* noticed yet, or Quiescing, after which it ends.  It is looked at while a read
\* is under way and in the live loop.
ServiceReady ==
    /\ \/ stream.pc \in {"high", "live"}
       \/ stream.pc = "page" /\ stream.last < stream.high
    /\ ~stream.serviceClosed
    /\ service.generation > stream.noticed \/ service.state = "Quiescing"

\* A bug that swallows the changes that arrive during the replay.
SendService_Mutant ==
    /\ ServiceReady
    /\ IF service.generation > stream.generation /\ stream.pc = "live"
         THEN Send(ServiceFrame(service.generation))
         ELSE UNCHANGED wire
    /\ stream' = [ stream EXCEPT !.noticed = service.generation,
                     !.generation = service.generation,
                     !.serviceClosed = service.state = "Quiescing" ]
    /\ StreamMoves

\* The newest service state is sent if it is newer than the last one sent.
SendService ==
    /\ ServiceReady
    /\ IF service.generation > stream.generation
         THEN Send(ServiceFrame(service.generation))
         ELSE UNCHANGED wire
    /\ stream' = [ stream EXCEPT !.noticed = service.generation,
                     !.generation = service.generation,
                     !.serviceClosed = service.state = "Quiescing" ]
    /\ StreamMoves

\* latest_event_id: a cursor ahead of the log resets the client and ends the stream.
ReadHigh ==
    /\ stream.pc = "high"
    /\ IF stream.last > log
         THEN /\ Send(ResetFrame(log))
              /\ stream' = NoStream
         ELSE /\ stream' = [ stream EXCEPT !.pc = "page", !.high = log ]
              /\ UNCHANGED wire
    /\ StreamMoves

\* A page without what is above through: the ids ascend, so a prefix of it.
events_between(after, through) ==
    LET page == events_after(after)
    IN  [ i \in { j \in DOMAIN page : page[j] <= through } |-> page[i] ]

ReadStreamPage ==
    /\ stream.pc = "page"
    /\ stream.last < stream.high
    /\ stream' = [ stream EXCEPT !.pc = "send", !.before = stream.last,
                     !.page = events_between(stream.last, stream.high) ]
    /\ UNCHANGED wire
    /\ StreamMoves

SendPageEvent ==
    /\ stream.pc = "send"
    /\ stream.page # << >>
    /\ LET id == Head(stream.page)
           rest == [ stream EXCEPT !.page = Tail(@) ]
       IN  IF id <= stream.last \/ id > stream.high
             THEN /\ stream' = rest
                  /\ UNCHANGED wire
             ELSE /\ Send(EventFrame(id))
                  /\ stream' = [ rest EXCEPT !.last = id ]
    /\ StreamMoves

\* A page that brought nothing new ends the stream.
EndStreamPage ==
    /\ stream.pc = "send"
    /\ stream.page = << >>
    /\ stream' = IF stream.last = stream.before THEN NoStream
                 ELSE [ stream EXCEPT !.pc = "page", !.before = 0 ]
    /\ UNCHANGED wire
    /\ StreamMoves

\* A bug that subscribes to the live events only after the replay.
PagesDone_MutantLate ==
    /\ stream.pc = "page"
    /\ stream.last >= stream.high
    /\ stream' = [ stream EXCEPT !.pc = "drain", !.high = 0, !.next = Len(published) + 1,
                     !.buffered = { id \in @ : id > stream.last } ]
    /\ UNCHANGED wire
    /\ StreamMoves

\* A bug that keeps what the pages have already sent in the buffer.
PagesDone_MutantKeeps ==
    /\ stream.pc = "page"
    /\ stream.last >= stream.high
    /\ stream' = [ stream EXCEPT !.pc = "drain", !.high = 0 ]
    /\ UNCHANGED wire
    /\ StreamMoves

PagesDone ==
    /\ stream.pc = "page"
    /\ stream.last >= stream.high
    /\ stream' = [ stream EXCEPT !.pc = "drain", !.high = 0,
                     !.buffered = { id \in @ : id > stream.last } ]
    /\ UNCHANGED wire
    /\ StreamMoves

\* A read of the stream fails: it ends, what it has sent still arrives.
StreamReadFails ==
    /\ stream.pc = "high" \/ (stream.pc = "page" /\ stream.last < stream.high)
    /\ breaks < MaxBreaks
    /\ breaks' = breaks + 1
    /\ stream' = NoStream
    /\ UNCHANGED << dispatcherVars, service, wire, client >>

-----------------------------------------------------------------------------
(* The live subscription: a broadcast receiver and a watch on the service state. *)

Oldest == IF Len(published) > Capacity THEN Len(published) - Capacity + 1 ELSE 1
HasLagged == ~stream.liveClosed /\ stream.next < Oldest
HasEvent == ~stream.liveClosed /\ stream.next \in Oldest..Len(published)
LiveEvent == published[stream.next]

\* While Quiescing the subscription ends; a receive it is waiting in may still win.
HasEnded == ~stream.liveClosed /\ service.state = "Quiescing"

\* A bug that forgets to read the log again after a lag.
Drained_Mutant(s) == [ s EXCEPT !.pc = "flush", !.taken = 0, !.refills = 0 ]

\* What follows a drain: a refill for each lag and for an exhausted batch.
Drained(s) ==
    IF s.refills > 0 THEN [ s EXCEPT !.pc = "high", !.taken = 0, !.refills = @ - 1 ]
                     ELSE [ s EXCEPT !.pc = "flush", !.taken = 0 ]

Draining == stream.pc = "drain" /\ stream.taken < BatchSize

\* drain_ready_live, one item at a time: the dispatcher is another thread.
DrainLag ==
    /\ Draining
    /\ HasLagged
    /\ stream' = [ stream EXCEPT !.next = Oldest, !.taken = @ + 1, !.refills = @ + 1 ]
    /\ UNCHANGED wire
    /\ StreamMoves

\* A new event that finds the buffer full ends the stream.
DrainEvent ==
    /\ Draining
    /\ HasEvent
    /\ LET received == [ stream EXCEPT !.next = @ + 1, !.taken = @ + 1 ]
           full == Cardinality(stream.buffered) >= MaxBuffered
       IN  stream' = IF LiveEvent <= stream.last THEN received
                     ELSE IF LiveEvent \notin stream.buffered /\ full THEN NoStream
                     ELSE [ received EXCEPT !.buffered = @ \cup {LiveEvent} ]
    /\ UNCHANGED wire
    /\ StreamMoves

DrainEnd ==
    /\ Draining
    /\ HasEnded \/ ~(HasLagged \/ HasEvent)
    /\ stream' = Drained([ stream EXCEPT !.liveClosed = @ \/ HasEnded ])
    /\ UNCHANGED wire
    /\ StreamMoves

DrainExhausted ==
    /\ stream.pc = "drain" /\ stream.taken = BatchSize
    /\ stream' = Drained([ stream EXCEPT !.refills = @ + 1 ])
    /\ UNCHANGED wire
    /\ StreamMoves

\* The buffer is sent in the order of its ids; then the stream is live.
FlushBuffer ==
    /\ stream.pc = "flush"
    /\ IF stream.buffered = {}
         THEN /\ stream' = [ stream EXCEPT !.pc = "live" ]
              /\ UNCHANGED wire
         ELSE LET id == CHOOSE m \in stream.buffered : \A n \in stream.buffered : m <= n
                  rest == [ stream EXCEPT !.buffered = @ \ {id} ]
              IN  IF id <= stream.last
                    THEN /\ stream' = rest
                         /\ UNCHANGED wire
                    ELSE /\ Send(EventFrame(id))
                         /\ stream' = [ rest EXCEPT !.last = id ]
    /\ StreamMoves

ReceiveEvent ==
    /\ stream.pc = "live"
    /\ HasEvent
    /\ LET received == [ stream EXCEPT !.next = @ + 1 ]
       IN  IF LiveEvent > stream.last
             THEN /\ Send(EventFrame(LiveEvent))
                  /\ stream' = [ received EXCEPT !.last = LiveEvent ]
             ELSE /\ stream' = received
                  /\ UNCHANGED wire
    /\ StreamMoves

ReceiveLag ==
    /\ stream.pc = "live"
    /\ HasLagged
    /\ stream' = [ stream EXCEPT !.pc = "drain", !.buffered = {},
                     !.refills = 1, !.next = Oldest ]
    /\ UNCHANGED wire
    /\ StreamMoves

ReceiveEnd ==
    /\ stream.pc = "live"
    /\ HasEnded
    /\ stream' = [ stream EXCEPT !.liveClosed = TRUE ]
    /\ UNCHANGED wire
    /\ StreamMoves

EndStream ==
    /\ stream.pc = "live"
    /\ stream.liveClosed /\ stream.serviceClosed
    /\ stream' = NoStream
    /\ UNCHANGED wire
    /\ StreamMoves

-----------------------------------------------------------------------------
(* The client *)

\* #applyFrame: a frame at the cursor is ignored, one below it and a reset end
\* the connection and make the client recover.
ApplyFrame ==
    /\ client.pc = "open"
    /\ wire # << >>
    /\ LET frame == Head(wire)
       IN  IF frame.kind = "reset" \/ (frame.kind = "event" /\ frame.number < client.applied)
             THEN /\ client' = [ client EXCEPT !.pc = "recover" ]
                  /\ stream' = NoStream
                  /\ wire' = << >>
             ELSE /\ client' = CASE frame.kind = "event" ->
                                      [ client EXCEPT !.applied = frame.number ]
                                 [] frame.kind = "service" /\ frame.number > client.generation ->
                                      [ client EXCEPT !.generation = frame.number ]
                                 [] OTHER -> client
                  /\ wire' = Tail(wire)
                  /\ UNCHANGED stream
    /\ UNCHANGED << dispatcherVars, service, breaks >>

\* The stream has ended and its last frame is applied: reconnect from the cursor.
EndOfStream ==
    /\ client.pc = "open"
    /\ stream.pc = "none" /\ wire = << >>
    /\ client' = [ client EXCEPT !.pc = "connect" ]
    /\ UNCHANGED << dispatcherVars, service, stream, wire, breaks >>

\* The connection breaks: frames under way are lost, the stream is dropped.
Break ==
    /\ client.pc = "open"
    /\ breaks < MaxBreaks
    /\ breaks' = breaks + 1
    /\ client' = [ client EXCEPT !.pc = "connect" ]
    /\ stream' = NoStream
    /\ wire' = << >>
    /\ UNCHANGED << dispatcherVars, service >>

\* Recovery asks for a new bootstrap: the snapshot of the store ...
ReadSnapshot ==
    /\ client.pc = "recover"
    /\ client' = [ client EXCEPT !.pc = "answer", !.applied = log, !.foreign = FALSE ]
    /\ UNCHANGED << dispatcherVars, service, stream, wire, breaks >>

\* ... and then the service state, which the reducer takes if it is not older.
TakeBootstrap ==
    /\ client.pc = "answer"
    /\ client' = [ client EXCEPT !.pc = "connect",
                     !.generation = IF service.generation >= @ THEN service.generation ELSE @ ]
    /\ UNCHANGED << dispatcherVars, service, stream, wire, breaks >>

-----------------------------------------------------------------------------
Replay == ReadHigh \/ ReadStreamPage \/ SendPageEvent \/ EndStreamPage \/ PagesDone
Drain == DrainLag \/ DrainEvent \/ DrainEnd \/ DrainExhausted
Live == ReceiveEvent \/ ReceiveLag \/ ReceiveEnd \/ EndStream
StreamStep == SendCurrentState \/ Replay \/ Drain \/ FlushBuffer \/ Live
ClientStep == connect \/ ApplyFrame \/ EndOfStream \/ ReadSnapshot \/ TakeBootstrap

\* The shutdown closes the dispatcher once the service is Quiescing.
CloseDispatcher == service.state = "Quiescing" /\ close

DispatcherStep ==
    /\ \/ Commit \/ Wake \/ CallerStep \/ CloseDispatcher
       \/ TakeCommand \/ ActorStep \/ ReadFails
    /\ UNCHANGED deliveryVars

Next ==
    \/ DispatcherStep
    \/ SetService
    \/ SendService
    \/ StreamStep
    \/ StreamReadFails
    \/ ClientStep
    \/ Break

\* Every task of the runtime is scheduled, and select! picks among its ready
\* branches at random: a command of the dispatcher and a service state are not
\* passed over for ever.  Nothing makes an event commit, a read or a connection fail.
Fairness ==
    /\ WF_vars(Wake /\ UNCHANGED deliveryVars)
    /\ WF_vars(ActorStep /\ UNCHANGED deliveryVars)
    /\ SF_vars(TakeCommand /\ UNCHANGED deliveryVars)
    /\ \A f \in Flushers : WF_vars(SendFlush(f) /\ UNCHANGED deliveryVars)
    /\ WF_vars(StreamStep)
    /\ SF_vars(SendService)
    /\ WF_vars(ClientStep)

Spec == Init /\ [][Next]_vars
FairSpec == Spec /\ Fairness

-----------------------------------------------------------------------------
\* However often the channel lags while a stream replays, drains and refills, its
\* buffer never holds more than one batch: a refill reads at least up to every event
\* that was received live, so the limit that ends a stream (MAX_BUFFERED_LIVE_EVENTS)
\* does not end that of a client which only is slow.
BufferKeepsWithinABatch == Cardinality(stream.buffered) <= BatchSize

EventsUnderWay ==
    { wire[i].number : i \in { j \in DOMAIN wire : wire[j].kind = "event" } }

\* What is under way to the client continues its cursor without a gap or a repeat,
\* up to where the stream is, whatever the stream was doing when events were
\* committed, published, dropped by the channel or read twice; and the generations
\* of the service only go up.
FramesAreInOrder ==
    /\ \E last \in EventsUnderWay \cup {client.applied} :
         /\ EventsUnderWay = (client.applied + 1)..last
         /\ stream.pc # "none" => stream.last = last
    /\ \A i, j \in DOMAIN wire :
         i < j /\ wire[i].kind = wire[j].kind => wire[i].number < wire[j].number

Feed == INSTANCE EventFeed WITH seen <- client.applied, foreign <- client.foreign

\* The whole path is an EventFeed: the browser applies every event once and in
\* order, and takes a new snapshot only if its cursor was not of this database.
ImplementsEventFeed == Feed!FeedSpec

\* A committed event reaches the browser, over lags, failed reads and broken
\* connections, unless the program closes its dispatcher first: the browser is up
\* to date again and again, so for good once the log rests (after MaxEvents).
EventsReachTheClient == []<>(client.applied >= log \/ dispatcher.closing)

\* The browser learns of every change of the service state or of a later one: it
\* knows the latest again and again.
ServiceStateIsSeen == []<>(client.generation = service.generation)
=============================================================================
