------------------------- MODULE EventDeliveryProofs -------------------------
(* What the path of an event to the browser promises, for any number of        *)
(* events, any channel, batch, buffer and page size and any failures: the      *)
(* frames under way continue the browser's cursor (FramesAreInOrder), a slow   *)
(* client does not fill the buffer (BufferKeepsWithinABatch), and the whole    *)
(* path is an EventFeed.  All three are read off one inductive invariant.      *)
EXTENDS EventDelivery, EventDispatcherProofs, FiniteSetTheorems, SequenceTheorems

-----------------------------------------------------------------------------
(* The inductive invariant *)

Frames == [ kind : {"event", "service", "reset"}, number : Nat ]

StreamStates ==
    [ pc : {"none", "state", "high", "page", "send", "drain", "flush", "live"},
      last : Nat, high : Nat, before : Nat, page : Seq(Nat), buffered : SUBSET Nat,
      refills : Nat, taken : Nat, next : Nat, liveClosed : BOOLEAN,
      serviceClosed : BOOLEAN, noticed : Nat, generation : Nat ]

ClientStates ==
    [ pc : {"connect", "open", "recover", "answer"}, applied : Nat, generation : Nat,
      foreign : BOOLEAN ]

DeliveryTypeOK ==
    /\ service \in [ state : {"Ready", "StoreDegraded", "Quiescing"}, generation : Nat ]
    /\ stream \in StreamStates
    /\ wire \in Seq(Frames)
    /\ client \in ClientStates

\* The last event the live subscription has given to the stream or dropped.
Received == dispatcher.spawned + stream.next - 1

\* Where the stream stands between the log, its pages and its subscription.  A
\* refill reads up to a watermark that is not below anything received so far, so
\* the pages leave nothing of the buffer; and as long as no refill is owed, the
\* buffer is all that was received beyond the last event sent.
StreamInv ==
    /\ stream.pc # "none" => stream.next \in 1..(Len(published) + 1)
    /\ \A id \in stream.buffered : id <= log
    /\ stream.pc \in {"page", "send", "drain", "flush", "live"} => stream.last <= log
    /\ stream.pc \in {"page", "send"} =>
         /\ stream.high <= log /\ Received <= stream.high
         /\ \A id \in stream.buffered : id <= stream.high
    /\ stream.pc = "send" =>
         \E n \in Nat : stream.page = Ids(stream.last, n) /\ stream.last + n <= stream.high
    /\ stream.pc \in {"flush", "live"} => stream.refills = 0
    /\ stream.pc \in {"drain", "flush", "live"} /\ stream.refills = 0 =>
         stream.buffered = (stream.last + 1)..Received
    /\ stream.pc = "live" => stream.buffered = {}

\* A drain buffers at most one event for each item it takes.
BatchInv ==
    /\ IsFiniteSet(stream.buffered) /\ Cardinality(stream.buffered) <= BatchSize
    /\ stream.taken <= BatchSize
    /\ stream.pc = "drain" => Cardinality(stream.buffered) <= stream.taken
    /\ stream.pc # "drain" => stream.taken = 0

\* What a frame under way says of the log, the service, the stream and the client.
WireInv ==
    /\ client.pc # "open" => wire = << >> /\ stream.pc = "none"
    /\ stream.pc = "state" => wire = << >>
    /\ stream.generation <= service.generation
    /\ \A i \in DOMAIN wire :
         /\ wire[i].kind = "event" => wire[i].number <= log
         /\ wire[i].kind = "service" /\ stream.pc # "none" => wire[i].number <= stream.generation
         /\ wire[i].kind = "reset" => client.foreign /\ stream.pc = "none"

\* Only a client whose cursor is not of this database is ahead of it, or recovers.
ClientInv ==
    /\ ~client.foreign => client.applied <= log
    /\ client.pc = "recover" => client.foreign

DeliveryInv ==
    /\ DispatcherInv
    /\ DeliveryTypeOK
    /\ StreamInv /\ BatchInv /\ WireInv /\ ClientInv
    /\ FramesAreInOrder

-----------------------------------------------------------------------------
(* Facts the steps need *)

\* The channel: what is on it, and that the log has it.
LEMMA ChannelIs ==
    ASSUME DispatcherInv
    PROVE  /\ log \in Nat /\ dispatcher.spawned \in Nat /\ Len(published) \in Nat
           /\ dispatcher.spawned + Len(published) <= log
           /\ \A i \in 1..Len(published) : published[i] = dispatcher.spawned + i
<1> DEFINE n == dispatcher.cursor - dispatcher.spawned
<1>1. /\ log \in Nat /\ dispatcher.spawned \in Nat /\ dispatcher.cursor \in Nat
      /\ n \in Nat /\ dispatcher.spawned + n <= log
  BY Typed DEF DispatcherStates
<1>2. published = [ i \in 1..n |-> dispatcher.spawned + i ]
  BY DEF DispatcherInv, PublishedInOrder
<1> HIDE DEF n
<1>3. Len(published) = n
  BY <1>1, <1>2
<1> QED
  BY <1>1, <1>2, <1>3

\* The parts of the state, with the types of their fields.
LEMMA Parts ==
    ASSUME DeliveryInv
    PROVE  /\ DispatcherInv /\ stream \in StreamStates /\ client \in ClientStates
           /\ service.generation \in Nat
           /\ wire \in Seq(Frames) /\ Len(wire) \in Nat /\ DOMAIN wire = 1..Len(wire)
           /\ \A i \in DOMAIN wire : wire[i] \in Frames /\ wire[i].number \in Nat
           /\ StreamInv /\ BatchInv /\ WireInv /\ ClientInv /\ FramesAreInOrder
<1>1. /\ DispatcherInv /\ stream \in StreamStates /\ client \in ClientStates
      /\ service.generation \in Nat /\ wire \in Seq(Frames)
      /\ StreamInv /\ BatchInv /\ WireInv /\ ClientInv /\ FramesAreInOrder
  BY DEF DeliveryInv, DeliveryTypeOK
<1>2. Len(wire) \in Nat /\ DOMAIN wire = 1..Len(wire)
  BY <1>1, LenProperties
<1>3. \A i \in DOMAIN wire : wire[i] \in Frames
  BY <1>1, <1>2, ElementOfSeq
<1>4. \A i \in DOMAIN wire : wire[i].number \in Nat
  BY <1>3 DEF Frames
<1> QED
  BY <1>1, <1>2, <1>3, <1>4

\* The fields of a stream.
LEMMA StreamFields ==
    ASSUME stream \in StreamStates
    PROVE  /\ stream.pc \in {"none", "state", "high", "page", "send", "drain", "flush", "live"}
           /\ stream.last \in Nat /\ stream.high \in Nat /\ stream.before \in Nat
           /\ stream.page \in Seq(Nat) /\ stream.buffered \in SUBSET Nat
           /\ stream.refills \in Nat /\ stream.taken \in Nat /\ stream.next \in Nat
           /\ stream.liveClosed \in BOOLEAN /\ stream.serviceClosed \in BOOLEAN
           /\ stream.noticed \in Nat /\ stream.generation \in Nat
BY DEF StreamStates

\* A run of ids, and what is left of one up to a bound.
LEMMA BetweenIsIds ==
    ASSUME log \in Nat, NEW after \in 0..log, NEW through \in after..log
    PROVE  \E n \in Nat : /\ after + n <= through
                          /\ events_between(after, through) = Ids(after, n)
<1>1. PICK n \in Nat : after + n <= log /\ events_after(after) = Ids(after, n)
  BY PageIsIds
<1> DEFINE m == Smaller(n, through - after)
<1>2. m \in Nat /\ after + m <= through /\ m <= n
  BY DEF Smaller
<1>3. { j \in DOMAIN Ids(after, n) : Ids(after, n)[j] <= through } = 1..m
  <2>1. DOMAIN Ids(after, n) = 1..n /\ \A j \in 1..n : Ids(after, n)[j] = after + j
    BY DEF Ids
  <2>2. \A j \in 1..n : after + j <= through <=> j <= m
    BY DEF Smaller
  <2> HIDE DEF m
  <2>3. \A j \in 1..m : j \in 1..n
    BY <1>2
  <2>4. \A j \in 1..n : j <= m => j \in 1..m
    BY <1>2
  <2>5. \A j \in 1..m : j <= m
    BY <1>2
  <2> QED
    BY <2>1, <2>2, <2>3, <2>4, <2>5
<1>4. events_between(after, through) = [ i \in 1..m |-> Ids(after, n)[i] ]
  <2> HIDE DEF m
  <2> QED
    BY <1>1, <1>3 DEF events_between
<1>5. \A i \in 1..m : Ids(after, n)[i] = after + i
  BY <1>2 DEF Ids
<1>6. events_between(after, through) = Ids(after, m)
  <2> HIDE DEF m
  <2> QED
    BY <1>4, <1>5 DEF Ids
<1> HIDE DEF m
<1> QED
  BY <1>2, <1>6

\* The dispatcher's own steps: its invariant, and that its log, its channel and
\* its cursor only grow.
LEMMA DispatcherMoves ==
    ASSUME DispatcherInv, [DispatcherNext]_dispatcherVars
    PROVE  /\ DispatcherInv'
           /\ log \in Nat /\ log' \in Nat /\ log <= log'
           /\ dispatcher'.spawned = dispatcher.spawned
           /\ Len(published) \in Nat /\ Len(published') \in Nat
           /\ Len(published) <= Len(published')
<1>1. DispatcherInv'
  BY TypeStep, ShapeStep, OnePlaceStep, ChannelStep, CallersStep DEF DispatcherInv
<1>2. /\ log \in Nat /\ Len(published) \in Nat
      /\ dispatcher.cursor \in Nat /\ dispatcher.spawned \in Nat
      /\ dispatcher.spawned <= dispatcher.cursor
      /\ published = [ i \in 1..(dispatcher.cursor - dispatcher.spawned) |-> dispatcher.spawned + i ]
  BY ChannelIs, Typed DEF DispatcherInv, PublishedInOrder, DispatcherStates
<1>3. /\ dispatcher'.spawned = dispatcher.spawned /\ dispatcher'.cursor >= dispatcher.cursor
      /\ dispatcher'.cursor \in Nat /\ PublishedInOrder' /\ log' \in Nat
  BY <1>1, ChannelStep DEF DispatcherInv, Shape, DispatcherStates, DispatcherTypeOK
<1>4. Len(published) = dispatcher.cursor - dispatcher.spawned
  BY <1>2
<1>5. published' =
        [ i \in 1..(dispatcher'.cursor - dispatcher'.spawned) |-> dispatcher'.spawned + i ]
  BY <1>3 DEF PublishedInOrder
<1>6. Len(published') = dispatcher'.cursor - dispatcher.spawned
  BY <1>2, <1>3, <1>5
<1>7. log <= log'
  <2>1. CASE Commit
    BY <1>2, <2>1, DispatcherAssumption DEF Commit, DispatcherAssumption
  <2>2. CASE ~Commit
    <3>1. log' = log
      BY <2>2 DEF DispatcherNext, CallerStep, TakeCommand, ActorStep, Wake, BeginFlush, SendFlush,
         close, TakeFlush, TakeClose, TakeWake, Poll, ReadPage, Publish, EndPage, ReadFails,
         dispatcherVars
    <3> QED
      BY <1>2, <3>1
  <2> QED
    BY <2>1, <2>2
<1> QED
  BY <1>1, <1>2, <1>3, <1>4, <1>6, <1>7

-----------------------------------------------------------------------------
(* The steps of the stream.  Each sends one of three kinds of frame or none.   *)

Streaming == {"high", "page", "send", "drain", "flush", "live"}

Silent ==
    /\ UNCHANGED wire
    /\ \/ stream'.pc = "none"
       \/ /\ stream.pc \in Streaming /\ stream'.pc \in Streaming
          /\ stream'.last = stream.last /\ stream'.generation = stream.generation

SendsEvent ==
    /\ stream.pc \in Streaming /\ stream'.pc \in Streaming
    /\ wire' = Append(wire, EventFrame(stream.last + 1))
    /\ stream'.last = stream.last + 1 /\ stream.last + 1 <= log
    /\ stream'.generation = stream.generation

SendsService ==
    /\ stream.pc # "none" /\ stream'.pc \in Streaming
    /\ wire' = Append(wire, ServiceFrame(service.generation))
    /\ stream'.last = stream.last /\ stream'.generation = service.generation
    /\ \/ wire = << >>
       \/ stream.pc \in Streaming /\ stream.generation < service.generation

SendsReset ==
    /\ stream.pc # "none" /\ stream' = NoStream
    /\ wire' = Append(wire, ResetFrame(log))
    /\ log < stream.last

StreamGoal ==
    /\ stream' \in StreamStates /\ StreamInv' /\ BatchInv'
    /\ stream'.generation <= service.generation
    /\ Silent \/ SendsEvent \/ SendsService \/ SendsReset

\* No stream keeps every part of the invariant that is about one.
LEMMA WithoutStream ==
    ASSUME DeliveryInv, stream' = NoStream
    PROVE  /\ stream' \in StreamStates /\ StreamInv' /\ BatchInv'
           /\ stream'.pc = "none" /\ stream'.generation = 0
<1>1. /\ stream' \in StreamStates /\ stream'.pc = "none" /\ stream'.buffered = {}
      /\ stream'.taken = 0 /\ stream'.generation = 0
  BY DEF NoStream, StreamStates
<1>2. StreamInv'
  BY <1>1 DEF StreamInv
<1>3. BatchInv'
  BY <1>1, FS_EmptySet, DeliveryAssumption DEF BatchInv, DeliveryAssumption
<1> QED
  BY <1>1, <1>2, <1>3

\* A stream that ends without a word.
LEMMA EndsSilently ==
    ASSUME DeliveryInv, stream' = NoStream, UNCHANGED wire
    PROVE  StreamGoal
<1>1. stream' \in StreamStates /\ StreamInv' /\ BatchInv' /\ stream'.pc = "none"
      /\ stream'.generation = 0
  BY WithoutStream
<1>2. service.generation \in Nat
  BY Parts
<1> QED
  BY <1>1, <1>2 DEF StreamGoal, Silent

\* A step that keeps the buffer and does not begin or end a drain keeps BatchInv.
LEMMA SameBatch ==
    ASSUME BatchInv, stream'.buffered = stream.buffered, stream'.taken = stream.taken,
           stream'.pc = "drain" <=> stream.pc = "drain"
    PROVE  BatchInv'
BY DEF BatchInv

LEMMA StateAndService ==
    ASSUME DeliveryInv, SendCurrentState \/ SendService
    PROVE  StreamGoal
<1>a. /\ stream \in StreamStates /\ service.generation \in Nat /\ StreamInv /\ BatchInv /\ WireInv
  BY Parts
<1>f. /\ stream.last \in Nat /\ stream.generation \in Nat
      /\ stream.generation <= service.generation
  BY <1>a, StreamFields DEF WireInv
<1>1. CASE SendCurrentState
  <2>1. /\ stream.pc = "state" /\ stream'.pc = "high" /\ UNCHANGED dispatcherVars
        /\ wire' = Append(wire, ServiceFrame(service.generation))
        /\ stream' \in StreamStates
        /\ stream'.last = stream.last /\ stream'.next = stream.next
        /\ stream'.generation = service.generation
        /\ stream'.buffered = stream.buffered /\ stream'.taken = stream.taken
    BY <1>1, <1>a DEF SendCurrentState, Send, StreamMoves, StreamStates
  <2>2. wire = << >>
    BY <1>a, <2>1 DEF WireInv
  <2>3. StreamInv'
    BY <1>a, <2>1 DEF StreamInv, dispatcherVars
  <2>4. BatchInv'
    BY <1>a, <2>1, SameBatch
  <2>5. SendsService
    BY <2>1, <2>2 DEF SendsService, Streaming
  <2> QED
    BY <1>a, <1>f, <2>1, <2>3, <2>4, <2>5 DEF StreamGoal
<1>2. CASE SendService
  <2>1. /\ stream.pc \in Streaming /\ UNCHANGED dispatcherVars
        /\ stream' = [ stream EXCEPT !.noticed = service.generation,
                         !.generation = service.generation,
                         !.serviceClosed = service.state = "Quiescing" ]
        /\ \/ /\ service.generation > stream.generation
              /\ wire' = Append(wire, ServiceFrame(service.generation))
           \/ /\ ~(service.generation > stream.generation)
              /\ UNCHANGED wire
    BY <1>2 DEF SendService, ServiceReady, Send, StreamMoves, Streaming
  <2>2. /\ stream' \in StreamStates
        /\ stream'.pc = stream.pc /\ stream'.last = stream.last /\ stream'.high = stream.high
        /\ stream'.page = stream.page /\ stream'.buffered = stream.buffered
        /\ stream'.refills = stream.refills /\ stream'.taken = stream.taken
        /\ stream'.next = stream.next /\ stream'.generation = service.generation
    BY <1>a, <2>1 DEF StreamStates
  <2>3. StreamInv'
    <3>1. stream'.pc # "send"
      BY <1>2, <2>2 DEF SendService, ServiceReady
    <3> QED
      BY <1>a, <2>1, <2>2, <3>1 DEF StreamInv, Received, dispatcherVars
  <2>4. BatchInv'
    BY <1>a, <2>2, SameBatch
  <2>5. Silent \/ SendsService
    BY <1>a, <1>f, <2>1, <2>2 DEF Silent, SendsService, Streaming
  <2> QED
    BY <1>a, <1>f, <2>2, <2>3, <2>4, <2>5 DEF StreamGoal
<1> QED
  BY <1>1, <1>2

\* The replay and the refills: the high watermark and the pages up to it.
LEMMA HighAndPages ==
    ASSUME DeliveryInv, ReadHigh \/ ReadStreamPage \/ EndStreamPage \/ PagesDone
    PROVE  StreamGoal
<1>a. /\ stream \in StreamStates /\ service.generation \in Nat /\ StreamInv /\ BatchInv /\ WireInv
      /\ DispatcherInv
  BY Parts
<1>f. /\ stream.last \in Nat /\ stream.generation \in Nat /\ stream.high \in Nat
      /\ stream.next \in Nat /\ stream.buffered \in SUBSET Nat
      /\ stream.generation <= service.generation
  BY <1>a, StreamFields DEF WireInv
<1>c. /\ log \in Nat /\ dispatcher.spawned \in Nat /\ Len(published) \in Nat
      /\ dispatcher.spawned + Len(published) <= log
  BY <1>a, ChannelIs
<1>1. CASE ReadHigh
  <2>1. CASE stream.last > log
    <3>1. /\ stream.pc = "high" /\ stream' = NoStream
          /\ wire' = Append(wire, ResetFrame(log))
      BY <1>1, <2>1 DEF ReadHigh, Send
    <3> QED
      BY <1>a, <1>c, <1>f, <2>1, <3>1, WithoutStream DEF StreamGoal, SendsReset
  <2>2. CASE ~(stream.last > log)
    <3>1. /\ stream.pc = "high" /\ UNCHANGED wire /\ UNCHANGED dispatcherVars
          /\ stream' = [ stream EXCEPT !.pc = "page", !.high = log ]
      BY <1>1, <2>2 DEF ReadHigh, StreamMoves
    <3>2. /\ stream' \in StreamStates
          /\ stream'.pc = "page" /\ stream'.last = stream.last /\ stream'.high = log
          /\ stream'.buffered = stream.buffered /\ stream'.taken = stream.taken
          /\ stream'.next = stream.next /\ stream'.generation = stream.generation
      BY <1>a, <1>c, <3>1 DEF StreamStates
    <3>3. StreamInv'
      <4>1. stream.next \in 1..(Len(published) + 1) /\ \A id \in stream.buffered : id <= log
        BY <1>a, <3>1 DEF StreamInv
      <4>2. /\ log' = log /\ published' = published /\ dispatcher' = dispatcher
            /\ stream.last <= log /\ dispatcher.spawned + stream.next - 1 <= log
        BY <1>c, <1>f, <2>2, <3>1, <4>1 DEF dispatcherVars
      <4> QED
        BY <1>c, <3>2, <4>1, <4>2 DEF StreamInv, Received
    <3>4. BatchInv'
      BY <1>a, <3>1, <3>2, SameBatch
    <3>5. Silent
      BY <3>1, <3>2 DEF Silent, Streaming
    <3> QED
      BY <1>f, <3>2, <3>3, <3>4, <3>5 DEF StreamGoal
  <2> QED
    BY <2>1, <2>2
<1>2. CASE ReadStreamPage
  <2>1. /\ stream.pc = "page" /\ stream.last < stream.high
        /\ UNCHANGED wire /\ UNCHANGED dispatcherVars
        /\ stream' = [ stream EXCEPT !.pc = "send", !.before = stream.last,
                         !.page = events_between(stream.last, stream.high) ]
    BY <1>2 DEF ReadStreamPage, StreamMoves
  <2>2. PICK n \in Nat : /\ stream.last + n <= stream.high
                        /\ events_between(stream.last, stream.high) = Ids(stream.last, n)
    <3>1. stream.last \in 0..log /\ stream.high \in stream.last..log
      BY <1>a, <1>c, <1>f, <2>1 DEF StreamInv
    <3> QED
      BY <1>c, <3>1, BetweenIsIds
  <2>3. Ids(stream.last, n) \in Seq(Nat)
    BY <1>f DEF Ids
  <2>4. /\ stream' \in StreamStates
        /\ stream'.pc = "send" /\ stream'.last = stream.last /\ stream'.high = stream.high
        /\ stream'.page = Ids(stream.last, n)
        /\ stream'.buffered = stream.buffered /\ stream'.taken = stream.taken
        /\ stream'.next = stream.next /\ stream'.generation = stream.generation
    BY <1>a, <1>f, <2>1, <2>2, <2>3 DEF StreamStates
  <2>5. StreamInv'
    <3>1. \E m \in Nat : stream'.page = Ids(stream'.last, m) /\ stream'.last + m <= stream'.high
      BY <2>2, <2>4
    <3> QED
      BY <1>a, <2>1, <2>4, <3>1 DEF StreamInv, Received, dispatcherVars, Ids
  <2>6. BatchInv'
    BY <1>a, <2>1, <2>4, SameBatch
  <2>7. Silent
    BY <2>1, <2>4 DEF Silent, Streaming
  <2> QED
    BY <1>f, <2>4, <2>5, <2>6, <2>7 DEF StreamGoal
<1>3. CASE EndStreamPage
  <2>1. CASE stream.last = stream.before
    BY <1>3, <2>1, EndsSilently DEF EndStreamPage
  <2>2. CASE stream.last # stream.before
    <3>1. /\ stream.pc = "send" /\ UNCHANGED wire /\ UNCHANGED dispatcherVars
          /\ stream' = [ stream EXCEPT !.pc = "page", !.before = 0 ]
      BY <1>3, <2>2 DEF EndStreamPage, StreamMoves
    <3>2. /\ stream' \in StreamStates
          /\ stream'.pc = "page" /\ stream'.last = stream.last /\ stream'.high = stream.high
          /\ stream'.buffered = stream.buffered /\ stream'.taken = stream.taken
          /\ stream'.next = stream.next /\ stream'.generation = stream.generation
      BY <1>a, <3>1 DEF StreamStates
    <3>3. StreamInv'
      BY <1>a, <3>1, <3>2 DEF StreamInv, Received, dispatcherVars
    <3>4. BatchInv'
      BY <1>a, <3>1, <3>2, SameBatch
    <3>5. Silent
      BY <3>1, <3>2 DEF Silent, Streaming
    <3> QED
      BY <1>f, <3>2, <3>3, <3>4, <3>5 DEF StreamGoal
  <2> QED
    BY <2>1, <2>2
\* The pages have reached the watermark, and with it all that was in the buffer.
<1>4. CASE PagesDone
  <2>1. /\ stream.pc = "page" /\ stream.last >= stream.high
        /\ UNCHANGED wire /\ UNCHANGED dispatcherVars
        /\ stream' = [ stream EXCEPT !.pc = "drain", !.high = 0,
                         !.buffered = { id \in @ : id > stream.last } ]
    BY <1>4 DEF PagesDone, StreamMoves
  <2>2. { id \in stream.buffered : id > stream.last } = {}
    BY <1>a, <1>f, <2>1 DEF StreamInv
  <2>3. /\ stream' \in StreamStates
        /\ stream'.pc = "drain" /\ stream'.last = stream.last
        /\ stream'.buffered = {} /\ stream'.taken = stream.taken
        /\ stream'.next = stream.next /\ stream'.generation = stream.generation
    BY <1>a, <2>1, <2>2 DEF StreamStates
  <2>4. StreamInv'
    <3>1. /\ log' = log /\ published' = published /\ dispatcher' = dispatcher
          /\ stream.last <= log /\ dispatcher.spawned + stream.next - 1 <= stream.last
          /\ stream.next \in 1..(Len(published) + 1)
      BY <1>a, <1>c, <1>f, <2>1 DEF StreamInv, Received, dispatcherVars
    <3>2. (stream.last + 1)..(dispatcher.spawned + stream.next - 1) = {}
      BY <1>c, <1>f, <3>1
    <3> QED
      BY <2>3, <3>1, <3>2 DEF StreamInv, Received
  <2>5. BatchInv'
    <3>1. stream.taken = 0 /\ BatchSize \in Nat
      BY <1>a, <2>1, DeliveryAssumption DEF BatchInv, DeliveryAssumption
    <3> QED
      BY <2>3, <3>1, FS_EmptySet DEF BatchInv
  <2>6. Silent
    BY <2>1, <2>3 DEF Silent, Streaming
  <2> QED
    BY <1>f, <2>3, <2>4, <2>5, <2>6 DEF StreamGoal
<1> QED
  BY <1>1, <1>2, <1>3, <1>4

\* A page holds the ids that follow the last one sent, so none of it is skipped.
LEMMA PageEvents ==
    ASSUME DeliveryInv, SendPageEvent
    PROVE  StreamGoal
<1>a. /\ stream \in StreamStates /\ service.generation \in Nat /\ StreamInv /\ BatchInv /\ WireInv
      /\ DispatcherInv
  BY Parts
<1>f. /\ stream.last \in Nat /\ stream.generation \in Nat /\ stream.high \in Nat
      /\ stream.generation <= service.generation
  BY <1>a, StreamFields DEF WireInv
<1>c. log \in Nat
  BY <1>a, ChannelIs
<1>1. stream.pc = "send" /\ stream.page # << >> /\ UNCHANGED dispatcherVars
  BY DEF SendPageEvent, StreamMoves
<1>2. PICK n \in Nat : stream.page = Ids(stream.last, n) /\ stream.last + n <= stream.high
  BY <1>a, <1>1 DEF StreamInv
<1>3. n # 0
  BY <1>1, <1>2 DEF Ids
<1>4. /\ Head(stream.page) = stream.last + 1
      /\ Tail(stream.page) = Ids(stream.last + 1, n - 1)
  BY <1>2, <1>3, <1>f, FirstOfIds, ZenonT(40)
<1>5. stream.last + 1 <= stream.high /\ stream.high <= log /\ n - 1 \in Nat
  BY <1>a, <1>1, <1>2, <1>3, <1>f DEF StreamInv
<1>6. ~(stream.last + 1 <= stream.last \/ stream.last + 1 > stream.high)
  BY <1>5, <1>f
<1>7. /\ wire' = Append(wire, EventFrame(stream.last + 1))
      /\ stream' = [ stream EXCEPT !.page = Ids(stream.last + 1, n - 1),
                                   !.last = stream.last + 1 ]
  BY <1>4, <1>6 DEF SendPageEvent, Send
<1>8. Ids(stream.last + 1, n - 1) \in Seq(Nat)
  BY <1>f, <1>5 DEF Ids
<1>9. /\ stream' \in StreamStates
      /\ stream'.pc = "send" /\ stream'.last = stream.last + 1 /\ stream'.high = stream.high
      /\ stream'.page = Ids(stream.last + 1, n - 1)
      /\ stream'.buffered = stream.buffered /\ stream'.taken = stream.taken
      /\ stream'.next = stream.next /\ stream'.generation = stream.generation
  <2> DEFINE rest == Ids(stream.last + 1, n - 1)
  <2>1. /\ rest \in Seq(Nat) /\ stream.last + 1 \in Nat
        /\ stream' = [ stream EXCEPT !.page = rest, !.last = stream.last + 1 ]
    BY <1>f, <1>7, <1>8
  <2> HIDE DEF rest
  <2>2. /\ stream' \in StreamStates
        /\ stream'.pc = stream.pc /\ stream'.last = stream.last + 1 /\ stream'.high = stream.high
        /\ stream'.page = rest
        /\ stream'.buffered = stream.buffered /\ stream'.taken = stream.taken
        /\ stream'.next = stream.next /\ stream'.generation = stream.generation
    BY <1>a, <2>1 DEF StreamStates
  <2> QED
    BY <1>1, <2>2 DEF rest
<1>10. StreamInv'
  <2>1. (stream.last + 1) + (n - 1) <= stream.high
    BY <1>2, <1>f
  <2>2. \E m \in Nat : stream'.page = Ids(stream'.last, m) /\ stream'.last + m <= stream'.high
    BY <1>5, <1>9, <2>1
  <2>3. stream'.last <= log
    BY <1>5, <1>9, <1>f, <1>c
  <2> QED
    BY <1>a, <1>1, <1>9, <2>2, <2>3 DEF StreamInv, Received, dispatcherVars, Ids
<1>11. BatchInv'
  BY <1>a, <1>1, <1>9, SameBatch
<1>12. SendsEvent
  BY <1>1, <1>5, <1>7, <1>9, <1>c, <1>f DEF SendsEvent, Streaming
<1> QED
  BY <1>f, <1>9, <1>10, <1>11, <1>12 DEF StreamGoal

\* The channel keeps its last events, and a receiver is at one of them or behind.
LEMMA OldestIs ==
    ASSUME Len(published) \in Nat
    PROVE  Oldest \in 1..(Len(published) + 1)
BY DeliveryAssumption DEF Oldest, DeliveryAssumption

\* A run of ids one longer.
LEMMA OneMoreInRange ==
    ASSUME NEW m \in Nat, NEW n \in Int, m <= n + 1
    PROVE  (m..n) \cup {n + 1} = m..(n + 1)
OBVIOUS

\* One item more: the place in the channel, the items taken, the refills owed.
LEMMA Counted ==
    ASSUME stream \in StreamStates, NEW next \in Nat
    PROVE  /\ LET s == [ stream EXCEPT !.next = next, !.taken = @ + 1, !.refills = @ + 1 ] IN
                /\ s \in StreamStates
                /\ s.pc = stream.pc /\ s.last = stream.last /\ s.next = next
                /\ s.buffered = stream.buffered /\ s.taken = stream.taken + 1
                /\ s.refills = stream.refills + 1 /\ s.generation = stream.generation
           /\ LET s == [ stream EXCEPT !.next = @ + 1, !.taken = @ + 1 ] IN
                /\ s \in StreamStates
                /\ s.pc = stream.pc /\ s.last = stream.last /\ s.next = stream.next + 1
                /\ s.buffered = stream.buffered /\ s.taken = stream.taken + 1
                /\ s.refills = stream.refills /\ s.generation = stream.generation
           /\ LET s == [ stream EXCEPT !.refills = @ + 1 ] IN
                /\ s \in StreamStates
                /\ s.pc = stream.pc /\ s.last = stream.last /\ s.next = stream.next
                /\ s.buffered = stream.buffered /\ s.taken = stream.taken
                /\ s.refills = stream.refills + 1 /\ s.generation = stream.generation
<1> DEFINE n == stream.next + 1
           t == stream.taken + 1
           r == stream.refills + 1
<1>1. n \in Nat /\ t \in Nat /\ r \in Nat
  BY StreamFields
<1> HIDE DEF n, t, r
<1>2. LET s == [ stream EXCEPT !.next = next, !.taken = t, !.refills = r ] IN
        /\ s \in StreamStates
        /\ s.pc = stream.pc /\ s.last = stream.last /\ s.next = next
        /\ s.buffered = stream.buffered /\ s.taken = t
        /\ s.refills = r /\ s.generation = stream.generation
  BY <1>1 DEF StreamStates
<1>3. LET s == [ stream EXCEPT !.next = n, !.taken = t ] IN
        /\ s \in StreamStates
        /\ s.pc = stream.pc /\ s.last = stream.last /\ s.next = n
        /\ s.buffered = stream.buffered /\ s.taken = t
        /\ s.refills = stream.refills /\ s.generation = stream.generation
  BY <1>1 DEF StreamStates
<1>4. LET s == [ stream EXCEPT !.refills = r ] IN
        /\ s \in StreamStates
        /\ s.pc = stream.pc /\ s.last = stream.last /\ s.next = stream.next
        /\ s.buffered = stream.buffered /\ s.taken = stream.taken
        /\ s.refills = r /\ s.generation = stream.generation
  BY <1>1 DEF StreamStates
<1> QED
  BY <1>2, <1>3, <1>4, Zenon DEF n, t, r

\* The item of a drain: the event is in the log, and follows those received before.
LEMMA LiveEventIs ==
    ASSUME DeliveryInv, HasEvent
    PROVE  /\ LiveEvent = dispatcher.spawned + stream.next /\ LiveEvent \in Nat
           /\ LiveEvent <= log /\ stream.next \in 1..Len(published)
<1>1. /\ log \in Nat /\ dispatcher.spawned \in Nat /\ Len(published) \in Nat
      /\ dispatcher.spawned + Len(published) <= log
      /\ \A i \in 1..Len(published) : published[i] = dispatcher.spawned + i
  BY ChannelIs, Parts
<1>2. stream.next \in 1..Len(published)
  BY <1>1, OldestIs DEF HasEvent
<1> QED
  BY <1>1, <1>2 DEF LiveEvent

\* After a drain: another refill, with the buffer kept, or the flush.
LEMMA DrainedIs ==
    ASSUME NEW s \in StreamStates
    PROVE  LET t == Drained(s) IN
           /\ t \in StreamStates
           /\ t.last = s.last /\ t.buffered = s.buffered /\ t.next = s.next
           /\ t.generation = s.generation /\ t.taken = 0
           /\ \/ t.pc = "high" /\ s.refills > 0
              \/ t.pc = "flush" /\ s.refills = 0 /\ t.refills = 0
<1>1. s.refills \in Nat
  BY DEF StreamStates
<1>2. CASE s.refills > 0
  <2>1. Drained(s) = [ s EXCEPT !.pc = "high", !.taken = 0, !.refills = s.refills - 1 ]
    BY <1>2 DEF Drained
  <2> DEFINE r == s.refills - 1
  <2>2. r \in Nat
    BY <1>1, <1>2
  <2> HIDE DEF r
  <2>3. Drained(s) = [ s EXCEPT !.pc = "high", !.taken = 0, !.refills = r ]
    BY <2>1 DEF r
  <2> DEFINE t == [ s EXCEPT !.pc = "high", !.taken = 0, !.refills = r ]
  <2>4. /\ t \in StreamStates
        /\ t.last = s.last /\ t.buffered = s.buffered /\ t.next = s.next
        /\ t.generation = s.generation /\ t.taken = 0 /\ t.pc = "high"
    BY <2>2 DEF StreamStates
  <2> HIDE DEF t
  <2>5. Drained(s) = t
    BY <2>3 DEF t
  <2> QED
    BY <1>2, <2>4, <2>5
<1>3. CASE ~(s.refills > 0)
  <2>1. Drained(s) = [ s EXCEPT !.pc = "flush", !.taken = 0 ] /\ s.refills = 0
    BY <1>1, <1>3 DEF Drained
  <2> QED
    BY <2>1 DEF StreamStates
<1> QED
  BY <1>2, <1>3

\* An item of a drain: a lag is owed a refill, an event goes to the buffer.
LEMMA DrainItems ==
    ASSUME DeliveryInv, DrainLag \/ DrainEvent
    PROVE  StreamGoal
<1>a. /\ stream \in StreamStates /\ service.generation \in Nat /\ StreamInv /\ BatchInv /\ WireInv
      /\ DispatcherInv
  BY Parts
<1>f. /\ stream.last \in Nat /\ stream.generation \in Nat
      /\ stream.next \in Nat /\ stream.buffered \in SUBSET Nat
      /\ stream.refills \in Nat /\ stream.taken \in Nat
      /\ stream.generation <= service.generation
  BY <1>a, StreamFields DEF WireInv
<1>c. /\ log \in Nat /\ dispatcher.spawned \in Nat /\ Len(published) \in Nat
      /\ dispatcher.spawned + Len(published) <= log
  BY <1>a, ChannelIs
<1>d. /\ stream.pc = "drain" /\ UNCHANGED wire /\ UNCHANGED dispatcherVars
      /\ stream.taken + 1 <= BatchSize /\ BatchSize \in Nat
      /\ stream.last <= log /\ stream.next \in 1..(Len(published) + 1)
      /\ IsFiniteSet(stream.buffered) /\ Cardinality(stream.buffered) \in Nat
      /\ Cardinality(stream.buffered) <= stream.taken
      /\ \A id \in stream.buffered : id <= log
  <2>1. /\ stream.pc = "drain" /\ UNCHANGED wire /\ UNCHANGED dispatcherVars
        /\ stream.taken < BatchSize
    BY DEF DrainLag, DrainEvent, Draining, StreamMoves
  <2>2. BatchSize \in Nat
    BY DeliveryAssumption DEF DeliveryAssumption
  <2>3. IsFiniteSet(stream.buffered) /\ Cardinality(stream.buffered) <= stream.taken
    BY <1>a, <2>1 DEF BatchInv
  <2>4. Cardinality(stream.buffered) \in Nat
    BY <2>3, FS_CardinalityType
  <2>5. /\ stream.last <= log /\ stream.next \in 1..(Len(published) + 1)
        /\ \A id \in stream.buffered : id <= log
    BY <1>a, <2>1 DEF StreamInv
  <2>6. stream.taken + 1 <= BatchSize
    BY <1>f, <2>1, <2>2
  <2> QED
    BY <2>1, <2>2, <2>3, <2>4, <2>5, <2>6
<1>e. /\ log' = log /\ published' = published /\ dispatcher' = dispatcher
  BY <1>d DEF dispatcherVars
<1>1. CASE DrainLag
  <2>1. stream' = [ stream EXCEPT !.next = Oldest, !.taken = @ + 1, !.refills = @ + 1 ]
    BY <1>1 DEF DrainLag
  <2>2. /\ stream' \in StreamStates
        /\ stream'.pc = "drain" /\ stream'.last = stream.last /\ stream'.next = Oldest
        /\ stream'.buffered = stream.buffered /\ stream'.taken = stream.taken + 1
        /\ stream'.refills = stream.refills + 1 /\ stream'.generation = stream.generation
    <3>1. Oldest \in Nat
      BY <1>c, OldestIs
    <3> QED
      BY <1>a, <1>d, <2>1, <3>1, Counted, Zenon
  <2>3. StreamInv'
    <3>1. stream'.refills # 0 /\ stream'.next \in 1..(Len(published) + 1)
      BY <1>c, <1>f, <2>2, OldestIs
    <3> QED
      BY <1>d, <1>e, <2>2, <3>1 DEF StreamInv
  <2>4. BatchInv'
    BY <1>d, <1>f, <2>2 DEF BatchInv
  <2>5. Silent
    BY <1>d, <2>2 DEF Silent, Streaming
  <2> QED
    BY <1>a, <1>f, <2>2, <2>3, <2>4, <2>5 DEF StreamGoal
<1>2. CASE DrainEvent
  <2> DEFINE received == [ stream EXCEPT !.next = @ + 1, !.taken = @ + 1 ]
             id == LiveEvent
  <2>1. /\ \/ id <= stream.last /\ stream' = received
           \/ stream' = NoStream
           \/ ~(id <= stream.last) /\ stream' = [ received EXCEPT !.buffered = @ \cup {id} ]
        /\ HasEvent
    BY <1>2 DEF DrainEvent
  <2>2. /\ id = dispatcher.spawned + stream.next /\ id \in Nat /\ id <= log
        /\ stream.next + 1 \in 1..(Len(published) + 1)
    BY <2>1, <1>c, LiveEventIs
  <2> HIDE DEF id
  <2>3. CASE id <= stream.last /\ stream' = received
    <3>1. /\ stream' \in StreamStates
          /\ stream'.pc = "drain" /\ stream'.last = stream.last /\ stream'.next = stream.next + 1
          /\ stream'.buffered = stream.buffered /\ stream'.taken = stream.taken + 1
          /\ stream'.refills = stream.refills /\ stream'.generation = stream.generation
      BY <1>a, <1>d, <1>f, <2>3, Counted, Zenon
    <3>2. StreamInv'
      <4> DEFINE a == dispatcher.spawned
                 b == stream.next
                 last == stream.last
      <4>0. id <= last
        BY <2>3
      <4> HIDE DEF received
      <4>p. a \in Nat /\ b \in Nat /\ last \in Nat /\ a + b <= last
        BY <1>c, <1>f, <2>2, <4>0
      <4> HIDE DEF a, b, last
      <4>q. (last + 1)..(a + (b + 1) - 1) = {} /\ (last + 1)..(a + b - 1) = {}
        BY <4>p
      <4>1. (stream.last + 1)..(dispatcher.spawned + (stream.next + 1) - 1) = {}
        BY <4>q DEF a, b, last
      <4>2. (stream.last + 1)..(dispatcher.spawned + stream.next - 1) = {}
        BY <4>q DEF a, b, last
      <4>3. stream.refills = 0 => stream.buffered = {}
        BY <1>a, <1>d, <4>2 DEF StreamInv, Received
      <4> QED
        BY <1>d, <1>e, <2>2, <3>1, <4>1, <4>3 DEF StreamInv, Received
    <3>3. BatchInv'
      BY <1>d, <1>f, <3>1 DEF BatchInv
    <3>4. Silent
      BY <1>d, <3>1 DEF Silent, Streaming
    <3> QED
      BY <1>a, <1>f, <3>1, <3>2, <3>3, <3>4 DEF StreamGoal
  <2>4. CASE stream' = NoStream
    BY <1>d, <2>4, EndsSilently
  <2>5. CASE ~(id <= stream.last) /\ stream' = [ received EXCEPT !.buffered = @ \cup {id} ]
    <3>1. /\ stream' \in StreamStates
          /\ stream'.pc = "drain" /\ stream'.last = stream.last /\ stream'.next = stream.next + 1
          /\ stream'.buffered = stream.buffered \cup {id} /\ stream'.taken = stream.taken + 1
          /\ stream'.refills = stream.refills /\ stream'.generation = stream.generation
      <4>1. stream.buffered \cup {id} \in SUBSET Nat
        BY <1>f, <2>2
      <4>2. /\ received \in StreamStates
            /\ received.pc = "drain" /\ received.last = stream.last
            /\ received.next = stream.next + 1 /\ received.taken = stream.taken + 1
            /\ received.buffered = stream.buffered /\ received.refills = stream.refills
            /\ received.generation = stream.generation
        BY <1>a, <1>d, <1>f, Counted, Zenon
      <4> HIDE DEF received
      <4> QED
        BY <2>5, <4>1, <4>2 DEF StreamStates
    <3>2. StreamInv'
      <4> DEFINE last == stream.last
                 seen == dispatcher.spawned + stream.next - 1
      <4>1. ((last + 1)..seen) \cup {id} = (last + 1)..(dispatcher.spawned + (stream.next + 1) - 1)
        <5>1. ~(id <= stream.last)
          BY <2>5
        <5>2. /\ last + 1 \in Nat /\ seen \in Int /\ id = seen + 1 /\ last + 1 <= seen + 1
              /\ dispatcher.spawned + (stream.next + 1) - 1 = seen + 1
          <6> DEFINE a == dispatcher.spawned
                     b == stream.next
          <6> HIDE DEF received
          <6>1. a \in Nat /\ b \in Nat /\ last \in Nat /\ id \in Nat /\ id = a + b /\ ~(id <= last)
            BY <1>c, <1>f, <2>2, <5>1
          <6> HIDE DEF a, b, last
          <6>2. /\ last + 1 \in Nat /\ a + b - 1 \in Int /\ id = (a + b - 1) + 1
                /\ last + 1 <= (a + b - 1) + 1 /\ a + (b + 1) - 1 = (a + b - 1) + 1
            BY <6>1
          <6> QED
            BY <6>2 DEF a, b
        <5> QED
          BY <5>2, OneMoreInRange
      <4>2. stream.refills = 0 => stream.buffered = (last + 1)..seen
        BY <1>a, <1>d DEF StreamInv, Received
      <4>3. \A m \in stream'.buffered : m <= log
        BY <1>d, <2>2, <3>1
      <4> HIDE DEF last, seen
      <4>4. stream'.refills = 0 =>
              stream'.buffered = (last + 1)..(dispatcher.spawned + (stream.next + 1) - 1)
        BY <3>1, <4>1, <4>2
      <4> QED
        BY <1>d, <1>e, <2>2, <3>1, <4>3, <4>4 DEF StreamInv, Received, last
    <3>3. BatchInv'
      <4>1. /\ IsFiniteSet(stream.buffered \cup {id})
            /\ \/ Cardinality(stream.buffered \cup {id}) = Cardinality(stream.buffered)
               \/ Cardinality(stream.buffered \cup {id}) = Cardinality(stream.buffered) + 1
        BY <1>d, FS_AddElement, Zenon
      <4>2. Cardinality(stream.buffered \cup {id}) \in Nat
        BY <4>1, FS_CardinalityType
      <4> QED
        BY <1>d, <1>f, <3>1, <4>1, <4>2 DEF BatchInv
    <3>4. Silent
      BY <1>d, <3>1 DEF Silent, Streaming
    <3> QED
      BY <1>a, <1>f, <3>1, <3>2, <3>3, <3>4 DEF StreamGoal
  <2> QED
    BY <2>1, <2>3, <2>4, <2>5
<1> QED
  BY <1>1, <1>2

\* A drain ends in a refill, or in the flush of a buffer that nothing is missing from.
LEMMA DrainOver ==
    ASSUME DeliveryInv, DrainEnd \/ DrainExhausted
    PROVE  StreamGoal
<1>a. /\ stream \in StreamStates /\ service.generation \in Nat /\ StreamInv /\ BatchInv /\ WireInv
  BY Parts
<1>f. /\ stream.last \in Nat /\ stream.generation \in Nat /\ stream.refills \in Nat
      /\ stream.next \in Nat
      /\ stream.generation <= service.generation /\ stream.liveClosed \in BOOLEAN
  BY <1>a, StreamFields DEF WireInv
<1>d. stream.pc = "drain" /\ UNCHANGED wire /\ UNCHANGED dispatcherVars
  BY DEF DrainEnd, DrainExhausted, Draining, StreamMoves
<1>1. PICK s \in StreamStates :
        /\ stream' = Drained(s)
        /\ s.last = stream.last /\ s.buffered = stream.buffered /\ s.next = stream.next
        /\ s.generation = stream.generation /\ s.refills \in Nat
        /\ s.refills = 0 => stream.refills = 0
  <2>1. CASE DrainEnd
    <3> DEFINE s == [ stream EXCEPT !.liveClosed = @ \/ HasEnded ]
    <3>1. stream' = Drained(s)
      BY <2>1 DEF DrainEnd
    <3>2. /\ s \in StreamStates /\ s.last = stream.last /\ s.buffered = stream.buffered
          /\ s.next = stream.next /\ s.generation = stream.generation
          /\ s.refills = stream.refills
      BY <1>a DEF StreamStates, HasEnded
    <3> HIDE DEF s
    <3> QED
      BY <1>f, <3>1, <3>2
  <2>2. CASE DrainExhausted
    <3> DEFINE s == [ stream EXCEPT !.refills = @ + 1 ]
    <3>1. stream' = Drained(s)
      BY <2>2 DEF DrainExhausted
    <3>2. /\ s \in StreamStates /\ s.last = stream.last /\ s.buffered = stream.buffered
          /\ s.next = stream.next /\ s.generation = stream.generation
          /\ s.refills = stream.refills + 1
      BY <1>a, <1>f, Counted, Zenon
    <3> HIDE DEF s
    <3> QED
      BY <1>f, <3>1, <3>2
  <2> QED
    BY <2>1, <2>2
<1>2. /\ stream' \in StreamStates /\ stream'.pc \in {"high", "flush"}
      /\ stream'.last = stream.last /\ stream'.buffered = stream.buffered
      /\ stream'.next = stream.next /\ stream'.generation = stream.generation
      /\ stream'.taken = 0
      /\ stream'.pc = "flush" => stream.refills = 0 /\ stream'.refills = 0
  BY <1>1, <1>f, DrainedIs
<1>3. StreamInv'
  BY <1>a, <1>d, <1>2 DEF StreamInv, Received, dispatcherVars
<1>4. BatchInv'
  <2>1. IsFiniteSet(stream.buffered) /\ Cardinality(stream.buffered) <= BatchSize
    BY <1>a DEF BatchInv
  <2>2. 0 <= BatchSize
    BY DeliveryAssumption DEF DeliveryAssumption
  <2> QED
    BY <1>2, <2>1, <2>2 DEF BatchInv
<1>5. Silent
  BY <1>d, <1>2 DEF Silent, Streaming
<1> QED
  BY <1>a, <1>f, <1>2, <1>3, <1>4, <1>5 DEF StreamGoal

\* The buffer holds the ids that follow the last one sent, so they go out one by one.
LEMMA Flush ==
    ASSUME DeliveryInv, FlushBuffer
    PROVE  StreamGoal
<1>a. /\ stream \in StreamStates /\ service.generation \in Nat /\ StreamInv /\ BatchInv /\ WireInv
      /\ DispatcherInv
  BY Parts
<1>f. /\ stream.last \in Nat /\ stream.generation \in Nat /\ stream.next \in Nat
      /\ stream.buffered \in SUBSET Nat /\ stream.generation <= service.generation
  BY <1>a, StreamFields DEF WireInv
<1>c. log \in Nat /\ dispatcher.spawned \in Nat
  BY <1>a, ChannelIs
<1>d. /\ stream.pc = "flush" /\ UNCHANGED dispatcherVars
      /\ stream.refills = 0 /\ stream.last <= log
      /\ stream.buffered = (stream.last + 1)..Received
      /\ \A id \in stream.buffered : id <= log
      /\ stream.next \in 1..(Len(published) + 1)
  <2>1. stream.pc = "flush" /\ UNCHANGED dispatcherVars
    BY DEF FlushBuffer, StreamMoves
  <2> QED
    BY <1>a, <2>1 DEF StreamInv
<1>e. log' = log /\ published' = published /\ dispatcher' = dispatcher
  BY <1>d DEF dispatcherVars
<1>1. CASE stream.buffered = {}
  <2>1. stream' = [ stream EXCEPT !.pc = "live" ] /\ UNCHANGED wire
    BY <1>1 DEF FlushBuffer
  <2>2. /\ stream' \in StreamStates
        /\ stream'.pc = "live" /\ stream'.last = stream.last /\ stream'.next = stream.next
        /\ stream'.buffered = stream.buffered /\ stream'.taken = stream.taken
        /\ stream'.refills = stream.refills /\ stream'.generation = stream.generation
    BY <1>a, <2>1 DEF StreamStates
  <2>3. StreamInv'
    BY <1>1, <1>d, <1>e, <2>2 DEF StreamInv, Received
  <2>4. BatchInv'
    BY <1>a, <1>d, <2>2, SameBatch
  <2>5. Silent
    BY <1>d, <2>1, <2>2 DEF Silent, Streaming
  <2> QED
    BY <1>a, <1>f, <2>2, <2>3, <2>4, <2>5 DEF StreamGoal
<1>2. CASE stream.buffered # {}
  <2> DEFINE id == CHOOSE m \in stream.buffered : \A n \in stream.buffered : m <= n
             next == stream.last + 1
             seen == Received
  <2>1. seen \in Int /\ next \in Nat /\ stream.buffered = next..seen
    BY <1>c, <1>d, <1>f DEF Received
  <2> HIDE DEF next, seen
  <2>2. next \in stream.buffered /\ \A n \in stream.buffered : next <= n
    BY <1>2, <2>1
  <2>3. id \in stream.buffered /\ \A n \in stream.buffered : id <= n
    BY <2>2
  <2> HIDE DEF id
  <2>4. id = next
    <3>1. id <= next /\ next <= id /\ id \in Nat /\ next \in Nat
      BY <1>f, <2>1, <2>2, <2>3, Zenon
    <3> QED
      BY <3>1
  <2>5. ~(id <= stream.last) /\ next <= log
    BY <1>d, <1>f, <2>2, <2>4 DEF next
  <2>6. /\ wire' = Append(wire, EventFrame(next))
        /\ stream' = [ stream EXCEPT !.buffered = @ \ {next}, !.last = next ]
    BY <1>2, <2>4, <2>5 DEF FlushBuffer, Send, id
  <2>7. /\ stream' \in StreamStates
        /\ stream'.pc = "flush" /\ stream'.last = next /\ stream'.next = stream.next
        /\ stream'.buffered = stream.buffered \ {next} /\ stream'.taken = stream.taken
        /\ stream'.refills = stream.refills /\ stream'.generation = stream.generation
    <3>1. stream.buffered \ {next} \in SUBSET Nat
      BY <1>f
    <3> QED
      BY <1>a, <1>d, <2>1, <2>6, <3>1 DEF StreamStates
  <2>8. StreamInv'
    <3>1. (next..seen) \ {next} = (next + 1)..seen
      BY <2>1
    <3>2. stream'.buffered = (next + 1)..Received
      BY <2>1, <2>7, <3>1 DEF seen
    <3> QED
      BY <1>d, <1>e, <2>5, <2>7, <3>2 DEF StreamInv, Received
  <2>9. BatchInv'
    <3>1. /\ IsFiniteSet(stream.buffered) /\ Cardinality(stream.buffered) <= BatchSize
          /\ stream.taken = 0 /\ BatchSize \in Nat
      BY <1>a, <1>d, DeliveryAssumption DEF BatchInv, DeliveryAssumption
    <3>2. /\ IsFiniteSet(stream'.buffered)
          /\ Cardinality(stream'.buffered) <= Cardinality(stream.buffered)
      <4>1. stream'.buffered \subseteq stream.buffered
        BY <2>7
      <4> QED
        BY <3>1, <4>1, FS_Subset, Zenon
    <3>3. Cardinality(stream.buffered) \in Nat /\ Cardinality(stream'.buffered) \in Nat
      BY <3>1, <3>2, FS_CardinalityType
    <3> QED
      BY <2>7, <3>1, <3>2, <3>3 DEF BatchInv
  <2>10. SendsEvent
    BY <1>d, <2>5, <2>6, <2>7 DEF SendsEvent, Streaming, next
  <2> QED
    BY <1>a, <1>f, <2>7, <2>8, <2>9, <2>10 DEF StreamGoal
<1> QED
  BY <1>1, <1>2

\* A live stream has sent or passed over everything received, so an event that
\* is new to it is the next one.
LEMMA LiveSteps ==
    ASSUME DeliveryInv, Live
    PROVE  StreamGoal
<1>a. /\ stream \in StreamStates /\ service.generation \in Nat /\ StreamInv /\ BatchInv /\ WireInv
      /\ DispatcherInv
  BY Parts
<1>f. /\ stream.last \in Nat /\ stream.generation \in Nat /\ stream.next \in Nat
      /\ stream.generation <= service.generation
  BY <1>a, StreamFields DEF WireInv
<1>c. log \in Nat /\ dispatcher.spawned \in Nat /\ Len(published) \in Nat
  BY <1>a, ChannelIs
<1>d. /\ stream.pc = "live" /\ UNCHANGED dispatcherVars
      /\ stream.refills = 0 /\ stream.last <= log /\ stream.taken = 0
      /\ stream.buffered = {} /\ stream.buffered = (stream.last + 1)..Received
      /\ stream.next \in 1..(Len(published) + 1)
  <2>1. stream.pc = "live" /\ UNCHANGED dispatcherVars
    BY DEF Live, ReceiveEvent, ReceiveLag, ReceiveEnd, EndStream, StreamMoves
  <2> QED
    BY <1>a, <2>1 DEF StreamInv, BatchInv
<1>e. log' = log /\ published' = published /\ dispatcher' = dispatcher
  BY <1>d DEF dispatcherVars
<1>g. dispatcher.spawned + stream.next - 1 <= stream.last
  <2> DEFINE n == stream.last + 1
             seen == Received
  <2>1. n..seen = {}
    BY <1>d
  <2>2. n \in Nat /\ seen \in Int
    <3> DEFINE a == dispatcher.spawned
               b == stream.next
    <3>1. a \in Nat /\ b \in Nat /\ seen = a + b - 1 /\ n \in Nat
      BY <1>c, <1>f DEF Received
    <3> HIDE DEF a, b, seen, n
    <3> QED
      BY <3>1
  <2> HIDE DEF n, seen
  <2>3. seen < n
    BY <2>1, <2>2
  <2> QED
    BY <1>c, <1>f, <2>3 DEF n, seen, Received
<1>1. CASE ReceiveEvent
  <2> DEFINE received == [ stream EXCEPT !.next = @ + 1 ]
             id == LiveEvent
             next == stream.next + 1
  <2>1. HasEvent /\ next \in Nat
    BY <1>1, <1>f DEF ReceiveEvent
  <2>2. /\ id = dispatcher.spawned + stream.next /\ id \in Nat /\ id <= log
        /\ next \in 1..(Len(published) + 1)
    BY <1>c, <2>1, LiveEventIs
  <2>3. \/ /\ id > stream.last /\ wire' = Append(wire, EventFrame(id))
           /\ stream' = [ stream EXCEPT !.next = next, !.last = id ]
        \/ /\ ~(id > stream.last) /\ UNCHANGED wire
           /\ stream' = [ stream EXCEPT !.next = next ]
    BY <1>1 DEF ReceiveEvent, Send
  <2>4. next - 1 = stream.next
    BY <1>f
  <2> HIDE DEF id, next
  <2>5. CASE id > stream.last
    <3>1. id = stream.last + 1
      <4> DEFINE a == dispatcher.spawned
                 b == stream.next
                 last == stream.last
      <4>1. /\ a \in Nat /\ b \in Nat /\ last \in Nat
            /\ id = a + b /\ a + b - 1 <= last /\ id > last
        BY <1>c, <1>f, <1>g, <2>2, <2>5
      <4> HIDE DEF a, b, last
      <4>2. id = last + 1
        BY <4>1
      <4> QED
        BY <4>2 DEF last
    <3>2. /\ stream' \in StreamStates
          /\ stream'.pc = "live" /\ stream'.last = id /\ stream'.next = next
          /\ stream'.buffered = stream.buffered /\ stream'.taken = stream.taken
          /\ stream'.refills = stream.refills /\ stream'.generation = stream.generation
          /\ wire' = Append(wire, EventFrame(id))
      BY <1>a, <1>d, <2>1, <2>2, <2>3, <2>5 DEF StreamStates
    <3>3. StreamInv'
      <4>1. (id + 1)..(dispatcher.spawned + next - 1) = {}
        BY <1>c, <1>f, <2>1, <2>2, <2>4
      <4> QED
        BY <1>d, <1>e, <2>2, <3>2, <4>1 DEF StreamInv, Received
    <3>4. BatchInv'
      BY <1>a, <1>d, <3>2, SameBatch
    <3>5. SendsEvent
      BY <1>d, <2>2, <3>1, <3>2 DEF SendsEvent, Streaming
    <3> QED
      BY <1>a, <1>f, <3>2, <3>3, <3>4, <3>5 DEF StreamGoal
  <2>6. CASE ~(id > stream.last)
    <3>1. /\ stream' \in StreamStates
          /\ stream'.pc = "live" /\ stream'.last = stream.last /\ stream'.next = next
          /\ stream'.buffered = stream.buffered /\ stream'.taken = stream.taken
          /\ stream'.refills = stream.refills /\ stream'.generation = stream.generation
          /\ UNCHANGED wire
      BY <1>a, <1>d, <2>1, <2>3, <2>6 DEF StreamStates
    <3>2. StreamInv'
      <4>1. (stream.last + 1)..(dispatcher.spawned + next - 1) = {}
        BY <1>c, <1>f, <2>1, <2>2, <2>4, <2>6
      <4> QED
        BY <1>d, <1>e, <2>2, <3>1, <4>1 DEF StreamInv, Received
    <3>3. BatchInv'
      BY <1>a, <1>d, <3>1, SameBatch
    <3>4. Silent
      BY <1>d, <3>1 DEF Silent, Streaming
    <3> QED
      BY <1>a, <1>f, <3>1, <3>2, <3>3, <3>4 DEF StreamGoal
  <2> QED
    BY <2>5, <2>6
<1>2. CASE ReceiveLag
  <2>1. /\ UNCHANGED wire
        /\ stream' = [ stream EXCEPT !.pc = "drain", !.buffered = {},
                         !.refills = 1, !.next = Oldest ]
    BY <1>2 DEF ReceiveLag
  <2>2. /\ stream' \in StreamStates
        /\ stream'.pc = "drain" /\ stream'.last = stream.last /\ stream'.next = Oldest
        /\ stream'.buffered = {} /\ stream'.taken = stream.taken
        /\ stream'.refills = 1 /\ stream'.generation = stream.generation
    <3>1. Oldest \in Nat
      BY <1>c, OldestIs
    <3> QED
      BY <1>a, <1>d, <2>1, <3>1 DEF StreamStates
  <2>3. StreamInv'
    <3>1. stream'.next \in 1..(Len(published) + 1)
      BY <1>c, <2>2, OldestIs
    <3> QED
      BY <1>d, <1>e, <2>2, <3>1 DEF StreamInv
  <2>4. BatchInv'
    <3>1. BatchSize \in Nat
      BY DeliveryAssumption DEF DeliveryAssumption
    <3> QED
      BY <1>d, <2>2, <3>1, FS_EmptySet DEF BatchInv
  <2>5. Silent
    BY <1>d, <2>1, <2>2 DEF Silent, Streaming
  <2> QED
    BY <1>a, <1>f, <2>2, <2>3, <2>4, <2>5 DEF StreamGoal
<1>3. CASE ReceiveEnd
  <2>1. UNCHANGED wire /\ stream' = [ stream EXCEPT !.liveClosed = TRUE ]
    BY <1>3 DEF ReceiveEnd
  <2>2. /\ stream' \in StreamStates
        /\ stream'.pc = "live" /\ stream'.last = stream.last /\ stream'.next = stream.next
        /\ stream'.buffered = stream.buffered /\ stream'.taken = stream.taken
        /\ stream'.refills = stream.refills /\ stream'.generation = stream.generation
    BY <1>a, <1>d, <2>1 DEF StreamStates
  <2>3. StreamInv'
    BY <1>d, <1>e, <2>2 DEF StreamInv, Received
  <2>4. BatchInv'
    BY <1>a, <1>d, <2>2, SameBatch
  <2>5. Silent
    BY <1>d, <2>1, <2>2 DEF Silent, Streaming
  <2> QED
    BY <1>a, <1>f, <2>2, <2>3, <2>4, <2>5 DEF StreamGoal
<1>4. CASE EndStream
  BY <1>4, EndsSilently DEF EndStream
<1> QED
  BY <1>1, <1>2, <1>3, <1>4 DEF Live

\* Every step of the stream.
LEMMA StreamSteps ==
    ASSUME DeliveryInv, StreamStep \/ SendService \/ StreamReadFails
    PROVE  StreamGoal /\ UNCHANGED << dispatcherVars, service, client >>
<1>1. CASE StreamReadFails
  <2>1. stream' = NoStream /\ UNCHANGED << dispatcherVars, service, client, wire >>
    BY <1>1 DEF StreamReadFails
  <2> QED
    BY <2>1, EndsSilently
<1>2. CASE StreamStep \/ SendService
  <2>1. UNCHANGED << dispatcherVars, service, client >>
    BY <1>2 DEF StreamStep, SendService, SendCurrentState, Replay, Drain, Live, FlushBuffer,
       ReadHigh, ReadStreamPage, SendPageEvent, EndStreamPage, PagesDone,
       DrainLag, DrainEvent, DrainEnd, DrainExhausted,
       ReceiveEvent, ReceiveLag, ReceiveEnd, EndStream, StreamMoves
  <2> QED
    BY <1>2, <2>1, StateAndService, HighAndPages, PageEvents, DrainItems, DrainOver, Flush,
       LiveSteps
    DEF StreamStep, Replay, Drain
<1> QED
  BY <1>1, <1>2

-----------------------------------------------------------------------------
(* The frames under way *)

\* Where the stream is: as far beyond the cursor as there are events under way.
LEMMA LastIs ==
    ASSUME DeliveryInv, stream.pc # "none"
    PROVE  /\ client.applied \in Nat /\ stream.last \in Nat
           /\ EventsUnderWay = (client.applied + 1)..stream.last
           /\ client.applied <= stream.last
           /\ stream.last \in EventsUnderWay \cup {client.applied}
<1>1. client.applied \in Nat /\ stream.last \in Nat
  BY Parts DEF ClientStates, StreamStates
<1>2. /\ EventsUnderWay = (client.applied + 1)..stream.last
      /\ stream.last \in EventsUnderWay \cup {client.applied}
  BY Parts DEF FramesAreInOrder
<1> HIDE DEF EventsUnderWay
<1>3. client.applied <= stream.last
  BY <1>1, <1>2
<1> QED
  BY <1>1, <1>2, <1>3

\* A frame more under way.
LEMMA Posted ==
    ASSUME DeliveryInv, NEW frame \in Frames, wire' = Append(wire, frame)
    PROVE  /\ wire' \in Seq(Frames)
           /\ DOMAIN wire' = 1..(Len(wire) + 1)
           /\ \A i \in DOMAIN wire : i \in DOMAIN wire' /\ i < Len(wire) + 1 /\ wire'[i] = wire[i]
           /\ wire'[Len(wire) + 1] = frame
           /\ \A i \in DOMAIN wire' : i \in DOMAIN wire \/ i = Len(wire) + 1
           /\ \A i, j \in DOMAIN wire' : i < j => i \in DOMAIN wire
           /\ EventsUnderWay' =
                EventsUnderWay \cup (IF frame.kind = "event" THEN {frame.number} ELSE {})
<1>1. wire \in Seq(Frames) /\ Len(wire) \in Nat /\ DOMAIN wire = 1..Len(wire)
  BY Parts
<1>2. /\ wire' \in Seq(Frames) /\ DOMAIN wire' = 1..(Len(wire) + 1)
      /\ \A i \in 1..Len(wire) : wire'[i] = wire[i]
      /\ wire'[Len(wire) + 1] = frame
  BY <1>1, AppendProperties
<1>3. /\ \A i \in DOMAIN wire : i \in DOMAIN wire' /\ i < Len(wire) + 1 /\ wire'[i] = wire[i]
      /\ \A i \in DOMAIN wire' : i \in DOMAIN wire \/ i = Len(wire) + 1
      /\ Len(wire) + 1 \in DOMAIN wire'
  BY <1>1, <1>2
<1>4. \A i, j \in DOMAIN wire' : i < j => i \in DOMAIN wire
  BY <1>1, <1>2
<1>5. EventsUnderWay' = EventsUnderWay \cup (IF frame.kind = "event" THEN {frame.number} ELSE {})
  <2>1. EventsUnderWay' =
          { wire'[i].number : i \in { j \in DOMAIN wire' : wire'[j].kind = "event" } }
    BY DEF EventsUnderWay
  <2> DEFINE n == Len(wire) + 1
  <2> HIDE DEF n
  <2>2. { wire'[i].number : i \in { j \in DOMAIN wire' : wire'[j].kind = "event" } } =
          { wire[i].number : i \in { j \in DOMAIN wire : wire[j].kind = "event" } }
            \cup (IF frame.kind = "event" THEN {frame.number} ELSE {})
    <3>1. /\ \A i \in DOMAIN wire : i \in DOMAIN wire' /\ wire'[i] = wire[i]
          /\ \A i \in DOMAIN wire' : i \in DOMAIN wire \/ i = n
          /\ n \in DOMAIN wire' /\ wire'[n] = frame
      BY <1>2, <1>3 DEF n
    <3> QED
      BY <3>1
  <2> QED
    BY <2>1, <2>2 DEF EventsUnderWay
<1> QED
  BY <1>1, <1>2, <1>3, <1>4, <1>5

\* The frames that are sent.
LEMMA FrameTypes ==
    /\ \A n \in Nat : /\ EventFrame(n) \in Frames /\ ServiceFrame(n) \in Frames
                      /\ ResetFrame(n) \in Frames
                      /\ EventFrame(n).number = n /\ ServiceFrame(n).number = n
    /\ \A n : /\ EventFrame(n).kind = "event" /\ ServiceFrame(n).kind = "service"
              /\ ResetFrame(n).kind = "reset"
BY DEF EventFrame, ServiceFrame, ResetFrame, Frames

\* An event is sent: the next one.
LEMMA EventSent ==
    ASSUME DeliveryInv, SendsEvent, UNCHANGED << dispatcherVars, service, client >>
    PROVE  wire' \in Seq(Frames) /\ WireInv' /\ FramesAreInOrder'
<1> DEFINE id == stream.last + 1
           frame == EventFrame(id)
<1>1. /\ stream.pc # "none" /\ stream'.pc # "none" /\ stream'.pc # "state"
      /\ wire' = Append(wire, frame) /\ stream'.last = id /\ id <= log
      /\ stream'.generation = stream.generation
  BY DEF SendsEvent, Streaming
<1>2. /\ client.applied \in Nat /\ stream.last \in Nat /\ id \in Nat
      /\ EventsUnderWay = (client.applied + 1)..stream.last
      /\ client.applied <= stream.last
  BY <1>1, LastIs
<1>3. frame \in Frames /\ frame.kind = "event" /\ frame.number = id
  BY <1>2, FrameTypes
<1>4. /\ \A i \in DOMAIN wire : wire[i] \in Frames /\ wire[i].number \in Nat
      /\ WireInv /\ FramesAreInOrder
  BY Parts
<1>5. client' = client /\ log' = log /\ service' = service
  BY DEF dispatcherVars
<1> HIDE DEF frame
<1>6. /\ wire' \in Seq(Frames)
      /\ \A i \in DOMAIN wire : i < Len(wire) + 1 /\ wire'[i] = wire[i]
      /\ wire'[Len(wire) + 1] = frame
      /\ \A i \in DOMAIN wire' : i \in DOMAIN wire \/ i = Len(wire) + 1
      /\ \A i, j \in DOMAIN wire' : i < j => i \in DOMAIN wire
      /\ EventsUnderWay' = EventsUnderWay \cup {id}
  BY <1>1, <1>3, Posted
<1> DEFINE n == Len(wire) + 1
<1> HIDE DEF n
<1>7. WireInv'
  <2>1. client'.pc = "open"
    BY <1>1, <1>4, <1>5 DEF WireInv
  <2>2. ASSUME NEW i \in DOMAIN wire'
        PROVE  /\ wire'[i].kind = "event" => wire'[i].number <= log'
               /\ wire'[i].kind = "service" => wire'[i].number <= stream'.generation
               /\ wire'[i].kind # "reset"
    <3>1. CASE i \in DOMAIN wire
      BY <1>1, <1>4, <1>5, <1>6, <3>1 DEF WireInv
    <3>2. CASE i = Len(wire) + 1
      BY <1>1, <1>3, <1>5, <1>6, <3>2
    <3> QED
      BY <1>6, <3>1, <3>2
  <2>3. stream'.generation <= service'.generation
    BY <1>1, <1>4, <1>5 DEF WireInv
  <2> QED
    BY <1>1, <2>1, <2>2, <2>3 DEF WireInv
<1>8. FramesAreInOrder'
  <2>1. EventsUnderWay' = (client'.applied + 1)..id
    <3>1. client.applied + 1 \in Nat /\ client.applied + 1 <= stream.last + 1
      BY <1>2
    <3>2. ((client.applied + 1)..stream.last) \cup {id} = (client.applied + 1)..id
      BY <1>2, <3>1, OneMoreInRange
    <3> QED
      BY <1>2, <1>5, <1>6, <3>2, Zenon
  <2>2. id \in EventsUnderWay'
    BY <1>6
  <2>3. ASSUME NEW i \in DOMAIN wire', NEW j \in DOMAIN wire', i < j,
               wire'[i].kind = wire'[j].kind
        PROVE  wire'[i].number < wire'[j].number
    <3>1. i \in DOMAIN wire /\ wire'[i] = wire[i]
      BY <1>6, <2>3
    <3>2. CASE j \in DOMAIN wire
      BY <1>4, <1>6, <2>3, <3>1, <3>2 DEF FramesAreInOrder
    <3>3. CASE j = Len(wire) + 1
      <4>1. wire[i].kind = "event" /\ wire'[j].number = id
        BY <1>3, <1>6, <2>3, <3>1, <3>3
      <4>2. wire[i].number \in EventsUnderWay
        BY <3>1, <4>1 DEF EventsUnderWay
      <4>3. wire[i].number <= stream.last /\ wire[i].number \in Nat
        BY <1>2, <1>4, <3>1, <4>2
      <4> QED
        BY <1>2, <3>1, <4>1, <4>3
    <3> QED
      BY <1>6, <3>2, <3>3
  <2> HIDE DEF id, EventsUnderWay
  <2> QED
    BY <1>1, <2>1, <2>2, <2>3 DEF FramesAreInOrder
<1> QED
  BY <1>6, <1>7, <1>8

\* A service state is sent: it is newer than those under way.
LEMMA ServiceSent ==
    ASSUME DeliveryInv, SendsService, UNCHANGED << dispatcherVars, service, client >>
    PROVE  wire' \in Seq(Frames) /\ WireInv' /\ FramesAreInOrder'
<1> DEFINE frame == ServiceFrame(service.generation)
<1>1. /\ stream.pc # "none" /\ stream'.pc # "none" /\ stream'.pc # "state"
      /\ wire' = Append(wire, frame) /\ stream'.last = stream.last
      /\ stream'.generation = service.generation
      /\ \/ wire = << >>
         \/ stream.generation < service.generation
  BY DEF SendsService, Streaming
<1>2. /\ \A i \in DOMAIN wire : wire[i] \in Frames /\ wire[i].number \in Nat
      /\ WireInv /\ FramesAreInOrder /\ service.generation \in Nat /\ stream.generation \in Nat
  BY Parts, StreamFields
<1>3. frame \in Frames /\ frame.kind = "service" /\ frame.number = service.generation
  BY <1>2, FrameTypes
<1>4. client' = client /\ log' = log /\ service' = service
  BY DEF dispatcherVars
<1> HIDE DEF frame
<1>5. /\ wire' \in Seq(Frames)
      /\ \A i \in DOMAIN wire : i < Len(wire) + 1 /\ wire'[i] = wire[i]
      /\ wire'[Len(wire) + 1] = frame
      /\ \A i \in DOMAIN wire' : i \in DOMAIN wire \/ i = Len(wire) + 1
      /\ \A i, j \in DOMAIN wire' : i < j => i \in DOMAIN wire
      /\ EventsUnderWay' = EventsUnderWay
  BY <1>1, <1>3, Posted
<1>6. \A i \in DOMAIN wire : /\ stream.generation < service.generation
                             /\ wire[i].kind = "service" => wire[i].number <= stream.generation
                             /\ wire[i].kind # "reset"
  BY <1>1, <1>2 DEF WireInv
<1>7. \A i \in DOMAIN wire : wire[i].kind = "service" => wire[i].number < service.generation
  BY <1>2, <1>6
<1>8. WireInv'
  <2>1. client'.pc = "open"
    BY <1>1, <1>2, <1>4 DEF WireInv
  <2>2. ASSUME NEW i \in DOMAIN wire'
        PROVE  /\ wire'[i].kind = "event" => wire'[i].number <= log'
               /\ wire'[i].kind = "service" => wire'[i].number <= stream'.generation
               /\ wire'[i].kind # "reset"
    <3>1. CASE i \in DOMAIN wire
      BY <1>1, <1>2, <1>4, <1>5, <1>6, <1>7, <3>1 DEF WireInv
    <3>2. CASE i = Len(wire) + 1
      BY <1>1, <1>2, <1>3, <1>5, <3>2
    <3> QED
      BY <1>5, <3>1, <3>2
  <2>3. stream'.generation <= service'.generation
    BY <1>1, <1>2, <1>4
  <2> QED
    BY <1>1, <2>1, <2>2, <2>3 DEF WireInv
<1>9. FramesAreInOrder'
  <2>1. /\ EventsUnderWay' = (client'.applied + 1)..stream.last
        /\ stream.last \in EventsUnderWay' \cup {client'.applied}
    BY <1>1, <1>4, <1>5, LastIs
  <2>2. ASSUME NEW i \in DOMAIN wire', NEW j \in DOMAIN wire', i < j,
               wire'[i].kind = wire'[j].kind
        PROVE  wire'[i].number < wire'[j].number
    <3>1. i \in DOMAIN wire /\ wire'[i] = wire[i]
      BY <1>5, <2>2
    <3>2. CASE j \in DOMAIN wire
      BY <1>2, <1>5, <2>2, <3>1, <3>2 DEF FramesAreInOrder
    <3>3. CASE j = Len(wire) + 1
      BY <1>3, <1>5, <1>7, <2>2, <3>1, <3>3
    <3> QED
      BY <1>5, <3>2, <3>3
  <2> HIDE DEF EventsUnderWay
  <2> QED
    BY <1>1, <2>1, <2>2 DEF FramesAreInOrder
<1> QED
  BY <1>5, <1>8, <1>9

\* A reset is sent: only to a client that is ahead of the log, which has no event
\* under way and a cursor that is not of this database.
LEMMA ResetSent ==
    ASSUME DeliveryInv, SendsReset, UNCHANGED << dispatcherVars, service, client >>
    PROVE  wire' \in Seq(Frames) /\ WireInv' /\ FramesAreInOrder'
<1> DEFINE frame == ResetFrame(log)
<1>1. /\ stream.pc # "none" /\ stream'.pc = "none" /\ stream'.generation = 0
      /\ wire' = Append(wire, frame) /\ log < stream.last
  BY WithoutStream DEF SendsReset
<1>2. /\ \A i \in DOMAIN wire : wire[i] \in Frames /\ wire[i].number \in Nat
      /\ WireInv /\ ClientInv /\ FramesAreInOrder /\ log \in Nat /\ service.generation \in Nat
  BY Parts, ChannelIs
<1>3. frame \in Frames /\ frame.kind = "reset"
  BY <1>2, FrameTypes
<1>4. client' = client /\ log' = log /\ service' = service
  BY DEF dispatcherVars
<1> HIDE DEF frame
<1>5. /\ wire' \in Seq(Frames)
      /\ \A i \in DOMAIN wire : i < Len(wire) + 1 /\ wire'[i] = wire[i]
      /\ wire'[Len(wire) + 1] = frame
      /\ \A i \in DOMAIN wire' : i \in DOMAIN wire \/ i = Len(wire) + 1
      /\ \A i, j \in DOMAIN wire' : i < j => i \in DOMAIN wire
      /\ EventsUnderWay' = EventsUnderWay
  BY <1>1, <1>3, Posted
<1>6. client.foreign
  <2>1. \A id \in EventsUnderWay : id <= log
    BY <1>2 DEF WireInv, EventsUnderWay
  <2>2. /\ client.applied \in Nat /\ stream.last \in Nat
        /\ stream.last \in EventsUnderWay \cup {client.applied}
    BY <1>1, LastIs
  <2> HIDE DEF EventsUnderWay
  <2>3. stream.last = client.applied
    BY <1>1, <1>2, <2>1, <2>2
  <2> QED
    BY <1>1, <1>2, <2>2, <2>3 DEF ClientInv
<1>7. WireInv'
  <2>1. client'.pc = "open"
    BY <1>1, <1>2, <1>4 DEF WireInv
  <2>2. ASSUME NEW i \in DOMAIN wire'
        PROVE  wire'[i].kind = "event" => wire'[i].number <= log'
    BY <1>2, <1>3, <1>4, <1>5 DEF WireInv
  <2> QED
    BY <1>1, <1>2, <1>4, <1>6, <2>1, <2>2 DEF WireInv
<1>8. FramesAreInOrder'
  <2>1. /\ EventsUnderWay' = (client'.applied + 1)..stream.last
        /\ stream.last \in EventsUnderWay' \cup {client'.applied}
    BY <1>1, <1>4, <1>5, LastIs
  <2>2. ASSUME NEW i \in DOMAIN wire', NEW j \in DOMAIN wire', i < j,
               wire'[i].kind = wire'[j].kind
        PROVE  wire'[i].number < wire'[j].number
    <3>1. i \in DOMAIN wire /\ wire'[i] = wire[i] /\ wire[i].kind # "reset"
      BY <1>1, <1>2, <1>5, <2>2 DEF WireInv
    <3>2. j \in DOMAIN wire
      BY <1>3, <1>5, <2>2, <3>1
    <3> QED
      BY <1>2, <1>5, <2>2, <3>1, <3>2 DEF FramesAreInOrder
  <2> HIDE DEF EventsUnderWay
  <2> QED
    BY <1>1, <2>1, <2>2 DEF FramesAreInOrder
<1> QED
  BY <1>5, <1>7, <1>8

-----------------------------------------------------------------------------
(* The other steps *)

\* The parts of the invariant that are not the dispatcher's.
DeliveryParts ==
    DeliveryTypeOK /\ StreamInv /\ BatchInv /\ WireInv /\ ClientInv /\ FramesAreInOrder

\* What the store, the dispatcher and the service do on their own: they only add.
LEMMA OthersMove ==
    ASSUME DeliveryInv, UNCHANGED << stream, wire, client >>,
           service' \in [ state : {"Ready", "StoreDegraded", "Quiescing"}, generation : Nat ],
           service.generation <= service'.generation,
           log' \in Nat, log <= log', dispatcher'.spawned = dispatcher.spawned,
           Len(published') \in Nat, Len(published) <= Len(published')
    PROVE  DeliveryParts'
<1>a. /\ stream \in StreamStates /\ client \in ClientStates /\ service.generation \in Nat
      /\ \A i \in DOMAIN wire : wire[i].number \in Nat
      /\ StreamInv /\ BatchInv /\ WireInv /\ ClientInv /\ FramesAreInOrder /\ DeliveryTypeOK
  BY Parts DEF DeliveryInv
<1>f. /\ stream.last \in Nat /\ stream.generation \in Nat /\ stream.next \in Nat
      /\ stream.high \in Nat /\ stream.buffered \in SUBSET Nat /\ client.applied \in Nat
      /\ service'.generation \in Nat
  BY <1>a, StreamFields DEF ClientStates
<1>c. log \in Nat /\ dispatcher.spawned \in Nat /\ Len(published) \in Nat
  BY Parts, ChannelIs
<1>1. DeliveryTypeOK'
  BY <1>a DEF DeliveryTypeOK
<1>2. StreamInv'
  <2>1. stream.pc # "none" => stream.next \in 1..(Len(published') + 1)
    BY <1>a, <1>c, <1>f DEF StreamInv
  <2>2. \A id \in stream.buffered : id <= log'
    BY <1>a, <1>c, <1>f DEF StreamInv
  <2>3. stream.pc \in {"page", "send", "drain", "flush", "live"} => stream.last <= log'
    BY <1>a, <1>c, <1>f DEF StreamInv
  <2>4. stream.pc \in {"page", "send"} =>
          /\ stream.high <= log' /\ dispatcher.spawned + stream.next - 1 <= stream.high
          /\ \A id \in stream.buffered : id <= stream.high
    BY <1>a, <1>c, <1>f DEF StreamInv, Received
  <2> QED
    BY <1>a, <2>1, <2>2, <2>3, <2>4 DEF StreamInv, Received, Ids
<1>3. BatchInv'
  BY <1>a DEF BatchInv
<1>4. WireInv'
  BY <1>a, <1>c, <1>f DEF WireInv
<1>5. ClientInv'
  BY <1>a, <1>c, <1>f DEF ClientInv
<1>6. FramesAreInOrder'
  BY <1>a DEF FramesAreInOrder, EventsUnderWay
<1> QED
  BY <1>1, <1>2, <1>3, <1>4, <1>5, <1>6 DEF DeliveryParts

\* A change of the service state takes a generation of its own.
LEMMA ServiceMoves ==
    ASSUME DeliveryInv, SetService
    PROVE  /\ UNCHANGED << dispatcherVars, stream, wire, client >>
           /\ service' \in [ state : {"Ready", "StoreDegraded", "Quiescing"}, generation : Nat ]
           /\ service.generation <= service'.generation
<1>1. PICK state \in {"Ready", "StoreDegraded", "Quiescing"} : set(state)
  BY DEF SetService
<1>2. service.generation \in Nat
  BY Parts
<1> QED
  BY <1>1, <1>2 DEF set

\* With nothing under way, the stream is where the cursor is.
LEMMA NothingUnderWay ==
    ASSUME wire' = << >>, client'.applied \in Nat,
           stream'.pc = "none" \/ stream'.last = client'.applied
    PROVE  FramesAreInOrder'
<1>1. EventsUnderWay' = {} /\ (client'.applied + 1)..client'.applied = {}
  BY DEF EventsUnderWay
<1>2. DOMAIN wire' = {}
  OBVIOUS
<1> HIDE DEF EventsUnderWay
<1> QED
  BY <1>1, <1>2 DEF FramesAreInOrder

\* A new connection: the stream starts at the cursor, and subscribes first.
LEMMA Connects ==
    ASSUME DeliveryInv, connect
    PROVE  DeliveryParts' /\ client'.applied = client.applied /\ client'.foreign = client.foreign
<1>a. /\ client \in ClientStates /\ service.generation \in Nat /\ DeliveryTypeOK /\ ClientInv
      /\ client.applied \in Nat
  BY Parts DEF DeliveryInv, ClientStates
<1>c. Len(published) \in Nat
  BY Parts, ChannelIs
<1>1. /\ client' = [ client EXCEPT !.pc = "open" ] /\ wire' = << >>
      /\ log' = log /\ published' = published /\ service' = service
  BY DEF connect, dispatcherVars
<1>2. /\ client' \in ClientStates /\ client'.pc = "open"
      /\ client'.applied = client.applied /\ client'.foreign = client.foreign
  BY <1>a, <1>1 DEF ClientStates
<1>3. /\ stream' \in StreamStates /\ stream'.pc = "state" /\ stream'.last = client.applied
      /\ stream'.next = Len(published) + 1 /\ stream'.buffered = {} /\ stream'.taken = 0
      /\ stream'.generation = 0
  <2> DEFINE next == Len(published) + 1
  <2>1. next \in Nat
    BY <1>c
  <2>2. stream' = [ NoStream EXCEPT !.pc = "state", !.last = client.applied,
                      !.next = next, !.noticed = service.generation ]
    BY DEF connect
  <2> HIDE DEF next
  <2>3. /\ NoStream \in StreamStates /\ NoStream.buffered = {} /\ NoStream.taken = 0
        /\ NoStream.generation = 0
    BY DEF NoStream, StreamStates
  <2> HIDE DEF NoStream
  <2>4. /\ stream' \in StreamStates /\ stream'.pc = "state" /\ stream'.last = client.applied
        /\ stream'.next = next /\ stream'.buffered = {} /\ stream'.taken = 0
        /\ stream'.generation = 0
    BY <1>a, <2>1, <2>2, <2>3 DEF StreamStates
  <2> QED
    BY <2>4 DEF next
<1>4. DeliveryTypeOK'
  <2>1. wire' \in Seq(Frames)
    BY <1>1
  <2> QED
    BY <1>a, <1>1, <1>2, <1>3, <2>1 DEF DeliveryTypeOK
<1>5. StreamInv'
  BY <1>c, <1>1, <1>3 DEF StreamInv
<1>6. BatchInv'
  BY <1>3, FS_EmptySet, DeliveryAssumption DEF BatchInv, DeliveryAssumption
<1>7. WireInv'
  BY <1>a, <1>1, <1>2, <1>3 DEF WireInv
<1>8. ClientInv'
  BY <1>a, <1>1, <1>2 DEF ClientInv
<1>9. FramesAreInOrder'
  BY <1>a, <1>1, <1>2, <1>3, NothingUnderWay
<1> QED
  BY <1>2, <1>4, <1>5, <1>6, <1>7, <1>8, <1>9 DEF DeliveryParts

\* A connection that is given up: stream and frames are gone, the cursor stays.
LEMMA GivesUp ==
    ASSUME DeliveryInv, UNCHANGED << dispatcherVars, service >>,
           stream' = NoStream, wire' = << >>,
           client' \in ClientStates, client'.applied = client.applied,
           client'.foreign = client.foreign,
           client'.pc = "recover" => client.foreign
    PROVE  DeliveryParts'
<1>a. /\ service.generation \in Nat /\ DeliveryTypeOK /\ ClientInv /\ client \in ClientStates
  BY Parts DEF DeliveryInv
<1>1. /\ stream' \in StreamStates /\ StreamInv' /\ BatchInv'
      /\ stream'.pc = "none" /\ stream'.generation = 0
  BY WithoutStream
<1>2. log' = log
  BY DEF dispatcherVars
<1>3. DeliveryTypeOK'
  <2>1. wire' \in Seq(Frames)
    OBVIOUS
  <2> QED
    BY <1>a, <1>1, <2>1 DEF DeliveryTypeOK
<1>4. WireInv'
  BY <1>a, <1>1 DEF WireInv
<1>5. ClientInv'
  BY <1>a, <1>2 DEF ClientInv
<1>6. FramesAreInOrder'
  <2>1. client'.applied \in Nat
    BY <1>a DEF ClientStates
  <2> QED
    BY <1>1, <2>1, NothingUnderWay
<1> QED
  BY <1>1, <1>3, <1>4, <1>5, <1>6 DEF DeliveryParts

\* A client without a stream: it reconnects, or takes a snapshot, whose cursor is
\* the log's.
LEMMA WithoutConnection ==
    ASSUME DeliveryInv, UNCHANGED << dispatcherVars, service, stream, wire >>,
           stream.pc = "none", wire = << >>,
           client' \in ClientStates, client'.pc # "recover",
           \/ client'.applied = client.applied /\ client'.foreign = client.foreign
           \/ client'.applied = log
    PROVE  DeliveryParts'
<1>a. /\ service.generation \in Nat /\ DeliveryTypeOK /\ ClientInv /\ StreamInv /\ BatchInv
      /\ WireInv /\ log \in Nat
  BY Parts, ChannelIs DEF DeliveryInv
<1>1. log' = log /\ published' = published /\ dispatcher' = dispatcher
  BY DEF dispatcherVars
<1>2. DeliveryTypeOK'
  BY <1>a DEF DeliveryTypeOK
<1>3. StreamInv' /\ BatchInv'
  BY <1>a, <1>1 DEF StreamInv, BatchInv, Received, Ids
<1>4. WireInv'
  BY <1>a, <1>1 DEF WireInv
<1>5. ClientInv'
  BY <1>a, <1>1 DEF ClientInv
<1>6. FramesAreInOrder'
  <2>1. client'.applied \in Nat
    BY DEF ClientStates
  <2> QED
    BY <2>1, NothingUnderWay
<1> QED
  BY <1>2, <1>3, <1>4, <1>5, <1>6 DEF DeliveryParts

\* The frame that is next, and what is under way behind it.
LEMMA NextFrame ==
    ASSUME DeliveryInv, wire # << >>
    PROVE  LET frame == Head(wire) IN
           /\ frame = wire[1] /\ 1 \in DOMAIN wire /\ frame \in Frames /\ frame.number \in Nat
           /\ Tail(wire) \in Seq(Frames) /\ DOMAIN Tail(wire) = 1..(Len(wire) - 1)
           /\ \A i \in DOMAIN Tail(wire) :
                i + 1 \in DOMAIN wire /\ i + 1 > 1 /\ Tail(wire)[i] = wire[i + 1]
           /\ \A i \in DOMAIN wire : i = 1 \/ (i > 1 /\ i - 1 \in DOMAIN Tail(wire))
<1>1. /\ wire \in Seq(Frames) /\ Len(wire) \in Nat /\ DOMAIN wire = 1..Len(wire)
      /\ \A i \in DOMAIN wire : wire[i] \in Frames /\ wire[i].number \in Nat
  BY Parts
<1>2. /\ Head(wire) = wire[1] /\ Tail(wire) \in Seq(Frames) /\ Len(wire) # 0
      /\ Len(Tail(wire)) = Len(wire) - 1
      /\ \A i \in 1..Len(Tail(wire)) : Tail(wire)[i] = wire[i + 1]
  BY <1>1, HeadTailProperties, EmptySeq
<1>3. DOMAIN Tail(wire) = 1..(Len(wire) - 1)
  BY <1>2, LenProperties
<1> QED
  BY <1>1, <1>2, <1>3

\* What is under way once the next frame is applied.
LEMMA BehindNextFrame ==
    ASSUME DeliveryInv, wire # << >>, wire' = Tail(wire)
    PROVE  EventsUnderWay =
             EventsUnderWay' \cup (IF Head(wire).kind = "event" THEN {Head(wire).number} ELSE {})
<1> DEFINE frame == Head(wire)
           rest == Tail(wire)
           Up(i) == i + 1
           Down(i) == i - 1
<1>1. /\ frame = wire[1] /\ 1 \in DOMAIN wire /\ rest = wire'
      /\ \A i \in DOMAIN wire' : Up(i) \in DOMAIN wire /\ wire'[i] = wire[Up(i)]
      /\ \A i \in DOMAIN wire :
           i = 1 \/ (Down(i) \in DOMAIN wire' /\ wire'[Down(i)] = wire[i])
  <2>1. /\ frame = wire[1] /\ 1 \in DOMAIN wire /\ rest = wire'
        /\ \A i \in DOMAIN wire' : i \in Nat /\ i + 1 \in DOMAIN wire /\ wire'[i] = wire[i + 1]
        /\ \A i \in DOMAIN wire : i \in Nat /\ (i = 1 \/ i - 1 \in DOMAIN wire')
    BY NextFrame, Parts
  <2>2. \A i \in DOMAIN wire : i = 1 \/ wire'[i - 1] = wire[i]
    <3>1. \A i \in DOMAIN wire : (i - 1) + 1 = i
      BY <2>1
    <3> QED
      BY <2>1, <3>1
  <2> QED
    BY <2>1, <2>2
<1> HIDE DEF frame, rest, Up, Down
<1>2. EventsUnderWay' =
        { wire'[i].number : i \in { j \in DOMAIN wire' : wire'[j].kind = "event" } }
  BY DEF EventsUnderWay
<1>3. { wire[i].number : i \in { j \in DOMAIN wire : wire[j].kind = "event" } } =
        { wire'[i].number : i \in { j \in DOMAIN wire' : wire'[j].kind = "event" } }
          \cup (IF frame.kind = "event" THEN {frame.number} ELSE {})
  <2> DEFINE before == { wire[i].number : i \in { j \in DOMAIN wire : wire[j].kind = "event" } }
             after == { wire'[i].number : i \in { j \in DOMAIN wire' : wire'[j].kind = "event" } }
  <2>1. ASSUME NEW i \in DOMAIN wire, wire[i].kind = "event"
        PROVE  \/ wire[i].number \in after
               \/ frame.kind = "event" /\ wire[i].number = frame.number
    <3>1. CASE i = 1
      BY <1>1, <2>1, <3>1
    <3>2. CASE i # 1
      <4>1. Down(i) \in DOMAIN wire' /\ wire'[Down(i)] = wire[i]
        BY <1>1, <3>2
      <4> QED
        BY <2>1, <4>1
    <3> QED
      BY <3>1, <3>2
  <2>2. ASSUME NEW i \in DOMAIN wire', wire'[i].kind = "event"
        PROVE  wire'[i].number \in before
    BY <1>1, <2>2
  <2>3. frame.kind = "event" => frame.number \in before
    BY <1>1
  <2>4. \A n \in before : n \in after \/ (frame.kind = "event" /\ n = frame.number)
    BY <2>1
  <2>5. \A n \in after : n \in before
    BY <2>2
  <2> HIDE DEF before, after
  <2> QED
    BY <2>3, <2>4, <2>5 DEF before, after
<1> QED
  BY <1>2, <1>3 DEF EventsUnderWay, frame

\* An event that arrives is the one behind the cursor; what follows it continues it.
LEMMA NextEvent ==
    ASSUME DeliveryInv, wire # << >>, wire' = Tail(wire), Head(wire).kind = "event"
    PROVE  /\ Head(wire).number = client.applied + 1 /\ Head(wire).number <= log
           /\ \E last \in EventsUnderWay' \cup {client.applied + 1} :
                /\ EventsUnderWay' = (client.applied + 2)..last
                /\ stream.pc # "none" => stream.last = last
<1> DEFINE id == Head(wire).number
           next == client.applied + 1
<1>1. /\ Head(wire) = wire[1] /\ 1 \in DOMAIN wire /\ id \in Nat
      /\ \A i \in DOMAIN wire' : i + 1 \in DOMAIN wire /\ i + 1 > 1 /\ wire'[i] = wire[i + 1]
      /\ \A i \in DOMAIN wire : i = 1 \/ i > 1
      /\ \A i \in DOMAIN wire : wire[i].number \in Nat
      /\ client.applied \in Nat /\ next \in Nat /\ FramesAreInOrder /\ WireInv
  BY NextFrame, Parts DEF ClientStates
<1>2. PICK last \in EventsUnderWay \cup {client.applied} :
        /\ EventsUnderWay = next..last
        /\ stream.pc # "none" => stream.last = last
  BY <1>1 DEF FramesAreInOrder
<1>3. id \in EventsUnderWay
  BY <1>1 DEF EventsUnderWay
<1>4. last \in Nat /\ next <= id /\ id <= last
  <2>1. \A m \in EventsUnderWay : m \in Nat
    BY <1>1 DEF EventsUnderWay
  <2> HIDE DEF EventsUnderWay, id, next
  <2> QED
    BY <1>1, <1>2, <1>3, <2>1
<1>5. \A i \in DOMAIN wire : i > 1 /\ wire[i].kind = "event" => id < wire[i].number
  BY <1>1 DEF FramesAreInOrder
<1>6. id = next
  <2>1. next \in EventsUnderWay
    BY <1>1, <1>2, <1>4
  <2>2. PICK i \in DOMAIN wire : wire[i].kind = "event" /\ wire[i].number = next
    BY <2>1 DEF EventsUnderWay
  <2> QED
    BY <1>1, <1>4, <1>5, <2>2
<1>7. id <= log
  BY <1>1 DEF WireInv
<1>8. id \notin EventsUnderWay'
  <2> SUFFICES ASSUME NEW i \in DOMAIN wire', wire'[i].kind = "event", wire'[i].number = id
               PROVE  FALSE
    BY DEF EventsUnderWay
  <2> QED
    BY <1>1, <1>5
<1>9. EventsUnderWay = EventsUnderWay' \cup {id}
  BY BehindNextFrame
<1> HIDE DEF EventsUnderWay, id
<1>10. EventsUnderWay' = (next + 1)..last
  <2>1. (next..last) \ {next} = (next + 1)..last
    BY <1>1, <1>4
  <2> QED
    BY <1>2, <1>6, <1>8, <1>9, <2>1
<1>11. last \in EventsUnderWay' \cup {next}
  BY <1>1, <1>4, <1>6, <1>10
<1> QED
  BY <1>1, <1>2, <1>6, <1>7, <1>10, <1>11 DEF id

\* The client applies a frame: an event is the next one, a reset has a reason, and
\* whatever else only advances what it knows of the service.
LEMMA Applies ==
    ASSUME DeliveryInv, ApplyFrame
    PROVE  /\ DeliveryParts' /\ client'.foreign = client.foreign
           /\ \/ client'.applied = client.applied
              \/ client'.applied = client.applied + 1 /\ client.applied < log
<1> DEFINE frame == Head(wire)
           Back == \/ frame.kind = "reset"
                   \/ frame.kind = "event" /\ frame.number < client.applied
<1>a. /\ client \in ClientStates /\ client.applied \in Nat /\ client.generation \in Nat
      /\ service.generation \in Nat /\ log \in Nat
      /\ DeliveryTypeOK /\ StreamInv /\ BatchInv /\ WireInv /\ ClientInv /\ FramesAreInOrder
      /\ \A i \in DOMAIN wire : wire[i].number \in Nat
  BY Parts, ChannelIs DEF DeliveryInv, ClientStates
<1>1. /\ client.pc = "open" /\ wire # << >> /\ UNCHANGED << dispatcherVars, service >>
      /\ log' = log /\ published' = published /\ dispatcher' = dispatcher
  BY DEF ApplyFrame, dispatcherVars
<1>2. /\ frame = wire[1] /\ 1 \in DOMAIN wire /\ frame \in Frames /\ frame.number \in Nat
      /\ Tail(wire) \in Seq(Frames)
      /\ \A i \in DOMAIN Tail(wire) :
           i \in Nat /\ i + 1 \in DOMAIN wire /\ i + 1 > 1 /\ Tail(wire)[i] = wire[i + 1]
  BY <1>1, NextFrame
<1>3. CASE Back
  <2>1. /\ client' = [ client EXCEPT !.pc = "recover" ]
        /\ stream' = NoStream /\ wire' = << >>
    BY <1>3 DEF ApplyFrame
  <2>2. /\ client' \in ClientStates /\ client'.pc = "recover"
        /\ client'.applied = client.applied /\ client'.foreign = client.foreign
    BY <1>a, <2>1 DEF ClientStates
  <2>3. client.foreign
    <3>1. frame.kind = "reset"
      <4>1. ASSUME frame.kind = "event" PROVE frame.number \in client.applied..frame.number
        <5>1. frame.number \in EventsUnderWay
          BY <1>2, <4>1 DEF EventsUnderWay
        <5>2. \E last : EventsUnderWay = (client.applied + 1)..last
          BY <1>a DEF FramesAreInOrder
        <5> HIDE DEF EventsUnderWay
        <5> QED
          BY <1>a, <1>2, <5>1, <5>2
      <4> QED
        BY <1>3, <1>a, <1>2, <4>1
    <3> QED
      BY <1>a, <1>2, <3>1 DEF WireInv
  <2>4. DeliveryParts'
    BY <1>1, <2>1, <2>2, <2>3, GivesUp
  <2> QED
    BY <2>2, <2>4
<1>4. CASE ~Back
  <2> HIDE DEF frame
  <2>1. /\ client' = CASE frame.kind = "event" ->
                            [ client EXCEPT !.applied = frame.number ]
                       [] frame.kind = "service" /\ frame.number > client.generation ->
                            [ client EXCEPT !.generation = frame.number ]
                       [] OTHER -> client
        /\ wire' = Tail(wire) /\ UNCHANGED stream
    BY <1>4 DEF ApplyFrame, frame
  <2>2. /\ client' \in ClientStates /\ client'.pc = "open" /\ client'.foreign = client.foreign
        /\ client'.applied = IF frame.kind = "event" THEN frame.number ELSE client.applied
    <3>1. CASE frame.kind = "event"
      <4>1. client' = [ client EXCEPT !.applied = frame.number ]
        BY <2>1, <3>1
      <4> QED
        BY <1>a, <1>1, <1>2, <3>1, <4>1 DEF ClientStates
    <3>2. CASE frame.kind # "event"
      <4>1. client' = client \/ client' = [ client EXCEPT !.generation = frame.number ]
        BY <2>1, <3>2
      <4> QED
        BY <1>a, <1>1, <1>2, <3>2, <4>1 DEF ClientStates
    <3> QED
      BY <3>1, <3>2
  <2>3. /\ frame.kind = "event" =>
             client'.applied = client.applied + 1 /\ client'.applied <= log
        /\ frame.kind # "event" => client'.applied = client.applied
    BY <1>1, <2>1, <2>2, NextEvent DEF frame
  <2>4. DeliveryTypeOK'
    BY <1>a, <1>1, <1>2, <2>1, <2>2 DEF DeliveryTypeOK
  <2>5. StreamInv' /\ BatchInv'
    BY <1>a, <1>1, <2>1 DEF StreamInv, BatchInv, Received, Ids
  <2>6. WireInv'
    <3>1. ASSUME NEW i \in DOMAIN wire'
          PROVE  /\ wire'[i].kind = "event" => wire'[i].number <= log
                 /\ wire'[i].kind = "service" /\ stream.pc # "none" =>
                      wire'[i].number <= stream.generation
                 /\ wire'[i].kind = "reset" => client.foreign /\ stream.pc = "none"
      BY <1>a, <1>2, <2>1 DEF WireInv
    <3>2. stream.pc # "state" /\ stream.generation <= service.generation
      BY <1>a, <1>1 DEF WireInv
    <3> QED
      BY <1>1, <2>1, <2>2, <3>1, <3>2 DEF WireInv
  <2>7. ClientInv'
    BY <1>a, <1>1, <2>2, <2>3 DEF ClientInv
  <2>8. FramesAreInOrder'
    <3>1. \E last \in EventsUnderWay' \cup {client'.applied} :
            /\ EventsUnderWay' = (client'.applied + 1)..last
            /\ stream'.pc # "none" => stream'.last = last
      <4>1. CASE frame.kind = "event"
        <5>1. \E last \in EventsUnderWay' \cup {client.applied + 1} :
                /\ EventsUnderWay' = (client.applied + 2)..last
                /\ stream.pc # "none" => stream.last = last
          BY <1>1, <2>1, <4>1, NextEvent DEF frame
        <5>2. client.applied + 2 = client'.applied + 1 /\ client'.applied = client.applied + 1
          BY <1>a, <2>3, <4>1
        <5> HIDE DEF EventsUnderWay
        <5> QED
          BY <2>1, <5>1, <5>2
      <4>2. CASE frame.kind # "event"
        <5>1. EventsUnderWay' = EventsUnderWay
          BY <1>1, <2>1, <4>2, BehindNextFrame DEF frame
        <5>2. \E last \in EventsUnderWay \cup {client.applied} :
                /\ EventsUnderWay = (client.applied + 1)..last
                /\ stream.pc # "none" => stream.last = last
          BY <1>a DEF FramesAreInOrder
        <5> HIDE DEF EventsUnderWay
        <5> QED
          BY <2>1, <2>3, <4>2, <5>1, <5>2
      <4> QED
        BY <4>1, <4>2
    <3>2. ASSUME NEW i \in DOMAIN wire', NEW j \in DOMAIN wire', i < j,
                 wire'[i].kind = wire'[j].kind
          PROVE  wire'[i].number < wire'[j].number
      <4>1. /\ i + 1 \in DOMAIN wire /\ j + 1 \in DOMAIN wire /\ i + 1 < j + 1
            /\ wire'[i] = wire[i + 1] /\ wire'[j] = wire[j + 1]
        BY <1>2, <2>1, <3>2
      <4> QED
        BY <1>a, <3>2, <4>1 DEF FramesAreInOrder
    <3> HIDE DEF EventsUnderWay
    <3> QED
      BY <3>1, <3>2 DEF FramesAreInOrder
  <2>9. \/ client'.applied = client.applied
        \/ client'.applied = client.applied + 1 /\ client.applied < log
    BY <1>a, <2>3
  <2> QED
    BY <2>2, <2>4, <2>5, <2>6, <2>7, <2>8, <2>9 DEF DeliveryParts
<1> QED
  BY <1>3, <1>4

\* Nothing is sent.
LEMMA NothingSent ==
    ASSUME DeliveryInv, Silent, stream' \in StreamStates,
           stream'.generation <= service.generation,
           UNCHANGED << dispatcherVars, service, client >>
    PROVE  WireInv' /\ FramesAreInOrder'
<1>a. WireInv /\ FramesAreInOrder
  BY Parts
<1>1. /\ wire' = wire /\ client' = client /\ log' = log /\ service' = service
      /\ \/ stream'.pc = "none"
         \/ /\ stream.pc # "none" /\ stream'.pc # "none" /\ stream'.pc # "state"
            /\ stream'.last = stream.last /\ stream'.generation = stream.generation
  BY DEF Silent, Streaming, dispatcherVars
<1>2. WireInv'
  BY <1>a, <1>1 DEF WireInv
<1>3. FramesAreInOrder'
  <2>1. EventsUnderWay' = EventsUnderWay
    BY <1>1 DEF EventsUnderWay
  <2> HIDE DEF EventsUnderWay
  <2> QED
    BY <1>a, <1>1, <2>1 DEF FramesAreInOrder
<1> QED
  BY <1>2, <1>3

-----------------------------------------------------------------------------
(* The invariant and the refinement *)

\* A path starts with an idle dispatcher, no stream and any cursor.
LEMMA DeliveryInvInit ==
    ASSUME Init
    PROVE  DeliveryInv /\ Feed!FeedInit
<1> USE DEF Init
<1>1. DispatcherInv
  BY DispatcherInvInit
<1>2. log \in Nat
  BY <1>1, ChannelIs
<1>3. PICK cursor \in 0..(log + MaxAhead) :
        client = [ pc |-> "connect", applied |-> cursor, generation |-> 0,
                   foreign |-> cursor > log ]
  OBVIOUS
<1>4. /\ client \in ClientStates /\ client.pc = "connect" /\ client.applied \in Nat
      /\ client.foreign \in BOOLEAN /\ (~client.foreign => client.applied <= log)
  <2> DEFINE ahead == cursor > log
  <2>1. cursor \in Nat /\ ahead \in BOOLEAN /\ (~ahead => cursor <= log)
    BY <1>2, DeliveryAssumption DEF DeliveryAssumption
  <2>2. client = [ pc |-> "connect", applied |-> cursor, generation |-> 0, foreign |-> ahead ]
    BY <1>3
  <2> HIDE DEF ahead, Init
  <2>3. /\ client \in ClientStates /\ client.pc = "connect" /\ client.applied = cursor
        /\ client.foreign = ahead
    BY <2>1, <2>2 DEF ClientStates
  <2> QED
    BY <2>1, <2>3
<1>5. /\ stream \in StreamStates /\ stream.pc = "none" /\ stream.buffered = {}
      /\ stream.taken = 0 /\ stream.generation = 0
  BY DEF NoStream, StreamStates
<1>6. DeliveryTypeOK
  BY <1>4, <1>5 DEF DeliveryTypeOK
<1>7. StreamInv
  BY <1>5 DEF StreamInv
<1>8. BatchInv
  BY <1>5, FS_EmptySet, DeliveryAssumption DEF BatchInv, DeliveryAssumption
<1>9. WireInv
  BY <1>5 DEF WireInv
<1>10. ClientInv
  BY <1>4 DEF ClientInv
<1>11. FramesAreInOrder
  <2>1. EventsUnderWay = {} /\ (client.applied + 1)..client.applied = {} /\ DOMAIN wire = {}
    BY <1>4 DEF EventsUnderWay
  <2> HIDE DEF EventsUnderWay
  <2> QED
    BY <1>5, <2>1 DEF FramesAreInOrder
<1>12. Feed!FeedInit
  BY <1>2, <1>4 DEF Feed!FeedInit
<1> QED
  BY <1>1, <1>6, <1>7, <1>8, <1>9, <1>10, <1>11, <1>12 DEF DeliveryInv

\* Every step keeps the invariant and is a step of the feed, or none.
LEMMA DeliveryStep ==
    ASSUME DeliveryInv, [Next]_vars
    PROVE  DeliveryInv' /\ [Feed!FeedNext]_(Feed!feedVars)
<1> DEFINE Feeds == [Feed!FeedNext]_(Feed!feedVars)
<1>a. /\ DispatcherInv /\ client \in ClientStates /\ log \in Nat /\ client.applied \in Nat
      /\ WireInv /\ ClientInv /\ DeliveryTypeOK
  BY Parts, ChannelIs DEF ClientStates, DeliveryInv
\* The invariant comes from the dispatcher's and the rest; the feed from the cursor.
<1>b. ASSUME DispatcherInv', DeliveryParts' PROVE DeliveryInv'
  BY <1>b DEF DeliveryInv, DeliveryParts
<1>c. ASSUME UNCHANGED dispatcherVars PROVE DispatcherInv' /\ log' = log
  <2>1. DispatcherInv'
    BY <1>a, <1>c, DispatcherMoves
  <2> QED
    BY <2>1, <1>c DEF dispatcherVars
<1>d. ASSUME log' = log, client'.applied = client.applied, client'.foreign = client.foreign
      PROVE  Feeds
  BY <1>d DEF Feed!feedVars
<1>1. CASE DispatcherStep
  <2>1. [DispatcherNext]_dispatcherVars /\ UNCHANGED << service, stream, wire, client >>
    BY <1>1 DEF DispatcherStep, CloseDispatcher, DispatcherNext, deliveryVars
  <2>2. /\ DispatcherInv' /\ log' \in Nat /\ log <= log'
        /\ dispatcher'.spawned = dispatcher.spawned
        /\ Len(published) <= Len(published') /\ Len(published') \in Nat
    BY <1>a, <2>1, DispatcherMoves
  <2>3. DeliveryParts'
    <3>1. /\ service' \in [ state : {"Ready", "StoreDegraded", "Quiescing"}, generation : Nat ]
          /\ service.generation \in Nat /\ service' = service
      BY <1>a, <2>1, Parts DEF DeliveryTypeOK
    <3> QED
      BY <2>1, <2>2, <3>1, OthersMove
  <2>4. Feeds
    <3>1. CASE log' = log
      BY <1>d, <2>1, <3>1
    <3>2. CASE log' # log
      BY <1>a, <2>1, <2>2, <3>2 DEF Feed!FeedNext, Feed!Commit
    <3> QED
      BY <3>1, <3>2
  <2> QED
    BY <1>b, <2>2, <2>3, <2>4
<1>2. CASE SetService
  <2>1. /\ UNCHANGED << dispatcherVars, stream, wire, client >>
        /\ service' \in [ state : {"Ready", "StoreDegraded", "Quiescing"}, generation : Nat ]
        /\ service.generation <= service'.generation
    BY <1>2, ServiceMoves
  <2>2. /\ log' \in Nat /\ log <= log' /\ dispatcher'.spawned = dispatcher.spawned
        /\ Len(published') \in Nat /\ Len(published) <= Len(published')
    BY <1>a, <2>1, DispatcherMoves
  <2>3. DeliveryParts'
    BY <2>1, <2>2, OthersMove
  <2> QED
    BY <1>b, <1>c, <1>d, <2>1, <2>3
<1>3. CASE SendService \/ StreamStep \/ StreamReadFails
  <2>1. StreamGoal /\ UNCHANGED << dispatcherVars, service, client >>
    BY <1>3, StreamSteps
  <2>2. wire' \in Seq(Frames) /\ WireInv' /\ FramesAreInOrder'
    <3>1. CASE Silent
      <4>1. wire' \in Seq(Frames)
        BY <3>1, Parts DEF Silent
      <4> QED
        BY <2>1, <3>1, <4>1, NothingSent DEF StreamGoal
    <3> QED
      BY <2>1, <3>1, EventSent, ServiceSent, ResetSent DEF StreamGoal
  <2>3. DeliveryTypeOK' /\ ClientInv'
    BY <1>a, <1>c, <2>1, <2>2 DEF DeliveryTypeOK, ClientInv, StreamGoal
  <2>4. DeliveryParts'
    BY <2>1, <2>2, <2>3 DEF DeliveryParts, StreamGoal
  <2> QED
    BY <1>b, <1>c, <1>d, <2>1, <2>4
<1>4. CASE connect
  <2>1. DeliveryParts' /\ client'.applied = client.applied /\ client'.foreign = client.foreign
    BY <1>4, Connects
  <2>2. UNCHANGED dispatcherVars
    BY <1>4 DEF connect
  <2> QED
    BY <1>b, <1>c, <1>d, <2>1, <2>2
<1>5. CASE ApplyFrame
  <2>1. /\ DeliveryParts' /\ client'.foreign = client.foreign
        /\ \/ client'.applied = client.applied
           \/ client'.applied = client.applied + 1 /\ client.applied < log
    BY <1>5, Applies
  <2>2. UNCHANGED dispatcherVars
    BY <1>5 DEF ApplyFrame
  <2>3. Feeds
    BY <1>c, <1>d, <2>1, <2>2 DEF Feed!FeedNext, Feed!Deliver
  <2> QED
    BY <1>b, <1>c, <2>1, <2>2, <2>3
<1>6. CASE EndOfStream
  <2>1. /\ UNCHANGED << dispatcherVars, service, stream, wire >>
        /\ stream.pc = "none" /\ wire = << >>
        /\ client' = [ client EXCEPT !.pc = "connect" ]
    BY <1>6 DEF EndOfStream
  <2>2. /\ client' \in ClientStates /\ client'.pc # "recover"
        /\ client'.applied = client.applied /\ client'.foreign = client.foreign
    BY <1>a, <2>1 DEF ClientStates
  <2>3. DeliveryParts'
    BY <2>1, <2>2, WithoutConnection
  <2> QED
    BY <1>b, <1>c, <1>d, <2>1, <2>2, <2>3
<1>7. CASE Break
  <2>1. /\ UNCHANGED << dispatcherVars, service >> /\ stream' = NoStream /\ wire' = << >>
        /\ client' = [ client EXCEPT !.pc = "connect" ]
    BY <1>7 DEF Break
  <2>2. /\ client' \in ClientStates /\ client'.pc # "recover"
        /\ client'.applied = client.applied /\ client'.foreign = client.foreign
    BY <1>a, <2>1 DEF ClientStates
  <2>3. DeliveryParts'
    BY <2>1, <2>2, GivesUp
  <2> QED
    BY <1>b, <1>c, <1>d, <2>1, <2>2, <2>3
<1>8. CASE ReadSnapshot
  <2>1. /\ UNCHANGED << dispatcherVars, service, stream, wire >>
        /\ client.pc = "recover"
        /\ client' = [ client EXCEPT !.pc = "answer", !.applied = log, !.foreign = FALSE ]
    BY <1>8 DEF ReadSnapshot
  <2>2. /\ client' \in ClientStates /\ client'.pc # "recover"
        /\ client'.applied = log /\ client'.foreign = FALSE
    BY <1>a, <2>1 DEF ClientStates
  <2>3. stream.pc = "none" /\ wire = << >> /\ client.foreign
    BY <1>a, <2>1 DEF WireInv, ClientInv
  <2>4. DeliveryParts'
    BY <2>1, <2>2, <2>3, WithoutConnection
  <2>5. Feeds
    BY <1>c, <2>1, <2>2, <2>3 DEF Feed!FeedNext, Feed!Resnapshot
  <2> QED
    BY <1>b, <1>c, <2>1, <2>4, <2>5
<1>9. CASE TakeBootstrap
  <2> DEFINE generation ==
               IF service.generation >= client.generation THEN service.generation
                                                          ELSE client.generation
  <2>1. /\ UNCHANGED << dispatcherVars, service, stream, wire >>
        /\ client.pc = "answer"
        /\ client' = [ client EXCEPT !.pc = "connect", !.generation = generation ]
    BY <1>9 DEF TakeBootstrap
  <2>2. generation \in Nat
    BY <1>a, Parts DEF ClientStates
  <2> HIDE DEF generation
  <2>3. /\ client' \in ClientStates /\ client'.pc # "recover"
        /\ client'.applied = client.applied /\ client'.foreign = client.foreign
    BY <1>a, <2>1, <2>2 DEF ClientStates
  <2>4. stream.pc = "none" /\ wire = << >>
    BY <1>a, <2>1 DEF WireInv
  <2>5. DeliveryParts'
    BY <2>1, <2>3, <2>4, WithoutConnection
  <2> QED
    BY <1>b, <1>c, <1>d, <2>1, <2>3, <2>5
<1>10. CASE UNCHANGED vars
  <2>1. UNCHANGED << dispatcherVars, service, stream, wire, client >>
    BY <1>10 DEF vars, deliveryVars
  <2>2. /\ log' \in Nat /\ log <= log' /\ dispatcher'.spawned = dispatcher.spawned
        /\ Len(published') \in Nat /\ Len(published) <= Len(published')
    BY <1>a, <2>1, DispatcherMoves
  <2>3. DeliveryParts'
    <3>1. /\ service' \in [ state : {"Ready", "StoreDegraded", "Quiescing"}, generation : Nat ]
          /\ service.generation \in Nat /\ service' = service
      BY <1>a, <2>1, Parts DEF DeliveryTypeOK
    <3> QED
      BY <2>1, <2>2, <3>1, OthersMove
  <2> QED
    BY <1>b, <1>c, <1>d, <2>1, <2>3
<1> QED
  BY <1>1, <1>2, <1>3, <1>4, <1>5, <1>6, <1>7, <1>8, <1>9, <1>10 DEF Next, ClientStep

-----------------------------------------------------------------------------
(* Theorems *)

\* DeliveryInv holds in every state of the path: what the stream has sent, what it
\* buffers, what its subscription has still to give and what the log holds are
\* parts of one sequence (the stream of sse.rs, the subscription of server.rs).
THEOREM DeliveryInvariant == Spec => []DeliveryInv
<1>1. Init => DeliveryInv
  BY DeliveryInvInit
<1>2. DeliveryInv /\ [Next]_vars => DeliveryInv'
  BY DeliveryStep
<1> QED
  BY <1>1, <1>2, PTL DEF Spec

\* The buffer of a drain never holds more than one batch, however often the channel
\* lags (READY_LIVE_BATCH_SIZE, drain_ready_live).
THEOREM BufferWithinABatch == Spec => []BufferKeepsWithinABatch
<1>1. DeliveryInv => BufferKeepsWithinABatch
  BY DEF DeliveryInv, BatchInv, BufferKeepsWithinABatch
<1> QED
  BY <1>1, DeliveryInvariant, PTL

\* The frames under way continue the browser's cursor without a gap or a repeat, up
\* to where the stream is, and service states only advance (GET /api/events).
THEOREM FramesContinueTheCursor == Spec => []FramesAreInOrder
<1>1. DeliveryInv => FramesAreInOrder
  BY DEF DeliveryInv
<1> QED
  BY <1>1, DeliveryInvariant, PTL

\* Dispatcher, channel, stream, connection and client are an EventFeed: the browser
\* applies each event once and in order, over lags, failed reads and broken
\* connections, and takes a new snapshot only for a cursor of another database.
THEOREM DeliveryImplementsFeed == Spec => ImplementsEventFeed
<1>1. Init => Feed!FeedInit
  BY DeliveryInvInit
<1>2. DeliveryInv /\ [Next]_vars => [Feed!FeedNext]_(Feed!feedVars)
  BY DeliveryStep
<1> QED
  BY <1>1, <1>2, DeliveryInvariant, PTL DEF Spec, ImplementsEventFeed, Feed!FeedSpec

=============================================================================
