-------------------------- MODULE StoreWriterProofs -------------------------
(* The answers of the writer are true and its attempts keep the deadline, for  *)
(* any commands, delays, budget and capacity of the channel.                   *)
EXTENDS StoreWriter, TLAPS

Queued(c) == \E i \in 1..Len(queue) : queue[i] = c

\* A command not yet sent, or sent and not yet received, has had no effect.
Untouched(c) ==
  /\ c # current
  /\ answer[c] = "none"
  /\ \A i \in 1..Len(log) : log[i] # c

\* A command is in one place: with its caller, once in the channel, or being
\* executed; and has had no effect before its commit.
OnePlace ==
  /\ phase = "idle" <=> current = NoCommand
  /\ \A i, j \in 1..Len(queue) : queue[i] = queue[j] => i = j
  /\ \A c \in Commands : caller[c] \in {"new", "sending"} => ~Queued(c) /\ Untouched(c)
  /\ \A c \in Commands : Queued(c) => Untouched(c)
  /\ phase # "idle" => answer[current] = "none"
  /\ phase \in {"executing", "sleeping"} => \A i \in 1..Len(log) : log[i] # current
  /\ phase = "committed" => Len(log) > 0 /\ log[Len(log)] = current

WriterInv == OnePlace /\ AnswersAreTrue

-----------------------------------------------------------------------------
(* Types.                                                                    *)

\* What is left of the channel when its head is received.
LEMMA TailOfQueue ==
  ASSUME queue \in Seq(Commands), queue # << >>
  PROVE  /\ Tail(queue) \in Seq(Commands) /\ Len(Tail(queue)) = Len(queue) - 1
         /\ Head(queue) \in Commands /\ Head(queue) = queue[1]
         /\ \A i \in 1..(Len(queue) - 1) : Tail(queue)[i] = queue[i + 1]
OBVIOUS

\* An answer changes the types of nothing.
LEMMA AnswerTypes ==
  ASSUME WriterTypeOK, NEW c \in Commands, NEW r \in {"Receipt", "Refusal", "Store", "Busy"},
         Answer(c, r)
  PROVE  /\ answer' \in [Commands -> {"none", "Receipt", "Refusal", "Store", "Busy"}]
         /\ caller' \in [Commands -> {"new", "sending", "waiting", "answered", "dropped"}]
         /\ phase' = "idle" /\ current' = NoCommand /\ retry' = 0 /\ wakeAt' = 0
<1>1. answer' \in [Commands -> {"none", "Receipt", "Refusal", "Store", "Busy"}]
  BY DEF WriterTypeOK, Answer
<1>2. caller' \in [Commands -> {"new", "sending", "waiting", "answered", "dropped"}]
  BY DEF WriterTypeOK, Answer
<1> QED
  BY <1>1, <1>2 DEF Answer

LEMMA TypeStep ==
  ASSUME WriterTypeOK, phase # "idle" => current \in Commands, [Next]_vars
  PROVE  WriterTypeOK'
<1> USE WriterAssumption DEF WriterTypeOK, callVars, execVars
<1>1. CASE UNCHANGED vars
  BY <1>1 DEF vars
<1>2. CASE Tick
  BY <1>2 DEF Tick
<1>3. ASSUME NEW c \in Commands, Call(c) \/ DropCall(c)
      PROVE  WriterTypeOK'
  <2>1. CASE Call(c)
    BY <2>1 DEF Call
  <2>2. CASE DropCall(c)
    BY <2>2 DEF DropCall
  <2> QED
    BY <1>3, <2>1, <2>2
<1>4. ASSUME NEW c \in Commands, Send(c)
      PROVE  WriterTypeOK'
  BY <1>4 DEF Send
<1>5. CASE Receive
  <2>1. /\ queue' \in Seq(Commands) /\ Len(queue') <= Capacity
        /\ Head(queue) \in Commands
    BY <1>5, TailOfQueue DEF Receive
  <2>2. CASE Late(Head(queue))
    <3>1. Answer(Head(queue), "Busy") /\ UNCHANGED <<now, deadline, log, woken>>
      BY <1>5, <2>2 DEF Receive
    <3> QED
      BY <2>1, <3>1, AnswerTypes
  <2>3. CASE ~Late(Head(queue))
    BY <1>5, <2>1, <2>3 DEF Receive
  <2> QED
    BY <2>2, <2>3
<1>6. CASE Commit
  <2>1. log' \in Seq(Commands) /\ Len(log') = Len(log) + 1
    BY <1>6 DEF Commit
  <2> QED
    BY <1>6, <2>1 DEF Commit
<1>7. CASE Acknowledge
  BY <1>7, AnswerTypes DEF Acknowledge
<1>8. CASE LoseAcknowledgement \/ Refuse \/ Fail \/ GiveUp
  BY <1>8, AnswerTypes DEF LoseAcknowledgement, Refuse, Fail, GiveUp
<1>9. CASE BackOff
  <2>1. Delays[retry + 1] \in Nat /\ retry + 1 \in 0..Len(Delays)
    BY <1>9 DEF BackOff
  <2>2. wakeAt' \in Nat
    BY <1>9, <2>1 DEF BackOff
  <2> QED
    BY <1>9, <2>1, <2>2 DEF BackOff
<1>10. CASE WakeUp
  <2>1. CASE Late(current)
    BY <1>10, <2>1, AnswerTypes DEF WakeUp
  <2>2. CASE ~Late(current)
    BY <1>10, <2>2 DEF WakeUp
  <2> QED
    BY <2>1, <2>2
<1> QED
  BY <1>1, <1>2, <1>3, <1>4, <1>5, <1>6, <1>7, <1>8, <1>9, <1>10 DEF Next, AttemptEnds

-----------------------------------------------------------------------------
(* Steps.                                                                    *)

\* A command of the writer ends: a receipt follows the commit and the wake, a
\* busy answer or a refusal an attempt that wrote nothing.
LEMMA Answered ==
  ASSUME WriterTypeOK, WriterInv, phase # "idle",
         NEW r, Answer(current, r), queue' = queue, log' = log,
         woken' \in {woken, Len(log)},
         r = "Receipt" => phase = "committed" /\ woken' = Len(log),
         r \in {"Busy", "Refusal"} => phase \in {"executing", "sleeping"}
  PROVE  WriterInv'
<1>1. /\ current \in Commands
      /\ \A c \in Commands : answer'[c] = IF c = current THEN r ELSE answer[c]
      /\ \A c \in Commands : caller'[c] \in {"new", "sending"} => caller'[c] = caller[c]
      /\ current' = NoCommand /\ phase' = "idle"
  BY DEF WriterTypeOK, WriterInv, OnePlace, Answer
<1>2. OnePlace'
  BY <1>1, WriterAssumption, SMTT(30) DEF WriterTypeOK, WriterInv, OnePlace, Untouched, Queued
<1>3. \A c \in Commands \ {current} :
        /\ answer'[c] = "Receipt" => \E i \in Effects(c) : i <= woken'
        /\ answer'[c] \in {"Busy", "Refusal"} => Effects(c) = {}
  BY <1>1 DEF WriterTypeOK, WriterInv, AnswersAreTrue, Effects
<1>4. /\ r = "Receipt" => \E i \in Effects(current) : i <= woken'
      /\ r \in {"Busy", "Refusal"} => Effects(current) = {}
  BY DEF WriterTypeOK, WriterInv, OnePlace, Effects
<1>5. AnswersAreTrue'
  BY <1>1, <1>3, <1>4 DEF WriterInv, AnswersAreTrue, Effects
<1> QED
  BY <1>2, <1>5 DEF WriterInv

\* Nothing happens to the store or to the answers, and the places are kept.
LEMMA SameAnswers ==
  ASSUME WriterInv, OnePlace', UNCHANGED <<answer, log, woken>>
  PROVE  WriterInv'
BY DEF WriterInv, AnswersAreTrue, Effects

LEMMA WriterStep ==
  ASSUME WriterTypeOK, WriterInv, [Next]_vars
  PROVE  WriterInv'
<1> USE DEF callVars, execVars
<1>0. phase # "idle" => current \in Commands
  BY DEF WriterTypeOK, WriterInv, OnePlace
<1>1. CASE UNCHANGED vars
  BY <1>1, SameAnswers DEF vars, WriterInv, OnePlace, Untouched, Queued
<1>2. CASE Tick
  BY <1>2, SameAnswers DEF Tick, WriterInv, OnePlace, Untouched, Queued
<1>3. ASSUME NEW c \in Commands, Call(c) \/ DropCall(c)
      PROVE  WriterInv'
  <2>1. /\ \A d \in Commands : caller'[d] \in {"new", "sending"} =>
                                caller[d] \in {"new", "sending"}
        /\ UNCHANGED <<queue, phase, current, answer, log, woken>>
    BY <1>3 DEF Call, DropCall, WriterTypeOK
  <2>2. OnePlace'
    BY <2>1 DEF WriterInv, OnePlace, Untouched, Queued
  <2> QED
    BY <2>1, <2>2, SameAnswers
<1>4. ASSUME NEW c \in Commands, Send(c)
      PROVE  WriterInv'
  <2>1. /\ Len(queue) \in Nat /\ Len(queue') = Len(queue) + 1
        /\ \A i \in 1..Len(queue) : queue'[i] = queue[i]
        /\ queue'[Len(queue) + 1] = c
    BY <1>4 DEF Send, WriterTypeOK
  <2>2. ~Queued(c) /\ Untouched(c)
    BY <1>4 DEF Send, WriterInv, OnePlace
  <2>10. \A i \in 1..Len(queue') : i = Len(queue) + 1 \/ i \in 1..Len(queue)
    BY <2>1
  <2>3. \A i, j \in 1..Len(queue') : queue'[i] = queue'[j] => i = j
    <3>1. \A i, j \in 1..Len(queue) : queue[i] = queue[j] => i = j
      BY DEF WriterInv, OnePlace
    <3>2. \A i \in 1..Len(queue) : queue[i] # c
      BY <2>2 DEF Queued
    <3> QED
      BY <2>1, <2>10, <3>1, <3>2
  <2>4. \A d \in Commands : Queued(d)' => Queued(d) \/ d = c
    <3> SUFFICES ASSUME NEW d \in Commands, NEW i \in 1..Len(queue'), queue'[i] = d
                 PROVE  Queued(d) \/ d = c
      BY DEF Queued
    <3> QED
      BY <2>1, <2>10 DEF Queued
  <2>5. \A d \in Commands :
          caller'[d] \in {"new", "sending"} => d # c /\ caller'[d] = caller[d]
    BY <1>4 DEF Send, WriterTypeOK
  <2>6. \A d \in Commands : Untouched(d) => Untouched(d)'
    BY <1>4 DEF Send, Untouched
  <2>7. \A d \in Commands : caller'[d] \in {"new", "sending"} => ~Queued(d)' /\ Untouched(d)'
    BY <2>4, <2>5, <2>6 DEF WriterInv, OnePlace
  <2>8. \A d \in Commands : Queued(d)' => Untouched(d)'
    BY <2>2, <2>4, <2>6 DEF WriterInv, OnePlace
  <2>9. OnePlace'
    BY <1>4, <2>3, <2>7, <2>8 DEF Send, WriterInv, OnePlace
  <2> QED
    BY <1>4, <2>9, SameAnswers DEF Send
<1>5. CASE Receive
  <2> DEFINE head == Head(queue)
  <2>1. /\ queue' = Tail(queue) /\ Len(queue) \in Nat /\ Len(queue') = Len(queue) - 1
        /\ head \in Commands /\ head = queue[1] /\ Len(queue) > 0
        /\ \A i \in 1..(Len(queue) - 1) : queue'[i] = queue[i + 1]
        /\ phase = "idle" /\ current = NoCommand
    BY <1>5, TailOfQueue DEF Receive, WriterTypeOK, WriterInv, OnePlace
  <2>2. Queued(head) /\ Untouched(head)
    BY <2>1 DEF WriterTypeOK, WriterInv, OnePlace, Queued
  <2>3. /\ \A i, j \in 1..Len(queue') : queue'[i] = queue'[j] => i = j
        /\ \A d \in Commands : Queued(d)' => Queued(d) /\ d # head
    <3>1. \A i, j \in 1..Len(queue) : queue[i] = queue[j] => i = j
      BY DEF WriterInv, OnePlace
    <3>2. \A i \in 1..Len(queue') : i + 1 \in 1..Len(queue) /\ queue'[i] = queue[i + 1]
      BY <2>1
    <3>3. \A i, j \in 1..Len(queue') : queue'[i] = queue'[j] => i = j
      BY <3>1, <3>2
    <3>4. ASSUME NEW d \in Commands, NEW i \in 1..Len(queue'), queue'[i] = d
          PROVE  Queued(d) /\ d # head
      BY <2>1, <3>1, <3>2, <3>4 DEF Queued
    <3> QED
      BY <3>3, <3>4 DEF Queued
  <2>4. UNCHANGED <<log, woken>>
    BY <1>5 DEF Receive
  <2>5. caller[head] \notin {"new", "sending"}
    BY <2>1, <2>2 DEF WriterInv, OnePlace
  <2>6. CASE Late(head)
    <3>1. /\ \A c \in Commands : answer'[c] = IF c = head THEN "Busy" ELSE answer[c]
          /\ \A c \in Commands : caller'[c] \in {"new", "sending"} => caller'[c] = caller[c]
          /\ current' = NoCommand /\ phase' = "idle"
      BY <1>5, <2>1, <2>6 DEF Receive, Answer, WriterTypeOK
    <3>2. \A d \in Commands \ {head} : Untouched(d) => Untouched(d)'
      BY <2>4, <3>1, WriterAssumption DEF Untouched
    <3>3. OnePlace'
      BY <2>3, <2>5, <3>1, <3>2 DEF WriterInv, OnePlace
    <3>4. Effects(head) = {}
      BY <2>2 DEF WriterTypeOK, Effects, Untouched
    <3>5. \A c \in Commands : Effects(c)' = Effects(c)
      BY <2>4 DEF Effects
    <3>6. AnswersAreTrue'
      BY <2>4, <3>1, <3>4, <3>5 DEF WriterInv, AnswersAreTrue
    <3> QED
      BY <3>3, <3>6 DEF WriterInv
  <2>7. CASE ~Late(head)
    <3>1. /\ UNCHANGED <<answer, caller>>
          /\ current' = head /\ phase' = "executing"
      BY <1>5, <2>7 DEF Receive
    <3>2. \A d \in Commands \ {head} : Untouched(d) => Untouched(d)'
      BY <2>4, <3>1 DEF Untouched
    <3>3. OnePlace'
      BY <2>1, <2>2, <2>3, <2>4, <2>5, <3>1, <3>2, WriterAssumption
      DEF WriterInv, OnePlace, Untouched
    <3> QED
      BY <2>4, <3>1, <3>3, SameAnswers
  <2> QED
    BY <2>6, <2>7
<1>6. CASE Commit
  <2>1. /\ Len(log) \in Nat /\ Len(log') = Len(log) + 1 /\ log'[Len(log) + 1] = current
        /\ \A i \in 1..Len(log) : log'[i] = log[i]
        /\ phase = "executing" /\ phase' = "committed" /\ current \in Commands
        /\ UNCHANGED <<caller, queue, current, answer, woken>>
    BY <1>0, <1>6 DEF Commit, WriterTypeOK
  <2>4. \A i \in 1..Len(log') : i = Len(log) + 1 \/ i \in 1..Len(log)
    BY <2>1
  <2>2. \A d \in Commands : Untouched(d) => Untouched(d)'
    BY <2>1, <2>4 DEF Untouched
  <2>3. OnePlace'
    BY <2>1, <2>2, WriterAssumption DEF WriterTypeOK, WriterInv, OnePlace, Queued
  <2>5. \A c \in Commands \ {current} : Effects(c)' = Effects(c)
    <3> SUFFICES ASSUME NEW c \in Commands \ {current}
                 PROVE  \A i : i \in 1..Len(log') /\ log'[i] = c <=>
                                i \in 1..Len(log) /\ log[i] = c
      BY DEF Effects
    <3> QED
      BY <2>1, <2>4
  <2>6. Effects(current)' \subseteq {Len(log) + 1}
    <3>1. \A i \in 1..Len(log) : log[i] # current
      BY <2>1 DEF WriterInv, OnePlace
    <3> QED
      BY <2>1, <2>4, <3>1 DEF Effects
  <2>7. AnswersAreTrue'
    <3>1. answer'[current] = "none"
      BY <2>1 DEF WriterInv, OnePlace
    <3>2. \A i, j \in Effects(current)' : i = j
      BY <2>6
    <3> QED
      BY <2>1, <2>5, <3>1, <3>2 DEF WriterInv, AnswersAreTrue
  <2> QED
    BY <2>3, <2>7 DEF WriterInv
<1>7. CASE Acknowledge
  BY <1>7, Answered DEF Acknowledge
<1>8. CASE LoseAcknowledgement \/ Refuse \/ Fail \/ GiveUp
  BY <1>8, Answered DEF LoseAcknowledgement, Refuse, Fail, GiveUp
<1>9. CASE BackOff
  BY <1>9, SameAnswers DEF BackOff, WriterInv, OnePlace, Untouched, Queued
<1>10. CASE WakeUp /\ Late(current)
  BY <1>10, Answered DEF WakeUp
<1>11. CASE WakeUp /\ ~Late(current)
  BY <1>11, SameAnswers DEF WakeUp, WriterInv, OnePlace, Untouched, Queued
<1> QED
  BY <1>1, <1>2, <1>3, <1>4, <1>5, <1>6, <1>7, <1>8, <1>9, <1>10, <1>11
  DEF Next, AttemptEnds

LEMMA WriterHolds == Spec => [](WriterTypeOK /\ WriterInv)
<1>1. Init => WriterTypeOK
  BY WriterAssumption DEF Init, WriterTypeOK
<1>2. Init => WriterInv
  <2>1. ASSUME Init PROVE \A c \in Commands : Effects(c) = {}
    <3>1. Len(log) = 0
      BY <2>1 DEF Init
    <3> QED
      BY <3>1 DEF Effects
  <2>2. Init => OnePlace
    BY WriterAssumption DEF Init, OnePlace, Untouched, Queued
  <2>3. Init => AnswersAreTrue
    BY <2>1 DEF Init, AnswersAreTrue
  <2> QED
    BY <2>2, <2>3 DEF WriterInv
<1>3. WriterTypeOK /\ WriterInv /\ [Next]_vars => WriterTypeOK' /\ WriterInv'
  <2>1. WriterTypeOK /\ WriterInv => (phase # "idle" => current \in Commands)
    BY DEF WriterTypeOK, WriterInv, OnePlace
  <2> QED
    BY <2>1, TypeStep, WriterStep
<1> QED
  BY <1>1, <1>2, <1>3, PTL DEF Spec

\* The channel is bounded and every variable keeps its type.
THEOREM WriterTypes == Spec => []WriterTypeOK
BY WriterHolds, PTL

\* AnswersAreTrue, for any number of retries and lost answers.
THEOREM ReceiptsAreTrue == Spec => []AnswersAreTrue
BY WriterHolds, PTL DEF WriterInv

\* AttemptsKeepTheDeadline: an attempt begins after the clock was read.
THEOREM NoLateAttempts == Spec => AttemptsKeepTheDeadline
<1> DEFINE Step == phase # "executing" /\ phase' = "executing" => now < deadline[current']
<1>1. ASSUME WriterTypeOK, WriterInv, [Next]_vars
      PROVE  [Step]_vars
  <2>1. CASE Receive
    BY <1>1, <2>1, TailOfQueue DEF Receive, Late, Answer, WriterTypeOK
  <2>2. CASE WakeUp
    BY <1>1, <2>2 DEF WakeUp, Late, Answer, WriterTypeOK, WriterInv, OnePlace
  <2>3. CASE Tick \/ (\E c \in Commands : Call(c) \/ Send(c) \/ DropCall(c)) \/ AttemptEnds
    BY <2>3
    DEF Tick, Call, Send, DropCall, AttemptEnds, Commit, Acknowledge, LoseAcknowledgement,
        Refuse, Fail, BackOff, GiveUp, Answer, execVars
  <2> QED
    BY <1>1, <2>1, <2>2, <2>3 DEF Next
<1> QED
  BY <1>1, WriterHolds, PTL DEF Spec, AttemptsKeepTheDeadline

=============================================================================
