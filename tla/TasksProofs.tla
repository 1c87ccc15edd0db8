----------------------------- MODULE TasksProofs -----------------------------
(***************************************************************************)
(* Proofs about tasks on the bounded channel and on the unbounded one: any *)
(* number of tasks, any capacity of the channel and of the wakers' queues. *)
(* That no receiver and no sender is forgotten.                            *)
(***************************************************************************)
EXTENDS ListTasks, FiniteSetTheorems, SequenceTheorems, TLAPS

SP == INSTANCE AtomicSerialWakerProofs WITH
        Procs <- Threads, QueueCap <- WakerCap,
        queue <- sQueue, waiting <- sWaiting, fromMe <- sFromMe, wpc <- sPc, held <- sHeld
RP == INSTANCE AtomicSerialWakerProofs WITH
        Procs <- Threads, QueueCap <- WakerCap,
        queue <- rQueue, waiting <- rWaiting, fromMe <- rFromMe, wpc <- rPc, held <- rHeld

\* A step of either channel.
AnyNext == Next \/ ListNext
------------------------------------------------------------------------------
(***************************************************************************)
(* The invariant.                                                          *)
(***************************************************************************)
Released(p) == pc[p] \in {"shutdown", "wake_senders", "wake_receivers", "gone"}
Live(P)     == {p \in P : ~Released(p)}

DropLabels == {"idle", "drop", "shutdown", "wake_senders", "wake_receivers", "gone"}

\* TypeOK, with the labels of each side, the messages a sender has left, and the
\* handle counts, which are those of the handles not yet released.
TaskTypes ==
  /\ queue \in Seq(Message) /\ closed \in BOOLEAN /\ first \in BOOLEAN
  /\ sent \in [Senders -> 0 .. MaxSends]
  /\ pc \in [Threads -> PcLabels]
  /\ \A p \in Senders :
       /\ pc[p] \in {"start_send", "accepted", "full"} \union DropLabels
       /\ pc[p] \in {"idle", "start_send", "full"} => sent[p] < MaxSends
  /\ \A p \in Receivers :
       pc[p] \in {"start_recv", "took", "empty", "first", "consumed", "registered", "look_again"}
                   \union DropLabels
  /\ handles = [senders |-> Cardinality(Live(Senders)), receivers |-> Cardinality(Live(Receivers))]
  /\ SP!WakerOK
  /\ RP!WakerOK

\* A thread is in register of the receivers' waker only while its poll stands at
\* the call, and enters that of the senders' waker only where it found no room.
RegistersFromPoll ==
  \A p \in Threads :
    /\ rPc[p] \in {"register", "wk", "positive_update", "push_back"} => pc[p] = "registered"
    /\ sPc[p] = "register" => pc[p] = "full"

\* A sender that found the channel full is known to the senders' waker as soon as
\* it has entered register.
FullIsKept ==
  \A p \in Senders :
    pc[p] \in {"full", "idle"} /\ ~notified[p] /\ sPc[p] # "register" => SP!Kept(p)

\* With a single receiver r: the one registration is with r, or with the waker.
Shared(r) ==
  /\ RP!Sole(r)
  /\ first => pc[r] \notin {"consumed", "registered", "look_again"}
  /\ pc[r] = "first" => first
  /\ IF first \/ pc[r] = "consumed" THEN RP!NoneOut ELSE RP!OneOut

\* Somebody is about to notify r.
Ahead(r) ==
  \/ RP!Coming(r)
  \/ RP!Registered(r) /\ \E q \in Threads : pc[q] \in {"wake_senders", "wake_receivers"}

\* Until the first registration r is still due; what was counted since it last
\* looked is followed by a notification; and when there is something to receive,
\* r is due, or knows that it has to register again, or somebody is on its way.
Awaited(r) ==
  /\ pc[r] = "idle" /\ first => notified[r]
  /\ pc[r] \in {"idle", "registered", "look_again"} => RP!Counted(r)
  /\ pc[r] \in {"idle", "empty"} /\ (queue # << >> \/ closed) =>
       notified[r] \/ first \/ (pc[r] = "empty" /\ rFromMe > 0) \/ Ahead(r)

TasksInv == TaskTypes /\ RegistersFromPoll /\ FullIsKept
SingleInv(r) == TasksInv /\ Shared(r) /\ Awaited(r)

------------------------------------------------------------------------------
(***************************************************************************)
(* The two wakers of the channel are wakers, to which the lemmas apply.    *)
(***************************************************************************)
LEMMA Sides == Senders \subseteq Threads /\ Receivers \subseteq Threads
               /\ \A p \in Senders : p \notin Receivers
BY TasksAssumption DEF Threads

LEMMA SendersWaker ==
  /\ SP!WakerAssumption
  /\ S!WakerInit => SP!WakerInit
  /\ SP!WakerTypeOK => S!WakerTypeOK
  /\ \A p \in Threads : S!Step(p) => SP!Step(p)
  /\ \A p \in Threads : \A op \in S!Calls : S!Call(p, op) => SP!Call(p, op) /\ op \in SP!Calls
<1>1. SP!WakerAssumption
  BY TasksAssumption DEF SP!WakerAssumption, R!WakerAssumption
<1>2. S!WakerInit => SP!WakerInit
  BY DEF S!WakerInit, SP!WakerInit
<1>3. SP!WakerTypeOK => S!WakerTypeOK
  BY DEF S!WakerTypeOK, SP!WakerTypeOK, S!Labels, SP!Labels, S!Calls, SP!Calls,
         S!Holding, SP!Holding, S!Notifying, SP!Notifying
<1>4. ASSUME NEW p \in Threads, S!Step(p) PROVE SP!Step(p)
  BY <1>4 DEF S!Step, S!Register, S!WkPop, S!PositiveUpdate, S!PushBack, S!Wake, S!Wait, S!WakeAll,
       S!Count, S!Notify, S!Push, S!Pop, S!At, S!Goto, S!Hold,
       SP!Step, SP!Register, SP!WkPop, SP!PositiveUpdate, SP!PushBack, SP!Wake, SP!Wait, SP!WakeAll,
       SP!Count, SP!Notify, SP!Push, SP!Pop, SP!At, SP!Goto, SP!Hold
<1>5. \A p \in Threads : \A op \in S!Calls : S!Call(p, op) => SP!Call(p, op) /\ op \in SP!Calls
  BY DEF S!Call, SP!Call, S!At, SP!At, S!Goto, SP!Goto, S!Calls, SP!Calls
<1>. QED
  BY <1>1, <1>2, <1>3, <1>4, <1>5

LEMMA ReceiversWaker ==
  /\ RP!WakerAssumption
  /\ R!WakerInit => RP!WakerInit
  /\ RP!WakerTypeOK => R!WakerTypeOK
  /\ \A p \in Threads : R!Step(p) => RP!Step(p)
  /\ \A p \in Threads : \A op \in R!Calls : R!Call(p, op) => RP!Call(p, op) /\ op \in RP!Calls
  /\ R!Consume => RP!Consume
<1>1. RP!WakerAssumption
  BY TasksAssumption DEF RP!WakerAssumption, R!WakerAssumption
<1>2. R!WakerInit => RP!WakerInit
  BY DEF R!WakerInit, RP!WakerInit
<1>3. RP!WakerTypeOK => R!WakerTypeOK
  BY DEF R!WakerTypeOK, RP!WakerTypeOK, R!Labels, RP!Labels, R!Calls, RP!Calls,
         R!Holding, RP!Holding, R!Notifying, RP!Notifying
<1>4. ASSUME NEW p \in Threads, R!Step(p) PROVE RP!Step(p)
  BY <1>4 DEF R!Step, R!Register, R!WkPop, R!PositiveUpdate, R!PushBack, R!Wake, R!Wait, R!WakeAll,
       R!Count, R!Notify, R!Push, R!Pop, R!At, R!Goto, R!Hold,
       RP!Step, RP!Register, RP!WkPop, RP!PositiveUpdate, RP!PushBack, RP!Wake, RP!Wait, RP!WakeAll,
       RP!Count, RP!Notify, RP!Push, RP!Pop, RP!At, RP!Goto, RP!Hold
<1>5. \A p \in Threads : \A op \in R!Calls : R!Call(p, op) => RP!Call(p, op) /\ op \in RP!Calls
  BY DEF R!Call, RP!Call, R!At, RP!At, R!Goto, RP!Goto, R!Calls, RP!Calls
<1>6. R!Consume => RP!Consume
  BY DEF R!Consume, RP!Consume
<1>. QED
  BY <1>1, <1>2, <1>3, <1>4, <1>5, <1>6

------------------------------------------------------------------------------
(***************************************************************************)
(* Types.                                                                  *)
(***************************************************************************)
\* Everything a task does, on either channel.
Acts(p) == Poll(p) \/ Run(p) \/ ListRun(p) \/ Cancel(p)

\* What it does to the wakers, and to who is due.
LEMMA WakersCases ==
  ASSUME NEW p \in Threads, Acts(p)
  PROVE  \/ UNCHANGED wakers
         \/ \E op \in S!Calls : CallSenders(p, op)
         \/ \E op \in R!Calls : CallReceivers(p, op)
         \/ WakerStep(p)
         \/ UNCHANGED <<senderWaker, receiverWaker>> /\ notified' = [notified EXCEPT ![p] = FALSE]
         \/ R!Consume /\ UNCHANGED senderWaker
<1>1. \A op \in {"register", "wake", "wake_all"} : op \in S!Calls /\ op \in R!Calls
  BY DEF S!Calls, R!Calls
<1>2. CASE Poll(p)
  BY <1>2 DEF Poll, SinkPoll, StreamPoll
<1>3. CASE SinkStep(p) \/ ListSinkStep(p)
  BY <1>1, <1>3 DEF SinkStep, ListSinkStep, SinkReady, SinkNext, SinkFull, SinkNotReady, SinkClosed, ListReady
<1>4. CASE StreamStep(p) \/ ListStreamStep(p)
  BY <1>1, <1>4 DEF StreamStep, ListStreamStep, StreamReady, ListTake, StreamNext, StreamEnd, StreamEmpty,
       SeeFirst, ClearFirst, RegisterAgain, CallRegister, StreamNotReady, LookAgain, StillEmpty
<1>5. CASE DropStep(p) \/ ListDropStep(p) \/ Cancel(p)
  BY <1>1, <1>5 DEF DropStep, ListDropStep, Cancel, Release, ShutdownMark, ListShutdown, ShutdownSenders,
       ShutdownReceivers
<1>6. CASE WakerStep(p)
  BY <1>6
<1>. QED
  BY <1>2, <1>3, <1>4, <1>5, <1>6 DEF Acts, Run, ListRun

\* It leaves a waker as it is, but for notified.
LEMMA WakersOKKept ==
  ASSUME notified' \in [Threads -> BOOLEAN]
  PROVE  /\ SP!WakerOK /\ UNCHANGED senderWaker => SP!WakerOK'
         /\ RP!WakerOK /\ UNCHANGED receiverWaker => RP!WakerOK'
<1>1. SP!WakerOK /\ UNCHANGED senderWaker => SP!WakerOK'
  BY DEF senderWaker, SP!WakerOK, SP!WakerTypeOK, SP!Holding, SP!Notifying
<1>2. RP!WakerOK /\ UNCHANGED receiverWaker => RP!WakerOK'
  BY DEF receiverWaker, RP!WakerOK, RP!WakerTypeOK, RP!Holding, RP!Notifying
<1>. QED
  BY <1>1, <1>2

LEMMA WakersTyped ==
  ASSUME SP!WakerOK, RP!WakerOK, NEW p \in Threads, Acts(p)
  PROVE  SP!WakerOK' /\ RP!WakerOK'
<1>0. notified \in [Threads -> BOOLEAN]
  BY SP!WakerFacts
<1>1. CASE UNCHANGED wakers
  <2>1. UNCHANGED senderWaker /\ UNCHANGED receiverWaker /\ notified' \in [Threads -> BOOLEAN]
    BY <1>0, <1>1 DEF wakers
  <2>. QED
    BY <2>1, WakersOKKept
<1>2. ASSUME NEW op \in S!Calls, CallSenders(p, op)
      PROVE  SP!WakerOK' /\ RP!WakerOK'
  <2>1. SP!Call(p, op) /\ op \in SP!Calls /\ UNCHANGED receiverWaker
    BY <1>2, SendersWaker DEF CallSenders
  <2>2. SP!WakerOK' /\ UNCHANGED notified
    BY <2>1, SP!CallType, SP!CallKeeps
  <2>. QED
    BY <1>0, <2>1, <2>2, WakersOKKept
<1>3. ASSUME NEW op \in R!Calls, CallReceivers(p, op)
      PROVE  SP!WakerOK' /\ RP!WakerOK'
  <2>1. RP!Call(p, op) /\ op \in RP!Calls /\ UNCHANGED senderWaker
    BY <1>3, ReceiversWaker DEF CallReceivers
  <2>2. RP!WakerOK' /\ UNCHANGED notified
    BY <2>1, RP!CallType, RP!CallKeeps
  <2>. QED
    BY <1>0, <2>1, <2>2, WakersOKKept
<1>4. CASE WakerStep(p)
  <2>1. CASE S!Step(p) /\ UNCHANGED receiverWaker
    <3>1. SP!WakerOK'
      BY <2>1, SendersWaker, SP!StepType
    <3>2. notified' \in [Threads -> BOOLEAN]
      BY <3>1 DEF SP!WakerOK
    <3>. QED
      BY <2>1, <3>1, <3>2, WakersOKKept
  <2>2. CASE R!Step(p) /\ UNCHANGED senderWaker
    <3>1. RP!WakerOK'
      BY <2>2, ReceiversWaker, RP!StepType
    <3>2. notified' \in [Threads -> BOOLEAN]
      BY <3>1 DEF RP!WakerOK
    <3>. QED
      BY <2>2, <3>1, <3>2, WakersOKKept
  <2>. QED
    BY <1>4, <2>1, <2>2 DEF WakerStep
<1>5. CASE UNCHANGED <<senderWaker, receiverWaker>> /\ notified' = [notified EXCEPT ![p] = FALSE]
  BY <1>0, <1>5, WakersOKKept
<1>6. CASE R!Consume /\ UNCHANGED senderWaker
  <2>1. RP!WakerOK' /\ UNCHANGED notified
    BY <1>6, ReceiversWaker, RP!ConsumeType DEF RP!Consume
  <2>. QED
    BY <1>0, <1>6, <2>1, WakersOKKept
<1>. QED
  BY <1>1, <1>2, <1>3, <1>4, <1>5, <1>6, WakersCases

\* Task p moves to label k of its side, and takes its messages along.
Turn(p, k) ==
  /\ k \in PcLabels /\ pc' = [pc EXCEPT ![p] = k]
  /\ queue' \in Seq(Message) /\ closed' \in BOOLEAN /\ first' \in BOOLEAN
  /\ sent' \in [Senders -> 0 .. MaxSends] /\ \A q \in Senders : q # p => sent'[q] = sent[q]
  /\ p \in Senders => /\ k \in {"start_send", "accepted", "full"} \union DropLabels
                      /\ k \in {"idle", "start_send", "full"} => sent'[p] < MaxSends
  /\ p \in Receivers =>
       k \in {"start_recv", "took", "empty", "first", "consumed", "registered", "look_again"}
               \union DropLabels
  /\ \/ /\ UNCHANGED handles
        /\ Released(p) <=> k \in {"shutdown", "wake_senders", "wake_receivers", "gone"}
     \/ /\ handles' = [handles EXCEPT ![Side(p)] = @ - 1]
        /\ ~Released(p) /\ k \in {"shutdown", "gone"}

LEMMA HandlesLess ==
  ASSUME NEW a, NEW b, NEW h, NEW g, NEW s,
         h = [senders |-> a, receivers |-> b], g = [h EXCEPT ![s] = @ - 1]
  PROVE  /\ s = "senders" => g = [senders |-> a - 1, receivers |-> b]
         /\ s = "receivers" => g = [senders |-> a, receivers |-> b - 1]
<1>1. CASE s = "senders"
  <2>1. g = [h EXCEPT !.senders = @ - 1]
    BY <1>1
  <2>. QED
    BY <1>1, <2>1
<1>2. CASE s = "receivers"
  <2>1. g = [h EXCEPT !.receivers = @ - 1]
    BY <1>2
  <2>. QED
    BY <1>2, <2>1
<1>. QED
  BY <1>1, <1>2

LEMMA TurnTypes ==
  ASSUME TaskTypes, NEW p \in Threads, NEW k, Turn(p, k), SP!WakerOK', RP!WakerOK'
  PROVE  TaskTypes'
<1>0. /\ k \in PcLabels /\ pc' = [pc EXCEPT ![p] = k]
      /\ queue' \in Seq(Message) /\ closed' \in BOOLEAN /\ first' \in BOOLEAN
      /\ sent' \in [Senders -> 0 .. MaxSends] /\ \A q \in Senders : q # p => sent'[q] = sent[q]
      /\ p \in Senders => /\ k \in {"start_send", "accepted", "full"} \union DropLabels
                          /\ k \in {"idle", "start_send", "full"} => sent'[p] < MaxSends
      /\ p \in Receivers =>
           k \in {"start_recv", "took", "empty", "first", "consumed", "registered", "look_again"}
                   \union DropLabels
  BY DEF Turn
<1>1. pc \in [Threads -> PcLabels] /\ pc'[p] = k /\ \A q \in Threads : q # p => pc'[q] = pc[q]
  BY <1>0 DEF TaskTypes
<1>2. pc' \in [Threads -> PcLabels]
  BY <1>0, <1>1
<1>3. /\ \A q \in Senders :
           /\ pc'[q] \in {"start_send", "accepted", "full"} \union DropLabels
           /\ pc'[q] \in {"idle", "start_send", "full"} => sent'[q] < MaxSends
      /\ \A q \in Receivers :
           pc'[q] \in {"start_recv", "took", "empty", "first", "consumed", "registered", "look_again"}
                       \union DropLabels
  <2>1. ASSUME NEW q \in Senders
        PROVE  /\ pc'[q] \in {"start_send", "accepted", "full"} \union DropLabels
               /\ pc'[q] \in {"idle", "start_send", "full"} => sent'[q] < MaxSends
    BY <1>0, <1>1, Sides DEF TaskTypes
  <2>2. ASSUME NEW q \in Receivers
        PROVE  pc'[q] \in {"start_recv", "took", "empty", "first", "consumed", "registered", "look_again"}
                       \union DropLabels
    BY <1>0, <1>1, Sides DEF TaskTypes
  <2>. QED
    BY <2>1, <2>2
<1>4. handles = [senders |-> Cardinality(Live(Senders)), receivers |-> Cardinality(Live(Receivers))]
  BY DEF TaskTypes
<1>5. \A q \in Threads : q # p => (Released(q)' <=> Released(q))
  BY <1>1 DEF Released
<1>6. handles' = [senders |-> Cardinality(Live(Senders)'), receivers |-> Cardinality(Live(Receivers)')]
  <2>1. CASE UNCHANGED handles /\ (Released(p)' <=> Released(p))
    <3>1. Live(Senders)' = Live(Senders) /\ Live(Receivers)' = Live(Receivers)
      BY <1>5, <2>1, Sides DEF Live
    <3>. QED
      BY <1>4, <2>1, <3>1
  <2>2. CASE handles' = [handles EXCEPT ![Side(p)] = @ - 1] /\ ~Released(p) /\ Released(p)'
    <3>1. \A P \in {Senders, Receivers} : P \subseteq Threads /\ IsFiniteSet(Live(P))
      BY TasksAssumption, Sides, FS_Subset DEF Live
    <3>2. \A P \in {Senders, Receivers} : p \in P =>
            p \in Live(P) /\ Live(P)' = Live(P) \ {p} /\ Cardinality(Live(P)') = Cardinality(Live(P)) - 1
      <4> SUFFICES ASSUME NEW P \in {Senders, Receivers}, p \in P
                   PROVE  p \in Live(P) /\ Live(P)' = Live(P) \ {p}
                          /\ Cardinality(Live(P)') = Cardinality(Live(P)) - 1
        OBVIOUS
      <4>1. p \in Live(P) /\ Live(P)' = Live(P) \ {p}
        BY <1>5, <2>2, <3>1 DEF Live
      <4>2. Cardinality(Live(P) \ {p}) = Cardinality(Live(P)) - 1
        BY <3>1, <4>1, FS_RemoveElement
      <4>. QED
        BY <4>1, <4>2
    <3>3. \A P \in {Senders, Receivers} : p \notin P => Live(P)' = Live(P)
      BY <1>5, <3>1 DEF Live
    <3>4. CASE p \in Senders
      <4>1. Side(p) = "senders" /\ p \notin Receivers
        BY <3>4, Sides DEF Side
      <4>2. Cardinality(Live(Senders)') = Cardinality(Live(Senders)) - 1 /\ Live(Receivers)' = Live(Receivers)
        BY <3>2, <3>3, <3>4, <4>1
      <4>3. handles' = [senders |-> Cardinality(Live(Senders)) - 1, receivers |-> Cardinality(Live(Receivers))]
        BY <1>4, <2>2, <4>1, HandlesLess
      <4>. QED
        BY <4>2, <4>3
    <3>5. CASE p \notin Senders
      <4>1. Side(p) = "receivers" /\ p \in Receivers
        BY <3>5 DEF Side, Threads
      <4>2. Cardinality(Live(Receivers)') = Cardinality(Live(Receivers)) - 1 /\ Live(Senders)' = Live(Senders)
        BY <3>2, <3>3, <3>5, <4>1
      <4>3. handles' = [senders |-> Cardinality(Live(Senders)), receivers |-> Cardinality(Live(Receivers)) - 1]
        BY <1>4, <2>2, <4>1, HandlesLess
      <4>. QED
        BY <4>2, <4>3
    <3>. QED
      BY <3>4, <3>5
  <2>3. Released(p)' <=> k \in {"shutdown", "wake_senders", "wake_receivers", "gone"}
    BY <1>1 DEF Released
  <2>. QED
    BY <2>1, <2>2, <2>3 DEF Turn
<1>. QED
  BY <1>0, <1>2, <1>3, <1>6 DEF TaskTypes

\* The ring: what the operations of the channel do to its messages.
LEMMA RingTypes ==
  ASSUME TaskTypes, NEW p \in Senders
  PROVE  /\ (Accept(p) \/ Unbounded!Accept(p)) /\ sent[p] < MaxSends =>
              /\ queue' \in Seq(Message) /\ closed' = closed /\ queue' # << >>
              /\ sent' \in [Senders -> 0 .. MaxSends] /\ \A q \in Senders : q # p => sent'[q] = sent[q]
<1>1. /\ queue \in Seq(Message) /\ sent \in [Senders -> 0 .. MaxSends] /\ MaxSends \in Nat
  BY TasksAssumption DEF TaskTypes
<1>2. SUFFICES ASSUME Accept(p) \/ Unbounded!Accept(p), sent[p] < MaxSends
               PROVE  /\ queue' \in Seq(Message) /\ closed' = closed /\ queue' # << >>
                      /\ sent' \in [Senders -> 0 .. MaxSends]
                      /\ \A q \in Senders : q # p => sent'[q] = sent[q]
  OBVIOUS
<1>3. /\ queue' = Append(queue, Msg(p, sent[p] + 1)) /\ closed' = closed
      /\ sent' = [sent EXCEPT ![p] = @ + 1]
  BY <1>2 DEF Accept, Unbounded!Accept, Msg, Unbounded!Msg
<1>4. sent[p] + 1 \in 1 .. MaxSends
  BY <1>1, <1>2
<1>5. Msg(p, sent[p] + 1) \in Message
  BY <1>4 DEF Msg, Message
<1>6. queue' \in Seq(Message) /\ queue' # << >>
  BY <1>1, <1>3, <1>5, AppendProperties
<1>. QED
  BY <1>1, <1>3, <1>4, <1>6
\* What the tasks of one side do is such a move.
LEMMA SenderTurns ==
  ASSUME TaskTypes, NEW p \in Senders, SinkPoll(p) \/ SinkStep(p) \/ ListSinkStep(p)
  PROVE  \E k : Turn(p, k)
<1>1. /\ queue \in Seq(Message) /\ closed \in BOOLEAN /\ first \in BOOLEAN
      /\ sent \in [Senders -> 0 .. MaxSends] /\ MaxSends \in Nat
      /\ pc[p] \in {"idle", "start_send", "full"} => sent[p] < MaxSends
      /\ p \notin Receivers
  BY TasksAssumption, Sides DEF TaskTypes
<1>2. \A k \in {"start_send", "accepted", "full", "idle", "drop"} :
        k \in PcLabels /\ k \in {"start_send", "accepted", "full"} \union DropLabels
          /\ k \notin {"shutdown", "wake_senders", "wake_receivers", "gone"}
  BY DEF PcLabels, DropLabels
<1>3. CASE SinkPoll(p)
  <2>1. /\ pc[p] = "idle" /\ pc' = [pc EXCEPT ![p] = "start_send"]
        /\ UNCHANGED <<queue, closed, sent, first, handles>>
    BY <1>3 DEF SinkPoll, Move, CallSend
  <2>. QED
    BY <1>1, <1>2, <2>1 DEF Turn, Released
<1>4. CASE SinkReady(p) \/ ListReady(p)
  <2>1. /\ pc[p] = "start_send" /\ pc' = [pc EXCEPT ![p] = "accepted"]
        /\ Accept(p) \/ Unbounded!Accept(p)
        /\ UNCHANGED <<first, handles>>
    BY <1>4 DEF SinkReady, ListReady, Move
  <2>2. /\ queue' \in Seq(Message) /\ closed' = closed
        /\ sent' \in [Senders -> 0 .. MaxSends] /\ \A q \in Senders : q # p => sent'[q] = sent[q]
    BY <1>1, <2>1, RingTypes
  <2>. QED
    BY <1>1, <1>2, <2>1, <2>2 DEF Turn, Released
<1>5. CASE SinkNext(p)
  <2>1. /\ pc[p] = "accepted" /\ UNCHANGED <<queue, closed, sent, first, handles>>
        /\ \/ sent[p] < MaxSends /\ pc' = [pc EXCEPT ![p] = "start_send"]
           \/ pc' = [pc EXCEPT ![p] = "drop"]
    BY <1>5 DEF SinkNext, Move, CallSend, ring
  <2>. QED
    BY <1>1, <1>2, <2>1 DEF Turn, Released
<1>6. CASE SinkFull(p) \/ SinkNotReady(p) \/ SinkClosed(p)
  <2>1. /\ UNCHANGED <<queue, closed, sent, first, handles>>
        /\ \/ pc[p] = "start_send" /\ pc' = [pc EXCEPT ![p] = "full"]
           \/ pc[p] = "full" /\ pc' = [pc EXCEPT ![p] = "idle"]
           \/ pc[p] = "start_send" /\ pc' = [pc EXCEPT ![p] = "drop"]
    BY <1>6 DEF SinkFull, SinkNotReady, SinkClosed, Move, RefuseFull, RefuseClosed, ring
  <2>. QED
    BY <1>1, <1>2, <2>1 DEF Turn, Released
<1>. QED
  BY <1>3, <1>4, <1>5, <1>6 DEF SinkStep, ListSinkStep

LEMMA ReceiverTurns ==
  ASSUME TaskTypes, NEW p \in Receivers, StreamPoll(p) \/ StreamStep(p) \/ ListStreamStep(p)
  PROVE  /\ \E k : Turn(p, k)
         /\ queue' = queue \/ pc'[p] = "took"
         /\ UNCHANGED <<closed, handles>>
         /\ pc[p] \in {"idle", "start_recv", "took", "empty", "first", "consumed", "registered", "look_again"}
<1>1. /\ queue \in Seq(Message) /\ closed \in BOOLEAN /\ first \in BOOLEAN
      /\ sent \in [Senders -> 0 .. MaxSends] /\ p \notin Senders
      /\ pc \in [Threads -> PcLabels] /\ p \in Threads
  BY TasksAssumption, Sides DEF TaskTypes
<1>2. \A k \in {"start_recv", "took", "empty", "first", "consumed", "registered", "look_again", "idle", "drop"} :
        /\ k \in PcLabels
        /\ k \in {"start_recv", "took", "empty", "first", "consumed", "registered", "look_again"}
                     \union DropLabels
        /\ k \notin {"shutdown", "wake_senders", "wake_receivers", "gone"}
  BY DEF PcLabels, DropLabels
<1>3. CASE StreamPoll(p) \/ StreamNext(p) \/ StreamEnd(p) \/ StreamEmpty(p) \/ LookAgain(p) \/ StillEmpty(p)
  <2>1. /\ UNCHANGED <<queue, closed, sent, first, handles>>
        /\ pc[p] \in {"idle", "start_recv", "took", "registered", "look_again"}
        /\ \E k \in {"start_recv", "drop", "empty", "look_again", "idle"} : pc' = [pc EXCEPT ![p] = k]
    BY <1>3 DEF StreamPoll, StreamNext, StreamEnd, StreamEmpty, LookAgain, StillEmpty, Move, CallRecv,
         ReportDisconnected, ReportEmpty
  <2>. QED
    BY <1>1, <1>2, <2>1 DEF Turn, Released
<1>4. CASE StreamReady(p) \/ ListTake(p)
  <2>1. /\ pc[p] \in {"start_recv", "look_again"} /\ pc' = [pc EXCEPT ![p] = "took"]
        /\ queue # << >> /\ queue' = Tail(queue)
        /\ UNCHANGED <<closed, sent, first, handles>>
    BY <1>4 DEF StreamReady, ListTake, Move, Deliver
  <2>2. queue' \in Seq(Message)
    BY <1>1, <2>1
  <2>. QED
    BY <1>1, <1>2, <2>1, <2>2 DEF Turn, Released
<1>5. CASE SeeFirst(p) \/ ClearFirst(p) \/ RegisterAgain(p) \/ CallRegister(p) \/ StreamNotReady(p)
  <2>1. /\ UNCHANGED <<queue, closed, sent, handles>> /\ first' \in BOOLEAN
        /\ pc[p] \in {"empty", "first", "consumed"}
        /\ \E k \in {"first", "registered", "consumed", "idle"} : pc' = [pc EXCEPT ![p] = k]
    BY <1>1, <1>5 DEF SeeFirst, ClearFirst, RegisterAgain, CallRegister, StreamNotReady, Move, ring
  <2>. QED
    BY <1>1, <1>2, <2>1 DEF Turn, Released
<1>. QED
  BY <1>3, <1>4, <1>5 DEF StreamStep, ListStreamStep

LEMMA DropTurns ==
  ASSUME TaskTypes, NEW p \in Threads, Cancel(p) \/ DropStep(p) \/ ListDropStep(p)
  PROVE  \E k : Turn(p, k)
<1>1. /\ queue \in Seq(Message) /\ closed \in BOOLEAN /\ first \in BOOLEAN
      /\ sent \in [Senders -> 0 .. MaxSends]
  BY DEF TaskTypes
<1>2. \A k \in {"drop", "shutdown", "wake_senders", "wake_receivers", "gone"} :
        k \in PcLabels /\ k \in DropLabels /\ k \notin {"idle", "start_send", "full"}
  BY DEF PcLabels, DropLabels
<1>3. CASE Cancel(p)
  <2>1. /\ pc[p] = "idle" /\ pc' = [pc EXCEPT ![p] = "drop"]
        /\ UNCHANGED <<queue, closed, sent, first, handles>>
    BY <1>3 DEF Cancel, Move, ring
  <2>2. Turn(p, "drop")
    BY <1>1, <1>2, <2>1 DEF Turn, Released
  <2>. QED
    BY <2>2
<1>4. CASE Release(p)
  BY <1>1, <1>2, <1>4 DEF Release, Move, ring, Turn, Released
<1>5. CASE ShutdownMark(p) \/ ListShutdown(p)
  BY <1>1, <1>2, <1>5 DEF ShutdownMark, ListShutdown, Close, Move, Turn, Released
<1>6. CASE ShutdownSenders(p) \/ ShutdownReceivers(p)
  BY <1>1, <1>2, <1>6 DEF ShutdownSenders, ShutdownReceivers, Move, ring, Turn, Released
<1>. QED
  BY <1>3, <1>4, <1>5, <1>6 DEF DropStep, ListDropStep

LEMMA TypesNext ==
  ASSUME TaskTypes, NEW p \in Threads, Acts(p)
  PROVE  TaskTypes'
<1>1. SP!WakerOK' /\ RP!WakerOK'
  BY WakersTyped DEF TaskTypes
<1>2. CASE WakerStep(p)
  <2>1. UNCHANGED <<queue, closed, sent, first, pc, handles>>
    BY <1>2 DEF WakerStep, ring
  <2>. QED
    BY <1>1, <2>1 DEF TaskTypes, Live, Released
<1>3. CASE \E k : Turn(p, k)
  BY <1>1, <1>3, TurnTypes
<1>. QED
  BY <1>2, <1>3, SenderTurns, ReceiverTurns, DropTurns DEF Acts, Poll, Run, ListRun

LEMMA TypesInit == Init => TaskTypes
<1> SUFFICES ASSUME Init
             PROVE  TaskTypes
  OBVIOUS
<1>1. SP!WakerOK /\ RP!WakerOK
  BY SendersWaker, ReceiversWaker, SP!WakerStarts, RP!WakerStarts DEF Init, SP!WakerOK, RP!WakerOK
<1>2. /\ queue \in Seq(Message) /\ closed \in BOOLEAN /\ first \in BOOLEAN
      /\ sent \in [Senders -> 0 .. MaxSends] /\ \A p \in Senders : sent[p] < MaxSends
  <2>1. queue = << >> /\ closed = FALSE /\ first = TRUE /\ sent = [p \in Senders |-> 0]
    BY DEF Init, FifoInit
  <2>2. << >> \in Seq(Message)
    BY EmptySeq
  <2>3. 0 \in 0 .. MaxSends /\ 0 < MaxSends
    BY TasksAssumption
  <2>. QED
    BY <2>1, <2>2, <2>3
<1>3. pc \in [Threads -> PcLabels] /\ \A p \in Threads : pc[p] = "idle"
  BY DEF Init, PcLabels
<1>4. Live(Senders) = Senders /\ Live(Receivers) = Receivers
  BY <1>3, Sides DEF Live, Released
<1>5. handles = [senders |-> Cardinality(Live(Senders)), receivers |-> Cardinality(Live(Receivers))]
  BY <1>4 DEF Init
<1>. QED
  BY <1>1, <1>2, <1>3, <1>5, Sides DEF TaskTypes, DropLabels

LEMMA TypesStutter == TaskTypes /\ UNCHANGED vars => TaskTypes'
<1> SUFFICES ASSUME TaskTypes, UNCHANGED vars
             PROVE  TaskTypes'
  OBVIOUS
<1>1. UNCHANGED <<queue, closed, sent, first, pc, handles>> /\ UNCHANGED <<senderWaker, receiverWaker, notified>>
  BY DEF vars, senderWaker, receiverWaker
<1>2. SP!WakerOK' /\ RP!WakerOK'
  BY <1>1, WakersOKKept, SP!WakerFacts DEF TaskTypes
<1>. QED
  BY <1>1, <1>2 DEF TaskTypes, Live, Released

LEMMA TypesOK == TaskTypes => TypeOK
<1> SUFFICES ASSUME TaskTypes
             PROVE  TypeOK
  OBVIOUS
<1>1. S!WakerTypeOK /\ R!WakerTypeOK /\ notified \in [Threads -> BOOLEAN]
  BY SendersWaker, ReceiversWaker DEF TaskTypes, SP!WakerOK, RP!WakerOK
<1>2. \A P \in {Senders, Receivers} : Cardinality(Live(P)) \in Nat
  BY TasksAssumption, Sides, FS_Subset, FS_CardinalityType DEF Live
<1>3. handles \in [{"senders", "receivers"} -> Nat]
  BY <1>2 DEF TaskTypes
<1>. QED
  BY <1>1, <1>3 DEF TaskTypes, TypeOK

------------------------------------------------------------------------------
(***************************************************************************)
(* Who calls register, and a parked sender is known to its waker.          *)
(***************************************************************************)
\* A task makes its moves outside the wakers, and calls register at two labels.
LEMMA Registers ==
  ASSUME TaskTypes, NEW p \in Threads, Acts(p), ~WakerStep(p)
  PROVE  /\ sPc[p] = "idle" /\ rPc[p] = "idle"
         /\ \E k : pc' = [pc EXCEPT ![p] = k]
         /\ rPc'[p] = "register" => pc'[p] = "registered"
         /\ sPc'[p] = "register" => pc'[p] = "full"
         /\ p \in Senders /\ pc'[p] \in {"full", "idle"} =>
              sPc'[p] = "register" \/ (pc[p] = "full" /\ UNCHANGED wakers)
<1>1. /\ pc \in [Threads -> PcLabels] /\ sPc \in [Threads -> SP!Labels] /\ rPc \in [Threads -> RP!Labels]
      /\ p \in Senders => p \notin Receivers
  BY SP!WakerFacts, RP!WakerFacts, Sides DEF TaskTypes
<1>2. /\ \A op : CallSenders(p, op) => sPc' = [sPc EXCEPT ![p] = op] /\ UNCHANGED rPc
      /\ \A op : CallReceivers(p, op) => rPc' = [rPc EXCEPT ![p] = op] /\ UNCHANGED sPc
      /\ R!Consume /\ UNCHANGED senderWaker => UNCHANGED <<sPc, rPc>>
      /\ UNCHANGED wakers => UNCHANGED <<sPc, rPc>>
  BY DEF CallSenders, CallReceivers, S!Call, R!Call, S!Goto, R!Goto, R!Consume, senderWaker, receiverWaker, wakers
<1>3. CASE p \in Senders /\ (SinkPoll(p) \/ SinkStep(p) \/ ListSinkStep(p))
  BY <1>1, <1>2, <1>3 DEF SinkPoll, SinkStep, ListSinkStep, SinkReady, SinkNext, SinkFull, SinkNotReady,
       SinkClosed, ListReady, Move, senderWaker, receiverWaker
<1>4. CASE p \in Receivers /\ (StreamPoll(p) \/ StreamStep(p) \/ ListStreamStep(p))
  BY <1>1, <1>2, <1>4 DEF StreamPoll, StreamStep, ListStreamStep, StreamReady, ListTake, StreamNext, StreamEnd,
       StreamEmpty, SeeFirst, ClearFirst, RegisterAgain, CallRegister, StreamNotReady, LookAgain, StillEmpty,
       Move, senderWaker, receiverWaker
<1>5. CASE DropStep(p) \/ ListDropStep(p) \/ Cancel(p)
  BY <1>1, <1>2, <1>5 DEF DropStep, ListDropStep, Cancel, Release, ShutdownMark, ListShutdown, ShutdownSenders,
       ShutdownReceivers, Move
<1>. QED
  BY <1>3, <1>4, <1>5 DEF Acts, Poll, Run, ListRun

LEMMA RegistersNext ==
  ASSUME TaskTypes, RegistersFromPoll, NEW p \in Threads, Acts(p)
  PROVE  RegistersFromPoll'
<1>0. /\ pc \in [Threads -> PcLabels] /\ RP!WakerOK /\ SP!WakerOK
      /\ rPc \in [Threads -> RP!Labels] /\ sPc \in [Threads -> SP!Labels]
  BY RP!WakerFacts, SP!WakerFacts DEF TaskTypes
<1>1. CASE WakerStep(p)
  <2>1. UNCHANGED pc
    BY <1>1 DEF WakerStep
  <2>2. /\ \A q \in Threads : rPc'[q] \in {"register", "wk", "positive_update", "push_back"} =>
                               rPc[q] \in {"register", "wk", "positive_update", "push_back"}
        /\ \A q \in Threads : sPc'[q] = "register" => sPc[q] = "register"
    <3>1. CASE UNCHANGED receiverWaker /\ S!Step(p)
      <4>1. SP!Takes(p) \/ SP!Puts(p) \/ SP!Returns(p) \/ SP!Passes(p) \/ SP!Counts(p) \/ SP!Notifies(p)
        BY <1>0, <3>1, SendersWaker, SP!StepCases
      <4>2. \A q \in Threads : sPc'[q] = "register" => sPc[q] = "register"
        BY <1>0, <4>1 DEF SP!Takes, SP!Puts, SP!Returns, SP!Passes, SP!Counts, SP!Notifies
      <4>. QED
        BY <3>1, <4>2 DEF receiverWaker
    <3>2. CASE UNCHANGED senderWaker /\ R!Step(p)
      <4>1. RP!Takes(p) \/ RP!Puts(p) \/ RP!Returns(p) \/ RP!Passes(p) \/ RP!Counts(p) \/ RP!Notifies(p)
        BY <1>0, <3>2, ReceiversWaker, RP!StepCases
      <4>2. \A q \in Threads : rPc'[q] \in {"register", "wk", "positive_update", "push_back"} =>
                               rPc[q] \in {"register", "wk", "positive_update", "push_back"}
        BY <1>0, <4>1 DEF RP!Takes, RP!Puts, RP!Returns, RP!Passes, RP!Counts, RP!Notifies
      <4>. QED
        BY <3>2, <4>2 DEF senderWaker
    <3>. QED
      BY <1>1, <3>1, <3>2 DEF WakerStep
  <2>. QED
    BY <2>1, <2>2 DEF RegistersFromPoll
<1>2. CASE ~WakerStep(p)
  <2>1. /\ rPc[p] = "idle" /\ sPc[p] = "idle" /\ \E k : pc' = [pc EXCEPT ![p] = k]
        /\ rPc'[p] = "register" => pc'[p] = "registered"
        /\ sPc'[p] = "register" => pc'[p] = "full"
    BY <1>2, Registers
  <2>2. /\ UNCHANGED rPc \/ \E op \in R!Calls : rPc' = [rPc EXCEPT ![p] = op]
        /\ UNCHANGED sPc \/ \E op \in S!Calls : sPc' = [sPc EXCEPT ![p] = op]
    BY <1>2, WakersCases DEF wakers, senderWaker, receiverWaker, CallSenders, CallReceivers, S!Call, S!Goto,
         R!Call, R!Goto, R!Consume
  <2>3. \A q \in Threads : rPc'[q] \in {"register", "wk", "positive_update", "push_back"} => pc'[q] = "registered"
    BY <1>0, <2>1, <2>2 DEF R!Calls, RegistersFromPoll
  <2>4. \A q \in Threads : sPc'[q] = "register" => pc'[q] = "full"
    BY <1>0, <2>1, <2>2 DEF S!Calls, RegistersFromPoll
  <2>. QED
    BY <2>3, <2>4 DEF RegistersFromPoll
<1>. QED
  BY <1>1, <1>2

\* A poll takes p's notification, and nothing else takes one.
LEMMA NotifiedNext ==
  ASSUME TaskTypes, NEW p \in Threads, Acts(p), NEW q \in Threads, notified[q]
  PROVE  notified'[q] \/ (q = p /\ Poll(p))
<1>1. /\ SP!WakerOK /\ RP!WakerOK /\ notified \in [Threads -> BOOLEAN]
  BY SP!WakerFacts DEF TaskTypes
<1>2. CASE WakerStep(p)
  <2>1. CASE S!Step(p)
    <3>1. SP!Takes(p) \/ SP!Puts(p) \/ SP!Returns(p) \/ SP!Passes(p) \/ SP!Counts(p) \/ SP!Notifies(p)
      BY <1>1, <2>1, SendersWaker, SP!StepCases
    <3>. QED
      BY <1>1, <3>1 DEF SP!Takes, SP!Puts, SP!Returns, SP!Passes, SP!Counts, SP!Notifies
  <2>2. CASE R!Step(p)
    <3>1. RP!Takes(p) \/ RP!Puts(p) \/ RP!Returns(p) \/ RP!Passes(p) \/ RP!Counts(p) \/ RP!Notifies(p)
      BY <1>1, <2>2, ReceiversWaker, RP!StepCases
    <3>. QED
      BY <1>1, <3>1 DEF RP!Takes, RP!Puts, RP!Returns, RP!Passes, RP!Counts, RP!Notifies
  <2>. QED
    BY <1>2, <2>1, <2>2 DEF WakerStep
<1>3. CASE Poll(p)
  BY <1>1, <1>3 DEF Poll, SinkPoll, StreamPoll
<1>4. CASE SinkStep(p) \/ ListSinkStep(p)
  BY <1>4 DEF SinkStep, ListSinkStep, SinkReady, SinkNext, SinkFull, SinkNotReady, SinkClosed, ListReady,
       CallSenders, CallReceivers, S!Call, R!Call, wakers
<1>5. CASE StreamStep(p) \/ ListStreamStep(p)
  BY <1>5 DEF StreamStep, ListStreamStep, StreamReady, ListTake, StreamNext, StreamEnd, StreamEmpty,
       SeeFirst, ClearFirst, RegisterAgain, CallRegister, StreamNotReady, LookAgain, StillEmpty,
       CallSenders, CallReceivers, S!Call, R!Call, R!Consume, wakers
<1>6. CASE DropStep(p) \/ ListDropStep(p) \/ Cancel(p)
  BY <1>6 DEF DropStep, ListDropStep, Cancel, Release, ShutdownMark, ListShutdown, ShutdownSenders,
       ShutdownReceivers, CallSenders, CallReceivers, S!Call, R!Call, wakers
<1>. QED
  BY <1>2, <1>3, <1>4, <1>5, <1>6 DEF Acts, Run, ListRun

LEMMA FullNext ==
  ASSUME TaskTypes, FullIsKept, NEW p \in Threads, Acts(p)
  PROVE  FullIsKept'
<1> SUFFICES ASSUME NEW q \in Senders, pc'[q] \in {"full", "idle"}, ~notified'[q], sPc'[q] # "register"
             PROVE  SP!Kept(q)'
  BY DEF FullIsKept
<1>0. /\ pc \in [Threads -> PcLabels] /\ sPc \in [Threads -> SP!Labels] /\ SP!WakerOK /\ q \in Threads
      /\ pc[q] \in {"full", "idle"} /\ ~notified[q] /\ sPc[q] # "register" => SP!Kept(q)
  BY SP!WakerFacts, Sides DEF TaskTypes, FullIsKept
<1>1. pc[q] \in {"full", "idle"} /\ ~notified[q]
  <2>1. ~(q = p /\ Poll(p))
    BY <1>0, Sides DEF Poll, SinkPoll, Move
  <2>2. ~notified[q]
    BY <1>0, <2>1, NotifiedNext
  <2>3. pc[q] \in {"full", "idle"}
    <3>1. CASE WakerStep(p)
      BY <3>1 DEF WakerStep
    <3>2. CASE ~WakerStep(p) /\ q # p
      BY <1>0, <3>2, Registers
    <3>3. CASE ~WakerStep(p) /\ q = p
      BY <1>0, <3>3, Registers
    <3>. QED
      BY <3>1, <3>2, <3>3
  <2>. QED
    BY <2>2, <2>3
<1>2. CASE WakerStep(p)
  <2>1. CASE S!Step(p)
    <3>1. SP!Step(p)
      BY <2>1, SendersWaker
    <3>2. SP!Kept(q) \/ (p = q /\ sPc[p] = "register")
      <4>1. CASE sPc[q] # "register"
        BY <1>0, <1>1, <4>1
      <4>2. CASE sPc[q] = "register"
        <5>1. SP!Takes(p) \/ SP!Puts(p) \/ SP!Returns(p) \/ SP!Passes(p) \/ SP!Counts(p) \/ SP!Notifies(p)
          BY <1>0, <3>1, SP!StepCases
        <5>2. \E l : sPc' = [sPc EXCEPT ![p] = l]
          BY <5>1 DEF SP!Takes, SP!Puts, SP!Returns, SP!Passes, SP!Counts, SP!Notifies
        <5>. QED
          BY <1>0, <4>2, <5>2
      <4>. QED
        BY <4>1, <4>2
    <3>. QED
      BY <1>0, <3>1, <3>2, SP!StepKeeps
  <2>2. CASE UNCHANGED senderWaker
    <3>1. SP!Kept(q)
      BY <1>0, <1>1, <2>2 DEF senderWaker
    <3>. QED
      BY <2>2, <3>1 DEF senderWaker, SP!Kept, SP!Registered, SP!Holding, SP!Notifying
  <2>. QED
    BY <1>2, <2>1, <2>2 DEF WakerStep
<1>3. CASE ~WakerStep(p)
  <2>1. sPc[p] = "idle"
    BY <1>3, Registers
  <2>2. \/ UNCHANGED senderWaker
        \/ \E op \in SP!Calls : SP!Call(p, op)
    BY <1>3, WakersCases, SendersWaker DEF wakers, CallSenders, CallReceivers
  <2>3. CASE UNCHANGED senderWaker
    <3>1. SP!Kept(q)
      BY <1>0, <1>1, <2>3 DEF senderWaker
    <3>. QED
      BY <2>3, <3>1 DEF senderWaker, SP!Kept, SP!Registered, SP!Holding, SP!Notifying
  <2>4. ASSUME NEW op \in SP!Calls, SP!Call(p, op)
        PROVE  SP!Kept(q)'
    <3>1. sPc[q] # "register"
      BY <1>0, <2>1, <2>4 DEF SP!Call, SP!Goto
    <3>2. SP!Kept(q)
      BY <1>0, <1>1, <3>1
    <3>. QED
      BY <1>0, <2>4, <3>2, SP!CallKeeps
  <2>. QED
    BY <2>2, <2>3, <2>4
<1>. QED
  BY <1>2, <1>3

LEMMA TasksInvInit == Init => TasksInv
<1> SUFFICES ASSUME Init
             PROVE  TasksInv
  OBVIOUS
<1>1. \A p \in Threads : notified[p] /\ sPc[p] = "idle" /\ rPc[p] = "idle"
  BY DEF Init, S!WakerInit, R!WakerInit
<1>2. RegistersFromPoll /\ FullIsKept
  BY <1>1, Sides DEF RegistersFromPoll, FullIsKept
<1>. QED
  BY <1>2, TypesInit DEF TasksInv

LEMMA TasksInvNext == TasksInv /\ [AnyNext]_vars => TasksInv'
<1> SUFFICES ASSUME TasksInv, [AnyNext]_vars
             PROVE  TasksInv'
  OBVIOUS
<1>1. ASSUME NEW p \in Threads, Acts(p)
      PROVE  TasksInv'
  BY <1>1, TypesNext, RegistersNext, FullNext DEF TasksInv
<1>2. CASE UNCHANGED vars
  <2>1. UNCHANGED <<pc, rPc, sPc, notified, senderWaker>>
    BY <1>2 DEF vars, senderWaker
  <2>2. RegistersFromPoll'
    BY <2>1 DEF TasksInv, RegistersFromPoll
  <2>3. FullIsKept'
    BY <2>1 DEF TasksInv, FullIsKept, senderWaker, SP!Kept, SP!Registered, SP!Holding, SP!Notifying
  <2>. QED
    BY <1>2, <2>2, <2>3, TypesStutter DEF TasksInv
<1>3. AnyNext => \E p \in Threads : Acts(p)
  BY DEF AnyNext, Next, ListNext, Acts
<1>. QED
  BY <1>1, <1>2, <1>3

LEMMA TasksInvAlways ==
  /\ Spec => []TasksInv
  /\ ListSpec => []TasksInv
<1>1. TasksInv /\ [Next]_vars => TasksInv'
  BY TasksInvNext DEF AnyNext
<1>2. TasksInv /\ [ListNext]_vars => TasksInv'
  BY TasksInvNext DEF AnyNext
<1>3. Spec => []TasksInv
  BY <1>1, TasksInvInit, PTL DEF Spec
<1>4. ListSpec => []TasksInv
  BY <1>2, TasksInvInit, PTL DEF ListSpec
<1>. QED
  BY <1>3, <1>4

\* The shape of the state, of both wakers and of the handle counts, for tasks on
\* either channel.
THEOREM TasksTyped ==
  /\ Spec => []TypeOK
  /\ ListSpec => []TypeOK
<1>1. TasksInv => TypeOK
  BY TypesOK DEF TasksInv
<1>. QED
  BY <1>1, TasksInvAlways, PTL

\* A sender that parked on a full channel stays known to the senders' waker until
\* it is notified, whatever the other senders' registrations, the wakes and the
\* shutdown do, and however small the waker's queue is.
THEOREM ParkedSenderKeptAlways ==
  /\ Spec => []ParkedSenderKept
  /\ ListSpec => []ParkedSenderKept
<1>1. TasksInv => ParkedSenderKept
  <2> SUFFICES ASSUME TasksInv, NEW p \in Senders, Parked(p)
               PROVE  S!Registered(p) \/ \E q \in Threads : S!Holding(q) /\ sHeld[q] = p
    BY DEF ParkedSenderKept
  <2>1. pc[p] = "idle" /\ ~notified[p]
    BY DEF Parked
  <2>2. sPc[p] # "register"
    BY <2>1, Sides DEF TasksInv, RegistersFromPoll
  <2>3. SP!Kept(p)
    BY <2>1, <2>2 DEF TasksInv, FullIsKept
  <2>. QED
    BY <2>3 DEF SP!Kept, SP!Registered, SP!Holding, SP!Notifying, S!Registered, S!Holding, S!Notifying
<1>. QED
  BY <1>1, TasksInvAlways, PTL

------------------------------------------------------------------------------
(***************************************************************************)
(* A single receiver: the one registration.                                *)
(***************************************************************************)
\* What does not touch the receivers' waker leaves it all it is said to be.
LEMMA WakerLeft ==
  ASSUME NEW r, UNCHANGED receiverWaker
  PROVE  /\ RP!Sole(r) => RP!Sole(r)'
         /\ RP!NoneOut => RP!NoneOut'
         /\ RP!OneOut => RP!OneOut'
         /\ RP!Registered(r) => RP!Registered(r)'
         /\ RP!Coming(r) => RP!Coming(r)'
         /\ RP!Counted(r) /\ (notified[r] => notified'[r]) => RP!Counted(r)'
<1>1. UNCHANGED <<rQueue, rWaiting, rFromMe, rPc, rHeld>>
  BY DEF receiverWaker
<1>2. RP!Sole(r) => RP!Sole(r)'
  BY <1>1 DEF RP!Sole
<1>3. (RP!NoneOut => RP!NoneOut') /\ (RP!OneOut => RP!OneOut')
  BY <1>1 DEF RP!NoneOut, RP!OneOut, RP!InHand
<1>4. RP!Registered(r) => RP!Registered(r)'
  BY <1>1 DEF RP!Registered
<1>5. RP!Coming(r) => RP!Coming(r)'
  BY <1>1 DEF RP!Coming, RP!Registered, RP!Held, RP!Notifying
<1>6. RP!Counted(r) /\ (notified[r] => notified'[r]) => RP!Counted(r)'
  BY <1>1 DEF RP!Counted
<1>. QED
  BY <1>2, <1>3, <1>4, <1>5, <1>6

\* Only three moves touch the registration other than through a wake.
LEMMA PlainMoves ==
  ASSUME TaskTypes, NEW p \in Threads, Acts(p), ~WakerStep(p),
         ~ClearFirst(p), ~RegisterAgain(p), ~CallRegister(p)
  PROVE  /\ first' = first
         /\ UNCHANGED receiverWaker \/ \E op \in {"wake", "wake_all"} : CallReceivers(p, op)
         /\ \A q \in Receivers :
              /\ pc'[q] = "consumed" <=> pc[q] = "consumed"
              /\ pc'[q] = "first" => first \/ pc[q] = "first"
              /\ pc'[q] = "registered" => pc[q] = "registered"
              /\ pc'[q] = "look_again" => pc[q] \in {"registered", "look_again"}
<1>1. /\ pc \in [Threads -> PcLabels] /\ Receivers \subseteq Threads
      /\ p \in Senders => p \notin Receivers
  BY Sides DEF TaskTypes
<1>2. CASE p \in Senders /\ (SinkPoll(p) \/ SinkStep(p) \/ ListSinkStep(p))
  BY <1>1, <1>2 DEF SinkPoll, SinkStep, ListSinkStep, SinkReady, SinkNext, SinkFull, SinkNotReady,
       SinkClosed, ListReady, Move, CallSenders, wakers
<1>3. CASE p \in Receivers /\ (StreamPoll(p) \/ StreamStep(p) \/ ListStreamStep(p))
  BY <1>1, <1>3 DEF StreamPoll, StreamStep, ListStreamStep, StreamReady, ListTake, StreamNext, StreamEnd,
       StreamEmpty, SeeFirst, StreamNotReady, LookAgain, StillEmpty, Move, CallSenders, wakers
<1>4. CASE DropStep(p) \/ ListDropStep(p) \/ Cancel(p)
  BY <1>1, <1>4 DEF DropStep, ListDropStep, Cancel, Release, ShutdownMark, ListShutdown, ShutdownSenders,
       ShutdownReceivers, Move, CallSenders, wakers
<1>. QED
  BY <1>2, <1>3, <1>4 DEF Acts, Poll, Run, ListRun

LEMMA SharedInit ==
  ASSUME NEW r, Receivers = {r}, Init
  PROVE  Shared(r)
<1>1. /\ rQueue = << >> /\ rFromMe = 0 /\ first = TRUE
      /\ \A p \in Threads : rPc[p] = "idle" /\ rHeld[p] = NoTask
      /\ \A p \in Threads : pc[p] = "idle"
  BY DEF Init, R!WakerInit
<1>2. RP!NoneOut /\ RP!Sole(r)
  BY <1>1 DEF RP!NoneOut, RP!Sole, RP!InHand
<1>3. pc[r] = "idle"
  BY <1>1 DEF Threads
<1>. QED
  BY <1>1, <1>2, <1>3 DEF Shared

LEMMA SharedNext ==
  ASSUME NEW r, Receivers = {r}, CountRange > 1, TasksInv, Shared(r),
         NEW p \in Threads, Acts(p)
  PROVE  Shared(r)'
<1>0. /\ pc \in [Threads -> PcLabels] /\ RP!WakerOK /\ r \in Threads /\ TaskTypes
      /\ p \in Senders => pc[p] \notin {"first", "empty", "consumed"}
      /\ p \in Senders \/ p = r
  BY Sides DEF TasksInv, TaskTypes, DropLabels, Threads
<1>1. /\ RP!Sole(r) /\ (first => pc[r] \notin {"consumed", "registered", "look_again"})
      /\ pc[r] = "first" => first
      /\ first \/ pc[r] = "consumed" => RP!NoneOut
      /\ ~(first \/ pc[r] = "consumed") => RP!OneOut
  BY DEF Shared
<1>2. CASE WakerStep(p)
  <2>1. UNCHANGED <<pc, first>>
    BY <1>2 DEF WakerStep
  <2>2. RP!Sole(r)' /\ (RP!NoneOut => RP!NoneOut') /\ (RP!OneOut => RP!OneOut')
    <3>1. CASE UNCHANGED receiverWaker
      BY <1>1, <3>1, WakerLeft
    <3>2. CASE R!Step(p)
      BY <1>0, <1>1, <3>2, ReceiversWaker, RP!StepSole, RP!StepNoneOut, RP!StepOneOut
    <3>. QED
      BY <1>2, <3>1, <3>2 DEF WakerStep
  <2>. QED
    BY <1>1, <2>1, <2>2 DEF Shared
<1>3. CASE ClearFirst(p) \/ CallRegister(p)
  <2>1. /\ p = r /\ pc'[r] = "registered" /\ first' = FALSE
        /\ first \/ pc[r] = "consumed"
    BY <1>0, <1>1, <1>3 DEF ClearFirst, CallRegister, Move, TasksInv, TaskTypes
  <2>2. RP!Call(r, "register") /\ "register" \in RP!Calls
    BY <1>0, <1>3, <2>1, ReceiversWaker DEF ClearFirst, CallRegister, CallReceivers, R!Calls
  <2>3. RP!OneOut' /\ RP!Sole(r)'
    BY <1>0, <1>1, <2>1, <2>2, RP!CallKeeps
  <2>. QED
    BY <2>1, <2>3 DEF Shared
<1>4. CASE RegisterAgain(p)
  <2>1. /\ p = r /\ pc'[r] = "consumed" /\ ~first /\ ~first' /\ pc[r] = "empty" /\ RP!Consume
    BY <1>0, <1>4, ReceiversWaker DEF RegisterAgain, Move
  <2>2. RP!NoneOut' /\ RP!Sole(r)'
    BY <1>0, <1>1, <2>1, RP!ConsumeKeeps
  <2>. QED
    BY <2>1, <2>2 DEF Shared
<1>5. CASE ~WakerStep(p) /\ ~ClearFirst(p) /\ ~RegisterAgain(p) /\ ~CallRegister(p)
  <2>1. /\ first' = first
        /\ UNCHANGED receiverWaker \/ \E op \in {"wake", "wake_all"} : CallReceivers(p, op)
        /\ pc'[r] = "consumed" <=> pc[r] = "consumed"
        /\ pc'[r] = "first" => first \/ pc[r] = "first"
        /\ pc'[r] = "registered" => pc[r] = "registered"
        /\ pc'[r] = "look_again" => pc[r] \in {"registered", "look_again"}
    BY <1>0, <1>5, PlainMoves
  <2>2. RP!Sole(r)' /\ (RP!NoneOut => RP!NoneOut') /\ (RP!OneOut => RP!OneOut')
    <3>1. CASE UNCHANGED receiverWaker
      BY <1>1, <3>1, WakerLeft
    <3>2. ASSUME NEW op \in {"wake", "wake_all"}, CallReceivers(p, op)
          PROVE  RP!Sole(r)' /\ (RP!NoneOut => RP!NoneOut') /\ (RP!OneOut => RP!OneOut')
      <4>1. RP!Call(p, op) /\ op \in RP!Calls /\ op # "register"
        BY <3>2, ReceiversWaker DEF CallReceivers, R!Calls
      <4>. QED
        BY <1>0, <1>1, <4>1, RP!CallKeeps
    <3>. QED
      BY <2>1, <3>1, <3>2
  <2>. QED
    BY <1>1, <2>1, <2>2 DEF Shared
<1>. QED
  BY <1>2, <1>3, <1>4, <1>5

LEMMA SharedIsOne ==
  ASSUME NEW r, Receivers = {r}, TaskTypes, Shared(r)
  PROVE  OneRegistration
<1> DEFINE Has == {p \in Threads : HasRegistration(p)}
<1>1. /\ r \in Threads /\ \A p \in Threads : pc[p] = "consumed" => p = r
  BY Sides DEF TaskTypes, DropLabels, Threads
<1>2. \A p \in Threads : HasRegistration(p) <=> RP!InHand(p) \/ (p = r /\ pc[r] = "consumed")
  BY <1>1 DEF HasRegistration, RP!InHand
<1>3. /\ Cardinality({}) = 0 /\ \A p : Cardinality({p}) = 1
      /\ Len(<< >>) = 0
  BY FS_EmptySet, FS_Singleton, EmptySeq
<1>4. SUFFICES (IF first THEN 1 ELSE 0) + Len(rQueue) + rFromMe + Cardinality(Has) = 1
  BY DEF OneRegistration
<1>5. CASE first
  <2>1. RP!NoneOut /\ pc[r] # "consumed"
    BY <1>5 DEF Shared
  <2>2. Has = {} /\ Len(rQueue) = 0 /\ rFromMe = 0
    BY <1>2, <1>3, <2>1 DEF RP!NoneOut
  <2>3. Cardinality(Has) = 0
    BY <1>3, <2>2
  <2>. HIDE DEF Has
  <2>. QED
    BY <1>5, <2>2, <2>3
<1>6. CASE ~first /\ pc[r] = "consumed"
  <2>1. RP!NoneOut
    BY <1>6 DEF Shared
  <2>2. Has = {r} /\ Len(rQueue) = 0 /\ rFromMe = 0
    BY <1>1, <1>2, <1>3, <1>6, <2>1 DEF RP!NoneOut
  <2>3. Cardinality(Has) = 1
    BY <1>3, <2>2
  <2>. HIDE DEF Has
  <2>. QED
    BY <1>6, <2>2, <2>3
<1>7. CASE ~first /\ pc[r] # "consumed"
  <2>1. RP!OneOut /\ \A p \in Threads : HasRegistration(p) <=> RP!InHand(p)
    BY <1>2, <1>7 DEF Shared
  <2>2. CASE Len(rQueue) = 1 /\ rFromMe = 0 /\ \A p \in Threads : ~RP!InHand(p)
    <3>1. Has = {}
      BY <2>1, <2>2
    <3>2. Cardinality(Has) = 0
      BY <1>3, <3>1
    <3>. HIDE DEF Has
    <3>. QED
      BY <1>7, <2>2, <3>2
  <2>3. CASE rQueue = << >> /\ rFromMe = 1 /\ \A p \in Threads : ~RP!InHand(p)
    <3>1. Has = {}
      BY <2>1, <2>3
    <3>2. Cardinality(Has) = 0 /\ Len(rQueue) = 0
      BY <1>3, <2>3, <3>1
    <3>. HIDE DEF Has
    <3>. QED
      BY <1>7, <2>3, <3>2
  <2>4. CASE rQueue = << >> /\ rFromMe = 0 /\ \E p \in Threads : \A q \in Threads : RP!InHand(q) <=> q = p
    <3>1. PICK p \in Threads : \A q \in Threads : RP!InHand(q) <=> q = p
      BY <2>4
    <3>2. Has = {p}
      BY <2>1, <3>1
    <3>3. Cardinality(Has) = 1 /\ Len(rQueue) = 0
      BY <1>3, <2>4, <3>2
    <3>. HIDE DEF Has
    <3>. QED
      BY <1>7, <2>4, <3>3
  <2>. QED
    BY <2>1, <2>2, <2>3, <2>4 DEF RP!OneOut
<1>. QED
  BY <1>5, <1>6, <1>7

------------------------------------------------------------------------------
(***************************************************************************)
(* A single receiver is not left behind.                                   *)
(***************************************************************************)
\* What the others do, as the receiver sees it: nothing; send a message; begin
\* the shutdown; take its last step.
LEMMA OthersMoves ==
  ASSUME TaskTypes, NEW r, Receivers = {r}, NEW p \in Threads, p # r, Acts(p), ~WakerStep(p)
  PROVE  /\ first' = first /\ notified'[r] = notified[r] /\ pc'[r] = pc[r]
         /\ \A q \in Threads : q # p => pc'[q] = pc[q]
         /\ \/ /\ UNCHANGED <<queue, closed, receiverWaker>>
               /\ pc[p] \in {"wake_senders", "wake_receivers"} => pc'[p] \in {"wake_senders", "wake_receivers"}
            \/ closed' = closed /\ pc[p] = "start_send" /\ CallReceivers(p, "wake")
            \/ /\ UNCHANGED <<queue, receiverWaker>> /\ pc[p] = "shutdown"
               /\ pc'[p] \in {"wake_senders", "wake_receivers"}
            \/ UNCHANGED <<queue, closed>> /\ CallReceivers(p, "wake_all")
<1>1. /\ pc \in [Threads -> PcLabels] /\ r \in Threads /\ p \notin Receivers /\ closed \in BOOLEAN
      /\ notified \in [Threads -> BOOLEAN]
  BY Sides, SP!WakerFacts DEF TaskTypes
<1>2. CASE SinkPoll(p)
  BY <1>1, <1>2 DEF SinkPoll, Move, CallSend
<1>3. CASE SinkStep(p) \/ ListSinkStep(p)
  BY <1>1, <1>3 DEF SinkStep, ListSinkStep, SinkReady, SinkNext, SinkFull, SinkNotReady, SinkClosed, ListReady,
       Move, CallSend, Accept, Unbounded!Accept, RefuseFull, RefuseClosed, CallSenders, CallReceivers,
       S!Call, R!Call, wakers, ring
<1>4. CASE DropStep(p) \/ ListDropStep(p) \/ Cancel(p)
  BY <1>1, <1>4 DEF DropStep, ListDropStep, Cancel, Release, ShutdownMark, ListShutdown, ShutdownSenders,
       ShutdownReceivers, Move, Close, CallSenders, CallReceivers, S!Call, R!Call, wakers, ring
<1>. QED
  BY <1>1, <1>2, <1>3, <1>4 DEF Acts, Poll, Run, ListRun

\* What the receiver itself does before it looks again or gives up its thread.
LEMMA OwnMoves ==
  ASSUME TaskTypes, NEW r, Receivers = {r}, Acts(r), ~WakerStep(r),
         pc'[r] \in {"idle", "empty", "registered", "look_again"}
  PROVE  \/ StreamEmpty(r) \/ StillEmpty(r) \/ StreamNotReady(r) \/ LookAgain(r)
         \/ ClearFirst(r) \/ CallRegister(r)
<1>1. /\ pc \in [Threads -> PcLabels] /\ r \in Threads /\ r \notin Senders /\ closed \in BOOLEAN
  BY Sides DEF TaskTypes
<1>2. CASE StreamPoll(r) \/ StreamStep(r) \/ ListStreamStep(r)
  BY <1>1, <1>2 DEF StreamPoll, StreamStep, ListStreamStep, StreamReady, ListTake, StreamNext, StreamEnd,
       SeeFirst, RegisterAgain, Move
<1>3. CASE DropStep(r) \/ ListDropStep(r) \/ Cancel(r)
  BY <1>1, <1>3 DEF DropStep, ListDropStep, Cancel, Release, ShutdownMark, ListShutdown, ShutdownSenders,
       ShutdownReceivers, Move
<1>. QED
  BY <1>1, <1>2, <1>3 DEF Acts, Poll, Run, ListRun

LEMMA AwaitedWaker ==
  ASSUME NEW r, Receivers = {r}, CountRange > 1, TasksInv, Shared(r), Awaited(r),
         NEW p \in Threads, WakerStep(p), Acts(p)
  PROVE  Awaited(r)'
<1>0. /\ RP!WakerOK /\ r \in Threads /\ TaskTypes /\ RP!Sole(r)
      /\ UNCHANGED <<queue, closed, pc, first>>
      /\ rPc[r] \in {"register", "wk", "positive_update", "push_back"} => pc[r] = "registered"
  BY Sides DEF TasksInv, TaskTypes, Shared, WakerStep, ring, RegistersFromPoll
<1>1. notified[r] => notified'[r]
  <2>1. ~Poll(p) \/ p # r
    <3>1. sPc[p] # "idle" \/ rPc[p] # "idle"
      BY DEF WakerStep, S!Step, R!Step, S!At, R!At, S!Register, S!WkPop, S!PositiveUpdate, S!PushBack, S!Wake,
           S!Wait, S!WakeAll, S!Count, S!Notify, R!Register, R!WkPop, R!PositiveUpdate, R!PushBack, R!Wake,
           R!Wait, R!WakeAll, R!Count, R!Notify
    <3>. QED
      BY <3>1 DEF Poll, SinkPoll, StreamPoll, Move
  <2>. QED
    BY <1>0, <2>1, NotifiedNext
<1>2. RP!Counted(r) => RP!Counted(r)'
  <2>1. CASE UNCHANGED receiverWaker
    BY <1>1, <2>1, WakerLeft
  <2>2. CASE R!Step(p)
    BY <1>0, <2>2, ReceiversWaker, RP!StepCounted
  <2>. QED
    BY <2>1, <2>2 DEF WakerStep
<1>3. /\ pc[r] \in {"idle", "empty"} /\ RP!Coming(r) => RP!Coming(r)' \/ notified'[r]
      /\ pc[r] \in {"idle", "empty"} /\ RP!Registered(r) => RP!Registered(r)' \/ RP!Coming(r)'
  <2>1. CASE UNCHANGED receiverWaker
    BY <2>1, WakerLeft
  <2>2. CASE R!Step(p)
    BY <1>0, <2>2, ReceiversWaker, RP!StepComing, RP!StepRegistered
  <2>. QED
    BY <2>1, <2>2 DEF WakerStep
<1>4. pc[r] \in {"idle", "empty"} /\ ~first /\ rFromMe > 0 => rFromMe' = rFromMe
  <2> SUFFICES ASSUME pc[r] \in {"idle", "empty"}, ~first, rFromMe > 0
               PROVE  rFromMe' = rFromMe
    OBVIOUS
  <2>1. CASE UNCHANGED receiverWaker
    BY <2>1 DEF receiverWaker
  <2>2. CASE R!Step(p)
    <3>1. RP!OneOut
      BY DEF Shared
    <3>2. ~RP!InHand(p)
      BY <3>1 DEF RP!OneOut
    <3>3. RP!Takes(p) \/ RP!Puts(p) \/ RP!Returns(p) \/ RP!Passes(p) \/ RP!Counts(p) \/ RP!Notifies(p)
      BY <1>0, <2>2, ReceiversWaker, RP!StepCases
    <3>. QED
      BY <3>2, <3>3 DEF RP!InHand, RP!Takes, RP!Puts, RP!Returns, RP!Passes, RP!Counts, RP!Notifies
  <2>. QED
    BY <2>1, <2>2 DEF WakerStep
<1>5. pc[r] \in {"idle", "empty"} /\ Ahead(r) => Ahead(r)' \/ notified'[r]
  BY <1>0, <1>3 DEF Ahead
<1>. QED
  BY <1>0, <1>1, <1>2, <1>4, <1>5 DEF Awaited

LEMMA AwaitedOther ==
  ASSUME NEW r, Receivers = {r}, CountRange > 1, TasksInv, Shared(r), Awaited(r),
         NEW p \in Threads, p # r, Acts(p), ~WakerStep(p)
  PROVE  Awaited(r)'
<1>0. /\ RP!WakerOK /\ r \in Threads /\ TaskTypes /\ RP!Sole(r) /\ pc \in [Threads -> PcLabels]
      /\ rFromMe \in Nat
      /\ rPc[r] \in {"register", "wk", "positive_update", "push_back"} => pc[r] = "registered"
  BY Sides, RP!WakerFacts DEF TasksInv, TaskTypes, Shared, RegistersFromPoll
<1>1. /\ first' = first /\ notified'[r] = notified[r] /\ pc'[r] = pc[r]
      /\ \A q \in Threads : q # p => pc'[q] = pc[q]
  BY <1>0, OthersMoves
<1>2. \A op \in {"wake", "wake_all"} : CallReceivers(p, op) =>
        /\ UNCHANGED rFromMe
        /\ RP!Registered(r) => RP!Coming(r)'
        /\ RP!Coming(r) => RP!Coming(r)'
        /\ RP!Counted(r) => RP!Counted(r)'
  <2> SUFFICES ASSUME NEW op \in {"wake", "wake_all"}, CallReceivers(p, op)
               PROVE  /\ UNCHANGED rFromMe
                      /\ RP!Registered(r) => RP!Coming(r)'
                      /\ RP!Coming(r) => RP!Coming(r)'
                      /\ RP!Counted(r) => RP!Counted(r)'
    OBVIOUS
  <2>1. RP!Call(p, op) /\ op \in RP!Calls
    BY ReceiversWaker DEF CallReceivers, R!Calls
  <2>2. /\ UNCHANGED rFromMe
        /\ RP!Registered(r) => RP!Registered(r)'
        /\ RP!Coming(r) => RP!Coming(r)'
        /\ RP!Counted(r) => RP!Counted(r)'
    BY <1>0, <2>1, RP!CallKeeps
  <2>3. rPc'[p] = op
    BY <1>0, <2>1, RP!CallType
  <2>4. RP!Registered(r)' => RP!Coming(r)'
    BY <2>3 DEF RP!Coming
  <2>. QED
    BY <2>2, <2>4
<1>3. UNCHANGED rFromMe /\ (RP!Counted(r) => RP!Counted(r)')
  <2>1. CASE UNCHANGED receiverWaker
    BY <1>1, <2>1, WakerLeft DEF receiverWaker
  <2>. QED
    BY <1>0, <1>2, <2>1, OthersMoves
<1>4. CASE UNCHANGED <<queue, closed, receiverWaker>>
           /\ (pc[p] \in {"wake_senders", "wake_receivers"} => pc'[p] \in {"wake_senders", "wake_receivers"})
  <2>1. Ahead(r) => Ahead(r)'
    <3>1. (RP!Coming(r) => RP!Coming(r)') /\ (RP!Registered(r) => RP!Registered(r)')
      BY <1>4, WakerLeft
    <3>2. (\E q \in Threads : pc[q] \in {"wake_senders", "wake_receivers"}) =>
            \E q \in Threads : pc'[q] \in {"wake_senders", "wake_receivers"}
      BY <1>1, <1>4
    <3>. QED
      BY <3>1, <3>2 DEF Ahead
  <2>. QED
    BY <1>1, <1>3, <1>4, <2>1 DEF Awaited
<1>5. CASE ~(UNCHANGED <<queue, closed, receiverWaker>>
             /\ (pc[p] \in {"wake_senders", "wake_receivers"} => pc'[p] \in {"wake_senders", "wake_receivers"}))
  <2>1. \/ closed' = closed /\ pc[p] = "start_send" /\ CallReceivers(p, "wake")
        \/ /\ UNCHANGED <<queue, receiverWaker>> /\ pc[p] = "shutdown"
           /\ pc'[p] \in {"wake_senders", "wake_receivers"}
        \/ UNCHANGED <<queue, closed>> /\ CallReceivers(p, "wake_all")
    BY <1>0, <1>5, OthersMoves
  <2>2. RP!Registered(r) \/ RP!Coming(r) => Ahead(r)'
    <3>1. CASE CallReceivers(p, "wake") \/ CallReceivers(p, "wake_all")
      BY <1>2, <3>1 DEF Ahead
    <3>2. CASE UNCHANGED receiverWaker /\ pc'[p] \in {"wake_senders", "wake_receivers"}
      <4>1. (RP!Coming(r) => RP!Coming(r)') /\ (RP!Registered(r) => RP!Registered(r)')
        BY <3>2, WakerLeft
      <4>. QED
        BY <3>2, <4>1 DEF Ahead
    <3>. QED
      BY <2>1, <3>1, <3>2
  <2>3. pc[r] \in {"idle", "empty"} => notified[r] \/ first \/ (pc[r] = "empty" /\ rFromMe > 0) \/ Ahead(r)'
    <3> SUFFICES ASSUME pc[r] \in {"idle", "empty"}, ~first
                 PROVE  notified[r] \/ (pc[r] = "empty" /\ rFromMe > 0) \/ Ahead(r)'
      OBVIOUS
    <3>1. RP!OneOut /\ rPc[r] \notin {"register", "positive_update", "push_back"}
      BY <1>0 DEF Shared
    <3>2. RP!Registered(r) \/ RP!Coming(r) \/ rFromMe > 0
      BY <1>0, <3>1, RP!WhereItIs
    <3>3. CASE pc[r] = "idle" /\ rFromMe > 0
      <4>1. RP!Counted(r)
        BY <3>3 DEF Awaited
      <4>2. notified[r] \/ RP!Coming(r)
        BY <3>3, <4>1 DEF RP!Counted, RP!Coming, RP!Held, RP!Notifying
      <4>. QED
        BY <2>2, <4>2
    <3>. QED
      BY <2>2, <3>2, <3>3
  <2>. QED
    BY <1>1, <1>3, <2>3 DEF Awaited
<1>. QED
  BY <1>4, <1>5

LEMMA AwaitedOwn ==
  ASSUME NEW r, Receivers = {r}, CountRange > 1, TasksInv, Shared(r), Awaited(r),
         Acts(r), ~WakerStep(r)
  PROVE  Awaited(r)'
<1>0. /\ RP!WakerOK /\ r \in Threads /\ TaskTypes /\ RP!Sole(r) /\ pc \in [Threads -> PcLabels]
  BY Sides DEF TasksInv, TaskTypes, Shared
<1>1. CASE pc'[r] \notin {"idle", "empty", "registered", "look_again"}
  BY <1>1 DEF Awaited
<1>2. CASE StreamEmpty(r)
  BY <1>0, <1>2 DEF StreamEmpty, Move, ReportEmpty, Awaited
<1>3. CASE StillEmpty(r) \/ LookAgain(r)
  <2>1. /\ pc[r] \in {"registered", "look_again"} /\ pc'[r] \in {"idle", "look_again"}
        /\ UNCHANGED <<receiverWaker, notified, first>>
        /\ pc'[r] = "idle" => queue' = << >> /\ ~closed'
    BY <1>0, <1>3 DEF StillEmpty, LookAgain, Move, ReportEmpty, wakers
  <2>2. RP!Counted(r) /\ ~first
    BY <2>1 DEF Awaited, Shared
  <2>3. RP!Counted(r)'
    BY <2>1, <2>2, WakerLeft
  <2>. QED
    BY <2>1, <2>2, <2>3 DEF Awaited
<1>4. CASE StreamNotReady(r)
  <2>1. /\ pc[r] = "empty" /\ pc' = [pc EXCEPT ![r] = "idle"] /\ ~first /\ rFromMe = 0
        /\ UNCHANGED <<queue, closed, receiverWaker, notified, first>>
    BY <1>4 DEF StreamNotReady, Move, wakers, ring
  <2>2. RP!Counted(r)'
    BY <2>1 DEF RP!Counted, receiverWaker
  <2>3. Ahead(r) => Ahead(r)'
    <3>1. (RP!Coming(r) => RP!Coming(r)') /\ (RP!Registered(r) => RP!Registered(r)')
      BY <2>1, WakerLeft
    <3>2. (\E q \in Threads : pc[q] \in {"wake_senders", "wake_receivers"}) =>
            \E q \in Threads : pc'[q] \in {"wake_senders", "wake_receivers"}
      BY <1>0, <2>1
    <3>. QED
      BY <3>1, <3>2 DEF Ahead
  <2>4. pc'[r] = "idle" /\ ~first'
    BY <1>0, <2>1
  <2>5. queue' # << >> \/ closed' => notified'[r] \/ Ahead(r)'
    BY <2>1, <2>3 DEF Awaited
  <2>. QED
    BY <2>2, <2>4, <2>5 DEF Awaited
<1>5. CASE ClearFirst(r) \/ CallRegister(r)
  <2>1. /\ pc'[r] = "registered" /\ UNCHANGED rFromMe
        /\ first \/ pc[r] = "consumed"
    BY <1>0, <1>5 DEF ClearFirst, CallRegister, CallReceivers, R!Call, Move, Shared
  <2>2. rFromMe' = 0
    BY <2>1 DEF Shared, RP!NoneOut
  <2>3. RP!Counted(r)'
    BY <2>2 DEF RP!Counted
  <2>. QED
    BY <2>1, <2>3 DEF Awaited
<1>. QED
  BY <1>0, <1>1, <1>2, <1>3, <1>4, <1>5, OwnMoves

LEMMA SingleInvInit ==
  ASSUME NEW r, Receivers = {r}
  PROVE  Init => SingleInv(r)
<1> SUFFICES ASSUME Init
             PROVE  SingleInv(r)
  OBVIOUS
<1>1. r \in Threads /\ pc[r] = "idle" /\ notified[r] /\ rFromMe = 0
  BY DEF Init, Threads, R!WakerInit
<1>2. RP!Counted(r)
  BY <1>1 DEF RP!Counted
<1>3. Awaited(r)
  BY <1>1, <1>2 DEF Awaited
<1>. QED
  BY <1>3, TasksInvInit, SharedInit DEF SingleInv

LEMMA SingleInvNext ==
  ASSUME NEW r, Receivers = {r}, CountRange > 1
  PROVE  SingleInv(r) /\ [AnyNext]_vars => SingleInv(r)'
<1> SUFFICES ASSUME SingleInv(r), [AnyNext]_vars
             PROVE  SingleInv(r)'
  OBVIOUS
<1>0. TasksInv /\ Shared(r) /\ Awaited(r) /\ TasksInv'
  BY TasksInvNext DEF SingleInv
<1>1. ASSUME NEW p \in Threads, Acts(p)
      PROVE  SingleInv(r)'
  <2>1. Shared(r)'
    BY <1>0, <1>1, SharedNext
  <2>2. CASE WakerStep(p)
    BY <1>0, <1>1, <2>1, <2>2, AwaitedWaker DEF SingleInv
  <2>3. CASE ~WakerStep(p) /\ p # r
    BY <1>0, <1>1, <2>1, <2>3, AwaitedOther DEF SingleInv
  <2>4. CASE ~WakerStep(p) /\ p = r
    BY <1>0, <1>1, <2>1, <2>4, AwaitedOwn DEF SingleInv
  <2>. QED
    BY <2>2, <2>3, <2>4
<1>2. CASE UNCHANGED vars
  <2>1. UNCHANGED <<queue, closed, pc, first, notified, receiverWaker>> /\ UNCHANGED rFromMe
    BY <1>2 DEF vars, receiverWaker
  <2>2. Shared(r)'
    BY <1>0, <2>1, WakerLeft DEF Shared
  <2>3. (RP!Counted(r) => RP!Counted(r)') /\ (Ahead(r) => Ahead(r)')
    BY <2>1, WakerLeft DEF Ahead
  <2>4. Awaited(r)'
    BY <1>0, <2>1, <2>3 DEF Awaited
  <2>. QED
    BY <1>0, <2>2, <2>4 DEF SingleInv
<1>3. AnyNext => \E p \in Threads : Acts(p)
  BY DEF AnyNext, Next, ListNext, Acts
<1>. QED
  BY <1>1, <1>2, <1>3

LEMMA SingleInvAlways ==
  ASSUME NEW CONSTANT r, Receivers = {r}, CountRange > 1
  PROVE  (Spec => []SingleInv(r)) /\ (ListSpec => []SingleInv(r))
<1>1. SingleInv(r) /\ [Next]_vars => SingleInv(r)'
  BY SingleInvNext DEF AnyNext
<1>2. SingleInv(r) /\ [ListNext]_vars => SingleInv(r)'
  BY SingleInvNext DEF AnyNext
<1>3. Init => SingleInv(r)
  BY SingleInvInit
<1>4. Spec => []SingleInv(r)
  BY <1>1, <1>3, PTL DEF Spec
<1>5. ListSpec => []SingleInv(r)
  BY <1>2, <1>3, PTL DEF ListSpec
<1>. QED
  BY <1>4, <1>5

\* With a single receiver, first, the receivers' queue and from_me share out one
\* registration, never lost and never doubled: on either channel, for any number
\* of senders and any interleaving of polls, wakes and drops.  CountRange > 1 is
\* what usize makes sure of.
THEOREM OneRegistrationAlways ==
  ASSUME NEW CONSTANT r, Receivers = {r}, CountRange > 1
  PROVE  (Spec => []OneRegistration) /\ (ListSpec => []OneRegistration)
<1>1. SingleInv(r) => OneRegistration
  BY SharedIsOne DEF SingleInv, TasksInv
<1>. QED
  BY <1>1, SingleInvAlways, PTL

\* A single receiver is never left parked with a message in the channel, or with
\* the channel shut down, unless somebody is about to notify it.
THEOREM NoStrandedReceiverAlways ==
  ASSUME NEW CONSTANT r, Receivers = {r}, CountRange > 1
  PROVE  (Spec => []NoStrandedReceiver) /\ (ListSpec => []NoStrandedReceiver)
<1>1. SingleInv(r) => NoStrandedReceiver
  <2> SUFFICES ASSUME SingleInv(r), Parked(r), queue # << >> \/ closed
               PROVE  AboutToNotify(r)
    BY DEF NoStrandedReceiver
  <2>1. pc[r] = "idle" /\ ~notified[r] /\ Awaited(r)
    BY DEF Parked, SingleInv
  <2>2. ~first
    BY <2>1 DEF Awaited
  <2>3. Ahead(r)
    BY <2>1, <2>2 DEF Awaited
  <2>. QED
    BY <2>3 DEF Ahead, RP!Coming, RP!Held, RP!Notifying, RP!Registered, AboutToNotify, R!Notifying, R!Registered
<1>. QED
  BY <1>1, SingleInvAlways, PTL

==============================================================================
