-------------------------- MODULE ZeroTasksProofs --------------------------
(***************************************************************************)
(* Proofs about tasks on the channel without capacity: any number of tasks *)
(* and of workers, any capacity of the wakers' queues.                     *)
(***************************************************************************)
EXTENDS ZeroTasks, ZeroChannelProofs, FiniteSetTheorems

SP == INSTANCE AtomicSerialWakerProofs WITH
        Procs <- Threads, QueueCap <- WakerCap,
        queue <- sQueue, waiting <- sWaiting, fromMe <- sFromMe, wpc <- sPc, held <- sHeld
RP == INSTANCE AtomicSerialWakerProofs WITH
        Procs <- Threads, QueueCap <- WakerCap,
        queue <- rQueue, waiting <- rWaiting, fromMe <- rFromMe, wpc <- rPc, held <- rHeld
------------------------------------------------------------------------------
(***************************************************************************)
(* The invariant.                                                          *)
(***************************************************************************)
SinkLabels   == {"idle", "try", "full", "block", "drop", "last", "gone"}
StreamLabels == {"idle", "try", "empty", "first", "consumed", "registered", "block",
                 "drop", "last", "gone"}

Live(P) == {p \in P : task[p] \notin {"last", "gone"}}

\* TasksTypeOK, with the labels of each side; the handle counts are those of the
\* handles not yet released, and nobody calls wake_all.
TaskTypes ==
  /\ pool \in Pools /\ first \in BOOLEAN
  /\ task \in [Threads -> SinkLabels \union StreamLabels]
  /\ \A p \in Senders : task[p] \in SinkLabels
  /\ \A p \in Receivers : task[p] \in StreamLabels
  /\ handles \in [Sides -> Nat]
  /\ handles["senders"] = Cardinality(Live(Senders))
  /\ handles["receivers"] = Cardinality(Live(Receivers))
  /\ SP!WakerOK
  /\ RP!WakerOK
  /\ \A p \in Threads : rPc[p] \notin {"wake_all", "count_all", "notify_all"}

\* A thread is in register of the receivers' waker only while its poll stands at
\* the call.
RegistersFromPoll ==
  \A p \in Threads :
    rPc[p] \in {"register", "wk", "positive_update", "push_back"} => task[p] = "registered"

\* With a single receiver r: the one registration is with r, or with the waker.
Shared(r) ==
  /\ RP!Sole(r)
  /\ first => task[r] # "consumed"
  /\ task[r] = "first" => first
  /\ IF first \/ task[r] = "consumed" THEN RP!NoneOut ELSE RP!OneOut

\* r found nobody to meet, and has not registered since.
Looked(r) ==
  task[r] \in {"idle", "empty"} \/ (task[r] = "try" /\ result[r].kind = "nobody")

\* Until the first registration r is still due; what was counted before it parked
\* is followed by a notification; and while a sender waits, r is due, or knows
\* that it has to register, or somebody is about to notify it.
Awaited(r) ==
  /\ task[r] = "idle" /\ first => notified[r]
  /\ task[r] = "idle" => RP!Counted(r)
  /\ Looked(r) /\ entries["senders"] # << >> =>
       notified[r] \/ first \/ (task[r] # "idle" /\ rFromMe > 0) \/ RP!Coming(r)

TasksInv == ZeroInv /\ TaskTypes /\ RegistersFromPoll
SingleInv(r) == TasksInv /\ Shared(r) /\ Awaited(r)
------------------------------------------------------------------------------
(***************************************************************************)
(* The two wakers of the channel are wakers, to which the lemmas apply.    *)
(***************************************************************************)
LEMMA SendersWaker ==
  /\ SP!WakerAssumption
  /\ S!WakerInit => SP!WakerInit
  /\ SP!WakerTypeOK => S!WakerTypeOK
  /\ \A p \in Threads : S!Step(p) => SP!Step(p)
  /\ \A p \in Threads : \A o \in S!Calls : S!Call(p, o) => SP!Call(p, o) /\ o \in SP!Calls
<1>1. SP!WakerAssumption
  BY TasksAssumption DEF SP!WakerAssumption, R!WakerAssumption
<1>2. S!WakerInit => SP!WakerInit
  BY DEF S!WakerInit, SP!WakerInit
<1>3. SP!WakerTypeOK => S!WakerTypeOK
  BY DEF S!WakerTypeOK, SP!WakerTypeOK, S!Labels, SP!Labels, S!Calls, SP!Calls,
         S!Holding, SP!Holding, S!Notifying, SP!Notifying
<1>4. ASSUME NEW p \in Threads, S!Step(p) PROVE SP!Step(p)
  BY <1>4 DEF S!Step, S!Register, S!WkPop, S!PositiveUpdate, S!PushBack, S!Wake, S!Wait, S!WakeAll,
       S!Count, S!Notify, S!Push, S!Pop, S!At, S!Goto, S!Hold,
       SP!Step, SP!Register, SP!WkPop, SP!PositiveUpdate, SP!PushBack, SP!Wake, SP!Wait, SP!WakeAll,
       SP!Count, SP!Notify, SP!Push, SP!Pop, SP!At, SP!Goto, SP!Hold
<1>5. \A p \in Threads : \A o \in S!Calls : S!Call(p, o) => SP!Call(p, o) /\ o \in SP!Calls
  BY DEF S!Call, SP!Call, S!At, SP!At, S!Goto, SP!Goto, S!Calls, SP!Calls
<1>. QED
  BY <1>1, <1>2, <1>3, <1>4, <1>5

LEMMA ReceiversWaker ==
  /\ RP!WakerAssumption
  /\ R!WakerInit => RP!WakerInit
  /\ RP!WakerTypeOK => R!WakerTypeOK
  /\ \A p \in Threads : R!Step(p) => RP!Step(p)
  /\ \A p \in Threads : \A o \in R!Calls : R!Call(p, o) => RP!Call(p, o) /\ o \in RP!Calls
  /\ R!Consume => RP!Consume
<1>1. RP!WakerAssumption
  BY TasksAssumption DEF RP!WakerAssumption, R!WakerAssumption
<1>2. R!WakerInit => RP!WakerInit
  BY DEF R!WakerInit, RP!WakerInit
<1>3. RP!WakerTypeOK => R!WakerTypeOK
  BY DEF R!WakerTypeOK, RP!WakerTypeOK, R!Labels, RP!Labels, R!Calls, RP!Calls,
         R!Holding, RP!Holding, R!Notifying, RP!Notifying
<1>4. ASSUME NEW p \in Threads, R!Step(p) PROVE RP!Step(p)
  BY <1>4 DEF R!Step, R!Register, R!WkPop, R!PositiveUpdate, R!PushBack, R!Wake, R!Wait, R!WakeAll,
       R!Count, R!Notify, R!Push, R!Pop, R!At, R!Goto, R!Hold,
       RP!Step, RP!Register, RP!WkPop, RP!PositiveUpdate, RP!PushBack, RP!Wake, RP!Wait, RP!WakeAll,
       RP!Count, RP!Notify, RP!Push, RP!Pop, RP!At, RP!Goto, RP!Hold
<1>5. \A p \in Threads : \A o \in R!Calls : R!Call(p, o) => RP!Call(p, o) /\ o \in RP!Calls
  BY DEF R!Call, RP!Call, R!At, RP!At, R!Goto, RP!Goto, R!Calls, RP!Calls
<1>6. R!Consume => RP!Consume
  BY DEF R!Consume, RP!Consume
<1>. QED
  BY <1>1, <1>2, <1>3, <1>4, <1>5, <1>6

------------------------------------------------------------------------------
(***************************************************************************)
(* What the steps of a task do to the channel, and to the wakers.          *)
(***************************************************************************)
Acts(p) == Poll(p) \/ Run(p) \/ Cancel(p)

LEMMA ChannelKept ==
  ASSUME ZeroInv, NEW p \in Threads, Acts(p)
  PROVE  ZeroInv'
<1>0. p \in Everyone /\ item[p] \in Nat /\ item[p] + 1 \in Nat
  BY SideFacts, ZeroTypes DEF ZeroInv
<1>1. CASE UNCHANGED vars
  BY <1>1, ZeroStutter
<1>2. CASE \E k \in {"try", "block", "shut"} : Begin(p, k, item[p]) \/ Begin(p, k, item[p] + 1)
  BY <1>0, <1>2, BeginStep
<1>3. CASE Continue(p)
  BY <1>0, <1>3, ContinueStep
<1>4. \/ UNCHANGED vars
      \/ \E k \in {"try", "block", "shut"} : Begin(p, k, item[p]) \/ Begin(p, k, item[p] + 1)
      \/ Continue(p)
  BY DEF Acts, Poll, Run, Cancel, SinkPoll, SinkFull, SinkBlock, SinkReady, SinkClosed, StreamPoll, StreamReady,
       StreamEnd, StreamEmpty, SeeFirst, ClearFirst, RegisterAgain, CallRegister, StreamBlock, StreamNotReady,
       Release, Shutdown, ChannelStep, WakerStep
<1>. QED
  BY <1>1, <1>2, <1>3, <1>4

LEMMA WakersCases ==
  ASSUME NEW p \in Threads, Acts(p)
  PROVE  \/ UNCHANGED wakers
         \/ \E o \in {"register", "wake"} : CallSenders(p, o)
         \/ \E o \in {"register", "wake"} : CallReceivers(p, o)
         \/ WakerStep(p)
         \/ UNCHANGED <<senderWaker, receiverWaker>> /\ notified' = [notified EXCEPT ![p] = FALSE]
         \/ R!Consume /\ UNCHANGED senderWaker
<1>1. CASE Poll(p)
  BY <1>1 DEF Poll, SinkPoll, StreamPoll
<1>2. CASE SinkFull(p) \/ SinkBlock(p) \/ SinkReady(p) \/ SinkClosed(p)
  BY <1>2 DEF SinkFull, SinkBlock, SinkReady, SinkClosed
<1>3. CASE \/ StreamReady(p) \/ StreamEnd(p) \/ StreamEmpty(p) \/ SeeFirst(p) \/ ClearFirst(p)
           \/ RegisterAgain(p) \/ CallRegister(p) \/ StreamBlock(p) \/ StreamNotReady(p)
  BY <1>3 DEF StreamReady, StreamEnd, StreamEmpty, SeeFirst, ClearFirst, RegisterAgain, CallRegister,
       StreamBlock, StreamNotReady
<1>4. CASE Release(p) \/ Shutdown(p) \/ Cancel(p) \/ ChannelStep(p)
  BY <1>4 DEF Release, Shutdown, Cancel, ChannelStep
<1>. QED
  BY <1>1, <1>2, <1>3, <1>4 DEF Acts, Run

LEMMA WakersOKKept ==
  ASSUME notified' \in [Threads -> BOOLEAN]
  PROVE  /\ SP!WakerOK /\ UNCHANGED senderWaker => SP!WakerOK'
         /\ RP!WakerOK /\ UNCHANGED receiverWaker => RP!WakerOK'
<1>1. SP!WakerOK /\ UNCHANGED senderWaker => SP!WakerOK'
  BY DEF senderWaker, SP!WakerOK, SP!WakerTypeOK, SP!Holding, SP!Notifying
<1>2. RP!WakerOK /\ UNCHANGED receiverWaker => RP!WakerOK'
  BY DEF receiverWaker, RP!WakerOK, RP!WakerTypeOK, RP!Holding, RP!Notifying
<1>. QED
  BY <1>1, <1>2

\* No step calls wake_all.
LEMMA WakersTyped ==
  ASSUME SP!WakerOK, RP!WakerOK, \A q \in Threads : rPc[q] \notin {"wake_all", "count_all", "notify_all"},
         NEW p \in Threads, Acts(p)
  PROVE  /\ SP!WakerOK' /\ RP!WakerOK'
         /\ \A q \in Threads : rPc'[q] \notin {"wake_all", "count_all", "notify_all"}
<1> DEFINE NoAll == \A q \in Threads : rPc[q] \notin {"wake_all", "count_all", "notify_all"}
<1>0. notified \in [Threads -> BOOLEAN] /\ rPc \in [Threads -> RP!Labels] /\ NoAll
  BY SP!WakerFacts, RP!WakerFacts
<1>. SUFFICES SP!WakerOK' /\ RP!WakerOK' /\ NoAll'
  OBVIOUS
<1>a. UNCHANGED receiverWaker => NoAll'
  BY <1>0 DEF receiverWaker
<1>. HIDE DEF NoAll
<1>1. CASE UNCHANGED wakers
  <2>1. UNCHANGED senderWaker /\ UNCHANGED receiverWaker /\ notified' \in [Threads -> BOOLEAN]
    BY <1>0, <1>1 DEF wakers
  <2>. QED
    BY <1>a, <2>1, WakersOKKept
<1>2. ASSUME NEW o \in {"register", "wake"}, CallSenders(p, o)
      PROVE  SP!WakerOK' /\ RP!WakerOK' /\ NoAll'
  <2>1. SP!Call(p, o) /\ o \in SP!Calls /\ UNCHANGED receiverWaker
    BY <1>2, SendersWaker DEF CallSenders, S!Calls
  <2>2. SP!WakerOK' /\ UNCHANGED notified
    BY <2>1, SP!CallType, SP!CallKeeps
  <2>. QED
    BY <1>0, <1>a, <2>1, <2>2, WakersOKKept
<1>3. ASSUME NEW o \in {"register", "wake"}, CallReceivers(p, o)
      PROVE  SP!WakerOK' /\ RP!WakerOK' /\ NoAll'
  <2>1. RP!Call(p, o) /\ o \in RP!Calls /\ UNCHANGED senderWaker
    BY <1>3, ReceiversWaker DEF CallReceivers, R!Calls
  <2>2. RP!WakerOK' /\ UNCHANGED notified
    BY <2>1, RP!CallType, RP!CallKeeps
  <2>3. rPc'[p] = o /\ \A q \in Threads : q # p => rPc'[q] = rPc[q]
    BY <2>1, RP!CallType
  <2>4. NoAll'
    BY <1>0, <2>3 DEF NoAll
  <2>. QED
    BY <1>0, <2>1, <2>2, <2>4, WakersOKKept
<1>4. CASE WakerStep(p)
  <2>1. CASE S!Step(p) /\ UNCHANGED receiverWaker
    <3>1. SP!WakerOK'
      BY <2>1, SendersWaker, SP!StepType
    <3>2. notified' \in [Threads -> BOOLEAN]
      BY <3>1 DEF SP!WakerOK
    <3>. QED
      BY <1>a, <2>1, <3>1, <3>2, WakersOKKept
  <2>2. CASE R!Step(p) /\ UNCHANGED senderWaker
    <3>1. RP!WakerOK' /\ RP!Step(p)
      BY <2>2, ReceiversWaker, RP!StepType
    <3>2. notified' \in [Threads -> BOOLEAN]
      BY <3>1 DEF RP!WakerOK
    <3>3. RP!Takes(p) \/ RP!Puts(p) \/ RP!Returns(p) \/ RP!Passes(p) \/ RP!Counts(p) \/ RP!Notifies(p)
      BY <3>1, RP!StepCases
    <3>4. NoAll'
      BY <1>0, <3>3 DEF NoAll, RP!Takes, RP!Puts, RP!Returns, RP!Passes, RP!Counts, RP!Notifies
    <3>. QED
      BY <2>2, <3>1, <3>2, <3>4, WakersOKKept
  <2>. QED
    BY <1>4, <2>1, <2>2 DEF WakerStep
<1>5. CASE UNCHANGED <<senderWaker, receiverWaker>> /\ notified' = [notified EXCEPT ![p] = FALSE]
  BY <1>0, <1>a, <1>5, WakersOKKept
<1>6. CASE R!Consume /\ UNCHANGED senderWaker
  <2>1. RP!WakerOK' /\ UNCHANGED <<notified, rPc>>
    BY <1>6, ReceiversWaker, RP!ConsumeType DEF RP!Consume
  <2>. QED
    BY <1>0, <1>6, <2>1, WakersOKKept DEF NoAll
<1>. QED
  BY <1>1, <1>2, <1>3, <1>4, <1>5, <1>6, WakersCases

------------------------------------------------------------------------------
(***************************************************************************)
(* Types.                                                                  *)
(***************************************************************************)
\* Task p moves to label k of its side.
Turn(p, k) ==
  /\ task' = [task EXCEPT ![p] = k] /\ first' \in BOOLEAN
  /\ p \in Senders => k \in SinkLabels
  /\ p \in Receivers => k \in StreamLabels
  /\ \/ /\ UNCHANGED handles
        /\ task[p] \in {"last", "gone"} <=> k \in {"last", "gone"}
     \/ /\ handles' = [handles EXCEPT ![Side(p)] = @ - 1]
        /\ task[p] \notin {"last", "gone"} /\ k \in {"last", "gone"}

LEMMA TurnTypes ==
  ASSUME TaskTypes, NEW p \in Threads, NEW k, Turn(p, k), UNCHANGED pool, SP!WakerOK', RP!WakerOK',
         \A q \in Threads : rPc'[q] \notin {"wake_all", "count_all", "notify_all"}
  PROVE  TaskTypes'
<1>0. /\ task' = [task EXCEPT ![p] = k] /\ first' \in BOOLEAN
      /\ p \in Senders => k \in SinkLabels
      /\ p \in Receivers => k \in StreamLabels
  BY DEF Turn
<1>1. /\ task \in [Threads -> SinkLabels \union StreamLabels]
      /\ task'[p] = k /\ \A q \in Threads : q # p => task'[q] = task[q]
  BY <1>0 DEF TaskTypes
<1>2. task' \in [Threads -> SinkLabels \union StreamLabels]
  BY <1>0, <1>1 DEF Threads
<1>3. (\A q \in Senders : task'[q] \in SinkLabels) /\ (\A q \in Receivers : task'[q] \in StreamLabels)
  BY <1>0, <1>1 DEF TaskTypes, Threads
<1>4. /\ handles \in [Sides -> Nat] /\ handles["senders"] = Cardinality(Live(Senders))
      /\ handles["receivers"] = Cardinality(Live(Receivers))
      /\ "senders" \in Sides /\ "receivers" \in Sides
  BY DEF TaskTypes, Sides
<1>5. /\ handles' \in [Sides -> Nat] /\ handles'["senders"] = Cardinality(Live(Senders)')
      /\ handles'["receivers"] = Cardinality(Live(Receivers)')
  <2>1. CASE UNCHANGED handles /\ (task[p] \in {"last", "gone"} <=> k \in {"last", "gone"})
    <3>1. Live(Senders)' = Live(Senders) /\ Live(Receivers)' = Live(Receivers)
      BY <1>1, <2>1, SideFacts DEF Live
    <3>. QED
      BY <1>4, <2>1, <3>1
  <2>2. CASE /\ handles' = [handles EXCEPT ![Side(p)] = @ - 1]
             /\ task[p] \notin {"last", "gone"} /\ k \in {"last", "gone"}
    <3>1. \A P \in {Senders, Receivers} : P \subseteq Threads /\ IsFiniteSet(Live(P))
      BY TasksAssumption, SideFacts, FS_Subset DEF Live
    <3>2. \A P \in {Senders, Receivers} : p \in P =>
            /\ Cardinality(Live(P)') = Cardinality(Live(P)) - 1
            /\ Cardinality(Live(P)') \in Nat
      <4> SUFFICES ASSUME NEW P \in {Senders, Receivers}, p \in P
                   PROVE  Cardinality(Live(P)') = Cardinality(Live(P)) - 1 /\ Cardinality(Live(P)') \in Nat
        OBVIOUS
      <4>1. p \in Live(P) /\ Live(P)' = Live(P) \ {p}
        BY <1>1, <2>2, <3>1 DEF Live
      <4>2. IsFiniteSet(Live(P) \ {p}) /\ Cardinality(Live(P) \ {p}) = Cardinality(Live(P)) - 1
        BY <3>1, <4>1, FS_RemoveElement
      <4>3. Cardinality(Live(P) \ {p}) \in Nat
        BY <4>2, FS_CardinalityType
      <4>. QED
        BY <4>1, <4>2, <4>3
    <3>3. \A P \in {Senders, Receivers} : p \notin P => Live(P)' = Live(P)
      BY <1>1, <3>1 DEF Live
    <3>4. CASE p \in Senders
      <4>1. Side(p) = "senders" /\ p \notin Receivers
        BY <3>4, SideFacts DEF Threads
      <4>2. /\ Cardinality(Live(Senders)') = Cardinality(Live(Senders)) - 1 /\ Cardinality(Live(Senders)') \in Nat
            /\ Live(Receivers)' = Live(Receivers)
        BY <3>2, <3>3, <3>4, <4>1
      <4>3. handles'["senders"] = handles["senders"] - 1 /\ handles'["receivers"] = handles["receivers"]
        BY <1>4, <2>2, <4>1
      <4>4. handles' \in [Sides -> Nat]
        BY <1>4, <2>2, <4>1, <4>2
      <4>. QED
        BY <1>4, <4>2, <4>3, <4>4
    <3>5. CASE p \notin Senders
      <4>1. Side(p) = "receivers" /\ p \in Receivers
        BY <3>5 DEF Side, Threads
      <4>2. /\ Cardinality(Live(Receivers)') = Cardinality(Live(Receivers)) - 1 /\ Cardinality(Live(Receivers)') \in Nat
            /\ Live(Senders)' = Live(Senders)
        BY <3>2, <3>3, <3>5, <4>1
      <4>3. handles'["receivers"] = handles["receivers"] - 1 /\ handles'["senders"] = handles["senders"]
        BY <1>4, <2>2, <4>1
      <4>4. handles' \in [Sides -> Nat]
        BY <1>4, <2>2, <4>1, <4>2
      <4>. QED
        BY <1>4, <4>2, <4>3, <4>4
    <3>. QED
      BY <3>4, <3>5
  <2>. QED
    BY <2>1, <2>2 DEF Turn
<1>. QED
  BY <1>0, <1>2, <1>3, <1>5 DEF TaskTypes

\* Every step outside the channel and the wakers is such a move.
LEMMA Turns ==
  ASSUME TaskTypes, NEW p \in Threads, Acts(p), ~WakerStep(p), ~ChannelStep(p)
  PROVE  \E k : Turn(p, k)
<1>1. first \in BOOLEAN /\ (p \in Senders => p \notin Receivers)
  BY SideFacts DEF TaskTypes, Threads
<1>2. \A k \in {"try", "full", "block", "drop"} : k \in SinkLabels /\ k \notin {"last", "gone"}
  BY DEF SinkLabels
<1>3. \A k \in {"try", "empty", "first", "consumed", "registered", "block", "drop", "idle"} :
        k \in StreamLabels /\ k \notin {"last", "gone"}
  BY DEF StreamLabels
<1>4. CASE p \in Senders /\ (SinkPoll(p) \/ SinkFull(p) \/ SinkBlock(p) \/ SinkReady(p) \/ SinkClosed(p))
  <2>1. /\ UNCHANGED <<first, handles>> /\ task[p] \in {"idle", "try", "full", "block"}
        /\ \E k \in {"try", "full", "block", "drop"} : task' = [task EXCEPT ![p] = k]
    BY <1>4 DEF SinkPoll, SinkFull, SinkBlock, SinkReady, SinkClosed, Move
  <2>. QED
    BY <1>1, <1>2, <1>4, <2>1 DEF Turn
<1>5. CASE /\ p \in Receivers
           /\ StreamPoll(p) \/ StreamReady(p) \/ StreamEnd(p) \/ StreamEmpty(p) \/ StreamBlock(p)
  <2>1. /\ UNCHANGED <<first, handles>> /\ task[p] \in {"idle", "try", "block", "registered"}
        /\ \E k \in {"try", "drop", "empty", "block"} : task' = [task EXCEPT ![p] = k]
    BY <1>5 DEF StreamPoll, StreamReady, StreamEnd, StreamEmpty, StreamBlock, Move
  <2>. QED
    BY <1>1, <1>3, <1>5, <2>1, SideFacts DEF Turn
<1>6. CASE /\ p \in Receivers
           /\ SeeFirst(p) \/ ClearFirst(p) \/ RegisterAgain(p) \/ CallRegister(p) \/ StreamNotReady(p)
  <2>1. /\ first' \in BOOLEAN /\ UNCHANGED handles /\ task[p] \in {"empty", "first", "consumed"}
        /\ \E k \in {"first", "registered", "consumed", "idle"} : task' = [task EXCEPT ![p] = k]
    BY <1>1, <1>6 DEF SeeFirst, ClearFirst, RegisterAgain, CallRegister, StreamNotReady, Move
  <2>. QED
    BY <1>1, <1>3, <1>6, <2>1 DEF Turn
<1>7. CASE Release(p)
  <2>1. \E k \in {"last", "gone"} : task[p] = "drop" /\ task' = [task EXCEPT ![p] = k]
    BY <1>7 DEF Release, Move
  <2>. QED
    BY <1>1, <1>7, <2>1 DEF Release, Turn, SinkLabels, StreamLabels
<1>8. CASE Shutdown(p) \/ Cancel(p)
  <2>1. /\ UNCHANGED <<first, handles>>
        /\ \/ task[p] = "last" /\ task' = [task EXCEPT ![p] = "gone"]
           \/ task[p] = "idle" /\ task' = [task EXCEPT ![p] = "drop"]
    BY <1>8 DEF Shutdown, Cancel, Move
  <2>2. Turn(p, "gone") \/ Turn(p, "drop")
    BY <1>1, <2>1 DEF Turn, SinkLabels, StreamLabels
  <2>. QED
    BY <2>2
<1>. QED
  BY <1>4, <1>5, <1>6, <1>7, <1>8 DEF Acts, Poll, Run

LEMMA TypesNext ==
  ASSUME TaskTypes, NEW p \in Threads, Acts(p), UNCHANGED pool
  PROVE  TaskTypes'
<1>1. /\ SP!WakerOK' /\ RP!WakerOK'
      /\ \A q \in Threads : rPc'[q] \notin {"wake_all", "count_all", "notify_all"}
  BY WakersTyped DEF TaskTypes
<1>2. CASE WakerStep(p) \/ ChannelStep(p)
  <2>1. UNCHANGED <<task, first, handles>>
    BY <1>2 DEF WakerStep, ChannelStep
  <2>. QED
    BY <1>1, <2>1 DEF TaskTypes, Live
<1>3. CASE ~WakerStep(p) /\ ~ChannelStep(p)
  BY <1>1, <1>3, Turns, TurnTypes
<1>. QED
  BY <1>2, <1>3

LEMMA TypesInit == TasksInit => TaskTypes
<1> SUFFICES ASSUME TasksInit
             PROVE  TaskTypes
  OBVIOUS
<1>1. SP!WakerOK /\ RP!WakerOK /\ \A p \in Threads : rPc[p] = "idle"
  <2>1. S!WakerInit /\ R!WakerInit /\ notified \in [Threads -> BOOLEAN]
    BY DEF TasksInit
  <2>2. \A p \in Threads : rPc[p] = "idle"
    BY <2>1 DEF R!WakerInit
  <2>. QED
    BY <2>1, <2>2, SendersWaker, ReceiversWaker, SP!WakerStarts, RP!WakerStarts DEF SP!WakerOK, RP!WakerOK
<1>2. task = [p \in Threads |-> "idle"] /\ \A p \in Threads : task[p] = "idle"
  BY DEF TasksInit
<1>3. Live(Senders) = Senders /\ Live(Receivers) = Receivers
  BY <1>2, SideFacts DEF Live
<1>4. \A P \in {Senders, Receivers} : Cardinality(P) \in Nat
  BY TasksAssumption, SideFacts, FS_Subset, FS_CardinalityType
<1>5. /\ handles \in [Sides -> Nat] /\ handles["senders"] = Cardinality(Live(Senders))
      /\ handles["receivers"] = Cardinality(Live(Receivers))
  BY <1>3, <1>4 DEF TasksInit, Sides
<1>6. pool \in Pools /\ first \in BOOLEAN
  BY DEF TasksInit
<1>. QED
  BY <1>1, <1>2, <1>5, <1>6, SideFacts DEF TaskTypes, SinkLabels, StreamLabels

LEMMA TypesStutter == TaskTypes /\ UNCHANGED allVars => TaskTypes'
<1> SUFFICES ASSUME TaskTypes, UNCHANGED allVars
             PROVE  TaskTypes'
  OBVIOUS
<1>1. UNCHANGED <<pool, first, task, handles>> /\ UNCHANGED <<senderWaker, receiverWaker, notified>>
  BY DEF allVars, taskVars, wakers
<1>2. SP!WakerOK' /\ RP!WakerOK'
  BY <1>1, WakersOKKept, SP!WakerFacts DEF TaskTypes
<1>3. UNCHANGED rPc
  BY <1>1 DEF receiverWaker
<1>. QED
  BY <1>1, <1>2, <1>3 DEF TaskTypes, Live

LEMMA TypesOK == ZeroInv /\ TaskTypes => TasksTypeOK
<1> SUFFICES ASSUME ZeroInv, TaskTypes
             PROVE  TasksTypeOK
  OBVIOUS
<1>1. S!WakerTypeOK /\ R!WakerTypeOK /\ notified \in [Threads -> BOOLEAN]
  BY SendersWaker, ReceiversWaker DEF TaskTypes, SP!WakerOK, RP!WakerOK
<1>2. SinkLabels \union StreamLabels =
        {"idle", "try", "full", "empty", "first", "consumed", "registered", "block", "drop", "last", "gone"}
  BY DEF SinkLabels, StreamLabels
<1>. QED
  BY <1>1, <1>2 DEF ZeroInv, TaskTypes, TasksTypeOK

------------------------------------------------------------------------------
(***************************************************************************)
(* What others see of a step.                                              *)
(***************************************************************************)
\* Nothing becomes an entry of a waiting sender but by its own step, which wakes.
LEMMA ChannelEffect ==
  ASSUME ZeroInv, NEW p \in Threads, ChannelStep(p)
  PROVE  /\ UNCHANGED <<task, first, notified>> /\ rPc[p] = "idle"
         /\ \A q \in Threads : q # p => result'[q] = result[q]
         /\ \/ /\ UNCHANGED receiverWaker
               /\ entries'["senders"] # << >> => entries["senders"] # << >>
            \/ p \in Senders /\ CallReceivers(p, "wake")
<1>0. /\ entries \in [Sides -> Seq(Threads)] /\ pc \in [Everyone -> Labels] /\ p \in Everyone
      /\ result \in [Threads -> [kind : Meeting!ReplyKinds, msg : Message \union {NoMsg}]]
      /\ "senders" \in Sides /\ "receivers" \in Sides
  BY SideFacts, ZeroTypes DEF ZeroInv, Sides
<1>1. UNCHANGED <<task, first, notified>> /\ rPc[p] = "idle" /\ Continue(p)
  BY DEF ChannelStep, wakers, WakersIdle
<1>2. \A q \in Threads : q # p => result'[q] = result[q]
  BY <1>0, <1>1 DEF Continue, Lock, Unlock, Meet, GiveUp, TooLate, Wait, Transfer, Ready, Selected, WaitReady,
       Leave, TakeBack, Shut, Disconnect, Disconnected, Return
<1>3. UNCHANGED receiverWaker \/ (p \in Senders /\ CallReceivers(p, "wake"))
  BY DEF ChannelStep, CallSenders, wakers
<1>4. CASE Wait(p)
  <2>1. pc'[p] = "unlock_waiting" /\ entries' = [entries EXCEPT ![Side(p)] = Append(@, p)]
    BY <1>0, <1>4 DEF Wait, Goto
  <2>2. CASE p \in Senders
    BY <1>1, <1>2, <2>1, <2>2 DEF ChannelStep, Wakes
  <2>3. CASE p \notin Senders
    <3>1. entries'["senders"] = entries["senders"]
      BY <1>0, <2>1, <2>3 DEF Side
    <3>. QED
      BY <1>1, <1>2, <1>3, <2>3, <3>1
  <2>. QED
    BY <2>2, <2>3
<1>5. CASE ~Wait(p)
  <2>1. entries'["senders"] # << >> => entries["senders"] # << >>
    <3>1. CASE UNCHANGED entries
      BY <3>1
    <3>2. CASE \E s \in Sides : \E i \in 1 .. Len(entries[s]) : entries' = [entries EXCEPT ![s] = Without(@, i)]
      <4>1. PICK s \in Sides : \E i \in 1 .. Len(entries[s]) : entries' = [entries EXCEPT ![s] = Without(@, i)]
        BY <3>2
      <4>2. PICK i \in 1 .. Len(entries[s]) : entries' = [entries EXCEPT ![s] = Without(@, i)]
        BY <4>1
      <4>3. CASE s = "senders"
        <5>1. Len(entries["senders"]) # 0
          BY <1>0, <4>2, <4>3
        <5>. QED
          BY <5>1, EmptySeq
      <4>4. CASE s # "senders"
        BY <1>0, <4>2, <4>4
      <4>. QED
        BY <4>3, <4>4
    <3>3. UNCHANGED entries
          \/ \E s \in Sides : \E i \in 1 .. Len(entries[s]) : entries' = [entries EXCEPT ![s] = Without(@, i)]
      BY <1>1, <1>5, SideFacts DEF Continue, Lock, Unlock, Meet, GiveUp, TooLate, Transfer, Ready, Selected,
           WaitReady, Leave, TakeBack, Shut, Disconnect, Disconnected, data
    <3>. QED
      BY <3>1, <3>2, <3>3
  <2>. QED
    BY <1>1, <1>2, <1>3, <2>1
<1>. QED
  BY <1>4, <1>5

\* A receiver that finds nobody does so when no sender waits.
LEMMA NobodyMeans ==
  ASSUME ZeroInv, NEW r \in Receivers, Continue(r), result'[r].kind = "nobody"
  PROVE  result[r].kind = "nobody" \/ entries'["senders"] = << >>
<1>0. /\ entries \in [Sides -> Seq(Threads)] /\ r \in Threads /\ r \notin Senders /\ "senders" \in Sides
      /\ Opposite(r) = "senders"
      /\ result \in [Threads -> [kind : Meeting!ReplyKinds, msg : Message \union {NoMsg}]]
  BY SideFacts, ZeroTypes DEF ZeroInv, Sides, Opposite
<1>1. CASE GiveUp(r)
  <2>1. NoneWaiting("senders") /\ ~disconnected /\ UNCHANGED entries
    BY <1>0, <1>1 DEF GiveUp, Alone, data
  <2>2. ASSUME NEW i \in 1 .. Len(entries["senders"])
        PROVE  FALSE
    <3>1. entries["senders"][i] \in Threads /\ Side(entries["senders"][i]) = "senders"
      BY <1>0 DEF ZeroInv, ListsInv
    <3>2. Pending(entries["senders"][i])
      BY <1>0, <3>1 DEF ZeroInv, EntryInv, Listed, In
    <3>3. select[entries["senders"][i]] \in {"waiting", "operation", "disconnected"}
      BY <3>1, ZeroTypes DEF ZeroInv
    <3>4. select[entries["senders"][i]] = "waiting"
      BY <2>1, <3>1, <3>2, <3>3 DEF ZeroInv, CellInv, Pending
    <3>. QED
      BY <2>1, <3>4 DEF NoneWaiting
  <2>3. entries["senders"] = << >>
    BY <1>0, <2>2, EmptySeq
  <2>. QED
    BY <2>1, <2>3
<1>2. CASE UNCHANGED result
  BY <1>2
<1>3. CASE ~GiveUp(r) /\ result' # result
  <2>1. TooLate(r) \/ Transfer(r) \/ WaitReady(r) \/ TakeBack(r)
    BY <1>3 DEF Continue, Lock, Unlock, Meet, Wait, Ready, Selected, Leave, Shut, Disconnect, Disconnected
  <2>2. result'[r].kind \in {"disconnected", "received"}
    BY <1>0, <2>1 DEF TooLate, Transfer, WaitReady, TakeBack, Return, Refused, Received
  <2>. QED
    BY <2>2
<1>. QED
  BY <1>1, <1>2, <1>3

\* A task makes its moves outside the wakers, and registers where its poll is to.
LEMMA Registers ==
  ASSUME TaskTypes, NEW p \in Threads, Acts(p), ~WakerStep(p)
  PROVE  /\ rPc[p] = "idle"
         /\ \A q \in Threads : q # p => task'[q] = task[q]
         /\ rPc'[p] = "register" => task'[p] = "registered"
<1>1. /\ task \in [Threads -> SinkLabels \union StreamLabels] /\ rPc \in [Threads -> RP!Labels]
      /\ p \in Senders => p \notin Receivers
  BY SideFacts, RP!WakerFacts DEF TaskTypes, Threads
<1>2. /\ \A o : CallSenders(p, o) => UNCHANGED rPc
      /\ \A o : CallReceivers(p, o) => rPc' = [rPc EXCEPT ![p] = o]
      /\ R!Consume => UNCHANGED rPc
      /\ UNCHANGED receiverWaker => UNCHANGED rPc
      /\ UNCHANGED wakers => UNCHANGED rPc
  BY DEF CallSenders, CallReceivers, R!Call, R!Goto, R!Consume, receiverWaker, wakers
<1>3. CASE Poll(p) \/ SinkFull(p) \/ SinkBlock(p) \/ SinkReady(p) \/ SinkClosed(p)
  BY <1>1, <1>2, <1>3 DEF Poll, SinkPoll, StreamPoll, SinkFull, SinkBlock, SinkReady, SinkClosed, Move, WakersIdle
<1>4. CASE StreamReady(p) \/ StreamEnd(p) \/ StreamEmpty(p) \/ SeeFirst(p) \/ StreamBlock(p) \/ StreamNotReady(p)
           \/ ClearFirst(p) \/ RegisterAgain(p) \/ CallRegister(p)
  BY <1>1, <1>2, <1>4 DEF StreamReady, StreamEnd, StreamEmpty, SeeFirst, ClearFirst, RegisterAgain, CallRegister,
       StreamBlock, StreamNotReady, Move, WakersIdle
<1>5. CASE Release(p) \/ Shutdown(p) \/ Cancel(p)
  BY <1>1, <1>2, <1>5 DEF Release, Shutdown, Cancel, Move, WakersIdle
<1>6. CASE ChannelStep(p)
  BY <1>1, <1>2, <1>6 DEF ChannelStep, WakersIdle
<1>. QED
  BY <1>3, <1>4, <1>5, <1>6 DEF Acts, Run

LEMMA RegistersNext ==
  ASSUME TaskTypes, RegistersFromPoll, NEW p \in Threads, Acts(p)
  PROVE  RegistersFromPoll'
<1>0. RP!WakerOK /\ rPc \in [Threads -> RP!Labels]
  BY RP!WakerFacts DEF TaskTypes
<1>1. CASE WakerStep(p)
  <2>1. UNCHANGED task
    BY <1>1 DEF WakerStep
  <2>2. \A q \in Threads : rPc'[q] \in {"register", "wk", "positive_update", "push_back"} =>
                            rPc[q] \in {"register", "wk", "positive_update", "push_back"}
    <3>1. CASE UNCHANGED receiverWaker
      BY <3>1 DEF receiverWaker
    <3>2. CASE R!Step(p)
      <4>1. RP!Takes(p) \/ RP!Puts(p) \/ RP!Returns(p) \/ RP!Passes(p) \/ RP!Counts(p) \/ RP!Notifies(p)
        BY <1>0, <3>2, ReceiversWaker, RP!StepCases
      <4>. QED
        BY <1>0, <4>1 DEF RP!Takes, RP!Puts, RP!Returns, RP!Passes, RP!Counts, RP!Notifies
    <3>. QED
      BY <1>1, <3>1, <3>2 DEF WakerStep
  <2>. QED
    BY <2>1, <2>2 DEF RegistersFromPoll
<1>2. CASE ~WakerStep(p)
  <2>1. /\ rPc[p] = "idle" /\ \A q \in Threads : q # p => task'[q] = task[q]
        /\ rPc'[p] = "register" => task'[p] = "registered"
    BY <1>2, Registers
  <2>2. UNCHANGED rPc \/ \E o \in {"register", "wake"} : rPc' = [rPc EXCEPT ![p] = o]
    BY <1>2, WakersCases DEF wakers, receiverWaker, CallSenders, CallReceivers, R!Call, R!Goto, R!Consume
  <2>. QED
    BY <1>0, <2>1, <2>2 DEF RegistersFromPoll
<1>. QED
  BY <1>1, <1>2

\* A poll takes p's notification, and nothing else takes one.
LEMMA NotifiedNext ==
  ASSUME TaskTypes, NEW p \in Threads, Acts(p), NEW q \in Threads, notified[q]
  PROVE  notified'[q] \/ (q = p /\ Poll(p))
<1>1. /\ SP!WakerOK /\ RP!WakerOK /\ notified \in [Threads -> BOOLEAN]
  BY SP!WakerFacts DEF TaskTypes
<1>2. CASE WakerStep(p)
  <2>1. CASE S!Step(p)
    <3>1. SP!Takes(p) \/ SP!Puts(p) \/ SP!Returns(p) \/ SP!Passes(p) \/ SP!Counts(p) \/ SP!Notifies(p)
      BY <1>1, <2>1, SendersWaker, SP!StepCases
    <3>. QED
      BY <1>1, <3>1 DEF SP!Takes, SP!Puts, SP!Returns, SP!Passes, SP!Counts, SP!Notifies
  <2>2. CASE R!Step(p)
    <3>1. RP!Takes(p) \/ RP!Puts(p) \/ RP!Returns(p) \/ RP!Passes(p) \/ RP!Counts(p) \/ RP!Notifies(p)
      BY <1>1, <2>2, ReceiversWaker, RP!StepCases
    <3>. QED
      BY <1>1, <3>1 DEF RP!Takes, RP!Puts, RP!Returns, RP!Passes, RP!Counts, RP!Notifies
  <2>. QED
    BY <1>2, <2>1, <2>2 DEF WakerStep
<1>3. CASE Poll(p)
  BY <1>1, <1>3 DEF Poll, SinkPoll, StreamPoll
<1>4. CASE SinkFull(p) \/ SinkBlock(p) \/ SinkReady(p) \/ SinkClosed(p)
  BY <1>4 DEF SinkFull, SinkBlock, SinkReady, SinkClosed, wakers
<1>5. CASE StreamReady(p) \/ StreamEnd(p) \/ StreamEmpty(p) \/ SeeFirst(p) \/ StreamBlock(p) \/ StreamNotReady(p)
           \/ ClearFirst(p) \/ RegisterAgain(p) \/ CallRegister(p)
  BY <1>5 DEF StreamReady, StreamEnd, StreamEmpty, SeeFirst, ClearFirst, RegisterAgain, CallRegister,
       StreamBlock, StreamNotReady, R!Consume, wakers
<1>6. CASE Release(p) \/ Shutdown(p) \/ Cancel(p) \/ ChannelStep(p)
  BY <1>6 DEF Release, Shutdown, Cancel, ChannelStep, wakers
<1>. QED
  BY <1>2, <1>3, <1>4, <1>5, <1>6 DEF Acts, Run

------------------------------------------------------------------------------
(***************************************************************************)
(* A single receiver: the one registration.                                *)
(***************************************************************************)
\* What does not touch the receivers' waker leaves it all it is said to be.
LEMMA WakerLeft ==
  ASSUME NEW r, UNCHANGED receiverWaker
  PROVE  /\ RP!Sole(r) => RP!Sole(r)'
         /\ RP!NoneOut => RP!NoneOut'
         /\ RP!OneOut => RP!OneOut'
         /\ RP!Registered(r) => RP!Registered(r)'
         /\ RP!Coming(r) => RP!Coming(r)'
         /\ RP!Counted(r) /\ (notified[r] => notified'[r]) => RP!Counted(r)'
<1>1. UNCHANGED <<rQueue, rWaiting, rFromMe, rPc, rHeld>>
  BY DEF receiverWaker
<1>2. RP!Sole(r) => RP!Sole(r)'
  BY <1>1 DEF RP!Sole
<1>3. (RP!NoneOut => RP!NoneOut') /\ (RP!OneOut => RP!OneOut')
  BY <1>1 DEF RP!NoneOut, RP!OneOut, RP!InHand
<1>4. RP!Registered(r) => RP!Registered(r)'
  BY <1>1 DEF RP!Registered
<1>5. RP!Coming(r) => RP!Coming(r)'
  BY <1>1 DEF RP!Coming, RP!Registered, RP!Held, RP!Notifying
<1>6. RP!Counted(r) /\ (notified[r] => notified'[r]) => RP!Counted(r)'
  BY <1>1 DEF RP!Counted
<1>. QED
  BY <1>2, <1>3, <1>4, <1>5, <1>6

\* Only three moves touch the registration other than through a wake.
LEMMA PlainMoves ==
  ASSUME ZeroInv, TaskTypes, NEW p \in Threads, Acts(p), ~WakerStep(p),
         ~ClearFirst(p), ~RegisterAgain(p), ~CallRegister(p)
  PROVE  /\ first' = first
         /\ UNCHANGED receiverWaker \/ CallReceivers(p, "wake")
         /\ \A q \in Receivers :
              /\ task'[q] = "consumed" <=> task[q] = "consumed"
              /\ task'[q] = "first" => first \/ task[q] = "first"
<1>1. /\ task \in [Threads -> SinkLabels \union StreamLabels] /\ Receivers \subseteq Threads
      /\ p \in Senders => p \notin Receivers
  BY SideFacts DEF TaskTypes, Threads
<1>2. CASE p \in Senders /\ (SinkPoll(p) \/ SinkFull(p) \/ SinkBlock(p) \/ SinkReady(p) \/ SinkClosed(p))
  BY <1>1, <1>2 DEF SinkPoll, SinkFull, SinkBlock, SinkReady, SinkClosed, Move, CallSenders, wakers
<1>3. CASE /\ p \in Receivers
           /\ \/ StreamPoll(p) \/ StreamReady(p) \/ StreamEnd(p) \/ StreamEmpty(p) \/ SeeFirst(p)
              \/ StreamBlock(p) \/ StreamNotReady(p)
  BY <1>1, <1>3 DEF StreamPoll, StreamReady, StreamEnd, StreamEmpty, SeeFirst, StreamBlock, StreamNotReady,
       Move, wakers
<1>4. CASE Release(p) \/ Shutdown(p) \/ Cancel(p)
  BY <1>1, <1>4 DEF Release, Shutdown, Cancel, Move, wakers
<1>5. CASE ChannelStep(p)
  BY <1>1, <1>5, ChannelEffect
<1>. QED
  BY <1>2, <1>3, <1>4, <1>5 DEF Acts, Poll, Run

LEMMA SharedInit ==
  ASSUME NEW r, Receivers = {r}, TasksInit
  PROVE  Shared(r)
<1>0. r \in Threads
  BY DEF Threads
<1>1. /\ rQueue = << >> /\ rFromMe = 0 /\ first = TRUE
      /\ \A p \in Threads : rPc[p] = "idle" /\ rHeld[p] = NoTask
      /\ task[r] = "idle"
  BY <1>0 DEF TasksInit, R!WakerInit
<1>2. RP!NoneOut /\ RP!Sole(r)
  BY <1>1 DEF RP!NoneOut, RP!Sole, RP!InHand
<1>. QED
  BY <1>1, <1>2 DEF Shared

LEMMA SharedNext ==
  ASSUME NEW r, Receivers = {r}, CountRange > 1, TasksInv, Shared(r),
         NEW p \in Threads, Acts(p)
  PROVE  Shared(r)'
<1>0. /\ task \in [Threads -> SinkLabels \union StreamLabels] /\ RP!WakerOK /\ r \in Threads
      /\ TaskTypes /\ ZeroInv
      /\ p \in Senders => task[p] \notin {"first", "empty", "consumed"}
      /\ p \in Senders \/ p = r
  BY SideFacts DEF TasksInv, TaskTypes, SinkLabels, Threads
<1>1. /\ RP!Sole(r) /\ (first => task[r] # "consumed")
      /\ task[r] = "first" => first
      /\ first \/ task[r] = "consumed" => RP!NoneOut
      /\ ~(first \/ task[r] = "consumed") => RP!OneOut
  BY DEF Shared
<1>2. CASE WakerStep(p)
  <2>1. UNCHANGED <<task, first>>
    BY <1>2 DEF WakerStep
  <2>2. RP!Sole(r)' /\ (RP!NoneOut => RP!NoneOut') /\ (RP!OneOut => RP!OneOut')
    <3>1. CASE UNCHANGED receiverWaker
      BY <1>1, <3>1, WakerLeft
    <3>2. CASE R!Step(p)
      BY <1>0, <1>1, <3>2, ReceiversWaker, RP!StepSole, RP!StepNoneOut, RP!StepOneOut
    <3>. QED
      BY <1>2, <3>1, <3>2 DEF WakerStep
  <2>. QED
    BY <1>1, <2>1, <2>2 DEF Shared
<1>3. CASE ClearFirst(p) \/ CallRegister(p)
  <2>1. /\ p = r /\ task'[r] = "registered" /\ first' = FALSE
        /\ first \/ task[r] = "consumed"
    BY <1>0, <1>1, <1>3 DEF ClearFirst, CallRegister, Move, TasksInv, TaskTypes
  <2>2. RP!Call(r, "register") /\ "register" \in RP!Calls
    BY <1>0, <1>3, <2>1, ReceiversWaker DEF ClearFirst, CallRegister, CallReceivers, R!Calls
  <2>3. RP!OneOut' /\ RP!Sole(r)'
    BY <1>0, <1>1, <2>1, <2>2, RP!CallKeeps
  <2>. QED
    BY <2>1, <2>3 DEF Shared
<1>4. CASE RegisterAgain(p)
  <2>1. /\ p = r /\ task'[r] = "consumed" /\ ~first /\ ~first' /\ task[r] = "empty" /\ RP!Consume
    BY <1>0, <1>4, ReceiversWaker DEF RegisterAgain, Move
  <2>2. RP!NoneOut' /\ RP!Sole(r)'
    BY <1>0, <1>1, <2>1, RP!ConsumeKeeps
  <2>. QED
    BY <2>1, <2>2 DEF Shared
<1>5. CASE ~WakerStep(p) /\ ~ClearFirst(p) /\ ~RegisterAgain(p) /\ ~CallRegister(p)
  <2>1. /\ first' = first
        /\ UNCHANGED receiverWaker \/ CallReceivers(p, "wake")
        /\ task'[r] = "consumed" <=> task[r] = "consumed"
        /\ task'[r] = "first" => first \/ task[r] = "first"
    BY <1>0, <1>5, PlainMoves
  <2>2. RP!Sole(r)' /\ (RP!NoneOut => RP!NoneOut') /\ (RP!OneOut => RP!OneOut')
    <3>1. CASE UNCHANGED receiverWaker
      BY <1>1, <3>1, WakerLeft
    <3>2. CASE CallReceivers(p, "wake")
      <4>1. RP!Call(p, "wake") /\ "wake" \in RP!Calls
        BY <3>2, ReceiversWaker DEF CallReceivers, R!Calls
      <4>. QED
        BY <1>0, <1>1, <4>1, RP!CallKeeps
    <3>. QED
      BY <2>1, <3>1, <3>2
  <2>. QED
    BY <1>1, <2>1, <2>2 DEF Shared
<1>. QED
  BY <1>2, <1>3, <1>4, <1>5

LEMMA SharedIsOne ==
  ASSUME NEW r, Receivers = {r}, TaskTypes, Shared(r)
  PROVE  OneRegistration
<1> DEFINE Has == {p \in Threads : HasRegistration(p)}
<1>1. /\ r \in Threads /\ \A p \in Threads : task[p] = "consumed" => p = r
  BY SideFacts DEF TaskTypes, SinkLabels, Threads
<1>2. \A p \in Threads : HasRegistration(p) <=> RP!InHand(p) \/ (p = r /\ task[r] = "consumed")
  BY <1>1 DEF TaskTypes, HasRegistration, RP!InHand
<1>3. /\ Cardinality({}) = 0 /\ \A p : Cardinality({p}) = 1
      /\ Len(<< >>) = 0
  BY FS_EmptySet, FS_Singleton, EmptySeq
<1>4. SUFFICES (IF first THEN 1 ELSE 0) + Len(rQueue) + rFromMe + Cardinality(Has) = 1
  BY DEF OneRegistration
<1>5. CASE first
  <2>1. RP!NoneOut /\ task[r] # "consumed"
    BY <1>5 DEF Shared
  <2>2. Has = {} /\ Len(rQueue) = 0 /\ rFromMe = 0
    BY <1>2, <1>3, <2>1 DEF RP!NoneOut
  <2>3. Cardinality(Has) = 0
    BY <1>3, <2>2
  <2>. HIDE DEF Has
  <2>. QED
    BY <1>5, <2>2, <2>3
<1>6. CASE ~first /\ task[r] = "consumed"
  <2>1. RP!NoneOut
    BY <1>6 DEF Shared
  <2>2. Has = {r} /\ Len(rQueue) = 0 /\ rFromMe = 0
    BY <1>1, <1>2, <1>3, <1>6, <2>1 DEF RP!NoneOut
  <2>3. Cardinality(Has) = 1
    BY <1>3, <2>2
  <2>. HIDE DEF Has
  <2>. QED
    BY <1>6, <2>2, <2>3
<1>7. CASE ~first /\ task[r] # "consumed"
  <2>1. RP!OneOut /\ \A p \in Threads : HasRegistration(p) <=> RP!InHand(p)
    BY <1>2, <1>7 DEF Shared
  <2>2. CASE Len(rQueue) = 1 /\ rFromMe = 0 /\ \A p \in Threads : ~RP!InHand(p)
    <3>1. Has = {}
      BY <2>1, <2>2
    <3>2. Cardinality(Has) = 0
      BY <1>3, <3>1
    <3>. HIDE DEF Has
    <3>. QED
      BY <1>7, <2>2, <3>2
  <2>3. CASE rQueue = << >> /\ rFromMe = 1 /\ \A p \in Threads : ~RP!InHand(p)
    <3>1. Has = {}
      BY <2>1, <2>3
    <3>2. Cardinality(Has) = 0 /\ Len(rQueue) = 0
      BY <1>3, <2>3, <3>1
    <3>. HIDE DEF Has
    <3>. QED
      BY <1>7, <2>3, <3>2
  <2>4. CASE rQueue = << >> /\ rFromMe = 0 /\ \E p \in Threads : \A q \in Threads : RP!InHand(q) <=> q = p
    <3>1. PICK p \in Threads : \A q \in Threads : RP!InHand(q) <=> q = p
      BY <2>4
    <3>2. Has = {p}
      BY <2>1, <3>1
    <3>3. Cardinality(Has) = 1 /\ Len(rQueue) = 0
      BY <1>3, <2>4, <3>2
    <3>. HIDE DEF Has
    <3>. QED
      BY <1>7, <2>4, <3>3
  <2>. QED
    BY <2>1, <2>2, <2>3, <2>4 DEF RP!OneOut
<1>. QED
  BY <1>5, <1>6, <1>7

------------------------------------------------------------------------------
(***************************************************************************)
(* A single receiver is not left parked beside a sender that waits.        *)
(***************************************************************************)
\* The receiver leaves try only to register, and parks only when nothing was counted.
LEMMA OwnMoves ==
  ASSUME ZeroInv, TaskTypes, NEW r \in Receivers, Acts(r), ~WakerStep(r), ~ChannelStep(r), Looked(r)'
  PROVE  StreamEmpty(r) \/ StreamNotReady(r)
<1>1. /\ task \in [Threads -> SinkLabels \union StreamLabels] /\ r \in Threads /\ r \notin Senders
      /\ result \in [Threads -> [kind : Meeting!ReplyKinds, msg : Message \union {NoMsg}]]
  BY SideFacts, ZeroTypes DEF TaskTypes, ZeroInv
<1>2. \A n : Begin(r, "try", n) => result'[r].kind = "none"
  BY <1>1 DEF Begin, Return, Reply
<1>3. CASE StreamPoll(r) \/ StreamReady(r)
  BY <1>1, <1>2, <1>3 DEF StreamPoll, StreamReady, Move, Looked
<1>4. CASE \/ StreamEnd(r) \/ SeeFirst(r) \/ ClearFirst(r) \/ RegisterAgain(r) \/ CallRegister(r)
           \/ StreamBlock(r) \/ Release(r) \/ Shutdown(r) \/ Cancel(r)
  BY <1>1, <1>4 DEF StreamEnd, SeeFirst, ClearFirst, RegisterAgain, CallRegister, StreamBlock, Release, Shutdown,
       Cancel, Move, Looked
<1>. QED
  BY <1>1, <1>3, <1>4 DEF Acts, Poll, Run

LEMMA AwaitedWaker ==
  ASSUME NEW r, Receivers = {r}, CountRange > 1, TasksInv, Shared(r), Awaited(r),
         NEW p \in Threads, WakerStep(p), Acts(p)
  PROVE  Awaited(r)'
<1>0. /\ RP!WakerOK /\ r \in Threads /\ TaskTypes /\ RP!Sole(r)
      /\ UNCHANGED <<entries, result, task, first>>
      /\ Looked(r) => rPc[r] # "wk"
  BY SideFacts DEF TasksInv, TaskTypes, Shared, WakerStep, RegistersFromPoll, Looked, vars, data
<1>1. notified[r] => notified'[r]
  <2>1. ~Poll(p)
    <3>1. sPc[p] # "idle" \/ rPc[p] # "idle"
      BY DEF WakerStep, S!Step, R!Step, S!At, R!At, S!Register, S!WkPop, S!PositiveUpdate, S!PushBack, S!Wake,
           S!Wait, S!WakeAll, S!Count, S!Notify, R!Register, R!WkPop, R!PositiveUpdate, R!PushBack, R!Wake,
           R!Wait, R!WakeAll, R!Count, R!Notify
    <3>. QED
      BY <3>1 DEF Poll, SinkPoll, StreamPoll, Move, WakersIdle
  <2>. QED
    BY <1>0, <2>1, NotifiedNext
<1>2. RP!Counted(r) => RP!Counted(r)'
  <2>1. CASE UNCHANGED receiverWaker
    BY <1>1, <2>1, WakerLeft
  <2>2. CASE R!Step(p)
    BY <1>0, <2>2, ReceiversWaker, RP!StepCounted
  <2>. QED
    BY <2>1, <2>2 DEF WakerStep
<1>3. Looked(r) /\ RP!Coming(r) => RP!Coming(r)' \/ notified'[r]
  <2>1. CASE UNCHANGED receiverWaker
    BY <2>1, WakerLeft
  <2>2. CASE R!Step(p)
    BY <1>0, <2>2, ReceiversWaker, RP!StepComing
  <2>. QED
    BY <2>1, <2>2 DEF WakerStep
<1>4. Looked(r) /\ ~first /\ rFromMe > 0 => rFromMe' = rFromMe
  <2> SUFFICES ASSUME Looked(r), ~first, rFromMe > 0
               PROVE  rFromMe' = rFromMe
    OBVIOUS
  <2>1. CASE UNCHANGED receiverWaker
    BY <2>1 DEF receiverWaker
  <2>2. CASE R!Step(p)
    <3>1. RP!OneOut
      BY DEF Shared, Looked
    <3>2. ~RP!InHand(p)
      BY <3>1 DEF RP!OneOut
    <3>3. RP!Takes(p) \/ RP!Puts(p) \/ RP!Returns(p) \/ RP!Passes(p) \/ RP!Counts(p) \/ RP!Notifies(p)
      BY <1>0, <2>2, ReceiversWaker, RP!StepCases
    <3>. QED
      BY <3>2, <3>3 DEF RP!InHand, RP!Takes, RP!Puts, RP!Returns, RP!Passes, RP!Counts, RP!Notifies
  <2>. QED
    BY <2>1, <2>2 DEF WakerStep
<1>5. Looked(r)' <=> Looked(r)
  BY <1>0 DEF Looked
<1>. QED
  BY <1>0, <1>1, <1>2, <1>3, <1>4, <1>5 DEF Awaited

\* A sender that begins to wait, or that has met somebody, calls wake.
LEMMA AwaitedWake ==
  ASSUME NEW r, Receivers = {r}, CountRange > 1, TasksInv, Shared(r), Awaited(r),
         NEW p \in Threads, p # r, ChannelStep(p), CallReceivers(p, "wake")
  PROVE  Awaited(r)'
<1>0. /\ RP!WakerOK /\ r \in Threads /\ TaskTypes /\ RP!Sole(r) /\ ZeroInv /\ rFromMe \in Nat
      /\ Looked(r) => rPc[r] \notin {"register", "positive_update", "push_back"}
  BY SideFacts, RP!WakerFacts DEF TasksInv, TaskTypes, Shared, RegistersFromPoll, Looked
<1>1. UNCHANGED <<task, first, notified>> /\ result'[r] = result[r]
  BY <1>0, ChannelEffect
<1>2. RP!Call(p, "wake") /\ "wake" \in RP!Calls
  BY ReceiversWaker DEF CallReceivers, R!Calls
<1>3. /\ UNCHANGED rFromMe
      /\ RP!Registered(r) => RP!Registered(r)'
      /\ RP!Coming(r) => RP!Coming(r)'
      /\ RP!Counted(r) => RP!Counted(r)'
  BY <1>0, <1>2, RP!CallKeeps
<1>4. rPc'[p] = "wake"
  BY <1>0, <1>2, RP!CallType
<1>5. RP!Registered(r)' => RP!Coming(r)'
  BY <1>4 DEF RP!Coming
<1>6. Looked(r) => notified[r] \/ first \/ (task[r] # "idle" /\ rFromMe > 0) \/ RP!Coming(r)'
  <2> SUFFICES ASSUME Looked(r), ~first
               PROVE  notified[r] \/ (task[r] # "idle" /\ rFromMe > 0) \/ RP!Coming(r)'
    OBVIOUS
  <2>1. RP!OneOut
    BY DEF Shared, Looked
  <2>2. RP!Registered(r) \/ RP!Coming(r) \/ rFromMe > 0
    BY <1>0, <2>1, RP!WhereItIs
  <2>3. CASE task[r] = "idle" /\ rFromMe > 0
    <3>1. RP!Counted(r)
      BY <2>3 DEF Awaited
    <3>2. notified[r] \/ RP!Coming(r)
      BY <2>3, <3>1 DEF RP!Counted, RP!Coming, RP!Held, RP!Notifying
    <3>. QED
      BY <1>3, <3>2
  <2>. QED
    BY <1>3, <1>5, <2>2, <2>3
<1>7. Looked(r)' <=> Looked(r)
  BY <1>1 DEF Looked
<1>. QED
  BY <1>1, <1>3, <1>6, <1>7 DEF Awaited

\* Other steps leave r and its waker alone, and make no sender wait.
LEMMA AwaitedLeft ==
  ASSUME NEW r, UNCHANGED receiverWaker, first' = first, notified'[r] = notified[r], task'[r] = task[r],
         Looked(r)' => Looked(r) \/ entries'["senders"] = << >>,
         entries'["senders"] # << >> => entries["senders"] # << >>, Awaited(r)
  PROVE  Awaited(r)'
<1>1. (RP!Counted(r) => RP!Counted(r)') /\ (RP!Coming(r) => RP!Coming(r)') /\ UNCHANGED rFromMe
  BY WakerLeft DEF receiverWaker
<1>. QED
  BY <1>1 DEF Awaited

LEMMA AwaitedOther ==
  ASSUME NEW r, Receivers = {r}, CountRange > 1, TasksInv, Shared(r), Awaited(r),
         NEW p \in Threads, p # r, Acts(p), ~WakerStep(p)
  PROVE  Awaited(r)'
<1>0. /\ r \in Threads /\ TaskTypes /\ ZeroInv /\ p \in Senders /\ p \notin Receivers
      /\ task \in [Threads -> SinkLabels \union StreamLabels] /\ notified \in [Threads -> BOOLEAN]
      /\ result \in [Threads -> [kind : Meeting!ReplyKinds, msg : Message \union {NoMsg}]]
  BY SideFacts, SP!WakerFacts, ZeroTypes DEF TasksInv, TaskTypes, Threads, ZeroInv
<1>1. CASE ChannelStep(p)
  <2>1. /\ UNCHANGED <<task, first, notified>> /\ result'[r] = result[r]
        /\ \/ UNCHANGED receiverWaker /\ (entries'["senders"] # << >> => entries["senders"] # << >>)
           \/ CallReceivers(p, "wake")
    BY <1>0, <1>1, ChannelEffect
  <2>2. Looked(r)' <=> Looked(r)
    BY <2>1 DEF Looked
  <2>. QED
    BY <1>1, <2>1, <2>2, AwaitedWake, AwaitedLeft
<1>2. CASE ~ChannelStep(p)
  <2>1. \/ SinkPoll(p) \/ SinkFull(p) \/ SinkBlock(p) \/ SinkReady(p) \/ SinkClosed(p)
        \/ Release(p) \/ Shutdown(p) \/ Cancel(p)
    BY <1>0, <1>2 DEF Acts, Poll, Run
  <2>2. /\ UNCHANGED <<receiverWaker, first>> /\ notified'[r] = notified[r] /\ task'[r] = task[r]
        /\ UNCHANGED vars \/ \E k, n : Begin(p, k, n)
    BY <1>0, <2>1 DEF SinkPoll, SinkFull, SinkBlock, SinkReady, SinkClosed, Release, Shutdown, Cancel, Move,
         CallSenders, S!Call, wakers
  <2>3. result'[r] = result[r] /\ entries' = entries
    BY <1>0, <2>2 DEF Begin, Return, vars, data
  <2>4. Looked(r)' <=> Looked(r)
    BY <2>2, <2>3 DEF Looked
  <2>. QED
    BY <2>2, <2>3, <2>4, AwaitedLeft
<1>. QED
  BY <1>1, <1>2

LEMMA AwaitedOwn ==
  ASSUME NEW r, Receivers = {r}, CountRange > 1, TasksInv, Shared(r), Awaited(r),
         Acts(r), ~WakerStep(r)
  PROVE  Awaited(r)'
<1>0. /\ r \in Threads /\ r \in Receivers /\ r \notin Senders /\ TaskTypes /\ ZeroInv
      /\ task \in [Threads -> SinkLabels \union StreamLabels]
  BY SideFacts DEF TasksInv, TaskTypes
<1>1. CASE ChannelStep(r)
  <2>1. /\ UNCHANGED <<task, first, notified, receiverWaker>>
        /\ entries'["senders"] # << >> => entries["senders"] # << >>
    BY <1>0, <1>1, ChannelEffect
  <2>2. Looked(r)' => Looked(r) \/ entries'["senders"] = << >>
    BY <1>0, <1>1, <2>1, NobodyMeans DEF ChannelStep, Looked
  <2>. QED
    BY <2>1, <2>2, AwaitedLeft
<1>2. CASE ~ChannelStep(r) /\ ~Looked(r)'
  BY <1>2 DEF Awaited, Looked
<1>3. CASE StreamEmpty(r)
  <2>1. /\ Looked(r) /\ task[r] = "try" /\ task'[r] = "empty"
        /\ UNCHANGED <<entries, first, notified, receiverWaker>>
    BY <1>0, <1>3 DEF StreamEmpty, Move, Looked, vars, data, wakers
  <2>2. RP!Coming(r) => RP!Coming(r)'
    BY <2>1, WakerLeft
  <2>3. UNCHANGED rFromMe
    BY <2>1 DEF receiverWaker
  <2>. QED
    BY <2>1, <2>2, <2>3 DEF Awaited
<1>4. CASE StreamNotReady(r)
  <2>1. /\ task[r] = "empty" /\ task'[r] = "idle" /\ ~first /\ rFromMe = 0
        /\ UNCHANGED <<entries, first, notified, receiverWaker>>
    BY <1>0, <1>4 DEF StreamNotReady, Move, vars, data, wakers
  <2>2. (RP!Coming(r) => RP!Coming(r)') /\ RP!Counted(r)'
    BY <2>1, WakerLeft DEF RP!Counted, receiverWaker
  <2>3. Looked(r)
    BY <2>1 DEF Looked
  <2>4. entries["senders"] # << >> => notified[r] \/ RP!Coming(r)
    BY <2>1, <2>3 DEF Awaited
  <2>. QED
    BY <2>1, <2>2, <2>4 DEF Awaited
<1>. QED
  BY <1>0, <1>1, <1>2, <1>3, <1>4, OwnMoves

------------------------------------------------------------------------------
(***************************************************************************)
(* The invariance, and the properties that follow.                         *)
(***************************************************************************)
LEMMA TasksInvInit == TasksInit => TasksInv
<1> SUFFICES ASSUME TasksInit
             PROVE  TasksInv
  OBVIOUS
<1>1. RegistersFromPoll
  BY DEF TasksInit, R!WakerInit, RegistersFromPoll
<1>. QED
  BY <1>1, ZeroInit, TypesInit DEF TasksInit, TasksInv

LEMMA TasksInvNext == TasksInv /\ [TasksNext]_allVars => TasksInv'
<1> SUFFICES ASSUME TasksInv, [TasksNext]_allVars
             PROVE  TasksInv'
  OBVIOUS
<1>1. ASSUME NEW p \in Threads, Acts(p), UNCHANGED pool
      PROVE  TasksInv'
  BY <1>1, ChannelKept, TypesNext, RegistersNext DEF TasksInv
<1>2. CASE UNCHANGED allVars
  <2>1. UNCHANGED vars /\ UNCHANGED <<task, rPc>>
    BY <1>2 DEF allVars, taskVars, wakers, receiverWaker
  <2>2. RegistersFromPoll'
    BY <2>1 DEF TasksInv, RegistersFromPoll
  <2>. QED
    BY <1>2, <2>1, <2>2, ZeroStutter, TypesStutter DEF TasksInv
<1>3. TasksNext => UNCHANGED pool /\ \E p \in Threads : Acts(p)
  BY DEF TasksNext, Acts
<1>. QED
  BY <1>1, <1>2, <1>3

LEMMA TasksInvAlways == TasksSpec => []TasksInv
BY TasksInvInit, TasksInvNext, PTL DEF TasksSpec

LEMMA SingleInvInit ==
  ASSUME NEW r, Receivers = {r}
  PROVE  TasksInit => SingleInv(r)
<1> SUFFICES ASSUME TasksInit
             PROVE  SingleInv(r)
  OBVIOUS
<1>1. r \in Threads
  BY DEF Threads
<1>2. notified[r] /\ rFromMe = 0
  BY <1>1 DEF TasksInit, R!WakerInit
<1>3. RP!Counted(r)
  BY <1>2 DEF RP!Counted
<1>4. Awaited(r)
  BY <1>2, <1>3 DEF Awaited
<1>. QED
  BY <1>4, TasksInvInit, SharedInit DEF SingleInv

LEMMA SingleInvNext ==
  ASSUME NEW r, Receivers = {r}, CountRange > 1
  PROVE  SingleInv(r) /\ [TasksNext]_allVars => SingleInv(r)'
<1> SUFFICES ASSUME SingleInv(r), [TasksNext]_allVars
             PROVE  SingleInv(r)'
  OBVIOUS
<1>0. TasksInv /\ Shared(r) /\ Awaited(r) /\ TasksInv'
  BY TasksInvNext DEF SingleInv
<1>1. ASSUME NEW p \in Threads, Acts(p)
      PROVE  SingleInv(r)'
  <2>1. Shared(r)'
    BY <1>0, <1>1, SharedNext
  <2>2. CASE WakerStep(p)
    BY <1>0, <1>1, <2>1, <2>2, AwaitedWaker DEF SingleInv
  <2>3. CASE ~WakerStep(p) /\ p # r
    BY <1>0, <1>1, <2>1, <2>3, AwaitedOther DEF SingleInv
  <2>4. CASE ~WakerStep(p) /\ p = r
    BY <1>0, <1>1, <2>1, <2>4, AwaitedOwn DEF SingleInv
  <2>. QED
    BY <2>2, <2>3, <2>4
<1>2. CASE UNCHANGED allVars
  <2>1. UNCHANGED <<entries, result, task, first, notified>> /\ UNCHANGED receiverWaker
    BY <1>2 DEF allVars, taskVars, vars, data, wakers
  <2>2. Shared(r)'
    BY <1>0, <2>1, WakerLeft DEF Shared
  <2>3. Looked(r)' <=> Looked(r)
    BY <2>1 DEF Looked
  <2>4. Awaited(r)'
    BY <1>0, <2>1, <2>3, AwaitedLeft
  <2>. QED
    BY <1>0, <2>2, <2>4 DEF SingleInv
<1>3. TasksNext => \E p \in Threads : Acts(p)
  BY DEF TasksNext, Acts
<1>. QED
  BY <1>1, <1>2, <1>3

LEMMA SingleInvAlways ==
  ASSUME NEW CONSTANT r, Receivers = {r}, CountRange > 1
  PROVE  TasksSpec => []SingleInv(r)
<1>1. TasksInit => SingleInv(r)
  BY SingleInvInit
<1>2. SingleInv(r) /\ [TasksNext]_allVars => SingleInv(r)'
  BY SingleInvNext
<1>. QED
  BY <1>1, <1>2, PTL DEF TasksSpec

\* The shape of the state, of both wakers and of the handle counts.
THEOREM TasksTyped == TasksSpec => []TasksTypeOK
<1>1. TasksInv => TasksTypeOK
  BY TypesOK DEF TasksInv
<1>. QED
  BY <1>1, TasksInvAlways, PTL

\* What holds of threads that call the channel holds of tasks too, which register
\* and are woken in between, and of which the last of a side shuts it down: packets
\* outlive their use, no unwrap panics, every call returns what was decided about
\* it, and no entry is left behind.
THEOREM TasksMeetSafely ==
  TasksSpec => [](/\ TypeOK /\ PacketAlive /\ UnwrapsSucceed
                  /\ ReturnsWhatWasDecided /\ NoEntryLeft)
<1>1. TasksInv => /\ TypeOK /\ PacketAlive /\ UnwrapsSucceed
                  /\ ReturnsWhatWasDecided /\ NoEntryLeft
  BY PartnersAlive, NoneIsMissing, DecidedIsReturned, ListsAreEmptied DEF TasksInv, ZeroInv
<1>. QED
  BY <1>1, TasksInvAlways, PTL

\* With a single receiver, first, the receivers' queue and from_me share out one
\* registration, although a poll blocks between registering and returning, and
\* wakes are banked for messages that never parked anybody.
THEOREM OneRegistrationAlways ==
  ASSUME NEW CONSTANT r, Receivers = {r}, CountRange > 1
  PROVE  TasksSpec => []OneRegistration
<1>1. SingleInv(r) => OneRegistration
  BY SharedIsOne DEF SingleInv, TasksInv
<1>. QED
  BY <1>1, SingleInvAlways, PTL

\* A single receiver that answered NotReady is not left parked while a sender
\* blocks a worker, unless somebody is about to notify it.
THEOREM NoReceiverParkedAlways ==
  ASSUME NEW CONSTANT r, Receivers = {r}, CountRange > 1
  PROVE  TasksSpec => []NoReceiverParkedBesideSender
<1>1. SingleInv(r) => NoReceiverParkedBesideSender
  <2> SUFFICES ASSUME SingleInv(r), Parked(r), entries["senders"] # << >>
               PROVE  \E q \in Threads :
                        \/ R!Notifying(q) /\ rHeld[q] = r
                        \/ R!Registered(r) /\ rPc[q] = "wake"
    BY DEF NoReceiverParkedBesideSender
  <2>1. task[r] = "idle" /\ ~notified[r] /\ Looked(r) /\ Awaited(r)
    BY DEF Parked, SingleInv, Looked
  <2>2. RP!Coming(r)
    BY <2>1 DEF Awaited
  <2>3. \A q \in Threads : rPc[q] \notin {"wake_all", "count_all", "notify_all"}
    BY DEF SingleInv, TasksInv, TaskTypes
  <2>. QED
    BY <2>2, <2>3 DEF RP!Coming, RP!Held, RP!Notifying, RP!Registered, R!Notifying, R!Registered
<1>. QED
  BY <1>1, SingleInvAlways, PTL

=============================================================================
