----------------------- MODULE AtomicSerialWakerProofs -----------------------
(***************************************************************************)
(* Lemmas about one waker of src/atomic_serial_waker.rs, for any threads,  *)
(* any capacity of its queue and any range of from_me.  The modules that   *)
(* compose a waker with its clients instantiate this module for theirs.    *)
(***************************************************************************)
EXTENDS AtomicSerialWaker, SequenceTheorems, TLAPS

\* What is assumed of the waker, and the type of what it shares with its clients.
WakerOK == WakerAssumption /\ WakerTypeOK /\ notified \in [Procs -> BOOLEAN]

LEMMA WakerFacts ==
  ASSUME WakerOK
  PROVE  /\ queue \in Seq(Procs) /\ Len(queue) <= QueueCap /\ Len(queue) \in Nat
         /\ waiting \in Nat /\ fromMe \in 0 .. CountRange - 1 /\ fromMe \in Nat
         /\ wpc \in [Procs -> Labels]
         /\ held \in [Procs -> Procs \union {NoTask}]
         /\ \A p \in Procs : Holding(p) <=> held[p] # NoTask
         /\ notified \in [Procs -> BOOLEAN]
         /\ QueueCap \in Nat \ {0} /\ CountRange \in Nat \ {0} /\ NoTask \notin Procs
BY DEF WakerOK, WakerTypeOK, WakerAssumption

LEMMA WakerStarts ==
  ASSUME WakerAssumption, WakerInit
  PROVE  WakerTypeOK
BY DEF WakerAssumption, WakerInit, WakerTypeOK, Labels, Calls, Holding, Notifying

------------------------------------------------------------------------------
(***************************************************************************)
(* What a step does to the queue, to the hands of its thread, to from_me   *)
(* and to the tasks: one of these.                                         *)
(***************************************************************************)
\* The task at the front is taken out: to be put back or notified, or to be
\* notified.
Takes(p) ==
  /\ queue # << >> /\ queue' = Tail(queue) /\ held' = [held EXCEPT ![p] = Head(queue)]
  /\ UNCHANGED <<fromMe, notified>>
  /\ \/ wpc[p] = "wk" /\ wpc' = [wpc EXCEPT ![p] = "positive_update"]
     \/ wpc[p] = "wake" /\ wpc' = [wpc EXCEPT ![p] = "count"]
     \/ wpc[p] = "wake_all" /\ wpc' = [wpc EXCEPT ![p] = "count_all"]

\* A task is put into the queue: that of the thread, or the one in its hands.
Puts(p) ==
  /\ Len(queue) < QueueCap /\ held' = [held EXCEPT ![p] = NoTask]
  /\ UNCHANGED <<fromMe, notified>>
  /\ \/ wpc[p] = "register" /\ wpc' = [wpc EXCEPT ![p] = "wk"] /\ queue' = Append(queue, p)
     \/ wpc[p] = "push_back" /\ wpc' = [wpc EXCEPT ![p] = "idle"] /\ queue' = Append(queue, held[p])

\* It does not fit, and is to be notified.
Returns(p) ==
  /\ Len(queue) = QueueCap /\ wpc' = [wpc EXCEPT ![p] = "count"]
  /\ UNCHANGED <<queue, fromMe, notified>>
  /\ \/ wpc[p] = "register" /\ held' = [held EXCEPT ![p] = p]
     \/ wpc[p] = "push_back" /\ held' = held

\* There is no task, or the thread goes on with the one it holds.
Passes(p) ==
  /\ UNCHANGED <<queue, held, fromMe, notified>>
  /\ \/ wpc[p] = "wk" /\ queue = << >> /\ wpc' = [wpc EXCEPT ![p] = "idle"]
     \/ wpc[p] = "wake" /\ queue = << >> /\ wpc' = [wpc EXCEPT ![p] = "wait"]
     \/ wpc[p] = "wake_all" /\ queue = << >> /\ wpc' = [wpc EXCEPT ![p] = "idle"]
     \/ wpc[p] = "wait" /\ wpc' = [wpc EXCEPT ![p] = "idle"]
     \/ wpc[p] = "positive_update" /\ wpc' = [wpc EXCEPT ![p] = "count"]
     \/ wpc[p] = "positive_update" /\ wpc' = [wpc EXCEPT ![p] = "push_back"]

Counts(p) ==
  /\ UNCHANGED <<queue, held, notified>>
  /\ fromMe' = (fromMe + 1) % CountRange
  /\ \/ wpc[p] = "count" /\ wpc' = [wpc EXCEPT ![p] = "notify"]
     \/ wpc[p] = "count_all" /\ wpc' = [wpc EXCEPT ![p] = "notify_all"]

Notifies(p) ==
  /\ held' = [held EXCEPT ![p] = NoTask] /\ notified' = [notified EXCEPT ![held[p]] = TRUE]
  /\ UNCHANGED <<queue, fromMe>>
  /\ \/ wpc[p] = "notify" /\ wpc' = [wpc EXCEPT ![p] = "idle"]
     \/ wpc[p] = "notify_all" /\ wpc' = [wpc EXCEPT ![p] = "wake_all"]

LEMMA StepCases ==
  ASSUME WakerOK, NEW p \in Procs, Step(p)
  PROVE  /\ Takes(p) \/ Puts(p) \/ Returns(p) \/ Passes(p) \/ Counts(p) \/ Notifies(p)
         /\ waiting' \in Nat
<1>. USE DEF At, Goto, Hold
<1>1. waiting \in Nat /\ held \in [Procs -> Procs \union {NoTask}]
  BY WakerFacts
<1>2. CASE Register(p)
  BY <1>1, <1>2 DEF Register, Push, Puts, Returns
<1>3. CASE WkPop(p) \/ Wake(p) \/ WakeAll(p)
  BY <1>1, <1>3 DEF WkPop, Wake, WakeAll, Pop, Takes, Passes
<1>4. CASE PositiveUpdate(p)
  BY <1>1, <1>4 DEF PositiveUpdate, Passes
<1>5. CASE PushBack(p)
  <2>1. held = [held EXCEPT ![p] = held[p]]
    BY <1>1
  <2>. QED
    BY <1>1, <1>5, <2>1 DEF PushBack, Push, Puts, Returns
<1>6. CASE Wait(p)
  BY <1>1, <1>6 DEF Wait, Passes
<1>7. CASE Count(p)
  BY <1>1, <1>7 DEF Count, Counts
<1>8. CASE Notify(p)
  BY <1>1, <1>8 DEF Notify, Notifies
<1>. QED
  BY <1>2, <1>3, <1>4, <1>5, <1>6, <1>7, <1>8 DEF Step

\* A queue with one task more, or less.
LEMMA QueueFacts ==
  ASSUME WakerOK
  PROVE  /\ queue # << >> =>
              /\ Head(queue) \in Procs /\ Head(queue) = queue[1] /\ Len(queue) > 0
              /\ Tail(queue) \in Seq(Procs) /\ Len(Tail(queue)) = Len(queue) - 1
              /\ \A i \in 1 .. Len(Tail(queue)) : Tail(queue)[i] = queue[i + 1]
         /\ \A t \in Procs :
              /\ Append(queue, t) \in Seq(Procs) /\ Len(Append(queue, t)) = Len(queue) + 1
              /\ Append(queue, t)[Len(queue) + 1] = t
              /\ \A i \in 1 .. Len(queue) : Append(queue, t)[i] = queue[i]
BY WakerFacts

\* A step keeps the shape of the waker: a thread holds a task exactly at the
\* labels where the code has popped one and not yet disposed of it.
LEMMA StepType ==
  ASSUME WakerOK, NEW p \in Procs, Step(p)
  PROVE  WakerOK'
<1>1. /\ queue \in Seq(Procs) /\ Len(queue) <= QueueCap /\ Len(queue) \in Nat
      /\ fromMe \in 0 .. CountRange - 1 /\ wpc \in [Procs -> Labels]
      /\ held \in [Procs -> Procs \union {NoTask}] /\ notified \in [Procs -> BOOLEAN]
      /\ \A q \in Procs : Holding(q) <=> held[q] # NoTask
      /\ QueueCap \in Nat \ {0} /\ CountRange \in Nat \ {0} /\ NoTask \notin Procs
  BY WakerFacts
<1>2. /\ Takes(p) \/ Puts(p) \/ Returns(p) \/ Passes(p) \/ Counts(p) \/ Notifies(p)
      /\ waiting' \in Nat
  BY StepCases
<1>3. held[p] # NoTask => held[p] \in Procs
  BY <1>1
<1>4. queue' \in Seq(Procs) /\ Len(queue') <= QueueCap
  <2>1. CASE Takes(p)
    BY <1>1, <2>1, QueueFacts DEF Takes
  <2>2. CASE Puts(p)
    <3>1. PICK t \in Procs : queue' = Append(queue, t)
      BY <1>1, <1>3, <2>2 DEF Puts, Holding
    <3>. QED
      BY <1>1, <2>2, <3>1, QueueFacts DEF Puts
  <2>3. CASE UNCHANGED queue
    BY <1>1, <2>3
  <2>. QED
    BY <1>2, <2>1, <2>2, <2>3 DEF Returns, Passes, Counts, Notifies
<1>5. fromMe' \in 0 .. CountRange - 1 /\ notified' \in [Procs -> BOOLEAN]
  <2>1. (fromMe + 1) % CountRange \in 0 .. CountRange - 1
    BY <1>1
  <2>2. fromMe' \in 0 .. CountRange - 1
    BY <1>1, <1>2, <2>1 DEF Takes, Puts, Returns, Passes, Counts, Notifies
  <2>3. notified' \in [Procs -> BOOLEAN]
    BY <1>1, <1>2 DEF Takes, Puts, Returns, Passes, Counts, Notifies
  <2>. QED
    BY <2>2, <2>3
<1>6. ASSUME NEW l \in Labels, NEW t \in Procs \union {NoTask},
             wpc' = [wpc EXCEPT ![p] = l], held' = [held EXCEPT ![p] = t],
             l \in {"count", "notify", "count_all", "notify_all", "positive_update", "push_back"}
               <=> t # NoTask
      PROVE  /\ wpc' \in [Procs -> Labels] /\ held' \in [Procs -> Procs \union {NoTask}]
             /\ \A q \in Procs : Holding(q)' <=> held'[q] # NoTask
  BY <1>1, <1>6 DEF Holding, Notifying
<1>7. /\ wpc' \in [Procs -> Labels] /\ held' \in [Procs -> Procs \union {NoTask}]
      /\ \A q \in Procs : Holding(q)' <=> held'[q] # NoTask
  <2>1. held[p] \in Procs \union {NoTask} /\ held = [held EXCEPT ![p] = held[p]]
    BY <1>1
  <2>2. CASE Takes(p)
    <3>1. PICK l \in {"positive_update", "count", "count_all"} : wpc' = [wpc EXCEPT ![p] = l]
      BY <2>2 DEF Takes
    <3>2. held' = [held EXCEPT ![p] = Head(queue)] /\ Head(queue) \in Procs
      BY <2>2, QueueFacts DEF Takes
    <3>3. l \in Labels
      BY DEF Labels
    <3>. QED
      BY <1>1, <1>6, <3>1, <3>2, <3>3
  <2>3. CASE Puts(p)
    <3>1. PICK l \in {"wk", "idle"} : wpc' = [wpc EXCEPT ![p] = l]
      BY <2>3 DEF Puts
    <3>2. l \in Labels
      BY DEF Labels
    <3>. QED
      BY <1>6, <2>3, <3>1, <3>2 DEF Puts
  <2>4. CASE Returns(p)
    <3>1. PICK t \in Procs : held' = [held EXCEPT ![p] = t]
      BY <1>1, <2>1, <2>4 DEF Returns, Holding
    <3>2. "count" \in Labels
      BY DEF Labels
    <3>. QED
      BY <1>1, <1>6, <2>4, <3>1, <3>2 DEF Returns
  <2>5. CASE Passes(p)
    <3>1. PICK l \in Labels : /\ wpc' = [wpc EXCEPT ![p] = l]
                              /\ l \in {"count", "push_back"} <=> wpc[p] = "positive_update"
                              /\ l \notin {"notify", "count_all", "notify_all", "positive_update"}
                              /\ wpc[p] \in {"wk", "wake", "wake_all", "wait", "positive_update"}
      BY <2>5 DEF Passes, Labels
    <3>2. l \in {"count", "notify", "count_all", "notify_all", "positive_update", "push_back"}
            <=> held[p] # NoTask
      BY <1>1, <3>1 DEF Holding, Notifying
    <3>. QED
      BY <1>6, <2>1, <2>5, <3>1, <3>2 DEF Passes
  <2>6. CASE Counts(p)
    <3>1. PICK l \in {"notify", "notify_all"} : wpc' = [wpc EXCEPT ![p] = l]
      BY <2>6 DEF Counts
    <3>2. l \in Labels /\ held[p] # NoTask
      BY <1>1, <2>6 DEF Counts, Labels, Holding, Notifying
    <3>. QED
      BY <1>6, <2>1, <2>6, <3>1, <3>2 DEF Counts
  <2>7. CASE Notifies(p)
    <3>1. PICK l \in {"wake_all", "idle"} : wpc' = [wpc EXCEPT ![p] = l]
      BY <2>7 DEF Notifies
    <3>2. l \in Labels
      BY DEF Labels, Calls
    <3>. QED
      BY <1>6, <2>7, <3>1, <3>2 DEF Notifies
  <2>. QED
    BY <1>2, <2>2, <2>3, <2>4, <2>5, <2>6, <2>7
<1>. QED
  BY <1>1, <1>2, <1>4, <1>5, <1>7 DEF WakerOK, WakerTypeOK, WakerAssumption

\* So do the entry of an operation, and the owner that consumes a notification.
LEMMA CallType ==
  ASSUME WakerOK, NEW p \in Procs, NEW op \in Calls, Call(p, op)
  PROVE  /\ WakerOK'
         /\ wpc[p] = "idle" /\ wpc'[p] = op /\ \A q \in Procs : q # p => wpc'[q] = wpc[q]
<1>1. /\ wpc[p] = "idle" /\ wpc' = [wpc EXCEPT ![p] = op]
      /\ UNCHANGED <<queue, waiting, fromMe, held, notified>>
  BY DEF Call, At, Goto
<1>2. /\ wpc \in [Procs -> Labels] /\ op \in Labels
      /\ \A q \in Procs : Holding(q) <=> held[q] # NoTask
  BY WakerFacts DEF Labels
<1>3. /\ wpc' \in [Procs -> Labels]
      /\ wpc'[p] = op /\ \A q \in Procs : q # p => wpc'[q] = wpc[q]
  BY <1>1, <1>2
<1>4. \A q \in Procs : Holding(q)' <=> Holding(q)
  BY <1>1, <1>3 DEF Holding, Notifying, Calls
<1>. QED
  BY <1>1, <1>2, <1>3, <1>4 DEF WakerOK, WakerTypeOK, WakerAssumption

LEMMA ConsumeType ==
  ASSUME WakerOK, Consume
  PROVE  WakerOK'
<1>1. fromMe' \in 0 .. CountRange - 1
  BY WakerFacts DEF Consume
<1>2. \A q \in Procs : Holding(q)' <=> Holding(q)
  BY DEF Consume, Holding, Notifying
<1>. QED
  BY <1>1, <1>2 DEF Consume, WakerOK, WakerTypeOK, WakerAssumption

------------------------------------------------------------------------------
(***************************************************************************)
(* A registration is kept: in the queue, or in somebody's hands, until its *)
(* task is notified.                                                       *)
(***************************************************************************)
Kept(t) == Registered(t) \/ \E q \in Procs : Holding(q) /\ held[q] = t

LEMMA StepKeeps ==
  ASSUME WakerOK, NEW p \in Procs, Step(p), NEW t \in Procs,
         Kept(t) \/ (p = t /\ wpc[p] = "register")
  PROVE  Kept(t)' \/ notified'[t]
<1>1. /\ queue \in Seq(Procs) /\ Len(queue) \in Nat /\ wpc \in [Procs -> Labels]
      /\ held \in [Procs -> Procs \union {NoTask}] /\ notified \in [Procs -> BOOLEAN]
      /\ \A q \in Procs : Holding(q) <=> held[q] # NoTask
      /\ NoTask \notin Procs
  BY WakerFacts
<1>2. \A q \in Procs : held'[q] # NoTask => Holding(q)'
  <2>1. WakerOK'
    BY StepType
  <2>. QED
    BY <2>1 DEF WakerOK, WakerTypeOK
<1>3. Takes(p) \/ Puts(p) \/ Returns(p) \/ Passes(p) \/ Counts(p) \/ Notifies(p)
  BY StepCases
<1>4. ASSUME NEW q \in Procs, held'[q] = t
      PROVE  Kept(t)'
  BY <1>1, <1>2, <1>4 DEF Kept
<1>5. \A q \in Procs : q # p => held'[q] = held[q]
  BY <1>1, <1>3 DEF Takes, Puts, Returns, Passes, Counts, Notifies
<1>6. ASSUME NEW q \in Procs, q # p, held[q] = t
      PROVE  Kept(t)'
  BY <1>4, <1>5, <1>6
<1>7. CASE held[p] = t /\ Holding(p)
  <2>1. CASE Takes(p)
    BY <1>7, <2>1 DEF Takes, Holding, Notifying
  <2>2. CASE Puts(p)
    <3>1. queue' = Append(queue, t)
      BY <1>7, <2>2 DEF Puts, Holding, Notifying
    <3>2. queue'[Len(queue) + 1] = t /\ Len(queue') = Len(queue) + 1
      BY <3>1, QueueFacts
    <3>. QED
      BY <1>1, <3>2 DEF Kept, Registered
  <2>3. CASE UNCHANGED held
    BY <1>4, <1>7, <2>3
  <2>4. CASE Notifies(p)
    BY <1>1, <1>7, <2>4 DEF Notifies
  <2>. QED
    BY <1>3, <1>7, <2>1, <2>2, <2>3, <2>4 DEF Returns, Passes, Counts, Holding, Notifying
<1>8. CASE p = t /\ wpc[p] = "register"
  <2>1. CASE Puts(p)
    <3>1. queue' = Append(queue, t)
      BY <1>8, <2>1 DEF Puts
    <3>2. queue'[Len(queue) + 1] = t /\ Len(queue') = Len(queue) + 1
      BY <3>1, QueueFacts
    <3>. QED
      BY <1>1, <3>2 DEF Kept, Registered
  <2>2. CASE Returns(p)
    <3>1. held'[p] = t
      BY <1>1, <1>8, <2>2 DEF Returns
    <3>. QED
      BY <1>4, <3>1
  <2>. QED
    BY <1>3, <1>8, <2>1, <2>2 DEF Takes, Passes, Counts, Notifies
<1>9. CASE Registered(t)
  <2>1. PICK i \in 1 .. Len(queue) : queue[i] = t
    BY <1>9 DEF Registered
  <2>2. CASE Takes(p)
    <3>1. CASE i = 1
      <4>1. held'[p] = t
        BY <1>1, <2>1, <2>2, <3>1, QueueFacts DEF Takes
      <4>. QED
        BY <1>4, <4>1
    <3>2. CASE i # 1
      <4>1. i - 1 \in 1 .. Len(queue') /\ queue'[i - 1] = t
        <5>1. i - 1 \in 1 .. Len(Tail(queue)) /\ (i - 1) + 1 = i
          BY <1>1, <2>1, <2>2, <3>2, QueueFacts DEF Takes
        <5>2. queue' = Tail(queue) /\ Tail(queue)[i - 1] = queue[(i - 1) + 1]
          BY <2>2, <5>1, QueueFacts DEF Takes
        <5>. QED
          BY <2>1, <5>1, <5>2
      <4>. QED
        BY <4>1 DEF Kept, Registered
    <3>. QED
      BY <3>1, <3>2
  <2>3. CASE Puts(p)
    <3>1. PICK x \in Procs : queue' = Append(queue, x)
      BY <1>1, <2>3 DEF Puts, Holding
    <3>2. i \in 1 .. Len(queue') /\ queue'[i] = t
      BY <1>1, <2>1, <3>1, QueueFacts
    <3>. QED
      BY <3>2 DEF Kept, Registered
  <2>4. CASE UNCHANGED queue
    BY <2>1, <2>4 DEF Kept, Registered
  <2>. QED
    BY <1>3, <2>2, <2>3, <2>4 DEF Returns, Passes, Counts, Notifies
<1>. QED
  BY <1>6, <1>7, <1>8, <1>9 DEF Kept

------------------------------------------------------------------------------
(***************************************************************************)
(* A waker with a single task r that registers, as that of the receivers   *)
(* with a single receiver.                                                 *)
(***************************************************************************)
\* Only r is registered, popped or put back, and only r registers.
Sole(r) ==
  /\ \A i \in 1 .. Len(queue) : queue[i] = r
  /\ \A q \in Procs : held[q] \in {r, NoTask}
  /\ \A q \in Procs : wpc[q] \in {"register", "wk", "positive_update", "push_back"} => q = r

\* A thread with a registration in its hands that has not been counted.
InHand(p) == wpc[p] \in {"register", "positive_update", "push_back", "count", "count_all"}

\* The waker has no registration of r, neither to use nor counted; or it has one.
NoneOut == queue = << >> /\ fromMe = 0 /\ \A p \in Procs : ~InHand(p)
OneOut ==
  \/ Len(queue) = 1 /\ fromMe = 0 /\ \A p \in Procs : ~InHand(p)
  \/ queue = << >> /\ fromMe = 1 /\ \A p \in Procs : ~InHand(p)
  \/ queue = << >> /\ fromMe = 0 /\ \E p \in Procs : \A q \in Procs : InHand(q) <=> q = p

\* Somebody is about to notify r: r was popped for that, or it is still in the
\* queue and a thread is on its way to take it out.
Held(p, r) == Notifying(p) /\ held[p] = r
Coming(r) ==
  \E q \in Procs : \/ Held(q, r)
                   \/ Registered(r) /\ wpc[q] \in {"wake", "wake_all", "count_all", "notify_all"}

\* What was counted is followed by a notification.
Counted(r) ==
  fromMe > 0 => notified[r] \/ \E q \in Procs : wpc[q] \in {"notify", "notify_all"} /\ held[q] = r

LEMMA StepSole ==
  ASSUME WakerOK, NEW p \in Procs, Step(p), NEW r \in Procs, Sole(r)
  PROVE  Sole(r)'
<1>1. /\ queue \in Seq(Procs) /\ Len(queue) \in Nat /\ wpc \in [Procs -> Labels]
      /\ held \in [Procs -> Procs \union {NoTask}]
      /\ \A q \in Procs : Holding(q) <=> held[q] # NoTask
      /\ \A i \in 1 .. Len(queue) : queue[i] = r
      /\ \A q \in Procs : held[q] \in {r, NoTask}
      /\ \A q \in Procs : wpc[q] \in {"register", "wk", "positive_update", "push_back"} => q = r
  BY WakerFacts DEF Sole
<1>2. Takes(p) \/ Puts(p) \/ Returns(p) \/ Passes(p) \/ Counts(p) \/ Notifies(p)
  BY StepCases
<1>3. \A i \in 1 .. Len(queue') : queue'[i] = r
  <2>1. CASE Takes(p)
    <3>1. queue' = Tail(queue) /\ Len(Tail(queue)) = Len(queue) - 1
          /\ \A i \in 1 .. Len(Tail(queue)) : Tail(queue)[i] = queue[i + 1]
      BY <2>1, QueueFacts DEF Takes
    <3>2. \A i \in 1 .. Len(Tail(queue)) : i + 1 \in 1 .. Len(queue)
      BY <1>1, <3>1
    <3>. QED
      BY <1>1, <3>1, <3>2
  <2>2. CASE Puts(p)
    <3>1. queue' = Append(queue, r) /\ r \in Procs
      BY <1>1, <2>2 DEF Puts, Holding
    <3>. QED
      BY <1>1, <3>1, QueueFacts
  <2>3. CASE UNCHANGED queue
    BY <1>1, <2>3
  <2>. QED
    BY <1>2, <2>1, <2>2, <2>3 DEF Returns, Passes, Counts, Notifies
<1>4. \A q \in Procs : held'[q] \in {r, NoTask}
  <2>1. CASE Takes(p)
    <3>1. Head(queue) = r
      BY <1>1, <2>1, QueueFacts DEF Takes
    <3>. QED
      BY <1>1, <2>1, <3>1 DEF Takes
  <2>2. CASE ~Takes(p)
    BY <1>1, <1>2, <2>2 DEF Puts, Returns, Passes, Counts, Notifies
  <2>. QED
    BY <2>1, <2>2
<1>5. \A q \in Procs : wpc'[q] \in {"register", "wk", "positive_update", "push_back"} => q = r
  <2>1. \A q \in Procs : q # p => wpc'[q] = wpc[q]
    BY <1>1, <1>2 DEF Takes, Puts, Returns, Passes, Counts, Notifies
  <2>2. wpc'[p] \in {"register", "wk", "positive_update", "push_back"} =>
          wpc[p] \in {"register", "wk", "positive_update", "push_back"}
    BY <1>1, <1>2 DEF Takes, Puts, Returns, Passes, Counts, Notifies
  <2>. QED
    BY <1>1, <2>1, <2>2
<1>. QED
  BY <1>3, <1>4, <1>5 DEF Sole

\* The registration is neither lost nor doubled by a step inside the waker.
LEMMA StepNoneOut ==
  ASSUME WakerOK, NEW p \in Procs, Step(p), NoneOut
  PROVE  NoneOut'
<1>1. wpc \in [Procs -> Labels] /\ queue = << >> /\ fromMe = 0 /\ ~InHand(p)
      /\ \A q \in Procs : ~InHand(q)
  BY WakerFacts DEF NoneOut
<1>2. Takes(p) \/ Puts(p) \/ Returns(p) \/ Passes(p) \/ Counts(p) \/ Notifies(p)
  BY StepCases
<1>3. Passes(p) \/ Notifies(p)
  BY <1>1, <1>2 DEF Takes, Puts, Returns, Counts, InHand
<1>4. queue' = << >> /\ fromMe' = 0
  BY <1>1, <1>3 DEF Passes, Notifies
<1>5. ~InHand(p)'
  BY <1>1, <1>3 DEF Passes, Notifies, InHand
<1>6. \A q \in Procs : q # p => wpc'[q] = wpc[q]
  BY <1>1, <1>3 DEF Passes, Notifies
<1>. QED
  BY <1>1, <1>4, <1>5, <1>6 DEF NoneOut, InHand

LEMMA StepOneOut ==
  ASSUME WakerOK, CountRange > 1, NEW p \in Procs, Step(p), OneOut
  PROVE  OneOut'
<1>1. /\ queue \in Seq(Procs) /\ Len(queue) \in Nat /\ fromMe \in Nat /\ wpc \in [Procs -> Labels]
      /\ held \in [Procs -> Procs \union {NoTask}] /\ CountRange \in Nat
      /\ \A q \in Procs : Holding(q) <=> held[q] # NoTask
      /\ QueueCap \in Nat \ {0}
  BY WakerFacts
<1>2. Takes(p) \/ Puts(p) \/ Returns(p) \/ Passes(p) \/ Counts(p) \/ Notifies(p)
  BY StepCases
<1>3. \A q \in Procs : q # p => wpc'[q] = wpc[q]
  BY <1>1, <1>2 DEF Takes, Puts, Returns, Passes, Counts, Notifies
<1>4. \A q \in Procs : q # p => (InHand(q)' <=> InHand(q))
  BY <1>3 DEF InHand
<1>5. \A s \in Seq(Procs) : Len(s) = 0 <=> s = << >>
  OBVIOUS
<1>6. CASE Takes(p)
  <2>1. Len(queue) # 0 /\ Len(queue') = Len(queue) - 1 /\ fromMe' = fromMe /\ queue' \in Seq(Procs)
    BY <1>1, <1>5, <1>6, QueueFacts DEF Takes
  <2>2. Len(queue) = 1 /\ fromMe = 0 /\ \A q \in Procs : ~InHand(q)
    BY <1>5, <1>6, <2>1 DEF OneOut, Takes
  <2>3. InHand(p)'
    BY <1>1, <1>6 DEF Takes, InHand
  <2>. QED
    BY <1>4, <1>5, <2>1, <2>2, <2>3 DEF OneOut
<1>7. CASE Puts(p)
  <2>1. InHand(p) /\ ~InHand(p)' /\ fromMe' = fromMe
    BY <1>1, <1>7 DEF Puts, InHand
  <2>2. queue = << >> /\ fromMe = 0 /\ \A q \in Procs : InHand(q) <=> q = p
    BY <2>1 DEF OneOut
  <2>3. Len(queue') = 1
    <3>1. PICK x \in Procs : queue' = Append(queue, x)
      BY <1>1, <1>7 DEF Puts, Holding
    <3>. QED
      BY <1>5, <1>1, <2>2, <3>1, QueueFacts
  <2>. QED
    BY <1>4, <2>1, <2>2, <2>3 DEF OneOut
<1>8. CASE Returns(p)
  <2>1. InHand(p) /\ InHand(p)' /\ fromMe' = fromMe /\ queue' = queue
    BY <1>1, <1>8 DEF Returns, InHand
  <2>. QED
    BY <1>4, <2>1 DEF OneOut
<1>9. CASE Passes(p)
  <2>1. (InHand(p)' <=> InHand(p)) /\ fromMe' = fromMe /\ queue' = queue
    BY <1>1, <1>9 DEF Passes, InHand
  <2>. QED
    BY <1>4, <2>1 DEF OneOut
<1>10. CASE Counts(p)
  <2>1. InHand(p) /\ ~InHand(p)' /\ queue' = queue
    BY <1>1, <1>10 DEF Counts, InHand
  <2>2. queue = << >> /\ fromMe = 0 /\ \A q \in Procs : InHand(q) <=> q = p
    BY <2>1 DEF OneOut
  <2>3. fromMe' = 1
    BY <1>1, <1>10, <2>2 DEF Counts
  <2>. QED
    BY <1>4, <2>1, <2>2, <2>3 DEF OneOut
<1>11. CASE Notifies(p)
  <2>1. (InHand(p)' <=> InHand(p)) /\ fromMe' = fromMe /\ queue' = queue
    BY <1>1, <1>11 DEF Notifies, InHand
  <2>. QED
    BY <1>4, <2>1 DEF OneOut
<1>. QED
  BY <1>2, <1>6, <1>7, <1>8, <1>9, <1>10, <1>11

\* from_me is counted before the task is notified, by the thread that holds it.
LEMMA StepCounted ==
  ASSUME WakerOK, NEW p \in Procs, Step(p), NEW r \in Procs, Sole(r), Counted(r)
  PROVE  Counted(r)'
<1>1. /\ wpc \in [Procs -> Labels] /\ held \in [Procs -> Procs \union {NoTask}]
      /\ notified \in [Procs -> BOOLEAN]
      /\ \A q \in Procs : Holding(q) <=> held[q] # NoTask
      /\ \A q \in Procs : held[q] \in {r, NoTask}
  BY WakerFacts DEF Sole
<1>2. Takes(p) \/ Puts(p) \/ Returns(p) \/ Passes(p) \/ Counts(p) \/ Notifies(p)
  BY StepCases
<1>3. \A q \in Procs : q # p => wpc'[q] = wpc[q] /\ held'[q] = held[q]
  BY <1>1, <1>2 DEF Takes, Puts, Returns, Passes, Counts, Notifies
<1>4. notified[r] => notified'[r]
  BY <1>1, <1>2 DEF Takes, Puts, Returns, Passes, Counts, Notifies
<1>5. CASE Counts(p)
  <2>1. held'[p] = r
    BY <1>1, <1>5 DEF Counts, Holding, Notifying
  <2>2. wpc'[p] \in {"notify", "notify_all"}
    BY <1>1, <1>5 DEF Counts
  <2>. QED
    BY <2>1, <2>2 DEF Counted
<1>6. CASE Notifies(p)
  <2>1. held[p] = r
    BY <1>1, <1>6 DEF Notifies, Holding, Notifying
  <2>2. notified'[r] = TRUE
    BY <1>1, <1>6, <2>1 DEF Notifies
  <2>. QED
    BY <2>2 DEF Counted
<1>7. CASE Takes(p) \/ Puts(p) \/ Returns(p) \/ Passes(p)
  <2>1. fromMe' = fromMe /\ wpc[p] \notin {"notify", "notify_all"}
    BY <1>7 DEF Takes, Puts, Returns, Passes
  <2>. QED
    BY <1>3, <1>4, <2>1 DEF Counted
<1>. QED
  BY <1>2, <1>5, <1>6, <1>7

\* A registration in the queue stays there, unless it is taken out to be notified;
\* only r itself, in wk, takes it out to look at waiting.
LEMMA StepRegistered ==
  ASSUME WakerOK, NEW p \in Procs, Step(p), NEW r \in Procs, Sole(r), wpc[r] # "wk", Registered(r)
  PROVE  Registered(r)' \/ Coming(r)'
<1>1. /\ queue \in Seq(Procs) /\ Len(queue) \in Nat /\ wpc \in [Procs -> Labels]
      /\ held \in [Procs -> Procs \union {NoTask}]
      /\ \A i \in 1 .. Len(queue) : queue[i] = r
      /\ \A q \in Procs : wpc[q] = "wk" => q = r
  BY WakerFacts DEF Sole
<1>2. Takes(p) \/ Puts(p) \/ Returns(p) \/ Passes(p) \/ Counts(p) \/ Notifies(p)
  BY StepCases
<1>3. CASE Takes(p)
  <2>1. Head(queue) = r
    BY <1>1, <1>3, QueueFacts DEF Takes
  <2>2. held'[p] = r /\ Notifying(p)'
    BY <1>1, <1>3, <2>1 DEF Takes, Notifying
  <2>. QED
    BY <2>2 DEF Coming, Held
<1>4. CASE ~Takes(p)
  <2>1. PICK i \in 1 .. Len(queue) : queue[i] = r
    BY DEF Registered
  <2>2. CASE Puts(p)
    <3>1. PICK x \in Procs : queue' = Append(queue, x)
      BY WakerFacts, <2>2 DEF Puts, Holding
    <3>2. i \in 1 .. Len(queue') /\ queue'[i] = r
      BY <1>1, <2>1, <3>1, QueueFacts
    <3>. QED
      BY <3>2 DEF Registered
  <2>3. CASE UNCHANGED queue
    BY <2>1, <2>3 DEF Registered
  <2>. QED
    BY <1>2, <1>4, <2>2, <2>3 DEF Returns, Passes, Counts, Notifies
<1>. QED
  BY <1>3, <1>4

\* Who is about to notify r gets there.
LEMMA StepComing ==
  ASSUME WakerOK, NEW p \in Procs, Step(p), NEW r \in Procs, Sole(r), wpc[r] # "wk", Coming(r)
  PROVE  Coming(r)' \/ notified'[r]
<1>1. /\ queue \in Seq(Procs) /\ wpc \in [Procs -> Labels]
      /\ held \in [Procs -> Procs \union {NoTask}] /\ notified \in [Procs -> BOOLEAN]
      /\ \A i \in 1 .. Len(queue) : queue[i] = r
  BY WakerFacts DEF Sole
<1>2. Takes(p) \/ Puts(p) \/ Returns(p) \/ Passes(p) \/ Counts(p) \/ Notifies(p)
  BY StepCases
<1>3. \A q \in Procs : q # p => wpc'[q] = wpc[q] /\ held'[q] = held[q]
  BY <1>1, <1>2 DEF Takes, Puts, Returns, Passes, Counts, Notifies
<1>4. ASSUME NEW q \in Procs, Held(q, r)
      PROVE  Held(q, r)' \/ notified'[r]
  <2>1. CASE q # p
    BY <1>3, <1>4, <2>1 DEF Held, Notifying
  <2>2. CASE q = p
    <3>1. Counts(p) \/ Notifies(p)
      BY <1>2, <1>4, <2>2 DEF Held, Notifying, Takes, Puts, Returns, Passes
    <3>2. CASE Counts(p)
      BY <1>1, <1>4, <2>2, <3>2 DEF Held, Notifying, Counts
    <3>3. CASE Notifies(p)
      BY <1>1, <1>4, <2>2, <3>3 DEF Held, Notifies
    <3>. QED
      BY <3>1, <3>2, <3>3
  <2>. QED
    BY <2>1, <2>2
<1>5. ASSUME Registered(r), NEW q \in Procs, wpc[q] \in {"wake", "wake_all", "count_all", "notify_all"}
      PROVE  Coming(r)'
  <2>1. CASE Coming(r)'
    BY <2>1
  <2>2. CASE Registered(r)'
    <3>1. CASE q # p
      BY <1>3, <1>5, <2>2, <3>1 DEF Coming
    <3>2. CASE q = p
      <4>1. queue # << >>
        BY <1>5 DEF Registered
      <4>2. Takes(p) \/ Counts(p) \/ Notifies(p)
        BY <1>2, <1>5, <3>2, <4>1 DEF Puts, Returns, Passes
      <4>3. CASE Takes(p)
        <5>1. Head(queue) = r
          BY <1>1, <4>3, QueueFacts DEF Takes
        <5>2. held'[p] = r /\ Notifying(p)'
          BY <1>1, <1>5, <3>2, <4>3, <5>1 DEF Takes, Notifying
        <5>. QED
          BY <5>2 DEF Coming, Held
      <4>4. CASE Counts(p) \/ Notifies(p)
        <5>1. wpc'[p] \in {"notify_all", "wake_all"}
          BY <1>1, <1>5, <3>2, <4>4 DEF Counts, Notifies
        <5>. QED
          BY <2>2, <5>1 DEF Coming
      <4>. QED
        BY <4>2, <4>3, <4>4
    <3>. QED
      BY <3>1, <3>2
  <2>. QED
    BY <1>5, <2>1, <2>2, StepRegistered
<1>. QED
  BY <1>4, <1>5 DEF Coming

\* While r is not itself busy with its registration, that is in the queue, about to
\* be notified, or counted.
LEMMA WhereItIs ==
  ASSUME WakerOK, NEW r \in Procs, Sole(r), OneOut,
         wpc[r] \notin {"register", "positive_update", "push_back"}
  PROVE  Registered(r) \/ Coming(r) \/ fromMe > 0
<1>1. /\ queue \in Seq(Procs) /\ wpc \in [Procs -> Labels]
      /\ \A q \in Procs : Holding(q) <=> held[q] # NoTask
      /\ \A i \in 1 .. Len(queue) : queue[i] = r
      /\ \A q \in Procs : held[q] \in {r, NoTask}
      /\ \A q \in Procs : wpc[q] \in {"register", "wk", "positive_update", "push_back"} => q = r
  BY WakerFacts DEF Sole
<1>2. CASE Len(queue) = 1
  BY <1>1, <1>2 DEF Registered
<1>3. CASE fromMe = 1
  BY <1>3
<1>4. ASSUME NEW p \in Procs, InHand(p)
      PROVE  Coming(r)
  BY <1>1, <1>4 DEF InHand, Coming, Held, Holding, Notifying
<1>. QED
  BY <1>2, <1>3, <1>4 DEF OneOut

------------------------------------------------------------------------------
(***************************************************************************)
(* The entry of an operation and Consume, on the same facts.               *)
(***************************************************************************)
LEMMA CallKeeps ==
  ASSUME WakerOK, NEW p \in Procs, NEW op \in Calls, Call(p, op)
  PROVE  /\ UNCHANGED <<queue, held, fromMe, notified>>
         /\ \A t : Kept(t) => Kept(t)'
         /\ \A t : Registered(t) => Registered(t)'
         /\ \A t : Coming(t) => Coming(t)'
         /\ \A t : Counted(t) => Counted(t)'
         /\ NoneOut /\ op # "register" => NoneOut'
         /\ OneOut /\ op # "register" => OneOut'
         /\ NoneOut /\ op = "register" => OneOut'
         /\ \A r : Sole(r) /\ (op = "register" => p = r) => Sole(r)'
<1>1. UNCHANGED <<queue, held, fromMe, notified>>
  BY DEF Call
<1>2. wpc[p] = "idle" /\ wpc'[p] = op /\ op \in {"register", "wake", "wake_all"}
      /\ \A q \in Procs : q # p => wpc'[q] = wpc[q]
  BY CallType DEF Calls
<1>3. \A q \in Procs : wpc[q] # "idle" => wpc'[q] = wpc[q]
  BY <1>2
<1>4. /\ \A t : Kept(t) => Kept(t)'
      /\ \A t : Registered(t) => Registered(t)'
  BY <1>1, <1>3 DEF Kept, Registered, Holding, Notifying
<1>5. \A t : Coming(t) => Coming(t)'
  <2> SUFFICES ASSUME NEW t, Coming(t)
               PROVE  Coming(t)'
    OBVIOUS
  <2>1. PICK q \in Procs : \/ Held(q, t)
                           \/ Registered(t) /\ wpc[q] \in {"wake", "wake_all", "count_all", "notify_all"}
    BY DEF Coming
  <2>2. wpc'[q] = wpc[q]
    BY <1>3, <2>1 DEF Held, Notifying
  <2>. QED
    BY <1>1, <2>1, <2>2 DEF Coming, Held, Notifying, Registered
<1>6. \A t : Counted(t) => Counted(t)'
  BY <1>1, <1>3 DEF Counted
<1>7. /\ \A q \in Procs : q # p => (InHand(q)' <=> InHand(q))
      /\ ~InHand(p) /\ (InHand(p)' <=> op = "register")
  BY <1>2 DEF InHand
<1>8. /\ NoneOut /\ op # "register" => NoneOut'
      /\ NoneOut /\ op = "register" => OneOut'
  BY <1>1, <1>7 DEF NoneOut, OneOut
<1>9. OneOut /\ op # "register" => OneOut'
  BY <1>1, <1>7 DEF OneOut
<1>10. \A r : Sole(r) /\ (op = "register" => p = r) => Sole(r)'
  BY <1>1, <1>2 DEF Sole
<1>. QED
  BY <1>1, <1>4, <1>5, <1>6, <1>8, <1>9, <1>10

LEMMA ConsumeKeeps ==
  ASSUME WakerOK, Consume
  PROVE  /\ UNCHANGED <<queue, held, wpc, notified>>
         /\ OneOut => NoneOut'
         /\ \A t : Kept(t) => Kept(t)'
         /\ \A t : Registered(t) => Registered(t)'
         /\ \A t : Coming(t) => Coming(t)'
         /\ \A r : Sole(r) => Sole(r)'
         /\ \A r : Sole(r) /\ OneOut => Counted(r)'
<1>1. /\ UNCHANGED <<queue, held, wpc, notified>>
      /\ fromMe > 0 /\ fromMe' = fromMe - 1
  BY DEF Consume
<1>2. OneOut => fromMe' = 0 /\ queue = << >> /\ \A q \in Procs : ~InHand(q)
  BY <1>1 DEF OneOut
<1>3. OneOut => NoneOut'
  BY <1>1, <1>2 DEF NoneOut, InHand
<1>4. /\ \A t : Kept(t) => Kept(t)'
      /\ \A t : Registered(t) => Registered(t)'
      /\ \A t : Coming(t) => Coming(t)'
  BY <1>1 DEF Kept, Registered, Coming, Held, Holding, Notifying
<1>5. \A r : Sole(r) => Sole(r)'
  BY <1>1 DEF Sole
<1>6. \A r : Sole(r) /\ OneOut => Counted(r)'
  BY <1>2 DEF Counted
<1>. QED
  BY <1>1, <1>3, <1>4, <1>5, <1>6
==============================================================================
