----------------------------- MODULE ArrayTasks -----------------------------
(***************************************************************************)
(* The bounded channel as asynchronous tasks use it: sender tasks drive    *)
(* the Sink of src/array.rs, receiver tasks its Stream, and when a task    *)
(* cannot go on it parks until one of the channel's two wakers notifies    *)
(* it.  Handles are dropped as in src/counter.rs: the last one of a side   *)
(* shuts the channel down.                                                 *)
(*                                                                         *)
(* The ring is BoundedFifo, which ArrayChannel implements: start_send and  *)
(* start_recv take effect at one instant.  The accesses to the wakers, and *)
(* the steps between them and the ring, interleave.                        *)
(*                                                                         *)
(* A task is polled by the executor (external: tokio) some time after it   *)
(* is notified, by one thread at a time; a notification during the poll    *)
(* makes it due again.  It may also be polled for a reason of its own.     *)
(***************************************************************************)
EXTENDS BoundedFifo, FiniteSets

CONSTANTS
  WakerCap,    \* capacity of each waker's queue
  CountRange,  \* from_me wraps at CountRange
  NoTask

VARIABLES
  pc,        \* where each task is in poll, start_send or drop
  first,     \* Channel::first: no receiver has registered yet
  handles,   \* handles[side]: Counter::senders and Counter::receivers
  notified,  \* notified[t]: task t is due to be polled
  sQueue, sWaiting, sFromMe, sPc, sHeld,  \* the channel's senders waker
  rQueue, rWaiting, rFromMe, rPc, rHeld   \* the channel's receivers waker

senderWaker   == <<sQueue, sWaiting, sFromMe, sPc, sHeld>>
receiverWaker == <<rQueue, rWaiting, rFromMe, rPc, rHeld>>
wakers == <<senderWaker, receiverWaker, notified>>
ring   == <<queue, closed, sent, reply>>
vars   == <<queue, closed, sent, reply, pc, first, handles, notified,
            sQueue, sWaiting, sFromMe, sPc, sHeld, rQueue, rWaiting, rFromMe, rPc, rHeld>>

S == INSTANCE AtomicSerialWaker WITH
       Procs <- Threads, QueueCap <- WakerCap,
       queue <- sQueue, waiting <- sWaiting, fromMe <- sFromMe, wpc <- sPc, held <- sHeld
R == INSTANCE AtomicSerialWaker WITH
       Procs <- Threads, QueueCap <- WakerCap,
       queue <- rQueue, waiting <- rWaiting, fromMe <- rFromMe, wpc <- rPc, held <- rHeld

\* Each task drives one handle.
ASSUME TasksAssumption ==
  /\ R!WakerAssumption
  /\ Senders \intersect Receivers = {}
  /\ IsFiniteSet(Threads)
  /\ MaxSends \in Nat \ {0}

Side(p) == IF p \in Senders THEN "senders" ELSE "receivers"

\* One task per handle, all of them spawned: due to be polled.
Init ==
  /\ FifoInit
  /\ pc = [p \in Threads |-> "idle"]
  /\ first = TRUE
  /\ handles = [senders |-> Cardinality(Senders), receivers |-> Cardinality(Receivers)]
  /\ notified = [p \in Threads |-> TRUE]
  /\ S!WakerInit
  /\ R!WakerInit

\* Task p goes from pc l to pc k.  A call of a waker made at l is over first.
Move(p, l, k) ==
  /\ pc[p] = l
  /\ sPc[p] = "idle" /\ rPc[p] = "idle"
  /\ pc' = [pc EXCEPT ![p] = k]

CallSenders(p, op)   == S!Call(p, op) /\ UNCHANGED receiverWaker
CallReceivers(p, op) == R!Call(p, op) /\ UNCHANGED senderWaker

\* A step inside register, wake or wake_all of either waker.
WakerStep(p) ==
  /\ \/ S!Step(p) /\ UNCHANGED receiverWaker
     \/ R!Step(p) /\ UNCHANGED senderWaker
  /\ UNCHANGED <<ring, pc, first, handles>>

------------------------------------------------------------------------------
(***************************************************************************)
(* Sender tasks: Sink::start_send, which is try_send.                      *)
(***************************************************************************)
SinkPoll(p) ==
  /\ Move(p, "idle", "start_send")
  /\ notified' = [notified EXCEPT ![p] = FALSE]
  /\ CallSend(p)
  /\ UNCHANGED <<first, handles, senderWaker, receiverWaker>>

\* Mutant of SinkReady: nobody is woken.
SinkReadySilent(p) ==
  /\ Move(p, "start_send", "accepted")
  /\ Accept(p)
  /\ UNCHANGED <<first, handles, wakers>>

\* The message is in: write wakes a receiver.
SinkReady(p) ==
  /\ Move(p, "start_send", "accepted")
  /\ Accept(p)
  /\ CallReceivers(p, "wake")
  /\ UNCHANGED <<first, handles>>

\* start_send returned Ready: the task sends its next message, or ends.
SinkNext(p) ==
  /\ \/ /\ sent[p] < MaxSends
        /\ Move(p, "accepted", "start_send")
        /\ CallSend(p)
     \/ /\ sent[p] = MaxSends
        /\ Move(p, "accepted", "drop")
        /\ UNCHANGED ring
  /\ UNCHANGED <<first, handles, wakers>>

\* No room: register with the senders' waker, and do not look again.
SinkFull(p) ==
  /\ Move(p, "start_send", "full")
  /\ RefuseFull(p)
  /\ CallSenders(p, "register")
  /\ UNCHANGED <<first, handles>>

SinkNotReady(p) ==
  /\ Move(p, "full", "idle")
  /\ UNCHANGED <<ring, first, handles, wakers>>

\* start_send returned an error: the task ends.
SinkClosed(p) ==
  /\ Move(p, "start_send", "drop")
  /\ RefuseClosed(p)
  /\ UNCHANGED <<first, handles, wakers>>

------------------------------------------------------------------------------
(***************************************************************************)
(* Receiver tasks: Stream::poll, called again after every message.         *)
(***************************************************************************)
StreamPoll(p) ==
  /\ Move(p, "idle", "start_recv")
  /\ notified' = [notified EXCEPT ![p] = FALSE]
  /\ CallRecv(p)
  /\ UNCHANGED <<first, handles, senderWaker, receiverWaker>>

\* A message is out, at the first or at the second look: poll_read wakes a sender.
StreamReady(p) ==
  /\ Move(p, "start_recv", "took") \/ Move(p, "look_again", "took")
  /\ Deliver(p)
  /\ CallSenders(p, "wake")
  /\ UNCHANGED <<first, handles>>

StreamNext(p) ==
  /\ Move(p, "took", "start_recv")
  /\ CallRecv(p)
  /\ UNCHANGED <<first, handles, wakers>>

\* Ready(None): the task ends.
StreamEnd(p) ==
  /\ Move(p, "start_recv", "drop") \/ Move(p, "look_again", "drop")
  /\ ReportDisconnected(p)
  /\ UNCHANGED <<first, handles, wakers>>

\* Nothing at the first look.
StreamEmpty(p) ==
  /\ Move(p, "start_recv", "empty")
  /\ ReportEmpty(p)
  /\ UNCHANGED <<first, handles, wakers>>

\* self.first is read here and cleared in the next step.
SeeFirst(p) ==
  /\ first
  /\ Move(p, "empty", "first")
  /\ UNCHANGED <<ring, first, handles, wakers>>

ClearFirst(p) ==
  /\ Move(p, "first", "registered")
  /\ first' = FALSE
  /\ CallReceivers(p, "register")
  /\ UNCHANGED <<ring, handles, notified>>

\* Mutant of RegisterAgain: from_me is read, not consumed.
RegisterAgainPeek(p) ==
  /\ ~first /\ rFromMe > 0
  /\ Move(p, "empty", "consumed")
  /\ UNCHANGED <<ring, first, handles, wakers>>

\* A notification was counted since: register once more.
RegisterAgain(p) ==
  /\ ~first
  /\ Move(p, "empty", "consumed")
  /\ R!Consume
  /\ UNCHANGED <<ring, first, handles, senderWaker>>

CallRegister(p) ==
  /\ Move(p, "consumed", "registered")
  /\ CallReceivers(p, "register")
  /\ UNCHANGED <<ring, first, handles, notified>>

\* Neither: the task is still registered from before, or so the code assumes.
StreamNotReady(p) ==
  /\ ~first /\ rFromMe = 0
  /\ Move(p, "empty", "idle")
  /\ UNCHANGED <<ring, first, handles, wakers>>

\* Mutant of LookAgain: NotReady straight after register.
LookAgainNot(p) ==
  /\ Move(p, "registered", "idle")
  /\ UNCHANGED <<ring, first, handles, wakers>>

\* After register, start_recv once more: a message may have come in between.
LookAgain(p) ==
  /\ Move(p, "registered", "look_again")
  /\ CallRecv(p)
  /\ UNCHANGED <<first, handles, wakers>>

StillEmpty(p) ==
  /\ Move(p, "look_again", "idle")
  /\ ReportEmpty(p)
  /\ UNCHANGED <<first, handles, wakers>>

------------------------------------------------------------------------------
(***************************************************************************)
(* Dropping a handle: Counter::release and Channel::shutdown.              *)
(***************************************************************************)
\* A parked task is cancelled: its handle is dropped, its registration stays.
Cancel(p) ==
  /\ Move(p, "idle", "drop")
  /\ UNCHANGED <<ring, first, handles, wakers>>

Release(p) ==
  /\ Move(p, "drop", IF handles[Side(p)] = 1 THEN "shutdown" ELSE "gone")
  /\ handles' = [handles EXCEPT ![Side(p)] = @ - 1]
  /\ UNCHANGED <<ring, first, wakers>>

\* fetch_or of the mark bit; only the one that set it wakes everybody.
ShutdownMark(p) ==
  /\ Move(p, "shutdown", IF closed THEN "gone" ELSE "wake_senders")
  /\ Close
  /\ UNCHANGED <<first, handles, wakers>>

ShutdownSenders(p) ==
  /\ Move(p, "wake_senders", "wake_receivers")
  /\ CallSenders(p, "wake_all")
  /\ UNCHANGED <<ring, first, handles, notified>>

\* Mutant of ShutdownReceivers: only senders are woken.
ShutdownReceiversNot(p) ==
  /\ Move(p, "wake_receivers", "gone")
  /\ UNCHANGED <<ring, first, handles, wakers>>

ShutdownReceivers(p) ==
  /\ Move(p, "wake_receivers", "gone")
  /\ CallReceivers(p, "wake_all")
  /\ UNCHANGED <<ring, first, handles, notified>>

------------------------------------------------------------------------------
SinkStep(p) ==
  \/ SinkReady(p) \/ SinkNext(p) \/ SinkFull(p) \/ SinkNotReady(p) \/ SinkClosed(p)

StreamStep(p) ==
  \/ StreamReady(p) \/ StreamNext(p) \/ StreamEnd(p) \/ StreamEmpty(p)
  \/ SeeFirst(p) \/ ClearFirst(p) \/ RegisterAgain(p) \/ CallRegister(p)
  \/ StreamNotReady(p) \/ LookAgain(p) \/ StillEmpty(p)

DropStep(p) ==
  Release(p) \/ ShutdownMark(p) \/ ShutdownSenders(p) \/ ShutdownReceivers(p)

Poll(p) ==
  \/ p \in Senders /\ SinkPoll(p)
  \/ p \in Receivers /\ StreamPoll(p)

\* A task that is being polled, or dropped, keeps running.
Run(p) ==
  \/ p \in Senders /\ SinkStep(p)
  \/ p \in Receivers /\ StreamStep(p)
  \/ DropStep(p)
  \/ WakerStep(p)

Next == \E p \in Threads : Poll(p) \/ Run(p) \/ Cancel(p)

Spec == Init /\ [][Next]_vars

(***************************************************************************)
(* The executor polls a task that was notified, and runs a poll to its     *)
(* end.  Polls for other reasons and cancellations need not happen.        *)
(***************************************************************************)
Fairness ==
  \A p \in Threads : WF_vars(Run(p)) /\ WF_vars(notified[p] /\ Poll(p))

FairSpec == Spec /\ Fairness
------------------------------------------------------------------------------
(***************************************************************************)
(* Properties.                                                             *)
(***************************************************************************)
PcLabels ==
  {"idle", "start_send", "accepted", "full", "start_recv", "took", "empty", "first", "consumed",
   "registered", "look_again", "drop", "shutdown", "wake_senders", "wake_receivers", "gone"}

\* Shape of the state, of both wakers and of the handle counts.
TypeOK ==
  /\ queue \in Seq(Message) /\ closed \in BOOLEAN
  /\ pc \in [Threads -> PcLabels]
  /\ first \in BOOLEAN
  /\ handles \in [{"senders", "receivers"} -> Nat]
  /\ notified \in [Threads -> BOOLEAN]
  /\ S!WakerTypeOK
  /\ R!WakerTypeOK

\* Task p gave up its thread and nobody has told it to run again.
Parked(p) == pc[p] = "idle" /\ ~notified[p]

\* A task somebody is about to notify: it was popped for that, or it is still
\* in the queue and a thread is on its way to take it out (or one before it).
AboutToNotify(p) ==
  \E q \in Threads :
    \/ R!Notifying(q) /\ rHeld[q] = p
    \/ R!Registered(p) /\ rPc[q] \in {"wake", "wake_all", "count_all", "notify_all"}
    \/ R!Registered(p) /\ pc[q] \in {"wake_senders", "wake_receivers"}

\* The receiver is never left parked with a message in the channel, or with the
\* channel shut down: whoever sent or shut down is still about to notify it.
\* Stream::poll sees to that by looking again after register, by trusting an
\* earlier registration only while from_me says nobody used it up, and by
\* counting in from_me before it notifies.  It takes a single receiver.
NoStrandedReceiver ==
  \A r \in Receivers :
    Parked(r) /\ (queue # << >> \/ closed) => AboutToNotify(r)

\* first, the receivers' queue and from_me share out one registration: it is
\* never lost and never doubled, whatever the order of polls and wakes (single
\* receiver).
HasRegistration(p) ==
  \/ rPc[p] \in {"register", "positive_update", "push_back", "count", "count_all"}
  \/ pc[p] = "consumed"

OneRegistration ==
  (IF first THEN 1 ELSE 0) + Len(rQueue) + rFromMe
    + Cardinality({p \in Threads : HasRegistration(p)}) = 1

\* A sender that parked on a full channel stays known to the senders' waker, in
\* its queue or in the hands of a thread that will put it back or notify it,
\* although wk, its own or another sender's, takes it out of the queue for a while.
ParkedSenderKept ==
  \A p \in Senders :
    Parked(p) => S!Registered(p) \/ \E q \in Threads : S!Holding(q) /\ sHeld[q] = p

\* What is accepted is received, unless the receiver drops its handle.
AcceptedIsReceived ==
  queue # << >> ~> (queue = << >> \/ \A r \in Receivers : pc[r] = "gone")

\* Once the channel is shut down every receiver reaches the end of the stream.
ReceiversEnd == closed ~> \A r \in Receivers : pc[r] = "gone"

\* Nobody is inside a call: only a poll or a drop can make anything happen.
Quiet == \A p \in Threads :
  /\ pc[p] \in {"idle", "gone"} /\ sPc[p] = "idle" /\ rPc[p] = "idle"
  /\ pc[p] = "idle" => ~notified[p]

\* "Senders waiting while the channel is full" (array.rs:97): once everybody is
\* done, a sender is left waiting only if the channel is full.
SendersWaitOnlyWhenFull ==
  Quiet => \A p \in Senders : pc[p] = "idle" => Len(queue) = Cap

\* "Receivers waiting while the channel is empty and not disconnected"
\* (array.rs:100): once everybody is done, a receiver is left waiting only then.
ReceiversWaitOnlyWhenEmpty ==
  Quiet => \A r \in Receivers : pc[r] = "idle" => queue = << >> /\ ~closed
=============================================================================
