------------------------------ MODULE ZeroTasks ------------------------------
(***************************************************************************)
(* The channel without capacity as asynchronous tasks use it: the Sink and *)
(* the Stream of src/zero.rs, with the calls of its two asynchronous       *)
(* wakers put back into the steps of ZeroChannel, and handles dropped as   *)
(* in src/counter.rs.                                                      *)
(*                                                                         *)
(* start_send and poll try, register with a waker, and then block the      *)
(* worker of the executor (external: tokio) that runs the task: only poll  *)
(* can answer NotReady, and then the task gives its worker back.  A task   *)
(* may also be polled without a notification, for a reason of its own.     *)
(***************************************************************************)
EXTENDS ZeroChannel

CONSTANTS
  MaxItems,    \* bound: messages that each sender task sends
  Pools,       \* numbers of threads that the executor may have
  WakerCap,    \* capacity of each waker's queue
  CountRange,  \* from_me wraps at CountRange
  NoTask

VARIABLES
  pool,      \* number of threads of the executor, its workers
  task,      \* where each task is in poll, start_send or drop, around its calls
  first,     \* Channel::first: no receiver has registered yet
  handles,   \* handles[side]: Counter::senders and Counter::receivers
  notified,  \* notified[t]: task t is due to be polled
  sQueue, sWaiting, sFromMe, sPc, sHeld,  \* the waker called senders
  rQueue, rWaiting, rFromMe, rPc, rHeld   \* the waker called receivers

senderWaker   == <<sQueue, sWaiting, sFromMe, sPc, sHeld>>
receiverWaker == <<rQueue, rWaiting, rFromMe, rPc, rHeld>>
wakers   == <<senderWaker, receiverWaker, notified>>
taskVars == <<vars, task, first, handles, wakers>>
allVars  == <<taskVars, pool>>

S == INSTANCE AtomicSerialWaker WITH
       Procs <- Threads, QueueCap <- WakerCap,
       queue <- sQueue, waiting <- sWaiting, fromMe <- sFromMe, wpc <- sPc, held <- sHeld
R == INSTANCE AtomicSerialWaker WITH
       Procs <- Threads, QueueCap <- WakerCap,
       queue <- rQueue, waiting <- rWaiting, fromMe <- rFromMe, wpc <- rPc, held <- rHeld

ASSUME TasksAssumption == R!WakerAssumption /\ IsFiniteSet(Threads)

\* One task per handle, all of them spawned: due to be polled.
TasksInit ==
  /\ Init
  /\ pool \in Pools
  /\ task = [p \in Threads |-> "idle"]
  /\ first = TRUE
  /\ handles = [senders |-> Cardinality(Senders), receivers |-> Cardinality(Receivers)]
  /\ notified = [p \in Threads |-> TRUE]
  /\ S!WakerInit
  /\ R!WakerInit

WakersIdle(p) == sPc[p] = "idle" /\ rPc[p] = "idle"

\* Task p goes from l to k; calls of the channel or of a waker made at l are over.
Move(p, l, k) ==
  /\ task[p] = l
  /\ pc[p] = "idle" /\ WakersIdle(p)
  /\ task' = [task EXCEPT ![p] = k]

CallSenders(p, o)   == S!Call(p, o) /\ UNCHANGED receiverWaker
CallReceivers(p, o) == R!Call(p, o) /\ UNCHANGED senderWaker

\* A step inside register or wake of either waker.
WakerStep(p) ==
  /\ \/ S!Step(p) /\ UNCHANGED receiverWaker
     \/ R!Step(p) /\ UNCHANGED senderWaker
  /\ UNCHANGED <<vars, task, first, handles>>

\* Mutant of Wakes: the wake comes after the lock, and only if somebody was met.
WakesIfMet(p) == pc[p] = "unlock_met"

\* The other side is woken in write and read, after the lock and before the
\* packet is touched, and in _send and recv, after the entry was made and before
\* the lock is given up.
Wakes(p) == pc[p] = "unlock_met" \/ pc'[p] = "unlock_waiting"

\* A step inside a call of the channel.
ChannelStep(p) ==
  /\ WakersIdle(p)
  /\ Continue(p)
  /\ IF Wakes(p)
       THEN /\ IF p \in Senders THEN CallReceivers(p, "wake") ELSE CallSenders(p, "wake")
            /\ UNCHANGED notified
       ELSE UNCHANGED wakers
  /\ UNCHANGED <<task, first, handles>>

\* Some worker is not held by a task.
WorkerFree == Cardinality({p \in Threads : task[p] \notin {"idle", "gone"}}) < pool

------------------------------------------------------------------------------
(***************************************************************************)
(* Sender tasks: Sink::start_send, again after every message.  Sink        *)
(* never answers NotReady, so a sender task runs from one end to the other.*)
(***************************************************************************)
SinkPoll(p) ==
  /\ WorkerFree
  /\ Move(p, "idle", "try")
  /\ Begin(p, "try", item[p] + 1)
  /\ notified' = [notified EXCEPT ![p] = FALSE]
  /\ UNCHANGED <<first, handles, senderWaker, receiverWaker>>

\* try_send found nobody: register, although the task will not park.
SinkFull(p) ==
  /\ result[p].kind = "nobody"
  /\ Move(p, "try", "full")
  /\ CallSenders(p, "register")
  /\ UNCHANGED <<vars, first, handles, notified>>

SinkBlock(p) ==
  /\ Move(p, "full", "block")
  /\ Begin(p, "block", item[p])
  /\ UNCHANGED <<first, handles, wakers>>

\* Ready, by the first call or by the second: the next message, or the end.
SinkReady(p) ==
  /\ task[p] \in {"try", "block"} /\ result[p].kind = "sent"
  /\ \/ item[p] < MaxItems /\ Move(p, task[p], "try") /\ Begin(p, "try", item[p] + 1)
     \/ item[p] = MaxItems /\ Move(p, task[p], "drop") /\ UNCHANGED vars
  /\ UNCHANGED <<first, handles, wakers>>

\* start_send returned an error: the task ends.
SinkClosed(p) ==
  /\ task[p] \in {"try", "block"} /\ result[p].kind = "disconnected"
  /\ Move(p, task[p], "drop")
  /\ UNCHANGED <<vars, first, handles, wakers>>

------------------------------------------------------------------------------
(***************************************************************************)
(* Receiver tasks: Stream::poll, called again after every message.         *)
(***************************************************************************)
StreamPoll(p) ==
  /\ WorkerFree
  /\ Move(p, "idle", "try")
  /\ Begin(p, "try", item[p])
  /\ notified' = [notified EXCEPT ![p] = FALSE]
  /\ UNCHANGED <<first, handles, senderWaker, receiverWaker>>

StreamReady(p) ==
  /\ task[p] \in {"try", "block"} /\ result[p].kind = "received"
  /\ Move(p, task[p], "try")
  /\ Begin(p, "try", item[p])
  /\ UNCHANGED <<first, handles, wakers>>

\* Ready(None): the task ends.
StreamEnd(p) ==
  /\ task[p] \in {"try", "block"} /\ result[p].kind = "disconnected"
  /\ Move(p, task[p], "drop")
  /\ UNCHANGED <<vars, first, handles, wakers>>

StreamEmpty(p) ==
  /\ result[p].kind = "nobody"
  /\ Move(p, "try", "empty")
  /\ UNCHANGED <<vars, first, handles, wakers>>

\* self.first is read here and cleared in the next step.
SeeFirst(p) ==
  /\ first
  /\ Move(p, "empty", "first")
  /\ UNCHANGED <<vars, first, handles, wakers>>

ClearFirst(p) ==
  /\ Move(p, "first", "registered")
  /\ first' = FALSE
  /\ CallReceivers(p, "register")
  /\ UNCHANGED <<vars, handles, notified>>

\* Mutant of RegisterAgain: from_me is read, not consumed.
RegisterAgainPeek(p) ==
  /\ ~first /\ rFromMe > 0
  /\ Move(p, "empty", "consumed")
  /\ UNCHANGED <<vars, first, handles, wakers>>

RegisterAgain(p) ==
  /\ ~first
  /\ Move(p, "empty", "consumed")
  /\ R!Consume
  /\ UNCHANGED <<vars, first, handles, senderWaker>>

CallRegister(p) ==
  /\ Move(p, "consumed", "registered")
  /\ CallReceivers(p, "register")
  /\ UNCHANGED <<vars, first, handles, notified>>

\* Registered: block in recv, whoever comes.
StreamBlock(p) ==
  /\ Move(p, "registered", "block")
  /\ Begin(p, "block", item[p])
  /\ UNCHANGED <<first, handles, wakers>>

\* Neither first nor notified since: NotReady, without a second look.
StreamNotReady(p) ==
  /\ ~first /\ rFromMe = 0
  /\ Move(p, "empty", "idle")
  /\ UNCHANGED <<vars, first, handles, wakers>>

------------------------------------------------------------------------------
(***************************************************************************)
(* Dropping a handle: Counter::release and Channel::shutdown, which calls  *)
(* no asynchronous waker.                                                  *)
(***************************************************************************)
\* A task that is not being polled is cancelled.
Cancel(p) ==
  /\ Move(p, "idle", "drop")
  /\ UNCHANGED <<vars, first, handles, wakers>>

Release(p) ==
  /\ Move(p, "drop", IF handles[Side(p)] = 1 THEN "last" ELSE "gone")
  /\ handles' = [handles EXCEPT ![Side(p)] = @ - 1]
  /\ UNCHANGED <<vars, first, wakers>>

Shutdown(p) ==
  /\ Move(p, "last", "gone")
  /\ Begin(p, "shut", item[p])
  /\ UNCHANGED <<first, handles, wakers>>

------------------------------------------------------------------------------
Poll(p) ==
  \/ p \in Senders /\ SinkPoll(p)
  \/ p \in Receivers /\ StreamPoll(p)

Run(p) ==
  \/ p \in Senders /\ (SinkFull(p) \/ SinkBlock(p) \/ SinkReady(p) \/ SinkClosed(p))
  \/ p \in Receivers /\ \/ StreamReady(p) \/ StreamEnd(p) \/ StreamEmpty(p)
                        \/ SeeFirst(p) \/ ClearFirst(p) \/ RegisterAgain(p) \/ CallRegister(p)
                        \/ StreamBlock(p) \/ StreamNotReady(p)
  \/ Release(p) \/ Shutdown(p)
  \/ ChannelStep(p) \/ WakerStep(p)

TasksNext ==
  /\ UNCHANGED pool
  /\ \E p \in Threads : Poll(p) \/ Run(p) \/ Cancel(p)

TasksSpec == TasksInit /\ [][TasksNext]_allVars

\* A task may be polled for reasons of its own, but not for ever: the spinlock is
\* not fair, and a task that calls without end could keep it from the others.
FinallyNotified == <>[][\A p \in Threads : Poll(p) => notified[p]]_taskVars

\* The executor polls a task that was notified, when a worker is free, and a
\* worker runs what it polls.
TasksFairSpec ==
  /\ TasksSpec
  /\ FinallyNotified
  /\ \A p \in Threads : WF_taskVars(Run(p)) /\ WF_taskVars(notified[p] /\ Poll(p))
------------------------------------------------------------------------------
(***************************************************************************)
(* Properties.                                                             *)
(***************************************************************************)
Parked(p) == task[p] = "idle" /\ ~notified[p]

\* Shape of the state, of both wakers and of the handle counts.
TasksTypeOK ==
  /\ TypeOK
  /\ pool \in Pools
  /\ task \in [Threads -> {"idle", "try", "full", "empty", "first", "consumed", "registered",
                           "block", "drop", "last", "gone"}]
  /\ first \in BOOLEAN
  /\ handles \in [Sides -> Nat]
  /\ notified \in [Threads -> BOOLEAN]
  /\ S!WakerTypeOK
  /\ R!WakerTypeOK

\* A receiver that answered NotReady is not left parked while a sender blocks a
\* worker: the sender, or a thread on its way to it, is about to take the
\* receiver's registration out of the queue and to notify it (single receiver).
NoReceiverParkedBesideSender ==
  \A r \in Receivers :
    Parked(r) /\ entries["senders"] # << >> =>
      \E q \in Threads :
        \/ R!Notifying(q) /\ rHeld[q] = r
        \/ R!Registered(r) /\ rPc[q] = "wake"

\* As for the bounded channel, first, the receivers' queue and from_me share out
\* one registration, although poll now blocks between registering and returning
\* and wakes are banked for messages that never parked anybody (single receiver).
HasRegistration(p) ==
  \/ rPc[p] \in {"register", "positive_update", "push_back", "count"}
  \/ task[p] = "consumed"

OneRegistration ==
  (IF first THEN 1 ELSE 0) + Len(rQueue) + rFromMe
    + Cardinality({p \in Threads : HasRegistration(p)}) = 1

\* A send that blocks a worker ends: the receiver comes to fetch the message, or
\* the last receiver's shutdown ends the wait.  The one exception is that senders
\* that wait hold all workers, so that no receiver can run (zero.rs:374).
AllWorkersWait ==
  Cardinality({p \in Senders : task[p] = "block" /\ reply[p].kind = "waiting"}) = pool

BlockedSendEnds ==
  \A p \in Senders : task[p] = "block" ~> (task[p] # "block" \/ AllWorkersWait)

\* Once the channel is shut down every receiver reaches the end of the stream, as
\* in the benchmark, which runs for_each to its end (benches/zero.rs:21-22).
ReceiversEnd == disconnected ~> \A r \in Receivers : task[r] = "gone"
==============================================================================
