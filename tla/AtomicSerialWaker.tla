------------------------- MODULE AtomicSerialWaker -------------------------
(***************************************************************************)
(* src/atomic_serial_waker.rs: a lock-free queue of tasks waiting to be    *)
(* notified.  A channel has one for its senders and one for its receivers. *)
(*                                                                         *)
(* Threads call register (the task they run wants to be notified), wake    *)
(* (notify one task) and wake_all, and interleave between any two accesses *)
(* to the queue or to a counter.  A wake that finds nobody is banked in    *)
(* waiting, and the next register spends it.                               *)
(*                                                                         *)
(* The queue is crossbeam's ArrayQueue, an external linearizable FIFO of   *)
(* QueueCap elements: push fails on a full one, pop on an empty one.       *)
(***************************************************************************)
EXTENDS Naturals, Sequences, FiniteSets

CONSTANTS
  Procs,       \* threads that call the waker; a task is named by its thread
  QueueCap,    \* ArrayQueue::new(4)
  CountRange,  \* from_me wraps at CountRange (usize: 2^64)
  NoTask       \* held[p] when thread p holds no task

\* To be assumed where the waker is used.
WakerAssumption ==
  /\ QueueCap \in Nat \ {0}
  /\ CountRange \in Nat \ {0}
  /\ NoTask \notin Procs

VARIABLES
  queue,     \* waker: the registered tasks, next to be woken first
  waiting,   \* wakes that found no task
  fromMe,    \* from_me: notifications sent by this waker and not yet consumed
  wpc,       \* where each thread is in register/wk/wake/wake_all
  held,      \* the task a thread has popped and not yet disposed of
  notified   \* notified[t]: task t is due to be polled (set by Task::notify)

Calls == {"register", "wake", "wake_all"}
Labels == Calls \union {"idle", "wk", "positive_update", "push_back", "wait",
                        "count", "notify", "count_all", "notify_all"}

WakerInit ==
  /\ queue = << >>
  /\ waiting = 0
  /\ fromMe = 0
  /\ wpc = [p \in Procs |-> "idle"]
  /\ held = [p \in Procs |-> NoTask]

At(p, l) == wpc[p] = l
Goto(p, l) == wpc' = [wpc EXCEPT ![p] = l]
Hold(p, t) == held' = [held EXCEPT ![p] = t]

\* Entry of register, wake or wake_all; the first shared access comes later.
Call(p, op) ==
  /\ At(p, "idle")
  /\ Goto(p, op)
  /\ UNCHANGED <<queue, waiting, fromMe, held, notified>>

\* Pop a task and go on to label l with it, or to e if there is none.
Pop(p, l, e) ==
  \/ /\ queue # << >>
     /\ queue' = Tail(queue)
     /\ Hold(p, Head(queue))
     /\ Goto(p, l)
  \/ /\ queue = << >>
     /\ Goto(p, e)
     /\ UNCHANGED <<queue, held>>

\* Mutant of Push: a queue without a bound.
PushUnbounded(p, t, l) ==
  /\ queue' = Append(queue, t)
  /\ Hold(p, NoTask)
  /\ Goto(p, l)

\* Push task t and go on to label l; a full queue gives it back, and then the
\* thread notifies the task at once.
Push(p, t, l) ==
  \/ /\ Len(queue) < QueueCap
     /\ queue' = Append(queue, t)
     /\ Hold(p, NoTask)
     /\ Goto(p, l)
  \/ /\ Len(queue) = QueueCap
     /\ Hold(p, t)
     /\ Goto(p, "count")
     /\ UNCHANGED queue

\* register: push current(), then wk.
Register(p) ==
  /\ At(p, "register")
  /\ Push(p, p, "wk")
  /\ UNCHANGED <<waiting, fromMe, notified>>

\* wk: take the task at the front, which need not be the caller's own.
WkPop(p) ==
  /\ At(p, "wk")
  /\ Pop(p, "positive_update", "idle")
  /\ UNCHANGED <<waiting, fromMe, notified>>

\* Spend a banked wake on the task popped, if there is one.  positive_update
\* takes effect at its last access: the compare-exchange that decrements, or
\* the read of zero.
PositiveUpdate(p) ==
  /\ At(p, "positive_update")
  /\ \/ waiting > 0 /\ waiting' = waiting - 1 /\ Goto(p, "count")
     \/ waiting = 0 /\ waiting' = waiting /\ Goto(p, "push_back")
  /\ UNCHANGED <<queue, fromMe, held, notified>>

\* Mutants of PushBack: a task is not put back; one that does not fit is dropped.
PushBackForgets(p) ==
  /\ At(p, "push_back")
  /\ Hold(p, NoTask)
  /\ Goto(p, "idle")
  /\ UNCHANGED <<queue, waiting, fromMe, notified>>

PushBackDrops(p) ==
  /\ At(p, "push_back")
  /\ queue' = IF Len(queue) < QueueCap THEN Append(queue, held[p]) ELSE queue
  /\ Hold(p, NoTask)
  /\ Goto(p, "idle")
  /\ UNCHANGED <<waiting, fromMe, notified>>

\* No banked wake was seen: back into the queue, at its end.
PushBack(p) ==
  /\ At(p, "push_back")
  /\ Push(p, held[p], "idle")
  /\ UNCHANGED <<waiting, fromMe, notified>>

\* wake: notify the task at the front, or bank the wake.
Wake(p) ==
  /\ At(p, "wake")
  /\ Pop(p, "count", "wait")
  /\ UNCHANGED <<waiting, fromMe, notified>>

Wait(p) ==
  /\ At(p, "wait")
  /\ waiting' = waiting + 1
  /\ Goto(p, "idle")
  /\ UNCHANGED <<queue, fromMe, held, notified>>

\* wake_all: notify until the queue is found empty; nothing is banked.
WakeAll(p) ==
  /\ At(p, "wake_all")
  /\ Pop(p, "count_all", "idle")
  /\ UNCHANGED <<waiting, fromMe, notified>>

\* from_me is incremented before the task is notified.
Count(p) ==
  /\ \/ At(p, "count") /\ Goto(p, "notify")
     \/ At(p, "count_all") /\ Goto(p, "notify_all")
  /\ fromMe' = (fromMe + 1) % CountRange
  /\ UNCHANGED <<queue, waiting, held, notified>>

Notify(p) ==
  /\ \/ At(p, "notify") /\ Goto(p, "idle")
     \/ At(p, "notify_all") /\ Goto(p, "wake_all")
  /\ notified' = [notified EXCEPT ![held[p]] = TRUE]
  /\ Hold(p, NoTask)
  /\ UNCHANGED <<queue, waiting, fromMe>>

Step(p) ==
  \/ Register(p) \/ WkPop(p) \/ PositiveUpdate(p) \/ PushBack(p)
  \/ Wake(p) \/ Wait(p) \/ WakeAll(p) \/ Count(p) \/ Notify(p)

\* The owner of the channel consumes a notification: positive_update(&from_me).
Consume ==
  /\ fromMe > 0
  /\ fromMe' = fromMe - 1
  /\ UNCHANGED <<queue, waiting, wpc, held, notified>>

------------------------------------------------------------------------------
Registered(t) == \E i \in 1 .. Len(queue) : queue[i] = t

\* Threads that hold a task on its way to a notification.
Notifying(p) == wpc[p] \in {"count", "notify", "count_all", "notify_all"}

\* Threads that hold a task at all: also those that will put it back.
Holding(p) == Notifying(p) \/ wpc[p] \in {"positive_update", "push_back"}

WakerTypeOK ==
  /\ queue \in Seq(Procs) /\ Len(queue) <= QueueCap
  /\ waiting \in Nat
  /\ fromMe \in 0 .. CountRange - 1
  /\ wpc \in [Procs -> Labels]
  /\ held \in [Procs -> Procs \union {NoTask}]
  /\ \A p \in Procs : Holding(p) <=> held[p] # NoTask
==============================================================================
