---------------------------- MODULE WakerClients ----------------------------
(***************************************************************************)
(* The two parts every kind of channel is built on, put together: the      *)
(* handles of src/counter.rs and one waker of src/atomic_serial_waker.rs   *)
(* inside the allocation that the handles share.  Each handle is in the    *)
(* hands of one thread, which registers its task or wakes somebody as it   *)
(* likes.  The last handle of a side runs shutdown when it no longer holds *)
(* a reference, and with it wake_all, if it is the first to shut down.     *)
(***************************************************************************)
EXTENDS RefCounter, Sequences

CONSTANTS
  QueueCap,    \* capacity of the waker's queue
  CountRange,  \* from_me wraps at CountRange
  NoTask,
  MaxCalls     \* bound: calls of register and wake that each thread makes

VARIABLES
  queue, waiting, fromMe, wpc, held, notified,  \* the waker
  calls,  \* calls[h]: calls the thread of handle h has made
  asked,  \* asked[h]: how often its task was registered
  told    \* told[h]: how often its task was notified

waker       == <<queue, waiting, fromMe, wpc, held, notified>>
clientVars  == <<vars, waker, calls, asked, told>>

W == INSTANCE AtomicSerialWaker WITH Procs <- Handles

ASSUME ClientsAssumption == W!WakerAssumption /\ MaxCalls \in Nat

ClientsInit ==
  /\ Init
  /\ W!WakerInit
  /\ notified = [h \in Handles |-> FALSE]
  /\ calls = [h \in Handles |-> 0]
  /\ asked = [h \in Handles |-> 0]
  /\ told = [h \in Handles |-> 0]

InWaker(h) == wpc[h] # "idle"

Invoke(h, op) ==
  /\ state[h] = "live"
  /\ calls[h] < MaxCalls
  /\ calls' = [calls EXCEPT ![h] = @ + 1]
  /\ W!Call(h, op)
  /\ UNCHANGED <<vars, asked, told>>

Proceed(h) ==
  /\ W!Step(h)
  /\ asked' = IF W!At(h, "register") THEN [asked EXCEPT ![h] = @ + 1] ELSE asked
  /\ told' = IF W!Notifying(h) /\ held'[h] = NoTask
               THEN [told EXCEPT ![held[h]] = @ + 1] ELSE told
  /\ UNCHANGED <<vars, calls>>

\* A thread clones, forgets or drops its handle between two calls.
Handle(h) ==
  /\ ~InWaker(h)
  /\ \/ \E g \in Handles : Acquire(h, g)
     \/ Forget(h)
     \/ Release(h)
  /\ UNCHANGED <<waker, calls, asked, told>>

\* disconnect begins: the shutdown that finds the channel open goes on to wake_all,
\* after which destroy.swap comes; a later one returns at once.
BeginDisconnect(h) ==
  /\ Disconnect(h)
  /\ \/ ~shut /\ W!Call(h, "wake_all")
     \/ shut /\ UNCHANGED waker
  /\ UNCHANGED <<calls, asked, told>>

EndDisconnect(h) ==
  /\ ~InWaker(h)
  /\ Swap(h) \/ Free(h)
  /\ UNCHANGED <<waker, calls, asked, told>>

ClientFinish(h) == BeginDisconnect(h) \/ EndDisconnect(h) \/ Proceed(h)

ClientsNext ==
  \E h \in Handles :
    \/ \E op \in {"register", "wake"} : Invoke(h, op)
    \/ Handle(h)
    \/ ClientFinish(h)

\* A call or a drop that has begun is finished.
ClientsSpec ==
  /\ ClientsInit /\ [][ClientsNext]_clientVars
  /\ \A h \in Handles : WF_clientVars(ClientFinish(h))
------------------------------------------------------------------------------
(***************************************************************************)
(* Properties.                                                             *)
(***************************************************************************)
\* Shape of the state of both parts.  A thread is inside the waker only while
\* its handle entitles it to touch the allocation.
ClientsTypeOK ==
  /\ TypeOK
  /\ W!WakerTypeOK
  /\ \A h \in Handles : InWaker(h) => Touching(h)

Occurrences(t) == Cardinality({i \in 1 .. Len(queue) : queue[i] = t})

\* A registration is answered by exactly one notification, and until then it is
\* in the queue or in the hands of one thread: two threads that pop, rotate and
\* push back at once neither drop a task nor notify it twice, also when the
\* queue is full, and while wake_all empties it.
RegistrationsConserved ==
  \A t \in Handles :
    asked[t] = told[t] + Occurrences(t) + Cardinality({p \in Handles : held[p] = t})
=============================================================================
