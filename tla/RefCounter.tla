----------------------------- MODULE RefCounter -----------------------------
(***************************************************************************)
(* src/counter.rs: the reference counts that own a channel.  A channel is  *)
(* one heap allocation shared by raw pointers: the handles of the sending  *)
(* side and those of the receiving side.  Handles are cloned and dropped   *)
(* by any thread.  The last handle of a side disconnects the channel, and  *)
(* of the two sides the one that comes second frees the allocation.        *)
(*                                                                         *)
(* A handle is owned by one thread at a time (Rust's ownership): it is not *)
(* cloned or used while it is dropped.  Handles that are different touch   *)
(* the allocation concurrently.  The counters are natural numbers; the     *)
(* abort at usize::MAX is not modelled.                                    *)
(***************************************************************************)
EXTENDS Naturals, FiniteSets

CONSTANTS
  SenderHandles,    \* names for Sender handles, each used at most once
  ReceiverHandles,  \* names for Receiver handles
  FirstSender, FirstReceiver  \* the two handles that new() returns

ASSUME HandlesAssumption ==
  /\ FirstSender \in SenderHandles
  /\ FirstReceiver \in ReceiverHandles
  /\ SenderHandles \intersect ReceiverHandles = {}
  /\ IsFiniteSet(SenderHandles) /\ IsFiniteSet(ReceiverHandles)

Handles == SenderHandles \union ReceiverHandles
Sides   == {"senders", "receivers"}

Side(h)   == IF h \in SenderHandles THEN "senders" ELSE "receivers"
OfSide(s) == {h \in Handles : Side(h) = s}

VARIABLES
  count,     \* count[s]: Counter::senders and Counter::receivers
  destroy,   \* Counter::destroy
  shut,      \* the channel was told to shut down
  freed,     \* the allocation is gone
  state      \* state[h]: life of a handle, and where it is in release

vars == <<count, destroy, shut, freed, state>>

Init ==
  /\ count = [s \in Sides |-> 1]
  /\ destroy = FALSE
  /\ shut = FALSE
  /\ freed = FALSE
  /\ state = [h \in Handles |->
                IF h \in {FirstSender, FirstReceiver} THEN "live" ELSE "unborn"]

Become(h, from, to) == state[h] = from /\ state' = [state EXCEPT ![h] = to]

\* Mutant of Acquire: the new handle is not counted.
AcquireUncounted(h, g) ==
  /\ state[h] = "live"
  /\ Side(g) = Side(h)
  /\ Become(g, "unborn", "live")
  /\ UNCHANGED <<count, destroy, shut, freed>>

\* acquire, on behalf of clone: handle h makes handle g.
Acquire(h, g) ==
  /\ state[h] = "live"
  /\ Side(g) = Side(h)
  /\ Become(g, "unborn", "live")
  /\ count' = [count EXCEPT ![Side(h)] = @ + 1]
  /\ UNCHANGED <<destroy, shut, freed>>

\* mem::forget: the handle is gone, its reference is not.
Forget(h) ==
  /\ Become(h, "live", "forgotten")
  /\ UNCHANGED <<count, destroy, shut, freed>>

\* Mutant of Release: the count that fetch_sub returns is the one before.
ReleaseOffByOne(h) ==
  /\ Become(h, "live", IF count[Side(h)] = 2 THEN "disconnect" ELSE "dropped")
  /\ count' = [count EXCEPT ![Side(h)] = @ - 1]
  /\ UNCHANGED <<destroy, shut, freed>>

\* release, first access: the handle that takes the count to zero goes on to
\* disconnect the channel.
Release(h) ==
  /\ Become(h, "live", IF count[Side(h)] = 1 THEN "disconnect" ELSE "dropped")
  /\ count' = [count EXCEPT ![Side(h)] = @ - 1]
  /\ UNCHANGED <<destroy, shut, freed>>

\* disconnect: Channel::shutdown, on the channel inside the allocation.
Disconnect(h) ==
  /\ Become(h, "disconnect", "swap")
  /\ shut' = TRUE
  /\ UNCHANGED <<count, destroy, freed>>

\* Mutants of Swap: the first of the two sides frees already; destroy is loaded
\* and not set.
SwapFrees(h) ==
  /\ Become(h, "swap", "free")
  /\ destroy' = TRUE
  /\ UNCHANGED <<count, shut, freed>>

SwapLoads(h) ==
  /\ Become(h, "swap", IF destroy THEN "free" ELSE "dropped")
  /\ UNCHANGED <<count, destroy, shut, freed>>

\* destroy.swap(true): the second of the two sides frees.
Swap(h) ==
  /\ Become(h, "swap", IF destroy THEN "free" ELSE "dropped")
  /\ destroy' = TRUE
  /\ UNCHANGED <<count, shut, freed>>

Free(h) ==
  /\ Become(h, "free", "dropped")
  /\ freed' = TRUE
  /\ UNCHANGED <<count, destroy, shut>>

Finish(h) == Disconnect(h) \/ Swap(h) \/ Free(h)

Next ==
  \E h \in Handles :
    \/ \E g \in Handles : Acquire(h, g)
    \/ Forget(h)
    \/ Release(h)
    \/ Finish(h)

Spec == Init /\ [][Next]_vars

\* A drop that has begun is finished.
FairSpec == Spec /\ \A h \in Handles : WF_vars(Finish(h))
------------------------------------------------------------------------------
(***************************************************************************)
(* Properties.                                                             *)
(***************************************************************************)
States == {"unborn", "live", "forgotten", "disconnect", "swap", "free", "dropped"}

\* Handles that hold a reference, and handles that still touch the allocation.
Counted(h)  == state[h] \in {"live", "forgotten"}
Touching(h) == state[h] \in {"live", "disconnect", "swap", "free"}

\* Shape of the state; a count is the number of references it counts.
TypeOK ==
  /\ count \in [Sides -> Nat]
  /\ destroy \in BOOLEAN /\ shut \in BOOLEAN /\ freed \in BOOLEAN
  /\ state \in [Handles -> States]
  /\ \A s \in Sides : count[s] = Cardinality({h \in OfSide(s) : Counted(h)})

\* Nobody touches the allocation after it was freed: not a live handle, and not
\* the last handle of the other side, which still has to run shutdown and to
\* swap destroy after it gave up its reference.
NoUseAfterFree == freed => \A h \in Handles : ~Touching(h)

\* The channel is told to shut down only after one side has lost its last
\* reference, and it is told before it is freed.
ShutWhenSideGone ==
  /\ shut => \E s \in Sides : count[s] = 0
  /\ freed => shut

\* Once neither side has a reference left the allocation is freed.
NoLeak == (\A s \in Sides : count[s] = 0) ~> freed
=============================================================================
