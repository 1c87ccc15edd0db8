# zchan in TLA+

A verification project for zchan, the rewrite of crossbeam-channel for futures 0.1 and tokio 0.1.
Source references are to files of `src/src/` (`array.rs:195`). Modules are checked with TLC on small
instances. With TLAPS every safety property that a run checks, and both refinements of the queues and that of the
channel without capacity, are proved for every capacity and any number of threads; liveness stays with TLC.

## 1. The system

| Part | State | Operations |
|---|---|---|
| Bounded channel, `array.rs` | a ring of `cap` slots, each with a stamp and a message cell; `head` and `tail`, packed as lap, mark bit and index; `first`; two task wakers | `try_send`, `send`, `try_recv`, `Sink::start_send`, `Stream::poll`, `len`, `is_empty`, `is_full`, `shutdown`, drop |
| Unbounded channel, `list.rs` | a linked list of blocks of 31 slots, each with WRITE, READ and DESTROY bits; `head` and `tail`, each an index and a block pointer; `first`; one task waker | the same |
| Rendezvous channel, `zero.rs`, with `waker.rs`, `context.rs`, `select.rs`, `utils.rs` | two lists of blocked threads under a spinlock, packets on their stacks, a select cell per thread; two task wakers | the same; `recv` and `_send` block the thread |
| Task waker, `atomic_serial_waker.rs` | a lock-free queue of at most 4 tasks; `waiting`, the wakes that found nobody; `from_me`, the notifications not yet consumed | `register`, `wake`, `wake_all`, `positive_update` |
| Reference counter, `counter.rs` | a count of sender handles, one of receiver handles, `destroy` | clone, drop, and forwarding of Sink and Stream |
| Errors, `error.rs`; glue, `lib.rs`, `channel.rs`; `benches/` | none | |

How they interact. A handle (`counter.rs`) is a raw pointer to one allocation that holds both counts and the
channel; the last handle of a side calls the channel's `shutdown`. Threads call the channel directly
(`try_send`, `try_recv`), and tasks through Sink and Stream. A successful send calls `wake` of the receivers' waker,
a successful receive that of the senders' waker, and `shutdown` calls `wake_all` of both. A task that cannot go on
calls `register` and returns NotReady; the executor polls it again after it was notified.

What is hard: no lock protects a slot, a block, or the queue of tasks. Everything hangs on the order of single
atomic accesses, on values loaded at different instants being put together, and on a parked task still
being known to somebody. `hazards` in `PROJECT.json` lists the places by line. The repository has no test of any of it.

What makes each part correct:
- the channels: each slot is one thread's at a time; a receive returns the message of the send with the same
  position; to its callers the channel is a FIFO queue, each call taking effect at one instant; calls return; blocks are
  freed once, after their last use, and nothing leaks;
- Sink and Stream: no receiver sleeps while there is something to receive or the channel is shut down;
- the channel without capacity: a send and a receive that overlap meet, at one instant, and the message goes to the one
  receiver that was selected or back to its sender; a packet on a stack outlives its last use; no entry is left behind;
- the task waker: a registration is answered by exactly one notification;
- the counter: the channel is freed exactly once, after the last use.

## 2. Modules

| Module | Models | Extends or uses |
|---|---|---|
| `BoundedFifo` | abstract: a FIFO queue of at most `Cap` messages that can be closed; a call is made, takes effect, returns | |
| `ArrayChannel` | the ring of `array.rs`, one action per atomic access | implements `BoundedFifo` |
| `ArrayChannelInv` | its inductive invariant | `ArrayChannel` |
| `ArrayObservers` | `len`, `is_empty`, `is_full`, drop of `array.rs` | `ArrayChannel` |
| `ListChannel` | `list.rs`: sending, receiving, destruction of blocks, shutdown, drop | implements `BoundedFifo` |
| `ListObservers` | `len` of `list.rs` | `ListChannel` |
| `AtomicSerialWaker` | the task waker, one action per access to its queue or counters | |
| `RefCounter` | `counter.rs` | |
| `WakerClients` | handles and a waker inside the allocation they share | `RefCounter`, an instance of `AtomicSerialWaker` |
| `ArrayTasks` | Sink and Stream of `array.rs`, executor, handles, shutdown | `BoundedFifo` as the ring, two instances of `AtomicSerialWaker` |
| `ListTasks` | Sink and Stream of `list.rs` | `ArrayTasks`, `BoundedFifo` with room for all as the list |
| `Rendezvous` | abstract: a send and a receive that overlap meet in one step; a call is made, is decided, returns | |
| `ZeroChannel` | the channel of `zero.rs` with its spinlock, lists, select cells and packets | implements `Rendezvous` |
| `ZeroTasks` | Sink and Stream of `zero.rs`, an executor with a number of workers, handles, shutdown | `ZeroChannel`, two instances of `AtomicSerialWaker` |
| `ListChannelInv` | its inductive invariant | `ListChannel` |
| `ArrayChannelProofs`, `ArrayObserversProofs` | proofs about the ring, its refinement included | `ArrayChannelInv`, `ArrayObservers` |
| `ListChannelProofs` | proofs about the list, its refinement included | `ListChannelInv` |
| `WakerClientsProofs` | proofs about the counter, and the counter with a waker | `WakerClients` |
| `AtomicSerialWakerProofs` | lemmas about one waker, whoever uses it | `AtomicSerialWaker` |
| `TasksProofs` | proofs about tasks on the ring and on the list | `ListTasks`, two instances of `AtomicSerialWakerProofs` |
| `ZeroChannelProofs` | proofs about the channel without capacity, its refinement included | `ZeroChannel` |
| `ZeroTasksProofs` | proofs about its tasks | `ZeroTasks`, `ZeroChannelProofs`, two instances of `AtomicSerialWakerProofs` |
| `MCArrayChannel`, `MCListChannel`, `MCTasks`, `MCZero` | the instances: symmetry, several of them in one run | |

Operators whose comment says "Mutant of X" are X with a plausible bug; nothing in the specifications uses them. They
record, for each property, a change of the code that the property catches (`mutants` in `PROJECT.json`).

### From the code to ArrayChannel

`head`, `tail` and `slotStamp` are the packed numbers of the code, with masking written as arithmetic
(`MarkBit` is a power of two). `seen` is the local copy `tail` of `start_send` or `head` of `start_recv`, `token` the
`Array` token, `pc` the next access. Loads, stores and compare-exchanges are one action each: `SendStart` loads tail,
`SendInspect` the stamp, `SendReserve` and `SendRetry` are the two outcomes of the compare-exchange (the weak form may
fail for no reason), `SendFull` and `SendNotFull` load head, `Write` and `Publish` are the two halves of `write`.
Receiving is the mirror image; `read` and `poll_read` are the same code. `send` is `start_send` repeated, so it is a
`SendStart` after a `full`. `Shutdown` may happen at any time: the
code calls it only when one side has no handle left, but it is a public method too.

`sent`, `log`, `taken`, `at`, `got` and `reply` are history: what was reserved, in which order, and what each call
returns. No guard of the algorithm reads them; `sent[p] < MaxSends` bounds the runs.

In `ArrayObservers` an observer interleaves with the ring. `lengths` is history: the lengths the ring has had since the
load that an answer is about.

### From the code to ListChannel

Blocks are numbered in the order in which they are installed; null is 0. A block allocated ahead is private to
a sender until it is installed, so the allocation is no step. Each of the three stores at the end of a block
(`list.rs:233-235`), the three steps of moving head (`:325-331`) and each access of a slot's bits is an action. `Uses`
says which labels still go through a block pointer.

### From the code to AtomicSerialWaker, RefCounter and WakerClients

`ArrayQueue` (crossbeam) is external and modelled as what its users rely on: an atomic FIFO queue with a bound. A thread
in `register`, `wk`, `wake` or `wake_all` is at a label `wpc`, with the task it popped in `held`. `positive_update` takes
effect at its last access. `from_me` wraps at `CountRange`.

A handle's `state` is its place in `release`: the `fetch_sub`, `shutdown`, `destroy.swap`, the deallocation. Different
handles interleave between these; one handle is owned by one thread, which Rust guarantees.

`WakerClients` puts the waker into the allocation that the counter owns: live handles register and wake, and the last
handle of a side runs `shutdown` after it gave up its reference (`counter.rs:70-76`); the first shutdown goes on to `wake_all`,
a later one returns (`array.rs:439-448`). There the two parts meet: the
waker is used by a thread that is no longer counted, and must still be there. `asked` and `told` count registrations
and notifications.

### From the code to ArrayTasks and ListTasks

`ArrayTasks` replaces the ring by `BoundedFifo`, which is what the refinement theorem licenses: between two waker calls a
task makes one `start_send` or `start_recv`, which takes effect at one instant. The accesses to `first`, `from_me`,
`waiting` and the wakers' queues interleave one by one. A task is polled when it was notified or for a reason
of its own (a combinator such as `select` polls all its parts); it may be cancelled while parked. One task drives one
handle. `ListTasks` takes from it what `list.rs` has word for word, and replaces what differs: there is always
room, and there is no waker for senders.

### From the code to ZeroChannel and ZeroTasks

What a thread does to `Inner` under the spinlock is one action (`Meet`, `GiveUp`, `TooLate`, `Wait`, `Leave`, `Shut`), with the
lock taken and given back in steps of their own. `shutdown` writes the select cells one by one while their owners
spin on them without the lock, so `Disconnect` is a step per cell. What happens to a packet after the lock was given up is again
an access per action: `Transfer` writes or takes the message, `Ready` sets the flag, `Selected` and `WaitReady` are the two
spinning loops, `TakeBack` is the unwrap after a disconnect. `pc` says where a thread is, `partner` is the pointer `Zero`. The
context is cached per thread (`context.rs:42`), so `select[p]` keeps its value from one call to the next and `Wait` resets
it. `reply` is history: what was decided about a call, at the step in which it was decided; `result` is what the code
returns. `Call` makes calls of all kinds in any order. What `TooLate` does stands for the check under the lock in
both kinds of call.

`ZeroTasks` makes the calls in the order of `start_send` and `poll`, and puts the wakes back where the code has them
(`Wakes`): after the lock and before the packet in `write` and `read`, and under the lock, after the entry was made, in `_send`
and `recv`. A task that is in a call holds a worker of the executor; only `poll` gives it back, by NotReady. `Shutdown` of
`zero.rs` calls no asynchronous waker. As in `ArrayTasks`, a task may be polled without having been notified.

## 3. Runs

| Run | Instance | Shows |
|---|---|---|
| `array_ring` | cap 2, 2 senders of 2, 2 receivers | safety of the ring; the invariant of the proofs; drop; refinement of `BoundedFifo`, replies included |
| `array_observers` | cap 1, 2 senders of 1, 1 receiver | `len` and `is_full`; every call returns |
| `tasks` | cap 1 or no bound, 2 senders of 1, 1 receiver, waker queues of 2 | parking and waking with handles dropped and tasks cancelled: safety and liveness, for `array.rs` and for `list.rs` |
| `handles` | 2 handles a side, waker queue of 1, one call of the waker each | freed once, after the last use, always; conservation of registrations, also when the queue is full |
| `list_senders` | blocks of 2, 2 senders of 2, 1 receiver | races for the first block and at two block ends; refinement; the spinning ends |
| `list_readers` | blocks of 2, 1 sender of 4, 2 receivers | two blocks received and destroyed by two; drop; refinement |
| `zero` | 2 senders, 1 receiver; threads with a third one that shuts down, or tasks on 2 or 3 workers | packets, unwraps, replies, entries; refinement of `Rendezvous`; calls return, blocked senders are served |

Runs that find a disagreement between the code and what it says of itself:

| Run | What happens |
|---|---|
| `array_is_empty` | `is_empty` masks tail with the mark bit, not with its complement (`array.rs:422`), and so is true of a channel that holds messages. |
| `array_lost_sender` | A sender that found the ring full registers and does not look again. While `wk` holds the only registration and has read `waiting = 0`, the receiver's wake finds nobody and is banked; the registration goes back. The channel is empty and both tasks sleep. |
| `array_shared_receiver` | Clones of a receiver share `first` and `from_me`. One that finds `first` cleared and `from_me` zero parks without having registered: the channel is disconnected, and it is never told. |
| `list_len` | `len` computes `tail -= LAP` for a tail that stands at the same block end as head: an underflow. With overflow checks a panic, without them (`Width` bits in the model, 64 in the code) a huge length. |
| `zero_end` | `shutdown` of `zero.rs` wakes no task. A receiver that answered NotReady with its registration still in the queue is never polled again, and does not see the end of the stream, to which the benchmark drives it. |

Noted while modelling, and no run of its own: `register` takes the task at the front of the queue and, with no wake banked,
puts it at the end, so two tasks are not woken in the order in which they registered, although the README of the
repository calls the waker FIFO. And senders that block in `start_send` on the channel without capacity can hold all workers of the
executor, so that the receiver they wait for never runs: `BlockedSendEnds` names this exception (`AllWorkersWait`)
and holds otherwise. No line of the repository promises more.

### Bounds, and why they are enough

- Capacity 1 and 2: with 1 every send crosses a lap, with 2 there are crossings and non-crossings. The proofs cover every
  capacity.
- `BlockCap` 2 instead of 31: the first slot is not the last. What happens within a block does not depend on its size,
  except that the destruction of a longer block may be handed over more than once; the runs cross two block ends,
  so that a block is installed, linked, looked ahead at, handed over and freed.
- Two threads on a side race for each compare-exchange.
- Waker queues of 1 and 2 instead of 4 (`QueueCap`, `WakerCap`): one or two registrations fill them. `CountRange`, at which
  `from_me` wraps, is 2 to 4. In the runs of tasks with one receiver that is above what `from_me` reaches (`OneRegistration`): one
  more would show as a violation. In `handles` nobody consumes the notifications, so `from_me` may wrap; none of its properties
  depends on it.
- `zero`: `MaxCalls` 2, so that a thread calls again after a call of any outcome, with its cached select cell as that call left
  it. `AllCalls` 5 is the number of calls all threads make together: less than the sum, so that the state space stays
  small, and enough for both senders to wait, one to be met, shutdown to come, and a call after it. `MaxItems` 1: each
  sender task sends one message, the receiver polls again after each. `Pools`: no executor (threads only), two workers, which
  two blocked senders can exhaust, and three, which they cannot.
- `MaxSends`, `MaxCalls`, `MaxItems`, `AllCalls` bound the runs and are no part of the code. Lap counts and list indices
  are natural numbers; wrap-around after 2^57 laps or 2^63 messages is not modelled.
- Symmetry is used for safety only. `CHECK_DEADLOCK FALSE` stands where all tasks, threads or handles may be gone or have made
  all their calls, or where one may wait for good; For the ring and the list the check is left on, but says nothing: `shutdown` can be called at any time, so some step is always
  enabled. That no call is stuck is what `EveryCallReturns` shows.

### Fairness

- `ArrayChannel`, `ListChannel`: weak fairness of a thread inside a call (the scheduler runs it), none for making a call,
  and strong fairness of a compare-exchange that would succeed: a weak compare-exchange may fail spuriously, but
  does not for ever. That compare-exchanges lost to others stop being lost rests on `MaxSends`: senders are not
  wait-free, and no property says they are. Receivers that find nothing return and are not in the loop.
  `ArrayObservers` adds none: nobody makes the observer go on.
- `ArrayTasks`, `ListTasks`: weak fairness of a task that is being polled, and of the poll of a notified task: the executor's
  contract. No fairness for polls without a notification or for cancellation.
- `ZeroChannel`: weak fairness of a thread inside a call. The spinlock is not fair; that a thread gets it in the end rests on
  `MaxCalls`. `ZeroTasks`: weak fairness of a task that has a worker, and of the poll of a notified task while a worker is
  free. Polls without a notification may happen, but not for ever (`FinallyNotified`): as the spinlock is not fair, a task that
  is polled without end could keep the lock from a task that drops its handle. A task without a worker is promised nothing, which is what `AllWorkersWait` is about.
- `RefCounter`, `WakerClients`: weak fairness of a drop or a call that has begun.

## 4. Proofs

### The ring: `ArrayChannelProofs`, `ArrayObserversProofs`

For any `Cap > 0`, any `MarkBit > Cap`, any sets of threads and any `MaxSends` (`CapAssumption`).

- `Invariance`: `Spec => []IInv`. None of the safety properties is inductive. `IInv` numbers the messages by their
  reservations: position `k` lives in slot `k % Cap` with stamp `Stamp(k)`. It says that tail and head stand at
  positions `Len(log)` and `taken`; that a position in between carries a full stamp and its message, unless its
  writer is still at it; that a position up to a lap ahead carries a free stamp, unless the reader one lap before is still at
  it; what a token of a writer or a reader is; and, in `Copy`, why the compare-exchange on the counter alone is
  enough: if the counter still has the value copied, the stamp compared earlier is still there. The last point is what the
  code relies on between `array.rs:183` and `:197`.
- `TypeCorrect`, `MutualExclusion`, `CapacityRespected`, `ReadsAreWrites`, `AtMostOnce`, `OrderPreserved` follow from `IInv`.
- `Refinement`: `Spec => ImplementsFifo`. The queue is the part of `log` not yet taken, closed is the mark in tail. A send or
  a receive takes effect at its compare-exchange, a refusal at the load of head or tail that decides it. That a send
  refused as closed may have begun before the shutdown is why `BoundedFifo` tells "late" sends apart.
- `LenIsExact`, `FullIsSound`: `IInv`, and what the copies of an observer have to do with the ring: as long as tail is what
  it was, the head loaded since belongs to it (`ObserverInv`). `DropIsExact`: the slots that drop visits are the
  positions not yet taken.

`ArrayChannelProofs` begins with the arithmetic of packed numbers, has one lemma per action or group of actions that
change the same variables, and ends with the refinement, one lemma per kind of step.

### The list: `ListChannelProofs`

For any `BlockCap > 0`, any sets of threads of which the senders are finite (so that the number of blocks is), and any
`MaxSends` (`ListAssumption`).

- `Invariance`: `Spec => []IInv`, from `ListChannelInv`. Slot `i` of block `b` is that of message `Num(b, i)`. `TailPlace` and
  `HeadPlace` say which message the two packed indices stand for; at the end of a block the index stands at offset
  `BlockCap`, where nobody reserves, and exactly one thread is moving it (`MovesTail`, `MovesHead`, `WriterToken`,
  `ReaderToken`), in the four steps in which block, index and link change. `SendCopy` and `RecvCopy` say why a compare-exchange on
  the index is enough to own a slot of the *block* loaded after it; for receivers, that an index is marked only while tail
  is in a later block, which is why they need not look at tail. `Slots` says what each bit stands for.
- The destruction of a block is a duty (`DestructionOf`). From the moment the message of the last slot was taken, exactly one party has it:
  the thread in `Block::destroy`, at slot `offset`, with all slots before read; or the reader of the one slot in which DESTROY is set
  and READ is not; or nobody, as the block is freed. `NoUseAfterFreeAlways` follows, since each thread that still uses a block
  holds a slot of it whose READ bit is not set; so does `NoBlockLeaksEver`: once nobody is in a call the freed blocks are those
  that head has left, and drop walks over the others.
- `ReadsWhatWasSentAlways`, `TypeCorrect`, `DropTakesTheRestAlways` (drop's recursion along the positions is shown to yield the part of
  the log not yet taken by induction on the distance from tail, done as a least counterexample).
- `Refinement`: `Spec => ImplementsFifo`. As for the ring; a refusal is decided by the load of tail.index. That head and tail stand at
  the same message when their positions are equal, and only then or when one of them is between two blocks, is what
  makes "empty" right (`NothingPending`, `SomethingPending`). `ListTasks` puts `BoundedFifo` in the place of the list because of this
  theorem, and `ArrayTasks` in the place of the ring because of the other.

### The counter and the waker: `WakerClientsProofs`

For any two disjoint finite sets of handles (`HandlesAssumption`), any capacity of the queue, any range of
`from_me` and any number of calls (`ClientsAssumption`).

- `CountsAreExact`, `NobodyUsesFreed`, `ShutIsJustified` from `CounterInv`. That a handle which is no longer counted may
  still use the allocation is why `NoUseAfterFree` is not inductive. What is missing: of a side at most one handle is between
  its `fetch_sub` and its swap (`LastOfSide`); `destroy` is set exactly when some side is `Done`, and whoever frees comes when
  both are (`SecondFrees`); and shutdown came before the swap (`ShutFirst`).
- `ClientsImplementCounter`: a step of the composition is a step of the counter or leaves it alone, so that all of this holds
  while threads are inside the waker: `ClientsNeverUseFreed`.
- `ClientsKeepTheirShape`: `WakerInv` says what a thread holds at each label, and that it is inside the waker only as long as
  its handle may touch the allocation.
- `RegistrationsAreConserved`: each step moves one registration between the queue, a hand and a notification, also when a push
  fails. The lemmas count places in the queue and hands.

### The channel without capacity: `ZeroChannelProofs`

For any disjoint sets of senders, receivers and closers, finite or not, and any `MaxCalls` (`ZeroAssumption`, which also says that
`NoMsg` is no message).

- `LockExcludes`, `PacketsOutliveTheirUse`, `NoUnwrapPanics`, `NothingIsMixedUp`, `EntriesAreTakenOut` from `ZeroInv`. Its heart is
  the life of a waiting thread. Until it is selected (`Pending`) it is in the list of its side exactly once, its packet
  holds what it put there, and nothing is decided about it unless the channel was shut down (`EntryInv`, `PacketInv`). Once selected
  (`Selectee`), its call is decided, and the thread that selected it is the only one that uses its packet, until it sets
  `ready` (`Serves`, `PartnerInv`, `SelecteeInv`). `CellInv` says where it may be by what its cell says; `ShutInv`, that shutdown
  leaves nobody waiting when it gives up the lock.
- `ZeroIsRendezvous`: `Spec => ImplementsRendezvous`. What waits is what is in the lists, as long as the channel is open, and nothing
  afterwards: shutdown takes effect when it sets the flag, although it writes the cells later. Two more facts are needed: the call of
  a thread that has not looked yet is undecided (`UndecidedInv`), and only one side waits (`OneSideWaits`). That the
  first entry whose cell is still waiting is the first entry (`MeetsTheFirst`) is what makes meetings happen in the order of
  waiting.

### The tasks: `AtomicSerialWakerProofs`, `TasksProofs`, `ZeroTasksProofs`

For any finite set of tasks, any capacity of the wakers' queues and of the channel, any number of workers and of messages
(`TasksAssumption`, `ZeroAssumption`). The set of tasks is finite because the handle counts of the models are cardinalities. A task drives
one handle, so that senders and receivers are disjoint. `TasksProofs` proves each result of `Spec` (the ring) and of `ListSpec` (the
list), whose steps on the wakers are the same.

- `AtomicSerialWakerProofs` states what a step of a waker does, once, for its two instances in either module: the shape is kept
  (`StepType`), a registration is in the queue or in somebody's hands until its task is notified (`StepKeeps`), and how the
  one registration of a single receiver moves between the queue, a hand and `from_me` (`Sole`, `NoneOut`, `OneOut`, `Counted`, `Coming`).
- `TasksTyped` from `TasksInv`: the handle counts are those of the handles not released, and a task is in `register` only
  where its poll or `start_send` stands (`RegistersFromPoll`).
- `ParkedSenderKeptAlways`: `FullIsKept`, for a sender that found the channel full, and `StepKeeps`. The case that matters is the
  queue that is full: `register` then notifies the task that it cannot keep.
- `OneRegistrationAlways`, with a single receiver `r`: `Shared(r)` says that as long as `first` is set, and while the poll stands between
  having consumed and registering, the waker has nothing of `r` (`NoneOut`); at all other times it has exactly one registration: in the
  queue, in one hand, or counted in `from_me` (`OneOut`). So the two accesses of poll to `first`, which are not one atomic step,
  cannot make it register twice, and `positive_update` cannot lose a count.
- `NoStrandedReceiverAlways`, `NoReceiverParkedAlways`: `Awaited(r)` adds that until the first registration `r` is still due to be polled;
  that what was counted since it last looked is followed by its notification; and, for a receiver that found nothing, that while there is
  something to receive, or the channel is closed, it is due, or will see that it has to register again, or somebody is on the way to its
  registration. In `ZeroTasks` the receiver that finds nobody to meet has found the list of senders empty (`Looked`), and a
  sender that enters it later wakes under the lock.
- `TasksMeetSafely`: the steps of `ZeroTasks` are calls of other kinds in another order, and `ZeroInv` does not care. So the five
  safety properties of `ZeroChannel` hold for any number of tasks and workers.

Two hypotheses of these theorems are more than the shape of the constants. `Receivers = {r}`: with a cloned receiver
`NoStrandedReceiver` is false, as `array_shared_receiver` shows, so this is how the channel has to be used and not something the code makes
sure of. `CountRange > 1`: `from_me` is a `usize`; with range 1 no registration would ever be counted. Both invariants were checked with
TLC on the instances of the runs before they were proved.

### Only model-checked

- Liveness (`EveryCallReturns`, `AcceptedIsReceived`, `ReceiversEnd`, `NoLeak`, `BlockedSendEnds`): it needs fairness and ENABLED, which
  TLAPS does not do here.
- What the violation runs refute.

## 5. What is not modelled

- Memory orderings: the models interleave sequentially consistent accesses. Whether `load_consume`, Acquire, Release and the
  fences of the code suffice on a weaker machine is not examined.
- `is_empty` of `list.rs`, which compares two loaded indices and changes nothing.
- In `zero.rs`, `waker.rs` and `context.rs`, what no call reaches in this commit: packets on the heap, `Context::wait_until` with its
  deadline, `wait_packet`, `Waker::register` without a packet, `can_select`, and `Selected::Aborted`. A thread does not wait in its own
  list while it looks for a partner, so the test for the own entry in `try_select` has nothing to pass over.
  `Context::packet` is stored and never read.
- Panics of messages' destructors, allocation failure, `process::abort` of the counters at `usize::MAX`.
- `error.rs`, the constructors and type names of `channel.rs` and `lib.rs`, the benchmarks: no state of their own.

## 6. Plan

Done: the two queues and the channel without capacity, each with its tasks; the counter and the waker; proofs of all safety
properties and of the three refinements. What is left, in this order:

1. The composition: a step of `ArrayTasks` with the ring itself in place of `BoundedFifo`, for which the refinement theorem stands
   today.
2. What can be said of several receivers: which of them may be left parked, and until when.
3. A longer block (three slots) in `list_readers`, if it stays within reach, for a destruction handed over twice; the proofs
   cover every block size.
