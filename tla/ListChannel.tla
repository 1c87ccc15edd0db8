----------------------------- MODULE ListChannel -----------------------------
(***************************************************************************)
(* The unbounded channel of src/list.rs: a linked list of blocks of slots. *)
(* Senders advance tail, receivers advance head, and whoever crosses the   *)
(* end of a block installs the next one or moves on to it while the others *)
(* spin.  A block is freed by a reader of one of its slots, the last one   *)
(* to be done with it.  Every action is one access to shared memory with   *)
(* the local computation that follows it.                                  *)
(*                                                                         *)
(* tail.index and head.index are the packed numbers of the code: an index  *)
(* shifted left by one and the mark bit (in tail: disconnected; in head:   *)
(* this block is not the last one).  Of every Lap indices the last is not  *)
(* a slot: an index stands there while the block changes.  They are        *)
(* natural numbers; wrap-around at 2^63 messages is not modelled.          *)
(*                                                                         *)
(* A block is named by the order in which blocks are installed, 0 is null. *)
(* The block a sender allocates ahead of time is nobody else's business,   *)
(* so it comes into being when it is installed.                            *)
(***************************************************************************)
EXTENDS Naturals, Sequences, FiniteSets

CONSTANTS
  BlockCap,   \* BLOCK_CAP, slots in a block (31 in the code)
  Senders, Receivers,
  MaxSends,   \* bound: messages each sender gets through
  NoMsg       \* the content of a slot never written

ASSUME ListAssumption ==
  /\ BlockCap \in Nat \ {0}
  /\ MaxSends \in Nat
  /\ IsFiniteSet(Senders)

VARIABLES
  headIndex, headBlock,  \* head: Position
  tailIndex, tailBlock,  \* tail: Position
  next,       \* next[b]: Block::next
  slotState,  \* slotState[b][i]: which of WRITE, READ, DESTROY are set
  slotMsg,    \* slotMsg[b][i]
  freed,      \* blocks that were deallocated
  pc,         \* where each thread is
  index,      \* its copy of tail.index or head.index
  newIndex,   \* receivers: new_head, then next_index
  block,      \* its copy of tail.block or head.block, then its token's block
  offset,     \* its token's offset; in destroy, the slot it looks at
  nextBlock,  \* receivers: the block after the one exhausted
  \* Ghosts: what happened so far, read by no guard of the algorithm.
  sent, log, taken, got, at, reply   \* as in ArrayChannel

positions == <<headIndex, headBlock, tailIndex, tailBlock>>
blocks    == <<next, slotState, slotMsg, freed>>
local     == <<index, newIndex, block, offset, nextBlock>>
ghosts    == <<sent, log, taken, got, at, reply>>
vars == <<positions, blocks, pc, local, ghosts>>

Threads == Senders \union Receivers
Lap     == BlockCap + 1

\* Enough blocks, and enough room in an abstract queue, for all messages.
AllSends == Cardinality(Senders) * MaxSends
Blocks   == 1 .. (AllSends \div BlockCap) + 1
Offsets  == 0 .. BlockCap - 1

Marked(x)   == x % 2 = 1
Position(x) == x \div 2
OffsetOf(x) == Position(x) % Lap
LapOf(x)    == Position(x) \div Lap
One         == 2                       \* 1 << SHIFT
Mark(x)     == IF Marked(x) THEN x ELSE x + 1
Unmark(x)   == IF Marked(x) THEN x - 1 ELSE x

Msg(p, n) == [from |-> p, seq |-> n]
Reply(k) == [kind |-> k, msg |-> NoMsg]
Received(m) == [kind |-> "received", msg |-> m]

Init ==
  /\ headIndex = 0 /\ headBlock = 0
  /\ tailIndex = 0 /\ tailBlock = 0
  /\ next = [b \in Blocks |-> 0]
  /\ slotState = [b \in Blocks |-> [i \in Offsets |-> {}]]
  /\ slotMsg = [b \in Blocks |-> [i \in Offsets |-> NoMsg]]
  /\ freed = {}
  /\ pc = [p \in Threads |-> "idle"]
  /\ index = [p \in Threads |-> 0]
  /\ newIndex = [p \in Threads |-> 0]
  /\ block = [p \in Threads |-> 0]
  /\ offset = [p \in Threads |-> 0]
  /\ nextBlock = [p \in Threads |-> 0]
  /\ sent = [p \in Senders |-> 0]
  /\ log = << >>
  /\ taken = 0
  /\ got = [p \in Receivers |-> << >>]
  /\ at = [p \in Threads |-> 0]
  /\ reply = [p \in Threads |-> Reply("none")]

Goto(p, from, to) == pc[p] = from /\ pc' = [pc EXCEPT ![p] = to]
Keep(v, p, x) == [v EXCEPT ![p] = x]
Answer(p, r) == reply' = [reply EXCEPT ![p] = r]

AddBit(p, bit) ==
  slotState' = [slotState EXCEPT ![block[p]][offset[p]] = @ \union {bit}]

------------------------------------------------------------------------------
(***************************************************************************)
(* Sending: start_send, then write.                                        *)
(***************************************************************************)
SendStart(p) ==
  /\ sent[p] < MaxSends
  /\ Goto(p, "idle", "send_block")
  /\ index' = Keep(index, p, tailIndex)
  /\ Answer(p, Reply(IF Marked(tailIndex) THEN "late" ELSE "sending"))
  /\ UNCHANGED <<positions, blocks, newIndex, block, offset, nextBlock, sent, log, taken, got, at>>

SendReload(p) ==
  /\ Goto(p, "send_index", "send_block")
  /\ index' = Keep(index, p, tailIndex)
  /\ UNCHANGED <<positions, blocks, newIndex, block, offset, nextBlock, ghosts>>

\* Mutants of SendBlock: the end of the block is not looked for; the mark bit is
\* not.
SendBlockPastEnd(p) ==
  /\ ~Marked(index[p])
  /\ block' = Keep(block, p, tailBlock)
  /\ offset' = Keep(offset, p, OffsetOf(index[p]))
  /\ Goto(p, "send_block", IF tailBlock = 0 THEN "first_block" ELSE "send_cas")
  /\ UNCHANGED <<positions, blocks, index, newIndex, nextBlock, ghosts>>

SendBlockNoMark(p) ==
  /\ block' = Keep(block, p, tailBlock)
  /\ offset' = Keep(offset, p, OffsetOf(index[p]))
  /\ Goto(p, "send_block", CASE OffsetOf(index[p]) = BlockCap -> "send_index"
                              [] OffsetOf(index[p]) # BlockCap /\ tailBlock = 0 -> "first_block"
                              [] OTHER -> "send_cas")
  /\ UNCHANGED <<positions, blocks, index, newIndex, nextBlock, ghosts>>

\* Load tail.block, and go by the index loaded before: disconnected, between
\* two blocks, no block yet, or ready to advance tail.
SendBlock(p) ==
  /\ block' = Keep(block, p, tailBlock)
  /\ offset' = Keep(offset, p, OffsetOf(index[p]))
  /\ \/ /\ Marked(index[p])
        /\ Goto(p, "send_block", "idle")
        /\ Answer(p, Reply("closed"))
     \/ /\ ~Marked(index[p])
        /\ Goto(p, "send_block", CASE OffsetOf(index[p]) = BlockCap -> "send_index"
                                   [] OffsetOf(index[p]) # BlockCap /\ tailBlock = 0 -> "first_block"
                                   [] OTHER -> "send_cas")
        /\ UNCHANGED reply
  /\ UNCHANGED <<positions, blocks, index, newIndex, nextBlock, sent, log, taken, got, at>>

\* The first block: one sender installs it in tail, and then in head.
FirstBlock(p) ==
  /\ \/ /\ tailBlock = 0
        /\ Goto(p, "first_block", "first_head")
        /\ tailBlock' = 1
        /\ block' = Keep(block, p, 1)
     \/ /\ tailBlock # 0
        /\ Goto(p, "first_block", "send_index")
        /\ UNCHANGED <<tailBlock, block>>
  /\ UNCHANGED <<headIndex, headBlock, tailIndex, blocks, index, newIndex, offset, nextBlock, ghosts>>

\* Mutant of FirstHead: head does not get the first block.
FirstHeadNot(p) ==
  /\ Goto(p, "first_head", "send_cas")
  /\ UNCHANGED <<positions, blocks, local, ghosts>>

FirstHead(p) ==
  /\ Goto(p, "first_head", "send_cas")
  /\ headBlock' = block[p]
  /\ UNCHANGED <<headIndex, tailIndex, tailBlock, blocks, local, ghosts>>

\* The compare-exchange of tail.index succeeds.
SendReserve(p) ==
  /\ Goto(p, "send_cas", IF offset[p] + 1 = BlockCap THEN "install" ELSE "write")
  /\ tailIndex = index[p]
  /\ tailIndex' = index[p] + One
  /\ sent' = [sent EXCEPT ![p] = @ + 1]
  /\ log' = Append(log, Msg(p, sent'[p]))
  /\ at' = Keep(at, p, Len(log))
  /\ Answer(p, Reply("sent"))
  /\ UNCHANGED <<headIndex, headBlock, tailBlock, blocks, local, taken, got>>

SendRetry(p) ==
  /\ Goto(p, "send_cas", "send_block")
  /\ index' = Keep(index, p, tailIndex)
  /\ UNCHANGED <<positions, blocks, newIndex, block, offset, nextBlock, ghosts>>

\* It was the last slot: install the next block, let the senders go on, and
\* link it for the receivers.
Install(p) ==
  /\ Goto(p, "install", "advance")
  /\ tailBlock' = block[p] + 1
  /\ UNCHANGED <<headIndex, headBlock, tailIndex, blocks, local, ghosts>>

Advance(p) ==
  /\ Goto(p, "advance", "link")
  /\ tailIndex' = tailIndex + One
  /\ UNCHANGED <<headIndex, headBlock, tailBlock, blocks, local, ghosts>>

Link(p) ==
  /\ Goto(p, "link", "write")
  /\ next' = [next EXCEPT ![block[p]] = block[p] + 1]
  /\ UNCHANGED <<positions, slotState, slotMsg, freed, local, ghosts>>

\* write: the message, then the WRITE bit.
Write(p) ==
  /\ Goto(p, "write", "publish")
  /\ slotMsg' = [slotMsg EXCEPT ![block[p]][offset[p]] = Msg(p, sent[p])]
  /\ UNCHANGED <<positions, next, slotState, freed, local, ghosts>>

Publish(p) ==
  /\ Goto(p, "publish", "idle")
  /\ AddBit(p, "WRITE")
  /\ UNCHANGED <<positions, next, slotMsg, freed, local, ghosts>>

------------------------------------------------------------------------------
(***************************************************************************)
(* Receiving: start_recv, then read (poll_read is the same code).          *)
(***************************************************************************)
RecvStart(p) ==
  /\ Goto(p, "idle", "recv_block")
  /\ index' = Keep(index, p, headIndex)
  /\ Answer(p, Reply("receiving"))
  /\ UNCHANGED <<positions, blocks, newIndex, block, offset, nextBlock, sent, log, taken, got, at>>

RecvReload(p) ==
  /\ Goto(p, "recv_index", "recv_block")
  /\ index' = Keep(index, p, headIndex)
  /\ UNCHANGED <<positions, blocks, newIndex, block, offset, nextBlock, ghosts>>

\* Load head.block.  A marked index says that the block has no free slot left,
\* so there is no need to look at tail.
RecvBlock(p) ==
  /\ block' = Keep(block, p, headBlock)
  /\ offset' = Keep(offset, p, OffsetOf(index[p]))
  /\ newIndex' = Keep(newIndex, p, index[p] + One)
  /\ Goto(p, "recv_block",
       CASE OffsetOf(index[p]) = BlockCap -> "recv_index"
         [] OffsetOf(index[p]) # BlockCap /\ ~Marked(index[p]) -> "recv_tail"
         [] OffsetOf(index[p]) # BlockCap /\ Marked(index[p]) ->
              IF headBlock = 0 THEN "recv_index" ELSE "recv_cas")
  /\ UNCHANGED <<positions, blocks, index, nextBlock, ghosts>>

\* Load tail.index: empty, disconnected, or something to receive.
RecvTail(p) ==
  \/ /\ Position(index[p]) = Position(tailIndex)
     /\ Goto(p, "recv_tail", "idle")
     /\ Answer(p, Reply(IF Marked(tailIndex) THEN "disconnected" ELSE "empty"))
     /\ UNCHANGED <<positions, blocks, local, sent, log, taken, got, at>>
  \/ /\ Position(index[p]) # Position(tailIndex)
     /\ Goto(p, "recv_tail", IF block[p] = 0 THEN "recv_index" ELSE "recv_cas")
     /\ newIndex' = IF LapOf(index[p]) # LapOf(tailIndex)
                      THEN Keep(newIndex, p, Mark(newIndex[p])) ELSE newIndex
     /\ UNCHANGED <<positions, blocks, index, block, offset, nextBlock, ghosts>>

RecvReserve(p) ==
  /\ Goto(p, "recv_cas", IF offset[p] + 1 = BlockCap THEN "wait_next" ELSE "wait_write")
  /\ headIndex = index[p]
  /\ headIndex' = newIndex[p]
  /\ taken' = taken + 1
  /\ at' = Keep(at, p, taken)
  /\ Answer(p, Received(log[taken + 1]))
  /\ UNCHANGED <<headBlock, tailIndex, tailBlock, blocks, local, sent, log, got>>

RecvRetry(p) ==
  /\ Goto(p, "recv_cas", "recv_block")
  /\ index' = Keep(index, p, headIndex)
  /\ UNCHANGED <<positions, blocks, newIndex, block, offset, nextBlock, ghosts>>

\* It was the last slot: wait for the next block, see if that one is full too,
\* and move head to it.
WaitNext(p) ==
  /\ Goto(p, "wait_next", "peek")
  /\ next[block[p]] # 0
  /\ nextBlock' = Keep(nextBlock, p, next[block[p]])
  /\ UNCHANGED <<positions, blocks, index, newIndex, block, offset, ghosts>>

Peek(p) ==
  LET i == Unmark(newIndex[p]) + One IN
  /\ Goto(p, "peek", "move_block")
  /\ newIndex' = Keep(newIndex, p, IF next[nextBlock[p]] # 0 THEN Mark(i) ELSE i)
  /\ UNCHANGED <<positions, blocks, index, block, offset, nextBlock, ghosts>>

MoveBlock(p) ==
  /\ Goto(p, "move_block", "move_index")
  /\ headBlock' = nextBlock[p]
  /\ UNCHANGED <<headIndex, tailIndex, tailBlock, blocks, local, ghosts>>

MoveIndex(p) ==
  /\ Goto(p, "move_index", "wait_write")
  /\ headIndex' = newIndex[p]
  /\ UNCHANGED <<headBlock, tailIndex, tailBlock, blocks, local, ghosts>>

\* Mutant of WaitWrite: it does not wait.
WaitWriteNot(p) ==
  /\ Goto(p, "wait_write", "read")
  /\ UNCHANGED <<positions, blocks, local, ghosts>>

\* read: wait for the WRITE bit, and take the message out.
WaitWrite(p) ==
  /\ Goto(p, "wait_write", "read")
  /\ "WRITE" \in slotState[block[p]][offset[p]]
  /\ UNCHANGED <<positions, blocks, local, ghosts>>

\* The reader of the last slot destroys the block; another one sets READ.
Read(p) ==
  /\ pc[p] = "read"
  /\ got' = [got EXCEPT ![p] = Append(@, [pos |-> at[p], msg |-> slotMsg[block[p]][offset[p]]])]
  /\ IF offset[p] + 1 = BlockCap
       THEN Goto(p, "read", "destroy") /\ offset' = Keep(offset, p, 0)
       ELSE Goto(p, "read", "read_bit") /\ UNCHANGED offset
  /\ UNCHANGED <<positions, blocks, index, newIndex, block, nextBlock, sent, log, taken, at, reply>>

\* Mutant of ReadBit: the DESTROY bit is not looked at.
ReadBitLeaves(p) ==
  /\ Goto(p, "read_bit", "idle")
  /\ AddBit(p, "READ")
  /\ UNCHANGED <<positions, next, slotMsg, freed, local, ghosts>>

\* fetch_or(READ): if DESTROY was set the destruction is this thread's to go on
\* with, from the next slot.
ReadBit(p) ==
  /\ pc[p] = "read_bit"
  /\ AddBit(p, "READ")
  /\ IF "DESTROY" \in slotState[block[p]][offset[p]]
       THEN Goto(p, "read_bit", "destroy") /\ offset' = Keep(offset, p, offset[p] + 1)
       ELSE Goto(p, "read_bit", "idle") /\ UNCHANGED offset
  /\ UNCHANGED <<positions, next, slotMsg, freed, index, newIndex, block, nextBlock, ghosts>>

------------------------------------------------------------------------------
(***************************************************************************)
(* Block::destroy.  The last slot need not be looked at: its reader began  *)
(* the destruction.                                                        *)
(***************************************************************************)
\* Load the state of a slot: pass if it was read.
DestroyLook(p) ==
  /\ pc[p] = "destroy"
  /\ offset[p] < BlockCap - 1
  /\ IF "READ" \in slotState[block[p]][offset[p]]
       THEN Goto(p, "destroy", "destroy") /\ offset' = Keep(offset, p, offset[p] + 1)
       ELSE Goto(p, "destroy", "destroy_bit") /\ UNCHANGED offset
  /\ UNCHANGED <<positions, blocks, index, newIndex, block, nextBlock, ghosts>>

\* Mutant of DestroyBit: it passes in any case.
DestroyBitPasses(p) ==
  /\ Goto(p, "destroy_bit", "destroy")
  /\ AddBit(p, "DESTROY")
  /\ offset' = Keep(offset, p, offset[p] + 1)
  /\ UNCHANGED <<positions, next, slotMsg, freed, index, newIndex, block, nextBlock, ghosts>>

\* fetch_or(DESTROY): pass if it was read meanwhile, or leave the rest to the
\* reader that is still busy with it.
DestroyBit(p) ==
  /\ pc[p] = "destroy_bit"
  /\ AddBit(p, "DESTROY")
  /\ IF "READ" \in slotState[block[p]][offset[p]]
       THEN Goto(p, "destroy_bit", "destroy") /\ offset' = Keep(offset, p, offset[p] + 1)
       ELSE Goto(p, "destroy_bit", "idle") /\ UNCHANGED offset
  /\ UNCHANGED <<positions, next, slotMsg, freed, index, newIndex, block, nextBlock, ghosts>>

Free(p) ==
  /\ offset[p] >= BlockCap - 1
  /\ Goto(p, "destroy", "idle")
  /\ freed' = freed \union {block[p]}
  /\ UNCHANGED <<positions, next, slotState, slotMsg, local, ghosts>>

------------------------------------------------------------------------------
Shutdown ==
  /\ tailIndex' = Mark(tailIndex)
  /\ UNCHANGED <<headIndex, headBlock, tailBlock, blocks, pc, local, ghosts>>

SenderContinues(p) ==
  \/ SendReload(p) \/ SendBlock(p) \/ FirstBlock(p) \/ FirstHead(p) \/ SendRetry(p)
  \/ Install(p) \/ Advance(p) \/ Link(p) \/ Write(p) \/ Publish(p)

ReceiverContinues(p) ==
  \/ RecvReload(p) \/ RecvBlock(p) \/ RecvTail(p) \/ RecvRetry(p)
  \/ WaitNext(p) \/ Peek(p) \/ MoveBlock(p) \/ MoveIndex(p)
  \/ WaitWrite(p) \/ Read(p) \/ ReadBit(p)
  \/ DestroyLook(p) \/ DestroyBit(p) \/ Free(p)

Next ==
  \/ \E p \in Senders : SendStart(p) \/ SendReserve(p) \/ SenderContinues(p)
  \/ \E p \in Receivers : RecvStart(p) \/ RecvReserve(p) \/ ReceiverContinues(p)
  \/ Shutdown

Spec == Init /\ [][Next]_vars

\* As for the ring: a thread inside a call keeps running, and a weak
\* compare-exchange that could succeed does not fail for ever.
Fairness ==
  /\ \A p \in Senders : WF_vars(SenderContinues(p)) /\ SF_vars(SendReserve(p))
  /\ \A p \in Receivers : WF_vars(ReceiverContinues(p)) /\ SF_vars(RecvReserve(p))

FairSpec == Spec /\ Fairness
------------------------------------------------------------------------------
(***************************************************************************)
(* Channel::drop, when all handles are gone: it goes over the positions    *)
(* from head to tail, and past a block end it is in the next block.        *)
(***************************************************************************)
DropPositions == Position(headIndex) .. Position(tailIndex)

DropBlock ==
  LET BlockAt[i \in DropPositions] ==
        IF i = Position(headIndex) THEN headBlock
        ELSE IF (i - 1) % Lap = BlockCap THEN next[BlockAt[i - 1]]
        ELSE BlockAt[i - 1]
  IN  BlockAt

\* Mutant of DropsSlot: the last slot of a block is passed over.
DropsSlotEarly(i) == i % Lap < BlockCap - 1

\* The indices at which it finds a slot, and not the end of a block.
DropsSlot(i) == i % Lap < BlockCap

\* The messages it destroys, in its order.
DroppedMessages ==
  LET From[i \in DropPositions] ==
        IF i = Position(tailIndex) THEN << >>
        ELSE IF DropsSlot(i) THEN <<slotMsg[DropBlock[i]][i % Lap]>> \o From[i + 1]
        ELSE From[i + 1]
  IN  From[Position(headIndex)]

\* The blocks it deallocates: those it passes, and the one it ends in.
DroppedBlocks == {DropBlock[i] : i \in DropPositions} \ {0}
------------------------------------------------------------------------------
(***************************************************************************)
(* Properties.                                                             *)
(***************************************************************************)
Message == [from : Senders, seq : 1 .. MaxSends]

SendLabels == {"send_index", "send_block", "first_block", "first_head", "send_cas",
               "install", "advance", "link", "write", "publish"}
RecvLabels == {"recv_index", "recv_block", "recv_tail", "recv_cas", "wait_next", "peek",
               "move_block", "move_index", "wait_write", "read", "read_bit",
               "destroy", "destroy_bit"}

\* Threads that go through the block pointer in their hands: they have reserved
\* a slot of it, or are destroying it.
Uses(p) == pc[p] \in {"link", "write", "publish", "wait_next", "wait_write", "read",
                      "read_bit", "destroy", "destroy_bit"}

\* Messages that hold a position no receiver has reserved yet, oldest first.
Pending == SubSeq(log, taken + 1, Len(log))

\* The channel as its callers see it: a queue with room for every message.
Fifo == INSTANCE BoundedFifo WITH
          Cap <- AllSends + 1, queue <- Pending, closed <- Marked(tailIndex)

\* Shape of the state.  A thread that has reserved something has a real slot:
\* never the index between two blocks, never the null block.
TypeOK ==
  /\ headIndex \in Nat /\ tailIndex \in Nat
  /\ headBlock \in {0} \union Blocks /\ tailBlock \in {0} \union Blocks
  /\ next \in [Blocks -> {0} \union Blocks]
  /\ slotState \in [Blocks -> [Offsets -> SUBSET {"WRITE", "READ", "DESTROY"}]]
  /\ slotMsg \in [Blocks -> [Offsets -> Message \union {NoMsg}]]
  /\ freed \subseteq Blocks
  /\ pc \in [Threads -> {"idle"} \union SendLabels \union RecvLabels]
  /\ index \in [Threads -> Nat] /\ newIndex \in [Threads -> Nat]
  /\ block \in [Threads -> {0} \union Blocks]
  /\ nextBlock \in [Threads -> {0} \union Blocks]
  /\ offset \in [Threads -> 0 .. BlockCap]
  /\ \A p \in Threads : Uses(p) => offset[p] \in Offsets /\ block[p] \in Blocks
  /\ sent \in [Senders -> 0 .. MaxSends]
  /\ taken <= Len(log)
  /\ reply \in [Threads -> [kind : Fifo!ReplyKinds, msg : Message \union {NoMsg}]]

\* A block is deallocated only when no thread will go through a pointer to it
\* any more, and by one thread: neither a sender that has still to link it or to
\* write into it, nor a reader, nor a second thread in Block::destroy, nor a
\* receiver that looks ahead at the block after its own (list.rs:83-98).
NoUseAfterFree ==
  \A p \in Threads :
    /\ Uses(p) => block[p] \notin freed
    /\ pc[p] = "peek" => nextBlock[p] \notin freed

\* What a receiver takes out of a slot is the message put in by the send that
\* reserved the same position, also across the end of a block, where tail, head
\* and the link between the blocks change one after the other.
ReadsWhatWasSent ==
  \A r \in Receivers : \A i \in 1 .. Len(got[r]) :
    /\ got[r][i].pos < Len(log)
    /\ got[r][i].msg = log[got[r][i].pos + 1]

AllIdle == \A p \in Threads : pc[p] = "idle"

\* When no call is in progress Channel::drop destroys every message that was
\* sent and not received, and no other: it never meets an empty slot, and the
\* index between two blocks is not taken for one.
DropTakesTheRest == AllIdle => DroppedMessages = Pending

\* No block leaks and none is freed twice: those the readers have deallocated and
\* those Channel::drop deallocates are together all that were ever installed, and
\* they have none in common.
NoBlockLeaks ==
  AllIdle => /\ freed \union DroppedBlocks = 1 .. tailBlock
             /\ freed \intersect DroppedBlocks = {}

\* Every call takes effect at one instant between its start and its return, as
\* on a FIFO queue that is never full.  The receivers that go by head's mark bit
\* and do not look at tail are included.
ImplementsFifo == Fifo!FifoSpec

\* Under fairness every call returns: the spinning at the end of a block, on the
\* first block, in wait_next and in wait_write always ends.
EveryCallReturns == \A p \in Threads : pc[p] # "idle" ~> pc[p] = "idle"
=============================================================================
