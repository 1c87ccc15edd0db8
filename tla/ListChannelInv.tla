--------------------------- MODULE ListChannelInv ---------------------------
(***************************************************************************)
(* The inductive invariant of ListChannel.                                 *)
(*                                                                         *)
(* Number the messages by the order in which their senders advanced tail:  *)
(* slot i of block b is that of message Num(b, i).  Two threads change     *)
(* tail, or head, in several steps when a block is exhausted; until they   *)
(* are done its index stands at offset BlockCap, where nobody reserves.    *)
(*                                                                         *)
(* The destruction of a block is a duty that exactly one party has: the    *)
(* thread inside Block::destroy, or the reader of a slot in which DESTROY  *)
(* is set and READ is not, or nobody any more because the block is freed.  *)
(***************************************************************************)
EXTENDS ListChannel

Num(b, i) == (b - 1) * BlockCap + i

TailLap    == LapOf(tailIndex)
TailOffset == OffsetOf(tailIndex)
HeadLap    == LapOf(headIndex)
HeadOffset == OffsetOf(headIndex)

\* Before the compare-exchange on tail.index, or head.index.
Sending(p)   == pc[p] \in {"send_index", "send_block", "first_block", "first_head", "send_cas"}
Receiving(p) == pc[p] \in {"recv_index", "recv_block", "recv_tail", "recv_cas"}

\* The slot of block[p] at offset[p] is p's to write, or to read.
Writing(p) == pc[p] \in {"install", "advance", "link", "write", "publish"}
Reading(p) == pc[p] \in {"wait_next", "peek", "move_block", "move_index",
                         "wait_write", "read", "read_bit"}

\* It was the last slot of the block, and p is moving tail, or head, on.
MovesTail(p) == pc[p] \in {"install", "advance"}
MovesHead(p) == pc[p] \in {"wait_next", "peek", "move_block", "move_index"}

Destroying(p) == pc[p] \in {"destroy", "destroy_bit"}

WritesSlot(p, b, i) == Writing(p) /\ block[p] = b /\ offset[p] = i
ReadsSlot(p, b, i)  == Reading(p) /\ block[p] = b /\ offset[p] = i
Destroys(p, b)      == Destroying(p) /\ block[p] = b

State(b, i) == slotState[b][i]

------------------------------------------------------------------------------
\* Types of the ghosts, which TypeOK leaves out.
GhostTypes ==
  /\ log \in Seq(Message)
  /\ taken \in Nat
  /\ got \in [Receivers -> Seq([pos : Nat, msg : Message \union {NoMsg}])]
  /\ at \in [Threads -> Nat]

\* tail stands at the next message to be reserved, or at the end of its block
\* while a sender is installing the next one.
TailPlace ==
  /\ Len(log) = Num(TailLap + 1, TailOffset)
  /\ (\A p \in Threads : ~MovesTail(p)) => TailOffset # BlockCap
  /\ (\A p \in Threads : ~MovesTail(p)) =>
       \/ tailBlock = TailLap + 1
       \/ tailBlock = 0 /\ TailLap = 0 /\ TailOffset = 0

HeadPlace ==
  /\ taken = Num(HeadLap + 1, HeadOffset)
  /\ Position(headIndex) <= Position(tailIndex)
  /\ Marked(headIndex) /\ HeadOffset # BlockCap => HeadLap < TailLap
  /\ (\A p \in Threads : ~MovesHead(p)) => HeadOffset # BlockCap
  /\ (\A p \in Threads : ~MovesHead(p)) => headBlock \in {0, HeadLap + 1}

\* The first block gets into tail and then into head, by one sender.
FirstBlockOnce ==
  /\ tailBlock = 0 => headBlock = 0
  /\ headBlock = 0 => headIndex = 0
  /\ headBlock = 0 /\ tailBlock # 0 => \E p \in Threads : pc[p] = "first_head"
  /\ \A p \in Threads : pc[p] = "first_head" => headBlock = 0 /\ tailBlock # 0 /\ block[p] = 1
  /\ \A p, q \in Threads : pc[p] = "first_head" /\ pc[q] = "first_head" => p = q

\* A block that tail has left is linked to the next one, or is about to be; a
\* block that head has left is linked.
Links ==
  \A b \in Blocks :
    /\ next[b] \in {0, b + 1}
    /\ next[b] # 0 => b <= TailLap
    /\ next[b] = 0 /\ b <= TailLap => \E p \in Threads : pc[p] = "link" /\ block[p] = b
    /\ b <= HeadLap => next[b] # 0

\* Which labels a thread can be at, and the replies that go with a call in
\* progress.
Role(p) ==
  /\ pc[p] \in SendLabels => p \in Senders
  /\ pc[p] \in RecvLabels => p \in Receivers
  /\ Sending(p) => /\ sent[p] < MaxSends
                   /\ \/ reply[p] = Reply("sending")
                      \/ reply[p] = Reply("late") /\ pc[p] = "send_block" /\ Marked(index[p])
  /\ Receiving(p) => reply[p] = Reply("receiving")
  /\ ~Sending(p) /\ ~Receiving(p) => reply[p].kind \notin Fifo!InProgress

\* The copy of tail.index is not ahead of it.  Where it is still the value of
\* tail.index, tail.block is the block loaded after it.
SendCopy(p) ==
  /\ Sending(p) => index[p] <= tailIndex
  /\ Sending(p) /\ Marked(index[p]) => Marked(tailIndex)
  /\ pc[p] \in {"first_block", "first_head", "send_cas"} =>
       ~Marked(index[p]) /\ offset[p] = OffsetOf(index[p]) /\ offset[p] # BlockCap
  /\ pc[p] \in {"first_head", "send_cas"} =>
       block[p] # 0 /\ (index[p] = tailIndex => block[p] = tailBlock)

\* The same for head.  The mark in the index to be stored is never put there for
\* the last block.
RecvCopy(p) ==
  /\ Receiving(p) => index[p] <= headIndex
  /\ pc[p] \in {"recv_tail", "recv_cas"} =>
       /\ offset[p] = OffsetOf(index[p]) /\ offset[p] # BlockCap
       /\ index[p] = headIndex /\ block[p] # 0 => block[p] = headBlock
  /\ pc[p] = "recv_tail" => ~Marked(index[p]) /\ newIndex[p] = index[p] + One
  /\ pc[p] = "recv_cas" =>
       /\ block[p] # 0
       /\ newIndex[p] \in {index[p] + One, Mark(index[p] + One)}
       /\ index[p] = headIndex =>
            /\ Position(headIndex) < Position(tailIndex)
            /\ Marked(newIndex[p]) => HeadLap < TailLap

\* A thread that has reserved a slot to write.
WriterToken(p) ==
  Writing(p) =>
    /\ block[p] \in Blocks /\ offset[p] \in Offsets
    /\ at[p] = Num(block[p], offset[p]) /\ at[p] < Len(log)
    /\ log[at[p] + 1] = Msg(p, sent[p])
    /\ "WRITE" \notin State(block[p], offset[p])
    /\ pc[p] = "publish" => slotMsg[block[p]][offset[p]] = log[at[p] + 1]
    /\ MovesTail(p) => /\ TailOffset = BlockCap
                       /\ block[p] = TailLap + 1 /\ offset[p] = BlockCap - 1
                       /\ tailBlock = IF pc[p] = "install" THEN block[p] ELSE block[p] + 1
    /\ pc[p] = "link" => /\ block[p] <= TailLap /\ offset[p] = BlockCap - 1
                         /\ next[block[p]] = 0

\* A thread that has reserved a slot to read.
ReaderToken(p) ==
  Reading(p) =>
    /\ block[p] \in Blocks /\ offset[p] \in Offsets
    /\ at[p] = Num(block[p], offset[p]) /\ at[p] < taken
    /\ "READ" \notin State(block[p], offset[p])
    /\ pc[p] \in {"read", "read_bit"} => "WRITE" \in State(block[p], offset[p])
    /\ pc[p] = "read_bit" => offset[p] # BlockCap - 1
    /\ MovesHead(p) =>
         /\ HeadOffset = BlockCap
         /\ block[p] = HeadLap + 1 /\ offset[p] = BlockCap - 1
         /\ headBlock = IF pc[p] = "move_index" THEN block[p] + 1 ELSE block[p]
         /\ pc[p] # "wait_next" => nextBlock[p] = block[p] + 1 /\ next[block[p]] # 0
         /\ pc[p] \in {"wait_next", "peek"} => newIndex[p] = headIndex
         /\ pc[p] \in {"move_block", "move_index"} =>
              /\ Position(newIndex[p]) = Position(headIndex) + 1
              /\ Marked(newIndex[p]) => HeadLap + 1 < TailLap

\* No slot has two writers, or two readers.
OneSlotEach ==
  \A p, q \in Threads :
    /\ p # q
    /\ (Writing(p) /\ Writing(q)) \/ (Reading(p) /\ Reading(q))
    => block[p] # block[q] \/ offset[p] # offset[q]

\* What the bits of a slot say.
Slots ==
  \A b \in Blocks : \A i \in Offsets :
    /\ "WRITE" \in State(b, i) => Num(b, i) < Len(log) /\ slotMsg[b][i] = log[Num(b, i) + 1]
    /\ "WRITE" \notin State(b, i) /\ Num(b, i) < Len(log) =>
         \E p \in Threads : WritesSlot(p, b, i)
    /\ "READ" \in State(b, i) => Num(b, i) < taken /\ "WRITE" \in State(b, i)
    /\ "READ" \notin State(b, i) /\ Num(b, i) < taken /\ i # BlockCap - 1 =>
         \E p \in Threads : ReadsSlot(p, b, i)

\* The message in the last slot of the block was taken out, which is when the
\* reader begins the destruction.
Begun(b) ==
  /\ Num(b, BlockCap - 1) < taken
  /\ \A p \in Threads : ~ReadsSlot(p, b, BlockCap - 1)

\* The duty to destroy block b: the slots before d are done with, and those
\* after it not looked at.
UpTo(b, d) ==
  /\ \A i \in Offsets : i < d => "READ" \in State(b, i)
  /\ \A i \in Offsets : i > d => "DESTROY" \notin State(b, i)

\* It was left to the reader of slot d.
LeftAt(b, d) == "DESTROY" \in State(b, d) /\ "READ" \notin State(b, d)

DestructionOf(b) ==
  /\ Begun(b) => "WRITE" \in State(b, BlockCap - 1)
  /\ \A p \in Threads : Destroys(p, b) =>
       /\ Begun(b) /\ b \notin freed
       /\ offset[p] \in Offsets /\ UpTo(b, offset[p])
       /\ "DESTROY" \notin State(b, offset[p])
       /\ pc[p] = "destroy_bit" => offset[p] # BlockCap - 1
  /\ \A p, q \in Threads : Destroys(p, b) /\ Destroys(q, b) => p = q
  /\ \A d \in Offsets : "DESTROY" \in State(b, d) => Begun(b) /\ d # BlockCap - 1
  /\ \A d \in Offsets : LeftAt(b, d) =>
       /\ b \notin freed /\ UpTo(b, d)
       /\ \A p \in Threads : ~Destroys(p, b)
  /\ b \in freed => Begun(b) /\ \A i \in Offsets : i # BlockCap - 1 => "READ" \in State(b, i)
  /\ Begun(b) => \/ b \in freed
                 \/ \E p \in Threads : Destroys(p, b)
                 \/ \E d \in Offsets : LeftAt(b, d)

Destruction == \A b \in Blocks : DestructionOf(b)

\* Each message of the log is a different one.
LogDistinct ==
  /\ \A i \in 1 .. Len(log) : log[i].seq <= sent[log[i].from]
  /\ \A i, j \in 1 .. Len(log) : log[i] = log[j] => i = j

IInv ==
  /\ TypeOK /\ GhostTypes
  /\ TailPlace /\ HeadPlace /\ FirstBlockOnce /\ Links
  /\ \A p \in Threads : Role(p) /\ SendCopy(p) /\ RecvCopy(p) /\ WriterToken(p) /\ ReaderToken(p)
  /\ OneSlotEach
  /\ Slots
  /\ Destruction
  /\ LogDistinct
  /\ ReadsWhatWasSent
=============================================================================
