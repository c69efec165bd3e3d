------------------------------ MODULE Pipeline -------------------------------
(***************************************************************************)
(* A server's pipeline at work on real buffers: the transport's read loop,  *)
(* a Chunker, an application that answers every chunk with the same bytes   *)
(* from within its handler, and the transport's write buffer.  Around the   *)
(* Chunker there may be stages that look at the bytes and pass them on, and *)
(* stages that have no handler for them.                                   *)
(*                                                                         *)
(* The answer to one chunk runs through Chunker::onOutbound() while         *)
(* Chunker::onInbound() waits in its loop for the next.                     *)
(***************************************************************************)
EXTENDS ByteBuf, Conveyor, SequencesExt

CONSTANTS
  Limit,      \* kChunkLimit
  ReadMax,    \* 4096, the most one readSome() takes
  MaxWrites,  \* 256, the most writeSome() calls of one onWritable()
  Incoming,   \* the bytes the peer sends
  MaxStages   \* bound: the stages added

ASSUME PipelineAssumptions ==
  /\ Limit \in Nat /\ MaxStages \in Nat
  /\ ReadMax \in Nat \ {0} /\ MaxWrites \in Nat \ {0}
  /\ Incoming \in Seq(Octet)

(* The stages that every such pipeline has, with their handlers. *)
ASSUME StagesAssumption ==
  /\ {"head", "chunker", "app"} \subseteq Types
  /\ "outbound" \in Handles["head"]
  /\ {"inbound", "outbound"} \subseteq Handles["chunker"]
  /\ "inbound" \in Handles["app"]

VARIABLES
  rbuf,       \* buf of onReadable()
  in,         \* the Chunker's in_
  pending,    \* its pending_
  wbuf,       \* the transport's wbuf_
  writeArmed, \* WRONLY is watched
  writing,    \* onWritable() is in its loop
  writes,     \* the writeSome() calls of the last onWritable()
  came,       \* how many bytes of the peer's have been received
  wire,       \* the bytes sent to the peer
  got,        \* the chunks the application has been given
  refused     \* a chunk over the limit has come

dataVars == <<rbuf, in, pending, wbuf, came, wire, got, refused>>
writeVars == <<writeArmed, writing, writes>>
vars == <<conveyorVars, dataVars, writeVars>>

Framed(c) == UI32Bytes(Len(c)) \o c
FramedAll(s) == FlattenSeq([i \in 1..Len(s) |-> Framed(s[i])])

Init ==
  /\ ConveyorInit
  /\ rbuf = EmptyBuf /\ in = EmptyBuf /\ pending = 0 /\ wbuf = EmptyBuf
  /\ writeArmed = FALSE /\ writing = FALSE /\ writes = 0
  /\ came = 0 /\ wire = <<>> /\ got = <<>> /\ refused = FALSE

Ready == stages # <<>> /\ stages[Len(stages)] = "app"

(* The stages are added when the connection is made: the head first, one     *)
(* Chunker, the application last.                                           *)
Build(type) ==
  /\ ~Ready /\ Len(stages) < MaxStages
  /\ type = "head" <=> stages = <<>>
  /\ type = "chunker" => ~Contains(stages, "chunker")
  /\ type = "app" => Contains(stages, "chunker")
  /\ AddLast(type)
  /\ UNCHANGED <<dataVars, writeVars>>

-----------------------------------------------------------------------------
(* The transport.                                                          *)

(* readSome() in the loop of onReadable(). *)
Recv ==
  /\ Idle /\ Ready /\ ~writing
  /\ \E n \in 1..Least(ReadMax, Len(Incoming) - came) :
       /\ rbuf' = Write(rbuf, SubSeq(Incoming, came + 1, came + n))
       /\ came' = came + n
  /\ UNCHANGED <<conveyorVars, in, pending, wbuf, wire, got, refused,
                 writeVars>>

(* The read loop is over, and what it read goes into the pipeline. *)
Inbound ==
  /\ Idle /\ ReadableBytes(rbuf) > 0
  /\ stack' = FireInboundFrom(1, rbuf, <<>>)
  /\ rbuf' = EmptyBuf
  /\ UNCHANGED <<stages, in, pending, wbuf, came, wire, got, refused,
                 writeVars>>

(* onWritable(): epoll reports the socket writable between two handlers.     *)
OnWritable ==
  /\ writeArmed /\ ~writing
  /\ Idle /\ ReadableBytes(rbuf) = 0
  /\ writing' = TRUE
  /\ writes' = 0
  /\ UNCHANGED <<conveyorVars, dataVars, writeArmed>>

InWriteLoop == writing /\ writes < MaxWrites /\ ReadableBytes(wbuf) > 0

(* writeSome(): the kernel takes some of headroom(). *)
Writev ==
  /\ InWriteLoop
  /\ \E n \in 1..ReadableBytes(wbuf) :
       /\ wire' = wire \o SubSeq(Readable(wbuf), 1, n)
       /\ wbuf' = Advance(wbuf, n)
  /\ writes' = writes + 1
  /\ UNCHANGED <<conveyorVars, rbuf, in, pending, came, got, refused,
                 writeArmed, writing>>

(* Fault: WRONLY is disarmed although the loop is left with bytes to write.  *)
WriteBlocksUnwatched ==
  /\ InWriteLoop /\ writes > 0
  /\ writing' = FALSE
  /\ writeArmed' = FALSE
  /\ UNCHANGED <<conveyorVars, dataVars, writes>>

(* It takes no more.  The first write of a socket that epoll has reported    *)
(* writable takes something.                                                *)
WriteBlocks ==
  /\ InWriteLoop /\ writes > 0
  /\ writing' = FALSE
  /\ UNCHANGED <<conveyorVars, dataVars, writeArmed, writes>>

(* The loop is over: WRONLY is disarmed, with bytes left or not. *)
WriteDone ==
  /\ writing
  /\ ReadableBytes(wbuf) = 0 \/ writes = MaxWrites
  /\ writing' = FALSE
  /\ writeArmed' = FALSE
  /\ UNCHANGED <<conveyorVars, dataVars, writes>>

WriteLoop == OnWritable \/ Writev \/ WriteBlocks \/ WriteDone

-----------------------------------------------------------------------------
(* Stages.  A step is what a handler does up to its next call.              *)

Runs(type, dir, pc) ==
  ~Idle /\ stages[Top.at] = type /\ Top.dir = dir /\ Top.pc = pc

(* A stage that passes its event on and is done when the call returns. *)
Relay ==
  /\ \/ /\ Runs("relay", "inbound", "called")
        /\ stack' = FireInbound(Top.buf, Continued(Top.buf, "fired"))
     \/ /\ Runs("relay", "outbound", "called")
        /\ stack' = FireOutbound(Top.buf, Continued(Top.buf, "fired"))
  /\ UNCHANGED <<stages, dataVars, writeVars>>

Done ==
  /\ ~Idle /\ Top.pc = "fired"
  /\ stack' = Returned
  /\ UNCHANGED <<stages, dataVars, writeVars>>

(* Chunker::onInbound(): the event's bytes are moved into in_. *)
ChunkerTakes ==
  /\ Runs("chunker", "inbound", "called")
  /\ LET t == Transfer(Top.buf, in, ReadableBytes(Top.buf))
     IN  in' = t.dst /\ stack' = Continued(t.src, "loop")
  /\ UNCHANGED <<stages, rbuf, pending, wbuf, came, wire, got, refused,
                 writeVars>>

(* The length and the buffer behind it, as a turn of the loop sees them. *)
Headed == IF pending # 0 THEN [out |-> pending, buf |-> in] ELSE ReadUI32(in)

Turn == Runs("chunker", "inbound", "loop") /\ (pending # 0 \/ HasUI32(in))

ChunkerLacksHeader ==
  /\ Runs("chunker", "inbound", "loop") /\ pending = 0 /\ ~HasUI32(in)
  /\ stack' = Returned
  /\ UNCHANGED <<stages, dataVars, writeVars>>

(* failure() calls the transport's shutdown() with a value it refuses. *)
ChunkerRefuses ==
  /\ Turn /\ pending = 0 /\ Headed.out > Limit
  /\ in' = EmptyBuf
  /\ refused' = TRUE
  /\ stack' = Returned
  /\ UNCHANGED <<stages, rbuf, pending, wbuf, came, wire, got, writeVars>>

(* Less than the payload: the loop is left, the length is kept. *)
ChunkerLacksPayload ==
  /\ Turn /\ Headed.out <= Limit /\ ReadableBytes(Headed.buf) < Headed.out
  /\ in' = Headed.buf /\ pending' = Headed.out
  /\ stack' = Returned
  /\ UNCHANGED <<stages, rbuf, wbuf, came, wire, got, refused, writeVars>>

(* A chunk is fired, and the loop goes on when the call returns. *)
ChunkerDelivers ==
  /\ Turn /\ Headed.out <= Limit /\ ReadableBytes(Headed.buf) >= Headed.out
  /\ LET t == Transfer(Headed.buf, EmptyBuf, Headed.out)
     IN  in' = t.src /\ stack' = FireInbound(t.dst, stack)
  /\ pending' = 0
  /\ UNCHANGED <<stages, rbuf, wbuf, came, wire, got, refused, writeVars>>

ChunkerIn ==
  \/ ChunkerTakes \/ ChunkerLacksHeader \/ ChunkerRefuses
  \/ ChunkerLacksPayload \/ ChunkerDelivers

(* Fault: the payload is put before the header. *)
WithHeaderLast(buf) ==
  LET n == ReadableBytes(buf)
      t == Transfer(buf, EmptyBuf, n)
  IN  [src |-> t.src, dst |-> WriteUI32(t.dst, n)]

(* The header and the bytes behind it; nothing is left in buf. *)
WithHeader(buf) ==
  LET n == ReadableBytes(buf) IN Transfer(buf, WriteUI32(EmptyBuf, n), n)

(* Chunker::onOutbound() *)
ChunkerOut ==
  /\ Runs("chunker", "outbound", "called")
  /\ IF ReadableBytes(Top.buf) > Limit
     THEN stack' = Returned
     ELSE LET t == WithHeader(Top.buf)
          IN  stack' = FireOutbound(t.dst, Continued(t.src, "fired"))
  /\ UNCHANGED <<stages, dataVars, writeVars>>

(* The application gets a chunk and answers it. *)
AppAnswers ==
  /\ Runs("app", "inbound", "called")
  /\ got' = Append(got, Readable(Top.buf))
  /\ stack' = FireOutbound(Top.buf, Continued(Top.buf, "fired"))
  /\ UNCHANGED <<stages, rbuf, in, pending, wbuf, came, wire, refused,
                 writeVars>>

(* The head calls the transport's write(), which moves the bytes to wbuf_    *)
(* and watches WRONLY, unless there are none.                               *)
HeadWrites ==
  /\ Runs("head", "outbound", "called")
  /\ wbuf' = Transfer(Top.buf, wbuf, ReadableBytes(Top.buf)).dst
  /\ stack' = Returned
  /\ writeArmed' = (writeArmed \/ ReadableBytes(Top.buf) > 0)
  /\ UNCHANGED <<stages, rbuf, in, pending, came, wire, got, refused,
                 writing, writes>>

StageStep == Relay \/ Done \/ ChunkerIn \/ ChunkerOut \/ AppAnswers \/ HeadWrites

Next ==
  \/ \E type \in Types : Build(type)
  \/ Recv \/ Inbound \/ WriteLoop
  \/ StageStep

(* The loop thread goes on: a read loop ends, a handler that is called runs, *)
(* and epoll reports a writable socket for as long as WRONLY is watched.     *)
Spec == Init /\ [][Next]_vars
FairSpec == Spec /\ WF_vars(Inbound \/ StageStep \/ WriteLoop)

-----------------------------------------------------------------------------
(* The buffers are sound, and the frames are those of stages with handlers. *)
TypeOK ==
  /\ stages \in Seq(Types)
  /\ \A i \in DOMAIN stack :
       /\ stack[i].at \in 1..Len(stages)
       /\ stack[i].dir \in Handles[stages[stack[i].at]]
       /\ stack[i].pc \in {"called", "loop", "fired"}
       /\ IsByteBuf(stack[i].buf)
  /\ IsByteBuf(rbuf) /\ IsByteBuf(in) /\ IsByteBuf(wbuf)
  /\ pending \in 0..Limit
  /\ came \in 0..Len(Incoming)
  /\ wire \in Seq(Octet) /\ got \in Seq(Seq(Octet))
  /\ refused \in BOOLEAN
  /\ writeArmed \in BOOLEAN /\ writing \in BOOLEAN /\ writes \in 0..MaxWrites

(* The Chunker's place: inside of it, toward the tail, bytes have no header. *)
Chunking == CHOOSE i \in DOMAIN stages : stages[i] = "chunker"

(* The bytes of an event that no handler has passed on yet, as they were or  *)
(* will be with their header.                                               *)
Carried(f) ==
  IF f.pc # "called" THEN <<>>
  ELSE IF f.at > Chunking \/ (f.at = Chunking /\ f.dir = "outbound")
       THEN Framed(Readable(f.buf)) ELSE Readable(f.buf)

Between(dir, S) ==
  FlattenSeq([i \in 1..Len(stack) |->
    IF stack[i].dir = dir /\ stack[i].at \in S THEN Carried(stack[i]) ELSE <<>>])

(* conveyor.hpp, chunker.cpp:12-45: of what was received the application    *)
(* has been given whole chunks, in order, and the rest is in the stages, at *)
(* whatever places recv() cut it, and although the application answers from *)
(* inside the Chunker's loop.                                               *)
InboundIsInOrder ==
  Ready /\ ~refused =>
    SubSeq(Incoming, 1, came) =
      FramedAll(got) \o Between("inbound", Chunking + 1..Len(stages))
        \o (IF pending = 0 THEN <<>> ELSE UI32Bytes(pending)) \o Readable(in)
        \o Between("inbound", 1..Chunking) \o Readable(rbuf)

(* chunker.cpp:47-67, abstract_transport.cpp:95-110: every answer is on the  *)
(* wire, in wbuf_ or on its way there, whole and in order.                  *)
OutboundIsInOrder ==
  FramedAll(got) = wire \o Readable(wbuf) \o Between("outbound", 1..Len(stages))

(* onWritable() has made all the writes it may, and disarmed WRONLY with     *)
(* bytes left: they wait for the next write() or flush().                   *)
GaveUp ==
  ~writeArmed /\ ~writing /\ writes = MaxWrites /\ ReadableBytes(wbuf) > 0

(* conveyor.hpp:114-160, abstract_transport.cpp:63-107: no call is lost on   *)
(* its way through the stages, none waits for ever, and no answer is left in *)
(* wbuf_ with WRONLY disarmed: all that was answered gets to the peer,       *)
(* unless onWritable() gives up at its limit.                               *)
Owing == Len(wire) < Len(FramedAll(got))

AnswersAreSent == Owing ~> ~Owing \/ GaveUp
=============================================================================
