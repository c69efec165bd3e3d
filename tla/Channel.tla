------------------------------- MODULE Channel -------------------------------
(***************************************************************************)
(* A connection of tasks/transport with a Chunker in the pipeline of either *)
(* end, in one direction.  The application's head stage passes the bytes of *)
(* an outbound event to write(), as the README's pipeline has it.           *)
(*                                                                         *)
(* The other end is any program that speaks the format, with a chunk limit  *)
(* of its own: when that is the larger one, chunks come in that this end    *)
(* refuses.                                                                *)
(***************************************************************************)
EXTENDS AbstractTransport, Chunker, SequencesExt

CONSTANTS
  PeerLimit,  \* kChunkLimit of the sending end
  MaxSent     \* bound: the chunks a run sends

ASSUME ChannelAssumptions == PeerLimit \in Nat /\ MaxSent \in Nat

VARIABLE sent  \* history: the chunks that were written

vars == <<transportVars, chunkerVars, sent>>

Init ==
  /\ TransportInit
  /\ ChunkerInit
  /\ sent = <<>>

(* Chunker::onOutbound() *)
Send(c) ==
  \/ /\ Size[c] > PeerLimit
     /\ UNCHANGED vars
  \/ /\ Size[c] <= PeerLimit
     /\ Len(sent) < MaxSent
     /\ TransportWrite(Frame(c))
     /\ sent' = Append(sent, c)
     /\ UNCHANGED chunkerVars

WriterStep == WriteLoop /\ UNCHANGED <<chunkerVars, sent>>

ReadLoop == (OnReadable \/ Recv) /\ UNCHANGED <<chunkerVars, sent>>

(* The read loop is over and its bytes, if any, reach the Chunker. *)
Inbound ==
  /\ RecvEnds
  /\ Receive(rbuf)
  /\ UNCHANGED sent

(* A turn of the Chunker's loop. *)
ChunkerTurn ==
  /\ rpc = "inbound"
  /\ \/ Deliver /\ UNCHANGED rpc
     \/ (NeedHeader \/ NeedPayload \/ Oversize) /\ rpc' = "notify"
  /\ UNCHANGED <<writerVars, pipe, link, readArmed, rbuf, ended, fired, sent>>

ReaderStep ==
  \/ ReadLoop
  \/ Inbound
  \/ ChunkerTurn
  \/ Notify /\ UNCHANGED <<chunkerVars, sent>>

Environment ==
  /\ Flush \/ Destroy \/ ReadableStateChanged \/ Reset
  /\ UNCHANGED <<chunkerVars, sent>>

Next == (\E c \in Chunks : Send(c)) \/ WriterStep \/ ReaderStep \/ Environment

Spec == Init /\ [][Next]_vars

(* Both ends call loop() again and again; epoll goes on reporting a socket   *)
(* that can be written or read.                                             *)
FairSpec == Spec /\ WF_vars(WriterStep) /\ WF_vars(ReaderStep)

-----------------------------------------------------------------------------
TypeOK ==
  /\ TransportTypeOK(Byte)
  /\ ChunkerTypeOK
  /\ sent \in Seq(Chunks)

(* The bytes the reader's Chunker is done with: whole chunks, and the header *)
(* of one that is not complete.                                             *)
Consumed ==
  LET whole == FlattenSeq([i \in 1..Len(delivered) |-> Frame(sent[i])])
  IN  IF pending = 0 THEN whole
      ELSE whole \o SubSeq(Frame(sent[Len(delivered) + 1]), 1, HeaderSize)

(* README "drain until would-block": between write() and the next stage no   *)
(* byte is lost, doubled or overtaken by another, at whatever places         *)
(* writev(), recv() and the Chunker cut the stream and however the two ends  *)
(* interleave.                                                              *)
BytesAreConserved ==
  link = "up" /\ ~refused =>
    FlattenSeq([i \in 1..Len(sent) |-> Frame(sent[i])])
      = Consumed \o in \o rbuf \o pipe \o wbuf

(* chunker.cpp:16-44: chunks come out whole, in order and once.  After a     *)
(* reset or a destructor they are a prefix of what was sent, and after a     *)
(* chunk over the limit nothing is promised.                                *)
Stream == INSTANCE ChunkStream WITH
  Payloads <- {Payload(c) : c \in Chunks},
  sent <- [i \in 1..Len(sent) |-> Payload(sent[i])],
  received <- delivered

ImplementsStream == Stream!Spec

(* onWritable() has made all the writes it may, and disarmed WRONLY with     *)
(* bytes left.                                                              *)
GaveUp == wpc = "idle" /\ wbuf # <<>> /\ writes = MaxWrites /\ ~writeArmed

(* abstract_transport.cpp:106 and :89: while the connection holds, the       *)
(* reader listens and onWritable() has not given up, what was sent is        *)
(* delivered: no wake-up for a writable or readable socket is lost.          *)
Undisturbed == link = "up" /\ readArmed /\ ~refused /\ ~GaveUp

SentIsDelivered ==
  <>[]Undisturbed =>
    \A n \in 1..MaxSent : (Len(sent) >= n) ~> (Len(delivered) >= n)

(* README "Invoked once buffered data is no longer owned by transport":      *)
(* onWritable() reports the flush complete when nothing is left to write.    *)
FlushCompletedMeansWritten ==
  [][WriteDone => wbuf = <<>>]_vars

(* README "<0 error as -errno (including -EAGAIN/-EWOULDBLOCK for would-     *)
(* block)" and the returns at abstract_transport.cpp:41-49: a read that has  *)
(* drained a healthy socket is no error.                                    *)
ErrorMeansFailure == fired = "error" => link = "reset"
=============================================================================
