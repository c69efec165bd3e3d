-------------------------- MODULE AbstractTransport --------------------------
(***************************************************************************)
(* One direction of a connection between two AbstractEventLoopTransports    *)
(* over TCP: the write buffer and onWritable() of one end, the kernel's     *)
(* pipe, onReadable() of the other end.  Each end runs on its own loop      *)
(* thread, where watch() and unwatch() take effect at once.  Every system   *)
(* call is a step, so the ends interleave between any two of them.          *)
(*                                                                         *)
(* What onReadable() has read is handed to the pipeline by the module that  *)
(* extends this one.                                                       *)
(***************************************************************************)
EXTENDS Naturals, Sequences

CONSTANTS
  Room,       \* the bytes the kernel takes before a writer must wait
  ReadMax,    \* 4096, the most one readSome() takes
  MaxWrites   \* 256, the most writev() calls of one onWritable()

ASSUME TransportAssumptions ==
  /\ Room \in Nat \ {0}
  /\ ReadMax \in Nat \ {0}
  /\ MaxWrites \in Nat \ {0}

VARIABLES
  wbuf,        \* wbuf_
  writeArmed,  \* the writer watches WRONLY
  wpc,         \* "idle", "writing" in onWritable(), or "destroyed"
  writes,      \* the writev() calls this onWritable() has made
  pipe,        \* bytes the kernel has taken and the reader has not got
  link,        \* "up", "fin" after the writer's end is closed, or "reset"
  readArmed,   \* the reader watches RDONLY
  rpc,         \* "idle", or where onReadable() is
  rbuf,        \* its local buf
  ended,       \* why its read loop ended, or ""
  fired        \* history: the last event it fired but InboundBytes

writerVars == <<wbuf, writeArmed, wpc, writes>>
readerVars == <<readArmed, rpc, rbuf, ended, fired>>
transportVars == <<writerVars, pipe, link, readerVars>>

TransportInit ==
  /\ wbuf = <<>> /\ writeArmed = FALSE /\ wpc = "idle" /\ writes = 0
  /\ pipe = <<>> /\ link = "up"
  /\ readArmed = FALSE /\ rpc = "idle" /\ rbuf = <<>> /\ ended = ""
  /\ fired = "none"

AtMost(n, m) == IF n < m THEN n ELSE m

-----------------------------------------------------------------------------
(* The writer.                                                             *)

(* write() of a buffer that is not empty, between two handlers or in a       *)
(* callback that a handler calls last.                                      *)
TransportWrite(bytes) ==
  /\ wpc = "idle"
  /\ wbuf' = wbuf \o bytes
  /\ writeArmed' = TRUE
  /\ UNCHANGED <<wpc, writes, pipe, link, readerVars>>

(* flush() *)
Flush ==
  /\ wpc = "idle"
  /\ wbuf # <<>>
  /\ writeArmed' = TRUE
  /\ UNCHANGED <<wbuf, wpc, writes, pipe, link, readerVars>>

(* epoll reports the socket writable, or broken. *)
OnWritable ==
  /\ writeArmed
  /\ wpc = "idle"
  /\ Len(pipe) < Room \/ link = "reset"
  /\ wpc' = "writing"
  /\ writes' = 0
  /\ UNCHANGED <<wbuf, writeArmed, pipe, link, readerVars>>

(* Fault: one writev() too many. *)
InWriteLoopOnceMore ==
  wpc = "writing" /\ writes <= MaxWrites /\ wbuf # <<>>

InWriteLoop == wpc = "writing" /\ writes < MaxWrites /\ wbuf # <<>>

(* Fault: the bytes the kernel took stay in the buffer. *)
WritevKeepsBytes ==
  /\ InWriteLoop
  /\ link = "up"
  /\ \E n \in 1..AtMost(Len(wbuf), Room - Len(pipe)) :
       pipe' = pipe \o SubSeq(wbuf, 1, n)
  /\ writes' = writes + 1
  /\ UNCHANGED <<wbuf, writeArmed, wpc, link, readerVars>>

(* writeSome() takes what fits, at least a byte. *)
Writev ==
  /\ InWriteLoop
  /\ link = "up"
  /\ \E n \in 1..AtMost(Len(wbuf), Room - Len(pipe)) :
       /\ pipe' = pipe \o SubSeq(wbuf, 1, n)
       /\ wbuf' = SubSeq(wbuf, n + 1, Len(wbuf))
  /\ writes' = writes + 1
  /\ UNCHANGED <<writeArmed, wpc, link, readerVars>>

(* Fault: the event is disarmed although bytes are left. *)
WriteBlocksUnwatched ==
  /\ InWriteLoop
  /\ link = "up" /\ Len(pipe) = Room
  /\ wpc' = "idle"
  /\ writeArmed' = FALSE
  /\ UNCHANGED <<wbuf, writes, pipe, link, readerVars>>

WriteBlocks ==
  /\ InWriteLoop
  /\ link = "up" /\ Len(pipe) = Room
  /\ wpc' = "idle"
  /\ UNCHANGED <<wbuf, writeArmed, writes, pipe, link, readerVars>>

(* The writer's pipeline gets an InboundTransportError. *)
WriteFails ==
  /\ InWriteLoop
  /\ link = "reset"
  /\ writeArmed' = FALSE
  /\ wpc' = "idle"
  /\ UNCHANGED <<wbuf, writes, pipe, link, readerVars>>

(* The loop is over: WRONLY is disarmed and the flush reported complete. *)
WriteDone ==
  /\ wpc = "writing"
  /\ wbuf = <<>> \/ writes = MaxWrites
  /\ writeArmed' = FALSE
  /\ wpc' = "idle"
  /\ UNCHANGED <<wbuf, writes, pipe, link, readerVars>>

(* The destructor, on the loop thread: bytes not written yet are lost. *)
Destroy ==
  /\ wpc = "idle"
  /\ wpc' = "destroyed"
  /\ writeArmed' = FALSE
  /\ wbuf' = <<>>
  /\ link' = IF link = "up" THEN "fin" ELSE link
  /\ UNCHANGED <<writes, pipe, readerVars>>

WriteLoop == OnWritable \/ Writev \/ WriteBlocks \/ WriteFails \/ WriteDone

-----------------------------------------------------------------------------
(* The network may break the connection and lose what is in flight. *)
Reset ==
  /\ link # "reset"
  /\ link' = "reset"
  /\ \E n \in 0..Len(pipe) : pipe' = SubSeq(pipe, 1, n)
  /\ UNCHANGED <<writerVars, readerVars>>

-----------------------------------------------------------------------------
(* The reader.                                                             *)

(* readableStateChanged(), from outside or in a handler of an event. *)
ReadableStateChanged ==
  /\ rpc # "recv"
  /\ readArmed' = ~readArmed
  /\ UNCHANGED <<writerVars, pipe, link, rpc, rbuf, ended, fired>>

OnReadable ==
  /\ readArmed
  /\ rpc = "idle"
  /\ pipe # <<>> \/ link # "up"
  /\ rpc' = "recv"
  /\ UNCHANGED <<writerVars, pipe, link, readArmed, rbuf, ended, fired>>

Recv ==
  /\ rpc = "recv"
  /\ \E n \in 1..AtMost(Len(pipe), ReadMax) :
       /\ rbuf' = rbuf \o SubSeq(pipe, 1, n)
       /\ pipe' = SubSeq(pipe, n + 1, Len(pipe))
  /\ UNCHANGED <<writerVars, link, readArmed, rpc, ended, fired>>

(* readSome() has no bytes to give.  What is in the pipe may be on its way,  *)
(* but some of it was there when epoll reported the socket readable.        *)
NoBytes ==
  {why \in {"wouldblock", "eof", "failed"} :
     \/ why = "wouldblock" /\ IF pipe # <<>> THEN rbuf # <<>> ELSE link = "up"
     \/ why = "eof" /\ pipe = <<>> /\ link = "fin"
     \/ why = "failed" /\ pipe = <<>> /\ link = "reset"}

(* The loop ends; what was read goes to the pipeline first. *)
RecvEnds ==
  /\ rpc = "recv"
  /\ ended' \in NoBytes
  /\ rpc' = IF rbuf = <<>> THEN "notify" ELSE "inbound"
  /\ rbuf' = <<>>
  /\ UNCHANGED <<writerVars, pipe, link, readArmed, fired>>

(* readSome() returns -1 and not -errno, so `n == EAGAIN` never holds and a  *)
(* read that would block is reported as a failed one.                       *)
Notify ==
  /\ rpc = "notify"
  /\ fired' = IF ended = "eof" THEN "inactive" ELSE "error"
  /\ rpc' = "idle"
  /\ ended' = ""
  /\ UNCHANGED <<writerVars, pipe, link, readArmed, rbuf>>

TransportTypeOK(Bytes) ==
  /\ wbuf \in Seq(Bytes) /\ pipe \in Seq(Bytes) /\ rbuf \in Seq(Bytes)
  /\ Len(pipe) <= Room
  /\ writeArmed \in BOOLEAN /\ readArmed \in BOOLEAN
  /\ wpc \in {"idle", "writing", "destroyed"}
  /\ writes \in 0..MaxWrites
  /\ link \in {"up", "fin", "reset"}
  /\ rpc \in {"idle", "recv", "inbound", "notify"}
  /\ ended \in {"", "wouldblock", "eof", "failed"}
  /\ fired \in {"none", "inactive", "error"}
=============================================================================
