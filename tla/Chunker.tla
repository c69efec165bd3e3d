------------------------------- MODULE Chunker -------------------------------
(***************************************************************************)
(* The framing stage of tasks/transport.  A chunk travels as a header that  *)
(* holds its length, followed by its payload.  A stream of bytes comes in   *)
(* in pieces cut anywhere, in the middle of a header too.                   *)
(*                                                                         *)
(* A byte is named after the chunk and the position it was written for.     *)
(* Reading a length at a place where no header was written gives any        *)
(* number.                                                                 *)
(***************************************************************************)
EXTENDS Naturals, Sequences

CONSTANTS
  Chunks,      \* what the application sends
  Size,        \* the payload length of each
  HeaderSize,  \* 4, the bytes of a header
  Limit        \* kChunkLimit of the receiving end

ASSUME ChunkerAssumptions ==
  /\ Size \in [Chunks -> Nat]
  /\ HeaderSize \in Nat \ {0}
  /\ Limit \in Nat

VARIABLES
  in,         \* in_: bytes that have come in and are not handled
  pending,    \* pending_: the length of the chunk whose header was read, or 0
  delivered,  \* history: the payloads handed on before any failure
  refused,    \* history: a chunk that is too long has come in
  stray       \* history: a chunk was handed on after that

chunkerVars == <<in, pending, delivered, refused, stray>>

ChunkerInit ==
  /\ in = <<>>
  /\ pending = 0
  /\ delivered = <<>>
  /\ refused = FALSE
  /\ stray = FALSE

Frame(c) == [i \in 1..(HeaderSize + Size[c]) |-> <<c, i>>]
Payload(c) == [i \in 1..Size[c] |-> <<c, HeaderSize + i>>]

Byte == UNION {{<<c, i>> : i \in 1..(HeaderSize + Size[c])} : c \in Chunks}

Drop(s, n) == SubSeq(s, n + 1, Len(s))

(* readUI32() of the first bytes. *)
Lengths(s) ==
  IF \E c \in Chunks : SubSeq(s, 1, HeaderSize) = SubSeq(Frame(c), 1, HeaderSize)
  THEN {Size[s[1][1]]}
  ELSE 0..(Limit + 1)

-----------------------------------------------------------------------------
(* onInbound(): the bytes are appended, then the loop runs until it breaks. *)

Receive(bytes) ==
  /\ in' = in \o bytes
  /\ UNCHANGED <<pending, delivered, refused, stray>>

(* Less than a header: the loop ends. *)
NeedHeader ==
  /\ pending = 0
  /\ Len(in) < HeaderSize
  /\ UNCHANGED chunkerVars

(* The length and the bytes behind it, as a turn of the loop sees them. *)
Headed ==
  IF pending # 0 THEN {[len |-> pending, rest |-> in]}
  ELSE IF Len(in) < HeaderSize THEN {}
  ELSE {[len |-> n, rest |-> Drop(in, HeaderSize)] : n \in Lengths(in)}

(* A chunk over the limit: everything buffered is thrown away, the failure   *)
(* goes to shutdown(), and onInbound() returns.                             *)
Oversize ==
  /\ pending = 0
  /\ \E h \in Headed : h.len > Limit
  /\ in' = <<>>
  /\ pending' = 0
  /\ refused' = TRUE
  /\ UNCHANGED <<delivered, stray>>

(* Fault: the length of a chunk that is not complete is read again. *)
NeedPayloadForgets ==
  /\ \E h \in Headed :
       /\ h.len <= Limit
       /\ Len(h.rest) < h.len
       /\ in' = h.rest
  /\ pending' = 0
  /\ UNCHANGED <<delivered, refused, stray>>

(* Less than the payload: the loop ends, the length is kept. *)
NeedPayload ==
  /\ \E h \in Headed :
       /\ h.len <= Limit
       /\ Len(h.rest) < h.len
       /\ in' = h.rest
       /\ pending' = h.len
  /\ UNCHANGED <<delivered, refused, stray>>

(* A whole chunk is handed to the next stage and the loop goes on. *)
Deliver ==
  /\ \E h \in Headed :
       /\ h.len <= Limit
       /\ Len(h.rest) >= h.len
       /\ in' = Drop(h.rest, h.len)
       /\ IF refused
          THEN stray' = TRUE /\ UNCHANGED delivered
          ELSE /\ delivered' = Append(delivered, SubSeq(h.rest, 1, h.len))
               /\ UNCHANGED stray
  /\ pending' = 0
  /\ UNCHANGED refused

ChunkerTypeOK ==
  /\ in \in Seq(Byte)
  /\ pending \in 0..Limit
  /\ delivered \in Seq(Seq(Byte))
  /\ refused \in BOOLEAN
  /\ stray \in BOOLEAN
=============================================================================
