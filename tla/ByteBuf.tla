------------------------------- MODULE ByteBuf -------------------------------
(***************************************************************************)
(* The stream buffer of tasks/transport.  What is readable lies between two *)
(* offsets into storage that grows and is never compacted; behind w there   *)
(* are bytes of earlier use.  A buffer is a value: an operator below gives  *)
(* the buffer, or the two buffers, that a call leaves behind.               *)
(*                                                                         *)
(* Memory does not run out: the failures of reserve() are left out.         *)
(***************************************************************************)
EXTENDS Integers, Sequences

Octet == 0..255

(* r is r_, w is w_. *)
IsByteBuf(b) ==
  /\ b \in [r : Nat, w : Nat, data : Seq(Octet)]
  /\ b.r <= b.w /\ b.w <= Len(b.data)

EmptyBuf == [r |-> 0, w |-> 0, data |-> <<>>]

Least(m, n) == IF m <= n THEN m ELSE n

(* What is in the buffer, for those who use it. *)
Readable(b) == SubSeq(b.data, b.r + 1, b.w)

ReadableBytes(b) == b.w - b.r
WritableBytes(b) == Len(b.data) - b.w

(* reserve(): vector::resize() to w_ + n. *)
Reserve(b, n) ==
  IF WritableBytes(b) >= n THEN b
  ELSE [b EXCEPT !.data = @ \o [i \in 1..n - WritableBytes(b) |-> 0]]

(* memcpy() of bytes to offset w_. *)
CopyIn(b, bytes) ==
  [b EXCEPT !.data = SubSeq(@, 1, b.w) \o bytes
                       \o SubSeq(@, b.w + Len(bytes) + 1, Len(@))]

(* commit() *)
Commit(b, n) == [b EXCEPT !.w = b.w + Least(n, WritableBytes(b))]

(* write() of raw bytes. *)
Write(b, bytes) ==
  IF bytes = <<>> THEN b
  ELSE [CopyIn(Reserve(b, Len(bytes)), bytes) EXCEPT !.w = b.w + Len(bytes)]

(* peek() *)
Peek(b, n) == SubSeq(b.data, b.r + 1, b.r + Least(n, ReadableBytes(b)))

(* Fault: only the read offset is reset. *)
AdvanceKeepsW(b, n) ==
  LET r == b.r + Least(n, ReadableBytes(b))
  IN  [b EXCEPT !.r = IF r = b.w THEN 0 ELSE r]

(* advance(): a buffer that is read to its end starts over. *)
Advance(b, n) ==
  LET r == b.r + Least(n, ReadableBytes(b))
  IN  IF r = b.w THEN [b EXCEPT !.r = 0, !.w = 0] ELSE [b EXCEPT !.r = r]

(* src.read(dst, n) and dst.write(std::move(src), n). *)
Transfer(src, dst, n) ==
  LET m == Least(n, ReadableBytes(src))
  IN  IF m = 0 THEN [src |-> src, dst |-> dst]
      ELSE [src |-> Advance(src, m), dst |-> Write(dst, Peek(src, m))]

-----------------------------------------------------------------------------
(* Numbers of 32 bits, the lowest byte first.                              *)

UI32Bytes(v) == <<v % 256, (v \div 256) % 256, (v \div 65536) % 256,
                  (v \div 16777216) % 256>>

UI32Value(s) == s[1] + 256 * s[2] + 65536 * s[3] + 16777216 * s[4]

WriteUI32(b, v) == Write(b, UI32Bytes(v))

HasUI32(b) == ReadableBytes(b) >= 4

(* readUI32() when there are four bytes: what it gives and what it leaves. *)
ReadUI32(b) == [out |-> UI32Value(Peek(b, 4)), buf |-> Advance(b, 4)]
=============================================================================
