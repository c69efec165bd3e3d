--------------------------- MODULE ByteBuf_proofs ----------------------------
(***************************************************************************)
(* What the operations of a buffer do to the bytes that can be read: the    *)
(* offsets and the storage implement a sequence, to which write() appends   *)
(* and from which advance() drops.                                         *)
(***************************************************************************)
EXTENDS ByteBuf, SequenceTheorems, TLAPS

-----------------------------------------------------------------------------
(* Sequences, an element at a time.                                        *)

(* The elements m + 1 to n of a sequence. *)
LEMMA Piece ==
  ASSUME NEW S, NEW s \in Seq(S), NEW m \in Nat, NEW n \in Nat,
         m <= n, n <= Len(s)
  PROVE  /\ SubSeq(s, m + 1, n) \in Seq(S)
         /\ Len(SubSeq(s, m + 1, n)) = n - m
         /\ \A i \in 1..n - m : SubSeq(s, m + 1, n)[i] = s[m + i]
<1>1. \A i \in m + 1..n : s[i] \in S
  BY ElementOfSeq, LenProperties
<1>2. /\ SubSeq(s, m + 1, n) \in Seq(S)
      /\ Len(SubSeq(s, m + 1, n)) = IF m + 1 <= n THEN n - (m + 1) + 1 ELSE 0
      /\ \A i \in 1..n - (m + 1) + 1 : SubSeq(s, m + 1, n)[i] = s[(m + 1) + i - 1]
  BY <1>1, SubSeqProperties
<1> QED BY <1>2

(* The elements of two sequences put together. *)
LEMMA Joined ==
  ASSUME NEW S, NEW s \in Seq(S), NEW t \in Seq(S)
  PROVE  /\ s \o t \in Seq(S)
         /\ Len(s) \in Nat /\ Len(t) \in Nat
         /\ Len(s \o t) = Len(s) + Len(t)
         /\ \A i \in 1..Len(s) : (s \o t)[i] = s[i]
         /\ \A i \in 1..Len(t) : (s \o t)[Len(s) + i] = t[i]
BY ConcatProperties, LenProperties

-----------------------------------------------------------------------------
(* What IsByteBuf() says, and that the two counts are no less than zero. *)
LEMMA BufShape ==
  ASSUME NEW b, IsByteBuf(b)
  PROVE  /\ b.r \in Nat /\ b.w \in Nat /\ b.data \in Seq(Octet)
         /\ Len(b.data) \in Nat
         /\ b.r <= b.w /\ b.w <= Len(b.data)
         /\ ReadableBytes(b) \in Nat /\ WritableBytes(b) \in Nat
BY LenProperties DEF IsByteBuf, ReadableBytes, WritableBytes

(* What can be read are the bytes of the storage from r on. *)
LEMMA ReadableShape ==
  ASSUME NEW b, IsByteBuf(b)
  PROVE  /\ Readable(b) \in Seq(Octet)
         /\ Len(Readable(b)) = ReadableBytes(b)
         /\ \A i \in 1..ReadableBytes(b) : Readable(b)[i] = b.data[b.r + i]
<1>1. /\ b.data \in Seq(Octet) /\ b.r \in Nat /\ b.w \in Nat
      /\ b.r <= b.w /\ b.w <= Len(b.data)
  BY BufShape
<1>2. /\ SubSeq(b.data, b.r + 1, b.w) \in Seq(Octet)
      /\ Len(SubSeq(b.data, b.r + 1, b.w)) = b.w - b.r
      /\ \A i \in 1..b.w - b.r : SubSeq(b.data, b.r + 1, b.w)[i] = b.data[b.r + i]
  BY SMTT(30), <1>1, Piece
<1> QED BY <1>2 DEF Readable, ReadableBytes

(* A new buffer is one, and there is nothing in it. *)
LEMMA EmptyIsByteBuf == IsByteBuf(EmptyBuf) /\ Readable(EmptyBuf) = <<>>
<1>1. IsByteBuf(EmptyBuf)
  BY EmptySeq DEF IsByteBuf, EmptyBuf
<1> QED BY <1>1, ReadableShape, EmptySeq DEF ReadableBytes, EmptyBuf

(* byte_buffer.hpp:133-145: there is room for n bytes, and nothing that could *)
(* be read has changed.                                                     *)
LEMMA ReserveMakesRoom ==
  ASSUME NEW b, IsByteBuf(b), NEW n \in Nat
  PROVE  /\ IsByteBuf(Reserve(b, n))
         /\ WritableBytes(Reserve(b, n)) >= n
         /\ Reserve(b, n).r = b.r /\ Reserve(b, n).w = b.w
         /\ \A i \in 1..b.w : Reserve(b, n).data[i] = b.data[i]
<1>1. CASE WritableBytes(b) >= n
  BY <1>1 DEF Reserve
<1>2. CASE ~(WritableBytes(b) >= n)
  <2> DEFINE m == n - WritableBytes(b)
  <2>1. m \in Nat
    BY <1>2, BufShape
  <2>2. PICK more : more = [i \in 1..m |-> 0]
    OBVIOUS
  <2>3. more \in Seq(Octet) /\ Len(more) = m
    BY <2>1, <2>2 DEF Octet
  <2>4. PICK data : data = b.data \o more
    OBVIOUS
  <2>5. /\ data \in Seq(Octet)
        /\ Len(data) = Len(b.data) + m
        /\ \A i \in 1..Len(b.data) : data[i] = b.data[i]
    <3>1. b.data \in Seq(Octet) /\ more \in Seq(Octet)
      BY <2>3, BufShape
    <3>2. /\ b.data \o more \in Seq(Octet)
          /\ Len(b.data \o more) = Len(b.data) + Len(more)
          /\ \A i \in 1..Len(b.data) : (b.data \o more)[i] = b.data[i]
      BY <3>1, Joined
    <3> QED BY <2>3, <2>4, <3>2
  <2>6. PICK c : c = [b EXCEPT !.data = data]
    OBVIOUS
  <2>7. Reserve(b, n) = c
    BY <1>2, <2>2, <2>4, <2>6 DEF Reserve
  <2>8. /\ c \in [r : Nat, w : Nat, data : Seq(Octet)]
        /\ c.r = b.r /\ c.w = b.w /\ c.data = data
    BY <2>5, <2>6 DEF IsByteBuf
  <2>9. IsByteBuf(c) /\ WritableBytes(c) >= n
    BY <2>1, <2>5, <2>8, BufShape DEF IsByteBuf, WritableBytes
  <2> QED BY <2>5, <2>7, <2>8, <2>9, BufShape
<1> QED BY <1>1, <1>2

(* byte_buffer.hpp:117, 128: the bytes lie behind what was written before.    *)
LEMMA CopyInOverwrites ==
  ASSUME NEW b, IsByteBuf(b), NEW bytes \in Seq(Octet),
         WritableBytes(b) >= Len(bytes)
  PROVE  LET d == CopyIn(b, bytes).data
         IN  /\ CopyIn(b, bytes) = [b EXCEPT !.data = d]
             /\ d \in Seq(Octet) /\ Len(d) = Len(b.data)
             /\ \A i \in 1..b.w : d[i] = b.data[i]
             /\ \A i \in 1..Len(bytes) : d[b.w + i] = bytes[i]
<1> DEFINE n    == Len(bytes)
           head == SubSeq(b.data, 1, b.w)
           tail == SubSeq(b.data, b.w + n + 1, Len(b.data))
<1>1. n \in Nat /\ b.w + n \in Nat /\ b.w + n <= Len(b.data)
  BY BufShape, LenProperties DEF WritableBytes
<1>2. /\ head \in Seq(Octet) /\ Len(head) = b.w
      /\ \A i \in 1..b.w : head[i] = b.data[i]
  <2>1. SubSeq(b.data, 0 + 1, b.w) = head
    OBVIOUS
  <2>2. /\ SubSeq(b.data, 0 + 1, b.w) \in Seq(Octet)
        /\ Len(SubSeq(b.data, 0 + 1, b.w)) = b.w - 0
        /\ \A i \in 1..b.w - 0 : SubSeq(b.data, 0 + 1, b.w)[i] = b.data[0 + i]
    BY SMTT(30), BufShape, Piece
  <2> QED BY <2>1, <2>2, BufShape
<1>3. tail \in Seq(Octet) /\ Len(tail) = Len(b.data) - (b.w + n)
  BY SMTT(30), <1>1, BufShape, Piece
<1> HIDE DEF head, tail
<1>4. PICK front : front = head \o bytes
  OBVIOUS
<1>5. /\ front \in Seq(Octet) /\ Len(front) = b.w + n
      /\ \A i \in 1..b.w : front[i] = b.data[i]
      /\ \A i \in 1..n : front[b.w + i] = bytes[i]
  <2>1. /\ head \o bytes \in Seq(Octet)
        /\ Len(head \o bytes) = Len(head) + Len(bytes)
        /\ \A i \in 1..Len(head) : (head \o bytes)[i] = head[i]
        /\ \A i \in 1..Len(bytes) : (head \o bytes)[Len(head) + i] = bytes[i]
    <3>1. head \in Seq(Octet) /\ bytes \in Seq(Octet)
      BY <1>2
    <3> QED BY <3>1, Joined
  <2> QED BY <1>1, <1>2, <1>4, <2>1
<1>6. PICK d : d = front \o tail
  OBVIOUS
<1>7. /\ d \in Seq(Octet) /\ Len(d) = Len(b.data)
      /\ \A i \in 1..b.w + n : d[i] = front[i]
  <2>1. /\ front \o tail \in Seq(Octet)
        /\ Len(front \o tail) = Len(front) + Len(tail)
        /\ \A i \in 1..Len(front) : (front \o tail)[i] = front[i]
    BY SMTT(30), <1>3, <1>5, Joined
  <2> QED BY SMTT(30), <1>1, <1>3, <1>5, <1>6, <2>1, BufShape
<1>8. CopyIn(b, bytes) = [b EXCEPT !.data = d]
  BY <1>4, <1>6 DEF CopyIn, head, tail
<1>9. CopyIn(b, bytes).data = d
  BY <1>8 DEF IsByteBuf
<1>10. /\ \A i \in 1..b.w : d[i] = b.data[i]
       /\ \A i \in 1..n : d[b.w + i] = bytes[i]
  <2>1. ASSUME NEW i \in 1..b.w PROVE d[i] = b.data[i]
    <3>1. i \in 1..b.w + n
      BY <1>1, BufShape
    <3> QED BY <1>5, <1>7, <3>1
  <2>2. ASSUME NEW i \in 1..n PROVE d[b.w + i] = bytes[i]
    <3>1. b.w + i \in 1..b.w + n
      BY <1>1, BufShape
    <3> QED BY <1>5, <1>7, <3>1
  <2> QED BY <2>1, <2>2
<1> QED BY <1>7, <1>8, <1>9, <1>10

(* byte_buffer.hpp:109-120: write() appends, wherever the offsets are and     *)
(* whatever lies behind them.                                               *)
THEOREM WriteAppends ==
  ASSUME NEW b, IsByteBuf(b), NEW bytes \in Seq(Octet)
  PROVE  /\ IsByteBuf(Write(b, bytes))
         /\ Readable(Write(b, bytes)) = Readable(b) \o bytes
<1>1. CASE bytes = <<>>
  BY <1>1, ReadableShape, ConcatEmptySeq DEF Write
<1>2. CASE bytes # <<>>
  <2> DEFINE n == Len(bytes)
  <2>1. n \in Nat
    BY LenProperties
  <2>2. PICK c : c = Reserve(b, n)
    OBVIOUS
  <2>3. /\ IsByteBuf(c) /\ WritableBytes(c) >= n
        /\ c.r = b.r /\ c.w = b.w
        /\ \A i \in 1..b.w : c.data[i] = b.data[i]
    BY <2>1, <2>2, ReserveMakesRoom
  <2>4. PICK d : d = CopyIn(c, bytes).data
    OBVIOUS
  <2>5. /\ CopyIn(c, bytes) = [c EXCEPT !.data = d]
        /\ d \in Seq(Octet) /\ Len(d) = Len(c.data)
        /\ \A i \in 1..c.w : d[i] = c.data[i]
        /\ \A i \in 1..n : d[c.w + i] = bytes[i]
    BY <2>3, <2>4, CopyInOverwrites
  <2>6. Write(b, bytes) = [[c EXCEPT !.data = d] EXCEPT !.w = b.w + n]
    BY <1>2, <2>2, <2>5 DEF Write
  <2>7. PICK e : e = Write(b, bytes)
    OBVIOUS
  <2>8. /\ e \in [r : Nat, w : Nat, data : Seq(Octet)]
        /\ e.r = b.r /\ e.w = b.w + n /\ e.data = d
    <3>1. c \in [r : Nat, w : Nat, data : Seq(Octet)]
      BY <2>3 DEF IsByteBuf
    <3>2. PICK f : f = [c EXCEPT !.data = d]
      OBVIOUS
    <3>3. /\ f \in [r : Nat, w : Nat, data : Seq(Octet)]
          /\ f.r = b.r /\ f.data = d
      BY <2>3, <2>5, <3>1, <3>2
    <3>4. e = [f EXCEPT !.w = b.w + n] /\ b.w + n \in Nat
      BY <2>1, <2>6, <2>7, <3>2, BufShape
    <3> QED BY <3>3, <3>4
  <2>9. IsByteBuf(e)
    BY <2>1, <2>3, <2>5, <2>8, BufShape DEF IsByteBuf, WritableBytes
  <2>10. PICK whole : whole = Readable(b) \o bytes
    OBVIOUS
  <2>11. /\ whole \in Seq(Octet)
         /\ Len(whole) = ReadableBytes(b) + n
         /\ \A i \in 1..ReadableBytes(b) : whole[i] = b.data[b.r + i]
         /\ \A i \in 1..n : whole[ReadableBytes(b) + i] = bytes[i]
    <3>1. Readable(b) \in Seq(Octet)
      BY ReadableShape
    <3>2. /\ Readable(b) \o bytes \in Seq(Octet)
          /\ Len(Readable(b) \o bytes) = Len(Readable(b)) + Len(bytes)
          /\ \A i \in 1..Len(Readable(b)) : (Readable(b) \o bytes)[i] = Readable(b)[i]
          /\ \A i \in 1..Len(bytes) :
               (Readable(b) \o bytes)[Len(Readable(b)) + i] = bytes[i]
      BY <3>1, Joined
    <3> QED BY <2>10, <3>2, ReadableShape
  <2>12. /\ Readable(e) \in Seq(Octet)
         /\ Len(Readable(e)) = ReadableBytes(b) + n
         /\ \A i \in 1..ReadableBytes(b) + n : Readable(e)[i] = d[b.r + i]
    <3>1. ReadableBytes(e) = ReadableBytes(b) + n
      BY <2>1, <2>8, BufShape DEF ReadableBytes
    <3> QED BY <2>8, <2>9, <3>1, ReadableShape
  <2>13. ASSUME NEW i \in 1..Len(whole) PROVE Readable(e)[i] = whole[i]
    <3>1. i \in 1..ReadableBytes(b) + n /\ ReadableBytes(b) = b.w - b.r
      BY <2>11 DEF ReadableBytes
    <3>2. CASE i <= b.w - b.r
      <4>1. b.r + i \in 1..b.w /\ i \in 1..ReadableBytes(b)
        BY <3>1, <3>2, BufShape
      <4> QED BY <2>3, <2>5, <2>11, <2>12, <3>1, <4>1
    <3>3. CASE ~(i <= b.w - b.r)
      <4>1. PICK j \in 1..n : i = ReadableBytes(b) + j
        <5>1. i - ReadableBytes(b) \in 1..n
          BY <2>1, <3>1, <3>3, BufShape
        <5> QED BY <3>1, <5>1, BufShape
      <4>2. b.r + i = b.w + j
        BY SMTT(30), <3>1, <4>1, BufShape
      <4> QED BY <2>3, <2>5, <2>11, <2>12, <3>1, <4>1, <4>2
    <3> QED BY <3>2, <3>3
  <2>14. Readable(e) = whole
    BY <2>11, <2>12, <2>13, SeqEqual
  <2> QED BY <2>7, <2>9, <2>10, <2>14
<1> QED BY <1>1, <1>2

(* byte_buffer.hpp:100-107, 147-154: what peek() shows is the front of the    *)
(* buffer and what advance() leaves is the rest, also when it starts over.  *)
THEOREM AdvanceDrops ==
  ASSUME NEW b, IsByteBuf(b), NEW n \in Nat
  PROVE  /\ IsByteBuf(Advance(b, n))
         /\ Peek(b, n) \in Seq(Octet)
         /\ Len(Peek(b, n)) = Least(n, ReadableBytes(b))
         /\ Readable(b) = Peek(b, n) \o Readable(Advance(b, n))
<1>1. PICK m : m = Least(n, ReadableBytes(b))
  OBVIOUS
<1>2. /\ m \in Nat /\ b.r + m \in Nat /\ b.r + m <= b.w
  BY <1>1, BufShape DEF Least, ReadableBytes
<1>3. Peek(b, n) = SubSeq(b.data, b.r + 1, b.r + m)
  BY <1>1 DEF Peek
<1>4. Peek(b, n) \in Seq(Octet) /\ Len(Peek(b, n)) = m
  <2>1. /\ SubSeq(b.data, b.r + 1, b.r + m) \in Seq(Octet)
        /\ Len(SubSeq(b.data, b.r + 1, b.r + m)) = (b.r + m) - b.r
    <3>1. b.r <= b.r + m /\ b.r + m <= Len(b.data)
      BY <1>2, BufShape
    <3> QED BY <1>2, <3>1, BufShape, Piece
  <2>2. (b.r + m) - b.r = m
    BY <1>2, BufShape
  <2> QED BY <1>3, <2>1, <2>2
<1>5. Readable(b) = Peek(b, n) \o SubSeq(b.data, b.r + m + 1, b.w)
  <2>1. /\ b.r + 1 \in 1..Len(b.data) + 1
        /\ b.r + m \in (b.r + 1) - 1..Len(b.data)
        /\ b.w \in b.r + m..Len(b.data)
    BY SMTT(30), <1>2, BufShape
  <2>2. SubSeq(b.data, b.r + 1, b.r + m) \o SubSeq(b.data, b.r + m + 1, b.w)
          = SubSeq(b.data, b.r + 1, b.w)
    BY <2>1, BufShape, ConcatAdjacentSubSeq
  <2> QED BY <1>3, <2>2 DEF Readable
<1>6. PICK c : c = Advance(b, n)
  OBVIOUS
<1>7. IsByteBuf(c) /\ Readable(c) = SubSeq(b.data, b.r + m + 1, b.w)
  <2>1. CASE b.r + m = b.w
    <3>1. c = [b EXCEPT !.r = 0, !.w = 0]
      BY <1>1, <1>6, <2>1 DEF Advance
    <3>2. /\ c \in [r : Nat, w : Nat, data : Seq(Octet)]
          /\ c.r = 0 /\ c.w = 0 /\ c.data = b.data
      BY <3>1 DEF IsByteBuf
    <3>3. IsByteBuf(c)
      BY <3>2, BufShape DEF IsByteBuf
    <3>4. Readable(c) = SubSeq(c.data, 1, 0)
      BY <3>2 DEF Readable
    <3>5. SubSeq(c.data, 1, 0) = <<>>
      BY SubSeqEmpty
    <3>6. SubSeq(b.data, b.r + m + 1, b.w) = <<>>
      <4>1. b.r + m + 1 \in Int /\ b.w \in Int /\ b.w < b.r + m + 1
        BY <1>2, <2>1, BufShape
      <4> QED BY <4>1, SubSeqEmpty
    <3> QED BY <3>3, <3>4, <3>5, <3>6
  <2>2. CASE b.r + m # b.w
    <3>1. c = [b EXCEPT !.r = b.r + m]
      BY <1>1, <1>6, <2>2 DEF Advance
    <3>2. /\ c \in [r : Nat, w : Nat, data : Seq(Octet)]
          /\ c.r = b.r + m /\ c.w = b.w /\ c.data = b.data
      BY <1>2, <3>1 DEF IsByteBuf
    <3>3. IsByteBuf(c)
      BY <1>2, <3>2, BufShape DEF IsByteBuf
    <3> QED BY <3>2, <3>3 DEF Readable
  <2> QED BY <2>1, <2>2
<1> QED BY <1>1, <1>4, <1>5, <1>6, <1>7

(* byte_buffer.hpp:84-98, 122-131: what is taken from one buffer is put       *)
(* behind what the other has, no byte is in both and none in neither.       *)
THEOREM TransferMoves ==
  ASSUME NEW src, IsByteBuf(src), NEW dst, IsByteBuf(dst), NEW n \in Nat
  PROVE  LET t == Transfer(src, dst, n)
         IN  /\ IsByteBuf(t.src) /\ IsByteBuf(t.dst)
             /\ Readable(t.dst) = Readable(dst) \o Peek(src, n)
             /\ Readable(src) = Peek(src, n) \o Readable(t.src)
<1>1. PICK m : m = Least(n, ReadableBytes(src))
  OBVIOUS
<1>2. m \in Nat /\ m <= ReadableBytes(src)
  BY <1>1, BufShape DEF Least
<1>3. Peek(src, m) = Peek(src, n)
  <2>1. Least(m, ReadableBytes(src)) = m
    BY <1>2 DEF Least
  <2> QED BY <1>1, <2>1 DEF Peek
<1>4. CASE m = 0
  <2>1. Transfer(src, dst, n) = [src |-> src, dst |-> dst]
    BY <1>1, <1>4 DEF Transfer
  <2>2. Peek(src, n) = <<>>
    <3>1. Peek(src, n) \in Seq(Octet) /\ Len(Peek(src, n)) = 0
      BY <1>1, <1>4, AdvanceDrops
    <3> QED BY <3>1, EmptySeq
  <2>3. /\ Readable(dst) = Readable(dst) \o <<>>
        /\ Readable(src) = <<>> \o Readable(src)
    BY ReadableShape, ConcatEmptySeq
  <2> QED BY <2>1, <2>2, <2>3
<1>5. CASE m # 0
  <2>1. PICK p : p = Peek(src, n)
    OBVIOUS
  <2>2. Transfer(src, dst, n) = [src |-> Advance(src, m), dst |-> Write(dst, p)]
    BY <1>1, <1>3, <1>5, <2>1 DEF Transfer
  <2>3. /\ IsByteBuf(Advance(src, m)) /\ p \in Seq(Octet)
        /\ Readable(src) = p \o Readable(Advance(src, m))
    BY <1>2, <1>3, <2>1, AdvanceDrops
  <2>4. /\ IsByteBuf(Write(dst, p))
        /\ Readable(Write(dst, p)) = Readable(dst) \o p
    BY <2>3, WriteAppends
  <2> QED BY <2>1, <2>2, <2>3, <2>4
<1> QED BY <1>4, <1>5

(* The bytes of a number are bytes. *)
LEMMA UI32BytesType ==
  ASSUME NEW v \in Nat
  PROVE  UI32Bytes(v) \in Seq(Octet) /\ Len(UI32Bytes(v)) = 4
<1>1. /\ v % 256 \in Octet /\ (v \div 256) % 256 \in Octet
      /\ (v \div 65536) % 256 \in Octet /\ (v \div 16777216) % 256 \in Octet
  BY SMT DEF Octet
<1> QED BY <1>1 DEF UI32Bytes

(* writeUI32() puts them behind what is there. *)
LEMMA WriteUI32Appends ==
  ASSUME NEW b, IsByteBuf(b), NEW v \in Nat
  PROVE  /\ IsByteBuf(WriteUI32(b, v))
         /\ Readable(WriteUI32(b, v)) = Readable(b) \o UI32Bytes(v)
BY UI32BytesType, WriteAppends DEF WriteUI32

(* readUI32() gives a number and leaves a buffer. *)
LEMMA ReadUI32Keeps ==
  ASSUME NEW b, IsByteBuf(b), HasUI32(b)
  PROVE  ReadUI32(b).out \in Nat /\ IsByteBuf(ReadUI32(b).buf)
<1>1. Least(4, ReadableBytes(b)) = 4
  BY BufShape DEF HasUI32, Least
<1>2. PICK p : p = Peek(b, 4)
  OBVIOUS
<1>3. p \in Seq(Octet) /\ Len(p) = 4
  BY <1>1, <1>2, AdvanceDrops
<1>4. p[1] \in Nat /\ p[2] \in Nat /\ p[3] \in Nat /\ p[4] \in Nat
  <2>1. ASSUME NEW i \in 1..4 PROVE p[i] \in Octet
    BY <1>3, ElementOfSeq
  <2> QED BY <2>1 DEF Octet
<1>5. UI32Value(p) \in Nat
  BY SMT, <1>4 DEF UI32Value
<1>6. IsByteBuf(Advance(b, 4))
  BY AdvanceDrops
<1> QED BY <1>2, <1>5, <1>6 DEF ReadUI32

(* Four bytes are the bytes of the number they hold. *)
LEMMA UI32RoundTrip ==
  ASSUME NEW p \in Seq(Octet), Len(p) = 4
  PROVE  UI32Value(p) \in Nat /\ UI32Bytes(UI32Value(p)) = p
<1>1. p[1] \in Octet /\ p[2] \in Octet /\ p[3] \in Octet /\ p[4] \in Octet
  <2>1. ASSUME NEW i \in 1..4 PROVE p[i] \in Octet
    BY ElementOfSeq
  <2> QED BY <2>1
<1>2. PICK a \in 0..255, b \in 0..255, c \in 0..255, d \in 0..255 :
        a = p[1] /\ b = p[2] /\ c = p[3] /\ d = p[4]
  BY <1>1 DEF Octet
<1>3. PICK v : v = a + 256 * b + 65536 * c + 16777216 * d
  OBVIOUS
<1>4. v \in Nat /\ UI32Value(p) = v
  <2>1. UI32Value(p) = v
    BY <1>2, <1>3 DEF UI32Value
  <2>2. a \in Nat /\ b \in Nat /\ c \in Nat /\ d \in Nat
    OBVIOUS
  <2> QED BY SMT, <1>3, <2>1, <2>2
<1>5. v % 256 = a
  BY <1>3
<1>6. v \div 256 = b + 256 * c + 65536 * d
  BY <1>3
<1>7. v \div 65536 = c + 256 * d
  BY <1>3
<1>8. v \div 16777216 = d
  BY <1>3
<1>9. (v \div 256) % 256 = b /\ (v \div 65536) % 256 = c /\ (v \div 16777216) % 256 = d
  <2>1. \A x \in 0..255, y \in Nat : (x + 256 * y) % 256 = x
    BY SMT
  <2>2. PICK m : m = c + 256 * d
    OBVIOUS
  <2>3. m \in Nat /\ d \in Nat /\ d = d + 256 * 0
    BY SMT, <2>2
  <2>4. (v \div 256) % 256 = b
    <3>1. v \div 256 = b + 256 * m
      BY SMT, <1>6, <2>2
    <3> QED BY <2>1, <2>3, <3>1
  <2>5. (v \div 65536) % 256 = c
    BY <1>7, <2>1, <2>3
  <2>6. (v \div 16777216) % 256 = d
    BY SMT, <1>8
  <2> QED BY <2>4, <2>5, <2>6
<1>10. UI32Bytes(v) = <<a, b, c, d>>
  BY <1>5, <1>9 DEF UI32Bytes
<1>11. p = <<a, b, c, d>>
  BY <1>2
<1> QED BY <1>4, <1>10, <1>11

(* readUI32() takes the bytes of the number it gives off the front. *)
LEMMA ReadUI32Takes ==
  ASSUME NEW b, IsByteBuf(b), HasUI32(b)
  PROVE  Readable(b) = UI32Bytes(ReadUI32(b).out) \o Readable(ReadUI32(b).buf)
<1>1. Least(4, ReadableBytes(b)) = 4
  BY BufShape DEF HasUI32, Least
<1>2. /\ Peek(b, 4) \in Seq(Octet) /\ Len(Peek(b, 4)) = 4
      /\ Readable(b) = Peek(b, 4) \o Readable(Advance(b, 4))
  BY <1>1, AdvanceDrops
<1>3. UI32Bytes(UI32Value(Peek(b, 4))) = Peek(b, 4)
  BY <1>2, UI32RoundTrip
<1> QED BY <1>2, <1>3 DEF ReadUI32
=============================================================================
