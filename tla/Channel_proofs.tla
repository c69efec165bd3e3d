---------------------------- MODULE Channel_proofs ----------------------------
(***************************************************************************)
(* For every set of chunks, every limit, every size of the kernel's pipe and *)
(* of a read: no byte is lost, doubled or overtaken on a connection that    *)
(* holds, and the chunks that come out are the first of those sent, whole   *)
(* and in order, whatever becomes of the connection.                       *)
(***************************************************************************)
EXTENDS Channel, Sequence_proofs

-----------------------------------------------------------------------------
(* Chunks as bytes.                                                        *)

Header(c) == SubSeq(Frame(c), 1, HeaderSize)

(* A chunk is its header and its payload. *)
LEMMA FrameShape ==
  ASSUME NEW c \in Chunks
  PROVE  /\ Size[c] \in Nat /\ HeaderSize \in Nat \ {0}
         /\ Frame(c) \in Seq(Byte) /\ Len(Frame(c)) = HeaderSize + Size[c]
         /\ \A i \in 1..HeaderSize + Size[c] : Frame(c)[i] = <<c, i>>
         /\ Payload(c) \in Seq(Byte) /\ Len(Payload(c)) = Size[c]
         /\ SubSeq(Frame(c), HeaderSize + 1, Len(Frame(c))) = Payload(c)
         /\ Header(c) \in Seq(Byte) /\ Len(Header(c)) = HeaderSize
         /\ Frame(c) = Cat(Header(c), Payload(c))
<1>1. PICK h, n : h = HeaderSize /\ n = Size[c]
  OBVIOUS
<1>2. h \in Nat \ {0} /\ n \in Nat
  BY <1>1, ChunkerAssumptions
<1>3. \A i \in 1..h + n : <<c, i>> \in Byte
  BY <1>1 DEF Byte
<1>4. /\ Frame(c) = [i \in 1..h + n |-> <<c, i>>]
      /\ Payload(c) = [i \in 1..n |-> <<c, h + i>>]
  BY <1>1 DEF Frame, Payload
<1>5. Frame(c) \in Seq(Byte) /\ Len(Frame(c)) = h + n
  BY <1>2, <1>3, <1>4
<1>6. \A i \in 1..h + n : Frame(c)[i] = <<c, i>>
  BY <1>4
<1>7. Payload(c) \in Seq(Byte) /\ Len(Payload(c)) = n
  <2>1. \A i \in 1..n : h + i \in 1..h + n
    BY <1>2
  <2>2. \A i \in 1..n : <<c, h + i>> \in Byte
    <3>1. \A j \in 1..h + n : <<c, j>> \in Byte
      BY <1>3
    <3>2. ASSUME NEW i \in 1..n PROVE <<c, h + i>> \in Byte
      <4>1. PICK j : j = h + i
        OBVIOUS
      <4>2. j \in 1..h + n
        BY <2>1, <4>1
      <4>3. <<c, j>> \in Byte
        BY <3>1, <4>2
      <4> QED BY <4>1, <4>3
    <3> QED BY <3>2
  <2>3. PICK p : p = Payload(c)
    OBVIOUS
  <2>4. p = [i \in 1..n |-> <<c, h + i>>]
    BY <1>4, <2>3
  <2>5. p \in [1..n -> Byte]
    BY <2>2, <2>4
  <2>6. p \in Seq(Byte) /\ Len(p) = n
    BY <1>2, <2>5
  <2> QED BY <2>3, <2>6
<1>8. \A i \in 1..n : Payload(c)[i] = <<c, h + i>>
  BY <1>4
<1>9. PICK f, q : f = Frame(c) /\ q = SubSeq(Frame(c), h + 1, Len(Frame(c)))
  OBVIOUS
<1>10. /\ h <= Len(f) /\ q = SubSeq(f, h + 1, Len(f))
       /\ f \in Seq(Byte) /\ Len(f) = h + n
  BY <1>2, <1>5, <1>9
<1>11. /\ SubSeq(f, 1, h) \in Seq(Byte) /\ Len(SubSeq(f, 1, h)) = h
       /\ q \in Seq(Byte) /\ Len(q) = Len(f) - h
       /\ f = Cat(SubSeq(f, 1, h), q)
  BY <1>2, <1>10, Cut DEF Cat
<1>12. q = Payload(c)
  <2>1. Len(q) = n
    BY <1>2, <1>10, <1>11
  <2>2. ASSUME NEW i \in 1..n PROVE q[i] = Payload(c)[i]
    <3>1. \A j \in h + 1..h + n : f[j] \in Byte
      <4>1. \A j \in h + 1..h + n : j \in 1..Len(f)
        BY <1>2, <1>10
      <4> QED BY <1>10, <4>1, ElementOfSeq
    <3>2. \A j \in 1..(h + n) - (h + 1) + 1 : SubSeq(f, h + 1, h + n)[j] = f[h + 1 + j - 1]
      BY <1>2, <3>1, SubSeqProperties
    <3>3. i \in 1..(h + n) - (h + 1) + 1 /\ h + 1 + i - 1 = h + i /\ h + i \in 1..h + n
      BY <1>2
    <3>4. q[i] = f[h + i]
      BY <1>10, <3>2, <3>3
    <3> QED BY <1>6, <1>8, <1>9, <3>3, <3>4
  <2> QED BY <1>7, <1>11, <2>1, <2>2, SeqEqual
<1>13. Header(c) = SubSeq(f, 1, h)
  BY <1>1, <1>9 DEF Header
<1> QED BY <1>1, <1>2, <1>5, <1>6, <1>7, <1>9, <1>11, <1>12, <1>13

-----------------------------------------------------------------------------
(* The bytes of all chunks of s but the first k. *)
Frames(s, k) == [i \in 1..Len(s) - k |-> Frame(s[k + i])]
Rest(s, k) == FlattenSeq(Frames(s, k))

LEMMA FramesShape ==
  ASSUME NEW s \in Seq(Chunks), NEW k \in 0..Len(s)
  PROVE  /\ Frames(s, k) \in Seq(Seq(Byte)) /\ Len(Frames(s, k)) = Len(s) - k
         /\ \A i \in 1..Len(s) - k : Frames(s, k)[i] = Frame(s[k + i])
         /\ Rest(s, k) \in Seq(Byte)
<1>1. Len(s) \in Nat /\ Len(s) - k \in Nat
  BY LenProperties
<1>2. ASSUME NEW i \in 1..Len(s) - k PROVE Frame(s[k + i]) \in Seq(Byte)
  <2>1. k + i \in 1..Len(s)
    BY <1>1
  <2>2. s[k + i] \in Chunks
    BY <2>1, ElementOfSeq
  <2> QED BY <2>2, FrameShape
<1>3. Frames(s, k) \in Seq(Seq(Byte)) /\ Len(Frames(s, k)) = Len(s) - k
  BY <1>1, <1>2 DEF Frames
<1>4. \A i \in 1..Len(s) - k : Frames(s, k)[i] = Frame(s[k + i])
  BY DEF Frames
<1> QED BY <1>3, <1>4, FlattenTyped DEF Rest

(* Nothing is left of all. *)
LEMMA RestEmpty == ASSUME NEW s \in Seq(Chunks) PROVE Rest(s, Len(s)) = <<>>
<1>1. Len(s) \in 0..Len(s) /\ Len(s) - Len(s) = 0
  BY LenProperties
<1>2. Frames(s, Len(s)) = <<>>
  BY <1>1, FramesShape, EmptySeq
<1> QED BY <1>2, FlattenEmpty DEF Rest

(* The next chunk and those behind it. *)
LEMMA RestFirst ==
  ASSUME NEW s \in Seq(Chunks), NEW k \in 0..Len(s), k < Len(s)
  PROVE  Rest(s, k) = Cat(Frame(s[k + 1]), Rest(s, k + 1))
<1>1. k \in Nat /\ Len(s) \in Nat /\ k + 1 \in 1..Len(s) /\ k + 1 \in 0..Len(s)
  BY LenProperties
<1>2. PICK x, t, u, n : /\ x = Frame(s[k + 1]) /\ t = Frames(s, k)
                        /\ u = Frames(s, k + 1) /\ n = Len(s) - k
  OBVIOUS
<1>3. x \in Seq(Byte)
  BY <1>1, <1>2, ElementOfSeq, FrameShape
<1>4. /\ t \in Seq(Seq(Byte)) /\ Len(t) = n
      /\ \A i \in 1..n : t[i] = Frame(s[k + i])
  BY <1>2, FramesShape
<1>5. /\ u \in Seq(Seq(Byte)) /\ Len(u) = Len(s) - (k + 1)
      /\ \A i \in 1..Len(s) - (k + 1) : u[i] = Frame(s[k + 1 + i])
  BY <1>1, <1>2, FramesShape
<1>6. n \in Nat \ {0} /\ Len(u) = n - 1
  <2>1. n = Len(s) - k /\ Len(u) = Len(s) - (k + 1)
    BY <1>2, <1>5
  <2> QED BY <1>1, <2>1
<1>7. t = <<x>> \o u
  <2>1. <<x>> \in Seq(Seq(Byte)) /\ Len(<<x>>) = 1 /\ <<x>>[1] = x
    BY <1>3
  <2>2. PICK v : v = <<x>> \o u
    OBVIOUS
  <2>3. /\ v \in Seq(Seq(Byte)) /\ Len(v) = n
        /\ \A i \in 1..n : v[i] = IF i <= 1 THEN x ELSE u[i - 1]
    <3>1. /\ v \in Seq(Seq(Byte)) /\ Len(v) = Len(<<x>>) + Len(u)
          /\ \A i \in 1..Len(<<x>>) + Len(u) :
               v[i] = IF i <= Len(<<x>>) THEN <<x>>[i] ELSE u[i - Len(<<x>>)]
      BY <1>5, <2>1, <2>2, ConcatProperties
    <3>2. Len(<<x>>) + Len(u) = n
      BY <1>6, <2>1
    <3>3. ASSUME NEW i \in 1..n PROVE v[i] = IF i <= 1 THEN x ELSE u[i - 1]
      <4>1. v[i] = IF i <= 1 THEN <<x>>[i] ELSE u[i - 1]
        BY <2>1, <3>1, <3>2
      <4>2. i <= 1 => i = 1
        BY <1>6
      <4> QED BY <2>1, <4>1, <4>2
    <3> QED BY <3>1, <3>2, <3>3
  <2>4. ASSUME NEW i \in 1..n PROVE t[i] = v[i]
    <3>1. CASE i = 1
      BY <1>2, <1>4, <2>3, <3>1
    <3>2. CASE i # 1
      <4>1. i - 1 \in 1..Len(s) - (k + 1) /\ k + 1 + (i - 1) = k + i /\ ~(i <= 1)
        BY <1>1, <1>2, <1>6, <3>2
      <4>2. u[i - 1] = Frame(s[k + 1 + (i - 1)])
        BY <1>5, <4>1
      <4> QED BY <1>4, <2>3, <4>1, <4>2
    <3> QED BY <3>1, <3>2
  <2> QED BY <1>4, <2>2, <2>3, <2>4, SeqEqual
<1>8. FlattenSeq(<<x>> \o u) = FlattenSeq(<<x>>) \o FlattenSeq(u)
  <2>1. <<x>> \in Seq(Seq(Byte))
    BY <1>3
  <2> QED BY <1>5, <2>1, FlattenConcat
<1>9. FlattenSeq(<<x>>) = x
  BY <1>3, FlattenOne
<1> QED BY <1>2, <1>7, <1>8, <1>9 DEF Rest, Cat

(* One more chunk is sent. *)
LEMMA RestAppend ==
  ASSUME NEW s \in Seq(Chunks), NEW k \in 0..Len(s), NEW c \in Chunks
  PROVE  Rest(Append(s, c), k) = Cat(Rest(s, k), Frame(c))
<1>1. PICK a, t, x, n : /\ a = Append(s, c) /\ t = Frames(s, k)
                        /\ x = Frame(c) /\ n = Len(s)
  OBVIOUS
<1>2. /\ a \in Seq(Chunks) /\ n \in Nat /\ Len(a) = n + 1 /\ a[n + 1] = c
      /\ \A i \in 1..n : a[i] = s[i]
  BY <1>1, AppendProperties, LenProperties
<1>3. x \in Seq(Byte) /\ k \in 0..n /\ k \in 0..Len(a)
  BY <1>1, <1>2, FrameShape
<1>4. /\ t \in Seq(Seq(Byte)) /\ Len(t) = n - k
      /\ \A i \in 1..n - k : t[i] = Frame(s[k + i])
  BY <1>1, FramesShape
<1>5. PICK v : v = Frames(a, k)
  OBVIOUS
<1>6. /\ v \in Seq(Seq(Byte)) /\ Len(v) = n + 1 - k
      /\ \A i \in 1..n + 1 - k : v[i] = Frame(a[k + i])
  <2>1. /\ v \in Seq(Seq(Byte)) /\ Len(v) = Len(a) - k
        /\ \A i \in 1..Len(a) - k : v[i] = Frame(a[k + i])
    BY <1>2, <1>3, <1>5, FramesShape
  <2> QED BY <1>2, <2>1
<1>7. v = Append(t, x)
  <2>1. PICK w : w = Append(t, x)
    OBVIOUS
  <2>2. /\ w \in Seq(Seq(Byte)) /\ Len(w) = n - k + 1 /\ w[n - k + 1] = x
        /\ \A i \in 1..n - k : w[i] = t[i]
    BY <1>3, <1>4, <2>1, AppendProperties
  <2>3. ASSUME NEW i \in 1..n + 1 - k PROVE v[i] = w[i]
    <3>1. CASE i = n - k + 1
      <4>1. k + i = n + 1
        BY <1>2, <1>3, <3>1
      <4> QED BY <1>1, <1>2, <1>6, <2>2, <3>1, <4>1
    <3>2. CASE i # n - k + 1
      <4>1. i \in 1..n - k /\ k + i \in 1..n
        BY <1>2, <1>3, <3>2
      <4>2. v[i] = Frame(a[k + i]) /\ a[k + i] = s[k + i]
        BY <1>2, <1>6, <4>1
      <4> QED BY <1>4, <2>2, <4>1, <4>2
    <3> QED BY <3>1, <3>2
  <2>4. Len(v) = Len(w)
    BY <1>2, <1>3, <1>6, <2>2
  <2> QED BY <1>6, <2>1, <2>2, <2>3, <2>4, SeqEqual
<1>8. FlattenSeq(Append(t, x)) = FlattenSeq(t) \o x
  BY <1>3, <1>4, FlattenAppend
<1> QED BY <1>1, <1>5, <1>7, <1>8 DEF Rest, Cat

(* All chunks are the first k and the rest. *)
LEMMA WholeAndRest ==
  ASSUME NEW s \in Seq(Chunks), NEW k \in 0..Len(s)
  PROVE  LET first == [i \in 1..k |-> Frame(s[i])]
             all   == [i \in 1..Len(s) |-> Frame(s[i])]
         IN  /\ FlattenSeq(first) \in Seq(Byte)
             /\ FlattenSeq(all) = Cat(FlattenSeq(first), Rest(s, k))
<1>1. PICK p, a, u, n : /\ p = [i \in 1..k |-> Frame(s[i])]
                        /\ a = [i \in 1..Len(s) |-> Frame(s[i])]
                        /\ u = Frames(s, k) /\ n = Len(s)
  OBVIOUS
<1>2. n \in Nat /\ k \in 0..n /\ k \in Nat
  BY <1>1, LenProperties
<1>3. \A i \in 1..n : Frame(s[i]) \in Seq(Byte)
  BY <1>1, ElementOfSeq, FrameShape
<1>4. /\ p \in Seq(Seq(Byte)) /\ Len(p) = k /\ \A i \in 1..k : p[i] = Frame(s[i])
  <2>1. \A i \in 1..k : Frame(s[i]) \in Seq(Byte)
    BY <1>2, <1>3
  <2> QED BY <1>1, <1>2, <2>1
<1>5. /\ a \in Seq(Seq(Byte)) /\ Len(a) = n /\ \A i \in 1..n : a[i] = Frame(s[i])
  BY <1>1, <1>2, <1>3
<1>6. /\ u \in Seq(Seq(Byte)) /\ Len(u) = n - k
      /\ \A i \in 1..n - k : u[i] = Frame(s[k + i])
  BY <1>1, FramesShape
<1>7. a = p \o u
  <2>1. PICK v : v = p \o u
    OBVIOUS
  <2>2. /\ v \in Seq(Seq(Byte)) /\ Len(v) = k + (n - k)
        /\ \A i \in 1..k + (n - k) : v[i] = IF i <= k THEN p[i] ELSE u[i - k]
    <3>1. /\ v \in Seq(Seq(Byte)) /\ Len(v) = Len(p) + Len(u)
          /\ \A i \in 1..Len(p) + Len(u) :
               v[i] = IF i <= Len(p) THEN p[i] ELSE u[i - Len(p)]
      BY <1>4, <1>6, <2>1, ConcatProperties
    <3>2. Len(p) = k /\ Len(u) = n - k
      BY <1>4, <1>6
    <3> QED BY <3>1, <3>2
  <2>3. k + (n - k) = n
    BY <1>2
  <2>4. ASSUME NEW i \in 1..n PROVE a[i] = v[i]
    <3>1. CASE i <= k
      <4>1. i \in 1..k
        BY <1>2, <3>1
      <4> QED BY <1>4, <1>5, <2>2, <2>3, <3>1, <4>1
    <3>2. CASE ~(i <= k)
      <4>1. i - k \in 1..n - k /\ k + (i - k) = i
        BY <1>2, <3>2
      <4> QED BY <1>5, <1>6, <2>2, <2>3, <3>2, <4>1
    <3> QED BY <3>1, <3>2
  <2> QED BY <1>5, <2>1, <2>2, <2>3, <2>4, SeqEqual
<1>8. FlattenSeq(a) = FlattenSeq(p) \o FlattenSeq(u)
  BY <1>4, <1>6, <1>7, FlattenConcat
<1>9. FlattenSeq(p) \in Seq(Byte)
  BY <1>4, FlattenTyped
<1> QED BY <1>1, <1>8, <1>9 DEF Rest, Cat

-----------------------------------------------------------------------------
(* Types.                                                                  *)

(* The first n bytes of a buffer and the others. *)
LEMMA Pieces ==
  ASSUME NEW b \in Seq(Byte), NEW n \in Nat, n <= Len(b)
  PROVE  /\ SubSeq(b, 1, n) \in Seq(Byte) /\ Len(SubSeq(b, 1, n)) = n
         /\ SubSeq(b, n + 1, Len(b)) \in Seq(Byte)
         /\ Len(SubSeq(b, n + 1, Len(b))) = Len(b) - n
         /\ b = Cat(SubSeq(b, 1, n), SubSeq(b, n + 1, Len(b)))
BY Cut DEF Cat

LEMMA FirstOfPiece ==
  ASSUME NEW b \in Seq(Byte), NEW n \in Nat \ {0}, n <= Len(b)
  PROVE  SubSeq(b, 1, n)[1] = b[1]
<1>1. PICK p, q : p = SubSeq(b, 1, n) /\ q = SubSeq(b, n + 1, Len(b))
  OBVIOUS
<1>2. p \in Seq(Byte) /\ q \in Seq(Byte) /\ Len(p) = n /\ b = Cat(p, q)
  BY <1>1, Pieces
<1>3. 1 \in 1..Len(p)
  BY <1>2
<1>4. Cat(p, q)[1] = p[1]
  BY <1>2, <1>3, CatFirst
<1> QED BY <1>1, <1>2, <1>4

WriterTypeOK ==
  /\ wbuf \in Seq(Byte) /\ writeArmed \in BOOLEAN
  /\ wpc \in {"idle", "writing", "destroyed"} /\ writes \in 0..MaxWrites

PipeTypeOK ==
  pipe \in Seq(Byte) /\ Len(pipe) <= Room /\ link \in {"up", "fin", "reset"}

ReaderTypeOK ==
  /\ rbuf \in Seq(Byte) /\ readArmed \in BOOLEAN
  /\ rpc \in {"idle", "recv", "inbound", "notify"}
  /\ ended \in {"", "wouldblock", "eof", "failed"}
  /\ fired \in {"none", "inactive", "error"}

LEMMA TypeParts ==
  TypeOK <=> /\ WriterTypeOK /\ PipeTypeOK /\ ReaderTypeOK
             /\ ChunkerTypeOK /\ sent \in Seq(Chunks)
BY DEF TypeOK, TransportTypeOK, WriterTypeOK, PipeTypeOK, ReaderTypeOK

LEMMA TypePartsNext ==
  ASSUME WriterTypeOK', PipeTypeOK', ReaderTypeOK', ChunkerTypeOK',
         sent' \in Seq(Chunks)
  PROVE  TypeOK'
BY DEF TypeOK, TransportTypeOK, WriterTypeOK, PipeTypeOK, ReaderTypeOK

(* writev() takes the first bytes of the buffer, and there is room for them. *)
LEMMA WritevMoves ==
  ASSUME TypeOK, Writev
  PROVE  \E x \in Seq(Byte) :
           /\ pipe' = Cat(pipe, x) /\ wbuf = Cat(x, wbuf')
           /\ wbuf' \in Seq(Byte) /\ pipe' \in Seq(Byte) /\ Len(pipe') <= Room
<1>1. PICK n \in 1..AtMost(Len(wbuf), Room - Len(pipe)) :
        /\ pipe' = pipe \o SubSeq(wbuf, 1, n)
        /\ wbuf' = SubSeq(wbuf, n + 1, Len(wbuf))
  BY DEF Writev
<1>2. /\ wbuf \in Seq(Byte) /\ pipe \in Seq(Byte) /\ Len(pipe) <= Room
      /\ Room \in Nat
  BY TypeParts, TransportAssumptions DEF WriterTypeOK, PipeTypeOK
<1>3. Len(wbuf) \in Nat /\ Len(pipe) \in Nat
  BY <1>2, LenProperties
<1>4. n \in Nat /\ n <= Len(wbuf) /\ n <= Room - Len(pipe)
  BY <1>2, <1>3 DEF AtMost
<1>5. PICK x : x = SubSeq(wbuf, 1, n)
  OBVIOUS
<1>6. x \in Seq(Byte) /\ Len(x) = n /\ wbuf' \in Seq(Byte) /\ wbuf = Cat(x, wbuf')
  BY <1>1, <1>2, <1>4, <1>5, Pieces
<1>7. pipe' = Cat(pipe, x)
  BY <1>1, <1>5 DEF Cat
<1>8. pipe' \in Seq(Byte) /\ Len(pipe') = Len(pipe) + n
  BY <1>2, <1>6, <1>7, CatTyped, CatLen
<1>9. Len(pipe') <= Room
  BY <1>2, <1>3, <1>4, <1>8
<1> QED BY <1>6, <1>7, <1>8, <1>9

(* recv() takes the first bytes of the pipe. *)
LEMMA RecvMoves ==
  ASSUME TypeOK, Recv
  PROVE  \E x \in Seq(Byte) :
           /\ rbuf' = Cat(rbuf, x) /\ pipe = Cat(x, pipe')
           /\ rbuf' \in Seq(Byte) /\ pipe' \in Seq(Byte) /\ Len(pipe') <= Room
<1>1. PICK n \in 1..AtMost(Len(pipe), ReadMax) :
        /\ rbuf' = rbuf \o SubSeq(pipe, 1, n)
        /\ pipe' = SubSeq(pipe, n + 1, Len(pipe))
  BY DEF Recv
<1>2. /\ rbuf \in Seq(Byte) /\ pipe \in Seq(Byte) /\ Len(pipe) <= Room
      /\ Room \in Nat /\ ReadMax \in Nat
  BY TypeParts, TransportAssumptions DEF ReaderTypeOK, PipeTypeOK
<1>3. Len(pipe) \in Nat
  BY <1>2, LenProperties
<1>4. n \in Nat /\ n <= Len(pipe)
  BY <1>2, <1>3 DEF AtMost
<1>5. PICK x : x = SubSeq(pipe, 1, n)
  OBVIOUS
<1>6. /\ x \in Seq(Byte) /\ pipe' \in Seq(Byte) /\ Len(pipe') = Len(pipe) - n
      /\ pipe = Cat(x, pipe')
  BY <1>1, <1>2, <1>4, <1>5, Pieces
<1>7. rbuf' = Cat(rbuf, x)
  BY <1>1, <1>5 DEF Cat
<1>8. rbuf' \in Seq(Byte)
  BY <1>2, <1>6, <1>7, CatTyped
<1>9. Len(pipe') <= Room
  BY <1>2, <1>3, <1>4, <1>6
<1> QED BY <1>6, <1>7, <1>8, <1>9

(* What a reset loses is the end of what was in the pipe. *)
LEMMA ResetCuts ==
  ASSUME TypeOK, Reset
  PROVE  \E x \in Seq(Byte) :
           pipe = Cat(pipe', x) /\ pipe' \in Seq(Byte) /\ Len(pipe') <= Room
<1>1. PICK n \in 0..Len(pipe) : pipe' = SubSeq(pipe, 1, n)
  BY DEF Reset
<1>2. pipe \in Seq(Byte) /\ Len(pipe) <= Room /\ Room \in Nat
  BY TypeParts, TransportAssumptions DEF PipeTypeOK
<1>3. Len(pipe) \in Nat
  BY <1>2, LenProperties
<1>4. n \in Nat /\ n <= Len(pipe)
  BY <1>1, <1>3
<1>5. PICK x : x = SubSeq(pipe, n + 1, Len(pipe))
  OBVIOUS
<1>6. /\ pipe' \in Seq(Byte) /\ Len(pipe') = n /\ x \in Seq(Byte)
      /\ pipe = Cat(pipe', x)
  BY <1>1, <1>2, <1>4, <1>5, Pieces
<1>7. Len(pipe') <= Room
  BY <1>2, <1>3, <1>4, <1>6
<1> QED BY <1>6, <1>7

(* The writer's steps. *)
LEMMA WriterTypes == ASSUME TypeOK, WriteLoop PROVE WriterTypeOK' /\ PipeTypeOK'
<1> USE TypeParts DEF WriterTypeOK, PipeTypeOK
<1>1. CASE OnWritable
  BY <1>1, TransportAssumptions DEF OnWritable
<1>2. CASE Writev
  <2>1. wbuf' \in Seq(Byte) /\ pipe' \in Seq(Byte) /\ Len(pipe') <= Room
    BY <1>2, WritevMoves
  <2>2. writes' \in 0..MaxWrites
    BY <1>2, TransportAssumptions DEF Writev, InWriteLoop
  <2> QED BY <1>2, <2>1, <2>2 DEF Writev
<1>3. CASE WriteBlocks
  BY <1>3 DEF WriteBlocks
<1>4. CASE WriteFails
  BY <1>4 DEF WriteFails
<1>5. CASE WriteDone
  BY <1>5 DEF WriteDone
<1> QED BY <1>1, <1>2, <1>3, <1>4, <1>5 DEF WriteLoop

(* Where a header was written its length is read. *)
LEMMA LengthIsRead ==
  ASSUME NEW s \in Seq(Byte), HeaderSize <= Len(s), NEW c \in Chunks,
         SubSeq(s, 1, HeaderSize) = Header(c)
  PROVE  Lengths(s) = {Size[c]}
<1>1. PICK h : h = HeaderSize
  OBVIOUS
<1>2. h \in Nat \ {0} /\ 1 \in 1..h /\ Len(s) \in Nat
  BY <1>1, FrameShape, LenProperties
<1>3. SubSeq(s, 1, h)[1] = s[1]
  BY <1>1, <1>2, FirstOfPiece
<1>4. Header(c)[1] = <<c, 1>>
  <2>1. PICK f : f = Frame(c)
    OBVIOUS
  <2>2. f \in Seq(Byte) /\ Len(f) = h + Size[c] /\ Size[c] \in Nat /\ f[1] = <<c, 1>>
    <3>1. 1 \in 1..h + Size[c]
      BY <1>2, FrameShape
    <3> QED BY <1>1, <2>1, <3>1, FrameShape
  <2>3. h <= Len(f)
    BY <1>2, <2>2
  <2>4. SubSeq(f, 1, h)[1] = f[1]
    BY <1>2, <2>2, <2>3, FirstOfPiece
  <2> QED BY <1>1, <2>1, <2>2, <2>4 DEF Header
<1>5. s[1] = <<c, 1>>
  BY <1>1, <1>3, <1>4
<1>6. s[1][1] = c
  BY <1>5
<1>7. \E d \in Chunks : SubSeq(s, 1, HeaderSize) = SubSeq(Frame(d), 1, HeaderSize)
  BY DEF Header
<1> QED BY <1>6, <1>7 DEF Lengths

LEMMA LengthsAreNumbers ==
  ASSUME NEW s \in Seq(Byte), HeaderSize <= Len(s)
  PROVE  Lengths(s) \subseteq Nat
<1>1. CASE \E c \in Chunks : SubSeq(s, 1, HeaderSize) = SubSeq(Frame(c), 1, HeaderSize)
  <2>1. PICK c \in Chunks : SubSeq(s, 1, HeaderSize) = SubSeq(Frame(c), 1, HeaderSize)
    BY <1>1
  <2>2. Lengths(s) = {Size[c]}
    BY <2>1, LengthIsRead DEF Header
  <2> QED BY <2>2, FrameShape
<1>2. CASE ~\E c \in Chunks : SubSeq(s, 1, HeaderSize) = SubSeq(Frame(c), 1, HeaderSize)
  <2>1. Lengths(s) = 0..(Limit + 1)
    BY <1>2 DEF Lengths
  <2> QED BY <2>1, ChunkerAssumptions
<1> QED BY <1>1, <1>2

(* A turn of the loop has a length and bytes behind it. *)
LEMMA HeadedShape ==
  ASSUME ChunkerTypeOK, NEW h \in Headed
  PROVE  h.len \in Nat /\ h.rest \in Seq(Byte)
<1>1. in \in Seq(Byte) /\ pending \in Nat /\ HeaderSize \in Nat
  BY ChunkerAssumptions DEF ChunkerTypeOK
<1>2. CASE pending # 0
  <2>1. h = [len |-> pending, rest |-> in]
    BY <1>2 DEF Headed
  <2> QED BY <1>1, <2>1
<1>3. CASE pending = 0
  <2>1. ~(Len(in) < HeaderSize)
    BY <1>3 DEF Headed
  <2>2. HeaderSize <= Len(in)
    BY <1>1, <2>1, LenProperties
  <2>3. PICK n \in Lengths(in) : h = [len |-> n, rest |-> Drop(in, HeaderSize)]
    BY <1>3, <2>1 DEF Headed
  <2>4. n \in Nat
    BY <1>1, <2>2, LengthsAreNumbers
  <2>5. Drop(in, HeaderSize) \in Seq(Byte)
    BY <1>1, <2>2, Pieces DEF Drop
  <2> QED BY <2>3, <2>4, <2>5
<1> QED BY <1>1, <1>2, <1>3

LEMMA ChunkerTypes ==
  ASSUME ChunkerTypeOK, Deliver \/ NeedHeader \/ NeedPayload \/ Oversize
  PROVE  ChunkerTypeOK'
<1>1. CASE Deliver
  <2>1. PICK h \in Headed :
          /\ h.len <= Limit
          /\ Len(h.rest) >= h.len
          /\ in' = Drop(h.rest, h.len)
          /\ IF refused
             THEN stray' = TRUE /\ UNCHANGED delivered
             ELSE /\ delivered' = Append(delivered, SubSeq(h.rest, 1, h.len))
                  /\ UNCHANGED stray
    BY <1>1 DEF Deliver
  <2>2. h.len \in Nat /\ h.rest \in Seq(Byte) /\ h.len <= Len(h.rest)
    <3>1. h.len \in Nat /\ h.rest \in Seq(Byte)
      BY HeadedShape
    <3> QED BY <2>1, <3>1, LenProperties
  <2>3. in' \in Seq(Byte) /\ SubSeq(h.rest, 1, h.len) \in Seq(Byte)
    BY <2>1, <2>2, Pieces DEF Drop
  <2>4. delivered' \in Seq(Seq(Byte))
    <3>1. delivered \in Seq(Seq(Byte))
      BY DEF ChunkerTypeOK
    <3>2. CASE refused
      BY <2>1, <3>1, <3>2
    <3>3. CASE ~refused
      <4>1. delivered' = Append(delivered, SubSeq(h.rest, 1, h.len))
        BY <2>1, <3>3
      <4> QED BY <2>3, <3>1, <4>1, AppendProperties
    <3> QED BY <3>2, <3>3
  <2>5. stray' \in BOOLEAN
    BY <2>1 DEF ChunkerTypeOK
  <2>6. pending' \in 0..Limit /\ refused' \in BOOLEAN
    BY <1>1, ChunkerAssumptions DEF Deliver, ChunkerTypeOK
  <2> QED BY <2>3, <2>4, <2>5, <2>6 DEF ChunkerTypeOK
<1>2. CASE NeedHeader
  BY <1>2 DEF NeedHeader, chunkerVars, ChunkerTypeOK
<1>3. CASE NeedPayload
  <2>1. PICK h \in Headed : h.len <= Limit /\ in' = h.rest /\ pending' = h.len
    BY <1>3 DEF NeedPayload
  <2>2. in' \in Seq(Byte) /\ pending' \in 0..Limit
    BY <2>1, HeadedShape, ChunkerAssumptions
  <2> QED BY <1>3, <2>2 DEF NeedPayload, ChunkerTypeOK
<1>4. CASE Oversize
  <2>1. in' \in Seq(Byte) /\ pending' \in 0..Limit /\ refused' \in BOOLEAN
    BY <1>4, EmptySeq, ChunkerAssumptions DEF Oversize
  <2> QED BY <1>4, <2>1 DEF Oversize, ChunkerTypeOK
<1> QED BY <1>1, <1>2, <1>3, <1>4

-----------------------------------------------------------------------------
(* The inductive invariant.                                                *)

(* The chunk that comes next. *)
Coming == sent[Len(delivered) + 1]

(* The bytes sent that the Chunker is not done with. *)
Due == IF pending = 0 THEN Rest(sent, Len(delivered))
       ELSE Cat(Payload(Coming), Rest(sent, Len(delivered) + 1))

FirstOnes ==
  /\ Len(delivered) <= Len(sent)
  /\ \A i \in 1..Len(delivered) : delivered[i] = Payload(sent[i])

HeaderIsRead ==
  pending # 0 /\ ~refused => Len(delivered) < Len(sent) /\ pending = Size[Coming]

(* What is on its way, between the Chunker and what a reset or a destructor  *)
(* lost, which is what the writer still has while the connection holds.     *)
Flight(lost) == Cat(rbuf, Cat(pipe, lost))

InFlight ==
  ~refused => \E lost \in Seq(Byte) :
                (link = "up" => lost = wbuf) /\ Due = Cat(in, Flight(lost))

ChanInv == TypeOK /\ FirstOnes /\ HeaderIsRead /\ InFlight

LEMMA ChanShape ==
  ASSUME ChanInv
  PROVE  /\ sent \in Seq(Chunks) /\ delivered \in Seq(Seq(Byte))
         /\ Len(sent) \in Nat /\ Len(delivered) \in Nat
         /\ Len(delivered) \in 0..Len(sent) /\ Len(delivered) <= Len(sent)
         /\ in \in Seq(Byte) /\ rbuf \in Seq(Byte) /\ pipe \in Seq(Byte)
         /\ wbuf \in Seq(Byte) /\ pending \in Nat
         /\ refused \in BOOLEAN
         /\ ChunkerTypeOK
<1>1. sent \in Seq(Chunks) /\ delivered \in Seq(Seq(Byte)) /\ ChunkerTypeOK
  BY TypeParts DEF ChanInv, ChunkerTypeOK
<1>2. Len(sent) \in Nat /\ Len(delivered) \in Nat
  BY <1>1, LenProperties
<1>3. Len(delivered) \in 0..Len(sent) /\ Len(delivered) <= Len(sent)
  BY <1>2 DEF ChanInv, FirstOnes
<1>4. /\ in \in Seq(Byte) /\ rbuf \in Seq(Byte) /\ pipe \in Seq(Byte)
      /\ wbuf \in Seq(Byte)
  BY TypeParts
     DEF ChanInv, ChunkerTypeOK, ReaderTypeOK, PipeTypeOK, WriterTypeOK
<1>5. pending \in Nat /\ refused \in BOOLEAN
  BY <1>1, ChunkerAssumptions DEF ChunkerTypeOK
<1> QED BY <1>1, <1>2, <1>3, <1>4, <1>5

(* A step of the transport moves bytes from one place to the next. *)
LEMMA FlightKept ==
  ASSUME ChanInv, TypeOK', UNCHANGED <<chunkerVars, sent>>,
         \A lost \in Seq(Byte) : (link = "up" => lost = wbuf) =>
           \E l \in Seq(Byte) :
             (link' = "up" => l = wbuf') /\ Flight(l)' = Flight(lost)
  PROVE  ChanInv'
<1>1. in' = in /\ pending' = pending /\ delivered' = delivered /\ refused' = refused
  BY DEF chunkerVars
<1>2. sent' = sent
  OBVIOUS
<1>3. FirstOnes' /\ HeaderIsRead'
  BY <1>1, <1>2 DEF ChanInv, FirstOnes, HeaderIsRead, Coming
<1>4. Due' = Due
  BY <1>1, <1>2 DEF Due, Coming
<1>5. InFlight'
  <2>1. SUFFICES ASSUME ~refused
                 PROVE  \E l \in Seq(Byte) :
                          (link' = "up" => l = wbuf') /\ Due' = Cat(in', Flight(l)')
    BY <1>1 DEF InFlight
  <2>2. PICK lost \in Seq(Byte) :
          (link = "up" => lost = wbuf) /\ Due = Cat(in, Flight(lost))
    BY <2>1 DEF ChanInv, InFlight
  <2>3. PICK l \in Seq(Byte) :
          (link' = "up" => l = wbuf') /\ Flight(l)' = Flight(lost)
    BY <2>2
  <2>4. Due' = Cat(in', Flight(l)')
    BY <1>1, <1>4, <2>2, <2>3
  <2> QED BY <2>3, <2>4
<1> QED BY <1>3, <1>5 DEF ChanInv

(* One that leaves the buffers alone. *)
LEMMA FlightStill ==
  ASSUME ChanInv, TypeOK', UNCHANGED <<chunkerVars, sent>>,
         UNCHANGED <<rbuf, pipe, wbuf, link>>
  PROVE  ChanInv'
<1>1. ASSUME NEW lost \in Seq(Byte), link = "up" => lost = wbuf
      PROVE  \E l \in Seq(Byte) :
               (link' = "up" => l = wbuf') /\ Flight(l)' = Flight(lost)
  <2>1. (link' = "up" => lost = wbuf') /\ Flight(lost)' = Flight(lost)
    BY <1>1 DEF Flight
  <2> QED BY <2>1
<1> QED BY <1>1, FlightKept

-----------------------------------------------------------------------------
(* The transport's steps. *)

LEMMA WriterKeeps == ASSUME ChanInv, WriterStep PROVE ChanInv'
<1>1. TypeOK /\ WriteLoop /\ UNCHANGED <<chunkerVars, sent>>
  BY DEF ChanInv, WriterStep
<1>2. TypeOK'
  <2>1. WriterTypeOK' /\ PipeTypeOK'
    BY <1>1, WriterTypes
  <2>2. UNCHANGED readerVars
    BY <1>1 DEF WriteLoop, OnWritable, Writev, WriteBlocks, WriteFails, WriteDone
  <2>3. ReaderTypeOK'
    BY <1>1, <2>2, TypeParts DEF readerVars, ReaderTypeOK
  <2>4. ChunkerTypeOK' /\ sent' \in Seq(Chunks)
    BY <1>1, TypeParts DEF chunkerVars, ChunkerTypeOK
  <2> QED BY <2>1, <2>3, <2>4, TypePartsNext
<1>3. CASE Writev
  <2>1. PICK x \in Seq(Byte) :
          pipe' = Cat(pipe, x) /\ wbuf = Cat(x, wbuf') /\ wbuf' \in Seq(Byte)
    BY <1>1, <1>3, WritevMoves
  <2>2. link = "up" /\ rbuf' = rbuf
    BY <1>3 DEF Writev, readerVars
  <2>3. ASSUME NEW lost \in Seq(Byte), link = "up" => lost = wbuf
        PROVE  \E l \in Seq(Byte) :
                 (link' = "up" => l = wbuf') /\ Flight(l)' = Flight(lost)
    <3>1. lost = Cat(x, wbuf')
      BY <2>1, <2>2, <2>3
    <3>2. pipe \in Seq(Byte)
      BY ChanShape
    <3>3. Cat(Cat(pipe, x), wbuf') = Cat(pipe, Cat(x, wbuf'))
      BY <2>1, <3>2, CatAssoc
    <3>4. Cat(rbuf', Cat(pipe', wbuf')) = Cat(rbuf, Cat(pipe, lost))
      BY <2>1, <2>2, <3>1, <3>3
    <3>5. PICK l : l = wbuf'
      OBVIOUS
    <3>6. Flight(l)' = Flight(lost)
      BY <3>4, <3>5 DEF Flight
    <3> QED BY <2>1, <3>5, <3>6
  <2> QED BY <1>1, <1>2, <2>3, FlightKept
<1>4. CASE ~Writev
  <2>1. UNCHANGED <<rbuf, pipe, wbuf, link>>
    BY <1>1, <1>4
       DEF WriteLoop, OnWritable, WriteBlocks, WriteFails, WriteDone, readerVars
  <2> QED BY <1>1, <1>2, <2>1, FlightStill
<1> QED BY <1>3, <1>4

LEMMA ReadLoopKeeps == ASSUME ChanInv, ReadLoop PROVE ChanInv'
<1>1. TypeOK /\ (OnReadable \/ Recv) /\ UNCHANGED <<chunkerVars, sent>>
  BY DEF ChanInv, ReadLoop
<1>2. ChunkerTypeOK' /\ sent' \in Seq(Chunks)
  BY <1>1, TypeParts DEF chunkerVars, ChunkerTypeOK
<1>3. CASE OnReadable
  <2>1. WriterTypeOK' /\ PipeTypeOK' /\ ReaderTypeOK'
    BY <1>1, <1>3, TypeParts
       DEF OnReadable, writerVars, WriterTypeOK, PipeTypeOK, ReaderTypeOK
  <2>2. UNCHANGED <<rbuf, pipe, wbuf, link>>
    BY <1>3 DEF OnReadable, writerVars
  <2> QED BY <1>1, <1>2, <2>1, <2>2, TypePartsNext, FlightStill
<1>4. CASE Recv
  <2>1. PICK x \in Seq(Byte) :
          /\ rbuf' = Cat(rbuf, x) /\ pipe = Cat(x, pipe')
          /\ rbuf' \in Seq(Byte) /\ pipe' \in Seq(Byte) /\ Len(pipe') <= Room
    BY <1>1, <1>4, RecvMoves
  <2>2. UNCHANGED <<wbuf, link>>
    BY <1>4 DEF Recv, writerVars
  <2>3. WriterTypeOK' /\ PipeTypeOK' /\ ReaderTypeOK'
    BY <1>1, <1>4, <2>1, TypeParts
       DEF Recv, writerVars, WriterTypeOK, PipeTypeOK, ReaderTypeOK
  <2>4. ASSUME NEW lost \in Seq(Byte), link = "up" => lost = wbuf
        PROVE  \E l \in Seq(Byte) :
                 (link' = "up" => l = wbuf') /\ Flight(l)' = Flight(lost)
    <3>1. rbuf \in Seq(Byte) /\ Cat(pipe', lost) \in Seq(Byte)
      BY <2>1, ChanShape, CatTyped
    <3>2. Cat(Cat(x, pipe'), lost) = Cat(x, Cat(pipe', lost))
      BY <2>1, CatAssoc
    <3>3. Cat(Cat(rbuf, x), Cat(pipe', lost)) = Cat(rbuf, Cat(x, Cat(pipe', lost)))
      BY <3>1, CatAssoc
    <3>4. Cat(rbuf', Cat(pipe', lost)) = Cat(rbuf, Cat(pipe, lost))
      BY <2>1, <3>2, <3>3
    <3>5. Flight(lost)' = Flight(lost)
      BY <3>4 DEF Flight
    <3> QED BY <2>2, <2>4, <3>5
  <2> QED BY <1>1, <1>2, <2>3, <2>4, TypePartsNext, FlightKept
<1> QED BY <1>1, <1>3, <1>4

LEMMA NotifyKeeps ==
  ASSUME ChanInv, Notify, UNCHANGED <<chunkerVars, sent>> PROVE ChanInv'
<1>1. TypeOK'
  <2>1. WriterTypeOK' /\ PipeTypeOK' /\ ReaderTypeOK'
    BY TypeParts
       DEF ChanInv, Notify, writerVars, WriterTypeOK, PipeTypeOK, ReaderTypeOK
  <2>2. ChunkerTypeOK' /\ sent' \in Seq(Chunks)
    BY TypeParts DEF ChanInv, chunkerVars, ChunkerTypeOK
  <2> QED BY <2>1, <2>2, TypePartsNext
<1> QED BY <1>1, FlightStill DEF Notify, writerVars

LEMMA EnvironmentKeeps == ASSUME ChanInv, Environment PROVE ChanInv'
<1>1. TypeOK /\ UNCHANGED <<chunkerVars, sent>>
  BY DEF ChanInv, Environment
<1>2. ChunkerTypeOK' /\ sent' \in Seq(Chunks)
  BY <1>1, TypeParts DEF chunkerVars, ChunkerTypeOK
<1> USE DEF WriterTypeOK, PipeTypeOK, ReaderTypeOK, readerVars, writerVars
<1>3. CASE Flush
  <2>1. WriterTypeOK' /\ PipeTypeOK' /\ ReaderTypeOK'
    BY <1>1, <1>3, TypeParts DEF Flush
  <2> QED BY <1>1, <1>2, <1>3, <2>1, TypePartsNext, FlightStill DEF Flush
<1>4. CASE ReadableStateChanged
  <2>1. WriterTypeOK' /\ PipeTypeOK' /\ ReaderTypeOK'
    BY <1>1, <1>4, TypeParts DEF ReadableStateChanged
  <2> QED BY <1>1, <1>2, <1>4, <2>1, TypePartsNext, FlightStill DEF ReadableStateChanged
<1>5. CASE Destroy
  <2>1. WriterTypeOK' /\ PipeTypeOK' /\ ReaderTypeOK'
    BY <1>1, <1>5, TypeParts, EmptySeq DEF Destroy
  <2>2. link' # "up" /\ rbuf' = rbuf /\ pipe' = pipe
    BY <1>5 DEF Destroy
  <2>3. ASSUME NEW lost \in Seq(Byte)
        PROVE  (link' = "up" => lost = wbuf') /\ Flight(lost)' = Flight(lost)
    BY <2>2 DEF Flight
  <2> QED BY <1>1, <1>2, <2>1, <2>3, TypePartsNext, FlightKept
<1>6. CASE Reset
  <2>1. PICK x \in Seq(Byte) :
          pipe = Cat(pipe', x) /\ pipe' \in Seq(Byte) /\ Len(pipe') <= Room
    BY <1>1, <1>6, ResetCuts
  <2>2. WriterTypeOK' /\ PipeTypeOK' /\ ReaderTypeOK'
    BY <1>1, <1>6, <2>1, TypeParts DEF Reset
  <2>3. link' # "up" /\ rbuf' = rbuf
    BY <1>6 DEF Reset
  <2>4. ASSUME NEW lost \in Seq(Byte)
        PROVE  \E l \in Seq(Byte) :
                 (link' = "up" => l = wbuf') /\ Flight(l)' = Flight(lost)
    <3>1. PICK l : l = Cat(x, lost)
      OBVIOUS
    <3>2. l \in Seq(Byte)
      BY <3>1, CatTyped
    <3>3. Cat(Cat(pipe', x), lost) = Cat(pipe', Cat(x, lost))
      BY <2>1, CatAssoc
    <3>4. Flight(l)' = Flight(lost)
      BY <2>1, <2>3, <3>1, <3>3 DEF Flight
    <3> QED BY <2>3, <3>2, <3>4
  <2> QED BY <1>1, <1>2, <2>2, <2>4, TypePartsNext, FlightKept
<1> QED BY <1>3, <1>4, <1>5, <1>6 DEF Environment

(* What was read goes to the Chunker. *)
LEMMA InboundKeeps == ASSUME ChanInv, Inbound PROVE ChanInv'
<1>1. /\ in' = Cat(in, rbuf) /\ rbuf' = <<>> /\ sent' = sent
      /\ pending' = pending /\ delivered' = delivered /\ refused' = refused
      /\ pipe' = pipe /\ link' = link /\ wbuf' = wbuf /\ stray' = stray
  BY DEF Inbound, RecvEnds, Receive, writerVars, Cat
<1>2. /\ in \in Seq(Byte) /\ rbuf \in Seq(Byte) /\ pipe \in Seq(Byte)
      /\ <<>> \in Seq(Byte)
  BY ChanShape, EmptySeq
<1>3. TypeOK'
  <2>1. WriterTypeOK' /\ PipeTypeOK'
    BY <1>1, TypeParts
       DEF ChanInv, Inbound, RecvEnds, writerVars, WriterTypeOK, PipeTypeOK
  <2>2. ReaderTypeOK'
    <3>1. ended' \in {"", "wouldblock", "eof", "failed"}
      BY DEF Inbound, RecvEnds, NoBytes
    <3>2. rpc' \in {"idle", "recv", "inbound", "notify"}
      BY DEF Inbound, RecvEnds
    <3> QED BY <1>1, <1>2, <3>1, <3>2, TypeParts
            DEF ChanInv, Inbound, RecvEnds, ReaderTypeOK
  <2>3. in' \in Seq(Byte)
    BY <1>1, <1>2, CatTyped
  <2>4. ChunkerTypeOK' /\ sent' \in Seq(Chunks)
    BY <1>1, <2>3, TypeParts DEF ChanInv, ChunkerTypeOK
  <2> QED BY <2>1, <2>2, <2>4, TypePartsNext
<1>4. FirstOnes' /\ HeaderIsRead'
  BY <1>1 DEF ChanInv, FirstOnes, HeaderIsRead, Coming
<1>5. Due' = Due
  BY <1>1 DEF Due, Coming
<1>6. InFlight'
  <2>1. SUFFICES ASSUME ~refused
                 PROVE  \E l \in Seq(Byte) :
                          (link' = "up" => l = wbuf') /\ Due' = Cat(in', Flight(l)')
    BY <1>1 DEF InFlight
  <2>2. PICK lost \in Seq(Byte) :
          (link = "up" => lost = wbuf) /\ Due = Cat(in, Flight(lost))
    BY <2>1 DEF ChanInv, InFlight
  <2>3. PICK v : v = Cat(pipe, lost)
    OBVIOUS
  <2>4. v \in Seq(Byte)
    BY <1>2, <2>3, CatTyped
  <2>5. Flight(lost)' = v
    BY <1>1, <2>3, <2>4, CatEmpty DEF Flight
  <2>6. Cat(Cat(in, rbuf), v) = Cat(in, Cat(rbuf, v))
    BY <1>2, <2>4, CatAssoc
  <2>7. Due' = Cat(in', Flight(lost)')
    BY <1>1, <1>5, <2>2, <2>3, <2>5, <2>6 DEF Flight
  <2> QED BY <1>1, <2>2, <2>7
<1> QED BY <1>3, <1>4, <1>6 DEF ChanInv

-----------------------------------------------------------------------------
(* The Chunker's steps. *)

(* What a turn of the loop takes for a header is one, the next to come. *)
LEMMA HeadedIsComing ==
  ASSUME ChanInv, ~refused, NEW h \in Headed, NEW f \in Seq(Byte), Due = Cat(in, f)
  PROVE  /\ Len(delivered) < Len(sent) /\ Coming \in Chunks
         /\ h.len = Size[Coming]
         /\ Cat(h.rest, f)
              = Cat(Payload(Coming), Rest(sent, Len(delivered) + 1))
<1>1. PICK k : k = Len(delivered)
  OBVIOUS
<1>2. /\ sent \in Seq(Chunks) /\ in \in Seq(Byte) /\ pending \in Nat
      /\ k \in 0..Len(sent) /\ k \in Nat /\ Len(sent) \in Nat
  BY <1>1, ChanShape
<1>3. CASE pending # 0
  <2>1. h.len = pending /\ h.rest = in
    BY <1>3 DEF Headed
  <2>2. Len(delivered) < Len(sent) /\ pending = Size[Coming]
    BY <1>3 DEF ChanInv, HeaderIsRead
  <2>3. Coming \in Chunks
    <3>1. k + 1 \in 1..Len(sent)
      BY <1>1, <1>2, <2>2
    <3> QED BY <1>1, <1>2, <3>1, ElementOfSeq DEF Coming
  <2> QED BY <1>3, <2>1, <2>2, <2>3 DEF Due
<1>4. CASE pending = 0
  <2>1. ~(Len(in) < HeaderSize)
    BY <1>4 DEF Headed
  <2>2. HeaderSize <= Len(in) /\ HeaderSize \in Nat \ {0} /\ Len(in) \in Nat
    BY <1>2, <2>1, LenProperties, ChunkerAssumptions
  <2>3. Rest(sent, k) = Cat(in, f)
    BY <1>1, <1>4 DEF Due
  <2>4. k < Len(sent)
    <3>1. SUFFICES ASSUME k = Len(sent) PROVE FALSE
      BY <1>2
    <3>2. Cat(in, f) = <<>>
      BY <1>2, <2>3, <3>1, RestEmpty
    <3>3. Len(Cat(in, f)) = Len(in) + Len(f) /\ Len(f) \in Nat
      BY <1>2, CatLen, LenProperties
    <3> QED BY <2>2, <3>2, <3>3, EmptySeq
  <2>5. Coming \in Chunks
    <3>1. k + 1 \in 1..Len(sent)
      BY <1>2, <2>4
    <3> QED BY <1>1, <1>2, <3>1, ElementOfSeq DEF Coming
  <2>6. PICK r : r = Rest(sent, k + 1)
    OBVIOUS
  <2>7. r \in Seq(Byte)
    <3>1. k + 1 \in 0..Len(sent)
      BY <1>2, <2>4
    <3> QED BY <1>2, <2>6, <3>1, FramesShape
  <2>8. Cat(in, f) = Cat(Frame(Coming), r)
    BY <1>1, <1>2, <2>3, <2>4, <2>6, RestFirst DEF Coming
  <2>9. /\ Frame(Coming) \in Seq(Byte) /\ HeaderSize <= Len(Frame(Coming))
        /\ SubSeq(Frame(Coming), HeaderSize + 1, Len(Frame(Coming))) = Payload(Coming)
    <3>1. /\ Frame(Coming) \in Seq(Byte) /\ Size[Coming] \in Nat
          /\ Len(Frame(Coming)) = HeaderSize + Size[Coming]
          /\ SubSeq(Frame(Coming), HeaderSize + 1, Len(Frame(Coming))) = Payload(Coming)
      BY <2>5, FrameShape
    <3> QED BY <2>2, <3>1
  <2>10. /\ SubSeq(in, 1, HeaderSize) = Header(Coming)
         /\ Cat(Drop(in, HeaderSize), f) = Cat(Payload(Coming), r)
    <3>1. HeaderSize \in Nat
      BY <2>2
    <3>2. /\ SubSeq(in, 1, HeaderSize) = SubSeq(Frame(Coming), 1, HeaderSize)
          /\ Cat(SubSeq(in, HeaderSize + 1, Len(in)), f)
               = Cat(SubSeq(Frame(Coming), HeaderSize + 1, Len(Frame(Coming))), r)
      BY <1>2, <2>2, <2>7, <2>8, <2>9, <3>1, CommonHead
    <3> QED BY <2>9, <3>2 DEF Header, Drop
  <2>11. Lengths(in) = {Size[Coming]}
    BY <1>2, <2>2, <2>5, <2>10, LengthIsRead
  <2>12. h = [len |-> Size[Coming], rest |-> Drop(in, HeaderSize)]
    BY <1>4, <2>1, <2>11 DEF Headed
  <2> QED BY <1>1, <2>4, <2>5, <2>6, <2>10, <2>12
<1> QED BY <1>2, <1>3, <1>4

(* A chunk that is handed on is the next to come. *)
LEMMA DeliverIsComing ==
  ASSUME ChanInv, ~refused, Deliver
  PROVE  /\ Len(delivered) < Len(sent) /\ Coming \in Chunks
         /\ delivered' = Append(delivered, Payload(Coming))
         /\ \A f \in Seq(Byte) :
              Due = Cat(in, f) => Rest(sent, Len(delivered) + 1) = Cat(in', f)
<1>1. PICK h \in Headed :
        /\ Len(h.rest) >= h.len
        /\ in' = Drop(h.rest, h.len)
        /\ delivered' = Append(delivered, SubSeq(h.rest, 1, h.len))
  BY DEF Deliver
<1>2. h.len \in Nat /\ h.rest \in Seq(Byte) /\ h.len <= Len(h.rest)
  <2>1. h.len \in Nat /\ h.rest \in Seq(Byte)
    BY ChanShape, HeadedShape
  <2> QED BY <1>1, <2>1, LenProperties
<1>3. ASSUME NEW f \in Seq(Byte), Due = Cat(in, f)
      PROVE  /\ Len(delivered) < Len(sent) /\ Coming \in Chunks
             /\ SubSeq(h.rest, 1, h.len) = Payload(Coming)
             /\ Rest(sent, Len(delivered) + 1) = Cat(in', f)
  <2>1. PICK r, p : r = Rest(sent, Len(delivered) + 1) /\ p = Payload(Coming)
    OBVIOUS
  <2>2. /\ Len(delivered) < Len(sent) /\ Coming \in Chunks
        /\ h.len = Size[Coming] /\ Cat(h.rest, f) = Cat(p, r)
    BY <1>3, <2>1, HeadedIsComing
  <2>3. p \in Seq(Byte) /\ Len(p) = h.len
    BY <2>1, <2>2, FrameShape
  <2>4. r \in Seq(Byte)
    <3>1. Len(delivered) + 1 \in 0..Len(sent)
      BY <2>2, ChanShape
    <3> QED BY <2>1, <3>1, ChanShape, FramesShape
  <2>5. h.len <= Len(p)
    BY <1>2, <2>3
  <2>6. /\ SubSeq(h.rest, 1, h.len) = SubSeq(p, 1, h.len)
        /\ Cat(SubSeq(h.rest, h.len + 1, Len(h.rest)), f)
             = Cat(SubSeq(p, h.len + 1, Len(p)), r)
    BY <1>2, <2>2, <2>3, <2>4, <2>5, CommonHead
  <2>7. SubSeq(p, 1, h.len) = p
    BY <2>3, SubSeqFull
  <2>8. SubSeq(p, h.len + 1, Len(p)) = <<>>
    BY <1>2, <2>3, SubSeqEmpty
  <2>9. Cat(<<>>, r) = r
    BY <2>4, CatEmpty
  <2> QED BY <1>1, <2>1, <2>2, <2>6, <2>7, <2>8, <2>9 DEF Drop
<1>4. \E f \in Seq(Byte) : Due = Cat(in, f)
  <2>1. PICK lost \in Seq(Byte) : Due = Cat(in, Flight(lost))
    BY DEF ChanInv, InFlight
  <2>2. Flight(lost) \in Seq(Byte)
    BY ChanShape, CatTyped DEF Flight
  <2> QED BY <2>1, <2>2
<1> QED BY <1>1, <1>3, <1>4

LEMMA TurnTypes == ASSUME ChanInv, ChunkerTurn PROVE TypeOK'
<1>1. TypeOK /\ UNCHANGED <<writerVars, pipe, link, readArmed, rbuf, ended, fired, sent>>
  BY DEF ChanInv, ChunkerTurn
<1>2. WriterTypeOK' /\ PipeTypeOK' /\ sent' \in Seq(Chunks)
  BY <1>1, TypeParts DEF writerVars, WriterTypeOK, PipeTypeOK
<1>3. rpc' \in {"idle", "recv", "inbound", "notify"}
  BY DEF ChunkerTurn
<1>4. ReaderTypeOK'
  BY <1>1, <1>3, TypeParts DEF ReaderTypeOK
<1>5. ChunkerTypeOK'
  BY <1>1, TypeParts, ChunkerTypes DEF ChunkerTurn
<1> QED BY <1>2, <1>4, <1>5, TypePartsNext

LEMMA ChunkerTurnKeeps == ASSUME ChanInv, ChunkerTurn PROVE ChanInv'
<1>1. TypeOK'
  BY TurnTypes
<1>2. /\ sent' = sent /\ link' = link /\ wbuf' = wbuf
      /\ rbuf' = rbuf /\ pipe' = pipe
  BY DEF ChunkerTurn, writerVars
<1>3. \A l : Flight(l)' = Flight(l)
  BY <1>2 DEF Flight
<1>4. /\ Len(sent) \in Nat /\ Len(delivered) \in Nat
      /\ delivered \in Seq(Seq(Byte)) /\ Len(delivered) <= Len(sent)
      /\ sent \in Seq(Chunks)
  BY ChanShape
<1>5. ASSUME ~refused
      PROVE  \E lost \in Seq(Byte) : /\ link = "up" => lost = wbuf
                                     /\ Due = Cat(in, Flight(lost))
                                     /\ Flight(lost) \in Seq(Byte)
  <2>1. PICK lost \in Seq(Byte) :
          (link = "up" => lost = wbuf) /\ Due = Cat(in, Flight(lost))
    BY <1>5 DEF ChanInv, InFlight
  <2>2. Flight(lost) \in Seq(Byte)
    BY ChanShape, CatTyped DEF Flight
  <2> QED BY <2>1, <2>2
<1>6. CASE NeedHeader
  <2>1. UNCHANGED chunkerVars
    BY <1>6 DEF NeedHeader
  <2> QED BY <1>1, <1>2, <2>1, FlightStill
<1>7. CASE Oversize
  <2>1. refused' /\ delivered' = delivered
    BY <1>7 DEF Oversize
  <2>2. FirstOnes'
    BY <1>2, <2>1 DEF ChanInv, FirstOnes
  <2> QED BY <1>1, <2>1, <2>2 DEF ChanInv, HeaderIsRead, InFlight
<1>8. CASE NeedPayload
  <2>1. PICK h \in Headed :
          Len(h.rest) < h.len /\ in' = h.rest /\ pending' = h.len
    BY <1>8 DEF NeedPayload
  <2>2. delivered' = delivered /\ refused' = refused
    BY <1>8 DEF NeedPayload
  <2>3. FirstOnes'
    BY <1>2, <2>2 DEF ChanInv, FirstOnes
  <2>4. CASE refused
    BY <1>1, <2>2, <2>3, <2>4 DEF ChanInv, HeaderIsRead, InFlight
  <2>5. CASE ~refused
    <3>1. PICK lost \in Seq(Byte) : /\ link = "up" => lost = wbuf
                                    /\ Due = Cat(in, Flight(lost))
                                    /\ Flight(lost) \in Seq(Byte)
      BY <1>5, <2>5
    <3>2. /\ Len(delivered) < Len(sent) /\ h.len = Size[Coming]
          /\ Cat(h.rest, Flight(lost))
               = Cat(Payload(Coming), Rest(sent, Len(delivered) + 1))
      BY <2>5, <3>1, HeadedIsComing
    <3>3. pending' # 0
      <4>1. h.len \in Nat /\ Len(h.rest) \in Nat
        BY ChanShape, HeadedShape, LenProperties
      <4> QED BY <2>1, <4>1
    <3>4. HeaderIsRead'
      BY <1>2, <2>1, <2>2, <3>2 DEF HeaderIsRead, Coming
    <3>5. Due' = Cat(in', Flight(lost)')
      BY <1>2, <1>3, <2>1, <2>2, <3>2, <3>3 DEF Due, Coming
    <3>6. InFlight'
      BY <1>2, <3>1, <3>5 DEF InFlight
    <3> QED BY <1>1, <2>3, <3>4, <3>6 DEF ChanInv
  <2> QED BY <2>4, <2>5
<1>9. CASE Deliver
  <2>1. pending' = 0 /\ refused' = refused
    BY <1>9 DEF Deliver
  <2>2. HeaderIsRead'
    BY <2>1 DEF HeaderIsRead
  <2>3. CASE refused
    <3>1. delivered' = delivered
      BY <1>9, <2>3 DEF Deliver
    <3>2. FirstOnes'
      BY <1>2, <3>1 DEF ChanInv, FirstOnes
    <3> QED BY <1>1, <2>1, <2>2, <2>3, <3>2 DEF ChanInv, InFlight
  <2>4. CASE ~refused
    <3>1. PICK lost \in Seq(Byte) : /\ link = "up" => lost = wbuf
                                    /\ Due = Cat(in, Flight(lost))
                                    /\ Flight(lost) \in Seq(Byte)
      BY <1>5, <2>4
    <3>2. PICK n, x : n = Len(delivered) /\ x = Payload(Coming)
      OBVIOUS
    <3>3. /\ n < Len(sent) /\ Coming \in Chunks
          /\ delivered' = Append(delivered, x)
          /\ Rest(sent, n + 1) = Cat(in', Flight(lost))
      BY <1>9, <2>4, <3>1, <3>2, DeliverIsComing
    <3>4. /\ Len(delivered') = n + 1 /\ delivered'[n + 1] = x
          /\ \A i \in 1..n : delivered'[i] = delivered[i]
      <4>1. x \in Seq(Byte)
        BY <3>2, <3>3, FrameShape
      <4> QED BY <1>4, <3>2, <3>3, <4>1, AppendProperties
    <3>5. FirstOnes'
      <4>1. Len(delivered') <= Len(sent')
        BY <1>2, <1>4, <3>2, <3>3, <3>4
      <4>2. ASSUME NEW i \in 1..n + 1 PROVE delivered'[i] = Payload(sent[i])
        <5>1. CASE i = n + 1
          BY <3>2, <3>4, <5>1 DEF Coming
        <5>2. CASE i # n + 1
          <6>1. i \in 1..n
            BY <1>4, <3>2, <5>2
          <6> QED BY <3>2, <3>4, <6>1 DEF ChanInv, FirstOnes
        <5> QED BY <5>1, <5>2
      <4> QED BY <1>2, <3>4, <4>1, <4>2 DEF FirstOnes
    <3>6. Due' = Cat(in', Flight(lost)')
      BY <1>2, <1>3, <2>1, <3>3, <3>4 DEF Due
    <3>7. InFlight'
      BY <1>2, <3>1, <3>6 DEF InFlight
    <3> QED BY <1>1, <2>2, <3>5, <3>7 DEF ChanInv
  <2> QED BY <2>3, <2>4
<1> QED BY <1>6, <1>7, <1>8, <1>9 DEF ChunkerTurn

(* A chunk is sent: it comes after all others. *)
LEMMA SendKeeps == ASSUME ChanInv, NEW c \in Chunks, Send(c) PROVE ChanInv'
<1>1. CASE UNCHANGED vars
  <2>1. UNCHANGED <<chunkerVars, sent>> /\ UNCHANGED <<rbuf, pipe, wbuf, link>>
    BY <1>1 DEF vars, transportVars, writerVars, readerVars
  <2>2. WriterTypeOK' /\ PipeTypeOK' /\ ReaderTypeOK'
    BY <1>1, TypeParts
       DEF ChanInv, vars, transportVars, writerVars, readerVars,
           WriterTypeOK, PipeTypeOK, ReaderTypeOK
  <2>3. ChunkerTypeOK' /\ sent' \in Seq(Chunks)
    BY <2>1, TypeParts DEF ChanInv, chunkerVars, ChunkerTypeOK
  <2> QED BY <2>1, <2>2, <2>3, TypePartsNext, FlightStill
<1>2. CASE ~UNCHANGED vars
  <2>1. TransportWrite(Frame(c)) /\ sent' = Append(sent, c) /\ UNCHANGED chunkerVars
    BY <1>2 DEF Send
  <2>2. PICK x, n, k : x = Frame(c) /\ n = Len(sent) /\ k = Len(delivered)
    OBVIOUS
  <2>3. /\ wbuf' = Cat(wbuf, x) /\ rbuf' = rbuf /\ pipe' = pipe /\ link' = link
        /\ in' = in /\ pending' = pending /\ delivered' = delivered
        /\ refused' = refused /\ stray' = stray
    BY <2>1, <2>2 DEF TransportWrite, readerVars, chunkerVars, Cat
  <2>4. /\ sent \in Seq(Chunks) /\ n \in Nat /\ k \in 0..n /\ k \in Nat
        /\ in \in Seq(Byte) /\ rbuf \in Seq(Byte) /\ pipe \in Seq(Byte)
        /\ wbuf \in Seq(Byte) /\ pending \in Nat
    BY <2>2, ChanShape
  <2>5. x \in Seq(Byte)
    BY <2>2, FrameShape
  <2>6. /\ sent' \in Seq(Chunks) /\ Len(sent') = n + 1
        /\ \A i \in 1..n : sent'[i] = sent[i]
    BY <2>1, <2>2, <2>4, AppendProperties
  <2>7. TypeOK'
    <3>1. wbuf' \in Seq(Byte)
      BY <2>3, <2>4, <2>5, CatTyped
    <3>2. WriterTypeOK' /\ PipeTypeOK' /\ ReaderTypeOK'
      BY <2>1, <3>1, TypeParts
         DEF ChanInv, TransportWrite, readerVars, WriterTypeOK, PipeTypeOK, ReaderTypeOK
    <3>3. ChunkerTypeOK'
      BY <2>3, TypeParts DEF ChanInv, ChunkerTypeOK
    <3> QED BY <2>6, <3>2, <3>3, TypePartsNext
  <2>8. FirstOnes'
    <3>1. Len(delivered') <= Len(sent')
      BY <2>2, <2>3, <2>4, <2>6
    <3>2. ASSUME NEW i \in 1..k PROVE delivered[i] = Payload(sent'[i])
      <4>1. i \in 1..n
        BY <2>4
      <4> QED BY <2>2, <2>6, <4>1 DEF ChanInv, FirstOnes
    <3> QED BY <2>2, <2>3, <3>1, <3>2 DEF FirstOnes
  <2>9. HeaderIsRead'
    <3>1. SUFFICES ASSUME pending # 0, ~refused
                   PROVE  k < n + 1 /\ pending = Size[sent'[k + 1]]
      BY <2>2, <2>3, <2>6 DEF HeaderIsRead, Coming
    <3>2. k < n /\ pending = Size[sent[k + 1]]
      BY <2>2, <3>1 DEF ChanInv, HeaderIsRead, Coming
    <3>3. k + 1 \in 1..n
      BY <2>4, <3>2
    <3> QED BY <2>4, <2>6, <3>2, <3>3
  <2>10. InFlight'
    <3>1. SUFFICES ASSUME ~refused
                   PROVE  \E l \in Seq(Byte) :
                            (link = "up" => l = wbuf') /\ Due' = Cat(in, Flight(l)')
      BY <2>3 DEF InFlight
    <3>2. PICK lost \in Seq(Byte) :
            (link = "up" => lost = wbuf) /\ Due = Cat(in, Flight(lost))
      BY <3>1 DEF ChanInv, InFlight
    <3>3. PICK l : l = Cat(lost, x)
      OBVIOUS
    <3>4. l \in Seq(Byte) /\ (link = "up" => l = wbuf')
      BY <2>3, <2>5, <3>2, <3>3, CatTyped
    <3>5. Due' = Cat(Due, x)
      <4>1. CASE pending = 0
        <5>1. Rest(sent', k) = Cat(Rest(sent, k), x)
          BY <2>1, <2>2, <2>4, RestAppend
        <5> QED BY <2>2, <2>3, <4>1, <5>1 DEF Due
      <4>2. CASE pending # 0
        <5>1. k < n
          BY <2>2, <3>1, <4>2 DEF ChanInv, HeaderIsRead
        <5>2. k + 1 \in 1..n /\ k + 1 \in 0..n
          BY <2>4, <5>1
        <5>3. Rest(sent', k + 1) = Cat(Rest(sent, k + 1), x)
          BY <2>1, <2>2, <2>4, <5>2, RestAppend
        <5>4. sent'[k + 1] = sent[k + 1] /\ sent[k + 1] \in Chunks
          BY <2>2, <2>4, <2>6, <5>2, ElementOfSeq
        <5>5. PICK p, r : p = Payload(sent[k + 1]) /\ r = Rest(sent, k + 1)
          OBVIOUS
        <5>6. p \in Seq(Byte) /\ r \in Seq(Byte)
          BY <2>2, <2>4, <5>2, <5>4, <5>5, FrameShape, FramesShape
        <5>7. Cat(Cat(p, r), x) = Cat(p, Cat(r, x))
          BY <2>5, <5>6, CatAssoc
        <5> QED BY <2>2, <2>3, <4>2, <5>3, <5>4, <5>5, <5>7 DEF Due, Coming
      <4> QED BY <4>1, <4>2
    <3>6. Cat(Due, x) = Cat(in, Flight(l)')
      <4>1. PICK u, v : u = Cat(pipe, lost) /\ v = Cat(rbuf, u)
        OBVIOUS
      <4>2. u \in Seq(Byte) /\ v \in Seq(Byte)
        BY <2>4, <4>1, CatTyped
      <4>3. Cat(u, x) = Cat(pipe, l)
        BY <2>4, <2>5, <3>3, <4>1, CatAssoc
      <4>4. Cat(v, x) = Cat(rbuf, Cat(u, x))
        BY <2>4, <2>5, <4>1, <4>2, CatAssoc
      <4>5. Cat(Cat(in, v), x) = Cat(in, Cat(v, x))
        BY <2>4, <2>5, <4>2, CatAssoc
      <4> QED BY <2>3, <3>2, <4>1, <4>3, <4>4, <4>5 DEF Flight
    <3> QED BY <3>4, <3>5, <3>6
  <2> QED BY <2>7, <2>8, <2>9, <2>10 DEF ChanInv
<1> QED BY <1>1, <1>2

-----------------------------------------------------------------------------
(* The invariant holds at the start, and every step keeps it. *)

LEMMA ChanInvInit == ASSUME Init PROVE ChanInv
<1>1. <<>> \in Seq(Byte) /\ <<>> \in Seq(Seq(Byte)) /\ <<>> \in Seq(Chunks) /\ Len(<<>>) = 0
  BY EmptySeq
<1>2. WriterTypeOK /\ PipeTypeOK /\ ReaderTypeOK
  <2>1. writeArmed \in BOOLEAN /\ readArmed \in BOOLEAN
    BY Zenon DEF Init, TransportInit
  <2>2. writes \in 0..MaxWrites /\ Len(pipe) <= Room
    <3>1. writes = 0 /\ pipe = <<>>
      BY DEF Init, TransportInit
    <3>2. MaxWrites \in Nat /\ Room \in Nat
      BY TransportAssumptions
    <3> QED BY <1>1, <3>1, <3>2
  <2>3. /\ wbuf \in Seq(Byte) /\ pipe \in Seq(Byte) /\ rbuf \in Seq(Byte)
        /\ wpc = "idle" /\ link = "up" /\ rpc = "idle" /\ ended = "" /\ fired = "none"
    BY <1>1 DEF Init, TransportInit
  <2> QED BY <2>1, <2>2, <2>3 DEF WriterTypeOK, PipeTypeOK, ReaderTypeOK
<1>3. ChunkerTypeOK /\ sent \in Seq(Chunks)
  <2>1. refused \in BOOLEAN /\ stray \in BOOLEAN
    BY Zenon DEF Init, ChunkerInit
  <2>2. pending \in 0..Limit
    BY ChunkerAssumptions DEF Init, ChunkerInit
  <2>3. in \in Seq(Byte) /\ delivered \in Seq(Seq(Byte)) /\ sent \in Seq(Chunks)
    BY <1>1 DEF Init, ChunkerInit
  <2> QED BY <2>1, <2>2, <2>3 DEF ChunkerTypeOK
<1>4. TypeOK
  BY <1>2, <1>3, TypeParts
<1>5. FirstOnes /\ HeaderIsRead
  BY <1>1 DEF Init, ChunkerInit, FirstOnes, HeaderIsRead
<1>6. InFlight
  <2>1. Rest(sent, Len(delivered)) = <<>>
    BY <1>1, RestEmpty DEF Init, ChunkerInit
  <2>2. Cat(in, Flight(<<>>)) = <<>>
    BY <1>1, CatEmpty DEF Init, ChunkerInit, TransportInit, Flight
  <2>3. Due = Cat(in, Flight(<<>>)) /\ wbuf = <<>>
    BY <2>1, <2>2 DEF Due, Init, ChunkerInit, TransportInit
  <2> QED BY <1>1, <2>3 DEF InFlight
<1> QED BY <1>4, <1>5, <1>6 DEF ChanInv

LEMMA ChanInvNext == ASSUME ChanInv, [Next]_vars PROVE ChanInv'
<1>1. CASE \E c \in Chunks : Send(c)
  BY <1>1, SendKeeps
<1>2. CASE WriterStep
  BY <1>2, WriterKeeps
<1>3. CASE ReaderStep
  BY <1>3, ReadLoopKeeps, InboundKeeps, ChunkerTurnKeeps, NotifyKeeps
     DEF ReaderStep, chunkerVars
<1>4. CASE Environment
  BY <1>4, EnvironmentKeeps
<1>5. CASE UNCHANGED vars
  <2>1. UNCHANGED <<chunkerVars, sent>> /\ UNCHANGED <<rbuf, pipe, wbuf, link>>
    BY <1>5 DEF vars, transportVars, writerVars, readerVars
  <2>2. WriterTypeOK' /\ PipeTypeOK' /\ ReaderTypeOK'
    BY <1>5, TypeParts
       DEF ChanInv, vars, transportVars, writerVars, readerVars,
           WriterTypeOK, PipeTypeOK, ReaderTypeOK
  <2>3. ChunkerTypeOK' /\ sent' \in Seq(Chunks)
    BY <2>1, TypeParts DEF ChanInv, chunkerVars, ChunkerTypeOK
  <2> QED BY <2>1, <2>2, <2>3, TypePartsNext, FlightStill
<1> QED BY <1>1, <1>2, <1>3, <1>4, <1>5 DEF Next

LEMMA ChanInvHolds == Spec => []ChanInv
<1>1. Init => ChanInv
  BY ChanInvInit
<1>2. ChanInv /\ [Next]_vars => ChanInv'
  BY ChanInvNext
<1> QED BY <1>1, <1>2, PTL DEF Spec

-----------------------------------------------------------------------------
(* abstract_transport.cpp, chunker.cpp: the kernel is never given more than  *)
(* it has room for, a length the Chunker keeps is within its limit, and     *)
(* bytes are always bytes of chunks.                                        *)
THEOREM ChannelTypes == Spec => []TypeOK
<1>1. ChanInv => TypeOK
  BY DEF ChanInv
<1> QED BY <1>1, ChanInvHolds, PTL

(* README "drain until would-block", abstract_transport.cpp:27-93: however    *)
(* writev(), recv() and the Chunker cut the stream and the two ends         *)
(* interleave, on a connection that holds no byte is lost, doubled or       *)
(* overtaken between write() and the next stage.                            *)
THEOREM BytesAreNeverLost == Spec => []BytesAreConserved
<1>1. ChanInv => BytesAreConserved
  <2>1. SUFFICES ASSUME ChanInv, link = "up", ~refused
                 PROVE  FlattenSeq([i \in 1..Len(sent) |-> Frame(sent[i])])
                          = Consumed \o in \o rbuf \o pipe \o wbuf
    BY DEF BytesAreConserved
  <2>2. PICK k, whole, all : /\ k = Len(delivered)
                             /\ whole = FlattenSeq([i \in 1..k |-> Frame(sent[i])])
                             /\ all = FlattenSeq([i \in 1..Len(sent) |-> Frame(sent[i])])
    OBVIOUS
  <2>3. /\ sent \in Seq(Chunks) /\ Len(sent) \in Nat /\ k \in Nat /\ k \in 0..Len(sent)
        /\ in \in Seq(Byte) /\ rbuf \in Seq(Byte) /\ pipe \in Seq(Byte)
        /\ wbuf \in Seq(Byte)
    BY <2>1, <2>2, ChanShape
  <2>4. whole \in Seq(Byte) /\ all = Cat(whole, Rest(sent, k))
    BY <2>2, <2>3, WholeAndRest
  <2>5. Due = Cat(in, Cat(rbuf, Cat(pipe, wbuf)))
    BY <2>1 DEF ChanInv, InFlight, Flight
  <2>6. Due \in Seq(Byte)
    BY <2>3, <2>5, CatTyped
  <2>7. Consumed \in Seq(Byte) /\ all = Cat(Consumed, Due)
    <3>1. CASE pending = 0
      BY <2>2, <2>4, <3>1 DEF Consumed, Due
    <3>2. CASE pending # 0
      <4>1. k < Len(sent)
        BY <2>1, <2>2, <3>2 DEF ChanInv, HeaderIsRead
      <4>2. k + 1 \in 1..Len(sent) /\ k + 1 \in 0..Len(sent)
        BY <2>3, <4>1
      <4>3. PICK c, r : c = sent[k + 1] /\ r = Rest(sent, k + 1)
        OBVIOUS
      <4>4. c \in Chunks /\ r \in Seq(Byte)
        BY <2>3, <4>2, <4>3, ElementOfSeq, FramesShape
      <4>5. /\ Header(c) \in Seq(Byte) /\ Payload(c) \in Seq(Byte)
            /\ Frame(c) = Cat(Header(c), Payload(c))
        BY <4>4, FrameShape
      <4>6. Rest(sent, k) = Cat(Cat(Header(c), Payload(c)), r)
        BY <2>3, <4>1, <4>3, <4>5, RestFirst
      <4>7. Cat(Cat(Header(c), Payload(c)), r) = Cat(Header(c), Cat(Payload(c), r))
        BY <4>4, <4>5, CatAssoc
      <4>8. Due = Cat(Payload(c), r)
        BY <2>2, <3>2, <4>3 DEF Due, Coming
      <4>9. Consumed = Cat(whole, Header(c))
        BY <2>2, <3>2, <4>3 DEF Consumed, Header, Cat
      <4>10. Cat(Cat(whole, Header(c)), Due) = Cat(whole, Cat(Header(c), Due))
        BY <2>4, <2>6, <4>5, CatAssoc
      <4>11. Consumed \in Seq(Byte)
        BY <2>4, <4>5, <4>9, CatTyped
      <4> QED BY <2>4, <4>6, <4>7, <4>8, <4>9, <4>10, <4>11
    <3> QED BY <3>1, <3>2
  <2>8. PICK u : u = Consumed
    OBVIOUS
  <2>9. all = Cat(Cat(Cat(Cat(u, in), rbuf), pipe), wbuf)
    BY <2>3, <2>5, <2>7, <2>8, CatFive
  <2> QED BY <2>2, <2>8, <2>9 DEF Cat
<1> QED BY <1>1, ChanInvHolds, PTL

(* chunker.cpp:16-44: for every set of chunks, limit and cut of the stream,   *)
(* and whatever becomes of the connection or its peer, the chunks that are  *)
(* handed on are those that were sent, whole, in order and once.            *)
THEOREM ChannelImplementsStream == Spec => ImplementsStream
<1> DEFINE bar == [i \in 1..Len(sent) |-> Payload(sent[i])]
<1>1. Init => Stream!Init
  <2> SUFFICES ASSUME Init PROVE Stream!Init
    OBVIOUS
  <2>1. bar = <<>> /\ delivered = <<>>
    BY EmptySeq DEF Init, ChunkerInit
  <2> QED BY <2>1 DEF Stream!Init
<1>2. ChanInv /\ [Next]_vars => [Stream!Next]_<<bar, delivered>>
  <2> SUFFICES ASSUME ChanInv, [Next]_vars
               PROVE  [Stream!Next]_<<bar, delivered>>
    OBVIOUS
  <2>1. CASE \E c \in Chunks : Send(c)
    <3>1. PICK c \in Chunks : Send(c)
      BY <2>1
    <3>2. CASE UNCHANGED vars
      <4>1. sent' = sent /\ delivered' = delivered
        BY <3>2 DEF vars, chunkerVars
      <4> QED BY <4>1
    <3>3. CASE ~UNCHANGED vars
      <4>1. sent' = Append(sent, c) /\ delivered' = delivered
        BY <3>1, <3>3 DEF Send, chunkerVars
      <4>2. PICK n, b, d : n = Len(sent) /\ b = bar /\ d = bar'
        OBVIOUS
      <4>3. /\ n \in Nat /\ Len(sent') = n + 1 /\ sent'[n + 1] = c
            /\ \A i \in 1..n : sent'[i] = sent[i] /\ sent[i] \in Chunks
        BY <4>1, <4>2, ChanShape, AppendProperties, ElementOfSeq
      <4>4. \A i \in 1..n : Payload(sent[i]) \in Seq(Byte)
        BY <4>3, FrameShape
      <4>5. Payload(c) \in Seq(Byte)
        BY FrameShape
      <4>6. /\ b \in Seq(Seq(Byte)) /\ Len(b) = n
            /\ \A i \in 1..n : b[i] = Payload(sent[i])
        BY <4>2, <4>3, <4>4
      <4>7. PICK e : e = Append(b, Payload(c))
        OBVIOUS
      <4>8. /\ e \in Seq(Seq(Byte)) /\ Len(e) = n + 1 /\ e[n + 1] = Payload(c)
            /\ \A i \in 1..n : e[i] = b[i]
        BY <4>5, <4>6, <4>7, AppendProperties
      <4>9. ASSUME NEW i \in 1..n + 1 PROVE Payload(sent'[i]) = e[i]
        <5>1. CASE i = n + 1
          BY <4>3, <4>8, <5>1
        <5>2. CASE i # n + 1
          <6>1. i \in 1..n
            BY <4>3, <5>2
          <6> QED BY <4>3, <4>6, <4>8, <6>1
        <5> QED BY <5>1, <5>2
      <4>10. d = [i \in 1..n + 1 |-> Payload(sent'[i])]
        BY <4>2, <4>3
      <4>11. \A i \in 1..n + 1 : e[i] \in Seq(Byte)
        BY <4>8, ElementOfSeq
      <4>12. d \in Seq(Seq(Byte)) /\ Len(d) = n + 1 /\ \A i \in 1..n + 1 : d[i] = e[i]
        BY <4>3, <4>9, <4>10, <4>11
      <4>13. d = e
        BY <4>8, <4>12, SeqEqual
      <4>14. Stream!Send
        BY <4>1, <4>2, <4>7, <4>13 DEF Stream!Send
      <4> QED BY <4>14 DEF Stream!Next
    <3> QED BY <3>2, <3>3
  <2>2. CASE ChunkerTurn /\ Deliver /\ ~refused
    <3>1. /\ Len(delivered) < Len(sent) /\ Coming \in Chunks
          /\ delivered' = Append(delivered, Payload(Coming))
      BY <2>2, DeliverIsComing
    <3>2. sent' = sent
      BY <2>2 DEF ChunkerTurn
    <3>3. PICK b, n : b = bar /\ n = Len(sent)
      OBVIOUS
    <3>4. n \in Nat /\ Len(delivered) \in Nat
      BY <3>3, ChanShape
    <3>5. b = [i \in 1..n |-> Payload(sent[i])]
      BY <3>3
    <3>6. Len(b) = n /\ Len(delivered) + 1 \in 1..n
      BY <3>1, <3>3, <3>4, <3>5
    <3>7. b[Len(delivered) + 1] = Payload(Coming)
      BY <3>5, <3>6 DEF Coming
    <3>8. Stream!Receive
      BY <3>1, <3>2, <3>3, <3>6, <3>7 DEF Stream!Receive
    <3> QED BY <3>8 DEF Stream!Next
  <2>3. CASE ~(\E c \in Chunks : Send(c)) /\ ~(ChunkerTurn /\ Deliver /\ ~refused)
    <3>1. sent' = sent
      BY <2>3 DEF Next, WriterStep, ReaderStep, ReadLoop, Inbound, ChunkerTurn,
                  Environment, vars
    <3>2. delivered' = delivered
      BY <2>3 DEF Next, WriterStep, ReaderStep, ReadLoop, Inbound, ChunkerTurn,
                  Environment, vars, chunkerVars, Receive, NeedHeader, NeedPayload,
                  Oversize, Deliver
    <3> QED BY <3>1, <3>2
  <2> QED BY <2>1, <2>2, <2>3
<1> QED BY <1>1, <1>2, ChanInvHolds, PTL DEF Spec, ImplementsStream, Stream!Spec
=============================================================================
