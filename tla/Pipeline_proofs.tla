--------------------------- MODULE Pipeline_proofs ---------------------------
(***************************************************************************)
(* In every pipeline, whatever its stages, buffers keep their offsets in    *)
(* order, handlers nest inward and then outward, and the bytes keep their    *)
(* order on the way to the application and back.                           *)
(***************************************************************************)
EXTENDS Pipeline, ByteBuf_proofs, Sequence_proofs

-----------------------------------------------------------------------------
(* The nearest and the farthest of a set of stages are there.              *)

(* A set of numbers that is bounded and not empty has a greatest one. *)
LEMMA GreatestExists ==
  ASSUME NEW n \in Nat, NEW S, S \subseteq 0..n, S # {}
  PROVE  \E j \in S : \A k \in S : k <= j
<1> DEFINE T == {n - j : j \in S}
<1>1. T \subseteq Nat /\ T # {}
  <2>1. ASSUME NEW j \in S PROVE n - j \in Nat
    <3>1. j \in 0..n
      OBVIOUS
    <3> QED BY <3>1
  <2>2. T \subseteq Nat
    BY <2>1
  <2>3. T # {}
    <3>1. PICK j : j \in S
      OBVIOUS
    <3>2. n - j \in T
      BY <3>1
    <3> QED BY <3>2
  <2> QED BY <2>2, <2>3
<1>2. PICK d \in T : \A e \in T : d <= e
  BY <1>1, LeastExists
<1>3. PICK j \in S : d = n - j
  OBVIOUS
<1>4. ASSUME NEW k \in S PROVE k <= j
  <2>1. n - k \in T
    OBVIOUS
  <2>2. n - j <= n - k
    BY <1>2, <1>3, <2>1
  <2>3. k \in 0..n /\ j \in 0..n
    OBVIOUS
  <2> QED BY <2>2, <2>3
<1> QED BY <1>4

-----------------------------------------------------------------------------
(* The stack.                                                              *)

Dirs == {"inbound", "outbound"}
Bufs == {b \in [r : Nat, w : Nat, data : Seq(Octet)] : IsByteBuf(b)}
PCs  == {"called", "loop", "fired"}

Frame(st) == [at : 1..Len(st), dir : Dirs, buf : Bufs, pc : PCs]

Handled(s, st) == \A i \in 1..Len(s) : s[i].dir \in Handles[st[s[i].at]]

Follows(a, b) ==
  \/ b.dir = "inbound" /\ a.dir = "inbound" /\ a.at < b.at
  \/ b.dir = "outbound" /\ b.at < a.at

Nested(s) == \A i \in 1..Len(s) - 1 : Follows(s[i], s[i + 1])

StackOK(s, st) == s \in Seq(Frame(st)) /\ Handled(s, st) /\ Nested(s)

(* With no handler running there is nothing to be wrong. *)
LEMMA EmptyStack == ASSUME NEW st PROVE StackOK(<<>>, st)
BY EmptySeq DEF StackOK, Handled, Nested

(* A handler is called after those that wait. *)
LEMMA CallKeepsStack ==
  ASSUME NEW st, st \in Seq(Types), NEW s, StackOK(s, st),
         NEW f \in Frame(st), f.dir \in Handles[st[f.at]],
         s # <<>> => Follows(s[Len(s)], f)
  PROVE  StackOK(Append(s, f), st)
<1>1. PICK t : t = Append(s, f)
  OBVIOUS
<1>2. /\ s \in Seq(Frame(st)) /\ Len(s) \in Nat
      /\ t \in Seq(Frame(st)) /\ Len(t) = Len(s) + 1
      /\ \A i \in 1..Len(s) : t[i] = s[i]
      /\ t[Len(s) + 1] = f
  BY <1>1, AppendProperties, LenProperties DEF StackOK
<1>3. Handled(t, st)
  <2>1. ASSUME NEW i \in 1..Len(t) PROVE t[i].dir \in Handles[st[t[i].at]]
    <3>1. i \in 1..Len(s) \/ i = Len(s) + 1
      BY <1>2
    <3> QED BY <1>2, <3>1 DEF StackOK, Handled
  <2> QED BY <2>1 DEF Handled
<1>4. Nested(t)
  <2>1. ASSUME NEW i \in 1..Len(t) - 1 PROVE Follows(t[i], t[i + 1])
    <3>1. CASE i = Len(s)
      <4>1. i \in 1..Len(s) /\ s # <<>> /\ i + 1 = Len(s) + 1
        BY <1>2, <3>1, EmptySeq
      <4> QED BY <1>2, <3>1, <4>1
    <3>2. CASE i # Len(s)
      <4>1. i \in 1..Len(s) - 1 /\ i \in 1..Len(s) /\ i + 1 \in 1..Len(s)
        BY <1>2, <3>2
      <4> QED BY <1>2, <4>1 DEF StackOK, Nested
    <3> QED BY <3>1, <3>2
  <2> QED BY <2>1 DEF Nested
<1> QED BY <1>1, <1>2, <1>3, <1>4 DEF StackOK

(* The handler on top returns. *)
LEMMA ReturnKeepsStack ==
  ASSUME NEW st, NEW s, StackOK(s, st), s # <<>>
  PROVE  StackOK(SubSeq(s, 1, Len(s) - 1), st)
<1>1. PICK t : t = SubSeq(s, 1, Len(s) - 1)
  OBVIOUS
<1>2. s \in Seq(Frame(st)) /\ Len(s) \in Nat \ {0}
  BY EmptySeq DEF StackOK
<1>3. /\ t \in Seq(Frame(st)) /\ Len(t) = Len(s) - 1
      /\ \A i \in 1..Len(s) - 1 : t[i] = s[i]
  <2>1. PICK n : n = Len(s) - 1
    OBVIOUS
  <2>2. n \in Nat /\ n <= Len(s)
    BY <1>2, <2>1
  <2>3. \A i \in 1..n : s[i] \in Frame(st)
    BY <1>2, <2>2, ElementOfSeq
  <2>4. /\ SubSeq(s, 1, n) \in Seq(Frame(st))
        /\ Len(SubSeq(s, 1, n)) = IF 1 <= n THEN n - 1 + 1 ELSE 0
        /\ \A i \in 1..n - 1 + 1 : SubSeq(s, 1, n)[i] = s[1 + i - 1]
    BY <2>2, <2>3, SubSeqProperties
  <2>5. t = SubSeq(s, 1, n)
    BY <1>1, <2>1
  <2> QED BY <2>1, <2>2, <2>4, <2>5
<1>4. Handled(t, st)
  BY <1>2, <1>3 DEF StackOK, Handled
<1>5. Nested(t)
  <2>1. ASSUME NEW i \in 1..Len(t) - 1 PROVE Follows(t[i], t[i + 1])
    <3>1. i \in 1..Len(s) - 1 /\ i + 1 \in 1..Len(s) - 1
      BY <1>2, <1>3
    <3> QED BY <1>3, <3>1 DEF StackOK, Nested
  <2> QED BY <2>1 DEF Nested
<1> QED BY <1>1, <1>3, <1>4, <1>5 DEF StackOK

(* The handler on top goes on: where it is and which way it goes stay. *)
LEMMA ContinueKeepsStack ==
  ASSUME NEW st, NEW s, StackOK(s, st), s # <<>>,
         NEW f \in Frame(st), f.at = s[Len(s)].at, f.dir = s[Len(s)].dir
  PROVE  LET t == [s EXCEPT ![Len(s)] = f]
         IN  StackOK(t, st) /\ t # <<>> /\ t[Len(t)] = f
<1>1. PICK t : t = [s EXCEPT ![Len(s)] = f]
  OBVIOUS
<1>2. s \in Seq(Frame(st)) /\ Len(s) \in Nat \ {0} /\ Len(s) \in 1..Len(s)
  BY EmptySeq DEF StackOK
<1>3. /\ t \in Seq(Frame(st)) /\ Len(t) = Len(s)
      /\ \A i \in 1..Len(s) : t[i] = IF i = Len(s) THEN f ELSE s[i]
  <2>1. /\ [s EXCEPT ![Len(s)] = f] \in Seq(Frame(st))
        /\ Len([s EXCEPT ![Len(s)] = f]) = Len(s)
        /\ \A i \in 1..Len(s) :
             [s EXCEPT ![Len(s)] = f][i] = IF i = Len(s) THEN f ELSE s[i]
    BY <1>2, ExceptSeq
  <2> QED BY <1>1, <2>1
<1>4. \A i \in 1..Len(s) : t[i].at = s[i].at /\ t[i].dir = s[i].dir
  BY <1>3
<1>5. Handled(t, st)
  <2>1. ASSUME NEW i \in 1..Len(t) PROVE t[i].dir \in Handles[st[t[i].at]]
    <3>1. s[i].dir \in Handles[st[s[i].at]]
      BY <1>3 DEF StackOK, Handled
    <3> QED BY <1>3, <1>4, <3>1
  <2> QED BY <2>1 DEF Handled
<1>6. Nested(t)
  <2>1. ASSUME NEW i \in 1..Len(t) - 1 PROVE Follows(t[i], t[i + 1])
    <3>1. i \in 1..Len(s) /\ i + 1 \in 1..Len(s) /\ i \in 1..Len(s) - 1
      BY <1>2, <1>3
    <3>2. Follows(s[i], s[i + 1])
      BY <3>1 DEF StackOK, Nested
    <3> QED BY <1>4, <3>1, <3>2 DEF Follows
  <2> QED BY <2>1 DEF Nested
<1>7. t # <<>>
  BY <1>2, <1>3, EmptySeq
<1>8. t[Len(t)] = f
  BY <1>2, <1>3
<1> QED BY <1>1, <1>3, <1>5, <1>6, <1>7, <1>8 DEF StackOK

(* What fireInboundFrom() and fireOutboundFrom() call is a frame. *)
LEMMA CallIsFrame ==
  ASSUME NEW st, NEW at \in 1..Len(st), NEW dir \in Dirs, NEW b, IsByteBuf(b)
  PROVE  /\ Call(at, dir, b) \in Frame(st)
         /\ Call(at, dir, b).at = at /\ Call(at, dir, b).dir = dir
BY DEF Call, Frame, Bufs, PCs, IsByteBuf

-----------------------------------------------------------------------------
(* Firing.                                                                 *)

(* fireInboundFrom(), from a place behind the handler that waits on top. *)
LEMMA FireInboundKeeps ==
  ASSUME stages \in Seq(Types), NEW s, StackOK(s, stages), NEW i \in Nat,
         NEW b, IsByteBuf(b),
         s # <<>> => s[Len(s)].dir = "inbound" /\ s[Len(s)].at < i
  PROVE  StackOK(FireInboundFrom(i, b, s), stages)
<1>1. CASE InboundFrom(i) = {}
  BY <1>1 DEF FireInboundFrom
<1>2. CASE InboundFrom(i) # {}
  <2>1. PICK j : j = Nearest(InboundFrom(i))
    OBVIOUS
  <2>2. j \in InboundFrom(i)
    <3>1. InboundFrom(i) \subseteq Nat
      BY DEF InboundFrom
    <3>2. \E k \in InboundFrom(i) : \A l \in InboundFrom(i) : k <= l
      BY <1>2, <3>1, LeastExists
    <3> QED BY <2>1, <3>2 DEF Nearest
  <2>3. j \in 1..Len(stages) /\ j >= i /\ "inbound" \in Handles[stages[j]]
    BY <2>2 DEF InboundFrom
  <2>4. PICK f : f = Call(j, "inbound", b)
    OBVIOUS
  <2>5. f \in Frame(stages) /\ f.at = j /\ f.dir = "inbound"
    BY <2>3, <2>4, CallIsFrame DEF Dirs
  <2>6. ASSUME s # <<>> PROVE Follows(s[Len(s)], f)
    <3>1. s[Len(s)] \in Frame(stages)
      BY <2>6, EmptySeq, ElementOfSeq DEF StackOK
    <3>2. s[Len(s)].at \in Nat /\ j \in Nat
      BY <2>3, <3>1 DEF Frame
    <3> QED BY <2>3, <2>5, <2>6, <3>2 DEF Follows
  <2>7. StackOK(Append(s, f), stages)
    BY <2>3, <2>5, <2>6, CallKeepsStack
  <2> QED BY <1>2, <2>1, <2>4, <2>7 DEF FireInboundFrom
<1> QED BY <1>1, <1>2

(* fireOutboundFrom(), from a place before the handler that waits on top. *)
LEMMA FireOutboundKeeps ==
  ASSUME stages \in Seq(Types), NEW s, StackOK(s, stages), NEW i \in Int,
         NEW b, IsByteBuf(b), s # <<>> => i < s[Len(s)].at
  PROVE  StackOK(FireOutboundFrom(i, b, s), stages)
<1>1. CASE OutboundFrom(i) = {}
  BY <1>1 DEF FireOutboundFrom
<1>2. CASE OutboundFrom(i) # {}
  <2>1. PICK j : j = Farthest(OutboundFrom(i))
    OBVIOUS
  <2>2. j \in OutboundFrom(i)
    <3>1. OutboundFrom(i) \subseteq 0..Len(stages) /\ Len(stages) \in Nat
      BY LenProperties DEF OutboundFrom
    <3>2. \E k \in OutboundFrom(i) : \A l \in OutboundFrom(i) : l <= k
      BY <1>2, <3>1, GreatestExists
    <3> QED BY <2>1, <3>2 DEF Farthest
  <2>3. j \in 1..Len(stages) /\ j <= i /\ "outbound" \in Handles[stages[j]]
    BY <2>2 DEF OutboundFrom
  <2>4. PICK f : f = Call(j, "outbound", b)
    OBVIOUS
  <2>5. f \in Frame(stages) /\ f.at = j /\ f.dir = "outbound"
    BY <2>3, <2>4, CallIsFrame DEF Dirs
  <2>6. ASSUME s # <<>> PROVE Follows(s[Len(s)], f)
    <3>1. s[Len(s)] \in Frame(stages)
      BY <2>6, EmptySeq, ElementOfSeq DEF StackOK
    <3>2. s[Len(s)].at \in Nat /\ j \in Nat
      BY <2>3, <3>1 DEF Frame
    <3> QED BY <2>3, <2>5, <2>6, <3>2 DEF Follows
  <2>7. StackOK(Append(s, f), stages)
    BY <2>3, <2>5, <2>6, CallKeepsStack
  <2> QED BY <1>2, <2>1, <2>4, <2>7 DEF FireOutboundFrom
<1> QED BY <1>1, <1>2

-----------------------------------------------------------------------------
(* The inductive invariant. *)

DataOK ==
  /\ IsByteBuf(rbuf) /\ IsByteBuf(in) /\ IsByteBuf(wbuf)
  /\ pending \in 0..Limit
  /\ came \in 0..Len(Incoming)
  /\ wire \in Seq(Octet) /\ got \in Seq(Seq(Octet))
  /\ refused \in BOOLEAN

PipeInv == stages \in Seq(Types) /\ StackOK(stack, stages) /\ DataOK

(* The handler that runs. *)
LEMMA TopIsFrame ==
  ASSUME PipeInv, ~Idle
  PROVE  /\ stack # <<>> /\ Top = stack[Len(stack)]
         /\ Top \in Frame(stages) /\ Top.at \in Nat
         /\ IsByteBuf(Top.buf)
<1>1. stack # <<>> /\ Top = stack[Len(stack)]
  BY DEF Idle, Top
<1>2. Len(stack) \in 1..Len(stack) /\ stack \in Seq(Frame(stages))
  BY <1>1, EmptySeq DEF PipeInv, StackOK
<1>3. Top \in Frame(stages)
  BY <1>1, <1>2, ElementOfSeq
<1> QED BY <1>1, <1>3 DEF Frame, Bufs

(* The handler that runs goes on. *)
LEMMA ContinuedIsStack ==
  ASSUME PipeInv, ~Idle, NEW b, IsByteBuf(b), NEW pc \in PCs
  PROVE  LET t == Continued(b, pc)
         IN  /\ StackOK(t, stages) /\ t # <<>>
             /\ t[Len(t)].at = Top.at /\ t[Len(t)].dir = Top.dir
<1>1. PICK f : f = [Top EXCEPT !.buf = b, !.pc = pc]
  OBVIOUS
<1>2. f \in Frame(stages) /\ f.at = Top.at /\ f.dir = Top.dir
  <2>1. b \in Bufs
    BY DEF Bufs, IsByteBuf
  <2> QED BY <1>1, <2>1, TopIsFrame DEF Frame
<1>3. Continued(b, pc) = [stack EXCEPT ![Len(stack)] = f]
  BY <1>1 DEF Continued
<1>4. PICK t : t = Continued(b, pc)
  OBVIOUS
<1>5. StackOK(t, stages) /\ t # <<>> /\ t[Len(t)] = f
  <2>1. /\ StackOK(stack, stages) /\ stack # <<>>
        /\ f.at = stack[Len(stack)].at /\ f.dir = stack[Len(stack)].dir
    BY <1>2, TopIsFrame DEF PipeInv
  <2>2. LET e == [stack EXCEPT ![Len(stack)] = f]
        IN  StackOK(e, stages) /\ e # <<>> /\ e[Len(e)] = f
    BY <1>2, <2>1, ContinueKeepsStack
  <2> QED BY <1>3, <1>4, <2>2
<1> QED BY <1>2, <1>4, <1>5

(* The handler that runs returns. *)
LEMMA ReturnedIsStack ==
  ASSUME PipeInv, ~Idle
  PROVE  StackOK(Returned, stages)
BY TopIsFrame, ReturnKeepsStack DEF PipeInv, Returned

(* Handlers fire onward with what waits on top, at a new place or the old. *)
LEMMA InboundIsStack ==
  ASSUME PipeInv, ~Idle, Top.dir = "inbound", NEW b, IsByteBuf(b),
         NEW t, StackOK(t, stages), t # <<>>,
         t[Len(t)].at = Top.at, t[Len(t)].dir = Top.dir
  PROVE  StackOK(FireInbound(b, t), stages)
<1>1. Top.at + 1 \in Nat /\ Top.at < Top.at + 1
  BY TopIsFrame
<1> QED BY <1>1, FireInboundKeeps DEF FireInbound, PipeInv

LEMMA OutboundIsStack ==
  ASSUME PipeInv, ~Idle, NEW b, IsByteBuf(b),
         NEW t, StackOK(t, stages), t # <<>>, t[Len(t)].at = Top.at
  PROVE  StackOK(FireOutbound(b, t), stages)
<1>1. Top.at - 1 \in Int /\ Top.at - 1 < Top.at
  BY TopIsFrame
<1> QED BY <1>1, FireOutboundKeeps DEF FireOutbound, PipeInv

(* A step that leaves the stages alone. *)
LEMMA StackStep ==
  ASSUME PipeInv, stages' = stages, StackOK(stack', stages), DataOK'
  PROVE  PipeInv'
BY DEF PipeInv

-----------------------------------------------------------------------------
(* The transport's steps. *)

LEMMA BuildKeeps == ASSUME PipeInv, NEW type \in Types, Build(type) PROVE PipeInv'
<1>1. stack = <<>> /\ stack' = <<>> /\ stages' = Append(stages, type)
  BY DEF Build, AddLast, Idle
<1>2. stages' \in Seq(Types)
  BY <1>1, AppendProperties DEF PipeInv
<1>3. StackOK(stack', stages')
  BY <1>1, EmptyStack
<1>4. DataOK'
  BY DEF Build, dataVars, PipeInv, DataOK
<1> QED BY <1>2, <1>3, <1>4 DEF PipeInv

LEMMA RecvKeeps == ASSUME PipeInv, Recv PROVE PipeInv'
<1>1. PICK n \in 1..Least(ReadMax, Len(Incoming) - came) :
        /\ rbuf' = Write(rbuf, SubSeq(Incoming, came + 1, came + n))
        /\ came' = came + n
  BY DEF Recv
<1>2. came \in Nat /\ n \in Nat /\ came + n \in 0..Len(Incoming)
  <2>1. came \in 0..Len(Incoming) /\ Len(Incoming) \in Nat /\ ReadMax \in Nat
    BY PipelineAssumptions, LenProperties DEF PipeInv, DataOK
  <2> QED BY <1>1, <2>1 DEF Least
<1>3. SubSeq(Incoming, came + 1, came + n) \in Seq(Octet)
  <2>1. \A i \in came + 1..came + n : Incoming[i] \in Octet
    BY <1>2, PipelineAssumptions, ElementOfSeq
  <2> QED BY <1>2, <2>1, SubSeqProperties
<1>4. IsByteBuf(rbuf')
  BY <1>1, <1>3, WriteAppends DEF PipeInv, DataOK
<1>5. DataOK'
  BY <1>1, <1>2, <1>4 DEF Recv, PipeInv, DataOK
<1> QED BY <1>5, StackStep DEF Recv, conveyorVars, PipeInv

LEMMA InboundKeeps == ASSUME PipeInv, Inbound PROVE PipeInv'
<1>1. StackOK(stack', stages)
  BY EmptyStack, FireInboundKeeps DEF Inbound, PipeInv, DataOK
<1>2. DataOK'
  BY EmptyIsByteBuf DEF Inbound, PipeInv, DataOK
<1> QED BY <1>1, <1>2, StackStep DEF Inbound

LEMMA WritevKeeps == ASSUME PipeInv, Writev PROVE PipeInv'
<1>1. PICK n \in 1..ReadableBytes(wbuf) :
        /\ wire' = wire \o SubSeq(Readable(wbuf), 1, n)
        /\ wbuf' = Advance(wbuf, n)
  BY DEF Writev
<1>2. IsByteBuf(wbuf)
  BY DEF PipeInv, DataOK
<1>3. n \in Nat /\ n <= ReadableBytes(wbuf) /\ ReadableBytes(wbuf) \in Nat
  BY <1>1, <1>2, BufShape
<1>4. SubSeq(Readable(wbuf), 1, n) \in Seq(Octet)
  <2>1. \A i \in 1..n : Readable(wbuf)[i] \in Octet
    BY <1>2, <1>3, ReadableShape, ElementOfSeq
  <2> QED BY <1>3, <2>1, SubSeqProperties
<1>5. wire' \in Seq(Octet) /\ IsByteBuf(wbuf')
  BY <1>1, <1>2, <1>3, <1>4, AdvanceDrops, ConcatProperties DEF PipeInv, DataOK
<1>6. DataOK'
  BY <1>5 DEF Writev, PipeInv, DataOK
<1> QED BY <1>6, StackStep DEF Writev, conveyorVars, PipeInv

-----------------------------------------------------------------------------
(* The stages' steps. *)

LEMMA RelayKeeps == ASSUME PipeInv, Relay PROVE PipeInv'
<1>1. ~Idle
  BY DEF Relay, Runs
<1>2. IsByteBuf(Top.buf)
  BY <1>1, TopIsFrame
<1>3. PICK t : t = Continued(Top.buf, "fired")
  OBVIOUS
<1>4. /\ StackOK(t, stages) /\ t # <<>>
      /\ t[Len(t)].at = Top.at /\ t[Len(t)].dir = Top.dir
  BY <1>1, <1>2, <1>3, ContinuedIsStack DEF PCs
<1>5. StackOK(stack', stages)
  <2>1. CASE /\ Runs("relay", "inbound", "called")
             /\ stack' = FireInbound(Top.buf, Continued(Top.buf, "fired"))
    BY <1>1, <1>2, <1>3, <1>4, <2>1, InboundIsStack DEF Runs
  <2>2. CASE /\ Runs("relay", "outbound", "called")
             /\ stack' = FireOutbound(Top.buf, Continued(Top.buf, "fired"))
    BY <1>1, <1>2, <1>3, <1>4, <2>2, OutboundIsStack
  <2> QED BY <2>1, <2>2 DEF Relay
<1> QED BY <1>5, StackStep DEF Relay, dataVars, PipeInv, DataOK

LEMMA DoneKeeps == ASSUME PipeInv, Done PROVE PipeInv'
<1>1. StackOK(stack', stages)
  BY ReturnedIsStack DEF Done
<1> QED BY <1>1, StackStep DEF Done, dataVars, PipeInv, DataOK

(* A turn of the Chunker's loop has a number and a buffer. *)
LEMMA HeadedIsSound ==
  ASSUME PipeInv, Turn
  PROVE  ~Idle /\ Top.dir = "inbound" /\ Headed.out \in Nat /\ IsByteBuf(Headed.buf)
<1>1. IsByteBuf(in) /\ pending \in Nat
  BY PipelineAssumptions DEF PipeInv, DataOK
<1>2. CASE pending # 0
  BY <1>1, <1>2 DEF Turn, Runs, Headed
<1>3. CASE pending = 0
  BY <1>1, <1>3, ReadUI32Keeps DEF Turn, Runs, Headed
<1> QED BY <1>2, <1>3

LEMMA ChunkerInKeeps == ASSUME PipeInv, ChunkerIn PROVE PipeInv'
<1>1. CASE ChunkerTakes
  <2>1. ~Idle /\ IsByteBuf(Top.buf) /\ IsByteBuf(in)
    BY <1>1, TopIsFrame DEF ChunkerTakes, Runs, PipeInv, DataOK
  <2>2. PICK t : t = Transfer(Top.buf, in, ReadableBytes(Top.buf))
    OBVIOUS
  <2>3. in' = t.dst /\ stack' = Continued(t.src, "loop")
    BY <1>1, <2>2 DEF ChunkerTakes
  <2>4. IsByteBuf(t.src) /\ IsByteBuf(t.dst)
    <3>1. ReadableBytes(Top.buf) \in Nat
      BY <2>1, BufShape
    <3> QED BY <2>1, <2>2, <3>1, TransferMoves
  <2>5. StackOK(stack', stages)
    BY <2>1, <2>3, <2>4, ContinuedIsStack DEF PCs
  <2>6. DataOK'
    BY <1>1, <2>3, <2>4 DEF ChunkerTakes, PipeInv, DataOK
  <2> QED BY <1>1, <2>5, <2>6, StackStep DEF ChunkerTakes
<1>2. CASE ChunkerLacksHeader
  <2>1. StackOK(stack', stages)
    BY <1>2, ReturnedIsStack DEF ChunkerLacksHeader, Runs
  <2> QED BY <1>2, <2>1, StackStep DEF ChunkerLacksHeader, dataVars, PipeInv, DataOK
<1>3. CASE ChunkerRefuses
  <2>1. StackOK(stack', stages)
    BY <1>3, HeadedIsSound, ReturnedIsStack DEF ChunkerRefuses
  <2>2. DataOK'
    BY <1>3, EmptyIsByteBuf DEF ChunkerRefuses, PipeInv, DataOK
  <2> QED BY <1>3, <2>1, <2>2, StackStep DEF ChunkerRefuses
<1>4. CASE ChunkerLacksPayload
  <2>1. StackOK(stack', stages)
    BY <1>4, HeadedIsSound, ReturnedIsStack DEF ChunkerLacksPayload
  <2>2. pending' \in 0..Limit /\ IsByteBuf(in')
    BY <1>4, HeadedIsSound, PipelineAssumptions DEF ChunkerLacksPayload
  <2>3. DataOK'
    BY <1>4, <2>2 DEF ChunkerLacksPayload, PipeInv, DataOK
  <2> QED BY <1>4, <2>1, <2>3, StackStep DEF ChunkerLacksPayload
<1>5. CASE ChunkerDelivers
  <2>1. /\ ~Idle /\ Top.dir = "inbound"
        /\ Headed.out \in Nat /\ IsByteBuf(Headed.buf)
    BY <1>5, HeadedIsSound DEF ChunkerDelivers
  <2>2. PICK t : t = Transfer(Headed.buf, EmptyBuf, Headed.out)
    OBVIOUS
  <2>3. IsByteBuf(t.src) /\ IsByteBuf(t.dst)
    BY <2>1, <2>2, TransferMoves, EmptyIsByteBuf
  <2>4. in' = t.src /\ stack' = FireInbound(t.dst, stack)
    BY <1>5, <2>2 DEF ChunkerDelivers
  <2>5. StackOK(stack', stages)
    BY <2>1, <2>3, <2>4, TopIsFrame, InboundIsStack DEF PipeInv
  <2>6. DataOK'
    BY <1>5, <2>3, <2>4, PipelineAssumptions DEF ChunkerDelivers, PipeInv, DataOK
  <2> QED BY <1>5, <2>5, <2>6, StackStep DEF ChunkerDelivers
<1> QED BY <1>1, <1>2, <1>3, <1>4, <1>5 DEF ChunkerIn

LEMMA ChunkerOutKeeps == ASSUME PipeInv, ChunkerOut PROVE PipeInv'
<1>1. ~Idle /\ IsByteBuf(Top.buf)
  BY TopIsFrame DEF ChunkerOut, Runs
<1>2. StackOK(stack', stages)
  <2>1. CASE ReadableBytes(Top.buf) > Limit
    BY <1>1, <2>1, ReturnedIsStack DEF ChunkerOut
  <2>2. CASE ~(ReadableBytes(Top.buf) > Limit)
    <3>1. PICK t : t = WithHeader(Top.buf)
      OBVIOUS
    <3>2. IsByteBuf(t.src) /\ IsByteBuf(t.dst)
      <4>1. PICK n : n = ReadableBytes(Top.buf)
        OBVIOUS
      <4>2. n \in Nat /\ IsByteBuf(WriteUI32(EmptyBuf, n))
        BY <1>1, <4>1, BufShape, EmptyIsByteBuf, WriteUI32Appends
      <4>3. t = Transfer(Top.buf, WriteUI32(EmptyBuf, n), n)
        BY <3>1, <4>1 DEF WithHeader
      <4> QED BY <1>1, <4>2, <4>3, TransferMoves
    <3>3. PICK c : c = Continued(t.src, "fired")
      OBVIOUS
    <3>4. StackOK(c, stages) /\ c # <<>> /\ c[Len(c)].at = Top.at
      BY <1>1, <3>2, <3>3, ContinuedIsStack DEF PCs
    <3>5. stack' = FireOutbound(t.dst, c)
      BY <2>2, <3>1, <3>3 DEF ChunkerOut
    <3> QED BY <1>1, <3>2, <3>4, <3>5, OutboundIsStack
  <2> QED BY <2>1, <2>2
<1> QED BY <1>2, StackStep DEF ChunkerOut, dataVars, PipeInv, DataOK

LEMMA AppAnswersKeeps == ASSUME PipeInv, AppAnswers PROVE PipeInv'
<1>1. ~Idle /\ IsByteBuf(Top.buf)
  BY TopIsFrame DEF AppAnswers, Runs
<1>2. PICK c : c = Continued(Top.buf, "fired")
  OBVIOUS
<1>3. StackOK(c, stages) /\ c # <<>> /\ c[Len(c)].at = Top.at
  BY <1>1, <1>2, ContinuedIsStack DEF PCs
<1>4. StackOK(stack', stages)
  BY <1>1, <1>2, <1>3, OutboundIsStack DEF AppAnswers
<1>5. got' \in Seq(Seq(Octet))
  BY <1>1, ReadableShape, AppendProperties DEF AppAnswers, PipeInv, DataOK
<1>6. DataOK'
  BY <1>5 DEF AppAnswers, PipeInv, DataOK
<1> QED BY <1>4, <1>6, StackStep DEF AppAnswers

LEMMA HeadWritesKeeps == ASSUME PipeInv, HeadWrites PROVE PipeInv'
<1>1. ~Idle /\ IsByteBuf(Top.buf) /\ IsByteBuf(wbuf)
  BY TopIsFrame DEF HeadWrites, Runs, PipeInv, DataOK
<1>2. IsByteBuf(wbuf')
  <2>1. ReadableBytes(Top.buf) \in Nat
    BY <1>1, BufShape
  <2>2. IsByteBuf(Transfer(Top.buf, wbuf, ReadableBytes(Top.buf)).dst)
    BY <1>1, <2>1, TransferMoves
  <2> QED BY <2>2 DEF HeadWrites
<1>3. StackOK(stack', stages)
  BY <1>1, ReturnedIsStack DEF HeadWrites
<1>4. DataOK'
  BY <1>2 DEF HeadWrites, PipeInv, DataOK
<1> QED BY <1>3, <1>4, StackStep DEF HeadWrites

-----------------------------------------------------------------------------
(* The invariant holds at the start, and every step keeps it. *)
LEMMA PipeInvAtFirst == Init => PipeInv
<1> SUFFICES ASSUME Init PROVE PipeInv
  OBVIOUS
<1>1. stages \in Seq(Types) /\ StackOK(stack, stages)
  BY EmptySeq, EmptyStack DEF Init, ConveyorInit
<1>2. <<>> \in Seq(Octet) /\ <<>> \in Seq(Seq(Octet)) /\ Len(Incoming) \in Nat
  BY EmptySeq, LenProperties, PipelineAssumptions
<1>3. DataOK
  <2>1. refused \in BOOLEAN
    BY Zenon DEF Init
  <2>2. /\ pending \in 0..Limit /\ came \in 0..Len(Incoming)
        /\ wire \in Seq(Octet) /\ got \in Seq(Seq(Octet))
    BY <1>2, PipelineAssumptions DEF Init
  <2>3. IsByteBuf(rbuf) /\ IsByteBuf(in) /\ IsByteBuf(wbuf)
    BY EmptyIsByteBuf DEF Init
  <2> QED BY <2>1, <2>2, <2>3 DEF DataOK
<1> QED BY <1>1, <1>3 DEF PipeInv

(* The steps of onWritable() that write nothing. *)
LEMMA BytesStay ==
  ASSUME OnWritable \/ WriteBlocks \/ WriteDone \/ UNCHANGED vars
  PROVE  UNCHANGED <<conveyorVars, dataVars>>
BY DEF OnWritable, WriteBlocks, WriteDone, vars

LEMMA PipeInvHolds == Spec => []PipeInv
<1>1. Init => PipeInv
  BY PipeInvAtFirst
<1>2. PipeInv /\ [Next]_vars => PipeInv'
  <2> SUFFICES ASSUME PipeInv, [Next]_vars PROVE PipeInv'
    OBVIOUS
  <2>1. CASE \E type \in Types : Build(type)
    BY <2>1, BuildKeeps
  <2>2. CASE Recv
    BY <2>2, RecvKeeps
  <2>3. CASE Inbound
    BY <2>3, InboundKeeps
  <2>4. CASE Writev
    BY <2>4, WritevKeeps
  <2>5. CASE StageStep
    BY <2>5, RelayKeeps, DoneKeeps, ChunkerInKeeps, ChunkerOutKeeps,
       AppAnswersKeeps, HeadWritesKeeps DEF StageStep
  <2>6. CASE OnWritable \/ WriteBlocks \/ WriteDone \/ UNCHANGED vars
    BY <2>6, BytesStay DEF conveyorVars, dataVars, PipeInv, DataOK
  <2> QED BY <2>1, <2>2, <2>3, <2>4, <2>5, <2>6 DEF Next, WriteLoop
<1> QED BY <1>1, <1>2, PTL DEF Spec

(* What onWritable() goes by. *)
WriteLoopOK == writeArmed \in BOOLEAN /\ writing \in BOOLEAN /\ writes \in 0..MaxWrites

LEMMA WriteLoopIsSound == Spec => []WriteLoopOK
<1>1. Init => WriteLoopOK
  <2> SUFFICES ASSUME Init PROVE WriteLoopOK
    OBVIOUS
  <2>1. writeArmed \in BOOLEAN /\ writing \in BOOLEAN
    BY Zenon DEF Init
  <2>2. writes \in 0..MaxWrites
    BY PipelineAssumptions DEF Init
  <2> QED BY <2>1, <2>2 DEF WriteLoopOK
<1>2. WriteLoopOK /\ [Next]_vars => WriteLoopOK'
  <2> SUFFICES ASSUME WriteLoopOK, [Next]_vars PROVE WriteLoopOK'
    OBVIOUS
  <2>1. CASE WriteLoop
    <3>1. writeArmed' \in BOOLEAN /\ writing' \in BOOLEAN
      BY <2>1, Zenon DEF WriteLoop, OnWritable, Writev, WriteBlocks, WriteDone, WriteLoopOK
    <3>2. writes' \in 0..MaxWrites
      BY <2>1, PipelineAssumptions
         DEF WriteLoop, OnWritable, Writev, InWriteLoop, WriteBlocks, WriteDone, WriteLoopOK
    <3> QED BY <3>1, <3>2 DEF WriteLoopOK
  <2>2. CASE HeadWrites
    <3>1. writeArmed' \in BOOLEAN /\ writing' = writing /\ writes' = writes
      BY <2>2, Zenon DEF HeadWrites
    <3> QED BY <3>1 DEF WriteLoopOK
  <2>3. CASE \/ \E type \in Types : Build(type)
             \/ Recv \/ Inbound \/ Relay \/ Done \/ ChunkerIn \/ ChunkerOut
             \/ AppAnswers \/ UNCHANGED vars
    <3>1. UNCHANGED writeVars
      BY <2>3 DEF Build, Recv, Inbound, Relay, Done, ChunkerIn, ChunkerTakes,
         ChunkerLacksHeader, ChunkerRefuses, ChunkerLacksPayload, ChunkerDelivers,
         ChunkerOut, AppAnswers, vars
    <3> QED BY <3>1 DEF writeVars, WriteLoopOK
  <2> QED BY <2>1, <2>2, <2>3 DEF Next, StageStep
<1> QED BY <1>1, <1>2, PTL DEF Spec

(* byte_buffer.hpp, conveyor.hpp: whatever the stages and the bytes, every    *)
(* buffer keeps its offsets in order and inside its storage, and handlers   *)
(* that run are those of stages that have one.                              *)
THEOREM PipelineTypeOK == Spec => []TypeOK
<1>1. PipeInv /\ WriteLoopOK => TypeOK
  <2> SUFFICES ASSUME PipeInv, WriteLoopOK PROVE TypeOK
    OBVIOUS
  <2>1. ASSUME NEW i \in DOMAIN stack
        PROVE  /\ stack[i].at \in 1..Len(stages)
               /\ stack[i].dir \in Handles[stages[stack[i].at]]
               /\ stack[i].pc \in {"called", "loop", "fired"}
               /\ IsByteBuf(stack[i].buf)
    <3>1. stack \in Seq(Frame(stages)) /\ i \in 1..Len(stack)
      BY LenProperties DEF PipeInv, StackOK
    <3>2. stack[i] \in Frame(stages)
      BY <3>1, ElementOfSeq
    <3>3. stack[i].dir \in Handles[stages[stack[i].at]]
      BY <3>1 DEF PipeInv, StackOK, Handled
    <3> QED BY <3>2, <3>3 DEF Frame, Bufs, PCs
  <2> QED BY <2>1 DEF TypeOK, PipeInv, DataOK, WriteLoopOK
<1> QED BY <1>1, PipeInvHolds, WriteLoopIsSound, PTL

(* conveyor.hpp:114-160: handlers nest inward and from some point on outward, *)
(* in every pipeline, also while the application answers from within the    *)
(* Chunker's loop.                                                         *)
THEOREM HandlersNest == Spec => []StackIsOrdered
<1>1. PipeInv => StackIsOrdered
  BY DEF PipeInv, StackOK, Nested, Follows, StackIsOrdered
<1> QED BY <1>1, PipeInvHolds, PTL

-----------------------------------------------------------------------------
(* The order of the bytes.  Of the handlers that run only the one on top     *)
(* still has its event; what it carries is told apart by its direction and   *)
(* by the side of the Chunker it is on, k being the Chunker's place.        *)

CarriedAt(f, k) ==
  IF f.pc # "called" THEN <<>>
  ELSE IF f.at > k \/ (f.at = k /\ f.dir = "outbound")
       THEN Framed(Readable(f.buf)) ELSE Readable(f.buf)

(* On its way in, beyond the Chunker and up to it, and on its way out. *)
Past(s, k) ==
  IF s = <<>> THEN <<>>
  ELSE IF s[Len(s)].dir = "inbound" /\ s[Len(s)].at > k
       THEN CarriedAt(s[Len(s)], k) ELSE <<>>

Upto(s, k) ==
  IF s = <<>> THEN <<>>
  ELSE IF s[Len(s)].dir = "inbound" /\ s[Len(s)].at <= k
       THEN CarriedAt(s[Len(s)], k) ELSE <<>>

Outward(s, k) ==
  IF s = <<>> THEN <<>>
  ELSE IF s[Len(s)].dir = "outbound" THEN CarriedAt(s[Len(s)], k) ELSE <<>>

Quiet(s)   == \A i \in 1..Len(s) : s[i].pc # "called"
OnlyTop(s) == \A i \in 1..Len(s) - 1 : s[i].pc # "called"

(* What is or will be framed is no longer than a chunk may be. *)
FrameOK(f, k) ==
  f.pc = "called" /\ (f.at > k \/ (f.at = k /\ f.dir = "outbound")) =>
    ReadableBytes(f.buf) <= Limit

WithinLimit(s, k) == s # <<>> => FrameOK(s[Len(s)], k)

(* A chunk with its header is bytes. *)
LEMMA FramedTyped ==
  ASSUME NEW c \in Seq(Octet)
  PROVE  Framed(c) \in Seq(Octet) /\ Framed(c) = Cat(UI32Bytes(Len(c)), c)
<1>1. Len(c) \in Nat
  BY LenProperties
<1>2. UI32Bytes(Len(c)) \in Seq(Octet)
  BY <1>1, UI32BytesType
<1>3. Cat(UI32Bytes(Len(c)), c) \in Seq(Octet)
  BY <1>2, CatTyped
<1> QED BY <1>3 DEF Framed, Cat

LEMMA CarriedTyped ==
  ASSUME NEW f, IsByteBuf(f.buf), NEW k
  PROVE  CarriedAt(f, k) \in Seq(Octet)
<1>1. Readable(f.buf) \in Seq(Octet) /\ <<>> \in Seq(Octet)
  BY ReadableShape, EmptySeq
<1> QED BY <1>1, FramedTyped DEF CarriedAt

(* What a sound stack carries is bytes. *)
LEMMA CarriesTyped ==
  ASSUME NEW st, NEW s \in Seq(Frame(st)), NEW k
  PROVE  /\ Past(s, k) \in Seq(Octet)
         /\ Upto(s, k) \in Seq(Octet)
         /\ Outward(s, k) \in Seq(Octet)
<1>1. <<>> \in Seq(Octet)
  BY EmptySeq
<1>2. ASSUME s # <<>>
      PROVE  CarriedAt(s[Len(s)], k) \in Seq(Octet)
  <2>1. s[Len(s)] \in Frame(st)
    BY <1>2, EmptySeq, ElementOfSeq
  <2>2. IsByteBuf(s[Len(s)].buf)
    BY <2>1 DEF Frame, Bufs
  <2> QED BY <2>2, CarriedTyped
<1> QED BY <1>1, <1>2 DEF Past, Upto, Outward

(* When no handler has its event any more nothing is carried. *)
LEMMA QuietCarries ==
  ASSUME NEW st, NEW s \in Seq(Frame(st)), Quiet(s), NEW k
  PROVE  /\ Past(s, k) = <<>> /\ Upto(s, k) = <<>> /\ Outward(s, k) = <<>>
         /\ OnlyTop(s) /\ WithinLimit(s, k)
<1>1. Len(s) \in Nat /\ (s # <<>> => Len(s) \in 1..Len(s))
  BY EmptySeq, LenProperties
<1>2. s # <<>> => s[Len(s)].pc # "called"
  BY <1>1 DEF Quiet
<1>3. \A i \in 1..Len(s) - 1 : i \in 1..Len(s)
  BY <1>1
<1>4. OnlyTop(s)
  BY <1>3 DEF OnlyTop, Quiet
<1> QED BY <1>2, <1>4 DEF Past, Upto, Outward, CarriedAt, WithinLimit, FrameOK

(* A handler that is called has its event, those that wait have none. *)
LEMMA CalledCarries ==
  ASSUME NEW st, NEW s \in Seq(Frame(st)), Quiet(s),
         NEW f \in Frame(st), f.pc = "called", NEW k, FrameOK(f, k)
  PROVE  LET t == Append(s, f)
         IN  /\ Past(t, k) = IF f.dir = "inbound" /\ f.at > k
                             THEN CarriedAt(f, k) ELSE <<>>
             /\ Upto(t, k) = IF f.dir = "inbound" /\ f.at <= k
                             THEN CarriedAt(f, k) ELSE <<>>
             /\ Outward(t, k) = IF f.dir = "outbound" THEN CarriedAt(f, k) ELSE <<>>
             /\ OnlyTop(t) /\ WithinLimit(t, k)
<1>1. PICK t : t = Append(s, f)
  OBVIOUS
<1>2. /\ t \in Seq(Frame(st)) /\ Len(t) = Len(s) + 1 /\ Len(s) \in Nat
      /\ \A i \in 1..Len(s) : t[i] = s[i]
      /\ t[Len(s) + 1] = f
  BY <1>1, AppendProperties, LenProperties
<1>3. t # <<>> /\ t[Len(t)] = f
  BY <1>2, EmptySeq
<1>4. OnlyTop(t)
  <2>1. \A i \in 1..Len(t) - 1 : i \in 1..Len(s)
    BY <1>2
  <2> QED BY <1>2, <2>1 DEF OnlyTop, Quiet
<1> QED BY <1>1, <1>3, <1>4 DEF Past, Upto, Outward, WithinLimit

(* The handlers that wait are quiet. *)
LEMMA ReturnedIsQuiet ==
  ASSUME NEW st, NEW s \in Seq(Frame(st)), s # <<>>, OnlyTop(s)
  PROVE  Quiet(SubSeq(s, 1, Len(s) - 1))
<1>1. PICK n : n = Len(s) - 1
  OBVIOUS
<1>2. n \in Nat /\ n <= Len(s) /\ Len(s) \in Nat
  BY <1>1, EmptySeq, LenProperties
<1>3. /\ Len(SubSeq(s, 1, n)) = n
      /\ \A i \in 1..n : SubSeq(s, 1, n)[i] = s[i]
  BY <1>2, Piece
<1> QED BY <1>1, <1>3 DEF Quiet, OnlyTop

(* And so is one that goes on after it has passed its event on. *)
LEMMA ContinuedIsQuiet ==
  ASSUME NEW st, NEW s \in Seq(Frame(st)), s # <<>>, OnlyTop(s),
         NEW f \in Frame(st), f.pc # "called"
  PROVE  Quiet([s EXCEPT ![Len(s)] = f])
<1>1. Len(s) \in Nat /\ Len(s) \in 1..Len(s)
  BY EmptySeq, LenProperties
<1>2. /\ Len([s EXCEPT ![Len(s)] = f]) = Len(s)
      /\ \A i \in 1..Len(s) :
           [s EXCEPT ![Len(s)] = f][i] = IF i = Len(s) THEN f ELSE s[i]
  BY <1>1, ExceptSeq
<1>3. \A i \in 1..Len(s) : i = Len(s) \/ i \in 1..Len(s) - 1
  BY <1>1
<1> QED BY <1>2, <1>3 DEF Quiet, OnlyTop

(* A stack whose top has passed its event on is quiet. *)
LEMMA FiredIsQuiet ==
  ASSUME NEW st, NEW s \in Seq(Frame(st)), OnlyTop(s),
         s # <<>> => s[Len(s)].pc # "called"
  PROVE  Quiet(s)
<1>1. Len(s) \in Nat
  BY LenProperties
<1>2. \A i \in 1..Len(s) : i = Len(s) \/ i \in 1..Len(s) - 1
  BY <1>1
<1>3. ASSUME NEW i \in 1..Len(s), i = Len(s)
      PROVE  s[i].pc # "called"
  <2>1. s # <<>>
    BY <1>3, EmptySeq
  <2> QED BY <1>3, <2>1
<1> QED BY <1>2, <1>3 DEF Quiet, OnlyTop

-----------------------------------------------------------------------------
(* The stages of a pipeline.                                               *)

(* A head where it begins and nowhere else, the application only at its end, *)
(* one Chunker, and that is there when the application is.                  *)
Shaped(st) ==
  /\ \A i \in 1..Len(st) : st[i] = "head" <=> i = 1
  /\ \A i, j \in 1..Len(st) : st[i] = "chunker" /\ st[j] = "chunker" => i = j
  /\ \A i \in 1..Len(st) : st[i] = "app" => i = Len(st)
  /\ st # <<>> /\ st[Len(st)] = "app" => \E i \in 1..Len(st) : st[i] = "chunker"

(* Where the Chunker is: between the head and the application. *)
LEMMA ChunkerInside ==
  ASSUME stages \in Seq(Types), Shaped(stages), Ready, NEW k, k = Chunking
  PROVE  /\ k \in 1..Len(stages) /\ stages[k] = "chunker"
         /\ \A i \in 1..Len(stages) : stages[i] = "chunker" => i = k
         /\ 1 < k /\ k < Len(stages)
         /\ Len(stages) \in Nat
         /\ "outbound" \in Handles[stages[1]]
         /\ "inbound" \in Handles[stages[k]] /\ "outbound" \in Handles[stages[k]]
         /\ "inbound" \in Handles[stages[Len(stages)]]
<1>1. Len(stages) \in Nat /\ Len(stages) \in 1..Len(stages) /\ 1 \in 1..Len(stages)
  BY EmptySeq, LenProperties DEF Ready
<1>2. DOMAIN stages = 1..Len(stages)
  BY LenProperties
<1>3. \E i \in 1..Len(stages) : stages[i] = "chunker"
  BY DEF Shaped, Ready
<1>4. k \in 1..Len(stages) /\ stages[k] = "chunker"
  BY <1>2, <1>3 DEF Chunking
<1>5. \A i \in 1..Len(stages) : stages[i] = "chunker" => i = k
  BY <1>4 DEF Shaped
<1>6. stages[1] = "head" /\ stages[Len(stages)] = "app"
  BY <1>1 DEF Shaped, Ready
<1>7. k # 1 /\ k # Len(stages)
  BY <1>4, <1>6
<1>8. 1 < k /\ k < Len(stages)
  BY <1>1, <1>4, <1>7
<1> QED BY <1>1, <1>4, <1>5, <1>6, <1>8, StagesAssumption

(* What each stage is tells where it is. *)
LEMMA StagePlaces ==
  ASSUME stages \in Seq(Types), Shaped(stages), Ready, NEW k, k = Chunking,
         NEW i \in 1..Len(stages)
  PROVE  /\ stages[i] = "head" => i = 1
         /\ stages[i] = "chunker" => i = k
         /\ stages[i] = "app" => i = Len(stages)
         /\ stages[i] = "relay" => i > 1 /\ i # k /\ i < Len(stages)
<1>1. /\ Len(stages) \in Nat /\ k \in 1..Len(stages) /\ stages[k] = "chunker"
      /\ stages[i] = "chunker" => i = k
  BY ChunkerInside
<1>2. stages[i] = "head" <=> i = 1
  BY DEF Shaped
<1>3. stages[i] = "app" => i = Len(stages)
  BY DEF Shaped
<1>4. stages[Len(stages)] = "app"
  BY DEF Ready
<1>5. ASSUME stages[i] = "relay" PROVE i > 1 /\ i # k /\ i < Len(stages)
  <2>1. i # 1 /\ i # k /\ i # Len(stages)
    BY <1>1, <1>2, <1>4, <1>5
  <2> QED BY <1>1, <2>1
<1> QED BY <1>1, <1>2, <1>3, <1>5

(* What is fired inward from a place is called at or beyond that place, and  *)
(* not beyond the Chunker if that is still ahead.                           *)
LEMMA InboundGoes ==
  ASSUME stages \in Seq(Types), Shaped(stages), Ready, NEW k, k = Chunking,
         NEW i \in 1..Len(stages), NEW b, IsByteBuf(b), NEW w
  PROVE  \E j \in 1..Len(stages) :
           /\ FireInboundFrom(i, b, w) = Append(w, Call(j, "inbound", b))
           /\ "inbound" \in Handles[stages[j]]
           /\ j >= i /\ (i <= k => j <= k)
<1>1. /\ k \in 1..Len(stages) /\ Len(stages) \in Nat
      /\ "inbound" \in Handles[stages[k]] /\ "inbound" \in Handles[stages[Len(stages)]]
  BY ChunkerInside
<1>2. Len(stages) \in InboundFrom(i)
  BY <1>1 DEF InboundFrom
<1>3. i <= k => k \in InboundFrom(i)
  BY <1>1 DEF InboundFrom
<1>4. PICK j : j = Nearest(InboundFrom(i))
  OBVIOUS
<1>5. j \in InboundFrom(i) /\ \A l \in InboundFrom(i) : j <= l
  <2>1. InboundFrom(i) \subseteq Nat
    BY DEF InboundFrom
  <2>2. \E m \in InboundFrom(i) : \A l \in InboundFrom(i) : m <= l
    BY <1>2, <2>1, LeastExists
  <2> QED BY <1>4, <2>2 DEF Nearest
<1>6. FireInboundFrom(i, b, w) = Append(w, Call(j, "inbound", b))
  <2>1. InboundFrom(i) # {}
    BY <1>2
  <2> QED BY <1>4, <2>1 DEF FireInboundFrom
<1>7. j \in 1..Len(stages) /\ "inbound" \in Handles[stages[j]] /\ j >= i
  BY <1>5 DEF InboundFrom
<1>8. i <= k => j <= k
  BY <1>3, <1>5
<1> QED BY <1>6, <1>7, <1>8

(* And outward likewise. *)
LEMMA OutboundGoes ==
  ASSUME stages \in Seq(Types), Shaped(stages), Ready, NEW k, k = Chunking,
         NEW i \in 1..Len(stages), NEW b, IsByteBuf(b), NEW w
  PROVE  \E j \in 1..Len(stages) :
           /\ FireOutboundFrom(i, b, w) = Append(w, Call(j, "outbound", b))
           /\ "outbound" \in Handles[stages[j]]
           /\ j <= i /\ (i >= k => j >= k)
<1>1. /\ k \in 1..Len(stages) /\ Len(stages) \in Nat /\ 1 < k
      /\ "outbound" \in Handles[stages[k]] /\ "outbound" \in Handles[stages[1]]
  BY ChunkerInside
<1>2. 1 \in OutboundFrom(i)
  BY <1>1 DEF OutboundFrom
<1>3. i >= k => k \in OutboundFrom(i)
  BY <1>1 DEF OutboundFrom
<1>4. PICK j : j = Farthest(OutboundFrom(i))
  OBVIOUS
<1>5. j \in OutboundFrom(i) /\ \A l \in OutboundFrom(i) : l <= j
  <2>1. OutboundFrom(i) \subseteq 0..Len(stages)
    BY <1>1 DEF OutboundFrom
  <2>2. \E m \in OutboundFrom(i) : \A l \in OutboundFrom(i) : l <= m
    BY <1>1, <1>2, <2>1, GreatestExists
  <2> QED BY <1>4, <2>2 DEF Farthest
<1>6. FireOutboundFrom(i, b, w) = Append(w, Call(j, "outbound", b))
  <2>1. OutboundFrom(i) # {}
    BY <1>2
  <2> QED BY <1>4, <2>1 DEF FireOutboundFrom
<1>7. j \in 1..Len(stages) /\ "outbound" \in Handles[stages[j]] /\ j <= i
  BY <1>5 DEF OutboundFrom
<1>8. i >= k => j >= k
  BY <1>3, <1>5
<1> QED BY <1>6, <1>7, <1>8

-----------------------------------------------------------------------------
(* What is between two places is what the handler on top carries there.     *)

LEMMA OnlyLastLaid ==
  ASSUME NEW n \in Nat, NEW c \in [1..n -> Seq(Octet)],
         \A i \in 1..n - 1 : c[i] = <<>>
  PROVE  FlattenSeq(c) = IF n = 0 THEN <<>> ELSE c[n]
<1>1. c \in Seq(Seq(Octet)) /\ Len(c) = n
  BY SeqDef, LenProperties
<1>2. CASE n = 0
  <2>1. c = <<>>
    BY <1>1, <1>2, EmptySeq
  <2> QED BY <1>2, <2>1, FlattenEmpty
<1>3. CASE n # 0
  <2>1. c # <<>>
    BY <1>1, <1>3, EmptySeq
  <2> QED BY <1>1, <1>3, <2>1, FlattenOnlyLast
<1> QED BY <1>2, <1>3

LEMMA BetweenIsTop ==
  ASSUME PipeInv, OnlyTop(stack), NEW dir, NEW S
  PROVE  Between(dir, S) =
           IF stack # <<>> /\ Top.dir = dir /\ Top.at \in S
           THEN CarriedAt(Top, Chunking) ELSE <<>>
<1>1. PICK n : n = Len(stack)
  OBVIOUS
<1>2. /\ n \in Nat /\ stack \in Seq(Frame(stages)) /\ (stack = <<>> <=> n = 0)
      /\ n # 0 => n \in 1..n
  BY <1>1, EmptySeq, LenProperties DEF PipeInv, StackOK
<1>3. PICK c : c = [i \in 1..n |-> IF stack[i].dir = dir /\ stack[i].at \in S
                                   THEN CarriedAt(stack[i], Chunking) ELSE <<>>]
  OBVIOUS
<1>4. Between(dir, S) = FlattenSeq(c)
  <2>1. c = [i \in 1..Len(stack) |-> IF stack[i].dir = dir /\ stack[i].at \in S
                                     THEN Carried(stack[i]) ELSE <<>>]
    BY <1>1, <1>3 DEF Carried, CarriedAt
  <2> QED BY <2>1 DEF Between
<1>5. c \in [1..n -> Seq(Octet)]
  <2>1. ASSUME NEW i \in 1..n
        PROVE  (IF stack[i].dir = dir /\ stack[i].at \in S
                THEN CarriedAt(stack[i], Chunking) ELSE <<>>) \in Seq(Octet)
    <3>1. stack[i] \in Frame(stages)
      BY <1>1, <1>2, ElementOfSeq
    <3>2. IsByteBuf(stack[i].buf)
      BY <3>1 DEF Frame, Bufs
    <3>3. CarriedAt(stack[i], Chunking) \in Seq(Octet) /\ <<>> \in Seq(Octet)
      BY <3>2, CarriedTyped, EmptySeq
    <3> QED BY <3>3
  <2> QED BY <1>3, <2>1
<1>6. \A i \in 1..n - 1 : c[i] = <<>>
  <2>1. ASSUME NEW i \in 1..n - 1 PROVE c[i] = <<>>
    <3>1. i \in 1..n /\ stack[i].pc # "called"
      BY <1>1, <1>2 DEF OnlyTop
    <3>2. CarriedAt(stack[i], Chunking) = <<>>
      BY <3>1 DEF CarriedAt
    <3> QED BY <1>3, <3>1, <3>2
  <2> QED BY <2>1
<1>7. FlattenSeq(c) = IF n = 0 THEN <<>> ELSE c[n]
  BY <1>2, <1>5, <1>6, OnlyLastLaid
<1>8. n # 0 => c[n] = IF Top.dir = dir /\ Top.at \in S
                      THEN CarriedAt(Top, Chunking) ELSE <<>>
  BY <1>1, <1>2, <1>3 DEF Top
<1> QED BY <1>2, <1>4, <1>7, <1>8

(* In the terms of the order: the place a frame is at is one of the stages. *)
LEMMA BetweenIsCarried ==
  ASSUME PipeInv, OnlyTop(stack), NEW k, k = Chunking, k \in 1..Len(stages)
  PROVE  /\ Between("inbound", k + 1..Len(stages)) = Past(stack, k)
         /\ Between("inbound", 1..k) = Upto(stack, k)
         /\ Between("outbound", 1..Len(stages)) = Outward(stack, k)
<1>1. stack # <<>> => Top = stack[Len(stack)] /\ Top.at \in 1..Len(stages)
  <2>1. SUFFICES ASSUME stack # <<>>
                 PROVE  Top = stack[Len(stack)] /\ Top.at \in 1..Len(stages)
    OBVIOUS
  <2>2. Top \in Frame(stages) /\ Top = stack[Len(stack)]
    BY <2>1, TopIsFrame DEF Idle
  <2> QED BY <2>2 DEF Frame
<1>2. Len(stages) \in Nat
  BY LenProperties DEF PipeInv
<1>3. /\ stack # <<>> => (Top.at \in k + 1..Len(stages) <=> Top.at > k)
      /\ stack # <<>> => (Top.at \in 1..k <=> Top.at <= k)
  BY <1>1, <1>2
<1>4. Between("inbound", k + 1..Len(stages)) = Past(stack, k)
  BY <1>1, <1>3, BetweenIsTop DEF Past
<1>5. Between("inbound", 1..k) = Upto(stack, k)
  BY <1>1, <1>3, BetweenIsTop DEF Upto
<1>6. Between("outbound", 1..Len(stages)) = Outward(stack, k)
  BY <1>1, BetweenIsTop DEF Outward
<1> QED BY <1>4, <1>5, <1>6

-----------------------------------------------------------------------------
(* Chunks with their headers.                                              *)

LEMMA FramedAllTyped ==
  ASSUME NEW g \in Seq(Seq(Octet))
  PROVE  FramedAll(g) \in Seq(Octet)
<1>1. PICK c : c = [i \in 1..Len(g) |-> Framed(g[i])]
  OBVIOUS
<1>2. \A i \in 1..Len(g) : Framed(g[i]) \in Seq(Octet)
  BY ElementOfSeq, FramedTyped
<1>3. Len(g) \in Nat
  BY LenProperties
<1>4. c \in [1..Len(g) -> Seq(Octet)]
  BY <1>1, <1>2
<1>5. c \in Seq(Seq(Octet))
  BY <1>3, <1>4, SeqDef
<1> QED BY <1>1, <1>5, FlattenTyped DEF FramedAll

LEMMA FramedAllEmpty == FramedAll(<<>>) = <<>>
<1>1. PICK c : c = [i \in 1..Len(<<>>) |-> Framed(<<>>[i])]
  OBVIOUS
<1>2. Len(<<>>) = 0 /\ 0 \in Nat
  BY EmptySeq
<1>3. c \in [1..0 -> Seq(Octet)] /\ \A i \in 1..0 - 1 : c[i] = <<>>
  BY <1>1, <1>2
<1>4. FlattenSeq(c) = <<>>
  BY <1>2, <1>3, OnlyLastLaid
<1> QED BY <1>1, <1>4 DEF FramedAll

LEMMA FramedAllAppend ==
  ASSUME NEW g \in Seq(Seq(Octet)), NEW c \in Seq(Octet)
  PROVE  FramedAll(Append(g, c)) = Cat(FramedAll(g), Framed(c))
<1>1. PICK h : h = Append(g, c)
  OBVIOUS
<1>2. /\ h \in Seq(Seq(Octet)) /\ Len(h) = Len(g) + 1 /\ Len(g) \in Nat
      /\ \A i \in 1..Len(g) : h[i] = g[i]
      /\ h[Len(g) + 1] = c
  BY <1>1, AppendProperties, LenProperties
<1>3. PICK u, v : /\ u = [i \in 1..Len(g) |-> Framed(g[i])]
                  /\ v = [i \in 1..Len(h) |-> Framed(h[i])]
  OBVIOUS
<1>4. u \in Seq(Seq(Octet)) /\ Len(u) = Len(g) /\ Framed(c) \in Seq(Octet)
  <2>1. \A i \in 1..Len(g) : Framed(g[i]) \in Seq(Octet)
    BY ElementOfSeq, FramedTyped
  <2>2. u \in [1..Len(g) -> Seq(Octet)]
    BY <1>3, <2>1
  <2>3. u \in Seq(Seq(Octet))
    <3>1. PICK n : n = Len(g)
      OBVIOUS
    <3>2. n \in Nat /\ u \in [1..n -> Seq(Octet)]
      BY <1>2, <2>2, <3>1
    <3> QED BY <3>2, SeqDef
  <2> QED BY <1>2, <2>2, <2>3, FramedTyped, LenProperties
<1>5. v \in Seq(Seq(Octet)) /\ Len(v) = Len(h)
  <2>1. \A i \in 1..Len(h) : Framed(h[i]) \in Seq(Octet)
    BY <1>2, ElementOfSeq, FramedTyped
  <2>2. v \in [1..Len(h) -> Seq(Octet)]
    BY <1>3, <2>1
  <2>3. v \in Seq(Seq(Octet))
    <3>1. PICK n : n = Len(h)
      OBVIOUS
    <3>2. n \in Nat /\ v \in [1..n -> Seq(Octet)]
      BY <1>2, <2>2, <3>1
    <3> QED BY <3>2, SeqDef
  <2> QED BY <1>2, <2>2, <2>3, LenProperties
<1>6. PICK w, x : x = Framed(c) /\ w = Append(u, x)
  OBVIOUS
<1>7. /\ w \in Seq(Seq(Octet)) /\ Len(w) = Len(g) + 1
      /\ \A i \in 1..Len(g) : w[i] = u[i]
      /\ w[Len(g) + 1] = x
  <2>1. w \in Seq(Seq(Octet)) /\ Len(w) = Len(u) + 1
    BY <1>4, <1>6, AppendProperties
  <2>2. \A i \in 1..Len(u) : w[i] = u[i]
    BY <1>4, <1>6, AppendProperties
  <2>3. w[Len(u) + 1] = x
    BY <1>4, <1>6, AppendProperties
  <2> QED BY <1>4, <2>1, <2>2, <2>3
<1>8. \A i \in 1..Len(g) + 1 : v[i] = w[i]
  <2>1. ASSUME NEW i \in 1..Len(g) PROVE v[i] = w[i]
    <3>1. i \in 1..Len(h)
      BY <1>2
    <3> QED BY <1>2, <1>3, <1>7, <3>1
  <2>2. v[Len(g) + 1] = w[Len(g) + 1]
    <3>1. Len(g) + 1 \in 1..Len(h)
      BY <1>2
    <3> QED BY <1>2, <1>3, <1>6, <1>7, <3>1
  <2>3. \A i \in 1..Len(g) + 1 : i \in 1..Len(g) \/ i = Len(g) + 1
    BY <1>2
  <2> QED BY <2>1, <2>2, <2>3
<1>9. v = w
  BY <1>2, <1>5, <1>7, <1>8, SeqEqual
<1>10. FlattenSeq(v) = FlattenSeq(u) \o x
  BY <1>4, <1>6, <1>9, FlattenAppend
<1> QED BY <1>1, <1>3, <1>6, <1>10 DEF FramedAll, Cat

-----------------------------------------------------------------------------
(* The order, and what it takes to see that it is kept.                    *)

Pend(p) == IF p = 0 THEN <<>> ELSE UI32Bytes(p)

(* n bytes have come; g is what the application has been given, p the length *)
(* the Chunker keeps, b and r what its buffer and the transport's hold.      *)
InOrder(n, g, s, k, p, b, r) ==
  SubSeq(Incoming, 1, n) =
    Cat(FramedAll(g), Cat(Past(s, k), Cat(Pend(p), Cat(Readable(b),
      Cat(Upto(s, k), Readable(r))))))

(* w is on the wire and b waits to be written. *)
OutOrder(g, w, b, s, k) ==
  FramedAll(g) = Cat(w, Cat(Readable(b), Outward(s, k)))

(* Until the application is there nothing moves. *)
Unused ==
  ~Ready => /\ stack = <<>>
            /\ rbuf = EmptyBuf /\ in = EmptyBuf /\ wbuf = EmptyBuf
            /\ pending = 0 /\ came = 0 /\ wire = <<>> /\ got = <<>>
            /\ refused = FALSE

FlowInv ==
  /\ PipeInv
  /\ Shaped(stages)
  /\ Unused
  /\ OnlyTop(stack)
  /\ WithinLimit(stack, Chunking)
  /\ Ready /\ ~refused => InOrder(came, got, stack, Chunking, pending, in, rbuf)
  /\ OutOrder(got, wire, wbuf, stack, Chunking)

LEMMA PendTyped == ASSUME NEW p \in Nat PROVE Pend(p) \in Seq(Octet)
BY UI32BytesType, EmptySeq DEF Pend

(* The parts of the order are bytes. *)
LEMMA PartsTyped ==
  ASSUME PipeInv, NEW k
  PROVE  /\ FramedAll(got) \in Seq(Octet)
         /\ Past(stack, k) \in Seq(Octet) /\ Upto(stack, k) \in Seq(Octet)
         /\ Outward(stack, k) \in Seq(Octet)
         /\ Pend(pending) \in Seq(Octet)
         /\ Readable(in) \in Seq(Octet) /\ Readable(rbuf) \in Seq(Octet)
         /\ Readable(wbuf) \in Seq(Octet) /\ wire \in Seq(Octet)
<1>1. /\ IsByteBuf(rbuf) /\ IsByteBuf(in) /\ IsByteBuf(wbuf)
      /\ pending \in Nat /\ got \in Seq(Seq(Octet)) /\ wire \in Seq(Octet)
      /\ stack \in Seq(Frame(stages))
  BY PipelineAssumptions DEF PipeInv, StackOK, DataOK
<1> QED BY <1>1, FramedAllTyped, CarriesTyped, PendTyped, ReadableShape

(* A step of a pipeline in use, which leaves its stages alone. *)
LEMMA FlowStep ==
  ASSUME FlowInv, Ready, PipeInv', stages' = stages, NEW k, k = Chunking,
         NEW t, t = stack', OnlyTop(t), WithinLimit(t, k),
         ~refused' => InOrder(came', got', t, k, pending', in', rbuf'),
         OutOrder(got', wire', wbuf', t, k)
  PROVE  FlowInv'
<1>1. Ready'
  BY DEF Ready
<1>2. k = Chunking'
  BY DEF Chunking
<1>3. Shaped(stages')
  BY DEF FlowInv
<1>4. Unused'
  BY <1>1 DEF Unused
<1>5. OnlyTop(stack')
  OBVIOUS
<1>6. WithinLimit(stack', Chunking')
  BY <1>2
<1>7. ~refused' => InOrder(came', got', stack', Chunking', pending', in', rbuf')
  BY <1>2
<1>8. OutOrder(got', wire', wbuf', stack', Chunking')
  BY <1>2
<1> QED BY <1>3, <1>4, <1>5, <1>6, <1>7, <1>8 DEF FlowInv

(* A pipeline where anything happens is ready. *)
LEMMA InUse == ASSUME FlowInv, ~Idle PROVE Ready
BY DEF FlowInv, Unused, Idle

(* The step of a handler that has nothing to do any more. *)
LEMMA LoopEnds ==
  ASSUME FlowInv, ~Idle, Top.pc # "called"
  PROVE  Quiet(stack) /\ Quiet(Returned)
<1>1. stack # <<>> /\ Top = stack[Len(stack)] /\ stack \in Seq(Frame(stages))
  BY TopIsFrame DEF FlowInv, PipeInv, StackOK
<1> QED BY <1>1, FiredIsQuiet, ReturnedIsQuiet DEF FlowInv, Returned

LEMMA CallEnds ==
  ASSUME FlowInv, ~Idle
  PROVE  Quiet(Returned)
<1>1. stack # <<>> /\ stack \in Seq(Frame(stages))
  BY TopIsFrame DEF FlowInv, PipeInv, StackOK
<1> QED BY <1>1, ReturnedIsQuiet DEF FlowInv, Returned

(* A handler that has passed its event on, as it waits. *)
LEMMA GoesOnQuiet ==
  ASSUME FlowInv, ~Idle, NEW b, IsByteBuf(b), NEW pc \in PCs, pc # "called"
  PROVE  Quiet(Continued(b, pc)) /\ Continued(b, pc) \in Seq(Frame(stages))
<1>1. /\ stack # <<>> /\ stack \in Seq(Frame(stages)) /\ OnlyTop(stack)
      /\ Top \in Frame(stages) /\ PipeInv
  BY TopIsFrame DEF FlowInv, PipeInv, StackOK
<1>2. PICK f : f = [Top EXCEPT !.buf = b, !.pc = pc]
  OBVIOUS
<1>3. f \in Frame(stages) /\ f.pc # "called"
  <2>1. b \in Bufs
    BY DEF Bufs, IsByteBuf
  <2> QED BY <1>1, <1>2, <2>1 DEF Frame
<1>4. Quiet(Continued(b, pc))
  BY <1>1, <1>2, <1>3, ContinuedIsQuiet DEF Continued
<1>5. StackOK(Continued(b, pc), stages)
  BY <1>1, ContinuedIsStack
<1> QED BY <1>4, <1>5 DEF StackOK

(* A frame of the stack, as it is called. *)
Called(f, j, dir, b) ==
  f \in Frame(stages) /\ f.at = j /\ f.dir = dir /\ f.buf = b /\ f.pc = "called"

LEMMA CallIsCalled ==
  ASSUME NEW j \in 1..Len(stages), NEW dir \in Dirs, NEW b, IsByteBuf(b)
  PROVE  Called(Call(j, dir, b), j, dir, b)
<1>1. PICK f : f = Call(j, dir, b)
  OBVIOUS
<1>2. f \in Frame(stages)
  BY <1>1, CallIsFrame
<1> QED BY <1>1, <1>2 DEF Called, Call

(* What a handler that is called on the way in carries. *)
LEMMA InCallMeans ==
  ASSUME NEW s \in Seq(Frame(stages)), Quiet(s), Len(stages) \in Nat,
         NEW j \in 1..Len(stages), NEW b, IsByteBuf(b), NEW k \in Nat,
         j > k => ReadableBytes(b) <= Limit
  PROVE  LET t == Append(s, Call(j, "inbound", b))
         IN  /\ OnlyTop(t) /\ WithinLimit(t, k)
             /\ Past(t, k) = IF j > k THEN Framed(Readable(b)) ELSE <<>>
             /\ Upto(t, k) = IF j <= k THEN Readable(b) ELSE <<>>
             /\ Outward(t, k) = <<>>
<1>1. PICK f : f = Call(j, "inbound", b)
  OBVIOUS
<1>2. Called(f, j, "inbound", b)
  BY <1>1, CallIsCalled DEF Dirs
<1>3. FrameOK(f, k)
  BY <1>2 DEF FrameOK, Called
<1>4. PICK t : t = Append(s, f)
  OBVIOUS
<1>5. /\ Past(t, k) = IF f.dir = "inbound" /\ f.at > k THEN CarriedAt(f, k) ELSE <<>>
      /\ Upto(t, k) = IF f.dir = "inbound" /\ f.at <= k THEN CarriedAt(f, k) ELSE <<>>
      /\ Outward(t, k) = IF f.dir = "outbound" THEN CarriedAt(f, k) ELSE <<>>
      /\ OnlyTop(t) /\ WithinLimit(t, k)
  BY <1>2, <1>3, <1>4, CalledCarries DEF Called
<1>6. CarriedAt(f, k) = IF j > k THEN Framed(Readable(b)) ELSE Readable(b)
  BY <1>2 DEF CarriedAt, Called
<1>7. j \in Nat /\ f.dir = "inbound" /\ f.at = j
  BY <1>2 DEF Called
<1>8. /\ OnlyTop(t) /\ WithinLimit(t, k)
      /\ Past(t, k) = IF j > k THEN Framed(Readable(b)) ELSE <<>>
      /\ Upto(t, k) = IF j <= k THEN Readable(b) ELSE <<>>
      /\ Outward(t, k) = <<>>
  BY <1>5, <1>6, <1>7
<1> QED BY <1>1, <1>4, <1>8

(* And on the way out. *)
LEMMA OutCallMeans ==
  ASSUME NEW s \in Seq(Frame(stages)), Quiet(s), Len(stages) \in Nat,
         NEW j \in 1..Len(stages), NEW b, IsByteBuf(b), NEW k \in Nat,
         j >= k => ReadableBytes(b) <= Limit
  PROVE  LET t == Append(s, Call(j, "outbound", b))
         IN  /\ OnlyTop(t) /\ WithinLimit(t, k)
             /\ Past(t, k) = <<>> /\ Upto(t, k) = <<>>
             /\ Outward(t, k) = IF j >= k THEN Framed(Readable(b)) ELSE Readable(b)
<1>1. PICK f : f = Call(j, "outbound", b)
  OBVIOUS
<1>2. Called(f, j, "outbound", b)
  BY <1>1, CallIsCalled DEF Dirs
<1>3. FrameOK(f, k)
  BY <1>2 DEF FrameOK, Called
<1>4. PICK t : t = Append(s, f)
  OBVIOUS
<1>5. /\ Past(t, k) = IF f.dir = "inbound" /\ f.at > k THEN CarriedAt(f, k) ELSE <<>>
      /\ Upto(t, k) = IF f.dir = "inbound" /\ f.at <= k THEN CarriedAt(f, k) ELSE <<>>
      /\ Outward(t, k) = IF f.dir = "outbound" THEN CarriedAt(f, k) ELSE <<>>
      /\ OnlyTop(t) /\ WithinLimit(t, k)
  BY <1>2, <1>3, <1>4, CalledCarries DEF Called
<1>6. CarriedAt(f, k) = IF j >= k THEN Framed(Readable(b)) ELSE Readable(b)
  BY <1>2 DEF CarriedAt, Called
<1>7. f.dir = "outbound"
  BY <1>2 DEF Called
<1>8. /\ OnlyTop(t) /\ WithinLimit(t, k)
      /\ Past(t, k) = <<>> /\ Upto(t, k) = <<>>
      /\ Outward(t, k) = IF j >= k THEN Framed(Readable(b)) ELSE Readable(b)
  BY <1>5, <1>6, <1>7
<1> QED BY <1>1, <1>4, <1>8

(* What the handler on top carries when it has just been called. *)
LEMMA TopMeans ==
  ASSUME FlowInv, ~Idle, Top.pc = "called", NEW k \in Nat, k = Chunking
  PROVE  /\ Past(stack, k) = IF Top.dir = "inbound" /\ Top.at > k
                             THEN Framed(Readable(Top.buf)) ELSE <<>>
         /\ Upto(stack, k) = IF Top.dir = "inbound" /\ Top.at <= k
                             THEN Readable(Top.buf) ELSE <<>>
         /\ Outward(stack, k) = IF Top.dir = "inbound" THEN <<>>
                                ELSE IF Top.at >= k THEN Framed(Readable(Top.buf))
                                ELSE Readable(Top.buf)
         /\ Top.at > k \/ (Top.at = k /\ Top.dir = "outbound") =>
              ReadableBytes(Top.buf) <= Limit
<1>1. /\ stack # <<>> /\ Top = stack[Len(stack)] /\ Top.at \in Nat
      /\ Top.dir = "inbound" \/ Top.dir = "outbound"
  <2>1. /\ stack # <<>> /\ Top = stack[Len(stack)] /\ Top.at \in Nat
        /\ Top \in Frame(stages)
    BY TopIsFrame DEF FlowInv
  <2> QED BY <2>1 DEF Frame, Dirs
<1>2. CarriedAt(Top, k) = IF Top.at > k \/ (Top.at = k /\ Top.dir = "outbound")
                          THEN Framed(Readable(Top.buf)) ELSE Readable(Top.buf)
  BY DEF CarriedAt
<1>3. FrameOK(Top, k)
  BY <1>1 DEF FlowInv, WithinLimit
<1> QED BY <1>1, <1>2, <1>3 DEF Past, Upto, Outward, FrameOK

(* The facts that every step begins with. *)
LEMMA UseFacts ==
  ASSUME FlowInv, Ready, NEW k, k = Chunking
  PROVE  /\ PipeInv /\ stages \in Seq(Types) /\ Shaped(stages)
         /\ stack \in Seq(Frame(stages)) /\ OnlyTop(stack)
         /\ k \in Nat /\ k \in 1..Len(stages) /\ 1 < k /\ k < Len(stages)
         /\ Len(stages) \in Nat
         /\ ~refused => InOrder(came, got, stack, k, pending, in, rbuf)
         /\ OutOrder(got, wire, wbuf, stack, k)
         /\ IsByteBuf(rbuf) /\ IsByteBuf(in) /\ IsByteBuf(wbuf) /\ pending \in Nat
<1>1. stages \in Seq(Types) /\ Shaped(stages) /\ PipeInv /\ OnlyTop(stack)
  BY DEF FlowInv, PipeInv
<1>2. stack \in Seq(Frame(stages))
  BY <1>1 DEF PipeInv, StackOK
<1>3. IsByteBuf(rbuf) /\ IsByteBuf(in) /\ IsByteBuf(wbuf) /\ pending \in Nat
  BY <1>1, PipelineAssumptions DEF PipeInv, DataOK
<1>4. /\ k \in 1..Len(stages) /\ 1 < k /\ k < Len(stages) /\ Len(stages) \in Nat
  BY <1>1, ChunkerInside
<1>5. k \in Nat
  BY <1>4
<1>6. /\ ~refused => InOrder(came, got, stack, k, pending, in, rbuf)
      /\ OutOrder(got, wire, wbuf, stack, k)
  BY DEF FlowInv
<1> QED BY <1>1, <1>2, <1>3, <1>4, <1>5, <1>6

(* The handler that runs and where it is. *)
LEMMA TopPlace ==
  ASSUME FlowInv, ~Idle, NEW k, k = Chunking
  PROVE  /\ Top.at \in 1..Len(stages) /\ IsByteBuf(Top.buf)
         /\ stages[Top.at] = "head" => Top.at = 1
         /\ stages[Top.at] = "chunker" => Top.at = k
         /\ stages[Top.at] = "app" => Top.at = Len(stages)
         /\ stages[Top.at] = "relay" =>
              Top.at > 1 /\ Top.at # k /\ Top.at < Len(stages)
<1>1. Ready
  BY InUse
<1>2. stages \in Seq(Types) /\ Shaped(stages) /\ PipeInv
  BY <1>1, UseFacts
<1>3. Top \in Frame(stages) /\ IsByteBuf(Top.buf)
  BY <1>2, TopIsFrame
<1>4. Top.at \in 1..Len(stages)
  BY <1>3 DEF Frame
<1>5. PICK i \in 1..Len(stages) : i = Top.at
  BY <1>4
<1>6. /\ stages[i] = "head" => i = 1
      /\ stages[i] = "chunker" => i = k
      /\ stages[i] = "app" => i = Len(stages)
      /\ stages[i] = "relay" => i > 1 /\ i # k /\ i < Len(stages)
  BY <1>1, <1>2, StagePlaces
<1> QED BY <1>3, <1>4, <1>5, <1>6

-----------------------------------------------------------------------------
(* The order is kept: the pipeline is built.                               *)

LEMMA NothingMoved ==
  ASSUME NEW k
  PROVE  /\ OnlyTop(<<>>) /\ WithinLimit(<<>>, k)
         /\ InOrder(0, <<>>, <<>>, k, 0, EmptyBuf, EmptyBuf)
         /\ OutOrder(<<>>, <<>>, EmptyBuf, <<>>, k)
<1>1. <<>> \in Seq(Octet) /\ Cat(<<>>, <<>>) = <<>>
  BY EmptySeq, CatEmpty
<1>2. Readable(EmptyBuf) = <<>>
  BY EmptyIsByteBuf
<1>3. SubSeq(Incoming, 1, 0) = <<>>
  BY SubSeqEmpty
<1>4. /\ Past(<<>>, k) = <<>> /\ Upto(<<>>, k) = <<>> /\ Outward(<<>>, k) = <<>>
      /\ Pend(0) = <<>>
  BY DEF Past, Upto, Outward, Pend
<1>5. OnlyTop(<<>>)
  BY EmptySeq DEF OnlyTop
<1>6. WithinLimit(<<>>, k)
  BY DEF WithinLimit
<1>7. InOrder(0, <<>>, <<>>, k, 0, EmptyBuf, EmptyBuf)
  BY <1>1, <1>2, <1>3, <1>4, FramedAllEmpty DEF InOrder
<1>8. OutOrder(<<>>, <<>>, EmptyBuf, <<>>, k)
  BY <1>1, <1>2, <1>4, FramedAllEmpty DEF OutOrder
<1> QED BY <1>5, <1>6, <1>7, <1>8

LEMMA InitFlows == Init => FlowInv
<1> SUFFICES ASSUME Init PROVE FlowInv
  OBVIOUS
<1>1. PipeInv
  BY PipeInvAtFirst
<1>2. /\ stages = <<>> /\ stack = <<>> /\ rbuf = EmptyBuf /\ in = EmptyBuf
      /\ wbuf = EmptyBuf /\ pending = 0 /\ came = 0 /\ wire = <<>> /\ got = <<>>
  BY DEF Init, ConveyorInit
<1>3. refused = FALSE
  BY DEF Init
<1>4. Shaped(stages)
  BY <1>2, EmptySeq DEF Shaped
<1>5. Unused
  BY <1>2, <1>3 DEF Unused
<1>6. /\ OnlyTop(stack) /\ WithinLimit(stack, Chunking)
      /\ InOrder(came, got, stack, Chunking, pending, in, rbuf)
      /\ OutOrder(got, wire, wbuf, stack, Chunking)
  BY <1>2, NothingMoved
<1> QED BY <1>1, <1>4, <1>5, <1>6 DEF FlowInv

LEMMA BuildShapes ==
  ASSUME PipeInv, Shaped(stages), NEW type \in Types, Build(type)
  PROVE  Shaped(stages')
<1>1. PICK n, t : n = Len(stages) /\ t = Append(stages, type)
  OBVIOUS
<1>2. /\ n \in Nat /\ Len(t) = n + 1 /\ t[n + 1] = type
      /\ \A i \in 1..n : t[i] = stages[i]
      /\ (stages = <<>> <=> n = 0)
  BY <1>1, AppendProperties, LenProperties, EmptySeq DEF PipeInv
<1>3. \A i \in 1..Len(t) : i \in 1..n \/ i = n + 1
  BY <1>2
<1>4. /\ type = "head" <=> n = 0
      /\ type = "chunker" => ~Contains(stages, "chunker")
      /\ type = "app" => Contains(stages, "chunker")
      /\ stages' = t /\ ~Ready
  BY <1>1, <1>2 DEF Build, AddLast
<1>5. Contains(stages, "chunker") <=> \E i \in 1..n : stages[i] = "chunker"
  BY <1>1, LenProperties DEF Contains, PipeInv
<1>6. \A i \in 1..n : stages[i] # "app"
  BY <1>1, <1>2, <1>4 DEF Shaped, Ready
<1>7. \A i \in 1..Len(t) : t[i] = "head" <=> i = 1
  <2>1. ASSUME NEW i \in 1..n PROVE t[i] = "head" <=> i = 1
    BY <1>1, <1>2 DEF Shaped
  <2>2. t[n + 1] = "head" <=> n + 1 = 1
    BY <1>2, <1>4
  <2> QED BY <1>3, <2>1, <2>2
<1>8. \A i, j \in 1..Len(t) : t[i] = "chunker" /\ t[j] = "chunker" => i = j
  <2>1. ASSUME NEW i \in 1..n, NEW j \in 1..n, t[i] = "chunker", t[j] = "chunker"
        PROVE  i = j
    BY <1>1, <1>2, <2>1 DEF Shaped
  <2>2. ASSUME NEW i \in 1..n, t[i] = "chunker", t[n + 1] = "chunker" PROVE FALSE
    BY <1>2, <1>4, <1>5, <2>2
  <2> QED BY <1>3, <2>1, <2>2
<1>9. \A i \in 1..Len(t) : t[i] = "app" => i = Len(t)
  BY <1>2, <1>3, <1>6
<1>10. t # <<>> /\ t[Len(t)] = "app" => \E i \in 1..Len(t) : t[i] = "chunker"
  <2>1. SUFFICES ASSUME t[Len(t)] = "app" PROVE \E i \in 1..Len(t) : t[i] = "chunker"
    OBVIOUS
  <2>2. PICK i \in 1..n : stages[i] = "chunker"
    BY <1>2, <1>4, <1>5, <2>1
  <2>3. i \in 1..Len(t) /\ t[i] = "chunker"
    BY <1>2, <2>2
  <2> QED BY <2>3
<1> QED BY <1>4, <1>7, <1>8, <1>9, <1>10 DEF Shaped

LEMMA BuildFlows == ASSUME FlowInv, NEW type \in Types, Build(type) PROVE FlowInv'
<1>1. PipeInv'
  BY BuildKeeps DEF FlowInv
<1>2. Shaped(stages')
  BY BuildShapes DEF FlowInv
<1>3. /\ stack = <<>> /\ rbuf = EmptyBuf /\ in = EmptyBuf /\ wbuf = EmptyBuf
      /\ pending = 0 /\ came = 0 /\ wire = <<>> /\ got = <<>>
      /\ refused = FALSE
  BY DEF FlowInv, Unused, Build
<1>4. /\ stack' = <<>> /\ rbuf' = EmptyBuf /\ in' = EmptyBuf /\ wbuf' = EmptyBuf
      /\ pending' = 0 /\ came' = 0 /\ wire' = <<>> /\ got' = <<>>
  BY <1>3 DEF Build, AddLast, dataVars
<1>5. refused' = FALSE
  BY <1>3 DEF Build, dataVars
<1>6. Unused'
  BY <1>4, <1>5 DEF Unused
<1>7. PICK k : k = Chunking'
  OBVIOUS
<1>8. /\ OnlyTop(<<>>) /\ WithinLimit(<<>>, k)
      /\ InOrder(0, <<>>, <<>>, k, 0, EmptyBuf, EmptyBuf)
      /\ OutOrder(<<>>, <<>>, EmptyBuf, <<>>, k)
  BY NothingMoved
<1>9. OnlyTop(stack') /\ WithinLimit(stack', Chunking')
  BY <1>4, <1>7, <1>8
<1>10. InOrder(came', got', stack', Chunking', pending', in', rbuf')
  BY <1>4, <1>7, <1>8
<1>11. OutOrder(got', wire', wbuf', stack', Chunking')
  BY <1>4, <1>7, <1>8
<1> QED BY <1>1, <1>2, <1>6, <1>9, <1>10, <1>11 DEF FlowInv

-----------------------------------------------------------------------------
(* The order is kept: the transport.                                       *)

(* Something more at the end. *)
LEMMA CatMore ==
  ASSUME NEW S, NEW a \in Seq(S), NEW b \in Seq(S), NEW c \in Seq(S), NEW x \in Seq(S)
  PROVE  Cat(Cat(a, Cat(b, c)), x) = Cat(a, Cat(b, Cat(c, x)))
<1>1. PICK p : p = Cat(b, c)
  OBVIOUS
<1>2. p \in Seq(S)
  BY <1>1, CatTyped
<1>3. Cat(Cat(a, p), x) = Cat(a, Cat(p, x))
  BY <1>2, CatAssoc
<1>4. Cat(p, x) = Cat(b, Cat(c, x))
  BY <1>1, CatAssoc
<1> QED BY <1>1, <1>3, <1>4

LEMMA RecvFlows == ASSUME FlowInv, Recv PROVE FlowInv'
<1>1. PICK n \in 1..Least(ReadMax, Len(Incoming) - came) :
        /\ rbuf' = Write(rbuf, SubSeq(Incoming, came + 1, came + n))
        /\ came' = came + n
  BY DEF Recv
<1>2. PICK k : k = Chunking
  OBVIOUS
<1>3. Ready /\ PipeInv' /\ PipeInv
  BY RecvKeeps DEF Recv, FlowInv
<1>4. /\ stages' = stages /\ stack' = stack /\ in' = in /\ pending' = pending
      /\ wbuf' = wbuf /\ wire' = wire /\ got' = got
  BY DEF Recv, conveyorVars
<1>5. /\ came \in Nat /\ n \in Nat /\ Len(Incoming) \in Nat
      /\ came + n <= Len(Incoming)
  <2>1. came \in 0..Len(Incoming) /\ Len(Incoming) \in Nat /\ ReadMax \in Nat
    BY <1>3, PipelineAssumptions, LenProperties DEF PipeInv, DataOK
  <2> QED BY <1>1, <2>1 DEF Least
<1>6. PICK x : x = SubSeq(Incoming, came + 1, came + n)
  OBVIOUS
<1>7. x \in Seq(Octet)
  <2>1. \A i \in came + 1..came + n : Incoming[i] \in Octet
    BY <1>5, PipelineAssumptions, ElementOfSeq
  <2> QED BY <1>5, <1>6, <2>1, SubSeqProperties
<1>8. SubSeq(Incoming, 1, came + n) = Cat(SubSeq(Incoming, 1, came), x)
  <2>1. 1 \in 1..Len(Incoming) + 1 /\ came \in 1 - 1..Len(Incoming)
        /\ came + n \in came..Len(Incoming)
    BY <1>5
  <2> QED BY <1>6, <2>1, PipelineAssumptions, ConcatAdjacentSubSeq DEF Cat
<1>9. Readable(rbuf') = Cat(Readable(rbuf), x)
  BY <1>1, <1>2, <1>3, <1>6, <1>7, UseFacts, WriteAppends DEF Cat
<1>10. ASSUME ~refused
       PROVE  InOrder(came', got', stack', k, pending', in', rbuf')
  <2>1. PICK g, p, d, i, u, r :
          /\ g = FramedAll(got) /\ p = Past(stack, k) /\ d = Pend(pending)
          /\ i = Readable(in) /\ u = Upto(stack, k) /\ r = Readable(rbuf)
    OBVIOUS
  <2>2. /\ g \in Seq(Octet) /\ p \in Seq(Octet) /\ d \in Seq(Octet)
        /\ i \in Seq(Octet) /\ u \in Seq(Octet) /\ r \in Seq(Octet)
    BY <1>3, <2>1, PartsTyped
  <2>3. SubSeq(Incoming, 1, came) = Cat(g, Cat(p, Cat(d, Cat(i, Cat(u, r)))))
    BY <1>2, <1>3, <1>10, <2>1, UseFacts DEF InOrder
  <2>4. SubSeq(Incoming, 1, came + n)
          = Cat(g, Cat(p, Cat(d, Cat(i, Cat(u, Cat(r, x))))))
    <3>1. Cat(Cat(g, Cat(p, Cat(d, Cat(i, Cat(u, r))))), x)
            = Cat(g, Cat(p, Cat(d, Cat(i, Cat(u, Cat(r, x))))))
      <4>1. PICK y : y = Cat(u, r)
        OBVIOUS
      <4>2. PICK z : z = Cat(d, Cat(i, y))
        OBVIOUS
      <4>3. y \in Seq(Octet) /\ z \in Seq(Octet)
        BY <2>2, <4>1, <4>2, CatTyped
      <4>4. Cat(Cat(g, Cat(p, z)), x) = Cat(g, Cat(p, Cat(z, x)))
        BY <1>7, <2>2, <4>3, CatMore
      <4>5. Cat(z, x) = Cat(d, Cat(i, Cat(y, x)))
        BY <1>7, <2>2, <4>2, <4>3, CatMore
      <4>6. Cat(y, x) = Cat(u, Cat(r, x))
        BY <1>7, <2>2, <4>1, CatAssoc
      <4> QED BY <4>1, <4>2, <4>4, <4>5, <4>6
    <3> QED BY <1>8, <2>3, <3>1
  <2> QED BY <1>1, <1>4, <1>9, <2>1, <2>4 DEF InOrder
<1>11. OutOrder(got', wire', wbuf', stack', k)
  BY <1>2, <1>3, <1>4, UseFacts
<1>12. PICK t : t = stack'
  OBVIOUS
<1>13. OnlyTop(t) /\ WithinLimit(t, k)
  BY <1>2, <1>4, <1>12 DEF FlowInv
<1>14. /\ ~refused' => InOrder(came', got', t, k, pending', in', rbuf')
       /\ OutOrder(got', wire', wbuf', t, k)
  <2>1. refused' = refused
    BY DEF Recv
  <2> QED BY <1>10, <1>11, <1>12, <2>1
<1> QED BY <1>2, <1>3, <1>4, <1>12, <1>13, <1>14, FlowStep

LEMMA InboundFlows == ASSUME FlowInv, Inbound PROVE FlowInv'
<1>1. PICK k : k = Chunking
  OBVIOUS
<1>2. PipeInv' /\ PipeInv /\ stack = <<>>
  BY InboundKeeps DEF Inbound, FlowInv, Idle
<1>3. Ready
  <2>1. SUFFICES ASSUME ~Ready PROVE FALSE
    OBVIOUS
  <2>2. rbuf = EmptyBuf
    BY <2>1 DEF FlowInv, Unused
  <2> QED BY <2>2 DEF Inbound, ReadableBytes, EmptyBuf
<1>4. /\ stack' = FireInboundFrom(1, rbuf, <<>>) /\ rbuf' = EmptyBuf
      /\ stages' = stages /\ in' = in /\ pending' = pending /\ wbuf' = wbuf
      /\ came' = came /\ wire' = wire /\ got' = got
  BY DEF Inbound
<1>5. refused' = refused
  BY DEF Inbound
<1>6. PICK t : t = stack'
  OBVIOUS
<1>7. k \in Nat /\ 1 < k /\ Len(stages) \in Nat /\ 1 \in 1..Len(stages)
  <2>1. k \in Nat /\ 1 < k /\ Len(stages) \in Nat /\ k < Len(stages)
    BY <1>1, <1>3, UseFacts
  <2> QED BY <2>1
<1>8. PICK j \in 1..Len(stages) :
        /\ FireInboundFrom(1, rbuf, <<>>) = Append(<<>>, Call(j, "inbound", rbuf))
        /\ j >= 1 /\ (1 <= k => j <= k)
  BY <1>1, <1>3, <1>7, UseFacts, InboundGoes
<1>9. t = Append(<<>>, Call(j, "inbound", rbuf)) /\ j <= k
  BY <1>4, <1>6, <1>7, <1>8
<1>10. /\ OnlyTop(t) /\ WithinLimit(t, k)
       /\ Past(t, k) = <<>> /\ Upto(t, k) = Readable(rbuf) /\ Outward(t, k) = <<>>
  <2>1. PICK s : s = <<>>
    OBVIOUS
  <2>2. s \in Seq(Frame(stages)) /\ Quiet(s)
    BY <2>1, EmptySeq DEF Quiet
  <2>3. ~(j > k) /\ IsByteBuf(rbuf)
    BY <1>1, <1>3, <1>7, <1>9, UseFacts
  <2>4. LET u == Append(s, Call(j, "inbound", rbuf))
        IN  /\ OnlyTop(u) /\ WithinLimit(u, k)
            /\ Past(u, k) = IF j > k THEN Framed(Readable(rbuf)) ELSE <<>>
            /\ Upto(u, k) = IF j <= k THEN Readable(rbuf) ELSE <<>>
            /\ Outward(u, k) = <<>>
    BY <1>7, <2>2, <2>3, InCallMeans
  <2>5. t = Append(s, Call(j, "inbound", rbuf))
    BY <1>9, <2>1
  <2> QED BY <1>9, <2>3, <2>4, <2>5
<1>11. Past(stack, k) = <<>> /\ Upto(stack, k) = <<>> /\ Outward(stack, k) = <<>>
  BY <1>2 DEF Past, Upto, Outward
<1>12. Cat(Readable(rbuf), <<>>) = Cat(<<>>, Readable(rbuf))
  BY <1>2, PartsTyped, CatEmpty
<1>13. ~refused' => InOrder(came', got', t, k, pending', in', rbuf')
  <2>1. Readable(rbuf') = <<>>
    BY <1>4, EmptyIsByteBuf
  <2>2. ~refused => InOrder(came, got, stack, k, pending, in, rbuf)
    BY <1>1, <1>3, UseFacts
  <2> QED BY <1>4, <1>5, <1>10, <1>11, <1>12, <2>1, <2>2 DEF InOrder
<1>14. OutOrder(got', wire', wbuf', t, k)
  <2>1. OutOrder(got, wire, wbuf, stack, k)
    BY <1>1, <1>3, UseFacts
  <2> QED BY <1>4, <1>10, <1>11, <2>1 DEF OutOrder
<1> QED BY <1>1, <1>2, <1>3, <1>4, <1>6, <1>10, <1>13, <1>14, FlowStep

LEMMA WritevFlows == ASSUME FlowInv, Writev PROVE FlowInv'
<1>1. PICK n \in 1..ReadableBytes(wbuf) :
        /\ wire' = wire \o SubSeq(Readable(wbuf), 1, n)
        /\ wbuf' = Advance(wbuf, n)
  BY DEF Writev
<1>2. PICK k : k = Chunking
  OBVIOUS
<1>3. PipeInv' /\ PipeInv
  BY WritevKeeps DEF FlowInv
<1>4. Ready
  <2>1. SUFFICES ASSUME ~Ready PROVE FALSE
    OBVIOUS
  <2>2. wbuf = EmptyBuf
    BY <2>1 DEF FlowInv, Unused
  <2> QED BY <2>2 DEF Writev, InWriteLoop, ReadableBytes, EmptyBuf
<1>5. /\ stages' = stages /\ stack' = stack /\ in' = in /\ pending' = pending
      /\ rbuf' = rbuf /\ came' = came /\ got' = got
  BY DEF Writev, conveyorVars
<1>6. refused' = refused
  BY DEF Writev
<1>7. PICK x, y : x = Peek(wbuf, n) /\ y = Readable(wbuf')
  OBVIOUS
<1>8. /\ x \in Seq(Octet) /\ y \in Seq(Octet) /\ Readable(wbuf) = Cat(x, y)
      /\ Len(x) = n /\ n \in Nat
  <2>1. IsByteBuf(wbuf) /\ n \in Nat /\ ReadableBytes(wbuf) \in Nat /\ n <= ReadableBytes(wbuf)
    BY <1>2, <1>4, UseFacts, BufShape
  <2>2. Least(n, ReadableBytes(wbuf)) = n
    BY <2>1 DEF Least
  <2>3. /\ Peek(wbuf, n) \in Seq(Octet) /\ Len(Peek(wbuf, n)) = n
        /\ Readable(wbuf) = Peek(wbuf, n) \o Readable(Advance(wbuf, n))
        /\ IsByteBuf(Advance(wbuf, n))
    BY <2>1, <2>2, AdvanceDrops
  <2>4. Readable(Advance(wbuf, n)) \in Seq(Octet)
    BY <2>3, ReadableShape
  <2> QED BY <1>1, <1>7, <2>1, <2>3, <2>4 DEF Cat
<1>9. SubSeq(Readable(wbuf), 1, n) = x
  <2>1. PICK z : z = Cat(x, y)
    OBVIOUS
  <2>2. z \in Seq(Octet) /\ Len(z) = Len(x) + Len(y)
    BY <1>8, <2>1, CatTyped, CatLen
  <2>3. n <= Len(z)
    BY <1>8, <2>2, LenProperties
  <2>4. /\ SubSeq(z, 1, n) \in Seq(Octet) /\ Len(SubSeq(z, 1, n)) = n
        /\ z = SubSeq(z, 1, n) \o SubSeq(z, n + 1, Len(z))
        /\ SubSeq(z, n + 1, Len(z)) \in Seq(Octet)
    BY <1>8, <2>2, <2>3, Cut
  <2>5. \A i \in 1..n : SubSeq(z, 1, n)[i] = x[i]
    <3>1. ASSUME NEW i \in 1..n PROVE SubSeq(z, 1, n)[i] = x[i]
      <4>1. z[i] = x[i]
        BY <1>8, <2>1, CatFirst
      <4>2. PICK q, r : q = SubSeq(z, 1, n) /\ r = SubSeq(z, n + 1, Len(z))
        OBVIOUS
      <4>3. /\ q \in Seq(Octet) /\ r \in Seq(Octet) /\ Len(q) = n /\ z = Cat(q, r)
            /\ i \in 1..Len(q)
        BY <2>4, <4>2 DEF Cat
      <4>4. z[i] = q[i]
        BY <4>3, CatFirst
      <4> QED BY <4>1, <4>2, <4>4
    <3> QED BY <3>1
  <2>6. SubSeq(z, 1, n) = x
    BY <1>8, <2>4, <2>5, SeqEqual
  <2> QED BY <1>8, <2>1, <2>6
<1>10. OutOrder(got', wire', wbuf', stack', k)
  <2>1. PICK w, o : w = wire /\ o = Outward(stack, k)
    OBVIOUS
  <2>2. w \in Seq(Octet) /\ o \in Seq(Octet)
    BY <1>3, <2>1, PartsTyped
  <2>3. FramedAll(got) = Cat(w, Cat(Cat(x, y), o))
    BY <1>2, <1>4, <1>8, <2>1, UseFacts DEF OutOrder
  <2>4. Cat(Cat(x, y), o) = Cat(x, Cat(y, o))
    BY <1>8, <2>2, CatAssoc
  <2>5. PICK p : p = Cat(y, o)
    OBVIOUS
  <2>6. p \in Seq(Octet)
    BY <1>8, <2>2, <2>5, CatTyped
  <2>7. Cat(w, Cat(x, p)) = Cat(Cat(w, x), p)
    BY <1>8, <2>2, <2>6, CatAssoc
  <2>8. wire' = Cat(w, x)
    BY <1>1, <1>9, <2>1 DEF Cat
  <2> QED BY <1>5, <1>7, <2>1, <2>3, <2>4, <2>5, <2>7, <2>8 DEF OutOrder
<1>11. PICK t : t = stack'
  OBVIOUS
<1>12. OnlyTop(t) /\ WithinLimit(t, k)
  BY <1>2, <1>5, <1>11 DEF FlowInv
<1>13. /\ ~refused' => InOrder(came', got', t, k, pending', in', rbuf')
       /\ OutOrder(got', wire', wbuf', t, k)
  BY <1>2, <1>4, <1>5, <1>6, <1>10, <1>11, UseFacts
<1> QED BY <1>2, <1>3, <1>4, <1>5, <1>11, <1>12, <1>13, FlowStep

-----------------------------------------------------------------------------
(* The order is kept: handlers that pass on what they have got.            *)

LEMMA SameCarried ==
  ASSUME FlowInv, Ready, PipeInv', stages' = stages, UNCHANGED dataVars,
         NEW k, k = Chunking, NEW t, t = stack', OnlyTop(t), WithinLimit(t, k),
         Past(t, k) = Past(stack, k), Upto(t, k) = Upto(stack, k),
         Outward(t, k) = Outward(stack, k)
  PROVE  FlowInv'
<1>1. /\ rbuf' = rbuf /\ in' = in /\ pending' = pending /\ wbuf' = wbuf
      /\ came' = came /\ wire' = wire /\ got' = got
  BY DEF dataVars
<1>2. refused' = refused
  BY DEF dataVars
<1>3. /\ ~refused => InOrder(came, got, stack, k, pending, in, rbuf)
      /\ OutOrder(got, wire, wbuf, stack, k)
  BY UseFacts
<1>4. ~refused' => InOrder(came', got', t, k, pending', in', rbuf')
  BY <1>1, <1>2, <1>3 DEF InOrder
<1>5. OutOrder(got', wire', wbuf', t, k)
  BY <1>1, <1>3 DEF OutOrder
<1> QED BY <1>4, <1>5, FlowStep

(* A handler that has nothing to do any more returns. *)
LEMMA ReturnFlows ==
  ASSUME FlowInv, ~Idle, Top.pc # "called", PipeInv', stack' = Returned,
         stages' = stages, UNCHANGED dataVars
  PROVE  FlowInv'
<1>1. PICK k, t : k = Chunking /\ t = stack'
  OBVIOUS
<1>2. Ready
  BY InUse
<1>3. Quiet(stack) /\ Quiet(t)
  BY <1>1, LoopEnds
<1>4. stack \in Seq(Frame(stages)) /\ t \in Seq(Frame(stages))
  <2>1. PipeInv
    BY DEF FlowInv
  <2>2. StackOK(Returned, stages)
    BY <2>1, ReturnedIsStack
  <2> QED BY <1>1, <2>1, <2>2 DEF PipeInv, StackOK
<1>5. /\ Past(stack, k) = <<>> /\ Upto(stack, k) = <<>> /\ Outward(stack, k) = <<>>
  BY <1>3, <1>4, QuietCarries
<1>6. /\ Past(t, k) = <<>> /\ Upto(t, k) = <<>> /\ Outward(t, k) = <<>>
      /\ OnlyTop(t) /\ WithinLimit(t, k)
  BY <1>3, <1>4, QuietCarries
<1> QED BY <1>1, <1>2, <1>5, <1>6, SameCarried

LEMMA DoneFlows == ASSUME FlowInv, Done PROVE FlowInv'
<1>1. PipeInv'
  BY DoneKeeps DEF FlowInv
<1>2. ~Idle /\ Top.pc # "called" /\ stack' = Returned /\ stages' = stages
  BY DEF Done
<1>3. UNCHANGED dataVars
  BY DEF Done
<1> QED BY <1>1, <1>2, <1>3, ReturnFlows

LEMMA RelayFlows == ASSUME FlowInv, Relay PROVE FlowInv'
<1>1. PICK k, t : k = Chunking /\ t = stack'
  OBVIOUS
<1>2. ~Idle /\ Top.pc = "called" /\ stages[Top.at] = "relay"
  BY DEF Relay, Runs
<1>3. Ready
  BY <1>2, InUse
<1>4. PipeInv' /\ stages' = stages /\ UNCHANGED dataVars
  BY RelayKeeps DEF Relay, FlowInv
<1>5. PICK p, b, c : p = Top.at /\ b = Top.buf /\ c = Continued(Top.buf, "fired")
  OBVIOUS
<1>6. /\ p \in 1..Len(stages) /\ IsByteBuf(b) /\ p > 1 /\ p # k /\ p < Len(stages)
  BY <1>1, <1>2, <1>5, TopPlace
<1>7. Quiet(c) /\ c \in Seq(Frame(stages))
  BY <1>2, <1>5, <1>6, GoesOnQuiet DEF PCs
<1>8. /\ k \in Nat /\ Len(stages) \in Nat /\ stages \in Seq(Types) /\ Shaped(stages)
      /\ p \in Nat
  BY <1>1, <1>3, <1>6, UseFacts
<1>9. /\ Past(stack, k) = IF Top.dir = "inbound" /\ p > k THEN Framed(Readable(b)) ELSE <<>>
      /\ Upto(stack, k) = IF Top.dir = "inbound" /\ p <= k THEN Readable(b) ELSE <<>>
      /\ Outward(stack, k) = IF Top.dir = "inbound" THEN <<>>
                             ELSE IF p >= k THEN Framed(Readable(b)) ELSE Readable(b)
      /\ p > k => ReadableBytes(b) <= Limit
  BY <1>1, <1>2, <1>5, <1>8, TopMeans
<1>10. CASE /\ Top.dir = "inbound"
            /\ stack' = FireInbound(Top.buf, Continued(Top.buf, "fired"))
  <2>1. p + 1 \in 1..Len(stages)
    BY <1>6, <1>8
  <2>2. PICK j \in 1..Len(stages) :
          /\ FireInboundFrom(p + 1, b, c) = Append(c, Call(j, "inbound", b))
          /\ j >= p + 1 /\ (p + 1 <= k => j <= k)
    BY <1>1, <1>3, <1>6, <1>8, <2>1, InboundGoes
  <2>3. t = Append(c, Call(j, "inbound", b))
    BY <1>1, <1>5, <1>10, <2>2 DEF FireInbound
  <2>4. j > k <=> p > k
    BY <1>6, <1>8, <2>2
  <2>5. j > k => ReadableBytes(b) <= Limit
    BY <1>9, <2>4
  <2>6. LET u == Append(c, Call(j, "inbound", b))
        IN  /\ OnlyTop(u) /\ WithinLimit(u, k)
            /\ Past(u, k) = IF j > k THEN Framed(Readable(b)) ELSE <<>>
            /\ Upto(u, k) = IF j <= k THEN Readable(b) ELSE <<>>
            /\ Outward(u, k) = <<>>
    BY <1>6, <1>7, <1>8, <2>5, InCallMeans
  <2>7. j <= k <=> p <= k
    BY <1>8, <2>4
  <2>8. /\ OnlyTop(t) /\ WithinLimit(t, k)
        /\ Past(t, k) = Past(stack, k) /\ Upto(t, k) = Upto(stack, k)
        /\ Outward(t, k) = Outward(stack, k)
    BY <1>9, <1>10, <2>3, <2>4, <2>6, <2>7
  <2> QED BY <1>1, <1>3, <1>4, <2>8, SameCarried
<1>11. CASE /\ Top.dir = "outbound"
            /\ stack' = FireOutbound(Top.buf, Continued(Top.buf, "fired"))
  <2>1. p - 1 \in 1..Len(stages)
    BY <1>6, <1>8
  <2>2. PICK j \in 1..Len(stages) :
          /\ FireOutboundFrom(p - 1, b, c) = Append(c, Call(j, "outbound", b))
          /\ j <= p - 1 /\ (p - 1 >= k => j >= k)
    BY <1>1, <1>3, <1>6, <1>8, <2>1, OutboundGoes
  <2>3. t = Append(c, Call(j, "outbound", b))
    BY <1>1, <1>5, <1>11, <2>2 DEF FireOutbound
  <2>4. (j >= k <=> p >= k) /\ (p >= k => p > k)
    BY <1>6, <1>8, <2>2
  <2>5. j >= k => ReadableBytes(b) <= Limit
    BY <1>9, <2>4
  <2>6. LET u == Append(c, Call(j, "outbound", b))
        IN  /\ OnlyTop(u) /\ WithinLimit(u, k)
            /\ Past(u, k) = <<>> /\ Upto(u, k) = <<>>
            /\ Outward(u, k) = IF j >= k THEN Framed(Readable(b)) ELSE Readable(b)
    BY <1>6, <1>7, <1>8, <2>5, OutCallMeans
  <2>7. /\ OnlyTop(t) /\ WithinLimit(t, k)
        /\ Past(t, k) = Past(stack, k) /\ Upto(t, k) = Upto(stack, k)
        /\ Outward(t, k) = Outward(stack, k)
    BY <1>9, <1>11, <2>3, <2>4, <2>6
  <2> QED BY <1>1, <1>3, <1>4, <2>7, SameCarried
<1> QED BY <1>10, <1>11 DEF Relay, Runs

-----------------------------------------------------------------------------
(* The order is kept: the Chunker's way in.                                *)

LEMMA PeekAll ==
  ASSUME NEW b, IsByteBuf(b) PROVE Peek(b, ReadableBytes(b)) = Readable(b)
<1>1. b.r \in Nat /\ b.w \in Nat /\ b.r <= b.w
  BY BufShape
<1>2. b.r + Least(ReadableBytes(b), ReadableBytes(b)) = b.w
  BY <1>1 DEF Least, ReadableBytes
<1> QED BY <1>2 DEF Peek, Readable

LEMMA ChunkerTakesFlows == ASSUME FlowInv, ChunkerTakes PROVE FlowInv'
<1>1. PICK k, t : k = Chunking /\ t = stack'
  OBVIOUS
<1>2. /\ ~Idle /\ Top.pc = "called" /\ Top.dir = "inbound"
      /\ stages[Top.at] = "chunker"
  BY DEF ChunkerTakes, Runs
<1>3. Ready /\ PipeInv /\ PipeInv'
  <2>1. ChunkerIn
    BY DEF ChunkerIn
  <2> QED BY <1>2, <2>1, InUse, ChunkerInKeeps DEF FlowInv
<1>4. PICK b, m : b = Top.buf /\ m = Transfer(Top.buf, in, ReadableBytes(Top.buf))
  OBVIOUS
<1>5. in' = m.dst /\ t = Continued(m.src, "loop")
  BY <1>1, <1>4 DEF ChunkerTakes
<1>6. /\ stages' = stages /\ rbuf' = rbuf /\ pending' = pending /\ wbuf' = wbuf
      /\ came' = came /\ wire' = wire /\ got' = got
  BY DEF ChunkerTakes
<1>7. refused' = refused
  BY DEF ChunkerTakes
<1>8. Top.at = k /\ IsByteBuf(b) /\ IsByteBuf(in)
  BY <1>1, <1>2, <1>3, <1>4, TopPlace, UseFacts
<1>9. IsByteBuf(m.src) /\ Readable(m.dst) = Cat(Readable(in), Readable(b))
  <2>1. ReadableBytes(b) \in Nat
    BY <1>8, BufShape
  <2>2. /\ IsByteBuf(m.src)
        /\ Readable(m.dst) = Readable(in) \o Peek(b, ReadableBytes(b))
    BY <1>4, <1>8, <2>1, TransferMoves
  <2> QED BY <1>8, <2>2, PeekAll DEF Cat
<1>10. Quiet(t) /\ t \in Seq(Frame(stages))
  BY <1>2, <1>5, <1>9, GoesOnQuiet DEF PCs
<1>11. /\ Past(t, k) = <<>> /\ Upto(t, k) = <<>> /\ Outward(t, k) = <<>>
       /\ OnlyTop(t) /\ WithinLimit(t, k)
  BY <1>10, QuietCarries
<1>12. k \in Nat
  BY <1>1, <1>3, UseFacts
<1>13. /\ Past(stack, k) = <<>> /\ Upto(stack, k) = Readable(b)
       /\ Outward(stack, k) = <<>>
  <2>1. ~(k > k) /\ k <= k
    BY <1>12
  <2> QED BY <1>1, <1>2, <1>4, <1>8, <1>12, <2>1, TopMeans
<1>14. Cat(Cat(Readable(in), Readable(b)), Cat(<<>>, Readable(rbuf)))
         = Cat(Readable(in), Cat(Readable(b), Readable(rbuf)))
  <2>1. PICK i, u, r : i = Readable(in) /\ u = Readable(b) /\ r = Readable(rbuf)
    OBVIOUS
  <2>2. i \in Seq(Octet) /\ u \in Seq(Octet) /\ r \in Seq(Octet)
    BY <1>3, <1>8, <2>1, PartsTyped, ReadableShape
  <2>3. Cat(<<>>, r) = r
    BY <2>2, CatEmpty
  <2>4. Cat(Cat(i, u), r) = Cat(i, Cat(u, r))
    BY <2>2, CatAssoc
  <2> QED BY <2>1, <2>3, <2>4
<1>15. ~refused' => InOrder(came', got', t, k, pending', in', rbuf')
  <2>1. ~refused => InOrder(came, got, stack, k, pending, in, rbuf)
    BY <1>1, <1>3, UseFacts
  <2> QED BY <1>5, <1>6, <1>7, <1>9, <1>11, <1>13, <1>14, <2>1 DEF InOrder
<1>16. OutOrder(got', wire', wbuf', t, k)
  <2>1. OutOrder(got, wire, wbuf, stack, k)
    BY <1>1, <1>3, UseFacts
  <2> QED BY <1>6, <1>11, <1>13, <2>1 DEF OutOrder
<1> QED BY <1>1, <1>3, <1>6, <1>11, <1>15, <1>16, FlowStep

LEMMA ChunkerLacksHeaderFlows ==
  ASSUME FlowInv, ChunkerLacksHeader PROVE FlowInv'
<1>1. PipeInv'
  <2>1. ChunkerIn
    BY DEF ChunkerIn
  <2> QED BY <2>1, ChunkerInKeeps DEF FlowInv
<1>2. ~Idle /\ Top.pc # "called" /\ stack' = Returned /\ stages' = stages
  BY DEF ChunkerLacksHeader, Runs
<1>3. UNCHANGED dataVars
  BY DEF ChunkerLacksHeader
<1> QED BY <1>1, <1>2, <1>3, ReturnFlows

(* Before a turn of the loop nothing is carried; the length it sees and the  *)
(* buffer behind it are what the Chunker keeps.                             *)
LEMMA TurnMeans ==
  ASSUME FlowInv, Turn, NEW k, k = Chunking
  PROVE  /\ ~Idle /\ Ready /\ PipeInv /\ Top.at = k
         /\ Quiet(stack) /\ stack \in Seq(Frame(stages)) /\ Quiet(Returned)
         /\ Returned \in Seq(Frame(stages))
         /\ Past(stack, k) = <<>> /\ Upto(stack, k) = <<>> /\ Outward(stack, k) = <<>>
         /\ Headed.out \in Nat /\ IsByteBuf(Headed.buf)
         /\ Cat(UI32Bytes(Headed.out), Readable(Headed.buf))
              = Cat(Pend(pending), Readable(in))
<1>1. ~Idle /\ Top.pc # "called" /\ stages[Top.at] = "chunker"
  BY DEF Turn, Runs
<1>2. Ready /\ PipeInv
  BY <1>1, InUse DEF FlowInv
<1>3. Top.at = k
  BY <1>1, TopPlace
<1>4. Quiet(stack) /\ Quiet(Returned) /\ stack \in Seq(Frame(stages))
  BY <1>1, <1>2, LoopEnds DEF PipeInv, StackOK
<1>5. Returned \in Seq(Frame(stages))
  BY <1>1, <1>2, ReturnedIsStack DEF StackOK
<1>6. Past(stack, k) = <<>> /\ Upto(stack, k) = <<>> /\ Outward(stack, k) = <<>>
  BY <1>4, QuietCarries
<1>7. Headed.out \in Nat /\ IsByteBuf(Headed.buf)
  BY <1>2, HeadedIsSound
<1>8. Cat(UI32Bytes(Headed.out), Readable(Headed.buf)) = Cat(Pend(pending), Readable(in))
  <2>1. CASE pending # 0
    BY <2>1 DEF Headed, Pend
  <2>2. CASE pending = 0
    <3>1. HasUI32(in) /\ IsByteBuf(in)
      BY <1>2, <2>2 DEF Turn, PipeInv, DataOK
    <3>2. Readable(in) = Cat(UI32Bytes(Headed.out), Readable(Headed.buf))
      BY <2>2, <3>1, ReadUI32Takes DEF Headed, Cat
    <3>3. Pend(pending) = <<>> /\ Readable(in) \in Seq(Octet)
      BY <2>2, <3>1, ReadableShape DEF Pend
    <3> QED BY <3>2, <3>3, CatEmpty
  <2> QED BY <2>1, <2>2
<1> QED BY <1>1, <1>2, <1>3, <1>4, <1>5, <1>6, <1>7, <1>8

LEMMA ChunkerRefusesFlows == ASSUME FlowInv, ChunkerRefuses PROVE FlowInv'
<1>1. PICK k, t : k = Chunking /\ t = stack'
  OBVIOUS
<1>2. PipeInv'
  <2>1. ChunkerIn
    BY DEF ChunkerIn
  <2> QED BY <2>1, ChunkerInKeeps DEF FlowInv
<1>3. Turn /\ t = Returned /\ stages' = stages /\ refused' = TRUE
  BY <1>1 DEF ChunkerRefuses
<1>4. wbuf' = wbuf /\ wire' = wire /\ got' = got
  BY DEF ChunkerRefuses
<1>5. /\ Ready /\ Quiet(t) /\ t \in Seq(Frame(stages)) /\ Outward(stack, k) = <<>>
  BY <1>1, <1>3, TurnMeans
<1>6. Outward(t, k) = <<>> /\ OnlyTop(t) /\ WithinLimit(t, k)
  BY <1>5, QuietCarries
<1>7. OutOrder(got', wire', wbuf', t, k)
  <2>1. OutOrder(got, wire, wbuf, stack, k)
    BY <1>1, <1>5, UseFacts
  <2> QED BY <1>4, <1>5, <1>6, <2>1 DEF OutOrder
<1>8. ~refused' => InOrder(came', got', t, k, pending', in', rbuf')
  BY <1>3
<1> QED BY <1>1, <1>2, <1>3, <1>5, <1>6, <1>7, <1>8, FlowStep

LEMMA ChunkerLacksPayloadFlows ==
  ASSUME FlowInv, ChunkerLacksPayload PROVE FlowInv'
<1>1. PICK k, t : k = Chunking /\ t = stack'
  OBVIOUS
<1>2. PipeInv'
  <2>1. ChunkerIn
    BY DEF ChunkerIn
  <2> QED BY <2>1, ChunkerInKeeps DEF FlowInv
<1>3. /\ Turn /\ t = Returned /\ stages' = stages
      /\ in' = Headed.buf /\ pending' = Headed.out
      /\ ReadableBytes(Headed.buf) < Headed.out
  BY <1>1 DEF ChunkerLacksPayload
<1>4. wbuf' = wbuf /\ wire' = wire /\ got' = got /\ came' = came /\ rbuf' = rbuf
  BY DEF ChunkerLacksPayload
<1>5. refused' = refused
  BY DEF ChunkerLacksPayload
<1>6. /\ Ready /\ PipeInv /\ Quiet(t) /\ t \in Seq(Frame(stages))
      /\ Past(stack, k) = <<>> /\ Upto(stack, k) = <<>> /\ Outward(stack, k) = <<>>
      /\ Headed.out \in Nat /\ IsByteBuf(Headed.buf)
      /\ Cat(UI32Bytes(Headed.out), Readable(Headed.buf))
           = Cat(Pend(pending), Readable(in))
  BY <1>1, <1>3, TurnMeans
<1>7. /\ Past(t, k) = <<>> /\ Upto(t, k) = <<>> /\ Outward(t, k) = <<>>
      /\ OnlyTop(t) /\ WithinLimit(t, k)
  BY <1>6, QuietCarries
<1>8. Pend(pending') = UI32Bytes(Headed.out)
  <2>1. ReadableBytes(Headed.buf) \in Nat
    BY <1>6, BufShape
  <2>2. Headed.out # 0
    BY <1>3, <1>6, <2>1
  <2> QED BY <1>3, <2>2 DEF Pend
<1>9. Cat(Pend(pending'), Cat(Readable(in'), Cat(<<>>, Readable(rbuf))))
        = Cat(Pend(pending), Cat(Readable(in), Cat(<<>>, Readable(rbuf))))
  <2>1. PICK h, d, p, i, r :
          /\ h = UI32Bytes(Headed.out) /\ d = Readable(Headed.buf) /\ p = Pend(pending)
          /\ i = Readable(in) /\ r = Cat(<<>>, Readable(rbuf))
    OBVIOUS
  <2>2. /\ p \in Seq(Octet) /\ i \in Seq(Octet) /\ r \in Seq(Octet)
    <3>1. Readable(rbuf) \in Seq(Octet) /\ <<>> \in Seq(Octet)
      BY <1>6, PartsTyped, EmptySeq
    <3>2. r \in Seq(Octet)
      BY <2>1, <3>1, CatTyped
    <3> QED BY <1>6, <2>1, <3>2, PartsTyped
  <2>3. h \in Seq(Octet) /\ d \in Seq(Octet)
    BY <1>6, <2>1, UI32BytesType, ReadableShape
  <2>4. Cat(h, d) = Cat(p, i)
    BY <1>6, <2>1
  <2>5. Cat(Cat(h, d), r) = Cat(h, Cat(d, r))
    BY <2>2, <2>3, CatAssoc
  <2>6. Cat(Cat(p, i), r) = Cat(p, Cat(i, r))
    BY <2>2, CatAssoc
  <2> QED BY <1>3, <1>8, <2>1, <2>4, <2>5, <2>6
<1>10. ~refused' => InOrder(came', got', t, k, pending', in', rbuf')
  <2>1. ~refused => InOrder(came, got, stack, k, pending, in, rbuf)
    BY <1>1, <1>6, UseFacts
  <2> QED BY <1>4, <1>5, <1>6, <1>7, <1>9, <2>1 DEF InOrder
<1>11. OutOrder(got', wire', wbuf', t, k)
  <2>1. OutOrder(got, wire, wbuf, stack, k)
    BY <1>1, <1>6, UseFacts
  <2> QED BY <1>4, <1>6, <1>7, <2>1 DEF OutOrder
<1> QED BY <1>1, <1>2, <1>3, <1>6, <1>7, <1>10, <1>11, FlowStep

LEMMA ChunkerDeliversFlows == ASSUME FlowInv, ChunkerDelivers PROVE FlowInv'
<1>1. PICK k, t : k = Chunking /\ t = stack'
  OBVIOUS
<1>2. PipeInv'
  <2>1. ChunkerIn
    BY DEF ChunkerIn
  <2> QED BY <2>1, ChunkerInKeeps DEF FlowInv
<1>3. PICK n, e, m : /\ n = Headed.out /\ e = Headed.buf
                     /\ m = Transfer(Headed.buf, EmptyBuf, Headed.out)
  OBVIOUS
<1>4. /\ Turn /\ stages' = stages /\ pending' = 0
      /\ n <= Limit /\ ReadableBytes(e) >= n
      /\ in' = m.src /\ t = FireInbound(m.dst, stack)
  BY <1>1, <1>3 DEF ChunkerDelivers
<1>5. wbuf' = wbuf /\ wire' = wire /\ got' = got /\ came' = came /\ rbuf' = rbuf
  BY DEF ChunkerDelivers
<1>6. refused' = refused
  BY DEF ChunkerDelivers
<1>7. /\ Ready /\ PipeInv /\ Top.at = k /\ Quiet(stack) /\ stack \in Seq(Frame(stages))
      /\ Past(stack, k) = <<>> /\ Upto(stack, k) = <<>> /\ Outward(stack, k) = <<>>
      /\ n \in Nat /\ IsByteBuf(e)
      /\ Cat(UI32Bytes(n), Readable(e)) = Cat(Pend(pending), Readable(in))
  BY <1>1, <1>3, <1>4, TurnMeans
<1>8. PICK x, y : x = Peek(e, n) /\ y = Readable(m.src)
  OBVIOUS
<1>9. /\ x \in Seq(Octet) /\ y \in Seq(Octet) /\ Len(x) = n
      /\ Readable(e) = Cat(x, y) /\ Readable(m.dst) = x
      /\ IsByteBuf(m.dst) /\ ReadableBytes(m.dst) = n
  <2>1. Least(n, ReadableBytes(e)) = n
    BY <1>4, <1>7, BufShape DEF Least
  <2>2. x \in Seq(Octet) /\ Len(x) = n
    BY <1>7, <1>8, <2>1, AdvanceDrops
  <2>3. /\ IsByteBuf(m.src) /\ IsByteBuf(m.dst)
        /\ Readable(m.dst) = Readable(EmptyBuf) \o x
        /\ Readable(e) = x \o y
    BY <1>3, <1>7, <1>8, EmptyIsByteBuf, TransferMoves
  <2>4. Readable(m.dst) = x
    BY <2>2, <2>3, EmptyIsByteBuf, ConcatEmptySeq
  <2>5. ReadableBytes(m.dst) = Len(Readable(m.dst)) /\ y \in Seq(Octet)
    BY <1>8, <2>3, ReadableShape
  <2> QED BY <2>2, <2>3, <2>4, <2>5 DEF Cat
<1>10. /\ k \in Nat /\ Len(stages) \in Nat /\ k < Len(stages)
       /\ stages \in Seq(Types) /\ Shaped(stages) /\ k + 1 \in 1..Len(stages)
  <2>1. /\ k \in Nat /\ Len(stages) \in Nat /\ k < Len(stages)
        /\ stages \in Seq(Types) /\ Shaped(stages)
    BY <1>1, <1>7, UseFacts
  <2> QED BY <2>1
<1>11. PICK j \in 1..Len(stages) :
         /\ FireInboundFrom(k + 1, m.dst, stack) = Append(stack, Call(j, "inbound", m.dst))
         /\ j >= k + 1
  BY <1>1, <1>7, <1>9, <1>10, InboundGoes
<1>12. j > k /\ ReadableBytes(m.dst) <= Limit
  BY <1>4, <1>9, <1>10, <1>11
<1>13. LET u == Append(stack, Call(j, "inbound", m.dst))
       IN  /\ OnlyTop(u) /\ WithinLimit(u, k)
           /\ Past(u, k) = IF j > k THEN Framed(Readable(m.dst)) ELSE <<>>
           /\ Upto(u, k) = IF j <= k THEN Readable(m.dst) ELSE <<>>
           /\ Outward(u, k) = <<>>
  BY <1>7, <1>9, <1>10, <1>12, InCallMeans
<1>14. t = Append(stack, Call(j, "inbound", m.dst)) /\ ~(j <= k)
  BY <1>4, <1>7, <1>10, <1>11, <1>12 DEF FireInbound
<1>15. /\ OnlyTop(t) /\ WithinLimit(t, k)
       /\ Past(t, k) = Framed(x) /\ Upto(t, k) = <<>> /\ Outward(t, k) = <<>>
  BY <1>9, <1>12, <1>13, <1>14
<1>16. Cat(Framed(x), Cat(<<>>, Cat(y, Cat(<<>>, Readable(rbuf)))))
         = Cat(<<>>, Cat(Pend(pending), Cat(Readable(in), Cat(<<>>, Readable(rbuf)))))
  <2>1. PICK h, p, i, r :
          /\ h = UI32Bytes(n) /\ p = Pend(pending)
          /\ i = Readable(in) /\ r = Cat(<<>>, Readable(rbuf))
    OBVIOUS
  <2>2. /\ p \in Seq(Octet) /\ i \in Seq(Octet) /\ r \in Seq(Octet) /\ h \in Seq(Octet)
    <3>1. Readable(rbuf) \in Seq(Octet) /\ <<>> \in Seq(Octet)
      BY <1>7, PartsTyped, EmptySeq
    <3>2. r \in Seq(Octet)
      BY <2>1, <3>1, CatTyped
    <3> QED BY <1>7, <2>1, <3>2, PartsTyped, UI32BytesType
  <2>3. Framed(x) = Cat(h, x)
    BY <1>9, <2>1, FramedTyped
  <2>4. PICK yr, ir : yr = Cat(y, r) /\ ir = Cat(i, r)
    OBVIOUS
  <2>5. yr \in Seq(Octet) /\ ir \in Seq(Octet) /\ Cat(p, ir) \in Seq(Octet)
    BY <1>9, <2>2, <2>4, CatTyped
  <2>6. Cat(<<>>, yr) = yr /\ Cat(<<>>, Cat(p, ir)) = Cat(p, ir)
    BY <2>5, CatEmpty
  <2>7. Cat(Cat(h, x), yr) = Cat(h, Cat(x, yr))
    BY <1>9, <2>2, <2>5, CatAssoc
  <2>8. Cat(Cat(h, Cat(x, y)), r) = Cat(h, Cat(x, Cat(y, r)))
    BY <1>9, <2>2, CatMore
  <2>9. Cat(Cat(p, i), r) = Cat(p, Cat(i, r))
    BY <2>2, CatAssoc
  <2>10. Cat(h, Cat(x, y)) = Cat(p, i)
    BY <1>7, <1>9, <2>1
  <2> QED BY <2>1, <2>3, <2>4, <2>6, <2>7, <2>8, <2>9, <2>10
<1>17. ~refused' => InOrder(came', got', t, k, pending', in', rbuf')
  <2>1. ~refused => InOrder(came, got, stack, k, pending, in, rbuf)
    BY <1>1, <1>7, UseFacts
  <2>2. Pend(pending') = <<>> /\ Readable(in') = y
    BY <1>4, <1>8 DEF Pend
  <2> QED BY <1>5, <1>6, <1>7, <1>15, <1>16, <2>1, <2>2 DEF InOrder
<1>18. OutOrder(got', wire', wbuf', t, k)
  <2>1. OutOrder(got, wire, wbuf, stack, k)
    BY <1>1, <1>7, UseFacts
  <2> QED BY <1>5, <1>7, <1>15, <2>1 DEF OutOrder
<1> QED BY <1>1, <1>2, <1>4, <1>7, <1>15, <1>17, <1>18, FlowStep

-----------------------------------------------------------------------------
(* The order is kept: the answer's way out.                                *)

LEMMA AppAnswersFlows == ASSUME FlowInv, AppAnswers PROVE FlowInv'
<1>1. PICK k, t, b, c : /\ k = Chunking /\ t = stack' /\ b = Top.buf
                        /\ c = Continued(Top.buf, "fired")
  OBVIOUS
<1>2. /\ ~Idle /\ Top.pc = "called" /\ Top.dir = "inbound" /\ stages[Top.at] = "app"
  BY DEF AppAnswers, Runs
<1>3. Ready /\ PipeInv /\ PipeInv'
  BY <1>2, InUse, AppAnswersKeeps DEF FlowInv
<1>4. /\ got' = Append(got, Readable(b)) /\ t = FireOutbound(b, c)
      /\ stages' = stages /\ rbuf' = rbuf /\ in' = in /\ pending' = pending
      /\ wbuf' = wbuf /\ came' = came /\ wire' = wire
  BY <1>1 DEF AppAnswers
<1>5. refused' = refused
  BY DEF AppAnswers
<1>6. /\ Top.at = Len(stages) /\ IsByteBuf(b)
  BY <1>1, <1>2, TopPlace
<1>7. Quiet(c) /\ c \in Seq(Frame(stages))
  BY <1>1, <1>2, <1>6, GoesOnQuiet DEF PCs
<1>8. PICK n : n = Len(stages) - 1
  OBVIOUS
<1>9. /\ k \in Nat /\ Len(stages) \in Nat /\ k < Len(stages) /\ Len(stages) > k
      /\ stages \in Seq(Types) /\ Shaped(stages) /\ n \in 1..Len(stages) /\ n >= k
  <2>1. /\ k \in Nat /\ Len(stages) \in Nat /\ k < Len(stages) /\ 1 < k
        /\ stages \in Seq(Types) /\ Shaped(stages)
    BY <1>1, <1>3, UseFacts
  <2> QED BY <1>8, <2>1
<1>10. /\ Past(stack, k) = Framed(Readable(b)) /\ Upto(stack, k) = <<>>
       /\ Outward(stack, k) = <<>> /\ ReadableBytes(b) <= Limit
  <2>1. ~(Top.at <= k) /\ Top.at > k
    BY <1>6, <1>9
  <2> QED BY <1>1, <1>2, <1>9, <2>1, TopMeans
<1>11. PICK j \in 1..Len(stages) :
         /\ FireOutboundFrom(n, b, c) = Append(c, Call(j, "outbound", b))
         /\ j <= n /\ (n >= k => j >= k)
  BY <1>1, <1>3, <1>6, <1>9, OutboundGoes
<1>12. t = Append(c, Call(j, "outbound", b)) /\ j >= k
  BY <1>4, <1>6, <1>8, <1>9, <1>11 DEF FireOutbound
<1>13. LET u == Append(c, Call(j, "outbound", b))
       IN  /\ OnlyTop(u) /\ WithinLimit(u, k)
           /\ Past(u, k) = <<>> /\ Upto(u, k) = <<>>
           /\ Outward(u, k) = IF j >= k THEN Framed(Readable(b)) ELSE Readable(b)
  BY <1>6, <1>7, <1>9, <1>10, OutCallMeans
<1>14. /\ OnlyTop(t) /\ WithinLimit(t, k)
       /\ Past(t, k) = <<>> /\ Upto(t, k) = <<>> /\ Outward(t, k) = Framed(Readable(b))
  BY <1>12, <1>13
<1>15. PICK g, f : g = FramedAll(got) /\ f = Framed(Readable(b))
  OBVIOUS
<1>16. g \in Seq(Octet) /\ f \in Seq(Octet) /\ FramedAll(got') = Cat(g, f)
  <2>1. Readable(b) \in Seq(Octet) /\ got \in Seq(Seq(Octet))
    BY <1>3, <1>6, ReadableShape DEF PipeInv, DataOK
  <2> QED BY <1>4, <1>15, <2>1, FramedTyped, FramedAllTyped, FramedAllAppend
<1>17. ~refused' => InOrder(came', got', t, k, pending', in', rbuf')
  <2>1. ~refused => InOrder(came, got, stack, k, pending, in, rbuf)
    BY <1>1, <1>3, UseFacts
  <2>2. PICK z : z = Cat(Pend(pending), Cat(Readable(in), Cat(<<>>, Readable(rbuf))))
    OBVIOUS
  <2>3. z \in Seq(Octet)
    <3>1. /\ Pend(pending) \in Seq(Octet) /\ Readable(in) \in Seq(Octet)
          /\ Readable(rbuf) \in Seq(Octet) /\ <<>> \in Seq(Octet)
      BY <1>3, PartsTyped, EmptySeq
    <3> QED BY <2>2, <3>1, CatTyped
  <2>4. Cat(Cat(g, f), z) = Cat(g, Cat(f, z)) /\ Cat(<<>>, z) = z
    BY <1>16, <2>3, CatAssoc, CatEmpty
  <2> QED BY <1>4, <1>5, <1>10, <1>14, <1>15, <1>16, <2>1, <2>2, <2>4 DEF InOrder
<1>18. OutOrder(got', wire', wbuf', t, k)
  <2>1. PICK w, y : w = wire /\ y = Readable(wbuf)
    OBVIOUS
  <2>2. w \in Seq(Octet) /\ y \in Seq(Octet)
    BY <1>3, <2>1, PartsTyped
  <2>3. g = Cat(w, Cat(y, <<>>))
    BY <1>1, <1>3, <1>10, <1>15, <2>1, UseFacts DEF OutOrder
  <2>4. g = Cat(w, y)
    BY <2>2, <2>3, CatEmpty
  <2>5. Cat(g, f) = Cat(w, Cat(y, f))
    BY <1>16, <2>2, <2>4, CatAssoc
  <2> QED BY <1>4, <1>14, <1>15, <1>16, <2>1, <2>5 DEF OutOrder
<1> QED BY <1>1, <1>3, <1>4, <1>14, <1>17, <1>18, FlowStep

(* What is written behind the header is the chunk. *)
LEMMA WithHeaderFrames ==
  ASSUME NEW b, IsByteBuf(b)
  PROVE  LET m == WithHeader(b)
         IN  /\ IsByteBuf(m.src) /\ IsByteBuf(m.dst)
             /\ Readable(m.dst) = Framed(Readable(b))
<1>1. PICK n, h, m : /\ n = ReadableBytes(b) /\ h = WriteUI32(EmptyBuf, n)
                     /\ m = Transfer(b, h, n)
  OBVIOUS
<1>2. n \in Nat /\ n = Len(Readable(b)) /\ Readable(b) \in Seq(Octet)
  BY <1>1, BufShape, ReadableShape
<1>3. IsByteBuf(h) /\ Readable(h) = UI32Bytes(n)
  <2>1. IsByteBuf(h) /\ Readable(h) = Readable(EmptyBuf) \o UI32Bytes(n)
    BY <1>1, <1>2, EmptyIsByteBuf, WriteUI32Appends
  <2> QED BY <1>2, <2>1, EmptyIsByteBuf, UI32BytesType, ConcatEmptySeq
<1>4. /\ IsByteBuf(m.src) /\ IsByteBuf(m.dst)
      /\ Readable(m.dst) = Readable(h) \o Peek(b, n)
  BY <1>1, <1>2, <1>3, TransferMoves
<1>5. Peek(b, n) = Readable(b)
  BY <1>1, PeekAll
<1>6. Framed(Readable(b)) = UI32Bytes(n) \o Readable(b)
  BY <1>2 DEF Framed
<1>7. m = WithHeader(b)
  BY <1>1 DEF WithHeader
<1>8. Readable(m.dst) = Framed(Readable(b))
  BY <1>3, <1>4, <1>5, <1>6
<1> QED BY <1>4, <1>7, <1>8

LEMMA ChunkerOutFlows == ASSUME FlowInv, ChunkerOut PROVE FlowInv'
<1>1. PICK k, t, b, m : /\ k = Chunking /\ t = stack' /\ b = Top.buf
                        /\ m = WithHeader(Top.buf)
  OBVIOUS
<1>2. /\ ~Idle /\ Top.pc = "called" /\ Top.dir = "outbound"
      /\ stages[Top.at] = "chunker" /\ stages' = stages /\ UNCHANGED dataVars
  BY DEF ChunkerOut, Runs
<1>3. Ready /\ PipeInv /\ PipeInv'
  BY <1>2, InUse, ChunkerOutKeeps DEF FlowInv
<1>4. Top.at = k /\ IsByteBuf(b)
  BY <1>1, <1>2, TopPlace
<1>5. PICK n : n = k - 1
  OBVIOUS
<1>6. /\ k \in Nat /\ Len(stages) \in Nat /\ k >= k
      /\ stages \in Seq(Types) /\ Shaped(stages) /\ n \in 1..Len(stages) /\ n < k
  <2>1. /\ k \in Nat /\ Len(stages) \in Nat /\ k < Len(stages) /\ 1 < k
        /\ stages \in Seq(Types) /\ Shaped(stages)
    BY <1>1, <1>3, UseFacts
  <2> QED BY <1>5, <2>1
<1>7. /\ Past(stack, k) = <<>> /\ Upto(stack, k) = <<>>
      /\ Outward(stack, k) = Framed(Readable(b)) /\ ReadableBytes(b) <= Limit
  BY <1>1, <1>2, <1>4, <1>6, TopMeans
<1>8. /\ IsByteBuf(m.src) /\ IsByteBuf(m.dst)
      /\ Readable(m.dst) = Framed(Readable(b))
  BY <1>1, <1>4, WithHeaderFrames
<1>9. PICK c : c = Continued(m.src, "fired")
  OBVIOUS
<1>10. t = FireOutbound(m.dst, c)
  <2>1. ~(ReadableBytes(b) > Limit)
    BY <1>4, <1>7, BufShape, PipelineAssumptions
  <2> QED BY <1>1, <1>9, <2>1 DEF ChunkerOut
<1>11. Quiet(c) /\ c \in Seq(Frame(stages))
  BY <1>2, <1>8, <1>9, GoesOnQuiet DEF PCs
<1>12. PICK j \in 1..Len(stages) :
         /\ FireOutboundFrom(n, m.dst, c) = Append(c, Call(j, "outbound", m.dst))
         /\ j <= n
  BY <1>1, <1>3, <1>6, <1>8, OutboundGoes
<1>13. t = Append(c, Call(j, "outbound", m.dst)) /\ ~(j >= k)
  BY <1>4, <1>5, <1>6, <1>10, <1>12 DEF FireOutbound
<1>14. LET u == Append(c, Call(j, "outbound", m.dst))
       IN  /\ OnlyTop(u) /\ WithinLimit(u, k)
           /\ Past(u, k) = <<>> /\ Upto(u, k) = <<>>
           /\ Outward(u, k) = IF j >= k THEN Framed(Readable(m.dst))
                              ELSE Readable(m.dst)
  BY <1>6, <1>8, <1>11, <1>13, OutCallMeans
<1>15. /\ OnlyTop(t) /\ WithinLimit(t, k)
       /\ Past(t, k) = Past(stack, k) /\ Upto(t, k) = Upto(stack, k)
       /\ Outward(t, k) = Outward(stack, k)
  BY <1>7, <1>8, <1>13, <1>14
<1> QED BY <1>1, <1>2, <1>3, <1>15, SameCarried

LEMMA HeadWritesFlows == ASSUME FlowInv, HeadWrites PROVE FlowInv'
<1>1. PICK k, t, b : k = Chunking /\ t = stack' /\ b = Top.buf
  OBVIOUS
<1>2. /\ ~Idle /\ Top.pc = "called" /\ Top.dir = "outbound" /\ stages[Top.at] = "head"
  BY DEF HeadWrites, Runs
<1>3. Ready /\ PipeInv /\ PipeInv'
  BY <1>2, InUse, HeadWritesKeeps DEF FlowInv
<1>4. /\ t = Returned /\ stages' = stages /\ rbuf' = rbuf /\ in' = in
      /\ pending' = pending /\ came' = came /\ wire' = wire /\ got' = got
      /\ wbuf' = Transfer(b, wbuf, ReadableBytes(b)).dst
  BY <1>1 DEF HeadWrites
<1>5. refused' = refused
  BY DEF HeadWrites
<1>6. Top.at = 1 /\ IsByteBuf(b) /\ IsByteBuf(wbuf) /\ k \in Nat /\ 1 < k
  BY <1>1, <1>2, <1>3, TopPlace, UseFacts
<1>7. Past(stack, k) = <<>> /\ Upto(stack, k) = <<>> /\ Outward(stack, k) = Readable(b)
  <2>1. ~(1 >= k)
    BY <1>6
  <2> QED BY <1>1, <1>2, <1>6, <2>1, TopMeans
<1>8. Quiet(t) /\ t \in Seq(Frame(stages))
  <2>1. Returned \in Seq(Frame(stages))
    BY <1>2, <1>3, ReturnedIsStack DEF StackOK
  <2> QED BY <1>2, <1>4, <2>1, CallEnds
<1>9. /\ Past(t, k) = <<>> /\ Upto(t, k) = <<>> /\ Outward(t, k) = <<>>
      /\ OnlyTop(t) /\ WithinLimit(t, k)
  BY <1>8, QuietCarries
<1>10. Readable(wbuf') = Cat(Readable(wbuf), Readable(b))
  <2>1. ReadableBytes(b) \in Nat
    BY <1>6, BufShape
  <2>2. Readable(wbuf') = Readable(wbuf) \o Peek(b, ReadableBytes(b))
    BY <1>4, <1>6, <2>1, TransferMoves
  <2> QED BY <1>6, <2>2, PeekAll DEF Cat
<1>11. ~refused' => InOrder(came', got', t, k, pending', in', rbuf')
  <2>1. ~refused => InOrder(came, got, stack, k, pending, in, rbuf)
    BY <1>1, <1>3, UseFacts
  <2> QED BY <1>4, <1>5, <1>7, <1>9, <2>1 DEF InOrder
<1>12. OutOrder(got', wire', wbuf', t, k)
  <2>1. OutOrder(got, wire, wbuf, stack, k)
    BY <1>1, <1>3, UseFacts
  <2>2. Cat(Cat(Readable(wbuf), Readable(b)), <<>>) = Cat(Readable(wbuf), Readable(b))
    <3>1. Readable(wbuf) \in Seq(Octet) /\ Readable(b) \in Seq(Octet)
      BY <1>6, ReadableShape
    <3> QED BY <3>1, CatTyped, CatEmpty
  <2> QED BY <1>4, <1>7, <1>9, <1>10, <2>1, <2>2 DEF OutOrder
<1> QED BY <1>1, <1>3, <1>4, <1>9, <1>11, <1>12, FlowStep

-----------------------------------------------------------------------------
(* The order holds at the start, and every step keeps it. *)
LEMMA FlowInvHolds == Spec => []FlowInv
<1>1. Init => FlowInv
  BY InitFlows
<1>2. FlowInv /\ [Next]_vars => FlowInv'
  <2> SUFFICES ASSUME FlowInv, [Next]_vars PROVE FlowInv'
    OBVIOUS
  <2>1. CASE \E type \in Types : Build(type)
    BY <2>1, BuildFlows
  <2>2. CASE Recv
    BY <2>2, RecvFlows
  <2>3. CASE Inbound
    BY <2>3, InboundFlows
  <2>4. CASE Writev
    BY <2>4, WritevFlows
  <2>5. CASE Relay \/ Done
    BY <2>5, RelayFlows, DoneFlows
  <2>6. CASE ChunkerIn
    BY <2>6, ChunkerTakesFlows, ChunkerLacksHeaderFlows, ChunkerRefusesFlows,
       ChunkerLacksPayloadFlows, ChunkerDeliversFlows DEF ChunkerIn
  <2>7. CASE ChunkerOut \/ AppAnswers \/ HeadWrites
    BY <2>7, ChunkerOutFlows, AppAnswersFlows, HeadWritesFlows
  <2>8. CASE OnWritable \/ WriteBlocks \/ WriteDone \/ UNCHANGED vars
    <3>1. /\ stages' = stages /\ stack' = stack /\ rbuf' = rbuf /\ in' = in
          /\ pending' = pending /\ wbuf' = wbuf /\ came' = came /\ wire' = wire
          /\ got' = got
      BY <2>8, BytesStay DEF conveyorVars, dataVars
    <3>2. refused' = refused
      BY <2>8, BytesStay DEF dataVars
    <3>3. PipeInv'
      BY <3>1, <3>2 DEF FlowInv, PipeInv, DataOK
    <3>4. (Ready' <=> Ready) /\ Chunking' = Chunking
      BY <3>1 DEF Ready, Chunking
    <3>5. Unused'
      BY <3>1, <3>2, <3>4 DEF FlowInv, Unused
    <3> QED BY <3>1, <3>2, <3>3, <3>4, <3>5 DEF FlowInv
  <2> QED BY <2>1, <2>2, <2>3, <2>4, <2>5, <2>6, <2>7, <2>8
        DEF Next, StageStep, WriteLoop
<1> QED BY <1>1, <1>2, PTL DEF Spec

(* conveyor.hpp:114-160, chunker.cpp:12-45: at whatever places recv() cuts     *)
(* what the peer sends, whatever stages look at the bytes on the way, and    *)
(* although the application answers from inside the Chunker's loop, it is    *)
(* given whole chunks in the order they were sent, and the rest is in the    *)
(* stages in that order, until a chunk over the limit has come.             *)
THEOREM ChunksComeInOrder == Spec => []InboundIsInOrder
<1>1. FlowInv => InboundIsInOrder
  <2> SUFFICES ASSUME FlowInv, Ready, ~refused
               PROVE  SubSeq(Incoming, 1, came) =
                        FramedAll(got) \o Between("inbound", Chunking + 1..Len(stages))
                          \o (IF pending = 0 THEN <<>> ELSE UI32Bytes(pending))
                          \o Readable(in)
                          \o Between("inbound", 1..Chunking) \o Readable(rbuf)
    BY DEF InboundIsInOrder
  <2>1. PICK k : k = Chunking
    OBVIOUS
  <2>2. /\ PipeInv /\ OnlyTop(stack) /\ k \in 1..Len(stages)
        /\ InOrder(came, got, stack, k, pending, in, rbuf)
    BY <2>1, UseFacts
  <2>3. PICK g, p, d, i, u, r :
          /\ g = FramedAll(got) /\ p = Past(stack, k) /\ d = Pend(pending)
          /\ i = Readable(in) /\ u = Upto(stack, k) /\ r = Readable(rbuf)
    OBVIOUS
  <2>4. /\ g \in Seq(Octet) /\ p \in Seq(Octet) /\ d \in Seq(Octet)
        /\ i \in Seq(Octet) /\ u \in Seq(Octet) /\ r \in Seq(Octet)
    BY <2>2, <2>3, PartsTyped
  <2>5. SubSeq(Incoming, 1, came) = Cat(g, Cat(p, Cat(d, Cat(i, Cat(u, r)))))
    BY <2>2, <2>3 DEF InOrder
  <2>6. Cat(Cat(Cat(Cat(Cat(g, p), d), i), u), r)
          = Cat(g, Cat(p, Cat(d, Cat(i, Cat(u, r)))))
    BY <2>4, CatSix
  <2>7. /\ Between("inbound", k + 1..Len(stages)) = p
        /\ Between("inbound", 1..k) = u
    BY <2>1, <2>2, <2>3, BetweenIsCarried
  <2>8. SubSeq(Incoming, 1, came) = ((((g \o p) \o d) \o i) \o u) \o r
    BY <2>5, <2>6 DEF Cat
  <2> QED BY <2>1, <2>3, <2>7, <2>8 DEF Pend
<1> QED BY <1>1, FlowInvHolds, PTL

(* chunker.cpp:47-67, abstract_transport.cpp:95-110: every chunk that the      *)
(* application has answered is on the wire, in wbuf_ or on its way there,    *)
(* whole, with its header before it and in order.                           *)
THEOREM AnswersLeaveInOrder == Spec => []OutboundIsInOrder
<1>1. FlowInv => OutboundIsInOrder
  <2> SUFFICES ASSUME FlowInv
               PROVE  FramedAll(got) =
                        wire \o Readable(wbuf) \o Between("outbound", 1..Len(stages))
    BY DEF OutboundIsInOrder
  <2>1. PICK k : k = Chunking
    OBVIOUS
  <2>2. PipeInv /\ OnlyTop(stack) /\ OutOrder(got, wire, wbuf, stack, k)
    BY <2>1 DEF FlowInv
  <2>3. Between("outbound", 1..Len(stages)) = Outward(stack, k)
    <3>1. CASE Ready
      <4>1. k \in 1..Len(stages)
        BY <2>1, <3>1, UseFacts
      <4> QED BY <2>1, <2>2, <4>1, BetweenIsCarried
    <3>2. CASE ~Ready
      <4>1. stack = <<>>
        BY <3>2 DEF FlowInv, Unused
      <4> QED BY <2>2, <4>1, BetweenIsTop DEF Outward
    <3> QED BY <3>1, <3>2
  <2>4. PICK w, y, o : w = wire /\ y = Readable(wbuf) /\ o = Outward(stack, k)
    OBVIOUS
  <2>5. w \in Seq(Octet) /\ y \in Seq(Octet) /\ o \in Seq(Octet)
    BY <2>2, <2>4, PartsTyped
  <2>6. Cat(Cat(w, y), o) = Cat(w, Cat(y, o))
    BY <2>5, CatAssoc
  <2>7. FramedAll(got) = (w \o y) \o o
    BY <2>2, <2>4, <2>6 DEF OutOrder, Cat
  <2> QED BY <2>3, <2>4, <2>7
<1> QED BY <1>1, FlowInvHolds, PTL
=============================================================================
