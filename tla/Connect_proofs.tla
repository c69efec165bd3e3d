---------------------------- MODULE Connect_proofs ----------------------------
(***************************************************************************)
(* For any clients, any number of shutdowns and any place of the threads:   *)
(* what on_shutdown_ and the return of listenAndWait() promise.             *)
(***************************************************************************)
EXTENDS Connect, FiniteSetTheorems, SequenceTheorems, TLAPS

-----------------------------------------------------------------------------
(* How often an element is in a sequence.                                  *)

Places(s, x) == {i \in 1..Len(s) : s[i] = x}
Count(s, x)  == Cardinality(Places(s, x))

LEMMA PlacesAreFinite ==
  ASSUME NEW S, NEW s \in Seq(S), NEW x
  PROVE  IsFiniteSet(Places(s, x)) /\ Count(s, x) \in Nat
<1>1. Len(s) \in Nat
  BY LenProperties
<1>2. IsFiniteSet(1..Len(s))
  BY <1>1, FS_Interval
<1>3. Places(s, x) \in SUBSET (1..Len(s))
  BY DEF Places
<1>4. IsFiniteSet(Places(s, x))
  BY <1>2, <1>3, FS_Subset
<1> QED BY <1>4, FS_CardinalityType DEF Count

LEMMA CountEmpty == ASSUME NEW x PROVE Count(<<>>, x) = 0
<1>1. Len(<<>>) = 0
  BY EmptySeq
<1>2. Places(<<>>, x) = {}
  BY <1>1 DEF Places
<1> QED BY <1>2, FS_EmptySet DEF Count

LEMMA CountAppend ==
  ASSUME NEW S, NEW s \in Seq(S), NEW y \in S, NEW x
  PROVE  Count(Append(s, y), x) = Count(s, x) + (IF x = y THEN 1 ELSE 0)
<1>1. PICK t : t = Append(s, y)
  OBVIOUS
<1>2. /\ Len(s) \in Nat /\ Len(t) = Len(s) + 1
      /\ \A i \in 1..Len(s) : t[i] = s[i]
      /\ t[Len(s) + 1] = y
  BY <1>1, AppendProperties, LenProperties
<1>3. IsFiniteSet(Places(s, x)) /\ Len(s) + 1 \notin Places(s, x)
  <2>1. IsFiniteSet(Places(s, x))
    BY PlacesAreFinite
  <2>2. Len(s) + 1 \notin Places(s, x)
    BY <1>2 DEF Places
  <2> QED BY <2>1, <2>2
<1>4. CASE x = y
  <2>1. Places(t, x) = Places(s, x) \cup {Len(s) + 1}
    BY <1>2, <1>4 DEF Places
  <2>2. Cardinality(Places(t, x)) = Cardinality(Places(s, x)) + 1
    BY <1>3, <2>1, FS_AddElement
  <2> QED BY <1>1, <1>4, <2>2 DEF Count
<1>5. CASE x # y
  <2>1. Places(t, x) = Places(s, x)
    BY <1>2, <1>5 DEF Places
  <2>2. Count(s, x) \in Nat
    BY PlacesAreFinite
  <2> QED BY <1>1, <1>5, <2>1, <2>2 DEF Count
<1> QED BY <1>4, <1>5

(* A sequence is as one that the last is appended to. *)
LEMMA CountLast ==
  ASSUME NEW S, NEW s \in Seq(S), s # <<>>, NEW x
  PROVE  LET t == SubSeq(s, 1, Len(s) - 1)
         IN  /\ t \in Seq(S)
             /\ Count(s, x) = Count(t, x) + (IF x = s[Len(s)] THEN 1 ELSE 0)
<1>1. PICK t \in Seq(S), y \in S : s = Append(t, y)
  BY SequenceEmptyOrAppend
<1>2. Len(t) \in Nat /\ Len(s) = Len(t) + 1 /\ s[Len(s)] = y
  BY <1>1, AppendProperties, LenProperties
<1>3. SubSeq(s, 1, Len(s) - 1) = t
  <2>1. s = t \o <<y>> /\ <<y>> \in Seq(S)
    <3>1. Append(t, y) = t \o <<y>>
      BY AppendIsConcat
    <3> QED BY <1>1, <3>1
  <2>2. CASE t = <<>>
    <3>1. Len(s) - 1 = 0
      BY <1>2, <2>2, EmptySeq
    <3>2. SubSeq(s, 1, 0) = <<>>
      BY SubSeqEmpty
    <3> QED BY <2>2, <3>1, <3>2
  <2>3. CASE t # <<>>
    <3>1. 1 \in 1..Len(t) /\ Len(t) \in 1..Len(t)
      BY <2>3, EmptySeq
    <3>2. SubSeq(t \o <<y>>, 1, Len(t)) = SubSeq(t, 1, Len(t))
      BY <2>1, <3>1, SubSeqOfConcat1
    <3>3. Len(s) - 1 = Len(t)
      BY <1>2
    <3> QED BY <2>1, <3>2, <3>3, SubSeqFull
  <2> QED BY <2>2, <2>3
<1>4. Count(Append(t, y), x) = Count(t, x) + (IF x = y THEN 1 ELSE 0)
  BY CountAppend
<1>5. PICK n : n = Count(t, x)
  OBVIOUS
<1>6. Count(s, x) = n + (IF x = s[Len(s)] THEN 1 ELSE 0)
  BY <1>1, <1>2, <1>4, <1>5
<1> QED BY <1>3, <1>5, <1>6

(* The head gone, the others move up. *)
LEMMA CountHead ==
  ASSUME NEW S, NEW s \in Seq(S), s # <<>>, NEW x
  PROVE  Count(s, x) = Count(Tail(s), x) + (IF x = Head(s) THEN 1 ELSE 0)
<1>1. PICK t : t = Tail(s)
  OBVIOUS
<1>2. /\ Len(s) \in Nat \ {0} /\ t \in Seq(S) /\ Len(t) = Len(s) - 1
      /\ \A i \in 1..Len(t) : t[i] = s[i + 1]
  BY <1>1, HeadTailProperties, EmptySeq
<1>3. Head(s) = s[1]
  OBVIOUS
<1>4. PICK P : P = Places(s, x) \ {1}
  OBVIOUS
<1>5. Cardinality(P) = Count(t, x) /\ IsFiniteSet(P)
  <2> DEFINE f == [i \in Places(t, x) |-> i + 1]
  <2>1. f \in [Places(t, x) -> P]
    BY <1>2, <1>4 DEF Places
  <2>2. \A i, j \in Places(t, x) : f[i] = f[j] => i = j
    BY <1>2 DEF Places
  <2>3. \A k \in P : \E i \in Places(t, x) : f[i] = k
    <3> SUFFICES ASSUME NEW k \in P PROVE \E i \in Places(t, x) : f[i] = k
      OBVIOUS
    <3>1. k \in 1..Len(s) /\ k # 1 /\ s[k] = x
      BY <1>4 DEF Places
    <3>2. k - 1 \in 1..Len(t) /\ (k - 1) + 1 = k
      BY <1>2, <3>1
    <3>3. k - 1 \in Places(t, x)
      BY <1>2, <3>1, <3>2 DEF Places
    <3> QED BY <3>2, <3>3
  <2>4. ExistsBijection(Places(t, x), P)
    <3>1. f \in Injection(Places(t, x), P)
      BY <2>1, <2>2 DEF Injection, IsInjective
    <3>2. f \in Surjection(Places(t, x), P)
      BY <2>1, <2>3 DEF Surjection
    <3> HIDE DEF f
    <3> QED BY <3>1, <3>2 DEF ExistsBijection, Bijection
  <2> QED BY <1>2, <2>4, PlacesAreFinite, FS_Bijection DEF Count
<1>6. Count(t, x) \in Nat
  BY <1>2, PlacesAreFinite
<1>7. CASE x = Head(s)
  <2>1. 1 \in Places(s, x)
    BY <1>2, <1>3, <1>7 DEF Places
  <2>2. Places(s, x) = P \cup {1} /\ 1 \notin P
    BY <1>4, <2>1
  <2> QED BY <1>1, <1>5, <1>7, <2>2, FS_AddElement DEF Count
<1>8. CASE x # Head(s)
  <2>1. Places(s, x) = P
    BY <1>3, <1>4, <1>8 DEF Places
  <2> QED BY <1>1, <1>5, <1>6, <1>8, <2>1 DEF Count
<1> QED BY <1>7, <1>8

-----------------------------------------------------------------------------
(* The queue of the loop and the stack of its thread.                      *)

Ops      == {"start", "watch", "unwatch", "close", "fail"}
Owners   == Clients \union {Listener}
Entries  == [op : Ops, of : Owners]
Handlers == {"accept", "close", "countdown", "failed"}

Queued(t, op) == Count(t, Task(op, Listener))

(* The numbers below are natural. *)
LEMMA CountsAreNat ==
  ASSUME NEW t \in Seq(Entries), NEW s \in Seq(Handlers)
  PROVE  \A x : Queued(t, x) \in Nat /\ Count(s, x) \in Nat
BY PlacesAreFinite DEF Queued

(* What is posted waits once more. *)
LEMMA PostedIsQueued ==
  ASSUME NEW op \in Ops, NEW of \in Owners, tasks \in Seq(Entries), Posted(op, of)
  PROVE  /\ tasks' \in Seq(Entries)
         /\ \A q \in Ops : Queued(tasks', q) =
              Queued(tasks, q) + (IF of = Listener /\ q = op THEN 1 ELSE 0)
<1>1. Task(op, of) \in Entries
  BY DEF Task, Entries
<1>2. tasks' = Append(tasks, Task(op, of))
  BY DEF Posted
<1>3. ASSUME NEW q \in Ops
      PROVE  Queued(tasks', q) =
               Queued(tasks, q) + (IF of = Listener /\ q = op THEN 1 ELSE 0)
  <2>1. Task(q, Listener) = Task(op, of) <=> of = Listener /\ q = op
    BY DEF Task
  <2>2. Count(Append(tasks, Task(op, of)), Task(q, Listener)) =
          Count(tasks, Task(q, Listener))
          + (IF Task(q, Listener) = Task(op, of) THEN 1 ELSE 0)
    BY <1>1, CountAppend
  <2>3. PICK n : n = Count(tasks, Task(q, Listener))
    OBVIOUS
  <2> QED BY <1>2, <2>1, <2>2, <2>3 DEF Queued
<1> QED BY <1>1, <1>2, <1>3, AppendProperties

(* What is taken waits once less, and no handler runs. *)
LEMMA TakenWasQueued ==
  ASSUME NEW op \in Ops, NEW of \in Owners, tasks \in Seq(Entries), Taken(op, of)
  PROVE  /\ tasks' \in Seq(Entries) /\ stack = <<>>
         /\ \A q \in Ops : Queued(tasks, q) =
              Queued(tasks', q) + (IF of = Listener /\ q = op THEN 1 ELSE 0)
<1>1. /\ tasks # <<>> /\ Head(tasks) = Task(op, of) /\ tasks' = Tail(tasks)
      /\ stack = <<>>
  BY DEF Taken, Idle
<1>2. Tail(tasks) \in Seq(Entries)
  BY <1>1, HeadTailProperties
<1>3. ASSUME NEW q \in Ops
      PROVE  Queued(tasks, q) =
               Queued(tasks', q) + (IF of = Listener /\ q = op THEN 1 ELSE 0)
  <2>1. Task(q, Listener) = Task(op, of) <=> of = Listener /\ q = op
    BY DEF Task
  <2>2. Count(tasks, Task(q, Listener)) =
          Count(Tail(tasks), Task(q, Listener))
          + (IF Task(q, Listener) = Head(tasks) THEN 1 ELSE 0)
    BY <1>1, CountHead
  <2>3. PICK n : n = Count(Tail(tasks), Task(q, Listener))
    OBVIOUS
  <2> QED BY <1>1, <2>1, <2>2, <2>3 DEF Queued
<1> QED BY <1>1, <1>2, <1>3

(* A handler that returns is on the stack once less. *)
LEMMA OuterHasOneLess ==
  ASSUME NEW h, stack \in Seq(Handlers), LoopIs(h)
  PROVE  /\ Outer \in Seq(Handlers)
         /\ \A x : Count(stack, x) = Count(Outer, x) + (IF x = h THEN 1 ELSE 0)
<1>1. stack # <<>> /\ stack[Len(stack)] = h
  BY DEF LoopIs
<1> QED BY <1>1, CountLast DEF Outer

(* A handler that is called is there once more. *)
LEMMA CalledIsRunning ==
  ASSUME NEW s \in Seq(Handlers), NEW h \in Handlers
  PROVE  /\ Append(s, h) \in Seq(Handlers)
         /\ \A x : Count(Append(s, h), x) = Count(s, x) + (IF x = h THEN 1 ELSE 0)
BY CountAppend, AppendProperties

(* A stack of one handler. *)
LEMMA OnlyHandler ==
  ASSUME NEW h \in Handlers
  PROVE  <<h>> \in Seq(Handlers) /\ \A x : Count(<<h>>, x) = IF x = h THEN 1 ELSE 0
<1>1. <<>> \in Seq(Handlers) /\ <<h>> = Append(<<>>, h)
  OBVIOUS
<1>2. \A x : Count(<<>>, x) = 0
  BY CountEmpty
<1>3. \A x : Count(Append(<<>>, h), x) = Count(<<>>, x) + (IF x = h THEN 1 ELSE 0)
  BY <1>1, CalledIsRunning
<1> QED BY <1>1, <1>2, <1>3

(* The user's callback returns, or has called shutdown(). *)
LEMMA CallbackMayClose ==
  ASSUME NEW s \in Seq(Handlers), calls \in 0..MaxShutdowns, CallbackIn(s)
  PROVE  \E k \in {0, 1} :
           /\ stack' \in Seq(Handlers)
           /\ calls' \in 0..MaxShutdowns /\ calls' = calls + k
           /\ k = 1 => AnyTime \/ started'
           /\ \A x : Count(stack', x) = Count(s, x) + (IF x = "close" THEN k ELSE 0)
<1>1. CASE stack' = s /\ UNCHANGED calls
  <2>1. \A x : Count(s, x) \in Nat
    BY PlacesAreFinite
  <2>2. calls' = calls + 0
    BY <1>1, ListenerAssumptions
  <2>3. \A x : Count(stack', x) = Count(s, x) + (IF x = "close" THEN 0 ELSE 0)
    BY <1>1, <2>1
  <2>4. stack' \in Seq(Handlers) /\ calls' \in 0..MaxShutdowns
    BY <1>1
  <2> QED BY <2>2, <2>3, <2>4
<1>2. CASE MayShutdown /\ stack' = Append(s, "close") /\ calls' = calls + 1
  <2>1. calls < MaxShutdowns /\ (AnyTime \/ started')
    BY <1>2 DEF MayShutdown
  <2>2. "close" \in Handlers
    BY DEF Handlers
  <2>3. \A x : Count(stack', x) = Count(s, x) + (IF x = "close" THEN 1 ELSE 0)
    BY <1>2, <2>2, CalledIsRunning
  <2>4. stack' \in Seq(Handlers)
    BY <1>2, <2>2, AppendProperties
  <2>5. calls' \in 0..MaxShutdowns
    BY <1>2, <2>1, ListenerAssumptions
  <2> QED BY <1>2, <2>1, <2>3, <2>4, <2>5
<1> QED BY <1>1, <1>2 DEF CallbackIn

-----------------------------------------------------------------------------
(* The invariant of the listener.                                          *)

ListenerTypes ==
  /\ tasks \in Seq(Entries) /\ stack \in Seq(Handlers)
  /\ server \in {"new", "bind", "start", "arm", "waiting", "returned"}
  /\ sock \in {"none", "open", "listening"}
  /\ armed \in BOOLEAN /\ started \in BOOLEAN /\ down \in BOOLEAN
  /\ acceptedLate \in BOOLEAN
  /\ latch \in Int /\ latch <= 1
  /\ accepts \in 0..MaxAccepts
  /\ backlog \in Seq(Clients)
  /\ accepted \in SUBSET Clients /\ dropped \in SUBSET Clients
  /\ calls \in 0..MaxShutdowns

(* Only a listening socket is watched, and only listenAndWait() makes one. *)
WatchIsFresh ==
  /\ armed => sock = "listening"
  /\ server = "new" => sock = "none"
  /\ sock = "listening" => server # "bind"

(* The latch is counted down, and the wait ends, after on_shutdown_. *)
DownIsRecorded ==
  /\ Count(stack, "countdown") > 0 => down
  /\ latch # 1 => down
  /\ server = "returned" => down

Starting == started \/ Queued(tasks, "start") > 0
Closing  == Queued(tasks, "close") > 0 \/ Count(stack, "close") > 0
Failing  == Queued(tasks, "fail") > 0 \/ Count(stack, "failed") > 0

(* The countdowns to come: of shutdown() and of a failure. *)
Owed == Queued(tasks, "close") + Queued(tasks, "fail") + Count(stack, "close")
        + Count(stack, "failed") + Count(stack, "countdown")

(* One that listenAndWait() can still owe, and one that a listener that has  *)
(* started owes no more.                                                    *)
Spare == IF server \in {"new", "bind", "start", "arm"} \/ Starting THEN 1 ELSE 0

LatchIsOwed ==
  /\ Starting => server \in {"arm", "waiting", "returned"}
  /\ latch >= Owed - calls + Spare

(* With shutdown() after on_started_ a listener starts or fails, never both; *)
(* what closes it was asked for after the start, and it stays closed.       *)
StartsOrFails ==
  /\ Starting => ~Failing
  /\ Failing => server \in {"waiting", "returned"} /\ sock = "none"
  /\ Closing \/ calls > 0 => started
  /\ down => sock = "none" /\ server \notin {"new", "bind", "start"}
  /\ ~acceptedLate

ListenerInv ==
  /\ ListenerTypes /\ WatchIsFresh /\ DownIsRecorded /\ LatchIsOwed
  /\ ~AnyTime => StartsOrFails

(* At first everything is still to come. *)
LEMMA ListenerStarts == ASSUME ListenerInit PROVE ListenerInv
<1>1. /\ tasks = <<>> /\ stack = <<>> /\ server = "new" /\ sock = "none"
      /\ armed = FALSE /\ latch = 1 /\ accepts = 0 /\ backlog = <<>>
      /\ accepted = {} /\ dropped = {} /\ calls = 0 /\ started = FALSE
      /\ down = FALSE /\ acceptedLate = FALSE
  BY DEF ListenerInit, LoopInit
<1>2. /\ \A x : Queued(tasks, x) = 0 /\ Count(stack, x) = 0
  BY <1>1, CountEmpty DEF Queued
<1>3. ListenerTypes
  <2>1. tasks \in Seq(Entries) /\ stack \in Seq(Handlers) /\ backlog \in Seq(Clients)
    BY <1>1, EmptySeq
  <2>2. accepts \in 0..MaxAccepts /\ calls \in 0..MaxShutdowns
    BY <1>1, ListenerAssumptions
  <2>3. armed \in BOOLEAN /\ started \in BOOLEAN /\ down \in BOOLEAN /\ acceptedLate \in BOOLEAN
    BY <1>1, Zenon
  <2>4. latch \in Int /\ latch <= 1
    BY <1>1
  <2> QED BY <1>1, <2>1, <2>2, <2>3, <2>4 DEF ListenerTypes
<1>4. Owed = 0
  BY <1>2 DEF Owed
<1>5. LatchIsOwed
  BY <1>1, <1>2, <1>4 DEF LatchIsOwed, Spare, Starting
<1>6. StartsOrFails
  BY <1>1, <1>2 DEF StartsOrFails, Starting, Failing, Closing
<1>7. WatchIsFresh /\ DownIsRecorded
  BY <1>1, <1>2 DEF WatchIsFresh, DownIsRecorded
<1> QED BY <1>3, <1>5, <1>6, <1>7 DEF ListenerInv

(* What a step does to the queue and the stack: by how much each number of   *)
(* the invariant changes.                                                   *)
Moved(qs, qc, qf, rc, rf, rd) ==
  /\ Queued(tasks', "start") = Queued(tasks, "start") + qs
  /\ Queued(tasks', "close") = Queued(tasks, "close") + qc
  /\ Queued(tasks', "fail")  = Queued(tasks, "fail") + qf
  /\ Count(stack', "close")  = Count(stack, "close") + rc
  /\ Count(stack', "failed") = Count(stack, "failed") + rf
  /\ Count(stack', "countdown") = Count(stack, "countdown") + rd

NumbersTyped ==
  /\ Queued(tasks, "start") \in Nat /\ Queued(tasks, "close") \in Nat
  /\ Queued(tasks, "fail") \in Nat /\ Count(stack, "close") \in Nat
  /\ Count(stack, "failed") \in Nat /\ Count(stack, "countdown") \in Nat

LEMMA TypesGiveNumbers ==
  ASSUME tasks \in Seq(Entries), stack \in Seq(Handlers)
  PROVE  NumbersTyped /\ Owed \in Nat
<1>1. \A x : Queued(tasks, x) \in Nat /\ Count(stack, x) \in Nat
  BY CountsAreNat
<1> QED BY <1>1 DEF Owed, NumbersTyped

LEMMA MovedOwes ==
  ASSUME NumbersTyped, NEW qs \in Int, NEW qc \in Int, NEW qf \in Int, NEW rc \in Int,
         NEW rf \in Int, NEW rd \in Int, Moved(qs, qc, qf, rc, rf, rd)
  PROVE  Owed' = Owed + (qc + qf + rc + rf + rd)
BY DEF NumbersTyped, Moved, Owed

(* A task is posted by a thread that is not the loop's. *)
LEMMA PostMoves ==
  ASSUME ListenerTypes, NEW op \in Ops, NEW of \in Owners, Posted(op, of),
         UNCHANGED stack
  PROVE  /\ tasks' \in Seq(Entries)
         /\ LET n(q) == IF of = Listener /\ q = op THEN 1 ELSE 0
            IN  Moved(n("start"), n("close"), n("fail"), 0, 0, 0)
<1>1. tasks \in Seq(Entries) /\ stack \in Seq(Handlers)
  BY DEF ListenerTypes
<1>2. /\ tasks' \in Seq(Entries)
      /\ \A q \in Ops : Queued(tasks', q) =
           Queued(tasks, q) + (IF of = Listener /\ q = op THEN 1 ELSE 0)
  BY <1>1, PostedIsQueued
<1>3. NumbersTyped
  BY <1>1, TypesGiveNumbers
<1>4. "start" \in Ops /\ "close" \in Ops /\ "fail" \in Ops
  BY DEF Ops
<1> QED BY <1>2, <1>3, <1>4 DEF Moved, NumbersTyped

(* A task is taken, and a handler may be called in its place. *)
LEMMA TakeMoves ==
  ASSUME ListenerTypes, NEW op \in Ops, NEW of \in Owners, Taken(op, of)
  PROVE  /\ tasks' \in Seq(Entries) /\ stack = <<>>
         /\ Count(stack, "close") = 0 /\ Count(stack, "failed") = 0
         /\ Count(stack, "countdown") = 0
         /\ LET n(q) == IF of = Listener /\ q = op THEN 1 ELSE 0
            IN  /\ Queued(tasks', "start") = Queued(tasks, "start") - n("start")
                /\ Queued(tasks', "close") = Queued(tasks, "close") - n("close")
                /\ Queued(tasks', "fail") = Queued(tasks, "fail") - n("fail")
                /\ Queued(tasks, "start") >= n("start")
                /\ Queued(tasks, "close") >= n("close")
                /\ Queued(tasks, "fail") >= n("fail")
<1>1. tasks \in Seq(Entries)
  BY DEF ListenerTypes
<1>2. /\ tasks' \in Seq(Entries) /\ stack = <<>>
      /\ \A q \in Ops : Queued(tasks, q) =
           Queued(tasks', q) + (IF of = Listener /\ q = op THEN 1 ELSE 0)
  BY <1>1, TakenWasQueued
<1>3. \A q : Queued(tasks', q) \in Nat
  BY <1>2, PlacesAreFinite DEF Queued
<1>4. "start" \in Ops /\ "close" \in Ops /\ "fail" \in Ops
  BY DEF Ops
<1>5. \A x : Count(stack, x) = 0
  BY <1>2, CountEmpty
<1> QED BY <1>2, <1>3, <1>4, <1>5

(* Steps that call shutdown(), m times posted and k times inline, and else   *)
(* leave the listener alone.                                                *)
LEMMA CallingKeepsListener ==
  ASSUME ListenerInv, ListenerTypes', NEW m \in {0, 1}, NEW k \in {0, 1},
         Moved(0, m, 0, k, 0, 0), calls' = calls + m + k,
         m + k > 0 => AnyTime \/ started,
         UNCHANGED <<server, sock, armed, latch, started, down>>,
         \/ UNCHANGED acceptedLate
         \/ acceptedLate' = (acceptedLate \/ down) /\ sock # "none"
  PROVE  ListenerInv'
<1>1. ListenerTypes /\ NumbersTyped /\ Owed \in Nat
  BY TypesGiveNumbers DEF ListenerInv, ListenerTypes
<1>2. Owed' = Owed + (m + k)
  BY <1>1, MovedOwes
<1>3. Starting' <=> Starting
  BY <1>1 DEF Moved, Starting, NumbersTyped
<1>4. Failing' <=> Failing
  BY <1>1 DEF Moved, Failing, NumbersTyped
<1>5. Spare' = Spare /\ Spare \in Int
  BY <1>3 DEF Spare
<1>6. LatchIsOwed'
  <2>1. latch \in Int /\ calls \in Int /\ latch' = latch
    BY <1>1 DEF ListenerTypes
  <2> QED BY <1>1, <1>2, <1>3, <1>5, <2>1 DEF ListenerInv, LatchIsOwed
<1>7. WatchIsFresh' /\ DownIsRecorded'
  BY <1>1 DEF ListenerInv, WatchIsFresh, DownIsRecorded, Moved, NumbersTyped
<1>8. ASSUME ~AnyTime PROVE StartsOrFails'
  <2>1. StartsOrFails
    BY <1>8 DEF ListenerInv
  <2>2. Closing' \/ calls' > 0 => started
    <3>1. CASE m + k > 0
      BY <1>8, <3>1
    <3>2. CASE m = 0 /\ k = 0
      <4>1. (Closing' <=> Closing) /\ calls' = calls
        BY <1>1, <3>2 DEF Moved, Closing, NumbersTyped, ListenerTypes
      <4> QED BY <2>1, <4>1 DEF StartsOrFails
    <3> QED BY <3>1, <3>2
  <2>3. ~acceptedLate'
    <3>1. CASE acceptedLate' = acceptedLate
      BY <2>1, <3>1 DEF StartsOrFails
    <3>2. CASE acceptedLate' = (acceptedLate \/ down) /\ sock # "none"
      <4>1. ~acceptedLate /\ ~down
        BY <2>1, <3>2 DEF StartsOrFails
      <4> QED BY <3>2, <4>1
    <3> QED BY <3>1, <3>2
  <2> QED BY <1>3, <1>4, <2>1, <2>2, <2>3 DEF StartsOrFails
<1> QED BY <1>6, <1>7, <1>8 DEF ListenerInv

(* Steps of listenAndWait() that post: the start, a failure, the watch. *)
LEMMA PostingKeepsListener ==
  ASSUME ListenerInv, ListenerTypes', NEW qs \in {0, 1}, NEW qf \in {0, 1},
         Moved(qs, 0, qf, 0, 0, 0),
         UNCHANGED <<armed, latch, calls, started, down, acceptedLate>>,
         server \in {"new", "bind", "start", "arm"},
         server' \in {"bind", "start", "arm", "waiting"},
         server' = "waiting" <=> qf = 1 \/ server = "arm",
         server' = "bind" <=> server = "new" /\ qf = 0,
         qs = 1 <=> server = "start", qf = 1 => server \in {"new", "bind"} /\ sock' = "none",
         server = "start" => server' = "arm",
         server \notin {"new", "bind"} => sock' = sock,
         sock' = "listening" => sock = "listening" \/ server' = "start",
         armed => sock' = "listening"
  PROVE  ListenerInv'
<1>1. ListenerTypes /\ NumbersTyped /\ Owed \in Nat
  BY TypesGiveNumbers DEF ListenerInv, ListenerTypes
<1>2. Owed' = Owed + qf
  BY <1>1, MovedOwes
<1>3. Spare = 1
  BY DEF Spare
<1>4. /\ Starting' <=> Starting \/ server = "start"
      /\ Starting => server = "arm"
  BY <1>1 DEF Moved, Starting, NumbersTyped, ListenerInv, LatchIsOwed
<1>7. ASSUME ~AnyTime PROVE StartsOrFails'
  <2>1. StartsOrFails
    BY <1>7 DEF ListenerInv
  <2>3. Failing' <=> qf = 1
    BY <1>1, <2>1 DEF Moved, Failing, NumbersTyped, StartsOrFails
  <2>4. Closing' <=> Closing
    BY <1>1 DEF Moved, Closing, NumbersTyped
  <2> QED BY <1>4, <2>1, <2>3, <2>4 DEF StartsOrFails
<1>5. LatchIsOwed'
  <2>1. latch \in Int /\ calls \in Int /\ latch' = latch /\ calls' = calls
    BY <1>1 DEF ListenerTypes
  <2>2. qf = 0 \/ Spare' = 0
    BY <1>4 DEF Spare
  <2>3. Spare' = 0 \/ Spare' = 1
    BY DEF Spare
  <2>4. latch >= Owed - calls + 1
    BY <1>3 DEF ListenerInv, LatchIsOwed
  <2>5. CASE qf = 0
    BY <1>1, <1>2, <1>4, <2>1, <2>3, <2>4, <2>5 DEF LatchIsOwed
  <2>6. CASE qf = 1
    <3>1. Spare' = 0
      BY <2>2, <2>6
    <3> QED BY <1>1, <1>2, <1>4, <2>1, <2>4, <2>6, <3>1 DEF LatchIsOwed
  <2> QED BY <2>5, <2>6
<1>6. WatchIsFresh' /\ DownIsRecorded'
  BY <1>1 DEF ListenerInv, WatchIsFresh, DownIsRecorded, Moved, NumbersTyped
<1> QED BY <1>5, <1>6, <1>7 DEF ListenerInv

(* listenAndWait() on its own thread. *)
LEMMA ServerKeepsListener ==
  ASSUME ListenerInv, ServerThread
  PROVE  ListenerInv' /\ UNCHANGED down
<1> USE DEF serverVars, clientVars, historyVars, loopVars
<1>1. /\ ListenerTypes /\ WatchIsFresh
      /\ tasks \in Seq(Entries) /\ stack \in Seq(Handlers)
  BY DEF ListenerInv, ListenerTypes
<1>2. NumbersTyped
  BY <1>1, TypesGiveNumbers
<1>3. Listener \in Owners /\ {"start", "watch", "fail"} \subseteq Ops
  BY DEF Ops, Owners
<1>4. CASE ListenFails
  <2>1. tasks' \in Seq(Entries) /\ Moved(0, 0, 1, 0, 0, 0)
    BY <1>1, <1>3, <1>4, PostMoves DEF ListenFails
  <2>2. ListenerTypes'
    BY <1>1, <1>4, <2>1 DEF ListenerTypes, ListenFails
  <2> QED BY <1>1, <1>4, <2>1, <2>2, PostingKeepsListener DEF ListenFails, WatchIsFresh
<1>5. CASE ListenOpens
  <2>1. Moved(0, 0, 0, 0, 0, 0)
    BY <1>2, <1>5 DEF Moved, NumbersTyped, ListenOpens
  <2>2. ListenerTypes'
    BY <1>1, <1>5 DEF ListenerTypes, ListenOpens
  <2> QED BY <1>1, <1>5, <2>1, <2>2, PostingKeepsListener DEF ListenOpens, WatchIsFresh
<1>6. CASE ListenBinds
  <2>1. Moved(0, 0, 0, 0, 0, 0)
    BY <1>2, <1>6 DEF Moved, NumbersTyped, ListenBinds
  <2>2. ListenerTypes'
    BY <1>1, <1>6 DEF ListenerTypes, ListenBinds
  <2> QED BY <1>1, <1>6, <2>1, <2>2, PostingKeepsListener DEF ListenBinds, WatchIsFresh
<1>7. CASE ListenBindFails
  <2>1. tasks' \in Seq(Entries) /\ Moved(0, 0, 1, 0, 0, 0)
    BY <1>1, <1>3, <1>7, PostMoves DEF ListenBindFails
  <2>2. ListenerTypes'
    BY <1>1, <1>7, <2>1 DEF ListenerTypes, ListenBindFails
  <2> QED BY <1>1, <1>7, <2>1, <2>2, PostingKeepsListener DEF ListenBindFails, WatchIsFresh
<1>8. CASE PostStarted
  <2>1. tasks' \in Seq(Entries) /\ Moved(1, 0, 0, 0, 0, 0)
    BY <1>1, <1>3, <1>8, PostMoves DEF PostStarted
  <2>2. ListenerTypes'
    BY <1>1, <1>8, <2>1 DEF ListenerTypes, PostStarted
  <2> QED BY <1>1, <1>8, <2>1, <2>2, PostingKeepsListener DEF PostStarted, WatchIsFresh
<1>9. CASE PostWatch
  <2>1. tasks' \in Seq(Entries) /\ Moved(0, 0, 0, 0, 0, 0)
    BY <1>1, <1>3, <1>9, PostMoves DEF PostWatch
  <2>2. ListenerTypes'
    BY <1>1, <1>9, <2>1 DEF ListenerTypes, PostWatch
  <2> QED BY <1>1, <1>9, <2>1, <2>2, PostingKeepsListener DEF PostWatch, WatchIsFresh
<1>10. CASE ListenReturns
  <2>1. /\ server = "waiting" /\ server' = "returned" /\ latch = 0
        /\ UNCHANGED <<tasks, stack, sock, armed, latch, calls, started, down, acceptedLate>>
    BY <1>10 DEF ListenReturns
  <2>2. ListenerTypes'
    BY <1>1, <1>10 DEF ListenerTypes, ListenReturns
  <2>3. WatchIsFresh' /\ DownIsRecorded'
    BY <2>1 DEF ListenerInv, WatchIsFresh, DownIsRecorded
  <2>4. (Starting' <=> Starting) /\ (Failing' <=> Failing) /\ (Closing' <=> Closing)
    BY <2>1 DEF Starting, Failing, Closing
  <2>5. LatchIsOwed'
    <3>1. Spare' = Spare /\ Owed' = Owed
      BY <2>1, <2>4 DEF Spare, Owed
    <3> QED BY <2>1, <2>4, <3>1 DEF ListenerInv, LatchIsOwed
  <2>6. (~AnyTime => StartsOrFails)'
    BY <2>1, <2>4 DEF ListenerInv, StartsOrFails
  <2> QED BY <2>1, <2>2, <2>3, <2>5, <2>6 DEF ListenerInv
<1> QED BY <1>4, <1>5, <1>6, <1>7, <1>8, <1>9, <1>10 DEF ServerThread

(* The tasks of the listener on the loop's thread. *)
LEMMA TaskKeepsListener ==
  ASSUME ListenerInv, ListenerTask
  PROVE  ListenerInv' /\ UNCHANGED down
<1> USE DEF serverVars, clientVars, historyVars, loopVars
<1>1. /\ ListenerTypes /\ WatchIsFresh /\ Owed \in Nat
      /\ tasks \in Seq(Entries) /\ stack \in Seq(Handlers)
  BY TypesGiveNumbers DEF ListenerInv, ListenerTypes
<1>2. NumbersTyped
  BY <1>1, TypesGiveNumbers
<1>3. /\ Listener \in Owners /\ {"start", "watch", "close", "fail"} \subseteq Ops
      /\ {"close", "failed"} \subseteq Handlers /\ <<>> \in Seq(Handlers)
  BY DEF Ops, Owners, Handlers
<1>4. CASE RunStarted
  <2>1. CallbackIn(<<>>) /\ Taken("start", Listener) /\ calls \in 0..MaxShutdowns
    BY <1>1, <1>4 DEF RunStarted, ListenerTypes
  <2>2. PICK k \in {0, 1} :
          /\ tasks' \in Seq(Entries) /\ stack' \in Seq(Handlers)
          /\ calls' \in 0..MaxShutdowns /\ calls' = calls + k
          /\ Moved(-1, 0, 0, k, 0, 0) /\ Queued(tasks, "start") >= 1
    <3>1. PICK k \in {0, 1} :
            /\ stack' \in Seq(Handlers) /\ calls' \in 0..MaxShutdowns
            /\ calls' = calls + k
            /\ \A x : Count(stack', x) = Count(<<>>, x) + (IF x = "close" THEN k ELSE 0)
      BY <1>3, <2>1, CallbackMayClose
    <3>2. /\ Count(stack', "close") = k /\ Count(stack', "failed") = 0
          /\ Count(stack', "countdown") = 0
      <4>1. \A x : Count(<<>>, x) = 0
        BY CountEmpty
      <4> QED BY <3>1, <4>1
    <3>3. /\ tasks' \in Seq(Entries)
          /\ Count(stack, "close") = 0 /\ Count(stack, "failed") = 0
          /\ Count(stack, "countdown") = 0
          /\ Queued(tasks', "start") = Queued(tasks, "start") - 1
          /\ Queued(tasks', "close") = Queued(tasks, "close")
          /\ Queued(tasks', "fail") = Queued(tasks, "fail")
          /\ Queued(tasks, "start") >= 1
      BY <1>1, <1>2, <1>3, <2>1, TakeMoves DEF NumbersTyped
    <3>4. Moved(-1, 0, 0, k, 0, 0)
      BY <1>2, <3>2, <3>3 DEF Moved, NumbersTyped
    <3> QED BY <3>1, <3>3, <3>4
  <2>3. /\ started' = TRUE
        /\ UNCHANGED <<server, sock, armed, latch, down, acceptedLate>>
    BY <1>4 DEF RunStarted
  <2>4. ListenerTypes'
    BY <1>1, <1>4, <2>2, <2>3 DEF ListenerTypes, RunStarted
  <2>5. WatchIsFresh' /\ DownIsRecorded'
    BY <1>2, <2>2, <2>3
    DEF ListenerInv, WatchIsFresh, DownIsRecorded, Moved, NumbersTyped
  <2>6. Starting /\ Starting' /\ (Failing' <=> Failing)
    BY <1>2, <2>2, <2>3 DEF Starting, Failing, Moved, NumbersTyped
  <2>7. LatchIsOwed'
    <3>1. Spare' = Spare /\ Spare \in Int
      BY <2>3, <2>6 DEF Spare
    <3>2. Owed' = Owed + k
      BY <1>2, <2>2, MovedOwes
    <3>3. latch \in Int /\ calls \in Int
      BY <1>1 DEF ListenerTypes
    <3> QED BY <1>1, <2>2, <2>3, <2>6, <3>1, <3>2, <3>3 DEF ListenerInv, LatchIsOwed
  <2>8. (~AnyTime => StartsOrFails)'
    BY <2>3, <2>6 DEF ListenerInv, StartsOrFails
  <2> QED BY <2>3, <2>4, <2>5, <2>7, <2>8 DEF ListenerInv
<1>5. CASE RunWatch
  <2>1. /\ tasks' \in Seq(Entries) /\ Moved(0, 0, 0, 0, 0, 0)
    <3>1. Taken("watch", Listener) /\ stack' = stack
      BY <1>5 DEF RunWatch
    <3> QED BY <1>1, <1>2, <1>3, <3>1, TakeMoves DEF Moved, NumbersTyped
  <2>2. /\ armed' = (sock = "listening")
        /\ UNCHANGED <<stack, server, sock, latch, calls, started, down, acceptedLate>>
    BY <1>5 DEF RunWatch
  <2>3. ListenerTypes'
    <3>1. armed' \in BOOLEAN
      BY <2>2
    <3> QED BY <1>1, <1>5, <2>1, <2>2, <3>1 DEF ListenerTypes, RunWatch
  <2>4. WatchIsFresh' /\ DownIsRecorded'
    BY <2>2 DEF ListenerInv, WatchIsFresh, DownIsRecorded
  <2>5. (Starting' <=> Starting) /\ (Failing' <=> Failing) /\ (Closing' <=> Closing)
    BY <1>2, <2>1, <2>2 DEF Starting, Failing, Closing, Moved, NumbersTyped
  <2>6. LatchIsOwed'
    <3>1. Spare' = Spare
      BY <2>2, <2>5 DEF Spare
    <3>2. Owed' = Owed
      BY <1>2, <2>1 DEF Owed, Moved, NumbersTyped
    <3> QED BY <2>2, <2>5, <3>1, <3>2 DEF ListenerInv, LatchIsOwed
  <2>7. (~AnyTime => StartsOrFails)'
    BY <2>2, <2>5 DEF ListenerInv, StartsOrFails
  <2> QED BY <2>2, <2>3, <2>4, <2>6, <2>7 DEF ListenerInv
<1>6. CASE RunShutdown
  <2>1. /\ tasks' \in Seq(Entries) /\ stack' \in Seq(Handlers)
        /\ Moved(0, -1, 0, 1, 0, 0) /\ Queued(tasks, "close") >= 1
    <3>1. Taken("close", Listener) /\ stack' = <<"close">>
      BY <1>6 DEF RunShutdown
    <3>2. /\ stack' \in Seq(Handlers)
          /\ \A x : Count(stack', x) = IF x = "close" THEN 1 ELSE 0
      BY <1>3, <3>1, OnlyHandler
    <3> QED BY <1>1, <1>2, <1>3, <3>1, <3>2, TakeMoves DEF Moved, NumbersTyped
  <2>2. UNCHANGED <<server, sock, armed, latch, calls, started, down, acceptedLate>>
    BY <1>6 DEF RunShutdown
  <2>3. ListenerTypes'
    BY <1>1, <1>6, <2>1, <2>2 DEF ListenerTypes, RunShutdown
  <2>4. WatchIsFresh' /\ DownIsRecorded'
    BY <1>2, <2>1, <2>2
    DEF ListenerInv, WatchIsFresh, DownIsRecorded, Moved, NumbersTyped
  <2>5. (Starting' <=> Starting) /\ (Failing' <=> Failing) /\ Closing
    BY <1>2, <2>1, <2>2 DEF Starting, Failing, Closing, Moved, NumbersTyped
  <2>6. LatchIsOwed'
    <3>1. Spare' = Spare
      BY <2>2, <2>5 DEF Spare
    <3>2. Owed' = Owed
      BY <1>2, <2>1 DEF Owed, Moved, NumbersTyped
    <3> QED BY <2>2, <2>5, <3>1, <3>2 DEF ListenerInv, LatchIsOwed
  <2>7. (~AnyTime => StartsOrFails)'
    BY <2>2, <2>5 DEF ListenerInv, StartsOrFails
  <2> QED BY <2>2, <2>3, <2>4, <2>6, <2>7 DEF ListenerInv
<1>7. CASE RunFailure
  <2>1. /\ CallbackIn(<<"failed">>) /\ Taken("fail", Listener)
        /\ calls \in 0..MaxShutdowns /\ started' = started
    BY <1>1, <1>7 DEF RunFailure, ListenerTypes
  <2>2. PICK k \in {0, 1} :
          /\ tasks' \in Seq(Entries) /\ stack' \in Seq(Handlers)
          /\ calls' \in 0..MaxShutdowns /\ calls' = calls + k
          /\ k = 1 => AnyTime \/ started
          /\ Moved(0, 0, -1, k, 1, 0) /\ Queued(tasks, "fail") >= 1
    <3>1. /\ <<"failed">> \in Seq(Handlers)
          /\ \A x : Count(<<"failed">>, x) = IF x = "failed" THEN 1 ELSE 0
      BY <1>3, OnlyHandler
    <3>2. PICK k \in {0, 1} :
            /\ stack' \in Seq(Handlers) /\ calls' \in 0..MaxShutdowns
            /\ calls' = calls + k /\ (k = 1 => AnyTime \/ started)
            /\ \A x : Count(stack', x) = Count(<<"failed">>, x)
                                         + (IF x = "close" THEN k ELSE 0)
      BY <2>1, <3>1, CallbackMayClose
    <3>3. /\ Count(stack', "close") = k /\ Count(stack', "failed") = 1
          /\ Count(stack', "countdown") = 0
      BY <3>1, <3>2
    <3>4. /\ tasks' \in Seq(Entries)
          /\ Count(stack, "close") = 0 /\ Count(stack, "failed") = 0
          /\ Count(stack, "countdown") = 0
          /\ Queued(tasks', "start") = Queued(tasks, "start")
          /\ Queued(tasks', "close") = Queued(tasks, "close")
          /\ Queued(tasks', "fail") = Queued(tasks, "fail") - 1
          /\ Queued(tasks, "fail") >= 1
      BY <1>1, <1>2, <1>3, <2>1, TakeMoves DEF NumbersTyped
    <3>5. Moved(0, 0, -1, k, 1, 0)
      BY <1>2, <3>3, <3>4 DEF Moved, NumbersTyped
    <3> QED BY <3>2, <3>4, <3>5
  <2>3. UNCHANGED <<server, sock, armed, latch, started, down, acceptedLate>>
    BY <1>7 DEF RunFailure
  <2>4. ListenerTypes'
    BY <1>1, <1>7, <2>2, <2>3 DEF ListenerTypes, RunFailure
  <2>5. WatchIsFresh' /\ DownIsRecorded'
    BY <1>2, <2>2, <2>3
    DEF ListenerInv, WatchIsFresh, DownIsRecorded, Moved, NumbersTyped
  <2>6. (Starting' <=> Starting) /\ Failing /\ Failing'
    BY <1>2, <2>2, <2>3 DEF Starting, Failing, Moved, NumbersTyped
  <2>7. LatchIsOwed'
    <3>1. Spare' = Spare /\ Spare \in Int
      BY <2>3, <2>6 DEF Spare
    <3>2. Owed' = Owed + k
      BY <1>2, <2>2, MovedOwes
    <3>3. latch \in Int /\ calls \in Int
      BY <1>1 DEF ListenerTypes
    <3> QED BY <1>1, <2>2, <2>3, <2>6, <3>1, <3>2, <3>3 DEF ListenerInv, LatchIsOwed
  <2>8. (~AnyTime => StartsOrFails)'
    <3> SUFFICES ASSUME ~AnyTime PROVE StartsOrFails'
      OBVIOUS
    <3>1. StartsOrFails /\ ~started
      BY <2>6 DEF ListenerInv, StartsOrFails, Starting
    <3>2. k = 0
      BY <2>2, <3>1
    <3>3. (Closing' <=> Closing) /\ calls' = calls
      BY <1>1, <1>2, <2>2, <3>2 DEF Closing, Moved, NumbersTyped, ListenerTypes
    <3> QED BY <2>3, <2>6, <3>1, <3>3 DEF StartsOrFails
  <2> QED BY <2>3, <2>4, <2>5, <2>7, <2>8 DEF ListenerInv
<1> QED BY <1>4, <1>5, <1>6, <1>7 DEF ListenerTask

(* A handler of the listener gives way to the countdown. *)
LEMMA CountdownFollows ==
  ASSUME stack \in Seq(Handlers), tasks \in Seq(Entries), UNCHANGED tasks,
         NEW h \in {"close", "failed"}, NEW t \in Seq(Handlers),
         \A x : Count(stack, x) = Count(t, x) + (IF x = h THEN 1 ELSE 0),
         \A x : Count(stack', x) = Count(t, x) + (IF x = "countdown" THEN 1 ELSE 0)
  PROVE  /\ Count(stack, h) > 0
         /\ h = "close" => Moved(0, 0, 0, -1, 0, 1)
         /\ h = "failed" => Moved(0, 0, 0, 0, -1, 1)
<1>1. \A x : Count(t, x) \in Nat
  BY PlacesAreFinite
<1>2. /\ Count(stack', "countdown") = Count(t, "countdown") + 1
      /\ Count(stack', "close") = Count(t, "close")
      /\ Count(stack', "failed") = Count(t, "failed")
  BY <1>1
<1>3. NumbersTyped
  BY TypesGiveNumbers
<1>4. CASE h = "close"
  <2>1. /\ Count(stack, "countdown") = Count(t, "countdown")
        /\ Count(stack, "close") = Count(t, "close") + 1
        /\ Count(stack, "failed") = Count(t, "failed")
    BY <1>1, <1>4
  <2> QED BY <1>1, <1>2, <1>3, <1>4, <2>1 DEF Moved, NumbersTyped
<1>5. CASE h = "failed"
  <2>1. /\ Count(stack, "countdown") = Count(t, "countdown")
        /\ Count(stack, "close") = Count(t, "close")
        /\ Count(stack, "failed") = Count(t, "failed") + 1
    BY <1>1, <1>5
  <2> QED BY <1>1, <1>2, <1>3, <1>5, <2>1 DEF Moved, NumbersTyped
<1> QED BY <1>4, <1>5

(* The handlers that end a listener. *)
LEMMA ClosingKeepsListener ==
  ASSUME ListenerInv, Close \/ FailureDone \/ CountDown
  PROVE  ListenerInv' /\ (down => down')
<1> USE DEF serverVars, clientVars, historyVars, loopVars
<1>1. /\ ListenerTypes /\ WatchIsFresh /\ Owed \in Nat
      /\ tasks \in Seq(Entries) /\ stack \in Seq(Handlers)
  BY TypesGiveNumbers DEF ListenerInv, ListenerTypes
<1>2. NumbersTyped
  BY <1>1, TypesGiveNumbers
<1>3. "countdown" \in Handlers
  BY DEF Handlers
<1>4. CASE Close
  <2>1. /\ LoopIs("close") /\ stack' = Append(Outer, "countdown")
        /\ sock' = "none" /\ armed' = FALSE /\ backlog' = <<>> /\ down' = TRUE
        /\ UNCHANGED <<tasks, server, latch, accepts, accepted, dropped,
                       acceptedLate, calls, started>>
    BY <1>4 DEF Close
  <2>2. /\ stack' \in Seq(Handlers) /\ Count(stack, "close") > 0
        /\ Moved(0, 0, 0, -1, 0, 1)
    <3>1. /\ Outer \in Seq(Handlers)
          /\ \A x : Count(stack, x) = Count(Outer, x) + (IF x = "close" THEN 1 ELSE 0)
      BY <1>1, <2>1, OuterHasOneLess
    <3>2. /\ stack' \in Seq(Handlers)
          /\ \A x : Count(stack', x) = Count(Outer, x)
                                       + (IF x = "countdown" THEN 1 ELSE 0)
      BY <1>3, <2>1, <3>1, CalledIsRunning
    <3>3. tasks' = tasks
      BY <2>1
    <3> QED BY <1>1, <3>1, <3>2, <3>3, CountdownFollows, Zenon
  <2>3. ListenerTypes'
    <3>1. <<>> \in Seq(Clients)
      BY EmptySeq
    <3> QED BY <1>1, <2>1, <2>2, <3>1 DEF ListenerTypes
  <2>4. WatchIsFresh' /\ DownIsRecorded'
    BY <2>1 DEF WatchIsFresh, DownIsRecorded
  <2>5. (Starting' <=> Starting) /\ (Failing' <=> Failing) /\ Closing
    BY <1>2, <2>1, <2>2 DEF Starting, Failing, Closing, Moved, NumbersTyped
  <2>6. LatchIsOwed'
    <3>1. Spare' = Spare
      BY <2>1, <2>5 DEF Spare
    <3>2. Owed' = Owed
      BY <1>2, <2>2 DEF Owed, Moved, NumbersTyped
    <3> QED BY <2>1, <2>5, <3>1, <3>2 DEF ListenerInv, LatchIsOwed
  <2>7. (~AnyTime => StartsOrFails)'
    <3> SUFFICES ASSUME ~AnyTime PROVE StartsOrFails'
      OBVIOUS
    <3>1. /\ StartsOrFails /\ started /\ Starting
          /\ server \in {"arm", "waiting", "returned"}
      BY <2>5 DEF ListenerInv, StartsOrFails, Starting, LatchIsOwed
    <3> QED BY <2>1, <2>5, <3>1 DEF StartsOrFails
  <2> QED BY <2>1, <2>3, <2>4, <2>6, <2>7 DEF ListenerInv
<1>5. CASE FailureDone
  <2>1. /\ LoopIs("failed") /\ stack' = Append(Outer, "countdown") /\ down' = TRUE
        /\ UNCHANGED <<tasks, server, sock, armed, latch, accepts, backlog,
                       accepted, dropped, acceptedLate, calls, started>>
    BY <1>5 DEF FailureDone
  <2>2. /\ stack' \in Seq(Handlers) /\ Count(stack, "failed") > 0
        /\ Moved(0, 0, 0, 0, -1, 1)
    <3>1. /\ Outer \in Seq(Handlers)
          /\ \A x : Count(stack, x) = Count(Outer, x) + (IF x = "failed" THEN 1 ELSE 0)
      BY <1>1, <2>1, OuterHasOneLess
    <3>2. /\ stack' \in Seq(Handlers)
          /\ \A x : Count(stack', x) = Count(Outer, x)
                                       + (IF x = "countdown" THEN 1 ELSE 0)
      BY <1>3, <2>1, <3>1, CalledIsRunning
    <3>3. tasks' = tasks
      BY <2>1
    <3> QED BY <1>1, <3>1, <3>2, <3>3, CountdownFollows, Zenon
  <2>3. ListenerTypes'
    BY <1>1, <2>1, <2>2 DEF ListenerTypes
  <2>4. WatchIsFresh' /\ DownIsRecorded'
    BY <2>1 DEF ListenerInv, WatchIsFresh, DownIsRecorded
  <2>5. (Starting' <=> Starting) /\ (Failing' => Failing) /\ (Closing' <=> Closing) /\ Failing
    BY <1>2, <2>1, <2>2 DEF Starting, Failing, Closing, Moved, NumbersTyped
  <2>6. LatchIsOwed'
    <3>1. Spare' = Spare
      BY <2>1, <2>5 DEF Spare
    <3>2. Owed' = Owed
      BY <1>2, <2>2 DEF Owed, Moved, NumbersTyped
    <3> QED BY <2>1, <2>5, <3>1, <3>2 DEF ListenerInv, LatchIsOwed
  <2>7. (~AnyTime => StartsOrFails)'
    BY <2>1, <2>5 DEF ListenerInv, StartsOrFails
  <2> QED BY <2>1, <2>3, <2>4, <2>6, <2>7 DEF ListenerInv
<1>6. CASE CountDown
  <2>1. /\ LoopIs("countdown") /\ stack' = Outer /\ latch' = latch - 1
        /\ UNCHANGED <<tasks, server, sock, armed, accepts, backlog, accepted,
                       dropped, acceptedLate, calls, started, down>>
    BY <1>6 DEF CountDown
  <2>2. /\ stack' \in Seq(Handlers) /\ Count(stack, "countdown") > 0
        /\ Moved(0, 0, 0, 0, 0, -1)
    <3>1. /\ stack' \in Seq(Handlers)
          /\ \A x : Count(stack, x) =
               Count(stack', x) + (IF x = "countdown" THEN 1 ELSE 0)
      BY <1>1, <2>1, OuterHasOneLess
    <3>2. \A x : Count(stack', x) \in Nat
      BY <3>1, PlacesAreFinite
    <3>3. /\ Count(stack', "countdown") = Count(stack, "countdown") - 1
          /\ Count(stack', "close") = Count(stack, "close")
          /\ Count(stack', "failed") = Count(stack, "failed")
          /\ Count(stack, "countdown") > 0
      BY <1>2, <3>1, <3>2 DEF NumbersTyped
    <3> QED BY <1>2, <2>1, <3>1, <3>3 DEF Moved, NumbersTyped
  <2>3. ListenerTypes'
    BY <1>1, <2>1, <2>2 DEF ListenerTypes
  <2>4. WatchIsFresh' /\ DownIsRecorded'
    BY <1>2, <2>1, <2>2 DEF ListenerInv, WatchIsFresh, DownIsRecorded
  <2>5. (Starting' <=> Starting) /\ (Failing' <=> Failing) /\ (Closing' <=> Closing)
    BY <1>2, <2>1, <2>2 DEF Starting, Failing, Closing, Moved, NumbersTyped
  <2>6. LatchIsOwed'
    <3>1. Spare' = Spare /\ Spare \in Int
      BY <2>1, <2>5 DEF Spare
    <3>2. Owed' = Owed - 1
      BY <1>2, <2>2 DEF Owed, Moved, NumbersTyped
    <3>3. latch \in Int /\ calls \in Int
      BY <1>1 DEF ListenerTypes
    <3> QED BY <1>1, <2>1, <2>5, <3>1, <3>2, <3>3 DEF ListenerInv, LatchIsOwed
  <2>7. (~AnyTime => StartsOrFails)'
    BY <2>1, <2>5 DEF ListenerInv, StartsOrFails
  <2> QED BY <2>1, <2>3, <2>4, <2>6, <2>7 DEF ListenerInv
<1> QED BY <1>4, <1>5, <1>6

(* shutdown() from another thread, and onReadable() with its callbacks. *)
LEMMA OthersKeepListener ==
  ASSUME ListenerInv,
         \/ Shutdown \/ OnReadable \/ Accept
         \/ AcceptInterrupted \/ AcceptFails \/ AcceptsDone
  PROVE  ListenerInv' /\ UNCHANGED down
<1> USE DEF serverVars, clientVars, historyVars, loopVars
<1>1. /\ ListenerTypes /\ NumbersTyped
      /\ tasks \in Seq(Entries) /\ stack \in Seq(Handlers)
      /\ calls \in Int /\ calls \in 0..MaxShutdowns
  BY TypesGiveNumbers, ListenerAssumptions DEF ListenerInv, ListenerTypes
<1>2. CASE Shutdown
  <2>1. tasks' \in Seq(Entries) /\ Moved(0, 1, 0, 0, 0, 0)
    <3>1. Posted("close", Listener) /\ stack' = stack
      BY <1>2 DEF Shutdown
    <3>2. "close" \in Ops /\ Listener \in Owners
      BY DEF Ops, Owners
    <3> QED BY <1>1, <3>1, <3>2, PostMoves
  <2>2. /\ calls < MaxShutdowns /\ calls' = calls + 1 + 0 /\ (AnyTime \/ started)
        /\ UNCHANGED <<stack, serverVars, clientVars, started, down>>
    BY <1>1, <1>2 DEF Shutdown
  <2>3. calls' \in 0..MaxShutdowns
    BY <1>1, <2>2, ListenerAssumptions
  <2>4. ListenerTypes'
    BY <1>1, <2>1, <2>2, <2>3 DEF ListenerTypes
  <2>8. UNCHANGED <<server, sock, armed, latch, started, down, acceptedLate>>
    BY <2>2
  <2> QED BY <2>1, <2>2, <2>4, <2>8, CallingKeepsListener
<1>3. CASE OnReadable
  <2>1. /\ stack = <<>> /\ stack' = <<"accept">> /\ accepts' = 0 /\ calls' = calls + 0 + 0
        /\ UNCHANGED <<tasks, serverVars, backlog, accepted, dropped, acceptedLate,
                       historyVars>>
    BY <1>1, <1>3 DEF OnReadable, Idle
  <2>2. /\ stack' \in Seq(Handlers) /\ \A x : x # "accept" => Count(stack', x) = 0
        /\ \A x : Count(stack, x) = 0
    <3>1. "accept" \in Handlers
      BY DEF Handlers
    <3> QED BY <2>1, <3>1, OnlyHandler, CountEmpty
  <2>3. Moved(0, 0, 0, 0, 0, 0)
    BY <1>1, <2>1, <2>2 DEF Moved, NumbersTyped
  <2>4. ListenerTypes'
    BY <1>1, <2>1, <2>2, ListenerAssumptions DEF ListenerTypes
  <2>8. UNCHANGED <<server, sock, armed, latch, started, down, acceptedLate>>
    BY <2>1
  <2> QED BY <2>1, <2>3, <2>4, <2>8, CallingKeepsListener
<1>4. CASE Accept
  <2>1. PICK k \in {0, 1} :
          /\ stack' \in Seq(Handlers) /\ calls' \in 0..MaxShutdowns
          /\ calls' = calls + k /\ (k = 1 => AnyTime \/ started)
          /\ \A x : Count(stack', x) = Count(stack, x) + (IF x = "close" THEN k ELSE 0)
    <3>1. CallbackIn(stack) /\ started' = started
      BY <1>4 DEF Accept
    <3> QED BY <1>1, <3>1, CallbackMayClose
  <2>2. /\ accepts < MaxAccepts /\ accepts' = accepts + 1 /\ sock = "listening"
        /\ backlog # <<>> /\ backlog' = Tail(backlog)
        /\ \/ accepted' = accepted \union {Head(backlog)} /\ dropped' = dropped
           \/ dropped' = dropped \union {Head(backlog)} /\ accepted' = accepted
        /\ acceptedLate' = (acceptedLate \/ down)
        /\ UNCHANGED <<started, tasks, serverVars, down>>
    BY <1>4 DEF Accept, Accepting
  <2>3. Moved(0, 0, 0, k, 0, 0) /\ calls' = calls + 0 + k
    BY <1>1, <2>1, <2>2 DEF Moved, NumbersTyped
  <2>4. ListenerTypes'
    <3>1. Head(backlog) \in Clients /\ backlog' \in Seq(Clients)
      BY <1>1, <2>2, HeadTailProperties DEF ListenerTypes
    <3>2. accepts' \in 0..MaxAccepts
      BY <1>1, <2>2, ListenerAssumptions DEF ListenerTypes
    <3>3. accepted' \in SUBSET Clients /\ dropped' \in SUBSET Clients
      BY <1>1, <2>2, <3>1 DEF ListenerTypes
    <3>4. acceptedLate' \in BOOLEAN
      BY <2>2, Zenon
    <3> QED BY <1>1, <2>1, <2>2, <3>1, <3>2, <3>3, <3>4 DEF ListenerTypes
  <2>5. acceptedLate' = (acceptedLate \/ down) /\ sock # "none"
    BY <2>2
  <2> QED BY <2>1, <2>2, <2>3, <2>4, <2>5, CallingKeepsListener
<1>5. CASE AcceptInterrupted
  <2>1. /\ accepts < MaxAccepts /\ accepts' = accepts + 1 /\ calls' = calls + 0 + 0
        /\ UNCHANGED <<loopVars, serverVars, backlog, accepted, dropped,
                       acceptedLate, historyVars>>
    BY <1>1, <1>5 DEF AcceptInterrupted, Accepting
  <2>2. Moved(0, 0, 0, 0, 0, 0)
    BY <1>1, <2>1 DEF Moved, NumbersTyped
  <2>3. ListenerTypes'
    <3>1. accepts' \in 0..MaxAccepts
      BY <1>1, <2>1, ListenerAssumptions DEF ListenerTypes
    <3> QED BY <1>1, <2>1, <3>1 DEF ListenerTypes
  <2>8. UNCHANGED <<server, sock, armed, latch, started, down, acceptedLate>>
    BY <2>1
  <2> QED BY <2>1, <2>2, <2>3, <2>8, CallingKeepsListener
<1>6. ASSUME NEW k \in {0, 1}, LoopIs("accept"), calls' = calls + k,
             stack' \in Seq(Handlers), calls' \in 0..MaxShutdowns,
             k = 1 => AnyTime \/ started,
             \A x : Count(stack', x) = Count(Outer, x) + (IF x = "close" THEN k ELSE 0),
             UNCHANGED <<tasks, serverVars, clientVars, started, down>>
      PROVE  ListenerInv'
  <2>1. /\ \A x : Count(stack, x) = Count(Outer, x) + (IF x = "accept" THEN 1 ELSE 0)
        /\ Outer \in Seq(Handlers)
    BY <1>1, <1>6, OuterHasOneLess
  <2>2. \A x : Count(Outer, x) \in Nat
    BY <2>1, PlacesAreFinite
  <2>3. /\ Count(stack', "close") = Count(stack, "close") + k
        /\ Count(stack', "failed") = Count(stack, "failed")
        /\ Count(stack', "countdown") = Count(stack, "countdown")
    BY <1>6, <2>1, <2>2
  <2>4. Moved(0, 0, 0, k, 0, 0) /\ calls' = calls + 0 + k
    BY <1>1, <1>6, <2>3 DEF Moved, NumbersTyped
  <2>5. ListenerTypes'
    BY <1>1, <1>6 DEF ListenerTypes
  <2>8. UNCHANGED <<server, sock, armed, latch, started, down, acceptedLate>>
    BY <1>6
  <2> QED BY <1>6, <2>4, <2>5, <2>8, CallingKeepsListener
<1>7. CASE AcceptFails
  <2>1. /\ LoopIs("accept") /\ CallbackIn(Outer)
        /\ UNCHANGED <<tasks, serverVars, clientVars, started, down>>
    BY <1>7 DEF AcceptFails, Accepting
  <2>2. Outer \in Seq(Handlers)
    BY <1>1, <2>1, OuterHasOneLess
  <2>3. PICK k \in {0, 1} :
          /\ stack' \in Seq(Handlers) /\ calls' \in 0..MaxShutdowns
          /\ calls' = calls + k /\ (k = 1 => AnyTime \/ started')
          /\ \A x : Count(stack', x) = Count(Outer, x) + (IF x = "close" THEN k ELSE 0)
    BY <1>1, <2>1, <2>2, CallbackMayClose
  <2> QED BY <1>6, <2>1, <2>3
<1>8. CASE AcceptsDone
  <2>1. /\ LoopIs("accept") /\ stack' = Outer /\ calls' = calls + 0
        /\ UNCHANGED <<tasks, serverVars, clientVars, started, down>>
    BY <1>1, <1>8 DEF AcceptsDone
  <2>2. Outer \in Seq(Handlers) /\ \A x : Count(Outer, x) \in Nat
    BY <1>1, <2>1, OuterHasOneLess, PlacesAreFinite
  <2>3. \A x : Count(stack', x) = Count(Outer, x) + (IF x = "close" THEN 0 ELSE 0)
    BY <2>1, <2>2
  <2>4. calls' \in 0..MaxShutdowns
    BY <1>1, <2>1
  <2> QED BY <1>6, <2>1, <2>2, <2>3, <2>4
<1> QED BY <1>2, <1>3, <1>4, <1>5, <1>7, <1>8 DEF OnReadable, Accept,
           AcceptInterrupted, AcceptFails, AcceptsDone, Shutdown

-----------------------------------------------------------------------------
(* The invariant of the dialers.                                           *)

(* A client that dials after on_shutdown_ is refused: nobody listens again. *)
LateIsRefused ==
  /\ late # {} => down
  /\ \A c \in late : dialed[c] \in {"dialing", "failed"} /\ conn[c] # "established"

DialerInv ==
  /\ DialerTypeOK /\ late \subseteq Clients
  /\ \A c \in Clients : dialed[c] = "new" => conn[c] \notin {"connecting", "established"}
  /\ ~AnyTime => LateIsRefused

IInv == ListenerInv /\ DialerInv

(* What the dialers and the kernel do leaves the listener as it is. *)
LEMMA DialersLeaveListener ==
  ASSUME ListenerInv, tasks' \in Seq(Entries), backlog' \in Seq(Clients),
         Moved(0, 0, 0, 0, 0, 0), UNCHANGED stack,
         UNCHANGED <<serverVars, historyVars, accepts, accepted, dropped,
                     acceptedLate>>
  PROVE  ListenerInv'
<1>1. /\ ListenerTypes /\ calls \in Int
  BY ListenerAssumptions DEF ListenerInv, ListenerTypes
<1>2. /\ UNCHANGED <<stack, server, sock, armed, latch, calls, started, down,
                     accepts, accepted, dropped>>
      /\ acceptedLate' = acceptedLate
  BY DEF serverVars, historyVars
<1>3. calls' = calls + 0 + 0
  BY <1>1, <1>2
<1>4. ListenerTypes'
  BY <1>1, <1>2 DEF ListenerTypes
<1> QED BY <1>2, <1>3, <1>4, CallingKeepsListener

(* A client's step. *)
LEMMA ClientKeepsInv ==
  ASSUME IInv, NEW c \in Clients,
         Establish(c) \/ Refuse(c) \/ Break(c) \/ Dial(c) \/ DialerEvent(c) \/ DialerTask(c)
  PROVE  IInv'
<1> USE DEF serverVars, clientVars, historyVars, loopVars, listenerVars
<1>1. /\ ListenerTypes /\ NumbersTyped /\ ListenerInv /\ DialerInv
      /\ tasks \in Seq(Entries) /\ stack \in Seq(Handlers) /\ backlog \in Seq(Clients)
      /\ down \in BOOLEAN
  BY TypesGiveNumbers DEF IInv, ListenerInv, ListenerTypes
<1>2. /\ conn \in [Clients -> {"none", "connecting", "established", "refused", "reset"}]
      /\ writable \subseteq Clients /\ late \subseteq Clients
      /\ dialed \in [Clients -> {"new", "dialing", "connected", "failed"}]
  BY <1>1 DEF DialerInv, DialerTypeOK
<1>3. ~AnyTime /\ sock = "listening" => ~down /\ late = {}
  BY <1>1 DEF ListenerInv, StartsOrFails, DialerInv, LateIsRefused
<1>4. c \in Owners /\ c # Listener /\ "watch" \in Ops /\ "unwatch" \in Ops
  BY ListenerIsNoClient DEF Ops, Owners
<1>5. Append(backlog, c) \in Seq(Clients)
  BY <1>1, AppendProperties
<1>6. UNCHANGED <<tasks, stack>> => tasks' \in Seq(Entries) /\ Moved(0, 0, 0, 0, 0, 0)
  BY <1>1 DEF Moved, NumbersTyped
<1>7. ASSUME NEW op \in {"watch", "unwatch"}, Posted(op, c), UNCHANGED stack
      PROVE  tasks' \in Seq(Entries) /\ Moved(0, 0, 0, 0, 0, 0)
  BY <1>1, <1>4, <1>7, PostMoves
<1>8. ASSUME NEW op \in {"watch", "unwatch"}, Taken(op, c), UNCHANGED stack
      PROVE  tasks' \in Seq(Entries) /\ Moved(0, 0, 0, 0, 0, 0)
  BY <1>1, <1>4, <1>8, TakeMoves DEF Moved, NumbersTyped
<1>9. CASE Establish(c)
  <2>1. /\ conn[c] = "connecting" /\ sock = "listening"
        /\ conn' = [conn EXCEPT ![c] = "established"] /\ backlog' = Append(backlog, c)
        /\ UNCHANGED <<serverVars, loopVars, historyVars, accepts, accepted, dropped,
                       acceptedLate, writable, dialed, late>>
    BY <1>9 DEF Establish
  <2>2. ListenerInv'
    BY <1>1, <1>5, <1>6, <2>1, DialersLeaveListener
  <2>3. DialerInv'
    BY <1>1, <1>2, <1>3, <2>1 DEF DialerInv, DialerTypeOK, LateIsRefused
  <2> QED BY <2>2, <2>3 DEF IInv
<1>10. CASE Refuse(c) \/ Break(c)
  <2>1. /\ conn' \in {[conn EXCEPT ![c] = "refused"], [conn EXCEPT ![c] = "reset"]}
        /\ UNCHANGED <<listenerVars, writable, dialed, late>>
    BY <1>10 DEF Refuse, Break
  <2>2. ListenerInv'
    BY <1>1, <1>6, <2>1, DialersLeaveListener
  <2>3. DialerInv'
    BY <1>1, <1>2, <2>1 DEF DialerInv, DialerTypeOK, LateIsRefused
  <2> QED BY <2>2, <2>3 DEF IInv
<1>11. CASE Dial(c)
  <2>1. CASE DialFails(c) /\ DialOnly /\ Dialed(c)
    <3>1. /\ dialed[c] = "new" /\ dialed' = [dialed EXCEPT ![c] = "failed"]
          /\ UNCHANGED <<conn, writable, loopVars, serverVars, clientVars, historyVars>>
          /\ late' = IF down THEN late \union {c} ELSE late
      BY <2>1 DEF DialFails, DialOnly, Dialed
    <3>2. ListenerInv'
      BY <1>1, <1>6, <3>1, DialersLeaveListener
    <3>3. DialerInv'
      BY <1>1, <1>2, <3>1 DEF DialerInv, DialerTypeOK, LateIsRefused
    <3> QED BY <3>2, <3>3 DEF IInv
  <2>2. CASE DialInProgress(c) /\ DialOnly /\ Dialed(c)
    <3>1. /\ dialed[c] = "new" /\ dialed' = [dialed EXCEPT ![c] = "dialing"]
          /\ conn' = [conn EXCEPT ![c] = "connecting"] /\ Posted("watch", c)
          /\ UNCHANGED <<writable, stack, serverVars, clientVars, historyVars>>
          /\ late' = IF down THEN late \union {c} ELSE late
      BY <2>2 DEF DialInProgress, DialOnly, Dialed
    <3>2. ListenerInv'
      BY <1>1, <1>7, <3>1, DialersLeaveListener
    <3>3. DialerInv'
      BY <1>1, <1>2, <3>1 DEF DialerInv, DialerTypeOK, LateIsRefused
    <3> QED BY <3>2, <3>3 DEF IInv
  <2>3. CASE /\ sock = "listening" /\ DialAtOnce(c) /\ Dialed(c)
             /\ backlog' = Append(backlog, c)
             /\ UNCHANGED <<serverVars, historyVars, accepts, accepted, dropped,
                            acceptedLate>>
    <3>1. /\ dialed[c] = "new" /\ dialed' = [dialed EXCEPT ![c] = "connected"]
          /\ conn' = [conn EXCEPT ![c] = "established"] /\ Posted("unwatch", c)
          /\ backlog' = Append(backlog, c) /\ sock = "listening"
          /\ UNCHANGED <<writable, stack, serverVars, historyVars, accepts, accepted,
                         dropped, acceptedLate>>
          /\ late' = IF down THEN late \union {c} ELSE late
      BY <2>3 DEF DialAtOnce, Dialed
    <3>2. ListenerInv'
      BY <1>1, <1>5, <1>7, <3>1, DialersLeaveListener
    <3>3. DialerInv'
      BY <1>1, <1>2, <1>3, <3>1 DEF DialerInv, DialerTypeOK, LateIsRefused
    <3> QED BY <3>2, <3>3 DEF IInv
  <2> QED BY <1>11, <2>1, <2>2, <2>3 DEF Dial
<1>12. CASE DialerEvent(c)
  <2>1. /\ writable' = writable \ {c}
        /\ dialed' = [dialed EXCEPT ![c] = IF conn[c] = "established" THEN "connected"
                                           ELSE "failed"]
        /\ UNCHANGED <<conn, loopVars, serverVars, clientVars, historyVars, late>>
    BY <1>12 DEF DialerEvent, DialReady, DialOnly
  <2>2. ListenerInv'
    BY <1>1, <1>6, <2>1, DialersLeaveListener
  <2>3. DialerInv'
    BY <1>1, <1>2, <2>1 DEF DialerInv, DialerTypeOK, LateIsRefused
  <2> QED BY <2>2, <2>3 DEF IInv
<1>13. CASE DialerTask(c)
  <2>1. /\ Taken("watch", c) \/ Taken("unwatch", c)
        /\ writable' \in {writable \union {c}, writable \ {c}}
        /\ UNCHANGED <<stack, conn, dialed, serverVars, clientVars, historyVars, late>>
    BY <1>13 DEF DialerTask, RunDialWatch, RunDialUnwatch, DialOnly
  <2>2. ListenerInv'
    BY <1>1, <1>8, <2>1, DialersLeaveListener
  <2>3. DialerInv'
    BY <1>1, <1>2, <2>1 DEF DialerInv, DialerTypeOK, LateIsRefused
  <2> QED BY <2>2, <2>3 DEF IInv
<1> QED BY <1>9, <1>10, <1>11, <1>12, <1>13

(* A listener's step, which may end the connections that wait. *)
LEMMA ListenerKeepsDialers ==
  ASSUME IInv, ListenerInv', down => down',
         conn' = [c \in Clients |->
                    IF Waiting(c) /\ sock' # sock THEN "reset" ELSE conn[c]],
         UNCHANGED <<writable, dialed, late>>
  PROVE  IInv'
<1>1. DialerInv
  BY DEF IInv
<1>2. /\ conn' \in [Clients -> {"none", "connecting", "established", "refused", "reset"}]
      /\ \A c \in Clients : conn'[c] \in {"reset", conn[c]}
  BY <1>1 DEF DialerInv, DialerTypeOK
<1>3. DialerInv'
  <2>1. (~AnyTime => LateIsRefused)'
    BY <1>1, <1>2 DEF DialerInv, LateIsRefused
  <2> QED BY <1>1, <1>2, <2>1 DEF DialerInv, DialerTypeOK
<1> QED BY <1>3 DEF IInv

-----------------------------------------------------------------------------
(* The theorems.                                                           *)

(* The invariant holds whenever shutdown() may come. *)
THEOREM ConnectInvariant == Spec => []IInv
<1>1. Init => IInv
  <2> SUFFICES ASSUME Init PROVE IInv
    OBVIOUS
  <2>1. ListenerInv
    BY ListenerStarts DEF Init
  <2>2. DialerInv
    BY DEF Init, DialerInit, DialerInv, DialerTypeOK, LateIsRefused
  <2> QED BY <2>1, <2>2 DEF IInv
<1>2. IInv /\ [Next]_vars => IInv'
  <2> SUFFICES ASSUME IInv, [Next]_vars PROVE IInv'
    OBVIOUS
  <2>0. ListenerInv
    BY DEF IInv
  <2>1. CASE ListenerStep(ServerThread)
    BY <2>0, <2>1, ServerKeepsListener, ListenerKeepsDialers DEF ListenerStep
  <2>2. CASE ListenerStep(ListenerTask)
    BY <2>0, <2>2, TaskKeepsListener, ListenerKeepsDialers DEF ListenerStep
  <2>3. CASE ListenerStep(Shutdown) \/ ListenerStep(OnReadable)
    BY <2>0, <2>3, OthersKeepListener, ListenerKeepsDialers DEF ListenerStep
  <2>4. CASE ListenerStep(InHandler)
    <3>1. /\ InHandler /\ UNCHANGED <<writable, dialed, late>>
          /\ conn' = [c \in Clients |->
                        IF Waiting(c) /\ sock' # sock THEN "reset" ELSE conn[c]]
      BY <2>4 DEF ListenerStep
    <3>2. ListenerInv' /\ (down => down')
      BY <2>0, <3>1, OthersKeepListener, ClosingKeepsListener DEF InHandler
    <3> QED BY <3>1, <3>2, ListenerKeepsDialers
  <2>5. ASSUME NEW c \in Clients,
               \/ Establish(c) \/ Refuse(c) \/ Break(c) \/ Dial(c) \/ DialerEvent(c)
               \/ DialerTask(c)
        PROVE  IInv'
    BY <2>5, ClientKeepsInv
  <2>6. CASE UNCHANGED vars
    <3>1. /\ UNCHANGED <<tasks, stack, backlog, conn, writable, dialed, late>>
          /\ UNCHANGED <<serverVars, historyVars, accepts, accepted, dropped,
                         acceptedLate>>
      BY <2>6 DEF vars, listenerVars, clientVars, loopVars, dialerVars
    <3>2. tasks \in Seq(Entries) /\ backlog \in Seq(Clients) /\ NumbersTyped
      BY <2>0, TypesGiveNumbers DEF ListenerInv, ListenerTypes
    <3>3. Moved(0, 0, 0, 0, 0, 0)
      BY <3>1, <3>2 DEF Moved, NumbersTyped
    <3>4. ListenerInv'
      BY <2>0, <3>1, <3>2, <3>3, DialersLeaveListener
    <3>5. DialerInv'
      BY <3>1 DEF IInv, DialerInv, DialerTypeOK, LateIsRefused, historyVars
    <3> QED BY <3>4, <3>5 DEF IInv
  <2> QED BY <2>1, <2>2, <2>3, <2>4, <2>5, <2>6 DEF Next, RunTask
<1> QED BY <1>1, <1>2, PTL DEF Spec

(* Every variable keeps its type, the latch among them: shutdown() calls     *)
(* bound how far below zero it is counted.                                  *)
THEOREM ConnectTypes == Spec => []TypeOK
<1>1. IInv => TypeOK
  <2> SUFFICES ASSUME IInv PROVE TypeOK
    OBVIOUS
  <2>1. ListenerTypes /\ DialerTypeOK /\ late \subseteq Clients /\ LatchIsOwed
    BY DEF IInv, ListenerInv, DialerInv
  <2>2. Owed \in Nat
    BY <2>1, TypesGiveNumbers DEF ListenerTypes
  <2>3. latch \in (-MaxShutdowns)..1
    <3>1. latch >= Owed - calls /\ latch \in Int /\ latch <= 1
      <4>1. Spare >= 0 /\ Spare \in Int
        BY DEF Spare
      <4>2. latch \in Int /\ latch <= 1 /\ calls \in Int
        BY <2>1, ListenerAssumptions DEF ListenerTypes
      <4> QED BY <2>1, <2>2, <4>1, <4>2 DEF LatchIsOwed
    <3>2. calls \in Int /\ calls <= MaxShutdowns /\ MaxShutdowns \in Int
      BY <2>1, ListenerAssumptions DEF ListenerTypes
    <3> QED BY <2>2, <3>1, <3>2
  <2>4. ListenerTypeOK
    BY <2>1, <2>3 DEF ListenerTypes, ListenerTypeOK, Handlers
  <2>5. tasks \in Seq([op : {"start", "watch", "unwatch", "close", "fail"},
                       of : Clients \union {Listener}])
    BY <2>1 DEF ListenerTypes, Entries, Ops, Owners
  <2> QED BY <2>1, <2>4, <2>5 DEF TypeOK
<1> QED BY <1>1, ConnectInvariant, PTL

(* The watcher holds no callback for a closed listening socket, even when    *)
(* shutdown() comes before the queued watch task.                           *)
THEOREM WatchIsNeverStale == Spec => []NoStaleWatch
<1>1. IInv => NoStaleWatch
  BY DEF IInv, ListenerInv, WatchIsFresh, NoStaleWatch
<1> QED BY <1>1, ConnectInvariant, PTL

(* listenAndWait() returns after on_shutdown_ only, whenever shutdown() came. *)
THEOREM ReturnFollowsShutdown == Spec => []ReturnsAfterShutdown
<1>1. IInv => ReturnsAfterShutdown
  BY DEF IInv, ListenerInv, DownIsRecorded, ReturnsAfterShutdown
<1> QED BY <1>1, ConnectInvariant, PTL

(* With shutdown() after on_started_, on_accepted_ is never called after     *)
(* on_shutdown_.  Connect_early shows that the hypothesis is needed.        *)
THEOREM NothingAcceptedLate == AnyTime = FALSE => (Spec => []NoAcceptAfterShutdown)
<1> SUFFICES ASSUME AnyTime = FALSE PROVE Spec => []NoAcceptAfterShutdown
  OBVIOUS
<1>1. IInv => NoAcceptAfterShutdown
  BY DEF IInv, ListenerInv, StartsOrFails, NoAcceptAfterShutdown
<1> QED BY <1>1, ConnectInvariant, PTL

(* And no client that dials after on_shutdown_ connects. *)
THEOREM NothingConnectedLate == AnyTime = FALSE => (Spec => []NoConnectAfterShutdown)
<1> SUFFICES ASSUME AnyTime = FALSE PROVE Spec => []NoConnectAfterShutdown
  OBVIOUS
<1>1. IInv => NoConnectAfterShutdown
  BY DEF IInv, DialerInv, LateIsRefused, NoConnectAfterShutdown
<1> QED BY <1>1, ConnectInvariant, PTL

(* An element that is not counted is not there. *)
LEMMA NoneCounted ==
  ASSUME NEW S, NEW s \in Seq(S), NEW x, Count(s, x) = 0
  PROVE  \A i \in 1..Len(s) : s[i] # x
<1>1. Places(s, x) = {}
  BY PlacesAreFinite, FS_EmptySet DEF Count
<1> QED BY <1>1 DEF Places

(* Whenever shutdown() may come, one call counts the latch past zero only on *)
(* a listener that failed to start: a listener that starts owes no other     *)
(* countdown, and one whose listenAndWait() is still on its way owes none    *)
(* yet.                                                                     *)
THEOREM LatchCountedOnce == Spec => []LatchStopsAtZero
<1>1. IInv => LatchStopsAtZero
  <2> SUFFICES ASSUME IInv, latch < 0, ~(calls > 1) PROVE calls = 1 /\ NeverStarts
    BY DEF LatchStopsAtZero
  <2>1. /\ ListenerTypes /\ LatchIsOwed /\ NumbersTyped
        /\ latch \in Int /\ calls \in Nat /\ Owed \in Nat
        /\ tasks \in Seq(Entries) /\ started \in BOOLEAN
    BY TypesGiveNumbers, ListenerAssumptions DEF IInv, ListenerInv, ListenerTypes
  <2>2. Spare \in {0, 1}
    BY DEF Spare
  <2>3. calls = 1 /\ Spare = 0
    BY <2>1, <2>2 DEF LatchIsOwed
  <2>4. server \in {"waiting", "returned"} /\ ~Starting
    BY <2>1, <2>3 DEF Spare, ListenerTypes
  <2>5. ~started /\ Queued(tasks, "start") = 0
    BY <2>1, <2>4 DEF Starting, NumbersTyped
  <2>6. \A i \in 1..Len(tasks) : tasks[i] # Task("start", Listener)
    BY <2>1, <2>5, NoneCounted DEF Queued
  <2> QED BY <2>3, <2>4, <2>5, <2>6 DEF NeverStarts
<1> QED BY <1>1, ConnectInvariant, PTL
=============================================================================
