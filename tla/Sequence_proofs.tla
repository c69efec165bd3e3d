--------------------------- MODULE Sequence_proofs ---------------------------
(***************************************************************************)
(* Sequences of sequences laid end to end, as FlattenSeq of SequencesExt    *)
(* does it.  It is a recursive function; what it gives is shown here by way  *)
(* of the least place where it would be otherwise.                          *)
(***************************************************************************)
EXTENDS SequencesExt, Integers, SequenceTheorems, WellFoundedInduction, TLAPS

Below == {ss \in Nat \X Nat : ss[1] < ss[2]}

(* Every set of numbers that is not empty has a least one. *)
LEMMA LeastExists ==
  ASSUME NEW S, S \subseteq Nat, S # {}
  PROVE  \E j \in S : \A k \in S : j <= k
<1>1. IsWellFoundedOn(Below, Nat)
  BY NatLessThanWellFounded DEF OpToRel, Below
<1>2. PICK j \in S : \A k \in S : <<k, j>> \notin Below
  BY <1>1, WFMin
<1>3. ASSUME NEW k \in S PROVE j <= k
  <2>1. j \in Nat /\ k \in Nat
    OBVIOUS
  <2>2. k < j => <<k, j>> \in Below
    BY <2>1 DEF Below
  <2> QED BY <1>2, <2>1, <2>2
<1> QED BY <1>3

-----------------------------------------------------------------------------
(* Two sequences joined.                                                   *)

(* One behind the other, as an operator the provers see no further into. *)
Cat(a, b) == a \o b

LEMMA CatTyped == \A S : \A a, b \in Seq(S) : Cat(a, b) \in Seq(S)
BY ConcatProperties DEF Cat

LEMMA CatEmpty ==
  \A S : \A a \in Seq(S) : Cat(a, <<>>) = a /\ Cat(<<>>, a) = a
BY ConcatEmptySeq DEF Cat

LEMMA CatAssoc ==
  \A S : \A a, b, c \in Seq(S) : Cat(Cat(a, b), c) = Cat(a, Cat(b, c))
BY ConcatAssociative DEF Cat

LEMMA CatCancels == \A S : \A a, b, c \in Seq(S) : Cat(a, b) = Cat(a, c) => b = c
BY ConcatSimplifications DEF Cat

LEMMA CatLen ==
  \A S : \A a, b \in Seq(S) : Len(Cat(a, b)) = Len(a) + Len(b)
BY ConcatProperties DEF Cat

(* Four, five and six in a row. *)
LEMMA CatFour ==
  ASSUME NEW S, NEW a \in Seq(S), NEW b \in Seq(S), NEW c \in Seq(S), NEW d \in Seq(S)
  PROVE  Cat(Cat(Cat(a, b), c), d) = Cat(a, Cat(b, Cat(c, d)))
<1>1. Cat(a, b) \in Seq(S) /\ Cat(c, d) \in Seq(S)
  BY CatTyped
<1>2. Cat(Cat(Cat(a, b), c), d) = Cat(Cat(a, b), Cat(c, d))
  BY <1>1, CatAssoc
<1>3. Cat(Cat(a, b), Cat(c, d)) = Cat(a, Cat(b, Cat(c, d)))
  BY <1>1, CatAssoc
<1> QED BY <1>2, <1>3

LEMMA CatFive ==
  ASSUME NEW S, NEW a \in Seq(S), NEW b \in Seq(S), NEW c \in Seq(S), NEW d \in Seq(S),
         NEW e \in Seq(S)
  PROVE  Cat(Cat(Cat(Cat(a, b), c), d), e) = Cat(a, Cat(b, Cat(c, Cat(d, e))))
<1>1. PICK u, v : u = Cat(a, b) /\ v = Cat(c, Cat(d, e))
  OBVIOUS
<1>2. u \in Seq(S) /\ v \in Seq(S)
  BY <1>1, CatTyped
<1>3. Cat(Cat(Cat(u, c), d), e) = Cat(u, Cat(c, Cat(d, e)))
  BY <1>2, CatFour
<1>4. Cat(Cat(a, b), v) = Cat(a, Cat(b, v))
  BY <1>2, CatAssoc
<1> QED BY <1>1, <1>3, <1>4

LEMMA CatSix ==
  ASSUME NEW S, NEW a \in Seq(S), NEW b \in Seq(S), NEW c \in Seq(S), NEW d \in Seq(S),
         NEW e \in Seq(S), NEW f \in Seq(S)
  PROVE  Cat(Cat(Cat(Cat(Cat(a, b), c), d), e), f)
           = Cat(a, Cat(b, Cat(c, Cat(d, Cat(e, f)))))
<1>1. PICK u, v : u = Cat(a, b) /\ v = Cat(c, Cat(d, Cat(e, f)))
  OBVIOUS
<1>2. u \in Seq(S) /\ v \in Seq(S)
  BY <1>1, CatTyped
<1>3. Cat(Cat(Cat(Cat(u, c), d), e), f) = Cat(u, Cat(c, Cat(d, Cat(e, f))))
  BY <1>2, CatFive
<1>4. Cat(Cat(a, b), v) = Cat(a, Cat(b, v))
  BY <1>2, CatAssoc
<1> QED BY <1>1, <1>3, <1>4

(* What the first of two has first is what the whole has first. *)
LEMMA CatFirst ==
  ASSUME NEW S, NEW a \in Seq(S), NEW b \in Seq(S), NEW i \in 1..Len(a)
  PROVE  Cat(a, b)[i] = a[i]
<1>1. i \in 1..Len(a) + Len(b)
  BY LenProperties
<1> QED BY <1>1, ConcatProperties DEF Cat

-----------------------------------------------------------------------------
(* Sequences of sequences.                                                 *)

(* f is the recursive function of FlattenSeq for the first n of s. *)
Lays(f, s, n) ==
  f = [i \in 1..n |-> IF i = 1 THEN s[i] ELSE f[i - 1] \o s[i]]

(* Such a function exists. *)
LEMMA LaysExists == ASSUME NEW s, NEW n \in Nat PROVE \E f : Lays(f, s, n)
<1> DEFINE Bad == {m \in Nat : ~\E f : Lays(f, s, m)}
<1> SUFFICES ASSUME Bad # {} PROVE FALSE
  OBVIOUS
<1>1. PICK m \in Bad : \A k \in Bad : m <= k
  BY LeastExists
<1>2. m \in Nat /\ \A f : ~Lays(f, s, m)
  OBVIOUS
<1>3. m # 0
  <2>1. SUFFICES ASSUME m = 0 PROVE FALSE
    OBVIOUS
  <2> DEFINE f == [i \in 1..0 |-> s]
  <2>2. f = [i \in 1..0 |-> IF i = 1 THEN s[i] ELSE f[i - 1] \o s[i]]
    OBVIOUS
  <2> QED BY <1>2, <2>1, <2>2 DEF Lays
<1>4. m - 1 \in Nat /\ m - 1 \notin Bad
  BY <1>1, <1>2, <1>3
<1>5. PICK g : Lays(g, s, m - 1)
  BY <1>4
<1> DEFINE f == [i \in 1..m |-> IF i = m THEN (IF m = 1 THEN s[m] ELSE g[m - 1] \o s[m])
                                ELSE g[i]]
<1>6. ASSUME NEW i \in 1..m
      PROVE  f[i] = IF i = 1 THEN s[i] ELSE f[i - 1] \o s[i]
  <2>1. CASE i = m
    <3>1. m # 1 => f[m - 1] = g[m - 1]
      BY <1>2, <1>3
    <3> QED BY <2>1, <3>1
  <2>2. CASE i # m
    <3>1. i \in 1..m - 1 /\ f[i] = g[i]
      BY <1>2, <2>2
    <3>2. g[i] = IF i = 1 THEN s[i] ELSE g[i - 1] \o s[i]
      BY <1>5, <3>1 DEF Lays
    <3>3. i # 1 => f[i - 1] = g[i - 1]
      BY <1>2, <2>2, <3>1
    <3> QED BY <3>1, <3>2, <3>3
  <2> QED BY <2>1, <2>2
<1>7. f = [i \in 1..m |-> IF i = 1 THEN s[i] ELSE f[i - 1] \o s[i]]
  <2> DEFINE h == [i \in 1..m |-> IF i = 1 THEN s[i] ELSE f[i - 1] \o s[i]]
  <2>1. DOMAIN f = 1..m /\ DOMAIN h = 1..m
    OBVIOUS
  <2>2. \A i \in 1..m : f[i] = h[i]
    BY <1>6
  <2>3. f = [i \in 1..m |-> f[i]] /\ h = [i \in 1..m |-> h[i]]
    OBVIOUS
  <2> HIDE DEF f, h
  <2>4. [i \in 1..m |-> f[i]] = [i \in 1..m |-> h[i]]
    BY <2>2
  <2>5. f = h
    BY <2>3, <2>4
  <2> QED BY <2>5 DEF h
<1> QED BY <1>2, <1>7 DEF Lays

(* Two such functions agree where both are defined. *)
LEMMA LaysAgree ==
  ASSUME NEW s, NEW f, NEW g, NEW m \in Nat, NEW n \in Nat, m <= n,
         Lays(f, s, m), Lays(g, s, n)
  PROVE  \A i \in 1..m : f[i] = g[i]
<1> DEFINE Bad == {i \in 1..m : f[i] # g[i]}
<1> SUFFICES ASSUME Bad # {} PROVE FALSE
  OBVIOUS
<1>1. Bad \subseteq Nat
  OBVIOUS
<1>2. PICK i \in Bad : \A k \in Bad : i <= k
  BY <1>1, LeastExists
<1>3. i \in 1..m /\ i \in 1..n /\ f[i] # g[i]
  OBVIOUS
<1>4. /\ f[i] = IF i = 1 THEN s[i] ELSE f[i - 1] \o s[i]
      /\ g[i] = IF i = 1 THEN s[i] ELSE g[i - 1] \o s[i]
  BY <1>3 DEF Lays
<1>5. CASE i = 1
  BY <1>3, <1>4, <1>5
<1>6. CASE i # 1
  <2>1. i - 1 \in 1..m /\ i - 1 \notin Bad
    BY <1>2, <1>3, <1>6
  <2> QED BY <1>3, <1>4, <1>6, <2>1
<1> QED BY <1>5, <1>6

(* FlattenSeq is what such a function ends with. *)
LEMMA FlattenIsLaid ==
  ASSUME NEW s, Len(s) \in Nat \ {0}
  PROVE  \E f : Lays(f, s, Len(s)) /\ FlattenSeq(s) = f[Len(s)]
<1> DEFINE c == CHOOSE f : Lays(f, s, Len(s))
<1>1. Lays(c, s, Len(s))
  BY LaysExists
<1>2. FlattenSeq(s) = c[Len(s)]
  BY DEF FlattenSeq, Lays
<1> QED BY <1>1, <1>2

LEMMA FlattenEmpty == FlattenSeq(<<>>) = <<>>
<1>1. Len(<<>>) = 0
  BY EmptySeq
<1> QED BY <1>1 DEF FlattenSeq

LEMMA FlattenTyped ==
  ASSUME NEW S, NEW s \in Seq(Seq(S))
  PROVE  FlattenSeq(s) \in Seq(S)
<1>1. CASE s = <<>>
  BY <1>1, FlattenEmpty, EmptySeq
<1>2. CASE s # <<>>
  <2>1. Len(s) \in Nat \ {0} /\ Len(s) \in 1..Len(s)
    BY <1>2, EmptySeq
  <2>2. PICK f : Lays(f, s, Len(s)) /\ FlattenSeq(s) = f[Len(s)]
    BY <2>1, FlattenIsLaid
  <2> DEFINE Bad == {i \in 1..Len(s) : f[i] \notin Seq(S)}
  <2> SUFFICES ASSUME Bad # {} PROVE FALSE
    BY <2>1, <2>2
  <2>3. Bad \subseteq Nat
    OBVIOUS
  <2>4. PICK i \in Bad : \A k \in Bad : i <= k
    BY <2>3, LeastExists
  <2>5. i \in 1..Len(s) /\ f[i] \notin Seq(S) /\ s[i] \in Seq(S)
    BY ElementOfSeq
  <2>6. f[i] = IF i = 1 THEN s[i] ELSE f[i - 1] \o s[i]
    BY <2>2, <2>5 DEF Lays
  <2>7. i # 1
    BY <2>5, <2>6
  <2>8. i - 1 \in 1..Len(s) /\ i - 1 \notin Bad
    BY <2>1, <2>4, <2>5, <2>7
  <2>9. f[i - 1] \in Seq(S)
    BY <2>8
  <2> QED BY <2>5, <2>6, <2>7, <2>9, ConcatProperties
<1> QED BY <1>1, <1>2

(* One more sequence at the end. *)
LEMMA FlattenAppend ==
  ASSUME NEW S, NEW s \in Seq(Seq(S)), NEW x \in Seq(S)
  PROVE  FlattenSeq(Append(s, x)) = FlattenSeq(s) \o x
<1>1. PICK n, t : n = Len(s) /\ t = Append(s, x)
  OBVIOUS
<1>2. /\ n \in Nat /\ Len(t) = n + 1 /\ t[n + 1] = x
      /\ \A i \in 1..n : t[i] = s[i]
  BY <1>1, AppendProperties, LenProperties
<1>3. PICK g : Lays(g, t, n + 1) /\ FlattenSeq(t) = g[n + 1]
  BY <1>2, FlattenIsLaid
<1>4. g[n + 1] = IF n + 1 = 1 THEN t[n + 1] ELSE g[n + 1 - 1] \o t[n + 1]
  <2>1. n + 1 \in 1..n + 1
    BY <1>2
  <2>2. \A i \in 1..n + 1 : g[i] = IF i = 1 THEN t[i] ELSE g[i - 1] \o t[i]
    BY <1>3 DEF Lays
  <2> QED BY <1>2, <2>1, <2>2
<1>5. CASE n = 0
  <2>1. s = <<>>
    BY <1>1, <1>5, EmptySeq
  <2>2. FlattenSeq(s) \o x = x
    BY <2>1, FlattenEmpty, ConcatEmptySeq
  <2> QED BY <1>1, <1>2, <1>3, <1>4, <1>5, <2>2
<1>6. CASE n # 0
  <2>1. PICK f : Lays(f, s, n) /\ FlattenSeq(s) = f[n]
    BY <1>1, <1>2, <1>6, FlattenIsLaid
  <2>2. Lays(f, t, n)
    <3>1. [i \in 1..n |-> IF i = 1 THEN s[i] ELSE f[i - 1] \o s[i]]
            = [i \in 1..n |-> IF i = 1 THEN t[i] ELSE f[i - 1] \o t[i]]
      BY <1>2
    <3> QED BY <2>1, <3>1 DEF Lays
  <2>3. n \in 1..n /\ n <= n + 1 /\ n + 1 \in Nat
    BY <1>2, <1>6
  <2>4. f[n] = g[n]
    BY <1>2, <1>3, <2>2, <2>3, LaysAgree
  <2>5. g[n + 1] = g[n] \o t[n + 1]
    BY <1>2, <1>4, <1>6
  <2> QED BY <1>1, <1>2, <1>3, <2>1, <2>4, <2>5
<1> QED BY <1>5, <1>6

(* Two sequences of sequences, one behind the other. *)
LEMMA FlattenConcat ==
  ASSUME NEW S, NEW s \in Seq(Seq(S)), NEW t \in Seq(Seq(S))
  PROVE  FlattenSeq(s \o t) = FlattenSeq(s) \o FlattenSeq(t)
<1> DEFINE Pre(n) == SubSeq(t, 1, n)
           Bad == {n \in 0..Len(t) :
                     FlattenSeq(s \o Pre(n)) # FlattenSeq(s) \o FlattenSeq(Pre(n))}
<1>1. Len(t) \in Nat
  BY LenProperties
<1>2. Pre(Len(t)) = t /\ Len(t) \in 0..Len(t)
  BY <1>1, SubSeqFull
<1> SUFFICES ASSUME Bad # {} PROVE FALSE
  <2>1. Len(t) \notin Bad
    OBVIOUS
  <2> QED BY <1>2, <2>1
<1>3. Bad \subseteq Nat
  OBVIOUS
<1>4. PICK n \in Bad : \A k \in Bad : n <= k
  BY <1>3, LeastExists
<1>5. /\ n \in 0..Len(t)
      /\ FlattenSeq(s \o Pre(n)) # FlattenSeq(s) \o FlattenSeq(Pre(n))
  OBVIOUS
<1>6. n # 0
  <2>1. SUFFICES ASSUME n = 0 PROVE FALSE
    OBVIOUS
  <2>2. Pre(n) = <<>>
    BY <2>1, SubSeqEmpty
  <2>3. s \o <<>> = s
    BY ConcatEmptySeq
  <2>4. FlattenSeq(s) \o <<>> = FlattenSeq(s)
    BY FlattenTyped, ConcatEmptySeq
  <2> QED BY <1>5, <2>2, <2>3, <2>4, FlattenEmpty
<1>7. n - 1 \in 0..Len(t) /\ n - 1 \notin Bad /\ n \in 1..Len(t)
  <2> HIDE DEF Bad
  <2>1. n - 1 \in 0..Len(t) /\ n \in 1..Len(t) /\ ~(n <= n - 1)
    BY <1>1, <1>5, <1>6
  <2>2. n - 1 \notin Bad
    BY <1>4, <2>1
  <2> QED BY <2>1, <2>2
<1>8. PICK p, x : p = Pre(n - 1) /\ x = t[n]
  OBVIOUS
<1>9. p \in Seq(Seq(S)) /\ x \in Seq(S)
  <2>1. \A i \in 1..n - 1 : t[i] \in Seq(S)
    BY <1>1, <1>7, ElementOfSeq
  <2>2. n - 1 \in Int
    BY <1>7
  <2>3. p \in Seq(Seq(S))
    BY <1>8, <2>1, <2>2, SubSeqProperties
  <2> QED BY <1>7, <1>8, <2>3, ElementOfSeq
<1>10. FlattenSeq(s \o p) = FlattenSeq(s) \o FlattenSeq(p)
  BY <1>7, <1>8
<1>11. Pre(n) = Append(p, x)
  <2>1. /\ n \in Int /\ \A i \in 1..n : t[i] \in Seq(S)
    BY <1>1, <1>7, ElementOfSeq
  <2>2. n - 1 \in Int /\ n - 1 \in Nat /\ \A i \in 1..n - 1 : t[i] \in Seq(S)
    BY <1>7, <2>1
  <2>3. /\ Pre(n) \in Seq(Seq(S)) /\ Len(Pre(n)) = IF 1 <= n THEN n - 1 + 1 ELSE 0
        /\ \A i \in 1..n - 1 + 1 : Pre(n)[i] = t[1 + i - 1]
    BY <2>1, SubSeqProperties
  <2>4. /\ Len(p) = IF 1 <= n - 1 THEN (n - 1) - 1 + 1 ELSE 0
        /\ \A i \in 1..(n - 1) - 1 + 1 : p[i] = t[1 + i - 1]
    BY <1>8, <2>2, SubSeqProperties
  <2>5. PICK u, v : u = Pre(n) /\ v = Append(p, x)
    OBVIOUS
  <2>6. /\ v \in Seq(Seq(S)) /\ Len(v) = Len(p) + 1
        /\ v[Len(p) + 1] = x
        /\ \A i \in 1..Len(p) : v[i] = p[i]
    BY <1>9, <2>5, AppendProperties
  <2> HIDE DEF Pre
  <2>7. Len(p) = n - 1 /\ Len(u) = n
    BY <1>7, <2>3, <2>4, <2>5
  <2>8. \A i \in 1..n : u[i] = t[i]
    BY <1>7, <2>3, <2>5
  <2>9. \A i \in 1..n : v[i] = t[i]
    <3>1. ASSUME NEW i \in 1..n PROVE v[i] = t[i]
      <4>1. CASE i = n
        BY <1>7, <1>8, <2>6, <2>7, <4>1
      <4>2. CASE i # n
        <5>1. i \in 1..n - 1
          BY <1>7, <4>2
        <5>2. v[i] = p[i]
          BY <2>6, <2>7, <5>1
        <5>3. p[i] = t[i]
          BY <1>7, <2>4, <5>1
        <5> QED BY <5>2, <5>3
      <4> QED BY <4>1, <4>2
    <3> QED BY <3>1
  <2>10. u \in Seq(Seq(S)) /\ Len(u) = Len(v) /\ \A i \in 1..Len(u) : u[i] = v[i]
    <3>1. u \in Seq(Seq(S))
      BY <2>3, <2>5
    <3>2. Len(v) = n
      BY <1>7, <2>6, <2>7
    <3> QED BY <2>7, <2>8, <2>9, <3>1, <3>2
  <2>11. u = v
    BY <2>6, <2>10, SeqEqual
  <2> QED BY <2>5, <2>11
<1>12. s \o Append(p, x) = Append(s \o p, x)
  <2>1. s \o p \in Seq(Seq(S)) /\ <<x>> \in Seq(Seq(S))
    BY <1>9, ConcatProperties
  <2>2. Append(p, x) = p \o <<x>> /\ Append(s \o p, x) = (s \o p) \o <<x>>
    BY <1>9, <2>1, AppendIsConcat
  <2>3. (s \o p) \o <<x>> = s \o (p \o <<x>>)
    <3>1. PICK y : y = <<x>>
      OBVIOUS
    <3>2. p \in Seq(Seq(S)) /\ y \in Seq(Seq(S))
      BY <1>9, <2>1, <3>1
    <3>3. Cat(Cat(s, p), y) = Cat(s, Cat(p, y))
      BY <3>2, CatAssoc
    <3> QED BY <3>1, <3>3 DEF Cat
  <2> QED BY <2>2, <2>3
<1>13. s \o p \in Seq(Seq(S)) /\ FlattenSeq(s) \in Seq(S) /\ FlattenSeq(p) \in Seq(S)
  BY <1>9, ConcatProperties, FlattenTyped
<1>14. FlattenSeq(Append(s \o p, x)) = FlattenSeq(s \o p) \o x
  BY <1>9, <1>13, FlattenAppend
<1>15. FlattenSeq(Append(p, x)) = FlattenSeq(p) \o x
  BY <1>9, FlattenAppend
<1>16. (FlattenSeq(s) \o FlattenSeq(p)) \o x = FlattenSeq(s) \o (FlattenSeq(p) \o x)
  <2>1. PICK a, b : a = FlattenSeq(s) /\ b = FlattenSeq(p)
    OBVIOUS
  <2>2. a \in Seq(S) /\ b \in Seq(S) /\ x \in Seq(S)
    BY <1>9, <1>13, <2>1
  <2>3. Cat(Cat(a, b), x) = Cat(a, Cat(b, x))
    BY <2>2, CatAssoc
  <2> QED BY <2>1, <2>3 DEF Cat
<1>17. FlattenSeq(s \o Pre(n)) = FlattenSeq(s) \o FlattenSeq(Pre(n))
  <2> HIDE DEF Pre
  <2> QED BY <1>10, <1>11, <1>12, <1>14, <1>15, <1>16, Zenon
<1> QED BY <1>5, <1>17, Zenon

(* Nothing but the last has anything in it. *)
LEMMA FlattenOnlyLast ==
  ASSUME NEW S, NEW s \in Seq(Seq(S)), s # <<>>,
         \A i \in 1..Len(s) - 1 : s[i] = <<>>
  PROVE  FlattenSeq(s) = s[Len(s)]
<1>1. Len(s) \in Nat \ {0} /\ Len(s) \in 1..Len(s)
  BY EmptySeq
<1>2. PICK f : Lays(f, s, Len(s)) /\ FlattenSeq(s) = f[Len(s)]
  BY <1>1, FlattenIsLaid
<1>3. \A i \in 1..Len(s) : f[i] = IF i = 1 THEN s[i] ELSE f[i - 1] \o s[i]
  BY <1>2 DEF Lays
<1> DEFINE Bad == {i \in 1..Len(s) - 1 : f[i] # <<>>}
<1>4. Bad = {}
  <2> SUFFICES ASSUME Bad # {} PROVE FALSE
    OBVIOUS
  <2>1. Bad \subseteq Nat
    BY <1>1
  <2>2. PICK i \in Bad : \A k \in Bad : i <= k
    BY <2>1, LeastExists
  <2>3. i \in 1..Len(s) - 1 /\ i \in 1..Len(s) /\ f[i] # <<>> /\ s[i] = <<>>
    BY <1>1
  <2>4. i # 1
    BY <1>3, <2>3
  <2>5. i - 1 \in 1..Len(s) - 1 /\ i - 1 \notin Bad
    BY <1>1, <2>2, <2>3, <2>4
  <2>6. f[i - 1] = <<>>
    BY <2>5
  <2>7. f[i] = <<>> \o <<>>
    BY <1>3, <2>3, <2>4, <2>6
  <2>8. <<>> \o <<>> = <<>>
    BY EmptySeq, ConcatEmptySeq
  <2> QED BY <2>3, <2>7, <2>8
<1>5. CASE Len(s) = 1
  BY <1>1, <1>2, <1>3, <1>5
<1>6. CASE Len(s) # 1
  <2>1. Len(s) - 1 \in 1..Len(s) - 1
    <3>1. \A n \in Nat \ {0} : n # 1 => n - 1 \in 1..n - 1
      OBVIOUS
    <3> QED BY <1>1, <1>6, <3>1
  <2>2. f[Len(s) - 1] = <<>>
    BY <1>4, <2>1
  <2>3. f[Len(s)] = <<>> \o s[Len(s)]
    BY <1>1, <1>3, <1>6, <2>2
  <2>4. <<>> \o s[Len(s)] = s[Len(s)]
    BY <1>1, ElementOfSeq, ConcatEmptySeq
  <2> QED BY <1>2, <2>3, <2>4
<1> QED BY <1>5, <1>6

LEMMA FlattenOne ==
  ASSUME NEW S, NEW x \in Seq(S)
  PROVE  FlattenSeq(<<x>>) = x
<1>1. <<x>> \in Seq(Seq(S)) /\ Len(<<x>>) = 1 /\ <<x>> # <<>> /\ <<x>>[1] = x
  OBVIOUS
<1>2. \A i \in 1..Len(<<x>>) - 1 : <<x>>[i] = <<>>
  BY <1>1
<1> QED BY <1>1, <1>2, FlattenOnlyLast

-----------------------------------------------------------------------------
(* Sequences cut in two. *)

LEMMA Cut ==
  ASSUME NEW S, NEW s \in Seq(S), NEW n \in Nat, n <= Len(s)
  PROVE  /\ SubSeq(s, 1, n) \in Seq(S) /\ Len(SubSeq(s, 1, n)) = n
         /\ SubSeq(s, n + 1, Len(s)) \in Seq(S)
         /\ Len(SubSeq(s, n + 1, Len(s))) = Len(s) - n
         /\ s = SubSeq(s, 1, n) \o SubSeq(s, n + 1, Len(s))
<1>1. Len(s) \in Nat /\ n \in Int /\ n + 1 \in Int /\ Len(s) \in Int
  BY LenProperties
<1>2. /\ \A i \in 1..n : s[i] \in S
      /\ \A i \in n + 1..Len(s) : s[i] \in S
  BY <1>1, ElementOfSeq
<1>3. /\ SubSeq(s, 1, n) \in Seq(S)
      /\ Len(SubSeq(s, 1, n)) = IF 1 <= n THEN n - 1 + 1 ELSE 0
  BY <1>1, <1>2, SubSeqProperties
<1>4. /\ SubSeq(s, n + 1, Len(s)) \in Seq(S)
      /\ Len(SubSeq(s, n + 1, Len(s)))
           = IF n + 1 <= Len(s) THEN Len(s) - (n + 1) + 1 ELSE 0
  BY <1>1, <1>2, SubSeqProperties
<1>5. s = SubSeq(s, 1, n) \o SubSeq(s, n + 1, Len(s))
  <2>1. /\ 1 \in 1..Len(s) + 1 /\ n \in 1 - 1..Len(s) /\ Len(s) \in n..Len(s)
    BY <1>1
  <2>2. SubSeq(s, 1, n) \o SubSeq(s, n + 1, Len(s)) = SubSeq(s, 1, Len(s))
    BY <2>1, ConcatAdjacentSubSeq
  <2> QED BY <2>2, SubSeqFull
<1>6. Len(SubSeq(s, 1, n)) = n /\ Len(SubSeq(s, n + 1, Len(s))) = Len(s) - n
  BY <1>1, <1>3, <1>4
<1> QED BY <1>3, <1>4, <1>5, <1>6

(* Two ways to divide one sequence agree on what both have first. *)
LEMMA CommonHead ==
  ASSUME NEW S, NEW a \in Seq(S), NEW r \in Seq(S), NEW f \in Seq(S), NEW q \in Seq(S),
         Cat(a, r) = Cat(f, q), NEW n \in Nat, n <= Len(a), n <= Len(f)
  PROVE  /\ SubSeq(a, 1, n) = SubSeq(f, 1, n)
         /\ Cat(SubSeq(a, n + 1, Len(a)), r) = Cat(SubSeq(f, n + 1, Len(f)), q)
<1>1. PICK a1, a2, f1, f2 : /\ a1 = SubSeq(a, 1, n) /\ a2 = SubSeq(a, n + 1, Len(a))
                            /\ f1 = SubSeq(f, 1, n) /\ f2 = SubSeq(f, n + 1, Len(f))
  OBVIOUS
<1>2. a1 \in Seq(S) /\ a2 \in Seq(S) /\ Len(a1) = n /\ a = Cat(a1, a2)
  BY <1>1, Cut DEF Cat
<1>3. f1 \in Seq(S) /\ f2 \in Seq(S) /\ Len(f1) = n /\ f = Cat(f1, f2)
  BY <1>1, Cut DEF Cat
<1>4. PICK u, v : u = Cat(a2, r) /\ v = Cat(f2, q)
  OBVIOUS
<1>5. u \in Seq(S) /\ v \in Seq(S)
  BY <1>2, <1>3, <1>4, CatTyped
<1>6. Cat(a1, u) = Cat(f1, v)
  <2>1. Cat(a, r) = Cat(a1, u)
    BY <1>2, <1>4, CatAssoc
  <2>2. Cat(f, q) = Cat(f1, v)
    BY <1>3, <1>4, CatAssoc
  <2> QED BY <2>1, <2>2
<1>7. \A i \in 1..n : a1[i] = f1[i]
  <2>1. ASSUME NEW i \in 1..n PROVE a1[i] = f1[i]
    <3>1. Cat(a1, u)[i] = a1[i] /\ Cat(f1, v)[i] = f1[i]
      BY <1>2, <1>3, <1>5, CatFirst
    <3> QED BY <1>6, <3>1
  <2> QED BY <2>1
<1>8. a1 = f1
  BY <1>2, <1>3, <1>7, SeqEqual
<1>9. u = v
  BY <1>2, <1>5, <1>6, <1>8, CatCancels
<1> QED BY <1>1, <1>4, <1>8, <1>9
=============================================================================
