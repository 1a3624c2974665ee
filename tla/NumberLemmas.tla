------------------------------- MODULE NumberLemmas -------------------------------
(***************************************************************************)
(* Facts about numbers and sequences that the proofs about several         *)
(* components need: a nonempty set of numbers has a least one, a set of    *)
(* numbers that is closed under the successor is complete, and a sequence  *)
(* can be put together from parts.                                         *)
(***************************************************************************)
EXTENDS Integers, SequenceTheorems, WellFoundedInduction, TLAPS

\* A nonempty set of numbers has a least element.
LEMMA LeastNumber ==
    ASSUME NEW S \in SUBSET Nat, S # {}
    PROVE  \E f \in S : \A g \in S : f <= g
<1>1. PICK f \in S : \A g \in S : <<g, f>> \notin OpToRel(<, Nat)
  BY NatLessThanWellFounded, WFMin
<1>2. \A g \in S : ~(g < f)
  BY <1>1 DEF OpToRel
<1>. QED  BY <1>2

\* Induction, for what can be said as membership in a set.
LEMMA SetInduction ==
    ASSUME NEW L \in Nat, NEW S \in SUBSET (0 .. L), 0 \in S,
           \A n \in S : n < L => n + 1 \in S
    PROVE  S = 0 .. L
<1>. SUFFICES ASSUME (0 .. L) \ S # {} PROVE FALSE
  OBVIOUS
<1>1. PICK n \in (0 .. L) \ S : \A m \in (0 .. L) \ S : n <= m
  <2>1. (0 .. L) \ S \in SUBSET Nat
    OBVIOUS
  <2>. QED  BY <2>1, LeastNumber
<1>2. n # 0 /\ n - 1 \in 0 .. L /\ n - 1 \in S
  BY <1>1
<1>. QED  BY <1>1, <1>2

\* The first n parts g[1], g[2], ... of a sequence, put one after the other.
UpTo(f, g, n) == /\ f[0] = <<>>
                 /\ \A m \in 1 .. n : f[m] = f[m - 1] \o g[m]

\* A function that the recursion over the L parts g may define.
Glued(f, g, L) == f = [n \in 0 .. L |-> IF n = 0 THEN <<>> ELSE f[n - 1] \o g[n]]

LEMMA Concatenation ==
    ASSUME NEW R, NEW L \in Nat, NEW g \in [1 .. L -> Seq(R)]
    PROVE  \E f \in [0 .. L -> Seq(R)] : Glued(f, g, L)
<1>. DEFINE S == {n \in 0 .. L : \E f \in [0 .. n -> Seq(R)] : UpTo(f, g, n)}
<1>1. 0 \in S
  <2>. DEFINE h == [m \in 0 .. 0 |-> <<>>]
  <2>1. h \in [0 .. 0 -> Seq(R)] /\ UpTo(h, g, 0)
    BY DEF UpTo
  <2>. HIDE DEF h
  <2>. QED  BY <2>1
<1>2. ASSUME NEW n \in S, n < L
      PROVE  n + 1 \in S
  <2>0. n \in Nat /\ n + 1 \in 0 .. L /\ n + 1 \in 1 .. L
    BY <1>2
  <2>1. PICK f \in [0 .. n -> Seq(R)] : UpTo(f, g, n)
    OBVIOUS
  <2>2. PICK last \in Seq(R) : last = f[n] \o g[n + 1]
    <3>1. f[n] \in Seq(R) /\ g[n + 1] \in Seq(R)
      BY <2>0
    <3>2. f[n] \o g[n + 1] \in Seq(R)
      BY <3>1, ConcatProperties
    <3>. QED  BY <3>2, Zenon
  <2>. DEFINE h == [m \in 0 .. n + 1 |-> IF m <= n THEN f[m] ELSE last]
  <2>3. h \in [0 .. n + 1 -> Seq(R)]
    BY <2>0
  <2>4. h[0] = <<>>
    BY <2>0, <2>1 DEF UpTo
  <2>5. ASSUME NEW m \in 1 .. n + 1
        PROVE  h[m] = h[m - 1] \o g[m]
    <3>1. CASE m <= n
      <4>1. m \in 1 .. n /\ m \in 0 .. n + 1 /\ m - 1 \in 0 .. n + 1 /\ m - 1 <= n
        BY <2>0, <3>1
      <4>2. h[m] = f[m] /\ h[m - 1] = f[m - 1]
        BY <3>1, <4>1
      <4>. HIDE DEF h
      <4>. QED  BY <2>1, <4>1, <4>2 DEF UpTo
    <3>2. CASE ~(m <= n)
      <4>1. m = n + 1 /\ m \in 0 .. n + 1 /\ m - 1 = n /\ n \in 0 .. n + 1
        BY <2>0, <3>2
      <4>2. h[m] = last /\ h[m - 1] = f[n]
        BY <2>0, <3>2, <4>1
      <4>. HIDE DEF h
      <4>. QED  BY <2>2, <4>1, <4>2
    <3>. QED  BY <3>1, <3>2
  <2>6. h \in [0 .. n + 1 -> Seq(R)] /\ UpTo(h, g, n + 1)
    <3>. HIDE DEF h
    <3>. QED  BY <2>3, <2>4, <2>5 DEF UpTo
  <2>. HIDE DEF h
  <2>. QED  BY <2>0, <2>6
<1>3. S = 0 .. L
  <2>1. S \in SUBSET (0 .. L)
    OBVIOUS
  <2>. HIDE DEF S
  <2>. QED  BY <1>1, <1>2, <2>1, SetInduction
<1>4. PICK f \in [0 .. L -> Seq(R)] : UpTo(f, g, L)
  <2>1. L \in S
    BY <1>3
  <2>. QED  BY <2>1
<1>5. f = [n \in 0 .. L |-> IF n = 0 THEN <<>> ELSE f[n - 1] \o g[n]]
  <2>1. f = [n \in 0 .. L |-> f[n]]
    OBVIOUS
  <2>2. ASSUME NEW n \in 0 .. L
        PROVE  f[n] = IF n = 0 THEN <<>> ELSE f[n - 1] \o g[n]
    <3>1. n # 0 => n \in 1 .. L
      OBVIOUS
    <3>. QED  BY <1>4, <3>1 DEF UpTo
  <2>. QED  BY <2>1, <2>2
<1>. QED  BY <1>5 DEF Glued

\* What the recursion says of each value.
LEMMA GluedStep ==
    ASSUME NEW L \in Nat, NEW g, NEW f, Glued(f, g, L)
    PROVE  /\ f[0] = <<>>
           /\ \A n \in 1 .. L : f[n] = f[n - 1] \o g[n]
<1>. DEFINE h == [n \in 0 .. L |-> IF n = 0 THEN <<>> ELSE f[n - 1] \o g[n]]
<1>1. f = h
  BY DEF Glued
<1>2. h[0] = <<>> /\ \A n \in 1 .. L : h[n] = f[n - 1] \o g[n]
  <2>1. h[0] = <<>>
    <3>1. 0 \in 0 .. L
      OBVIOUS
    <3>. QED  BY <3>1
  <2>2. ASSUME NEW n \in 1 .. L
        PROVE  h[n] = f[n - 1] \o g[n]
    <3>1. n \in 0 .. L /\ n # 0
      OBVIOUS
    <3>. QED  BY <3>1
  <2>. QED  BY <2>1, <2>2
<1>3. \A n \in 0 .. L : f[n] = h[n]
  <2>. HIDE DEF h
  <2>. QED  BY <1>1
<1>4. 0 \in 0 .. L /\ \A n \in 1 .. L : n \in 0 .. L
  OBVIOUS
<1>. HIDE DEF h
<1>. QED  BY <1>2, <1>3, <1>4

\* The recursion over the same parts, and perhaps more, gives the same values.
LEMMA GluedPrefix ==
    ASSUME NEW L \in Nat, NEW M \in Nat, L <= M,
           NEW f, NEW g, Glued(f, g, L), NEW e, NEW h, Glued(e, h, M),
           \A n \in 1 .. L : g[n] = h[n]
    PROVE  f[L] = e[L]
<1>. DEFINE S == {n \in 0 .. L : f[n] = e[n]}
<1>1. /\ f[0] = <<>> /\ \A n \in 1 .. L : f[n] = f[n - 1] \o g[n]
      /\ e[0] = <<>> /\ \A n \in 1 .. M : e[n] = e[n - 1] \o h[n]
  <2>1. f[0] = <<>> /\ \A n \in 1 .. L : f[n] = f[n - 1] \o g[n]
    BY GluedStep
  <2>2. e[0] = <<>> /\ \A n \in 1 .. M : e[n] = e[n - 1] \o h[n]
    BY GluedStep
  <2>. QED  BY <2>1, <2>2
<1>2. 0 \in S
  BY <1>1
<1>3. ASSUME NEW n \in S, n < L
      PROVE  n + 1 \in S
  <2>1. n + 1 \in 0 .. L /\ n + 1 \in 1 .. L /\ n + 1 \in 1 .. M /\ (n + 1) - 1 = n
    BY <1>3
  <2>2. f[n + 1] = f[n] \o g[n + 1] /\ e[n + 1] = e[n] \o h[n + 1]
    BY <1>1, <2>1
  <2>3. f[n] = e[n] /\ g[n + 1] = h[n + 1]
    BY <2>1
  <2>. QED  BY <2>1, <2>2, <2>3
<1>4. S \in SUBSET (0 .. L)
  OBVIOUS
<1>5. S = 0 .. L
  <2>. HIDE DEF S
  <2>. QED  BY <1>2, <1>3, <1>4, SetInduction
<1>. QED  BY <1>5

\* Whatever function satisfies the recursion, its values are sequences.
LEMMA GluedType ==
    ASSUME NEW R, NEW L \in Nat, NEW g \in [1 .. L -> Seq(R)], NEW f, Glued(f, g, L)
    PROVE  f[L] \in Seq(R)
<1>. DEFINE S == {n \in 0 .. L : f[n] \in Seq(R)}
<1>1. \A n \in 0 .. L : f[n] = IF n = 0 THEN <<>> ELSE f[n - 1] \o g[n]
  <2>. DEFINE h == [n \in 0 .. L |-> IF n = 0 THEN <<>> ELSE f[n - 1] \o g[n]]
  <2>1. f = h
    BY DEF Glued
  <2>2. ASSUME NEW n \in 0 .. L
        PROVE  h[n] = IF n = 0 THEN <<>> ELSE f[n - 1] \o g[n]
    OBVIOUS
  <2>3. ASSUME NEW n \in 0 .. L
        PROVE  f[n] = h[n]
    <3>. HIDE DEF h
    <3>. QED  BY <2>1
  <2>. QED  BY <2>2, <2>3
<1>2. 0 \in S
  <2>1. 0 \in 0 .. L
    OBVIOUS
  <2>2. f[0] = <<>>
    BY <1>1, <2>1
  <2>3. <<>> \in Seq(R)
    OBVIOUS
  <2>. QED  BY <2>1, <2>2, <2>3
<1>3. ASSUME NEW n \in S, n < L
      PROVE  n + 1 \in S
  <2>1. n + 1 \in 0 .. L /\ n + 1 \in 1 .. L /\ n + 1 # 0 /\ (n + 1) - 1 = n
    BY <1>3
  <2>2. f[n + 1] = f[n] \o g[n + 1]
    BY <1>1, <2>1
  <2>3. f[n] \in Seq(R) /\ g[n + 1] \in Seq(R)
    BY <2>1
  <2>4. f[n] \o g[n + 1] \in Seq(R)
    BY <2>3, ConcatProperties
  <2>. QED  BY <2>1, <2>2, <2>4
<1>4. S \in SUBSET (0 .. L)
  OBVIOUS
<1>5. S = 0 .. L
  <2>. HIDE DEF S
  <2>. QED  BY <1>2, <1>3, <1>4, SetInduction
<1>. QED  BY <1>5

\* The quotient of two numbers, and the rest.
LEMMA QuotientAndRest ==
    ASSUME NEW a \in Int, NEW b \in Int, b > 0
    PROVE  a = b * (a \div b) + (a % b)
OBVIOUS

\* A quotient of a number that is not smaller is positive.
LEMMA Division ==
    ASSUME NEW a \in Nat, NEW b \in Nat \ {0}, b <= a
    PROVE  /\ a \div b \in Nat \ {0} /\ a % b \in Nat
           /\ a = b * (a \div b) + (a % b)
<1>1. a \div b \in Int /\ a % b \in 0 .. b - 1
  OBVIOUS
<1>2. a = b * (a \div b) + (a % b)
  BY QuotientAndRest
<1>3. a \div b > 0
  <2>. SUFFICES ASSUME a \div b <= 0 PROVE FALSE
    BY <1>1
  <2>1. b * (a \div b) <= 0
    BY <1>1
  <2>. QED  BY <1>1, <1>2, <2>1
<1>. QED  BY <1>1, <1>2, <1>3


\* The function f iterates g from a on, L times.
Iterated(f, a, g, L) == /\ f[0] = a
                        /\ \A m \in 1 .. L : f[m] = g[f[m - 1]]

LEMMA Iteration ==
    ASSUME NEW T, NEW a \in T, NEW L \in Nat, NEW g \in [T -> T]
    PROVE  \E f \in [0 .. L -> T] : Iterated(f, a, g, L)
<1>. DEFINE S == {n \in 0 .. L : \E f \in [0 .. n -> T] : Iterated(f, a, g, n)}
<1>1. 0 \in S
  <2>. DEFINE h == [m \in 0 .. 0 |-> a]
  <2>1. h \in [0 .. 0 -> T] /\ Iterated(h, a, g, 0)
    BY DEF Iterated
  <2>. HIDE DEF h
  <2>. QED  BY <2>1
<1>2. ASSUME NEW n \in S, n < L
      PROVE  n + 1 \in S
  <2>0. n \in Nat /\ n + 1 \in 0 .. L
    BY <1>2
  <2>1. PICK f \in [0 .. n -> T] : Iterated(f, a, g, n)
    OBVIOUS
  <2>2. PICK last \in T : last = g[f[n]]
    <3>1. f[n] \in T
      BY <2>0
    <3>. QED  BY <3>1
  <2>. DEFINE h == [m \in 0 .. n + 1 |-> IF m <= n THEN f[m] ELSE last]
  <2>3. h \in [0 .. n + 1 -> T]
    BY <2>0
  <2>4. h[0] = a
    BY <2>0, <2>1 DEF Iterated
  <2>5. ASSUME NEW m \in 1 .. n + 1
        PROVE  h[m] = g[h[m - 1]]
    <3>1. CASE m <= n
      <4>1. m \in 1 .. n /\ m \in 0 .. n + 1 /\ m - 1 \in 0 .. n + 1 /\ m - 1 <= n
        BY <2>0, <3>1
      <4>2. h[m] = f[m] /\ h[m - 1] = f[m - 1]
        BY <3>1, <4>1
      <4>. HIDE DEF h
      <4>. QED  BY <2>1, <4>1, <4>2 DEF Iterated
    <3>2. CASE ~(m <= n)
      <4>1. m = n + 1 /\ m \in 0 .. n + 1 /\ m - 1 = n /\ n \in 0 .. n + 1
        BY <2>0, <3>2
      <4>2. h[m] = last /\ h[m - 1] = f[n]
        BY <2>0, <3>2, <4>1
      <4>. HIDE DEF h
      <4>. QED  BY <2>2, <4>1, <4>2
    <3>. QED  BY <3>1, <3>2
  <2>6. h \in [0 .. n + 1 -> T] /\ Iterated(h, a, g, n + 1)
    <3>. HIDE DEF h
    <3>. QED  BY <2>3, <2>4, <2>5 DEF Iterated
  <2>. HIDE DEF h
  <2>. QED  BY <2>0, <2>6
<1>3. S \in SUBSET (0 .. L)
  OBVIOUS
<1>4. S = 0 .. L
  <2>. HIDE DEF S
  <2>. QED  BY <1>1, <1>2, <1>3, SetInduction
<1>5. L \in S
  BY <1>4
<1>. QED  BY <1>5

==================================================================================
