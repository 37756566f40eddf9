--------------------------- MODULE ShardLayoutProofs ---------------------------
(***************************************************************************)
(* What the operators of a layout return, for any number of ranks and any  *)
(* segments.                                                               *)
(*                                                                         *)
(* They are folds over sequences.  The first section has induction and     *)
(* recursion over the numbers for sets and functions, instead of           *)
(* predicates and operators; a fold is then the last value of a function   *)
(* on the places of the sequence (Joins, Reaches).                         *)
(***************************************************************************)
EXTENDS ShardPlanner, SequenceTheorems, TLAPS

-----------------------------------------------------------------------------
(* Induction *)

WellFounded == INSTANCE WellFoundedInduction

\* A set of numbers that is not empty has a least one.
LEMMA LeastNumber ==
  ASSUME NEW S \in SUBSET Nat, S # {}
  PROVE  \E m \in S : \A k \in S : m <= k
<1> DEFINE R == WellFounded!OpToRel(<, Nat)
<1>1. WellFounded!IsWellFoundedOn(R, Nat)
  BY WellFounded!NatLessThanWellFounded
<1>2. \A x, y \in Nat : x < y => <<x, y>> \in R
  BY DEF WellFounded!OpToRel
<1> HIDE DEF R
<1>3. PICK m \in S : \A y \in S : <<y, m>> \notin R
  BY <1>1, WellFounded!WFMin
<1>4. \A k \in S : ~(k < m)
  BY <1>2, <1>3
<1> QED
  BY <1>4

\* Induction over the numbers, for a set instead of a predicate.
LEMMA Induction ==
  ASSUME NEW S, 0 \in S, \A n \in Nat : n \in S => n + 1 \in S
  PROVE  Nat \subseteq S
<1>1. SUFFICES ASSUME Nat \ S # {} PROVE FALSE
  OBVIOUS
<1>2. PICK m \in Nat \ S : \A k \in Nat \ S : m <= k
  BY <1>1, LeastNumber
<1>3. m - 1 \in Nat /\ m - 1 \in S
  BY <1>2
<1> QED
  BY <1>2, <1>3

\* Induction up to a number.
LEMMA BoundedInduction ==
  ASSUME NEW n \in Nat, NEW S, 0 \in S, \A k \in 1 .. n : k - 1 \in S => k \in S
  PROVE  0 .. n \subseteq S
<1> DEFINE T == {k \in Nat : k <= n => k \in S}
<1>1. 0 \in T
  OBVIOUS
<1>2. ASSUME NEW k \in Nat, k \in T
      PROVE  k + 1 \in T
  <2>1. SUFFICES ASSUME k + 1 <= n PROVE k + 1 \in S
    OBVIOUS
  <2>2. k + 1 \in 1 .. n /\ (k + 1) - 1 = k
    BY <2>1
  <2>3. (k + 1) - 1 \in S
    BY <1>2, <2>1, <2>2
  <2> QED
    BY <2>2, <2>3
<1> HIDE DEF T
<1>3. Nat \subseteq T
  BY <1>1, <1>2, Induction
<1> QED
  BY <1>3 DEF T

\* What follows x in X at each k of 1 .. n, and the values so reached from x0.
Steps(h, n, X) == h \in [(1 .. n) \X X -> X]

Reached(f, n, X, x0, h) ==
  /\ f \in [0 .. n -> X]
  /\ f[0] = x0
  /\ \A k \in 1 .. n : f[k] = h[<<k, f[k - 1]>>]

\* A function defined by recursion over the numbers up to n exists.
LEMMA RecursionExists ==
  ASSUME NEW n \in Nat, NEW X, NEW x0 \in X, NEW h, Steps(h, n, X)
  PROVE  \E f : Reached(f, n, X, x0, h)
<1> DEFINE Begins(g, m) == /\ g \in [0 .. m -> X]
                           /\ g[0] = x0
                           /\ \A k \in 1 .. m : g[k] = h[<<k, g[k - 1]>>]
           S == {m \in Nat : m <= n => \E g : Begins(g, m)}
<1>0. h \in [(1 .. n) \X X -> X]
  BY DEF Steps
<1>1. 0 \in S
  <2>1. Begins([k \in 0 .. 0 |-> x0], 0)
    OBVIOUS
  <2> QED
    BY <2>1
<1>2. ASSUME NEW m \in Nat, m \in S
      PROVE  m + 1 \in S
  <2>1. SUFFICES ASSUME m + 1 <= n PROVE \E f : Begins(f, m + 1)
    OBVIOUS
  <2>2. PICK g : Begins(g, m)
    BY <1>2, <2>1
  <2> DEFINE f == [k \in 0 .. m + 1 |-> IF k = m + 1 THEN h[<<m + 1, g[m]>>] ELSE g[k]]
  <2>3. g[m] \in X /\ m + 1 \in 1 .. n
    BY <2>1, <2>2
  <2>4. h[<<m + 1, g[m]>>] \in X
    BY <1>0, <2>3
  <2>5. f \in [0 .. m + 1 -> X]
    BY <2>2, <2>4
  <2>6. f[0] = x0
    BY <2>2
  <2>7. ASSUME NEW k \in 1 .. m + 1
        PROVE  f[k] = h[<<k, f[k - 1]>>]
    <3>1. CASE k = m + 1
      <4>1. f[k] = h[<<m + 1, g[m]>>] /\ f[m] = g[m] /\ k - 1 = m
        BY <3>1
      <4> HIDE DEF f
      <4> QED
        BY <3>1, <4>1
    <3>2. CASE k <= m
      <4>1. k \in 1 .. m /\ k - 1 \in 0 .. m /\ k # m + 1 /\ k - 1 # m + 1
        BY <3>2
      <4>2. f[k] = g[k] /\ f[k - 1] = g[k - 1]
        BY <4>1
      <4> HIDE DEF f
      <4> QED
        BY <2>2, <4>1, <4>2
    <3> QED
      BY <3>1, <3>2
  <2> HIDE DEF f
  <2>8. Begins(f, m + 1)
    BY <2>5, <2>6, <2>7
  <2> HIDE DEF Begins
  <2> QED
    BY <2>8
<1> HIDE DEF S
<1>3. n \in S
  BY <1>1, <1>2, Induction
<1> QED
  BY <1>3 DEF S, Reached

LEMMA ReachedValues ==
  ASSUME NEW n \in Nat, NEW X, NEW x0, NEW h, NEW f, Reached(f, n, X, x0, h)
  PROVE  /\ DOMAIN f = 0 .. n
         /\ f[0] = x0
         /\ \A k \in 0 .. n : f[k] \in X
         /\ \A k \in 1 .. n : f[k - 1] \in X /\ f[k] = h[<<k, f[k - 1]>>]
  BY DEF Reached

-----------------------------------------------------------------------------
(* Sequences and layouts *)

\* Where the elements of two sequences are in the one after the other.
LEMMA ConcatPlaces ==
  ASSUME NEW A, NEW s \in Seq(A), NEW t \in Seq(A)
  PROVE  /\ s \o t \in Seq(A)
         /\ Len(s \o t) = Len(s) + Len(t)
         /\ \A i \in 1 .. Len(s) : (s \o t)[i] = s[i]
         /\ \A i \in Nat \ {0} : i <= Len(t) => (s \o t)[Len(s) + i] = t[i]
<1>1. Len(s) \in Nat /\ Len(t) \in Nat
  OBVIOUS
<1>2. \A i \in Nat \ {0} : i <= Len(t) =>
         /\ Len(s) + i \in 1 .. Len(s) + Len(t)
         /\ ~(Len(s) + i <= Len(s))
         /\ (Len(s) + i) - Len(s) = i
  BY <1>1
<1> QED
  BY <1>1, <1>2, ConcatProperties

\* f joins the sequences of s one after the other.
Joins(f, s, A) ==
  /\ DOMAIN f = 0 .. Len(s)
  /\ f[0] = <<>>
  /\ \A k \in 0 .. Len(s) : f[k] \in Seq(A)
  /\ \A k \in 1 .. Len(s) : f[k - 1] \in Seq(A) /\ f[k] = f[k - 1] \o s[k]

\* The sequences of s one after the other.
LEMMA JoinExists ==
  ASSUME NEW A, NEW s \in Seq(Seq(A))
  PROVE  \E f : Joins(f, s, A)
<1> DEFINE h == [x \in (1 .. Len(s)) \X Seq(A) |-> x[2] \o s[x[1]]]
<1>1. Steps(h, Len(s), Seq(A))
  BY DEF Steps
<1>2. \A k \in 1 .. Len(s), x \in Seq(A) : h[<<k, x>>] = x \o s[k]
  OBVIOUS
<1>3. Len(s) \in Nat /\ <<>> \in Seq(A)
  OBVIOUS
<1> HIDE DEF h
<1>4. PICK f : Reached(f, Len(s), Seq(A), <<>>, h)
  BY <1>1, <1>3, RecursionExists
<1> DEFINE X == Seq(A)
<1> HIDE DEF X
<1>7. Reached(f, Len(s), X, <<>>, h) /\ Len(s) \in Nat
  BY <1>3, <1>4 DEF X
<1>5. /\ DOMAIN f = 0 .. Len(s)
      /\ f[0] = <<>>
      /\ \A k \in 0 .. Len(s) : f[k] \in X
      /\ \A k \in 1 .. Len(s) : f[k - 1] \in X /\ f[k] = h[<<k, f[k - 1]>>]
  BY <1>7, ReachedValues
<1>6. \A k \in 1 .. Len(s) : f[k] = f[k - 1] \o s[k]
  BY <1>2, <1>5 DEF X
<1> QED
  BY <1>5, <1>6 DEF Joins, X

\* Flattened is the last of them.
LEMMA FlattenedJoins ==
  ASSUME NEW A, NEW s \in Seq(Seq(A)), NEW f, Joins(f, s, A)
  PROVE  Flattened(s) = f[Len(s)]
<1> DEFINE n == Len(s)
           Eq(h) == h = [k \in 0 .. n |-> IF k = 0 THEN <<>> ELSE h[k - 1] \o s[k]]
           g == [k \in 0 .. n |-> f[k]]
<1>0. n \in Nat
  OBVIOUS
<1>1. Eq(g)
  <2>1. \A k \in 0 .. n : f[k] = IF k = 0 THEN <<>> ELSE f[k - 1] \o s[k]
    <3>1. \A k \in 0 .. n : k # 0 => k \in 1 .. n
      BY <1>0
    <3>2. f[0] = <<>> /\ \A k \in 1 .. n : f[k] = f[k - 1] \o s[k]
      BY DEF Joins
    <3> QED
      BY <3>1, <3>2
  <2>2. \A k \in 0 .. n : k # 0 => g[k - 1] = f[k - 1]
    BY <1>0
  <2> QED
    BY <2>1, <2>2
<1>2. ASSUME NEW h, Eq(h)
      PROVE  h[n] = f[n]
  <2> DEFINE S == {k \in Nat : h[k] = f[k]}
  <2>0. \A k \in 0 .. n : h[k] = IF k = 0 THEN <<>> ELSE h[k - 1] \o s[k]
    BY <1>2
  <2>1. 0 \in S
    <3>1. h[0] = <<>> /\ f[0] = <<>>
      BY <1>0, <2>0 DEF Joins
    <3> QED
      BY <3>1
  <2>2. ASSUME NEW k \in 1 .. n, k - 1 \in S
        PROVE  k \in S
    <3>1. h[k] = h[k - 1] \o s[k]
      <4>1. k \in 0 .. n /\ k # 0
        BY <1>0
      <4> QED
        BY <2>0, <4>1
    <3>2. f[k] = f[k - 1] \o s[k]
      BY DEF Joins
    <3>3. h[k - 1] = f[k - 1]
      BY <2>2
    <3>4. h[k] = f[k]
      BY ONLY <3>1, <3>2, <3>3
    <3> QED
      BY <3>4
  <2> HIDE DEF S, n
  <2>3. 0 .. n \subseteq S
    BY <1>0, <2>1, <2>2, BoundedInduction
  <2>4. n \in S
    BY <1>0, <2>3
  <2> QED
    BY <2>4 DEF S
<1>3. Eq(CHOOSE h : Eq(h))
  BY <1>1
<1>4. Flattened(s) = (CHOOSE h : Eq(h))[n]
  BY DEF Flattened
<1> HIDE DEF Eq, n
<1> QED
  BY <1>2, <1>3, <1>4 DEF n

\* Where each sequence begins among the joined, what is there, and that there
\* is nothing else.
Places(o, s) ==
  /\ o \in [0 .. Len(s) -> Nat]
  /\ o[0] = 0
  /\ \A k \in 1 .. Len(s) : o[k] = o[k - 1] + Len(s[k])

LEMMA JoinPlaces ==
  ASSUME NEW A, NEW s \in Seq(Seq(A))
  PROVE  \E o : /\ Places(o, s)
                /\ Flattened(s) \in Seq(A)
                /\ Len(Flattened(s)) = o[Len(s)]
                /\ \A k \in 1 .. Len(s), i \in Nat \ {0} :
                     i <= Len(s[k]) =>
                       /\ o[k - 1] + i \in 1 .. o[Len(s)]
                       /\ Flattened(s)[o[k - 1] + i] = s[k][i]
                /\ \A j \in 1 .. o[Len(s)] :
                     \E k \in 1 .. Len(s) : o[k - 1] < j /\ j <= o[k]
<1> DEFINE n == Len(s)
<1>0. n \in Nat
  OBVIOUS
<1>1. PICK f : Joins(f, s, A)
  BY JoinExists
<1>2. Flattened(s) = f[n]
  BY <1>1, FlattenedJoins
<1> DEFINE o == [k \in 0 .. n |-> Len(f[k])]
           X == Seq(A)
<1>3. \A k \in 0 .. n : f[k] \in X /\ o[k] = Len(f[k]) /\ o[k] \in Nat
  BY <1>1 DEF Joins
<1>4. \A k \in 1 .. n : k - 1 \in 0 .. n /\ k \in 0 .. n
  BY <1>0
<1>5. \A k \in 1 .. n : s[k] \in X /\ Len(s[k]) \in Nat
  OBVIOUS
<1>6. \A k \in 1 .. n : f[k] = f[k - 1] \o s[k]
  BY <1>1 DEF Joins
<1>7. f[0] = <<>>
  BY <1>1 DEF Joins
<1>8. o \in [0 .. n -> Nat]
  BY <1>3
<1> HIDE DEF o, n
<1>9. ASSUME NEW k \in 1 .. n
      PROVE  /\ o[k] = o[k - 1] + Len(s[k])
             /\ \A i \in 1 .. o[k - 1] : f[k][i] = f[k - 1][i]
             /\ \A i \in Nat \ {0} : i <= Len(s[k]) => f[k][o[k - 1] + i] = s[k][i]
  <2>1. f[k - 1] \in Seq(A) /\ s[k] \in Seq(A) /\ f[k] = f[k - 1] \o s[k]
    BY <1>3, <1>4, <1>5, <1>6
  <2>2. o[k] = Len(f[k]) /\ o[k - 1] = Len(f[k - 1])
    BY <1>3, <1>4
  <2> DEFINE u == f[k - 1]
             v == s[k]
  <2> HIDE DEF X, u, v
  <2>3. u \in Seq(A) /\ v \in Seq(A)
    BY <2>1 DEF u, v
  <2>4. /\ Len(u \o v) = Len(u) + Len(v)
        /\ \A i \in 1 .. Len(u) : (u \o v)[i] = u[i]
        /\ \A i \in Nat \ {0} : i <= Len(v) => (u \o v)[Len(u) + i] = v[i]
    BY <2>3, ConcatPlaces
  <2>5. f[k] = u \o v /\ o[k - 1] = Len(u) /\ o[k] = Len(f[k])
    BY <2>1, <2>2 DEF u, v
  <2>6. /\ o[k] = o[k - 1] + Len(v)
        /\ \A i \in 1 .. o[k - 1] : f[k][i] = u[i]
        /\ \A i \in Nat \ {0} : i <= Len(v) => f[k][o[k - 1] + i] = v[i]
    BY <2>4, <2>5
  <2> QED
    BY <2>6 DEF u, v
<1> HIDE DEF X
<1>10. Places(o, s)
  <2>1. o[0] = 0
    BY <1>0, <1>3, <1>7
  <2> QED
    BY <1>8, <1>9, <2>1 DEF Places, n
<1> DEFINE Kept(m) == \A k \in 1 .. n : k <= m =>
                        /\ o[k] <= o[m]
                        /\ \A i \in Nat \ {0} : i <= Len(s[k]) => f[m][o[k - 1] + i] = s[k][i]
           Filled(m) == \A j \in 1 .. o[m] :
                          \E k \in 1 .. n : k <= m /\ o[k - 1] < j /\ j <= o[k]
           S == {m \in 0 .. n : Kept(m) /\ Filled(m)}
<1>11. 0 \in S
  BY <1>0, <1>10 DEF Places
<1>12. ASSUME NEW m \in 1 .. n, m - 1 \in S
       PROVE  m \in S
  <2>0. m - 1 \in 0 .. n /\ m \in 0 .. n /\ m \in Nat
    BY <1>0
  <2>1. o[m] = o[m - 1] + Len(s[m]) /\ o[m] \in Nat /\ o[m - 1] \in Nat /\ Len(s[m]) \in Nat
    BY <1>3, <1>5, <1>9, <2>0
  <2>2. Kept(m)
    <3> SUFFICES ASSUME NEW k \in 1 .. n, k <= m
                 PROVE  /\ o[k] <= o[m]
                        /\ \A i \in Nat \ {0} : i <= Len(s[k]) => f[m][o[k - 1] + i] = s[k][i]
      OBVIOUS
    <3>1. CASE k = m
      BY <3>1, <1>9, <2>1
    <3>2. CASE k <= m - 1
      <4>1. o[k] <= o[m - 1] /\ \A i \in Nat \ {0} : i <= Len(s[k]) => f[m - 1][o[k - 1] + i] = s[k][i]
        BY <1>12, <3>2
      <4>2. o[k] = o[k - 1] + Len(s[k]) /\ o[k] \in Nat /\ o[k - 1] \in Nat
        BY <1>3, <1>4, <1>9
      <4>3. o[k] <= o[m]
        BY <2>1, <4>1, <4>2
      <4>4. ASSUME NEW i \in Nat \ {0}, i <= Len(s[k])
            PROVE  f[m][o[k - 1] + i] = s[k][i]
        <5>1. o[k - 1] + i \in 1 .. o[m - 1]
          <6>1. Len(s[k]) \in Nat /\ i \in Nat /\ i >= 1
            BY <1>5
          <6>4. o[k] <= o[m - 1]
            BY <4>1
          <6>2. o[k - 1] + i <= o[m - 1]
            <7> DEFINE a == o[k - 1]
                       b == o[k]
                       c == o[m - 1]
                       l == Len(s[k])
            <7>1. a \in Nat /\ b \in Nat /\ c \in Nat /\ l \in Nat /\ b = a + l /\ i <= l /\ b <= c
              BY <6>1, <6>4, <2>1, <4>2, <4>4
            <7> HIDE DEF a, b, c, l
            <7>2. a + i <= c
              BY ONLY <6>1, <7>1
            <7> QED
              BY <7>2 DEF a, c
          <6>3. o[k - 1] + i >= 1 /\ o[k - 1] + i \in Nat
            BY <6>1, <4>2
          <6> QED
            BY <6>2, <6>3, <2>1
        <5>2. f[m][o[k - 1] + i] = f[m - 1][o[k - 1] + i]
          BY <1>9, <5>1
        <5> QED
          BY <4>1, <4>4, <5>2
      <4> QED
        BY <4>3, <4>4
    <3> QED
      BY <3>1, <3>2, <2>0
  <2>3. Filled(m)
    <3> SUFFICES ASSUME NEW j \in 1 .. o[m]
                 PROVE  \E k \in 1 .. n : k <= m /\ o[k - 1] < j /\ j <= o[k]
      OBVIOUS
    <3>1. CASE j <= o[m - 1]
      <4>1. j \in 1 .. o[m - 1]
        BY <3>1, <2>1
      <4>2. PICK k \in 1 .. n : k <= m - 1 /\ o[k - 1] < j /\ j <= o[k]
        BY <1>12, <4>1
      <4> QED
        BY <4>2, <2>0
    <3>2. CASE j > o[m - 1]
      BY <3>2, <2>0
    <3> QED
      BY <3>1, <3>2, <2>1
  <2> QED
    BY <2>0, <2>2, <2>3
<1> HIDE DEF S
<1>13. 0 .. n \subseteq S
  BY <1>0, <1>11, <1>12, BoundedInduction
<1>14. Kept(n) /\ Filled(n)
  BY <1>0, <1>13 DEF S
<1>15. f[n] \in Seq(A) /\ Len(f[n]) = o[n]
  BY <1>0, <1>3 DEF X
<1>16. ASSUME NEW k \in 1 .. n, NEW i \in Nat \ {0}, i <= Len(s[k])
       PROVE  o[k - 1] + i \in 1 .. o[n] /\ f[n][o[k - 1] + i] = s[k][i]
  <2>1. o[k] <= o[n] /\ f[n][o[k - 1] + i] = s[k][i]
    BY <1>14, <1>16, <1>0
  <2>2. o[k] = o[k - 1] + Len(s[k]) /\ o[k] \in Nat /\ o[k - 1] \in Nat /\ Len(s[k]) \in Nat /\ o[n] \in Nat
    BY <1>0, <1>3, <1>4, <1>5, <1>9
  <2> QED
    BY <2>1, <2>2, <1>16
<1>17. \A j \in 1 .. o[n] : \E k \in 1 .. n : o[k - 1] < j /\ j <= o[k]
  BY <1>14
<1> HIDE DEF Kept, Filled
<1> QED
  BY <1>2, <1>10, <1>15, <1>16, <1>17 DEF n

LEMMA PlacesGrow ==
  ASSUME NEW s, NEW o, Places(o, s), Len(s) \in Nat,
         \A k \in 1 .. Len(s) : Len(s[k]) \in Nat
  PROVE  \A a, b \in 0 .. Len(s) : a <= b => o[a] <= o[b]
<1> DEFINE n == Len(s)
           S == {b \in Nat : b <= n => \A a \in 0 .. n : a <= b => o[a] <= o[b]}
<1>0. /\ \A k \in 0 .. n : o[k] \in Nat
      /\ \A k \in 1 .. n : o[k] = o[k - 1] + Len(s[k]) /\ Len(s[k]) \in Nat
  BY DEF Places
<1>1. 0 \in S
  BY <1>0
<1>2. ASSUME NEW b \in 1 .. n, b - 1 \in S
      PROVE  b \in S
  <2> SUFFICES ASSUME NEW a \in 0 .. n, a <= b PROVE o[a] <= o[b]
    OBVIOUS
  <2>1. o[b - 1] <= o[b]
    <3>1. o[b - 1] \in Nat /\ o[b] = o[b - 1] + Len(s[b]) /\ Len(s[b]) \in Nat
      BY <1>0
    <3> QED
      BY ONLY <3>1
  <2>2. CASE a <= b - 1
    <3>1. o[a] <= o[b - 1]
      BY <1>2, <2>2
    <3>2. o[a] \in Nat /\ o[b - 1] \in Nat /\ o[b] \in Nat
      BY <1>0
    <3> QED
      BY ONLY <2>1, <3>1, <3>2
  <2>3. CASE a = b
    BY <1>0, <2>3
  <2> QED
    BY <2>2, <2>3
<1> HIDE DEF S, n
<1>3. 0 .. n \subseteq S
  BY <1>1, <1>2, BoundedInduction DEF n
<1> QED
  BY <1>3 DEF S, n

\* c has the elements of the sequences b[0] to b[n - 1], those of b[r] after
\* the place o[r].
Holds(c, b, n, o) ==
  /\ o \in [0 .. n -> Nat]
  /\ o[0] = 0
  /\ \A r \in 0 .. n - 1 : o[r + 1] = o[r] + Len(b[r])
  /\ Len(c) = o[n]
  /\ \A r \in 0 .. n - 1 : \A i \in 1 .. Len(b[r]) :
       o[r] + i \in 1 .. o[n] /\ c[o[r] + i] = b[r][i]
  /\ \A j \in 1 .. o[n] : \E r \in 0 .. n - 1 : o[r] < j /\ j <= o[r + 1]

LEMMA ConcatHolds ==
  ASSUME NEW A, NEW n \in Nat, NEW b, \A r \in 0 .. n - 1 : b[r] \in Seq(A)
  PROVE  Concat(b, n) \in Seq(A) /\ \E o : Holds(Concat(b, n), b, n, o)
<1> DEFINE s == [i \in 1 .. n |-> b[i - 1]]
<1>1. s \in Seq(Seq(A))
  <2>1. \A i \in 1 .. n : i - 1 \in 0 .. n - 1
    OBVIOUS
  <2>2. s \in [1 .. n -> Seq(A)]
    BY <2>1
  <2> QED
    BY <2>2
<1>2. Len(s) = n /\ \A r \in 0 .. n - 1 : s[r + 1] = b[r]
  OBVIOUS
<1>3. Concat(b, n) = Flattened(s)
  BY DEF Concat
<1> HIDE DEF s
<1>4. PICK o : /\ Places(o, s)
               /\ Flattened(s) \in Seq(A)
               /\ Len(Flattened(s)) = o[Len(s)]
               /\ \A k \in 1 .. Len(s), i \in Nat \ {0} :
                    i <= Len(s[k]) =>
                      /\ o[k - 1] + i \in 1 .. o[Len(s)]
                      /\ Flattened(s)[o[k - 1] + i] = s[k][i]
               /\ \A j \in 1 .. o[Len(s)] :
                    \E k \in 1 .. Len(s) : o[k - 1] < j /\ j <= o[k]
  BY <1>1, JoinPlaces
<1>5. \A r \in 0 .. n - 1 : r + 1 \in 1 .. n /\ (r + 1) - 1 = r
  OBVIOUS
<1>6. o \in [0 .. n -> Nat] /\ o[0] = 0
  BY <1>2, <1>4 DEF Places
<1>7. ASSUME NEW r \in 0 .. n - 1
      PROVE  o[r + 1] = o[r] + Len(b[r])
  BY <1>2, <1>4, <1>5 DEF Places
<1>8. ASSUME NEW r \in 0 .. n - 1, NEW i \in 1 .. Len(b[r])
      PROVE  o[r] + i \in 1 .. o[n] /\ Concat(b, n)[o[r] + i] = b[r][i]
  <2>1. Len(b[r]) \in Nat
    OBVIOUS
  <2>2. i \in Nat \ {0} /\ i <= Len(s[r + 1])
    BY <2>1, <1>2
  <2>3. /\ o[(r + 1) - 1] + i \in 1 .. o[n]
        /\ Flattened(s)[o[(r + 1) - 1] + i] = s[r + 1][i]
    BY <1>2, <1>4, <1>5, <2>2
  <2> QED
    BY <1>2, <1>3, <1>5, <2>3
<1>9. ASSUME NEW j \in 1 .. o[n]
      PROVE  \E r \in 0 .. n - 1 : o[r] < j /\ j <= o[r + 1]
  <2>1. PICK k \in 1 .. n : o[k - 1] < j /\ j <= o[k]
    BY <1>2, <1>4
  <2>2. k - 1 \in 0 .. n - 1 /\ (k - 1) + 1 = k
    OBVIOUS
  <2> QED
    BY <2>1, <2>2
<1>10. Len(Concat(b, n)) = o[n] /\ Concat(b, n) \in Seq(A)
  BY <1>2, <1>3, <1>4
<1> QED
  BY <1>6, <1>7, <1>8, <1>9, <1>10 DEF Holds

\* The elements of a Concat are those of its parts.
LEMMA ConcatElements ==
  ASSUME NEW A, NEW n \in Nat, NEW b, \A r \in 0 .. n - 1 : b[r] \in Seq(A)
  PROVE  \A j \in 1 .. Len(Concat(b, n)) :
           \E r \in 0 .. n - 1 : \E i \in 1 .. Len(b[r]) : Concat(b, n)[j] = b[r][i]
<1>1. PICK o : Holds(Concat(b, n), b, n, o)
  BY ConcatHolds
<1> SUFFICES ASSUME NEW j \in 1 .. Len(Concat(b, n))
             PROVE  \E r \in 0 .. n - 1 : \E i \in 1 .. Len(b[r]) : Concat(b, n)[j] = b[r][i]
  OBVIOUS
<1>2. j \in 1 .. o[n]
  BY <1>1 DEF Holds
<1>3. PICK r \in 0 .. n - 1 : o[r] < j /\ j <= o[r + 1]
  BY <1>1, <1>2 DEF Holds
<1>4. o[r] \in Nat /\ o[r + 1] = o[r] + Len(b[r]) /\ Len(b[r]) \in Nat
  BY <1>1 DEF Holds
<1> DEFINE i == j - o[r]
<1>5. i \in 1 .. Len(b[r]) /\ o[r] + i = j
  BY <1>2, <1>3, <1>4
<1>6. Concat(b, n)[o[r] + i] = b[r][i]
  BY <1>1, <1>5 DEF Holds
<1> QED
  BY <1>5, <1>6

\* Where the shards begin when they lie one after the other.
LEMMA PackedOffsets ==
  ASSUME NEW n \in Nat, NEW sizes \in [0 .. n - 1 -> Nat]
  PROVE  /\ PackedOffset(sizes, 0) = 0
         /\ \A r \in 0 .. n : PackedOffset(sizes, r) \in Nat
         /\ \A r \in 0 .. n - 1 : PackedOffset(sizes, r + 1) = PackedOffset(sizes, r) + sizes[r]
<1> DEFINE h == [x \in (1 .. n) \X Nat |-> x[2] + sizes[x[1] - 1]]
<1>1. Steps(h, n, Nat)
  <2>1. \A x \in (1 .. n) \X Nat : x[2] + sizes[x[1] - 1] \in Nat
    OBVIOUS
  <2> QED
    BY <2>1 DEF Steps
<1>2. \A k \in 1 .. n, x \in Nat : h[<<k, x>>] = x + sizes[k - 1]
  OBVIOUS
<1> HIDE DEF h
<1>3. PICK f : Reached(f, n, Nat, 0, h)
  BY <1>1, RecursionExists
<1>4. /\ DOMAIN f = 0 .. n
      /\ f[0] = 0
      /\ \A k \in 0 .. n : f[k] \in Nat
      /\ \A k \in 1 .. n : f[k - 1] \in Nat /\ f[k] = h[<<k, f[k - 1]>>]
  BY <1>3, ReachedValues
<1>5. \A k \in 1 .. n : f[k] = f[k - 1] + sizes[k - 1]
  BY <1>2, <1>4
<1>6. ASSUME NEW r \in 0 .. n
      PROVE  PackedOffset(sizes, r) = f[r]
  <2> DEFINE Eq(g) == g = [q \in 0 .. r |-> IF q = 0 THEN 0 ELSE g[q - 1] + sizes[q - 1]]
             g0 == [q \in 0 .. r |-> f[q]]
  <2>1. Eq(g0)
    <3>1. \A q \in 0 .. r : f[q] = IF q = 0 THEN 0 ELSE f[q - 1] + sizes[q - 1]
      BY <1>4, <1>5
    <3>2. \A q \in 0 .. r : q # 0 => g0[q - 1] = f[q - 1]
      OBVIOUS
    <3> QED
      BY <3>1, <3>2
  <2>2. ASSUME NEW g, Eq(g)
        PROVE  g[r] = f[r]
    <3> DEFINE S == {q \in Nat : g[q] = f[q]}
    <3>0. \A q \in 0 .. r : g[q] = IF q = 0 THEN 0 ELSE g[q - 1] + sizes[q - 1]
      BY <2>2
    <3>1. 0 \in S
      BY <3>0, <1>4
    <3>2. ASSUME NEW q \in 1 .. r, q - 1 \in S
          PROVE  q \in S
      <4>1. g[q] = g[q - 1] + sizes[q - 1]
        BY <3>0
      <4>2. f[q] = f[q - 1] + sizes[q - 1]
        BY <1>5
      <4>3. g[q - 1] = f[q - 1]
        BY <3>2
      <4> QED
        BY <4>1, <4>2, <4>3
    <3> HIDE DEF S
    <3>3. r \in Nat
      OBVIOUS
    <3>4. 0 .. r \subseteq S
      BY <3>1, <3>2, <3>3, BoundedInduction
    <3> QED
      BY <3>3, <3>4 DEF S
  <2>3. Eq(CHOOSE g : Eq(g))
    BY <2>1
  <2>4. PackedOffset(sizes, r) = (CHOOSE g : Eq(g))[r]
    BY DEF PackedOffset
  <2> HIDE DEF Eq
  <2> QED
    BY <2>2, <2>3, <2>4
<1>7. \A r \in 0 .. n - 1 : r \in 0 .. n /\ r + 1 \in 1 .. n /\ (r + 1) - 1 = r
  OBVIOUS
<1> QED
  BY <1>4, <1>5, <1>6, <1>7

\* The shards lie in rank order and do not overlap.
LEMMA PackedOffsetsGrow ==
  ASSUME NEW n \in Nat, NEW sizes \in [0 .. n - 1 -> Nat]
  PROVE  \A q, r \in 0 .. n : q <= r => PackedOffset(sizes, q) <= PackedOffset(sizes, r)
<1> DEFINE S == {r \in Nat : r <= n => \A q \in 0 .. n : q <= r => PackedOffset(sizes, q) <= PackedOffset(sizes, r)}
<1>0. /\ \A r \in 0 .. n : PackedOffset(sizes, r) \in Nat
      /\ \A r \in 0 .. n - 1 : PackedOffset(sizes, r + 1) = PackedOffset(sizes, r) + sizes[r]
  BY PackedOffsets
<1>1. 0 \in S
  BY <1>0
<1>2. ASSUME NEW r \in 1 .. n, r - 1 \in S
      PROVE  r \in S
  <2> SUFFICES ASSUME NEW q \in 0 .. n, q <= r PROVE PackedOffset(sizes, q) <= PackedOffset(sizes, r)
    OBVIOUS
  <2>1. r - 1 \in 0 .. n - 1 /\ (r - 1) + 1 = r /\ sizes[r - 1] \in Nat
    OBVIOUS
  <2>2. PackedOffset(sizes, r) = PackedOffset(sizes, r - 1) + sizes[r - 1]
    BY <1>0, <2>1
  <2>3. /\ PackedOffset(sizes, r) \in Nat /\ PackedOffset(sizes, r - 1) \in Nat
        /\ PackedOffset(sizes, q) \in Nat
    BY <1>0, <2>1
  <2>4. CASE q <= r - 1
    <3>1. PackedOffset(sizes, q) <= PackedOffset(sizes, r - 1)
      BY <1>2, <2>4
    <3> QED
      BY <2>1, <2>2, <2>3, <3>1
  <2>5. CASE q = r
    BY <2>3, <2>5
  <2> QED
    BY <2>4, <2>5
<1> HIDE DEF S
<1>3. 0 .. n \subseteq S
  BY <1>1, <1>2, BoundedInduction
<1> QED
  BY <1>3 DEF S

\* A place in the packed shards is in the shard of one rank.
LEMMA PackedPlaceUnique ==
  ASSUME NEW n \in Nat, NEW sizes \in [0 .. n - 1 -> Nat], NEW q \in 0 .. n - 1, NEW r \in 0 .. n - 1,
         NEW i \in Nat,
         PackedOffset(sizes, q) <= i, i < PackedOffset(sizes, q + 1),
         PackedOffset(sizes, r) <= i, i < PackedOffset(sizes, r + 1)
  PROVE  q = r
<1>1. \A a \in 0 .. n : PackedOffset(sizes, a) \in Nat
  BY PackedOffsets
<1>2. ASSUME NEW a \in 0 .. n - 1, NEW b \in 0 .. n - 1, a < b,
             PackedOffset(sizes, b) <= i, i < PackedOffset(sizes, a + 1)
      PROVE  FALSE
  <2>1. a + 1 \in 0 .. n /\ b \in 0 .. n /\ a + 1 <= b
    BY <1>2
  <2>2. PackedOffset(sizes, a + 1) <= PackedOffset(sizes, b)
    BY <2>1, PackedOffsetsGrow
  <2>3. PackedOffset(sizes, a + 1) \in Nat /\ PackedOffset(sizes, b) \in Nat
    BY <1>1, <2>1
  <2> QED
    BY <1>2, <2>2, <2>3
<1>3. ~(q < r)
  BY <1>2
<1>4. ~(r < q)
  BY <1>2
<1> QED
  BY <1>3, <1>4

\* What selecting places keeps of a sequence: their elements, in order.
Picks(t, s, P, at) ==
  /\ at \in [1 .. Len(t) -> 1 .. Len(s)]
  /\ \A j \in 1 .. Len(t) : at[j] \in P /\ t[j] = s[at[j]]
  /\ \A j, k \in 1 .. Len(t) : j < k => at[j] < at[k]
  /\ \A i \in 1 .. Len(s) : i \in P => \E j \in 1 .. Len(t) : at[j] = i

LEMMA SelectedPicks ==
  ASSUME NEW A, NEW s \in Seq(A), NEW P
  PROVE  Selected(s, P) \in Seq(A) /\ \E at : Picks(Selected(s, P), s, P, at)
<1> DEFINE n == Len(s)
           p == [i \in 1 .. n |-> IF i \in P THEN <<s[i]>> ELSE <<>>]
           t == Selected(s, P)
<1>0. n \in Nat /\ DOMAIN s = 1 .. n
  OBVIOUS
<1>1. \A i \in 1 .. n : p[i] \in Seq(A) /\ Len(p[i]) \in Nat /\ Len(p[i]) = IF i \in P THEN 1 ELSE 0
  OBVIOUS
<1>2. \A i \in 1 .. n : i \in P => p[i][1] = s[i]
  OBVIOUS
<1>3. p \in Seq(Seq(A)) /\ Len(p) = n
  <2>1. p \in [1 .. n -> Seq(A)]
    BY <1>1
  <2> QED
    BY <2>1, <1>0
<1>4. t = Flattened(p)
  BY <1>0 DEF Selected
<1> HIDE DEF p, t, n
<1>5. PICK o : /\ Places(o, p)
               /\ Flattened(p) \in Seq(A)
               /\ Len(Flattened(p)) = o[Len(p)]
               /\ \A k \in 1 .. Len(p), i \in Nat \ {0} :
                    i <= Len(p[k]) =>
                      /\ o[k - 1] + i \in 1 .. o[Len(p)]
                      /\ Flattened(p)[o[k - 1] + i] = p[k][i]
               /\ \A j \in 1 .. o[Len(p)] :
                    \E k \in 1 .. Len(p) : o[k - 1] < j /\ j <= o[k]
  BY <1>3, JoinPlaces
<1>6. /\ \A k \in 0 .. n : o[k] \in Nat
      /\ \A k \in 1 .. n : k - 1 \in 0 .. n /\ o[k] = o[k - 1] + (IF k \in P THEN 1 ELSE 0)
  <2>1. Places(o, p)
    BY <1>5
  <2>2. o \in [0 .. n -> Nat] /\ \A k \in 1 .. n : o[k] = o[k - 1] + Len(p[k])
    BY <1>3, <2>1 DEF Places
  <2> QED
    BY <1>0, <1>1, <2>2
<1>7. \A a, b \in 0 .. n : a <= b => o[a] <= o[b]
  BY <1>0, <1>1, <1>3, <1>5, PlacesGrow
<1>8. Len(t) = o[n] /\ t \in Seq(A) /\ o[n] \in Nat
  BY <1>0, <1>3, <1>4, <1>5, <1>6
<1>9. ASSUME NEW j \in 1 .. o[n]
      PROVE  \E k \in 1 .. n : k \in P /\ o[k] = j /\ t[j] = s[k]
  <2>1. PICK k \in 1 .. n : o[k - 1] < j /\ j <= o[k]
    BY <1>3, <1>5
  <2>2. o[k] \in Nat /\ o[k - 1] \in Nat /\ o[k] = o[k - 1] + (IF k \in P THEN 1 ELSE 0)
    BY <1>6
  <2>3. k \in P /\ o[k] = o[k - 1] + 1 /\ j = o[k - 1] + 1
    BY <2>1, <2>2
  <2>4. 1 \in Nat \ {0} /\ 1 <= Len(p[k])
    BY <1>1, <2>3
  <2>5. t[o[k - 1] + 1] = p[k][1]
    BY <1>3, <1>4, <1>5, <2>4
  <2> QED
    BY <1>2, <2>3, <2>5
<1> DEFINE at == [j \in 1 .. o[n] |-> CHOOSE k \in 1 .. n : k \in P /\ o[k] = j /\ t[j] = s[k]]
<1>10. \A j \in 1 .. o[n] : at[j] \in 1 .. n /\ at[j] \in P /\ o[at[j]] = j /\ t[j] = s[at[j]]
  BY <1>9
<1>11. at \in [1 .. o[n] -> 1 .. n]
  BY <1>10
<1> HIDE DEF at
<1>12. ASSUME NEW j \in 1 .. o[n], NEW k \in 1 .. o[n], j < k
       PROVE  at[j] < at[k]
  <2>1. at[j] \in 0 .. n /\ at[k] \in 0 .. n /\ o[at[j]] = j /\ o[at[k]] = k
    BY <1>10
  <2>2. SUFFICES ASSUME at[k] <= at[j] PROVE FALSE
    BY <1>0, <2>1
  <2>3. o[at[k]] <= o[at[j]]
    BY <1>7, <2>1, <2>2
  <2> QED
    BY <1>8, <1>12, <2>1, <2>3
<1>13. ASSUME NEW i \in 1 .. n, i \in P
       PROVE  \E j \in 1 .. o[n] : at[j] = i
  <2>1. o[i] = o[i - 1] + 1 /\ o[i] \in Nat /\ o[i - 1] \in Nat /\ o[i] <= o[n] /\ i \in 0 .. n /\ n \in 0 .. n /\ i - 1 \in 0 .. n
    BY <1>0, <1>6, <1>7, <1>13
  <2>2. o[i] \in 1 .. o[n]
    BY <1>8, <2>1
  <2> DEFINE a == at[o[i]]
  <2>3. a \in 1 .. n /\ a \in P /\ o[a] = o[i]
    BY <1>10, <2>2
  <2>4. o[a] = o[a - 1] + 1 /\ a \in 0 .. n /\ a - 1 \in 0 .. n /\ o[a - 1] \in Nat /\ o[a] \in Nat
    BY <1>6, <2>3
  <2> HIDE DEF a
  <2>5. ~(a < i)
    <3> SUFFICES ASSUME a < i PROVE FALSE
      OBVIOUS
    <3>1. a <= i - 1
      BY <2>3, <1>0
    <3>2. o[a] <= o[i - 1]
      BY <1>7, <2>1, <2>4, <3>1
    <3> QED
      BY <2>1, <2>3, <2>4, <3>2
  <2>6. ~(i < a)
    <3> SUFFICES ASSUME i < a PROVE FALSE
      OBVIOUS
    <3>1. i <= a - 1
      BY <2>3, <1>0
    <3>2. o[i] <= o[a - 1]
      BY <1>7, <2>1, <2>4, <3>1
    <3> QED
      BY <2>1, <2>3, <2>4, <3>2
  <2>7. a = i
    BY <1>0, <2>3, <2>5, <2>6
  <2> QED
    BY <2>2, <2>7 DEF a
<1>14. Picks(t, s, P, at)
  BY <1>8, <1>10, <1>11, <1>12, <1>13 DEF Picks, n
<1> QED
  BY <1>8, <1>14 DEF t

-----------------------------------------------------------------------------
(* Coalescing segments *)

Segments(total) == [start : 0 .. total, end : 0 .. total, local : 0 .. total]

\* The elements of the flat buffer that some segments are about.
Within(segs) == UNION {segs[k].start .. segs[k].end - 1 : k \in DOMAIN segs}

NotEmpty(segs) == \A k \in DOMAIN segs : segs[k].start < segs[k].end

LEMMA MergingKeeps ==
  ASSUME NEW total \in Nat, NEW done \in Seq(Segments(total)), NEW seg \in Segments(total),
         NotEmpty(done), seg.start < seg.end
  PROVE  /\ Merging(done, seg) \in Seq(Segments(total))
         /\ NotEmpty(Merging(done, seg))
         /\ \A i \in Nat : i \in Within(Merging(done, seg)) <=>
              i \in Within(done) \/ (seg.start <= i /\ i < seg.end)
<1> DEFINE m == Len(done)
           last == done[m]
           merges == done # <<>> /\ last.end = seg.start /\ LocalEnd(last) = seg.local
<1>0. m \in Nat /\ DOMAIN done = 1 .. m
  OBVIOUS
<1>1. CASE merges
  <2>1. m \in 1 .. m
    BY <1>0, <1>1
  <2>2. last \in Segments(total) /\ last.start < last.end /\ last.end = seg.start
    BY <1>1, <2>1 DEF NotEmpty
  <2> DEFINE new == [last EXCEPT !.end = seg.end]
             res == [done EXCEPT ![m] = new]
  <2>3. new \in Segments(total) /\ new.start = last.start /\ new.end = seg.end
    BY <2>2 DEF Segments
  <2>4. Merging(done, seg) = res
    BY <1>1 DEF Merging
  <2> HIDE DEF new, m, merges, last
  <2>5. res \in Seq(Segments(total)) /\ DOMAIN res = 1 .. m /\ res[m] = new
    BY <1>0, <2>1, <2>3 DEF m
  <2>6. \A k \in 1 .. m : k # m => res[k] = done[k]
    BY <1>0
  <2>7. NotEmpty(res)
    <3>1. seg.start \in Nat /\ seg.end \in Nat /\ last.start \in Nat /\ last.end \in Nat
      BY <2>2 DEF Segments
    <3> QED
      BY <1>0, <2>2, <2>3, <2>5, <2>6, <3>1 DEF NotEmpty
  <2>8. ASSUME NEW i \in Nat
        PROVE  i \in Within(res) <=> i \in Within(done) \/ (seg.start <= i /\ i < seg.end)
    <3>1. seg.start \in Nat /\ seg.end \in Nat /\ last.start \in Nat /\ last.end \in Nat
      BY <2>2 DEF Segments
    <3>2. (i \in new.start .. new.end - 1) <=>
             (i \in last.start .. last.end - 1) \/ (seg.start <= i /\ i < seg.end)
      BY <2>2, <2>3, <3>1
    <3>3. i \in Within(res) <=> \E k \in 1 .. m : i \in res[k].start .. res[k].end - 1
      BY <2>5 DEF Within
    <3>4. i \in Within(done) <=> \E k \in 1 .. m : i \in done[k].start .. done[k].end - 1
      BY <1>0 DEF Within
    <3>5. last = done[m]
      BY DEF last
    <3> HIDE DEF res
    <3> QED
      BY <2>1, <2>5, <2>6, <3>2, <3>3, <3>4, <3>5
  <2> QED
    BY <2>4, <2>5, <2>7, <2>8
<1>2. CASE ~merges
  <2> DEFINE res == Append(done, seg)
  <2>1. Merging(done, seg) = res
    BY <1>2 DEF Merging
  <2>2. /\ res \in Seq(Segments(total)) /\ DOMAIN res = 1 .. m + 1
        /\ res[m + 1] = seg /\ \A k \in 1 .. m : res[k] = done[k]
    BY <1>0
  <2> HIDE DEF res, merges, last, m
  <2>3. NotEmpty(res)
    BY <1>0, <2>2 DEF NotEmpty
  <2>4. ASSUME NEW i \in Nat
        PROVE  i \in Within(res) <=> i \in Within(done) \/ (seg.start <= i /\ i < seg.end)
    <3>1. seg.start \in Nat /\ seg.end \in Nat
      BY DEF Segments
    <3>2. i \in Within(res) <=> \E k \in 1 .. m + 1 : i \in res[k].start .. res[k].end - 1
      BY <2>2 DEF Within
    <3>3. i \in Within(done) <=> \E k \in 1 .. m : i \in done[k].start .. done[k].end - 1
      BY <1>0 DEF Within
    <3>4. (i \in seg.start .. seg.end - 1) <=> (seg.start <= i /\ i < seg.end)
      BY <3>1
    <3>5. \A k \in 1 .. m + 1 : k = m + 1 \/ k \in 1 .. m
      BY <1>0
    <3>6. m + 1 \in 1 .. m + 1 /\ \A k \in 1 .. m : k \in 1 .. m + 1
      BY <1>0
    <3> QED
      BY <2>2, <3>2, <3>3, <3>4, <3>5, <3>6
  <2> QED
    BY <2>1, <2>2, <2>3, <2>4
<1> QED
  BY <1>1, <1>2

\* Merging adjacent segments changes neither their type nor what they are about.
LEMMA MergeAdjacentKeeps ==
  ASSUME NEW total \in Nat, NEW segs \in Seq(Segments(total)), NotEmpty(segs)
  PROVE  /\ MergeAdjacent(segs) \in Seq(Segments(total))
         /\ NotEmpty(MergeAdjacent(segs))
         /\ \A i \in Nat : i \in Within(MergeAdjacent(segs)) <=> i \in Within(segs)
<1> DEFINE n == Len(segs)
           X == {done \in Seq(Segments(total)) : NotEmpty(done)}
           h == [x \in (1 .. n) \X X |-> Merging(x[2], segs[x[1]])]
<1>0. n \in Nat /\ DOMAIN segs = 1 .. n
  OBVIOUS
<1>1. \A k \in 1 .. n : segs[k] \in Segments(total) /\ segs[k].start < segs[k].end
  BY <1>0 DEF NotEmpty
<1>2. \A k \in 1 .. n, x \in X : Merging(x, segs[k]) \in X
  BY <1>1, MergingKeeps
<1>3. <<>> \in X
  BY DEF NotEmpty
<1> HIDE DEF X
<1>4. Steps(h, n, X)
  <2>1. \A x \in (1 .. n) \X X : Merging(x[2], segs[x[1]]) \in X
    BY <1>2
  <2> QED
    BY <2>1 DEF Steps
<1>5. \A k \in 1 .. n, x \in X : h[<<k, x>>] = Merging(x, segs[k])
  OBVIOUS
<1> HIDE DEF h, n
<1>6. PICK f : Reached(f, n, X, <<>>, h)
  BY <1>0, <1>3, <1>4, RecursionExists
<1>7. /\ DOMAIN f = 0 .. n
      /\ f[0] = <<>>
      /\ \A k \in 0 .. n : f[k] \in X
      /\ \A k \in 1 .. n : f[k - 1] \in X /\ f[k] = h[<<k, f[k - 1]>>]
  BY <1>0, <1>6, ReachedValues
<1>8. \A k \in 1 .. n : f[k] = Merging(f[k - 1], segs[k])
  BY <1>5, <1>7
<1>9. MergeAdjacent(segs) = f[n]
  <2> DEFINE Eq(g) == g = [k \in 0 .. n |-> IF k = 0 THEN <<>> ELSE Merging(g[k - 1], segs[k])]
             g0 == [k \in 0 .. n |-> f[k]]
  <2>1. Eq(g0)
    <3>1. \A k \in 0 .. n : f[k] = IF k = 0 THEN <<>> ELSE Merging(f[k - 1], segs[k])
      BY <1>0, <1>7, <1>8
    <3>2. \A k \in 0 .. n : k # 0 => g0[k - 1] = f[k - 1]
      BY <1>0
    <3> QED
      BY <3>1, <3>2
  <2>2. ASSUME NEW g, Eq(g)
        PROVE  g[n] = f[n]
    <3> DEFINE S == {k \in Nat : g[k] = f[k]}
    <3>0. \A k \in 0 .. n : g[k] = IF k = 0 THEN <<>> ELSE Merging(g[k - 1], segs[k])
      BY <2>2
    <3>1. 0 \in S
      BY <3>0, <1>0, <1>7
    <3>2. ASSUME NEW k \in 1 .. n, k - 1 \in S
          PROVE  k \in S
      <4>1. g[k] = Merging(g[k - 1], segs[k])
        BY <3>0, <1>0
      <4>2. f[k] = Merging(f[k - 1], segs[k])
        BY <1>8
      <4>3. g[k - 1] = f[k - 1]
        BY <3>2
      <4> QED
        BY <1>0, <4>1, <4>2, <4>3
    <3> HIDE DEF S
    <3>3. 0 .. n \subseteq S
      BY <1>0, <3>1, <3>2, BoundedInduction
    <3> QED
      BY <1>0, <3>3 DEF S
  <2>3. Eq(CHOOSE g : Eq(g))
    BY <2>1
  <2>4. MergeAdjacent(segs) = (CHOOSE g : Eq(g))[n]
    BY DEF MergeAdjacent, n
  <2> HIDE DEF Eq
  <2> QED
    BY <2>2, <2>3, <2>4
<1> DEFINE About(k) == \A i \in Nat : i \in Within(f[k]) <=>
                         \E j \in 1 .. k : segs[j].start <= i /\ i < segs[j].end
           S == {k \in 0 .. n : About(k)}
<1>10. 0 \in S
  <2>1. Within(f[0]) = {}
    BY <1>7 DEF Within
  <2> QED
    BY <1>0, <2>1
<1>11. ASSUME NEW k \in 1 .. n, k - 1 \in S
       PROVE  k \in S
  <2>1. f[k - 1] \in Seq(Segments(total)) /\ NotEmpty(f[k - 1]) /\ f[k] = Merging(f[k - 1], segs[k])
    BY <1>7, <1>8 DEF X
  <2>2. \A i \in Nat : i \in Within(f[k]) <=>
              i \in Within(f[k - 1]) \/ (segs[k].start <= i /\ i < segs[k].end)
    BY <1>1, <2>1, MergingKeeps
  <2>3. About(k - 1)
    BY <1>11
  <2>4. \A j \in 1 .. k : j = k \/ j \in 1 .. k - 1
    BY <1>0
  <2>5. k \in 1 .. k /\ \A j \in 1 .. k - 1 : j \in 1 .. k
    BY <1>0
  <2>6. About(k)
    BY <2>2, <2>3, <2>4, <2>5
  <2> QED
    BY <1>0, <2>6
<1> HIDE DEF S
<1>12. 0 .. n \subseteq S
  BY <1>0, <1>10, <1>11, BoundedInduction
<1>13. About(n)
  BY <1>0, <1>12 DEF S
<1>14. \A i \in Nat : i \in Within(segs) <=> \E j \in 1 .. n : segs[j].start <= i /\ i < segs[j].end
  <2>1. \A j \in 1 .. n : segs[j].start \in Nat /\ segs[j].end \in Nat
    BY <1>1 DEF Segments
  <2>2. \A j \in 1 .. n, i \in Nat :
          (i \in segs[j].start .. segs[j].end - 1) <=> (segs[j].start <= i /\ i < segs[j].end)
    BY <2>1
  <2> QED
    BY <1>0, <2>2 DEF Within
<1> QED
  BY <1>0, <1>7, <1>9, <1>13, <1>14 DEF X
=============================================================================
