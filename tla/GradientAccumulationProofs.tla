----------------------- MODULE GradientAccumulationProofs -----------------------
(***************************************************************************)
(* The training loop keeps the promise of GradientAccumulation, for any    *)
(* number of units and parameters, any owners, budgets and programs.       *)
(*                                                                         *)
(* A gradient passes through the tensor autograd made, the bucket, the     *)
(* result of a reduce in flight and the local shard, and what moves it is  *)
(* often a handler of another unit.  The proof goes in four layers:        *)
(*                                                                         *)
(*   counts     sums of contributions, which moving one does not change    *)
(*   groups     where gradients may be (GradsOK), and what each operation  *)
(*              of the flat buffer does to what a group holds (HeldBy)     *)
(*   runtimes   handlers leave what the other groups hold (KeepsGrads)     *)
(*   the loop   GradInv: which units may accumulate, which have been       *)
(*              reduced, and which passes have contributed                 *)
(***************************************************************************)
EXTENDS TrainingLoopProofs

-----------------------------------------------------------------------------
(* Counts *)

Counts == [Micros -> Nat]

LEMMA ZeroCounts ==
  /\ Zero \in Counts /\ ZeroGrads \in Gradients
  /\ \A p \in Params : ZeroGrads[p] = Zero
  /\ \A m : OnePass(m) \in Counts
BY DEF Zero, ZeroGrads, OnePass, Counts, Gradients

LEMMA PlusCounts ==
  ASSUME NEW a \in Counts, NEW b \in Counts
  PROVE  Plus(a, b) \in Counts /\ \A m \in Micros : Plus(a, b)[m] = a[m] + b[m]
BY DEF Plus, Counts

LEMMA PlusGradsCounts ==
  ASSUME NEW a \in Gradients, NEW b \in Gradients
  PROVE  /\ PlusGrads(a, b) \in Gradients
         /\ \A p \in Params : PlusGrads(a, b)[p] = Plus(a[p], b[p])
<1>1. \A p \in Params : a[p] \in Counts /\ b[p] \in Counts
  BY DEF Gradients, Counts
<1> QED
  BY <1>1, PlusCounts DEF PlusGrads, Gradients, Counts

\* The four places a gradient can be in.
Sum(a, b, c, d) == Plus(Plus(a, b), Plus(c, d))

LEMMA SumCounts ==
  ASSUME NEW a \in Counts, NEW b \in Counts, NEW c \in Counts, NEW d \in Counts
  PROVE  /\ Sum(a, b, c, d) \in Counts
         /\ \A m \in Micros : Sum(a, b, c, d)[m] = (a[m] + b[m]) + (c[m] + d[m])
BY PlusCounts DEF Sum

\* Counts are equal when they agree on every pass.
LEMMA EqualCounts ==
  ASSUME NEW a \in Counts, NEW b \in Counts, \A m \in Micros : a[m] = b[m]
  PROVE  a = b
BY DEF Counts

LEMMA SumMoves ==
  ASSUME NEW a \in Counts, NEW b \in Counts, NEW c \in Counts, NEW d \in Counts
  PROVE  /\ Sum(a, b, Zero, d) = Sum(a, b, d, Zero)
         /\ Sum(a, b, Plus(c, d), Zero) = Sum(a, b, c, d)
         /\ Sum(Zero, Plus(b, a), c, d) = Sum(a, b, c, d)
         /\ Sum(Zero, Zero, c, Plus(a, b)) = Sum(a, b, c, Zero)
         /\ Sum(Plus(a, d), b, c, Zero) = Plus(Sum(a, b, c, Zero), d)
         /\ Sum(a, Plus(b, d), c, Zero) = Plus(Sum(a, b, c, Zero), d)
         /\ Plus(a, Zero) = a /\ Plus(Zero, a) = a
<1>1. \A m \in Micros : /\ a[m] \in Nat /\ b[m] \in Nat /\ c[m] \in Nat /\ d[m] \in Nat
                        /\ Zero[m] = 0
  BY DEF Counts, Zero
<1>2. Zero \in Counts /\ Plus(c, d) \in Counts /\ Plus(b, a) \in Counts
      /\ Plus(a, b) \in Counts /\ Plus(a, d) \in Counts /\ Plus(b, d) \in Counts
  BY ZeroCounts, PlusCounts
<1>3. Sum(a, b, Zero, d) = Sum(a, b, d, Zero)
  <2>1. \A m \in Micros : Sum(a, b, Zero, d)[m] = Sum(a, b, d, Zero)[m]
    BY <1>1, <1>2, SumCounts
  <2> QED
    BY <1>2, <2>1, SumCounts, EqualCounts
<1>4. Sum(a, b, Plus(c, d), Zero) = Sum(a, b, c, d)
  <2>1. \A m \in Micros : Sum(a, b, Plus(c, d), Zero)[m] = Sum(a, b, c, d)[m]
    BY <1>1, <1>2, SumCounts, PlusCounts
  <2> QED
    BY <1>2, <2>1, SumCounts, EqualCounts
<1>5. Sum(Zero, Plus(b, a), c, d) = Sum(a, b, c, d)
  <2>1. \A m \in Micros : Sum(Zero, Plus(b, a), c, d)[m] = Sum(a, b, c, d)[m]
    BY <1>1, <1>2, SumCounts, PlusCounts
  <2> QED
    BY <1>2, <2>1, SumCounts, EqualCounts
<1>6. Sum(Zero, Zero, c, Plus(a, b)) = Sum(a, b, c, Zero)
  <2>1. \A m \in Micros : Sum(Zero, Zero, c, Plus(a, b))[m] = Sum(a, b, c, Zero)[m]
    BY <1>1, <1>2, SumCounts, PlusCounts
  <2> QED
    BY <1>2, <2>1, SumCounts, EqualCounts
<1>7. /\ Sum(Plus(a, d), b, c, Zero) = Plus(Sum(a, b, c, Zero), d)
      /\ Sum(a, Plus(b, d), c, Zero) = Plus(Sum(a, b, c, Zero), d)
  <2>1. Sum(a, b, c, Zero) \in Counts /\ Plus(Sum(a, b, c, Zero), d) \in Counts
    BY <1>2, SumCounts, PlusCounts
  <2>2. \A m \in Micros : Plus(Sum(a, b, c, Zero), d)[m] = (a[m] + b[m]) + c[m] + d[m]
    BY <1>1, <1>2, <2>1, SumCounts, PlusCounts
  <2>3. \A m \in Micros : /\ Sum(Plus(a, d), b, c, Zero)[m] = (a[m] + b[m]) + c[m] + d[m]
                          /\ Sum(a, Plus(b, d), c, Zero)[m] = (a[m] + b[m]) + c[m] + d[m]
    BY <1>1, <1>2, SumCounts, PlusCounts
  <2> QED
    BY <1>2, <2>1, <2>2, <2>3, SumCounts, EqualCounts
<1>8. Plus(a, Zero) = a /\ Plus(Zero, a) = a
  <2>1. \A m \in Micros : Plus(a, Zero)[m] = a[m] /\ Plus(Zero, a)[m] = a[m]
    BY <1>1, <1>2, PlusCounts
  <2> QED
    BY <1>2, <2>1, PlusCounts, EqualCounts
<1> QED
  BY <1>3, <1>4, <1>5, <1>6, <1>7, <1>8

LEMMA SumIsZero ==
  ASSUME NEW a \in Counts, NEW b \in Counts, NEW c \in Counts, NEW d \in Counts,
         Sum(a, b, c, d) = Zero
  PROVE  a = Zero /\ b = Zero /\ c = Zero /\ d = Zero
<1>1. \A m \in Micros : (a[m] + b[m]) + (c[m] + d[m]) = 0
  BY SumCounts DEF Zero
<1>2. \A m \in Micros : /\ a[m] \in Nat /\ b[m] \in Nat /\ c[m] \in Nat /\ d[m] \in Nat
                        /\ Zero[m] = 0
  BY DEF Counts, Zero
<1>3. ASSUME NEW m \in Micros
      PROVE  a[m] = 0 /\ b[m] = 0 /\ c[m] = 0 /\ d[m] = 0
  <2> DEFINE i == a[m]  j == b[m]  k == c[m]  l == d[m]
  <2>1. i \in Nat /\ j \in Nat /\ k \in Nat /\ l \in Nat /\ (i + j) + (k + l) = 0
    BY <1>1, <1>2
  <2> HIDE DEF i, j, k, l
  <2>2. i = 0 /\ j = 0 /\ k = 0 /\ l = 0
    BY <2>1
  <2> QED
    BY <2>2 DEF i, j, k, l
<1> QED
  BY <1>2, <1>3, ZeroCounts, EqualCounts

-----------------------------------------------------------------------------
(* The stores of a group *)

\* The gradients of a group are where autograd and the flat buffer may have
\* left them: one no reduce has taken over is shown by its parameter.
StoresOK(g) ==
  /\ g.reduced \in Gradients
  /\ g.ref \in [Params -> Stores \cup {None}]
  /\ g.store \in [Stores -> Gradients \cup {None}]
  /\ g.store["own"] # None /\ g.store["full"] = None
  /\ \A p \in Params :
       /\ g.ref[p] # "own" => g.store["own"][p] = Zero
       /\ g.ref[p] # None => g.store[g.ref[p]] # None
  /\ g.reduce = "none" => g.reduced = ZeroGrads
  /\ g.reduce # "none" => g.store["own"] = ZeroGrads /\ g.store["bucket"] = None
  /\ g.reduce = "fresh" => g.store["local"] = ZeroGrads
  /\ GradPath = "zero_copy" /\ g.store["bucket"] # None =>
       \A p \in Params : g.ref[p] = "bucket"

\* What autograd accumulates next is not shown by a parameter yet, or is in a
\* tensor of its own.
Unreduced(g) == \A p \in Params : g.ref[p] \in {None, "own"}

\* Gradients kept for later passes are kept in the bucket.
DeferOK(g) ==
  /\ g.reduce # "none" => ~g.defer
  /\ GradPath = "copy_in" /\ g.store["bucket"] # None => g.defer
  /\ GradPath = "copy_in" /\ g.defer => Unreduced(g)

GradsOK(g) == StoresOK(g) /\ DeferOK(g)

\* Autograd may accumulate into the group.
Ready(g) ==
  IF GradPath = "zero_copy" THEN \A p \in Params : g.ref[p] = "bucket" ELSE Unreduced(g)

\* A parameter shows the local shard, or will when the reduce is waited for.
Shown(g, u) ==
  g.store["bucket"] = None /\ (g.reduce # "add" => \A p \in Owned[u] : g.ref[p] = "local")

LEMMA StoredCounts ==
  ASSUME NEW g, StoresOK(g)
  PROVE  /\ \A t \in Stores : g.store[t] # None => g.store[t] \in Gradients
         /\ \A p \in Params :
              /\ \A t \in Stores : g.store[t] # None => g.store[t][p] \in Counts
              /\ \A t \in Stores : InStore(g, t, p) \in Counts
              /\ g.reduced[p] \in Counts
              /\ GradOf(g, p) \in Counts
         /\ ParamGrads(g) \in Gradients
<1>1. \A t \in Stores : g.store[t] # None => g.store[t] \in Gradients
  BY DEF StoresOK
<1>2. \A x \in Gradients, p \in Params : x[p] \in Counts
  BY DEF Gradients, Counts
<1>3. ASSUME NEW p \in Params
      PROVE  /\ \A t \in Stores : g.store[t] # None => g.store[t][p] \in Counts
             /\ \A t \in Stores : InStore(g, t, p) \in Counts
             /\ g.reduced[p] \in Counts
             /\ GradOf(g, p) \in Counts
  <2>1. g.reduced[p] \in Counts
    BY <1>2 DEF StoresOK
  <2>2. \A t \in Stores : g.store[t] # None => g.store[t][p] \in Counts
    BY <1>1, <1>2
  <2>3. \A t \in Stores : InStore(g, t, p) \in Counts
    BY <2>2, ZeroCounts DEF InStore
  <2>4. g.ref[p] \in Stores \cup {None} /\ (g.ref[p] # None => g.store[g.ref[p]] # None)
    BY DEF StoresOK
  <2>5. GradOf(g, p) \in Counts
    BY <2>2, <2>4, ZeroCounts DEF GradOf
  <2> QED
    BY <2>1, <2>2, <2>3, <2>5
<1>4. ParamGrads(g) \in Gradients
  BY <1>3 DEF ParamGrads, Gradients, Counts
<1> QED
  BY <1>1, <1>3, <1>4

LEMMA HeldIsSum ==
  ASSUME NEW g, StoresOK(g), NEW p \in Params
  PROVE  HeldBy(g, p) = Sum(g.store["own"][p], InStore(g, "bucket", p),
                            InStore(g, "local", p), g.reduced[p])
<1> DEFINE a == InStore(g, "own", p)
           b == InStore(g, "bucket", p)
           c == InStore(g, "local", p)
           d == g.reduced[p]
           held == Plus(Plus(Plus(a, Zero), Plus(b, c)), d)
<1>1. a \in Counts /\ b \in Counts /\ c \in Counts /\ d \in Counts /\ Zero \in Counts
  BY StoredCounts, ZeroCounts DEF Stores
<1>2. a = g.store["own"][p] /\ InStore(g, "full", p) = Zero
  BY DEF StoresOK, InStore
<1>3. HeldBy(g, p) = held
  BY <1>2 DEF HeldBy
<1> HIDE DEF a, b, c, d
<1>4. Plus(a, Zero) = a /\ Plus(b, c) \in Counts
  BY <1>1, SumMoves, PlusCounts
<1>5. Plus(a, Plus(b, c)) \in Counts /\ held = Plus(Plus(a, Plus(b, c)), d)
  BY <1>1, <1>4, PlusCounts
<1>6. \A m \in Micros : held[m] = (a[m] + (b[m] + c[m])) + d[m]
  BY <1>1, <1>4, <1>5, PlusCounts
<1>7. \A m \in Micros : a[m] \in Nat /\ b[m] \in Nat /\ c[m] \in Nat /\ d[m] \in Nat
  BY <1>1 DEF Counts
<1>8. \A m \in Micros : Sum(a, b, c, d)[m] = held[m]
  BY <1>1, <1>6, <1>7, SumCounts
<1>9. held = Sum(a, b, c, d)
  BY <1>1, <1>5, <1>8, PlusCounts, SumCounts, EqualCounts
<1> QED
  BY <1>2, <1>3, <1>9 DEF b, c, d

\* What other groups' handlers leave of a group: reduces may have been waited
\* for, and nothing else has happened to its gradients.
KeepsGrads(g, h, u) ==
  StoresOK(g) =>
    /\ StoresOK(h)
    /\ h.pend = g.pend /\ h.seen = g.seen
    /\ h.depth = g.depth /\ h.defer = g.defer /\ h.final = g.final
    /\ h.store["own"] = g.store["own"] /\ h.store["bucket"] = g.store["bucket"]
    /\ \A p \in Params : HeldBy(h, p) = HeldBy(g, p)
    /\ Shown(g, u) => Shown(h, u)
    /\ g.reduce = "none" => SameGrads(g, h)

LEMMA SameGradsHold ==
  ASSUME NEW g, NEW h, SameGrads(g, h)
  PROVE  /\ StoresOK(g) => StoresOK(h)
         /\ DeferOK(g) => DeferOK(h)
         /\ \A p : HeldBy(h, p) = HeldBy(g, p) /\ GradOf(h, p) = GradOf(g, p)
         /\ \A u : Shown(g, u) => Shown(h, u)
<1>1. StoresOK(g) => StoresOK(h)
  BY DEF SameGrads, StoresOK
<1>2. DeferOK(g) => DeferOK(h)
  BY DEF SameGrads, DeferOK, Unreduced
<1>3. \A p : HeldBy(h, p) = HeldBy(g, p) /\ GradOf(h, p) = GradOf(g, p)
  BY DEF SameGrads, HeldBy, InStore, GradOf
<1>4. \A u : Shown(g, u) => Shown(h, u)
  BY DEF SameGrads, Shown
<1> QED
  BY <1>1, <1>2, <1>3, <1>4

LEMMA SameGradsKeeps ==
  ASSUME NEW g, NEW h, NEW u, SameGrads(g, h)
  PROVE  KeepsGrads(g, h, u)
<1>1. /\ h.pend = g.pend /\ h.seen = g.seen
      /\ h.depth = g.depth /\ h.defer = g.defer /\ h.final = g.final
      /\ h.store = g.store
  BY DEF SameGrads
<1> QED
  BY <1>1, SameGradsHold DEF KeepsGrads

LEMMA KeepsTransitive ==
  ASSUME NEW f, NEW g, NEW h, NEW u, KeepsGrads(f, g, u), KeepsGrads(g, h, u)
  PROVE  KeepsGrads(f, h, u)
<1> SUFFICES ASSUME StoresOK(f)
             PROVE  KeepsGrads(f, h, u)
  BY DEF KeepsGrads
<1>1. StoresOK(g)
  BY DEF KeepsGrads
<1>2. f.reduce = "none" => SameGrads(f, h)
  <2>1. f.reduce = "none" => g.reduce = "none"
    BY DEF KeepsGrads, SameGrads
  <2> QED
    BY <1>1, <2>1 DEF KeepsGrads, SameGrads
<1> QED
  BY <1>1, <1>2 DEF KeepsGrads

LEMMA NothingIsNoGrad == ZeroGrads # None /\ None \notin Stores
BY ZeroCounts, NothingAssumption

\* The result of a reduce is the local shard, or is added to it.
LEMMA WaitKeepsGrads ==
  ASSUME NEW g, NEW u \in Units, IsGroup(g)
  PROVE  KeepsGrads(g, WaitPostBackwardReduce(g, u), u)
<1> DEFINE h == WaitPostBackwardReduce(g, u)
<1> SUFFICES ASSUME StoresOK(g)
             PROVE  KeepsGrads(g, h, u)
  BY DEF KeepsGrads
<1>1. CASE g.reduce = "none"
  BY <1>1, SameGradsKeeps DEF WaitPostBackwardReduce, SameGrads
<1>2. CASE g.reduce = "fresh"
  <2>1. h = [g EXCEPT !.reduce = "none", !.reduced = ZeroGrads,
                      !.store["local"] = IF @ = None THEN None ELSE g.reduced]
    BY <1>2 DEF WaitPostBackwardReduce
  <2>2. /\ g.store["local"] = ZeroGrads /\ g.store["local"] # None
        /\ DOMAIN g.store = Stores
    BY <1>2, NothingIsNoGrad DEF StoresOK
  <2>3. /\ h.reduce = "none" /\ h.reduced = ZeroGrads /\ h.ref = g.ref
        /\ h.pend = g.pend /\ h.seen = g.seen
        /\ h.depth = g.depth /\ h.defer = g.defer /\ h.final = g.final
        /\ h.store = [g.store EXCEPT !["local"] = g.reduced]
    BY <2>1, <2>2 DEF IsGroup, GroupFields, Stores
  <2> HIDE DEF h
  <2>4. /\ h.store["local"] = g.reduced
        /\ \A t \in Stores \ {"local"} : h.store[t] = g.store[t]
    BY <2>2, <2>3 DEF Stores
  <2>5. StoresOK(h)
    <3>1. g.reduced \in Gradients /\ g.reduced # None
      BY NothingAssumption DEF StoresOK
    <3>2. h.store \in [Stores -> Gradients \cup {None}]
      BY <2>3, <3>1 DEF StoresOK
    <3>3. \A p \in Params : h.ref[p] # None => h.store[h.ref[p]] # None
      BY <2>3, <2>4, <3>1 DEF StoresOK
    <3> QED
      BY <1>2, <2>3, <2>4, <3>2, <3>3, ZeroCounts DEF StoresOK, Stores
  <2>6. ASSUME NEW p \in Params
        PROVE  HeldBy(h, p) = HeldBy(g, p)
    <3>1. /\ InStore(h, "local", p) = g.reduced[p] /\ InStore(h, "bucket", p) = InStore(g, "bucket", p)
          /\ InStore(g, "local", p) = Zero /\ h.reduced[p] = Zero
          /\ h.store["own"][p] = g.store["own"][p]
      BY <2>2, <2>3, <2>4, ZeroCounts, NothingAssumption DEF InStore, StoresOK, Stores
    <3>2. /\ g.store["own"][p] \in Counts /\ InStore(g, "bucket", p) \in Counts
          /\ g.reduced[p] \in Counts
      BY StoredCounts DEF StoresOK, Stores
    <3> QED
      BY <2>5, <3>1, <3>2, HeldIsSum, SumMoves
  <2>7. Shown(g, u) => Shown(h, u)
    BY <1>2, <2>3, <2>4 DEF Shown, Stores
  <2> QED
    BY <1>2, <2>3, <2>4, <2>5, <2>6, <2>7 DEF KeepsGrads, Stores
<1>3. CASE g.reduce = "add"
  <2> DEFINE f == [g EXCEPT !.reduce = "none", !.reduced = ZeroGrads]
             new == IF g.store["local"] = None THEN g.reduced
                                               ELSE PlusGrads(g.store["local"], g.reduced)
  <2>1. h = [PointGrads(f, Owned[u], "local") EXCEPT !.store["local"] = new]
    BY <1>3 DEF WaitPostBackwardReduce, AccumulateLocalGradShard, UseLocalGradShard,
                IsGroup, GroupFields
  <2>2. DOMAIN g.store = Stores
    BY DEF StoresOK
  <2>3. /\ h.reduce = "none" /\ h.reduced = ZeroGrads
        /\ h.ref = [p \in Params |-> IF p \in Owned[u] THEN "local" ELSE None]
        /\ h.pend = g.pend /\ h.seen = g.seen
        /\ h.depth = g.depth /\ h.defer = g.defer /\ h.final = g.final
        /\ h.store = [g.store EXCEPT !["own"] = ZeroGrads, !["local"] = new]
    BY <2>1, <2>2 DEF PointGrads, IsGroup, GroupFields, Stores
  <2> HIDE DEF h
  <2>4. /\ h.store["local"] = new
        /\ h.store["own"] = ZeroGrads /\ g.store["own"] = ZeroGrads
        /\ \A t \in Stores \ {"local", "own"} : h.store[t] = g.store[t]
        /\ g.store["bucket"] = None
    BY <1>3, <2>2, <2>3 DEF Stores, StoresOK
  <2>5. new \in Gradients /\ new # None
    BY StoredCounts, PlusGradsCounts, NothingAssumption DEF StoresOK, Stores
  <2>6. \A p \in Params : new[p] = Plus(InStore(g, "local", p), g.reduced[p])
    BY StoredCounts, PlusGradsCounts, SumMoves DEF StoresOK, Stores, InStore
  <2> HIDE DEF new
  <2>7. StoresOK(h)
    <3>1. h.store \in [Stores -> Gradients \cup {None}]
      BY <2>3, <2>5, ZeroCounts DEF StoresOK
    <3>2. \A p \in Params : /\ h.ref[p] \in Stores \cup {None}
                            /\ h.ref[p] # None => h.store[h.ref[p]] # None
      BY <2>3, <2>4, <2>5 DEF Stores
    <3>3. h.ref \in [Params -> Stores \cup {None}]
      BY <2>3 DEF Stores
    <3> QED
      BY <2>3, <2>4, <3>1, <3>2, <3>3, ZeroCounts, NothingIsNoGrad DEF StoresOK, Stores
  <2>8. ASSUME NEW p \in Params
        PROVE  HeldBy(h, p) = HeldBy(g, p)
    <3>1. /\ InStore(h, "local", p) = Plus(InStore(g, "local", p), g.reduced[p])
          /\ InStore(h, "bucket", p) = InStore(g, "bucket", p)
          /\ h.reduced[p] = Zero
          /\ h.store["own"][p] = g.store["own"][p]
      BY <2>3, <2>4, <2>5, <2>6, ZeroCounts DEF InStore, Stores
    <3>2. /\ g.store["own"][p] \in Counts /\ InStore(g, "bucket", p) \in Counts
          /\ g.reduced[p] \in Counts /\ InStore(g, "local", p) \in Counts
      BY StoredCounts DEF StoresOK, Stores
    <3> QED
      BY <2>7, <3>1, <3>2, HeldIsSum, SumMoves
  <2>9. Shown(h, u)
    BY <2>3, <2>4, OwnedAssumption DEF Shown, Stores
  <2> QED
    BY <1>3, <2>3, <2>4, <2>7, <2>8, <2>9 DEF KeepsGrads, Stores
<1> QED
  BY <1>1, <1>2, <1>3 DEF IsGroup

LEMMA DeferKept ==
  ASSUME NEW g, NEW h, NEW u, StoresOK(g), DeferOK(g), KeepsGrads(g, h, u)
  PROVE  DeferOK(h)
<1>1. CASE g.reduce = "none"
  BY <1>1, SameGradsHold DEF KeepsGrads
<1>2. CASE g.reduce # "none"
  BY <1>2 DEF KeepsGrads, DeferOK
<1> QED
  BY <1>1, <1>2

LEMMA OwnIsZero ==
  ASSUME NEW g, StoresOK(g), \A p \in Params : g.store["own"][p] = Zero
  PROVE  g.store["own"] = ZeroGrads
<1>1. g.store["own"] \in Gradients
  BY StoredCounts DEF StoresOK, Stores
<1> QED
  BY <1>1 DEF Gradients, ZeroGrads

\* A group whose bucket holds nothing that is not deferred.
Spent(g) ==
  /\ g.store["own"] = ZeroGrads
  /\ g.store["bucket"] = None \/ g.defer

\* New storage loses no gradient when what the old held is deferred.
LEMMA PreparedGrads ==
  ASSUME NEW g, DOMAIN g = GroupFields, GradPath # "flat",
         GradsOK(g), Spent(g), g.reduce = "none"
  PROVE  LET h == PrepareBackwardGradStorage(g)
         IN  /\ GradsOK(h) /\ Ready(h)
             /\ h.store["own"] = ZeroGrads
             /\ h.pend = g.pend /\ h.seen = g.seen
             /\ h.depth = g.depth /\ h.final = g.final /\ h.reduce = "none"
             /\ \A p \in Params : HeldBy(h, p) = HeldBy(g, p)
<1> DEFINE h == PrepareBackwardGradStorage(g)
           defer == g.defer \/ g.depth > 0
           kept == IF GradPath = "zero_copy"
                     THEN IF defer /\ g.store["bucket"] # None
                            THEN g.store["bucket"] ELSE ZeroGrads
                     ELSE IF defer THEN g.store["bucket"] ELSE None
           shown == IF GradPath = "zero_copy" THEN "bucket" ELSE None
<1>1. /\ StoresOK(g) /\ DeferOK(g) /\ g.store["own"] = ZeroGrads
      /\ g.store["bucket"] = None \/ g.defer
      /\ GradPath \in {"zero_copy", "copy_in"}
      /\ DOMAIN g.store = Stores
  BY GradPathAssumption DEF GradsOK, Spent, StoresOK
<1>2. /\ h.defer = defer /\ h.reduce = g.reduce /\ h.reduced = g.reduced
      /\ h.pend = g.pend /\ h.seen = g.seen
      /\ h.depth = g.depth /\ h.final = g.final
      /\ h.ref = [p \in Params |-> shown]
      /\ h.store = [g.store EXCEPT !["own"] = ZeroGrads, !["bucket"] = kept]
  <2>1. CASE GradPath = "zero_copy"
    BY <1>1, <2>1 DEF PrepareBackwardGradStorage, PointGrads, GroupFields, Stores
  <2>2. CASE GradPath = "copy_in"
    BY <1>1, <2>2 DEF PrepareBackwardGradStorage, FreeGrads, PointGrads, GroupFields, Stores
  <2> QED
    BY <1>1, <2>1, <2>2
<1>3. /\ kept = g.store["bucket"]
         \/ (g.store["bucket"] = None /\ kept = ZeroGrads)
      /\ GradPath = "zero_copy" => kept # None
      /\ GradPath = "copy_in" /\ kept # None => defer
      /\ kept \in Gradients \cup {None}
  BY <1>1, ZeroCounts, NothingIsNoGrad DEF StoresOK, Stores
<1> HIDE DEF h, kept, defer
<1>4. /\ h.store["own"] = ZeroGrads /\ h.store["bucket"] = kept
      /\ \A t \in Stores \ {"own", "bucket"} : h.store[t] = g.store[t]
      /\ \A p \in Params : h.ref[p] = shown
      /\ h.reduce = "none"
  BY <1>1, <1>2 DEF Stores
<1>5. StoresOK(h)
  <2>1. h.store \in [Stores -> Gradients \cup {None}]
    <3>1. g.store \in [Stores -> Gradients \cup {None}]
      BY <1>1 DEF StoresOK
    <3>2. ZeroGrads \in Gradients \cup {None} /\ kept \in Gradients \cup {None}
      BY <1>3, ZeroCounts
    <3> DEFINE contents == Gradients \cup {None}
               first == [g.store EXCEPT !["own"] = ZeroGrads]
    <3>3. first \in [Stores -> contents]
      <4> HIDE DEF contents
      <4> QED
        BY <3>1, <3>2 DEF contents
    <3> HIDE DEF contents, first
    <3>4. [first EXCEPT !["bucket"] = kept] \in [Stores -> contents]
      BY <3>2, <3>3 DEF contents
    <3> QED
      BY <1>2, <3>4 DEF contents, first
  <2>2. h.ref \in [Params -> Stores \cup {None}]
    BY <1>2 DEF Stores
  <2>3. \A p \in Params : h.ref[p] # None => h.store[h.ref[p]] # None
    BY <1>3, <1>4
  <2> QED
    BY <1>1, <1>2, <1>4, <2>1, <2>2, <2>3, ZeroCounts, NothingIsNoGrad DEF StoresOK, Stores
<1>6. DeferOK(h) /\ Ready(h)
  BY <1>1, <1>2, <1>3, <1>4 DEF DeferOK, Unreduced, Ready
<1>7. ASSUME NEW p \in Params
      PROVE  HeldBy(h, p) = HeldBy(g, p)
  <2>1. /\ InStore(h, "bucket", p) = InStore(g, "bucket", p)
        /\ InStore(h, "local", p) = InStore(g, "local", p)
    BY <1>3, <1>4, ZeroCounts DEF InStore, Stores
  <2>2. HeldBy(h, p) = Sum(h.store["own"][p], InStore(h, "bucket", p),
                           InStore(h, "local", p), h.reduced[p])
    BY <1>5, HeldIsSum
  <2>3. HeldBy(g, p) = Sum(g.store["own"][p], InStore(g, "bucket", p),
                           InStore(g, "local", p), g.reduced[p])
    BY <1>1, HeldIsSum
  <2>4. h.store["own"] = g.store["own"] /\ h.reduced = g.reduced
    BY <1>1, <1>2, <1>4
  <2> QED
    BY <2>1, <2>2, <2>3, <2>4
<1> QED
  BY <1>2, <1>4, <1>5, <1>6, <1>7 DEF GradsOK, h

\* The copy-in path adds what the parameters show to the bucket.
LEMMA CopyInGrads ==
  ASSUME NEW g, DOMAIN g = GroupFields, GradsOK(g)
  PROVE  LET h == AccumulateCopyIn(g)
         IN  /\ GradsOK(h)
             /\ Ready(g) => Ready(h)
             /\ h.store["own"] = g.store["own"] \/ h.store["own"] = ZeroGrads
             /\ GradPath = "copy_in" /\ g.defer => h.store["own"] = ZeroGrads
             /\ h.store["bucket"] = g.store["bucket"] \/ g.defer
             /\ h.pend = g.pend /\ h.seen = g.seen /\ h.depth = g.depth
             /\ h.final = g.final /\ h.defer = g.defer /\ h.reduce = g.reduce
             /\ ~g.defer => h = g
             /\ \A p \in Params : HeldBy(h, p) = HeldBy(g, p)
<1> DEFINE h == AccumulateCopyIn(g)
           kept == IF g.store["bucket"] = None THEN ZeroGrads ELSE g.store["bucket"]
           new == PlusGrads(kept, ParamGrads(g))
<1>1. StoresOK(g) /\ DeferOK(g) /\ DOMAIN g.store = Stores
  BY DEF GradsOK, StoresOK
<1>2. CASE ~(GradPath = "copy_in" /\ g.defer)
  BY <1>2 DEF AccumulateCopyIn
<1>3. CASE GradPath = "copy_in" /\ g.defer /\ ~HasGrad(g)
  <2>1. \A p \in Params : g.store["own"][p] = Zero
    BY <1>1, <1>3, NothingIsNoGrad DEF HasGrad, StoresOK, Stores
  <2>2. g.store["own"] = ZeroGrads /\ h = g
    BY <1>1, <1>3, <2>1, OwnIsZero DEF AccumulateCopyIn
  <2> QED
    BY <2>2
<1>4. CASE GradPath = "copy_in" /\ g.defer /\ HasGrad(g)
  <2>1. Unreduced(g) /\ g.reduce = "none"
    BY <1>1, <1>4 DEF DeferOK
  <2>2. /\ h.defer = g.defer /\ h.reduce = g.reduce /\ h.reduced = g.reduced
        /\ h.pend = g.pend /\ h.seen = g.seen
        /\ h.depth = g.depth /\ h.final = g.final
        /\ h.ref = [p \in Params |-> None]
        /\ h.store = [g.store EXCEPT !["own"] = ZeroGrads, !["bucket"] = new]
    BY <1>1, <1>4 DEF AccumulateCopyIn, FreeGrads, PointGrads, GroupFields, Stores
  <2>3. new \in Gradients /\ new # None
    BY <1>1, StoredCounts, PlusGradsCounts, ZeroCounts, NothingAssumption DEF Stores
  <2>4. ASSUME NEW p \in Params
        PROVE  new[p] = Plus(InStore(g, "bucket", p), g.store["own"][p])
    <3>1. GradOf(g, p) = g.store["own"][p]
      BY <1>1, <2>1, NothingIsNoGrad DEF GradOf, Unreduced, StoresOK, Stores
    <3>2. kept \in Gradients /\ kept[p] = InStore(g, "bucket", p)
      BY <1>1, StoredCounts, ZeroCounts DEF InStore, Stores
    <3>3. ParamGrads(g) \in Gradients /\ ParamGrads(g)[p] = GradOf(g, p)
      BY <1>1, StoredCounts DEF ParamGrads
    <3> QED
      BY <3>1, <3>2, <3>3, PlusGradsCounts
  <2> HIDE DEF h, new
  <2>5. /\ h.store["own"] = ZeroGrads /\ h.store["bucket"] = new
        /\ \A t \in Stores \ {"own", "bucket"} : h.store[t] = g.store[t]
        /\ \A p \in Params : h.ref[p] = None
    BY <1>1, <2>2 DEF Stores
  <2>6. StoresOK(h)
    <3>1. h.store \in [Stores -> Gradients \cup {None}]
      BY <1>1, <2>2, <2>3, ZeroCounts DEF StoresOK
    <3>2. h.ref \in [Params -> Stores \cup {None}]
      BY <2>2 DEF Stores
    <3> QED
      BY <1>1, <1>4, <2>1, <2>2, <2>5, <3>1, <3>2, ZeroCounts, NothingIsNoGrad
         DEF StoresOK, Stores
  <2>7. DeferOK(h) /\ Ready(h)
    BY <1>4, <2>1, <2>2, <2>5 DEF DeferOK, Ready, Unreduced
  <2>8. ASSUME NEW p \in Params
        PROVE  HeldBy(h, p) = HeldBy(g, p)
    <3>1. /\ InStore(h, "bucket", p) = Plus(InStore(g, "bucket", p), g.store["own"][p])
          /\ InStore(h, "local", p) = InStore(g, "local", p)
          /\ h.store["own"][p] = Zero
      BY <2>3, <2>4, <2>5, ZeroCounts DEF InStore, Stores
    <3>2. /\ g.store["own"][p] \in Counts /\ InStore(g, "bucket", p) \in Counts
          /\ g.reduced[p] \in Counts /\ InStore(g, "local", p) \in Counts
      BY <1>1, StoredCounts DEF StoresOK, Stores
    <3>3. HeldBy(h, p) = Sum(h.store["own"][p], InStore(h, "bucket", p),
                             InStore(h, "local", p), h.reduced[p])
      BY <2>6, HeldIsSum
    <3>4. HeldBy(g, p) = Sum(g.store["own"][p], InStore(g, "bucket", p),
                             InStore(g, "local", p), g.reduced[p])
      BY <1>1, HeldIsSum
    <3>5. h.reduced[p] = g.reduced[p]
      BY <2>2
    <3>6. Sum(Zero, Plus(InStore(g, "bucket", p), g.store["own"][p]),
              InStore(g, "local", p), g.reduced[p])
            = Sum(g.store["own"][p], InStore(g, "bucket", p),
                  InStore(g, "local", p), g.reduced[p])
      BY <3>2, SumMoves
    <3> QED
      BY <3>1, <3>3, <3>4, <3>5, <3>6
  <2> QED
    BY <1>4, <2>2, <2>5, <2>6, <2>7, <2>8 DEF GradsOK, h
<1> QED
  BY <1>2, <1>3, <1>4

\* Autograd adds one contribution of the pass.
LEMMA AutogradGrads ==
  ASSUME NEW g, NEW p \in Params, NEW m, DOMAIN g = GroupFields,
         GradPath # "flat", GradsOK(g), Ready(g), g.reduce = "none"
  PROVE  LET h == AutogradAccumulate(g, p, m)
         IN  /\ GradsOK(h) /\ Ready(h)
             /\ h.pend = g.pend /\ h.seen = g.seen /\ h.depth = g.depth
             /\ h.final = g.final /\ h.defer = g.defer /\ h.reduce = "none"
             /\ h.store["bucket"] = None <=> g.store["bucket"] = None
             /\ HeldBy(h, p) = Plus(HeldBy(g, p), OnePass(m))
             /\ \A q \in Params \ {p} : HeldBy(h, q) = HeldBy(g, q)
<1> DEFINE h == AutogradAccumulate(g, p, m)
           one == OnePass(m)
           t == IF g.ref[p] = None THEN "own" ELSE g.ref[p]
           new == [g.store[t] EXCEPT ![p] = Plus(g.store[t][p], one)]
<1>1. StoresOK(g) /\ DeferOK(g) /\ DOMAIN g.store = Stores /\ one \in Counts
  BY ZeroCounts DEF GradsOK, StoresOK
<1>2. /\ t \in {"own", "bucket"} /\ g.store[t] # None
      /\ g.store[t] \in Gradients
      /\ t = "bucket" => GradPath = "zero_copy" /\ g.ref[p] = "bucket"
  <2>1. CASE GradPath = "zero_copy"
    BY <1>1, <2>1, StoredCounts, NothingIsNoGrad DEF Ready, StoresOK, Stores
  <2>2. CASE GradPath = "copy_in"
    BY <1>1, <2>2, StoredCounts, NothingIsNoGrad DEF Ready, Unreduced, StoresOK, Stores
  <2> QED
    BY <2>1, <2>2, GradPathAssumption
<1>3. /\ g.store[t][p] \in Counts
      /\ g.ref[p] = None => g.store["own"][p] = Zero
  BY <1>1, <1>2, StoredCounts, NothingIsNoGrad DEF StoresOK, Stores
<1>4. Plus(g.store[t][p], one) \in Counts /\ (g.ref[p] = None => Plus(g.store[t][p], one) = one)
  BY <1>1, <1>3, PlusCounts, SumMoves
<1>5. /\ new \in Gradients /\ new[p] = Plus(g.store[t][p], one)
      /\ \A q \in Params \ {p} : new[q] = g.store[t][q]
  BY <1>2, <1>4 DEF Gradients, Counts
<1>6. /\ h.defer = g.defer /\ h.reduce = g.reduce /\ h.reduced = g.reduced
      /\ h.pend = g.pend /\ h.seen = g.seen
      /\ h.depth = g.depth /\ h.final = g.final
      /\ h.ref = [g.ref EXCEPT ![p] = t]
      /\ h.store = [g.store EXCEPT ![t] = new]
  <2>1. CASE g.ref[p] = None
    <3>1. h = [g EXCEPT !.ref[p] = "own", !.store["own"][p] = one]
      BY <2>1 DEF AutogradAccumulate
    <3>2. t = "own" /\ new = [g.store["own"] EXCEPT ![p] = one]
      BY <1>4, <2>1
    <3> HIDE DEF h, one, new, t
    <3> QED
      BY <1>1, <3>1, <3>2 DEF GroupFields, Stores
  <2>2. CASE g.ref[p] # None
    <3>1. h = [g EXCEPT !.store[g.ref[p]][p] = Plus(@, one)]
      BY <2>2 DEF AutogradAccumulate
    <3>2. t = g.ref[p] /\ t \in Stores
      BY <1>2, <2>2 DEF Stores
    <3>3. g.ref = [g.ref EXCEPT ![p] = t]
      BY <1>1, <3>2 DEF StoresOK
    <3>4. h = [g EXCEPT !.store[t][p] = Plus(g.store[t][p], one)]
      BY <1>1, <3>1, <3>2 DEF GroupFields
    <3> HIDE DEF h, one, t
    <3> QED
      BY <1>1, <3>2, <3>3, <3>4 DEF GroupFields
  <2> QED
    BY <2>1, <2>2
<1> HIDE DEF h, new, t, one
<1>7. /\ h.store[t] = new
      /\ \A s \in Stores \ {t} : h.store[s] = g.store[s]
      /\ h.ref[p] = t /\ \A q \in Params \ {p} : h.ref[q] = g.ref[q]
      /\ h.reduce = "none"
  BY <1>1, <1>2, <1>6 DEF StoresOK, Stores
<1>8. new # None
  BY <1>5, NothingAssumption
<1>9. StoresOK(h)
  <2>1. h.store \in [Stores -> Gradients \cup {None}]
    BY <1>1, <1>5, <1>6 DEF StoresOK
  <2>2. h.ref \in [Params -> Stores \cup {None}]
    BY <1>1, <1>2, <1>6 DEF StoresOK, Stores
  <2>3. ASSUME NEW q \in Params
        PROVE  /\ h.ref[q] # "own" => h.store["own"][q] = Zero
               /\ h.ref[q] # None => h.store[h.ref[q]] # None
               /\ GradPath = "zero_copy" /\ h.store["bucket"] # None => h.ref[q] = "bucket"
    <3>1. /\ g.ref[q] # "own" => g.store["own"][q] = Zero
          /\ g.ref[q] # None => g.ref[q] \in Stores /\ g.store[g.ref[q]] # None
          /\ GradPath = "zero_copy" /\ g.store["bucket"] # None => g.ref[q] = "bucket"
      BY <1>1 DEF StoresOK
    <3>2. GradPath = "zero_copy" => g.ref[q] = "bucket" /\ g.ref[p] = "bucket"
      BY DEF Ready
    <3>3. GradPath = "zero_copy" => t = "bucket"
      BY <3>2, NothingIsNoGrad DEF t, Stores
    <3>4. h.ref[q] # None => h.store[h.ref[q]] # None
      <4>1. CASE q = p
        BY <1>7, <1>8, <4>1
      <4>2. CASE q # p
        BY <1>7, <1>8, <3>1, <4>2
      <4> QED
        BY <4>1, <4>2
    <3>5. GradPath = "zero_copy" => h.ref[q] = "bucket"
      BY <1>7, <3>2, <3>3
    <3>6. h.ref[q] # "own" => h.store["own"][q] = Zero
      <4>1. CASE q = p
        BY <1>2, <1>7, <3>1, <4>1 DEF Stores
      <4>2. CASE q # p
        BY <1>2, <1>5, <1>7, <3>1, <4>2 DEF Stores
      <4> QED
        BY <4>1, <4>2
    <3> QED
      BY <3>4, <3>5, <3>6
  <2> QED
    BY <1>1, <1>2, <1>6, <1>7, <1>8, <2>1, <2>2, <2>3 DEF StoresOK, Stores
<1>10. /\ h.store["bucket"] = None <=> g.store["bucket"] = None
       /\ GradPath = "copy_in" => h.store["bucket"] = g.store["bucket"]
  BY <1>2, <1>7, <1>8 DEF Stores
<1>11. Ready(h) /\ DeferOK(h)
  <2>1. CASE GradPath = "zero_copy"
    BY <1>7, <1>2, <2>1, NothingIsNoGrad DEF Ready, DeferOK, t, Stores
  <2>2. CASE GradPath = "copy_in"
    BY <1>1, <1>2, <1>6, <1>7, <1>10, <2>2 DEF Ready, DeferOK, Unreduced
  <2> QED
    BY <2>1, <2>2, GradPathAssumption
<1>12. \A q \in Params : /\ g.store["own"][q] \in Counts /\ InStore(g, "bucket", q) \in Counts
                         /\ InStore(g, "local", q) \in Counts /\ g.reduced[q] = Zero
  BY <1>1, StoredCounts, ZeroCounts DEF StoresOK, Stores
<1>13. \A q \in Params : h.reduced[q] = Zero /\ InStore(h, "local", q) = InStore(g, "local", q)
  BY <1>2, <1>6, <1>7, <1>12 DEF InStore, Stores
<1>14. HeldBy(h, p) = Plus(HeldBy(g, p), one)
  <2>1. CASE t = "own"
    <3>1. /\ h.store["own"][p] = Plus(g.store["own"][p], one)
          /\ InStore(h, "bucket", p) = InStore(g, "bucket", p)
      BY <1>5, <1>7, <2>1 DEF InStore, Stores
    <3> QED
      BY <1>1, <1>9, <1>12, <1>13, <3>1, HeldIsSum, SumMoves
  <2>2. CASE t = "bucket"
    <3>1. /\ h.store["own"][p] = g.store["own"][p]
          /\ InStore(h, "bucket", p) = Plus(InStore(g, "bucket", p), one)
      BY <1>2, <1>5, <1>7, <1>8, <2>2 DEF InStore, Stores
    <3> QED
      BY <1>1, <1>9, <1>12, <1>13, <3>1, HeldIsSum, SumMoves
  <2> QED
    BY <1>2, <2>1, <2>2
<1>15. ASSUME NEW q \in Params \ {p}
       PROVE  HeldBy(h, q) = HeldBy(g, q)
  <2>1. /\ h.store["own"][q] = g.store["own"][q]
        /\ InStore(h, "bucket", q) = InStore(g, "bucket", q)
    BY <1>2, <1>5, <1>7, <1>8 DEF InStore, Stores
  <2> QED
    BY <1>1, <1>9, <1>12, <1>13, <2>1, HeldIsSum
<1> QED
  BY <1>6, <1>7, <1>9, <1>10, <1>11, <1>14, <1>15 DEF GradsOK, h, one

-----------------------------------------------------------------------------
(* Handlers leave the gradients of the other groups *)

SameStores(g, h) ==
  /\ h.reduce = g.reduce /\ h.reduced = g.reduced
  /\ h.ref = g.ref /\ h.store = g.store

LEMMA SameStoresHold ==
  ASSUME NEW g, NEW h, SameStores(g, h)
  PROVE  /\ StoresOK(g) => StoresOK(h)
         /\ \A p : HeldBy(h, p) = HeldBy(g, p) /\ GradOf(h, p) = GradOf(g, p)
         /\ \A u : Shown(g, u) => Shown(h, u)
         /\ Ready(g) => Ready(h)
         /\ h.defer = g.defer => (DeferOK(g) => DeferOK(h))
<1>1. StoresOK(g) => StoresOK(h)
  BY DEF SameStores, StoresOK
<1>2. h.defer = g.defer => (DeferOK(g) => DeferOK(h))
  BY DEF SameStores, DeferOK, Unreduced
<1>3. \A p : HeldBy(h, p) = HeldBy(g, p) /\ GradOf(h, p) = GradOf(g, p)
  BY DEF SameStores, HeldBy, InStore, GradOf
<1>4. \A u : Shown(g, u) => Shown(h, u)
  BY DEF SameStores, Shown
<1>5. Ready(g) => Ready(h)
  BY DEF SameStores, Ready, Unreduced
<1> QED
  BY <1>1, <1>2, <1>3, <1>4, <1>5

KeepsAll(s, t) == \A v \in Units : KeepsGrads(s.grp[v], t.grp[v], v)
KeepsBut(s, t, u) == \A v \in Units \ {u} : KeepsGrads(s.grp[v], t.grp[v], v)

LEMMA KeepsRuntimes ==
  ASSUME NEW r, NEW s, NEW t
  PROVE  /\ KeepsAll(r, s) /\ KeepsAll(s, t) => KeepsAll(r, t)
         /\ \A u : KeepsAll(r, s) => KeepsBut(r, s, u)
         /\ \A u : KeepsBut(r, s, u) /\ KeepsBut(s, t, u) => KeepsBut(r, t, u)
BY KeepsTransitive DEF KeepsAll, KeepsBut

LEMMA QuietKeeps ==
  ASSUME NEW s, NEW t
  PROVE  /\ Quiet(s, t) => KeepsAll(s, t)
         /\ \A u : QuietBut(s, t, u) => KeepsBut(s, t, u)
BY SameGradsKeeps DEF Quiet, QuietBut, QuietGroup, KeepsAll, KeepsBut

LEMMA SameGroupsKeepGrads ==
  ASSUME NEW s, NEW t, \A v \in Units : t.grp[v] = s.grp[v]
  PROVE  KeepsAll(s, t)
<1>1. \A v \in Units : SameGrads(s.grp[v], t.grp[v])
  BY DEF SameGrads
<1> QED
  BY <1>1, SameGradsKeeps DEF KeepsAll

LEMMA PruneKeepsGrads ==
  ASSUME NEW s, IsRuntime(s)
  PROVE  KeepsAll(s, Prune(s)) /\ IsRuntime(Prune(s))
<1>1. Prune(s).grp = s.grp
  BY DEF Prune, IsRuntime, RuntimeFields
<1> QED
  BY <1>1, SameGroupsKeepGrads, PruneEndsReduces

LEMMA WaitOldestKeepsGrads ==
  ASSUME NEW s, NEW n, IsRuntime(s)
  PROVE  KeepsAll(s, WaitOldest(s, n))
<1> SUFFICES ASSUME NEW v \in Units
             PROVE  KeepsGrads(s.grp[v], WaitOldest(s, n).grp[v], v)
  BY DEF KeepsAll
<1>1. WaitOldest(s, n).grp[v] \in {WaitPostBackwardReduce(s.grp[v], v), s.grp[v]}
  BY DEF WaitOldest, IsRuntime, RuntimeFields
<1>2. KeepsGrads(s.grp[v], WaitPostBackwardReduce(s.grp[v], v), v)
  BY WaitKeepsGrads DEF IsRuntime
<1>3. KeepsGrads(s.grp[v], s.grp[v], v)
  BY SameGradsKeeps DEF SameGrads
<1> QED
  BY <1>1, <1>2, <1>3

LEMMA WaitAllPendingKeepsGrads ==
  ASSUME NEW s, IsRuntime(s)
  PROVE  KeepsAll(s, WaitAllPending(s))
<1> DEFINE p == Prune(s)
<1>1. KeepsAll(s, p) /\ IsRuntime(p)
  BY PruneKeepsGrads
<1>2. WaitAllPending(s) = WaitOldest(p, UnitCount)
  BY DEF WaitAllPending
<1> HIDE DEF p
<1> QED
  BY <1>1, <1>2, WaitOldestKeepsGrads, KeepsRuntimes

LEMMA BeforeBackwardReduceKeepsGrads ==
  ASSUME NEW s, IsRuntime(s)
  PROVE  KeepsAll(s, BeforeBackwardReduce(s))
<1> DEFINE p == Prune(s)
           n == Queued(p) - MaxPendingReduces + 1
<1>1. IsRuntime(p) /\ KeepsAll(s, p)
  BY PruneKeepsGrads
<1>2. BeforeBackwardReduce(s) \in {p, WaitOldest(p, UnitCount), WaitOldest(p, n)}
  BY DEF BeforeBackwardReduce, WaitAllPending
<1> HIDE DEF p, n
<1>3. \A k : KeepsAll(s, WaitOldest(p, k))
  BY <1>1, WaitOldestKeepsGrads, KeepsRuntimes
<1> QED
  BY <1>1, <1>2, <1>3

LEMMA AfterBackwardReduceStartedKeepsGrads ==
  ASSUME NEW s, NEW u \in Units, IsRuntime(s)
  PROVE  KeepsAll(s, AfterBackwardReduceStarted(s, u))
<1> DEFINE p == Prune(s)
           queued == [p EXCEPT !.queue[u] = IF @ = 0 THEN Queued(p) + 1 ELSE @]
           all == WaitAllPending(queued)
<1>1. IsRuntime(p) /\ KeepsAll(s, p)
  BY PruneKeepsGrads
<1> HIDE DEF p
<1>2. IsRuntime(queued) /\ queued.grp = p.grp
  BY <1>1 DEF IsRuntime, RuntimeFields
<1> HIDE DEF queued
<1>3. KeepsAll(s, queued) /\ KeepsAll(queued, all)
  BY <1>1, <1>2, SameGroupsKeepGrads, KeepsRuntimes, WaitAllPendingKeepsGrads
<1> HIDE DEF all
<1>4. KeepsAll(s, all) /\ KeepsAll(s, s)
  BY <1>3, KeepsRuntimes, SameGroupsKeepGrads
<1>5. AfterBackwardReduceStarted(s, u) \in {s, all, queued}
  BY DEF AfterBackwardReduceStarted, all, queued, p
<1> QED
  BY <1>3, <1>4, <1>5

-----------------------------------------------------------------------------
(* A reduce takes over what was accumulated *)

\* What is handed to the reduce is all that autograd has left in the group.
CollectsAll(g, u) ==
  \A p \in Owned[u] :
    Collected(g, "bucket")[p] = Plus(g.store["own"][p], InStore(g, "bucket", p))

LEMMA StartedGrads ==
  ASSUME NEW g, NEW h, NEW u \in Units, IsGroup(h),
         StoresOK(g), g.reduce = "none", CollectsAll(g, u),
         h.store = [g.store EXCEPT !["own"] = ZeroGrads, !["bucket"] = None],
         \A p \in Params : h.ref[p] = None,
         h.ref \in [Params -> Stores \cup {None}]
  PROVE  LET accumulate == g.store["local"] # None
             handle == [h EXCEPT !.reduce = IF accumulate THEN "add" ELSE "fresh",
                                 !.reduced = Collected(g, "bucket")]
             last == IF accumulate THEN handle ELSE UseLocalGradShard(handle, u, ZeroGrads)
         IN  /\ StoresOK(last) /\ Shown(last, u)
             /\ last.store["own"] = ZeroGrads /\ last.store["bucket"] = None
             /\ \A p \in Owned[u] : HeldBy(last, p) = HeldBy(g, p)
<1> DEFINE accumulate == g.store["local"] # None
           all == Collected(g, "bucket")
           handle == [h EXCEPT !.reduce = IF accumulate THEN "add" ELSE "fresh",
                               !.reduced = all]
           last == IF accumulate THEN handle ELSE UseLocalGradShard(handle, u, ZeroGrads)
           local == IF accumulate THEN g.store["local"] ELSE ZeroGrads
           shown == [p \in Params |-> IF p \in Owned[u] THEN "local" ELSE None]
<1>0. Owned[u] \subseteq Params
  BY OwnedAssumption
<1>1. all \in Gradients
  BY StoredCounts DEF Collected, Stores
<1>2. /\ DOMAIN g.store = Stores
      /\ \A t \in Stores : g.store[t] # None => g.store[t] \in Gradients
      /\ g.store["full"] = None
  BY StoredCounts DEF StoresOK
<1>3. local \in Gradients /\ local # None
  BY <1>2, ZeroCounts, NothingAssumption DEF Stores
<1>4. /\ last.reduce = IF accumulate THEN "add" ELSE "fresh"
      /\ last.reduced = all
      /\ last.ref = IF accumulate THEN h.ref ELSE shown
      /\ last.store = [g.store EXCEPT !["own"] = ZeroGrads, !["bucket"] = None,
                                      !["local"] = local]
  <2> HIDE DEF all
  <2>1. CASE accumulate
    <3>1. last = handle
      BY <2>1
    <3>2. [g.store EXCEPT !["own"] = ZeroGrads, !["bucket"] = None, !["local"] = local]
            = [g.store EXCEPT !["own"] = ZeroGrads, !["bucket"] = None]
      BY <1>2, <2>1 DEF Stores
    <3> QED
      BY <2>1, <3>1, <3>2 DEF IsGroup, GroupFields
  <2>2. CASE ~accumulate
    <3>1. last = UseLocalGradShard(handle, u, ZeroGrads)
      BY <2>2
    <3>2. /\ handle.store = h.store /\ DOMAIN handle = GroupFields
          /\ handle.reduce = "fresh" /\ handle.reduced = all
      BY <2>2 DEF IsGroup, GroupFields
    <3> HIDE DEF handle
    <3>3. /\ last.reduce = "fresh" /\ last.reduced = all /\ last.ref = shown
          /\ last.store = [h.store EXCEPT !["own"] = ZeroGrads, !["local"] = ZeroGrads]
      BY <3>1, <3>2 DEF UseLocalGradShard, PointGrads, GroupFields
    <3>4. local = ZeroGrads
      BY <2>2
    <3> HIDE DEF last, local
    <3> QED
      BY <1>2, <2>2, <3>3, <3>4 DEF Stores
  <2> QED
    BY <2>1, <2>2
<1> HIDE DEF last, handle, all, local
<1>5. /\ last.store["own"] = ZeroGrads /\ last.store["bucket"] = None
      /\ last.store["local"] = local /\ last.store["full"] = None
      /\ last.store \in [Stores -> Gradients \cup {None}]
  BY <1>2, <1>3, <1>4, ZeroCounts DEF StoresOK, Stores
<1>6. /\ last.ref \in [Params -> Stores \cup {None}]
      /\ \A p \in Params : last.ref[p] \in {None, "local"}
      /\ ~accumulate => \A p \in Owned[u] : last.ref[p] = "local"
  BY <1>0, <1>4 DEF Stores
<1>7. StoresOK(last) /\ Shown(last, u)
  <2>1. ~accumulate => local = ZeroGrads
    BY DEF local
  <2> QED
    BY <1>1, <1>3, <1>4, <1>5, <1>6, <2>1, ZeroCounts, NothingIsNoGrad
       DEF StoresOK, Shown, Stores
<1>8. ASSUME NEW p \in Owned[u]
      PROVE  HeldBy(last, p) = HeldBy(g, p)
  <2> DEFINE a == g.store["own"][p]
             b == InStore(g, "bucket", p)
             c == InStore(g, "local", p)
  <2>0. p \in Params
    BY <1>0
  <2>1. a \in Counts /\ b \in Counts /\ c \in Counts /\ Zero \in Counts
    BY <2>0, StoredCounts, ZeroCounts DEF StoresOK, Stores
  <2>2. /\ last.store["own"][p] = Zero /\ InStore(last, "bucket", p) = Zero
        /\ InStore(last, "local", p) = c /\ last.reduced[p] = Plus(a, b)
    BY <1>3, <1>4, <1>5, <2>0, ZeroCounts DEF InStore, local, CollectsAll, all
  <2>3. g.reduced[p] = Zero
    BY <2>0, ZeroCounts DEF StoresOK
  <2>4. HeldBy(last, p) = Sum(last.store["own"][p], InStore(last, "bucket", p),
                              InStore(last, "local", p), last.reduced[p])
    BY <1>7, <2>0, HeldIsSum
  <2>5. HeldBy(g, p) = Sum(a, b, c, g.reduced[p])
    BY <2>0, HeldIsSum
  <2> HIDE DEF a, b, c
  <2>6. Sum(Zero, Zero, c, Plus(a, b)) = Sum(a, b, c, Zero)
    BY <2>1, SumMoves
  <2> QED
    BY <2>2, <2>3, <2>4, <2>5, <2>6
<1> QED
  BY <1>5, <1>7, <1>8 DEF last, handle, all

\* The reduce is in flight, or its result is what the parameters show.
Finished(g, u) == g.final /\ ~g.defer /\ Shown(g, u)

LEMMA FinishGrads ==
  ASSUME NEW s, NEW u \in Units, RuntimeOK(s), Finalize,
         StoresOK(s.grp[u]), s.grp[u].reduce = "none", CollectsAll(s.grp[u], u)
  PROVE  LET t == FinishBackwardWithGradBucket(s, u)
             g == s.grp[u]
             h == t.grp[u]
         IN  /\ KeepsBut(s, t, u)
             /\ GradsOK(h) /\ Finished(h, u)
             /\ h.store["own"] = ZeroGrads /\ h.store["bucket"] = None
             /\ ~h.pend /\ h.seen = {}
             /\ \A p \in Owned[u] : HeldBy(h, p) = HeldBy(g, p)
<1> DEFINE g == s.grp[u]
           accumulate == g.store["local"] # None
           r == [UseLocalShards(AfterCollect(g, "bucket"), FALSE, FALSE)
                   EXCEPT !.state = "SHARDED"]
           resharded == Validate(SetGroup(s, u, r), u)
           ready == BeforeBackwardReduce(resharded)
           handle == [ready.grp[u] EXCEPT !.reduce = IF accumulate THEN "add" ELSE "fresh",
                                          !.reduced = Collected(g, "bucket")]
           last == IF accumulate THEN handle ELSE UseLocalGradShard(handle, u, ZeroGrads)
           started == SetGroup(ready, u, last)
           after == AfterBackwardReduceStarted(started, u)
           async == OnPostBackwardReshard(after, u)
           t == FinishBackwardCommon(async, u)
<1>1. IsRuntime(s) /\ IsGroup(g) /\ DOMAIN g.store = Stores
  BY DEF RuntimeOK, IsRuntime, StoresOK
<1>2. /\ IsGroup(r) /\ r.reduce = "none" /\ r.reduced = g.reduced
      /\ r.store = [g.store EXCEPT !["own"] = ZeroGrads, !["bucket"] = None]
      /\ r.ref \in [Params -> Stores \cup {None}]
      /\ \A p \in Params : r.ref[p] = None
  <2> DEFINE c == AfterCollect(g, "bucket")
  <2>1. /\ DOMAIN c = GroupFields /\ c.reduce = "none" /\ c.reduced = g.reduced
        /\ c.store = [g.store EXCEPT !["own"] = ZeroGrads, !["bucket"] = None]
        /\ c.ref = [p \in Params |-> None]
    BY <1>1 DEF AfterCollect, FreeGrads, PointGrads, IsGroup, GroupFields
  <2> HIDE DEF c
  <2>2. c.store["full"] = None /\ c.store["bucket"] = None
    BY <1>1, <2>1 DEF StoresOK, Stores
  <2>3. UseLocalShards(c, FALSE, FALSE) = c
    BY <2>2 DEF UseLocalShards
  <2>4. r = [c EXCEPT !.state = "SHARDED"]
    BY <2>3 DEF c
  <2> HIDE DEF r
  <2> QED
    BY <2>1, <2>4 DEF IsGroup, GroupFields
<1> HIDE DEF r
<1>3. StoresOK(r)
  <2>1. /\ r.store["own"] = ZeroGrads /\ r.store["bucket"] = None
        /\ r.store["full"] = None
        /\ r.store \in [Stores -> Gradients \cup {None}]
    BY <1>1, <1>2, ZeroCounts DEF StoresOK, Stores
  <2> QED
    BY <1>2, <2>1, ZeroCounts, NothingIsNoGrad DEF StoresOK
<1>4. /\ RuntimeOK(resharded) /\ IsRuntime(resharded)
      /\ KeepsBut(s, resharded, u) /\ resharded.grp[u] = r
  <2>1. QuietBut(s, resharded, u) /\ resharded.grp[u] = r
    BY <1>2, ValidatedQuiet
  <2>2. RuntimeOKBut(SetGroup(s, u, r), u)
    BY <1>2, OKButOne, ChangeGroup DEF SetGroup
  <2> QED
    BY <2>1, <2>2, ValidateKeeps, QuietKeeps DEF RuntimeOK
<1> HIDE DEF resharded
<1>5. RuntimeOK(ready) /\ IsRuntime(ready) /\ KeepsAll(resharded, ready)
  <2>1. EndsReduces(resharded, ready)
    BY <1>4, BeforeBackwardReduceEndsReduces
  <2> QED
    BY <1>4, <2>1, EndsReducesKeeps, BeforeBackwardReduceKeepsGrads DEF RuntimeOK
<1>6. SameGrads(r, ready.grp[u]) /\ IsGroup(ready.grp[u])
  BY <1>2, <1>3, <1>4, <1>5 DEF KeepsAll, KeepsGrads, IsRuntime
<1>7. ready.grp[u].state = "SHARDED"
  <2>1. resharded.grp[u].state = "SHARDED"
    <3>1. DOMAIN UseLocalShards(AfterCollect(g, "bucket"), FALSE, FALSE) = GroupFields
      <4>1. DOMAIN AfterCollect(g, "bucket") = GroupFields
        BY <1>1, AfterCollectKeeps DEF IsGroup, SameLifecycle
      <4> QED
        BY <4>1, UseLocalShardsKeeps DEF SameLifecycle
    <3> QED
      BY <1>4, <3>1 DEF r, GroupFields
  <2>2. EndsReduces(resharded, ready)
    BY <1>4, BeforeBackwardReduceEndsReduces
  <2> QED
    BY <2>1, <2>2 DEF EndsReduces
<1> HIDE DEF ready
<1>8. /\ IsGroup(last) /\ last.reduce # "none" /\ last.state = "SHARDED"
      /\ last.inflight = ready.grp[u].inflight
  <2>1. /\ IsGroup(handle) /\ handle.reduce # "none" /\ handle.state = "SHARDED"
        /\ handle.inflight = ready.grp[u].inflight
    BY <1>6, <1>7 DEF IsGroup, GroupFields
  <2> HIDE DEF handle
  <2>2. SameLifecycle(handle, UseLocalGradShard(handle, u, ZeroGrads))
    BY <2>1, UseLocalGradShardKeeps DEF IsGroup
  <2> QED
    BY <2>1, <2>2 DEF SameLifecycle, IsGroup
<1>9. /\ StoresOK(last) /\ Shown(last, u)
      /\ last.store["own"] = ZeroGrads /\ last.store["bucket"] = None
      /\ \A p \in Owned[u] : HeldBy(last, p) = HeldBy(g, p)
  <2> DEFINE h == ready.grp[u]
  <2>1. /\ h.store = [g.store EXCEPT !["own"] = ZeroGrads, !["bucket"] = None]
        /\ h.ref \in [Params -> Stores \cup {None}]
        /\ \A p \in Params : h.ref[p] = None
    BY <1>2, <1>6 DEF SameGrads
  <2> HIDE DEF h
  <2> QED
    BY <1>6, <2>1, StartedGrads DEF h
<1> HIDE DEF last
<1>10. /\ RuntimeOK(started) /\ IsRuntime(started)
       /\ started.grp[u] = last /\ KeepsBut(ready, started, u)
  <2>1. /\ IsRuntime(started) /\ started.err = ready.err
        /\ started.grp[u] = last
        /\ \A v \in Units \ {u} : started.grp[v] = ready.grp[v]
    BY <1>5, <1>8 DEF SetGroup, IsRuntime, RuntimeFields
  <2> HIDE DEF started
  <2>2. RuntimeOK(started)
    <3> SUFFICES ASSUME started.err = None, NEW v \in Units
                 PROVE  Consistent(started.grp[v])
      BY <2>1 DEF RuntimeOK
    <3>1. Consistent(ready.grp[v]) /\ Consistent(ready.grp[u])
      BY <1>5, <2>1 DEF RuntimeOK
    <3> QED
      BY <1>7, <1>8, <2>1, <3>1 DEF Consistent
  <2>3. KeepsBut(ready, started, u)
    BY <2>1, SameGradsKeeps DEF KeepsBut, SameGrads
  <2> QED
    BY <2>1, <2>2, <2>3
<1> HIDE DEF started
<1>11. RuntimeOK(after) /\ KeepsAll(started, after)
  <2>1. EndsReduces(started, after)
    BY <1>10, AfterBackwardReduceStartedEndsReduces
  <2> QED
    BY <1>10, <2>1, EndsReducesKeeps, AfterBackwardReduceStartedKeepsGrads
<1> HIDE DEF after
<1>12. RuntimeOK(async) /\ KeepsAll(after, async)
  BY <1>11, OnPostBackwardReshardKeeps, OnPostBackwardReshardQuiet, QuietKeeps
<1>13. KeepsAll(started, async)
  BY <1>11, <1>12, KeepsRuntimes
<1> HIDE DEF async
<1> DEFINE x == async.grp[u]
<1>14. /\ StoresOK(x) /\ Shown(x, u)
       /\ x.store["own"] = ZeroGrads /\ x.store["bucket"] = None
       /\ \A p \in Owned[u] : HeldBy(x, p) = HeldBy(g, p)
       /\ IsGroup(x)
  <2>1. KeepsGrads(last, x, u) /\ Owned[u] \subseteq Params
    BY <1>10, <1>13, OwnedAssumption DEF KeepsAll
  <2> QED
    BY <1>9, <1>12, <2>1 DEF KeepsGrads, RuntimeOK, IsRuntime
<1>15. /\ KeepsBut(async, t, u)
       /\ t.grp[u] = FinishedGroup(x)
  BY <1>12, OKButOne, FinishBackwardCommonQuiet, QuietKeeps
<1> DEFINE h == t.grp[u]
<1>16. /\ SameStores(x, h)
       /\ ~h.pend /\ h.seen = {} /\ ~h.defer /\ h.final
  BY <1>14, <1>15 DEF FinishedGroup, Sharded, SameStores, IsGroup, GroupFields
<1>17. FinishBackwardWithGradBucket(s, u) = t
  BY DEF FinishBackwardWithGradBucket, async, after, started, last, ready, resharded, r
<1> HIDE DEF t
<1>18. KeepsBut(s, t, u)
  BY <1>4, <1>5, <1>10, <1>13, <1>15, KeepsRuntimes
<1> HIDE DEF x
<1>19. /\ StoresOK(h) /\ Shown(h, u)
       /\ h.store["own"] = ZeroGrads /\ h.store["bucket"] = None
       /\ \A p \in Owned[u] : HeldBy(h, p) = HeldBy(g, p)
  <2>1. h.store = x.store
    BY <1>16 DEF SameStores
  <2>2. StoresOK(h) /\ Shown(h, u) /\ \A p : HeldBy(h, p) = HeldBy(x, p)
    BY <1>14, <1>16, SameStoresHold
  <2> QED
    BY <1>14, <2>1, <2>2
<1>20. DeferOK(h)
  BY <1>16, <1>19 DEF DeferOK
<1> QED
  BY <1>16, <1>17, <1>18, <1>19, <1>20 DEF GradsOK, Finished

LEMMA ReadyCollects ==
  ASSUME NEW g, NEW u \in Units, GradPath # "flat", GradsOK(g), Ready(g),
         GradPath = "copy_in" /\ g.defer => g.store["own"] = ZeroGrads
  PROVE  CollectsAll(g, u)
<1> SUFFICES ASSUME NEW p \in Params
             PROVE  Collected(g, "bucket")[p]
                      = Plus(g.store["own"][p], InStore(g, "bucket", p))
  BY OwnedAssumption DEF CollectsAll
<1>1. StoresOK(g) /\ DeferOK(g)
  BY DEF GradsOK
<1>2. /\ g.store["own"][p] \in Counts /\ InStore(g, "bucket", p) \in Counts
      /\ Zero \in Counts
  BY <1>1, StoredCounts, ZeroCounts DEF StoresOK, Stores
<1>3. CASE g.store["bucket"] # None
  <2>1. g.store["own"][p] = Zero
    BY <1>1, <1>3, ZeroCounts, GradPathAssumption, NothingIsNoGrad
       DEF StoresOK, DeferOK, Ready, Stores
  <2>2. /\ Collected(g, "bucket")[p] = g.store["bucket"][p]
        /\ InStore(g, "bucket", p) = g.store["bucket"][p]
    BY <1>3 DEF Collected, InStore
  <2>3. g.store["bucket"][p] \in Counts
    BY <1>2, <2>2
  <2>4. Plus(Zero, g.store["bucket"][p]) = g.store["bucket"][p]
    BY <1>2, <2>3, SumMoves
  <2> QED
    BY <2>1, <2>2, <2>4
<1>4. CASE g.store["bucket"] = None
  <2>1. GradPath = "copy_in" /\ Unreduced(g)
    BY <1>1, <1>4, GradPathAssumption, NothingIsNoGrad DEF Ready, StoresOK, Stores
  <2>2. GradOf(g, p) = g.store["own"][p]
    BY <1>1, <2>1, NothingIsNoGrad DEF GradOf, Unreduced, StoresOK, Stores
  <2>3. Collected(g, "bucket")[p] = g.store["own"][p] /\ InStore(g, "bucket", p) = Zero
    BY <1>4, <2>2 DEF Collected, ParamGrads, InStore
  <2>4. Plus(g.store["own"][p], Zero) = g.store["own"][p]
    BY <1>2, SumMoves
  <2> QED
    BY <2>3, <2>4
<1> QED
  BY <1>3, <1>4

\* A group nothing was accumulated in has nothing to reduce.
LEMMA ZeroCollects ==
  ASSUME NEW g, NEW u \in Units, StoresOK(g),
         \A p \in Owned[u] : HeldBy(g, p) = Zero
  PROVE  /\ CollectsAll(g, u)
         /\ \A p \in Owned[u] : GradOf(g, p) = Zero
<1> SUFFICES ASSUME NEW p \in Owned[u]
             PROVE  /\ Collected(g, "bucket")[p]
                         = Plus(g.store["own"][p], InStore(g, "bucket", p))
                    /\ GradOf(g, p) = Zero
  BY DEF CollectsAll
<1>0. p \in Params
  BY OwnedAssumption
<1>1. /\ g.store["own"][p] \in Counts /\ InStore(g, "bucket", p) \in Counts
      /\ InStore(g, "local", p) \in Counts /\ g.reduced[p] \in Counts
  BY <1>0, StoredCounts DEF StoresOK, Stores
<1>2. Sum(g.store["own"][p], InStore(g, "bucket", p),
          InStore(g, "local", p), g.reduced[p]) = Zero
  BY <1>0, HeldIsSum
<1>3. /\ g.store["own"][p] = Zero /\ InStore(g, "bucket", p) = Zero
      /\ InStore(g, "local", p) = Zero
  BY <1>1, <1>2, SumIsZero
<1>4. GradOf(g, p) = Zero
  <2>1. /\ g.ref[p] \in {"own", "bucket", "local", "full", None}
        /\ g.ref[p] # None => g.store[g.ref[p]] # None
        /\ g.store["full"] = None
    BY <1>0 DEF StoresOK, Stores
  <2> QED
    BY <1>3, <2>1 DEF GradOf, InStore
<1>5. Collected(g, "bucket")[p] = Zero
  BY <1>0, <1>3, <1>4 DEF Collected, ParamGrads, InStore
<1>6. Plus(Zero, Zero) = Zero
  BY ZeroCounts, SumMoves
<1> QED
  BY <1>3, <1>4, <1>5, <1>6

LEMMA FinalizeGrads ==
  ASSUME NEW s, NEW u \in Units, RuntimeOK(s), Finalize, GradPath # "flat",
         GradsOK(s.grp[u]), s.grp[u].reduce = "none",
         CollectsAll(AccumulateCopyIn(s.grp[u]), u),
         FinalizeBackward(s, u).err = None
  PROVE  LET t == FinalizeBackward(s, u)
             g == s.grp[u]
             h == t.grp[u]
         IN  /\ KeepsBut(s, t, u)
             /\ GradsOK(h) /\ Finished(h, u)
             /\ h.store["own"] = ZeroGrads /\ h.store["bucket"] = None
             /\ ~h.pend /\ h.seen = {}
             /\ \A p \in Owned[u] : HeldBy(h, p) = HeldBy(g, p)
<1> DEFINE g == s.grp[u]
           k == AccumulateCopyIn(g)
           c == SetGroup(s, u, k)
           e == IF g.state = "SHARDED" THEN "finalize_expects_unsharded"
                                       ELSE "finalize_while_forward_resharded"
           f == FinishBackwardWithGradBucket(c, u)
<1>1. IsRuntime(s) /\ IsGroup(g) /\ DOMAIN g = GroupFields
  BY DEF RuntimeOK, IsRuntime, IsGroup
<1>2. /\ GradsOK(k) /\ k.reduce = "none"
      /\ \A p \in Params : HeldBy(k, p) = HeldBy(g, p)
  BY <1>1, CopyInGrads
<1>3. RuntimeOK(c) /\ c.grp[u] = k /\ KeepsBut(s, c, u)
  <2>1. SameLifecycle(g, k)
    BY <1>1, AccumulateCopyInKeeps
  <2>2. RuntimeOK(c) /\ c.grp[u] = k
    BY <2>1, ChangeFlags DEF SetGroup
  <2>3. QuietBut(s, c, u)
    BY <1>1, <2>1, OneGroupQuiet DEF SameLifecycle
  <2> QED
    BY <2>2, <2>3, QuietKeeps
<1>4. FinalizeBackward(s, u) \in {Raise(s, "finalize_inside_no_sync"), f, Raise(c, e)}
  BY DEF FinalizeBackward, FinishBackward
<1> HIDE DEF c, e
<1>5. FinalizeBackward(s, u) = f
  <2>1. Raise(s, "finalize_inside_no_sync").err # None
    BY <1>1, RaiseSetsError DEF Errors
  <2>2. Raise(c, e).err # None
    BY <1>3, RaiseSetsError DEF Errors, RuntimeOK, e
  <2> QED
    BY <1>4, <2>1, <2>2
<1> HIDE DEF k, f
<1>6. /\ KeepsBut(c, f, u)
      /\ GradsOK(f.grp[u]) /\ Finished(f.grp[u], u)
      /\ f.grp[u].store["own"] = ZeroGrads /\ f.grp[u].store["bucket"] = None
      /\ ~f.grp[u].pend /\ f.grp[u].seen = {}
      /\ \A p \in Owned[u] : HeldBy(f.grp[u], p) = HeldBy(k, p)
  BY <1>2, <1>3, FinishGrads DEF GradsOK, f, k
<1>7. Owned[u] \subseteq Params
  BY OwnedAssumption
<1> QED
  BY <1>2, <1>3, <1>5, <1>6, <1>7, KeepsRuntimes

-----------------------------------------------------------------------------
(* The last gradient of a pass *)

LEMMA DeferredGrads ==
  ASSUME NEW g, NEW u, DOMAIN g = GroupFields, GradPath # "flat",
         GradsOK(g), Ready(g), g.reduce = "none"
  PROVE  LET y == AccumulateCopyIn([g EXCEPT !.defer = TRUE])
             h == IF u \in Reshard THEN ReshardedDeferred(y) ELSE y
         IN  /\ GradsOK(h) /\ h.defer
             /\ h.store["own"] = ZeroGrads
             /\ h.pend => g.pend
             /\ \A p \in Params : HeldBy(h, p) = HeldBy(g, p)
<1> DEFINE d == [g EXCEPT !.defer = TRUE]
           y == AccumulateCopyIn(d)
           h == IF u \in Reshard THEN ReshardedDeferred(y) ELSE y
<1>1. /\ DOMAIN d = GroupFields /\ SameStores(g, d) /\ d.defer = TRUE
      /\ d.pend = g.pend /\ d.reduce = "none"
  BY DEF SameStores, GroupFields
<1>2. Ready(d) /\ StoresOK(d) /\ \A p : HeldBy(d, p) = HeldBy(g, p)
  BY <1>1, SameStoresHold DEF GradsOK
<1>3. GradsOK(d)
  BY <1>1, <1>2 DEF GradsOK, DeferOK, Ready
<1> HIDE DEF d
<1>4. /\ DOMAIN y = GroupFields
      /\ GradsOK(y) /\ Ready(y) /\ y.defer = TRUE /\ y.pend = g.pend
      /\ GradPath = "copy_in" => y.store["own"] = ZeroGrads
      /\ \A p \in Params : HeldBy(y, p) = HeldBy(g, p)
  BY <1>1, <1>2, <1>3, CopyInGrads, AccumulateCopyInKeeps DEF SameLifecycle
<1> HIDE DEF y
<1>5. y.store["own"] = ZeroGrads
  <2>1. CASE GradPath = "zero_copy"
    <3>1. \A p \in Params : y.store["own"][p] = Zero
      BY <1>4, <2>1, NothingIsNoGrad DEF GradsOK, StoresOK, Ready, Stores
    <3> QED
      BY <1>4, <3>1, OwnIsZero DEF GradsOK
  <2> QED
    BY <1>4, <2>1, GradPathAssumption
<1>6. /\ SameStores(y, h) /\ h.defer = y.defer /\ (h.pend => y.pend)
  BY <1>4 DEF ReshardedDeferred, Sharded, SameStores, GroupFields
<1> HIDE DEF h
<1>7. /\ h.store = y.store /\ GradsOK(h)
      /\ \A p : HeldBy(h, p) = HeldBy(y, p)
  BY <1>4, <1>6, SameStoresHold DEF SameStores, GradsOK
<1> QED
  BY <1>4, <1>5, <1>6, <1>7 DEF h, y, d

\* Autograd accumulates one gradient of u, and its hook does what it owes.
LEMMA AccumulateGradGrads ==
  ASSUME NEW s, NEW u \in Units, NEW p \in Params, NEW m,
         RuntimeOK(s), s.err = None, Finalize, GradPath # "flat",
         GradsOK(s.grp[u]), Ready(s.grp[u]), Gathered(s, u), s.grp[u].reduce = "none",
         AccumulateGrad(s, u, p, m).err = None
  PROVE  LET t == AccumulateGrad(s, u, p, m)
             g == s.grp[u]
             h == t.grp[u]
             seen == g.seen \cup {p}
         IN  /\ KeepsBut(s, t, u)
             /\ GradsOK(h)
             /\ h.pend => g.pend
             /\ p \in Owned[u] => HeldBy(h, p) = Plus(HeldBy(g, p), OnePass(m))
             /\ \A q \in Owned[u] \ {p} : HeldBy(h, q) = HeldBy(g, q)
             /\ seen # Params => /\ Ready(h) /\ h.seen = seen
                                 /\ h.depth = g.depth
             /\ seen = Params => /\ h.store["own"] = ZeroGrads
                                 /\ h.store["bucket"] # None => h.defer
                                 /\ g.depth > 0 \/ Finished(h, u)
<1> DEFINE g == s.grp[u]
           seen == g.seen \cup {p}
           a == AutogradAccumulate(g, p, m)
           b == SetGroup(s, u, a)
           x == [a EXCEPT !.seen = @ \cup {p}]
           y == AccumulateCopyIn([x EXCEPT !.defer = TRUE])
           z == IF u \in Reshard THEN ReshardedDeferred(y) ELSE y
           e == SetGroup(b, u, y)
           w == IF u \in Reshard THEN ReshardAfterDeferredBackward(e, u) ELSE e
           copied == AccumulateCopyIn(x)
           c == SetGroup(b, u, copied)
           f == FinalizeBackward(c, u)
           t == AccumulateGrad(s, u, p, m)
<1>1. IsRuntime(s) /\ IsGroup(g) /\ DOMAIN g = GroupFields
  BY DEF RuntimeOK, IsRuntime, IsGroup
<1>2. /\ SameLifecycle(g, a)
      /\ GradsOK(a) /\ Ready(a)
      /\ a.pend = g.pend /\ a.seen = g.seen /\ a.depth = g.depth
      /\ a.reduce = "none"
      /\ HeldBy(a, p) = Plus(HeldBy(g, p), OnePass(m))
      /\ \A q \in Params \ {p} : HeldBy(a, q) = HeldBy(g, q)
  BY <1>1, AutogradAccumulateKeeps, AutogradGrads
<1> HIDE DEF a
<1>3. /\ RuntimeOK(b) /\ IsRuntime(b) /\ b.grp[u] = a /\ b.err = None
      /\ KeepsBut(s, b, u)
  <2>1. RuntimeOK(b) /\ b.grp[u] = a /\ b.err = s.err
    BY <1>2, ChangeFlags DEF SetGroup
  <2>2. QuietBut(s, b, u)
    BY <1>1, <1>2, OneGroupQuiet
  <2> QED
    BY <2>1, <2>2, QuietKeeps DEF RuntimeOK
<1> HIDE DEF b
<1>4. /\ DOMAIN x = GroupFields /\ SameLifecycle(a, x) /\ SameStores(a, x)
      /\ x.defer = a.defer /\ x.seen = seen /\ x.pend = g.pend /\ x.depth = g.depth
      /\ x.reduce = "none" /\ x.state = "UNSHARDED"
  BY <1>2 DEF SameLifecycle, SameStores, GroupFields, Gathered
<1> HIDE DEF x
<1>5. /\ GradsOK(x) /\ Ready(x)
      /\ \A q : HeldBy(x, q) = HeldBy(a, q)
  BY <1>2, <1>4, SameStoresHold DEF GradsOK
<1>6. t = CASE Finalize /\ x.seen # Params -> SetGroup(b, u, x)
            [] Finalize /\ x.seen = Params /\ x.depth > 0 -> w
            [] OTHER -> f
  <2> HIDE DEF f, c
  <2>1. a.seen \cup {p} = x.seen
    BY <1>2, <1>4
  <2>2. x = [b.grp[u] EXCEPT !.seen = @ \cup {p}] /\ x.state = "UNSHARDED"
    BY <1>3, <1>4 DEF x
  <2>3. t = PostAccumulateGrad(b, u, p)
    BY DEF AccumulateGrad, b, a
  <2> HIDE DEF t
  <2> QED
    BY <2>2, <2>3 DEF PostAccumulateGrad, w, e, y, f, c, copied
<1>7. Owned[u] \subseteq Params
  BY OwnedAssumption
<1>8. CASE x.seen # Params
  <2>1. t = SetGroup(b, u, x)
    BY <1>6, <1>8
  <2>2. t.grp[u] = x /\ QuietBut(b, t, u)
    BY <1>2, <1>3, <1>4, <2>1, OneGroupQuiet
  <2>3. KeepsBut(s, t, u)
    BY <1>3, <2>2, QuietKeeps, KeepsRuntimes
  <2> HIDE DEF t, seen
  <2> QED
    BY <1>2, <1>4, <1>5, <1>7, <1>8, <2>2, <2>3 DEF t, seen
<1>9. CASE x.seen = Params /\ x.depth > 0
  <2>1. t = w
    BY <1>6, <1>9
  <2>2. /\ GradsOK(z) /\ z.defer
        /\ z.store["own"] = ZeroGrads
        /\ z.pend => x.pend
        /\ \A q \in Params : HeldBy(z, q) = HeldBy(x, q)
    BY <1>4, <1>5, DeferredGrads
  <2>3. z.reduce = "none"
    <3>1. y.reduce = "none" /\ DOMAIN y = GroupFields
      <4>1. DOMAIN [x EXCEPT !.defer = TRUE] = GroupFields
            /\ [x EXCEPT !.defer = TRUE].reduce = "none"
        BY <1>4 DEF GroupFields
      <4> QED
        BY <4>1, AccumulateCopyInKeeps DEF SameLifecycle
    <3> QED
      BY <3>1 DEF ReshardedDeferred, Sharded, GroupFields
  <2>4. t.grp[u] = z /\ QuietBut(b, t, u)
    <3>1. SameLifecycle(a, y)
      <4>1. SameLifecycle(a, [x EXCEPT !.defer = TRUE])
        BY <1>4 DEF SameLifecycle, GroupFields
      <4> QED
        BY <4>1, AccumulateCopyInKeeps DEF SameLifecycle
    <3> HIDE DEF y, z
    <3>2. RuntimeOK(e) /\ e.grp[u] = y
      BY <1>3, <3>1, ChangeFlags DEF SetGroup
    <3>3. QuietBut(b, e, u)
      BY <1>3, <3>1, OneGroupQuiet DEF SameLifecycle
    <3> HIDE DEF e, t
    <3>4. w.grp[u] = z /\ QuietBut(e, w, u)
      BY <3>2, ReshardAfterDeferredBackwardQuiet, QuietReflexive DEF z
    <3> HIDE DEF w
    <3> QED
      BY <2>1, <3>3, <3>4, QuietTransitive
  <2> HIDE DEF z
  <2>5. KeepsBut(s, t, u)
    BY <1>3, <2>4, QuietKeeps, KeepsRuntimes
  <2> HIDE DEF t, seen
  <2> QED
    BY <1>2, <1>4, <1>5, <1>7, <1>9, <2>2, <2>4, <2>5 DEF t, seen
<1>10. CASE x.seen = Params /\ ~(x.depth > 0)
  <2>1. t = f
    BY <1>6, <1>10
  <2>2. /\ GradsOK(copied) /\ Ready(copied) /\ copied.reduce = "none"
        /\ copied.pend = x.pend /\ copied.defer = x.defer
        /\ SameLifecycle(x, copied)
        /\ \A q \in Params : HeldBy(copied, q) = HeldBy(x, q)
    BY <1>4, <1>5, CopyInGrads, AccumulateCopyInKeeps
  <2>3. CollectsAll(AccumulateCopyIn(copied), u)
    <3> DEFINE k == AccumulateCopyIn(copied)
    <3>1. DOMAIN copied = GroupFields
      BY <2>2 DEF SameLifecycle
    <3> HIDE DEF copied
    <3>2. /\ GradsOK(k) /\ Ready(k) /\ k.defer = copied.defer
          /\ GradPath = "copy_in" /\ copied.defer => k.store["own"] = ZeroGrads
      BY <2>2, <3>1, CopyInGrads
    <3> HIDE DEF k
    <3>3. CollectsAll(k, u)
      BY <3>2, ReadyCollects
    <3> QED
      BY <3>3 DEF k
  <2> HIDE DEF copied
  <2>4. /\ RuntimeOK(c) /\ c.grp[u] = copied /\ KeepsBut(b, c, u)
    <3>1. SameLifecycle(a, copied)
      BY <1>4, <2>2 DEF SameLifecycle
    <3>2. RuntimeOK(c) /\ c.grp[u] = copied
      BY <1>3, <3>1, ChangeFlags DEF SetGroup
    <3>3. QuietBut(b, c, u)
      BY <1>2, <1>3, <2>2, OneGroupQuiet
    <3> QED
      BY <3>2, <3>3, QuietKeeps
  <2> HIDE DEF c
  <2>5. /\ KeepsBut(c, f, u)
        /\ GradsOK(f.grp[u]) /\ Finished(f.grp[u], u)
        /\ f.grp[u].store["own"] = ZeroGrads /\ f.grp[u].store["bucket"] = None
        /\ ~f.grp[u].pend
        /\ \A q \in Owned[u] : HeldBy(f.grp[u], q) = HeldBy(copied, q)
    BY <2>1, <2>2, <2>3, <2>4, FinalizeGrads
  <2>6. KeepsBut(s, t, u)
    BY <1>3, <2>1, <2>4, <2>5, KeepsRuntimes
  <2> HIDE DEF t, f, seen
  <2> QED
    BY <1>2, <1>4, <1>5, <1>7, <1>10, <2>1, <2>2, <2>5, <2>6 DEF t, seen
<1> QED
  BY <1>8, <1>9, <1>10

-----------------------------------------------------------------------------
(* no_sync and the optimizer *)

LEMMA LeftNoSyncGrads ==
  ASSUME NEW g, NEW u, DOMAIN g = GroupFields, GradsOK(g), g.store["own"] = ZeroGrads
  PROVE  LET h == LeftNoSync(g, u)
         IN  /\ GradsOK(h) /\ h.store["own"] = ZeroGrads
             /\ Ready(g) => Ready(h)
             /\ h.defer = g.defer /\ h.final = g.final
             /\ h.pend => g.pend
             /\ h.store["bucket"] = g.store["bucket"] \/ h.defer
             /\ ~g.defer => SameStores(g, h)
             /\ \A p \in Params : HeldBy(h, p) = HeldBy(g, p)
<1> DEFINE d == [g EXCEPT !.depth = @ - 1]
           y == AccumulateCopyIn(d)
           z == ReshardedDeferred(y)
<1>1. /\ DOMAIN d = GroupFields /\ SameStores(g, d) /\ d.defer = g.defer
      /\ d.pend = g.pend /\ d.final = g.final
  BY DEF SameStores, GroupFields
<1>2. /\ GradsOK(d) /\ d.store = g.store /\ (Ready(g) => Ready(d))
      /\ \A p : HeldBy(d, p) = HeldBy(g, p)
  BY <1>1, SameStoresHold DEF GradsOK, SameStores
<1>3. LeftNoSync(g, u) \in {d, y, z} /\ (~g.defer => LeftNoSync(g, u) = d)
  BY <1>1 DEF LeftNoSync
<1> HIDE DEF d
<1>4. /\ DOMAIN y = GroupFields /\ GradsOK(y) /\ (Ready(d) => Ready(y))
      /\ y.store["own"] = ZeroGrads
      /\ y.store["bucket"] = g.store["bucket"] \/ y.defer
      /\ y.defer = g.defer /\ y.final = g.final /\ y.pend = g.pend
      /\ \A p \in Params : HeldBy(y, p) = HeldBy(d, p)
  BY <1>1, <1>2, CopyInGrads, AccumulateCopyInKeeps DEF SameLifecycle
<1> HIDE DEF y
<1>5. /\ SameStores(y, z) /\ z.defer = y.defer /\ z.final = y.final
      /\ z.pend => y.pend
  BY <1>4 DEF ReshardedDeferred, Sharded, SameStores, GroupFields
<1> HIDE DEF z
<1>6. /\ GradsOK(z) /\ z.store = y.store /\ (Ready(y) => Ready(z))
      /\ \A p : HeldBy(z, p) = HeldBy(y, p)
  BY <1>4, <1>5, SameStoresHold DEF GradsOK, SameStores
<1> QED
  BY <1>1, <1>2, <1>3, <1>4, <1>5, <1>6

LEMMA PrepareStepUnitGrads ==
  ASSUME NEW s, NEW u \in Units, RuntimeOK(s), Finalize, GradPath # "flat",
         GradsOK(s.grp[u]), Spent(s.grp[u]),
         s.grp[u].final \/ \A p \in Owned[u] : HeldBy(s.grp[u], p) = Zero,
         PrepareStepUnit(s, u).err = None
  PROVE  LET t == PrepareStepUnit(s, u)
             g == s.grp[u]
             h == t.grp[u]
         IN  /\ KeepsBut(s, t, u)
             /\ \/ KeepsGrads(g, h, u)
                \/ /\ GradsOK(h) /\ Finished(h, u)
                   /\ h.store["own"] = ZeroGrads /\ h.store["bucket"] = None
                   /\ ~h.pend
                   /\ \A p \in Owned[u] : HeldBy(h, p) = HeldBy(g, p)
<1> DEFINE g == s.grp[u]
           t == PrepareStepUnit(s, u)
           f == FinalizeBackward(s, u)
           k == AccumulateCopyIn(g)
           w == SetGroup(s, u, WaitPostBackwardReduce(g, u))
           d == DiscardUnconsumedPrefetch(s, u)
<1>1. IsRuntime(s) /\ IsGroup(g) /\ DOMAIN g = GroupFields
  BY DEF RuntimeOK, IsRuntime, IsGroup
<1>2. KeepsBut(s, s, u) /\ KeepsGrads(g, g, u)
  BY SameGroupsKeepGrads, KeepsRuntimes DEF KeepsAll
<1>3. CASE g.reduce # "none"
  <2>1. t = w
    BY <1>3 DEF PrepareStepUnit, FinalizeBackward
  <2>2. w.grp[u] = WaitPostBackwardReduce(g, u)
        /\ \A v \in Units \ {u} : w.grp[v] = s.grp[v]
    BY <1>1 DEF SetGroup, IsRuntime, RuntimeFields
  <2>3. KeepsBut(s, w, u)
    BY <2>2, SameGradsKeeps DEF KeepsBut, SameGrads
  <2> QED
    BY <1>1, <2>1, <2>2, <2>3, WaitKeepsGrads
<1>4. CASE g.reduce = "none" /\ g.final
  BY <1>2, <1>4 DEF PrepareStepUnit
<1>5. CASE g.reduce = "none" /\ ~g.final
  <2>1. t \in {f, s, d}
    BY <1>5 DEF PrepareStepUnit
  <2>2. CASE t = f
    <3>1. \A p \in Owned[u] : HeldBy(g, p) = Zero
      BY <1>5
    <3>2. Owned[u] \subseteq Params
      BY OwnedAssumption
    <3>3. CollectsAll(k, u)
      <4>1. StoresOK(k) /\ \A p \in Params : HeldBy(k, p) = HeldBy(g, p)
        BY <1>1, CopyInGrads DEF GradsOK
      <4> HIDE DEF k
      <4> QED
        BY <3>1, <3>2, <4>1, ZeroCollects
    <3> QED
      BY <1>5, <2>2, <3>3, FinalizeGrads
  <2>3. CASE t = d
    <3>1. NothingToDrop(g)
      BY DEF NothingToDrop, Spent, GradsOK, StoresOK
    <3>2. QuietBut(s, d, u) /\ SameGrads(g, d.grp[u])
      BY <3>1, DiscardUnconsumedPrefetchQuiet
    <3> QED
      BY <2>3, <3>2, QuietKeeps, SameGradsKeeps
  <2> QED
    BY <1>2, <2>1, <2>2, <2>3
<1> QED
  BY <1>3, <1>4, <1>5

\* Nothing but zeros is left in what the parameters show.
Cleared(g) ==
  /\ g.reduce = "none" /\ g.reduced = ZeroGrads
  /\ g.ref \in [Params -> Stores \cup {None}]
  /\ g.store \in [Stores -> Gradients \cup {None}]
  /\ g.store["own"] = ZeroGrads /\ g.store["full"] = None
  /\ \A p \in Params : g.ref[p] # None =>
       g.store[g.ref[p]] # None /\ g.store[g.ref[p]][p] = Zero

LEMMA DropCleared ==
  ASSUME NEW g, DOMAIN g = GroupFields, Cleared(g), NEW t \in {"local", "bucket"}
  PROVE  LET h == Drop(g, t)
         IN  /\ DOMAIN h = GroupFields /\ Cleared(h)
             /\ h.store[t] = None
             /\ \A o \in Stores \ {t, "own"} : h.store[o] = g.store[o]
             /\ h.pend = g.pend /\ h.defer = g.defer
<1> DEFINE h == Drop(g, t)
           own == [p \in Params |-> IF g.ref[p] = t THEN g.store[t][p]
                                                    ELSE g.store["own"][p]]
           ref == [p \in Params |-> IF g.ref[p] = t THEN "own" ELSE g.ref[p]]
<1>1. own = ZeroGrads
  <2>1. \A p \in Params : own[p] = Zero
    BY ZeroCounts, NothingIsNoGrad DEF Cleared, Stores
  <2> QED
    BY <2>1 DEF ZeroGrads
<1>2. /\ DOMAIN h = GroupFields /\ h.reduce = g.reduce /\ h.reduced = g.reduced
      /\ h.pend = g.pend /\ h.defer = g.defer
      /\ h.ref = ref
      /\ h.store = [g.store EXCEPT ![t] = None, !["own"] = ZeroGrads]
  BY <1>1 DEF Drop, GroupFields
<1> HIDE DEF h, own
<1>3. /\ h.store[t] = None /\ h.store["own"] = ZeroGrads
      /\ \A o \in Stores \ {t, "own"} : h.store[o] = g.store[o]
      /\ h.store \in [Stores -> Gradients \cup {None}]
  BY <1>2, ZeroCounts DEF Cleared, Stores
<1>4. ref \in [Params -> Stores \cup {None}]
  BY DEF Cleared, Stores
<1>5. \A p \in Params : h.ref[p] # None =>
        h.store[h.ref[p]] # None /\ h.store[h.ref[p]][p] = Zero
  BY <1>2, <1>3, ZeroCounts, NothingIsNoGrad DEF Cleared, Stores
<1> QED
  BY <1>2, <1>3, <1>4, <1>5 DEF Cleared, Stores, h

LEMMA ZeroedGrads ==
  ASSUME NEW g, NEW setToNone, DOMAIN g = GroupFields, StoresOK(g),
         g.store["own"] = ZeroGrads, g.reduce = "none"
  PROVE  LET h == ResetGradAccumulation(ZeroParamGrads(g, setToNone))
         IN  /\ GradsOK(h) /\ h.store["own"] = ZeroGrads /\ h.store["bucket"] = None
             /\ h.pend = g.pend
             /\ \A p \in Params : HeldBy(h, p) = Zero
<1> DEFINE z == ZeroParamGrads(g, setToNone)
           r == [z EXCEPT !.defer = FALSE, !.seen = {}]
           l == IF r.store["local"] = None THEN r ELSE Drop(r, "local")
           h == IF l.store["bucket"] = None THEN l ELSE Drop(l, "bucket")
<1>1. DOMAIN z = GroupFields /\ Cleared(z) /\ z.pend = g.pend
  <2>1. CASE setToNone
    <3>1. /\ DOMAIN z = GroupFields /\ z.pend = g.pend
          /\ z.reduce = g.reduce /\ z.reduced = g.reduced
          /\ z.ref = [p \in Params |-> None]
          /\ z.store = [g.store EXCEPT !["own"] = ZeroGrads]
      BY <2>1 DEF ZeroParamGrads, FreeGrads, PointGrads, GroupFields
    <3> HIDE DEF z
    <3> QED
      BY <3>1, ZeroCounts DEF Cleared, StoresOK, Stores
  <2>2. CASE ~setToNone
    <3> DEFINE zeroed(t) == [p \in Params |-> IF g.ref[p] = t THEN Zero ELSE g.store[t][p]]
    <3>1. /\ DOMAIN z = GroupFields /\ z.pend = g.pend
          /\ z.reduce = g.reduce /\ z.reduced = g.reduced /\ z.ref = g.ref
          /\ z.store = [t \in Stores |-> IF g.store[t] = None THEN None ELSE zeroed(t)]
      BY <2>2 DEF ZeroParamGrads, GroupFields
    <3>2. \A t \in Stores : g.store[t] # None => zeroed(t) \in Gradients /\ zeroed(t) # None
      <4>1. ASSUME NEW t \in Stores, g.store[t] # None
            PROVE  zeroed(t) \in Gradients
        <5>1. \A p \in Params : zeroed(t)[p] \in Counts
          BY <4>1, StoredCounts, ZeroCounts
        <5> QED
          BY <5>1 DEF Gradients, Counts
      <4> QED
        BY <4>1, NothingAssumption
    <3>3. zeroed("own") = ZeroGrads
      <4>1. \A p \in Params : zeroed("own")[p] = Zero
        BY ZeroCounts
      <4> QED
        BY <4>1 DEF ZeroGrads
    <3>4. \A p \in Params : zeroed(g.ref[p])[p] = Zero
      OBVIOUS
    <3> HIDE DEF z, zeroed
    <3>5. z.store["own"] = ZeroGrads /\ z.store["full"] = None
      BY <3>1, <3>3 DEF StoresOK, Stores
    <3>6. z.store \in [Stores -> Gradients \cup {None}]
      BY <3>1, <3>2
    <3>7. \A p \in Params : z.ref[p] # None =>
            z.store[z.ref[p]] # None /\ z.store[z.ref[p]][p] = Zero
      BY <3>1, <3>2, <3>4 DEF StoresOK
    <3> QED
      BY <3>1, <3>5, <3>6, <3>7 DEF Cleared, StoresOK
  <2> QED
    BY <2>1, <2>2
<1> HIDE DEF z
<1>2. DOMAIN r = GroupFields /\ Cleared(r) /\ r.pend = g.pend /\ r.defer = FALSE
  BY <1>1 DEF Cleared, GroupFields
<1> HIDE DEF r
<1>3. /\ DOMAIN l = GroupFields /\ Cleared(l) /\ l.pend = g.pend /\ l.defer = FALSE
      /\ l.store["local"] = None
  BY <1>2, DropCleared
<1> HIDE DEF l
<1>4. /\ Cleared(h) /\ h.pend = g.pend /\ h.defer = FALSE
      /\ h.store["local"] = None /\ h.store["bucket"] = None
  <2>1. CASE l.store["bucket"] = None
    BY <1>3, <2>1
  <2>2. CASE l.store["bucket"] # None
    BY <1>3, <2>2, DropCleared DEF Stores
  <2> QED
    BY <2>1, <2>2
<1> HIDE DEF h
<1>5. StoresOK(h) /\ DeferOK(h)
  BY <1>4, ZeroCounts, NothingIsNoGrad DEF Cleared, StoresOK, DeferOK
<1>6. ASSUME NEW p \in Params
      PROVE  HeldBy(h, p) = Zero
  <2>1. HeldBy(h, p) = Sum(Zero, Zero, Zero, Zero)
    BY <1>4, <1>5, ZeroCounts, HeldIsSum DEF Cleared, InStore
  <2> QED
    BY <2>1, ZeroCounts, SumMoves DEF Sum
<1>7. ResetGradAccumulation(z) = h
  BY DEF ResetGradAccumulation, h, l, r
<1> QED
  BY <1>4, <1>5, <1>6, <1>7 DEF GradsOK, Cleared, z

LEMMA ZeroGradGrads ==
  ASSUME NEW s, NEW setToNone, IsRuntime(s),
         \A v \in Units : StoresOK(s.grp[v]) /\ s.grp[v].store["own"] = ZeroGrads
  PROVE  LET t == ZeroGrad(s, setToNone)
         IN  /\ t.err = s.err
             /\ \A v \in Units :
                  LET h == t.grp[v]
                  IN  /\ GradsOK(h)
                      /\ h.store["own"] = ZeroGrads /\ h.store["bucket"] = None
                      /\ h.pend = s.grp[v].pend
                      /\ \A p \in Params : HeldBy(h, p) = Zero
<1> DEFINE t == ZeroGrad(s, setToNone)
           a == WaitAllPending(s)
           w(v) == WaitPostBackwardReduce(a.grp[v], v)
           h(v) == ResetGradAccumulation(ZeroParamGrads(w(v), setToNone))
<1>1. /\ DOMAIN a = RuntimeFields /\ DOMAIN a.grp = Units /\ a.err = s.err
      /\ \A v \in Units : IsGroup(a.grp[v])
  BY WaitAllPendingEndsReduces DEF EndsReduces
<1>2. \A v \in Units : KeepsGrads(s.grp[v], a.grp[v], v)
  BY WaitAllPendingKeepsGrads DEF KeepsAll
<1> HIDE DEF a
<1>3. t.err = s.err /\ \A v \in Units : t.grp[v] = h(v)
  BY <1>1 DEF ZeroGrad, FinishBackwardIteration, RuntimeFields, a
<1>4. ASSUME NEW v \in Units
      PROVE  /\ DOMAIN w(v) = GroupFields /\ StoresOK(w(v))
             /\ w(v).store["own"] = ZeroGrads /\ w(v).reduce = "none"
             /\ w(v).pend = s.grp[v].pend
  <2>1. KeepsGrads(a.grp[v], w(v), v)
    BY <1>1, WaitKeepsGrads
  <2>2. IsGroup(w(v)) /\ w(v).reduce = "none"
    BY <1>1, WaitPostBackwardReduceKeeps
  <2> HIDE DEF w
  <2> QED
    BY <1>2, <2>1, <2>2 DEF KeepsGrads, IsGroup
<1> HIDE DEF t, w
<1>5. ASSUME NEW v \in Units
      PROVE  /\ GradsOK(h(v)) /\ h(v).store["own"] = ZeroGrads
             /\ h(v).store["bucket"] = None
             /\ h(v).pend = s.grp[v].pend
             /\ \A p \in Params : HeldBy(h(v), p) = Zero
  BY <1>4, ZeroedGrads
<1> HIDE DEF h
<1> QED
  BY <1>3, <1>5 DEF t

-----------------------------------------------------------------------------
(* The invariant *)

\* The use the theorem is about: gradients are reduced by the hooks, through a
\* bucket; each unit a backward reaches gets all its gradients; no step comes
\* before a pass that reduced.
PlainUse ==
  /\ Finalize /\ GradPath # "flat" /\ ~StepAfterDeferred
  /\ \A r \in Reaches, u \in Units : r[u] = Params

\* Autograd may accumulate into the group in this pass.
Computing(v) ==
  \/ need[v] # {}
  \/ v \notin Reshard /\ (Ran(v) \/ (Entered(events, v) /\ grad))

\* Every pass the group takes part in is over.
Settled(v) ==
  /\ need[v] = {} /\ ~Ran(v) /\ ~Entered(events, v)
  /\ phase \notin {"stepped", "eval"}

ZeroHeld(g, v) == \A p \in Owned[v] : HeldBy(g, p) = Zero

UnitGrads(v) ==
  LET g == rt.grp[v]
  IN  /\ GradsOK(g)
      /\ Computing(v) => Ready(g)
      /\ g.store["bucket"] # None => g.defer \/ Computing(v)
      /\ need[v] = {} => g.store["own"] = ZeroGrads
      /\ need[v] # {} =>
           /\ need[v] = Params \ g.seen /\ g.seen \subseteq Params
           /\ v \in unsynced <=> g.depth > 0
           /\ v \in reduced <=> ~(g.depth > 0)
      /\ v \notin reduced \cup unsynced => ZeroHeld(g, v)
      /\ v \in reduced /\ Settled(v) => Finished(g, v)
      /\ g.pend => Ran(v) /\ v \in Reshard

\* No pass has contributed before its time, and the running one only what
\* autograd has accumulated.
UnitPasses(v) ==
  /\ \A p \in Owned[v], m \in Micros : m > micro => HeldBy(rt.grp[v], p)[m] = 0
  /\ phase = "backward" =>
       \A p \in Owned[v] : p \in need[v] \/ Ran(v) => HeldBy(rt.grp[v], p)[micro] = 0

Paired(hooks) ==
  \A i \in 1 .. Len(hooks) :
    hooks[i][1] = "pre" => \E j \in 1 .. Len(hooks) : hooks[j] = <<"post", hooks[i][2]>>

GradPlaces ==
  /\ micro \in Nat
  /\ phase \in {"forward", "forwarded"} /\ grad => micro < MicroCount
  /\ phase = "forwarded" => grad
  /\ phase = "forward" /\ ~grad => reduced = {}
  /\ phase = "backward" =>
       /\ micro \in Micros
       /\ \A v \in Units : Ran(v) => reach[v] = Params
  /\ phase = "stepping" => unsynced = {}
  /\ Paired(events)

GradInv ==
  /\ PassInv /\ GradPlaces
  /\ Running => \A v \in Units : UnitGrads(v) /\ UnitPasses(v)

LEMMA EnteredOthers ==
  ASSUME NEW hooks \in Seq({"pre", "post"} \X Units), hooks # <<>>,
         NEW v, v # Head(hooks)[2]
  PROVE  Entered(Tail(hooks), v) <=> Entered(hooks, v)
<1> DEFINE tail == Tail(hooks)
<1>1. /\ Len(tail) = Len(hooks) - 1 /\ Len(hooks) \in Nat
      /\ \A i \in 1 .. Len(tail) : tail[i] = hooks[i + 1]
      /\ hooks[1] = Head(hooks)
  OBVIOUS
<1>2. ASSUME NEW i \in 1 .. Len(hooks), hooks[i][2] = v
      PROVE  i - 1 \in 1 .. Len(tail) /\ hooks[i] = tail[i - 1]
  BY <1>1, <1>2
<1>3. \A i \in 1 .. Len(tail) : i + 1 \in 1 .. Len(hooks)
  BY <1>1
<1> HIDE DEF tail
<1>4. ASSUME NEW kind
      PROVE  (\E i \in 1 .. Len(tail) : tail[i] = <<kind, v>>)
                <=> (\E i \in 1 .. Len(hooks) : hooks[i] = <<kind, v>>)
  <2>1. ASSUME NEW i \in 1 .. Len(tail), tail[i] = <<kind, v>>
        PROVE  \E j \in 1 .. Len(hooks) : hooks[j] = <<kind, v>>
    <3>1. hooks[i + 1] = <<kind, v>> /\ i + 1 \in 1 .. Len(hooks)
      BY <1>1, <1>3, <2>1
    <3> QED
      BY <3>1
  <2>2. ASSUME NEW i \in 1 .. Len(hooks), hooks[i] = <<kind, v>>
        PROVE  \E j \in 1 .. Len(tail) : tail[j] = <<kind, v>>
    <3>1. hooks[i][2] = v
      BY <2>2
    <3>2. i - 1 \in 1 .. Len(tail) /\ tail[i - 1] = <<kind, v>>
      BY <1>2, <2>2, <3>1
    <3> QED
      BY <3>2
  <2> QED
    BY <2>1, <2>2
<1> QED
  BY <1>4 DEF Entered, tail

LEMMA EnteredHead ==
  ASSUME NEW hooks \in Seq({"pre", "post"} \X Units), hooks # <<>>, InOrder(hooks)
  PROVE  /\ Paired(hooks) => Paired(Tail(hooks))
         /\ Head(hooks)[1] = "pre" =>
              /\ ~Entered(hooks, Head(hooks)[2])
              /\ Paired(hooks) => Entered(Tail(hooks), Head(hooks)[2])
         /\ Head(hooks)[1] = "post" =>
              /\ Entered(hooks, Head(hooks)[2])
              /\ ~Entered(Tail(hooks), Head(hooks)[2])
<1> DEFINE tail == Tail(hooks)
           u == Head(hooks)[2]
<1>1. /\ Len(tail) = Len(hooks) - 1 /\ Len(hooks) \in Nat \ {0}
      /\ \A i \in 1 .. Len(tail) : tail[i] = hooks[i + 1]
      /\ hooks[1] = Head(hooks)
      /\ \A i \in 1 .. Len(hooks) : hooks[i] = <<hooks[i][1], hooks[i][2]>>
  OBVIOUS
<1>2. /\ \A i \in 1 .. Len(tail) : i + 1 \in 1 .. Len(hooks)
      /\ \A i \in 1 .. Len(hooks) : i > 1 => i - 1 \in 1 .. Len(tail) /\ tail[i - 1] = hooks[i]
      /\ 1 \in 1 .. Len(hooks)
  BY <1>1
<1>3. Head(hooks)[1] = "post" => Entered(hooks, u) /\ ~Entered(tail, u)
  <2>1. Head(hooks)[1] = "post" => Entered(hooks, u)
    BY UnitCountAssumption, EnteredAfterHead, TailOfHooks
  <2>2. Head(hooks)[1] = "post" => Uncalled(tail, u)
    BY TailOfHooks
  <2> HIDE DEF tail, u
  <2> QED
    BY <2>1, <2>2 DEF Entered, Uncalled
<1> HIDE DEF tail
<1>4. Paired(hooks) => Paired(tail)
  <2> SUFFICES ASSUME Paired(hooks), NEW i \in 1 .. Len(tail), tail[i][1] = "pre"
               PROVE  \E j \in 1 .. Len(tail) : tail[j] = <<"post", tail[i][2]>>
    BY DEF Paired
  <2>1. tail[i] = hooks[i + 1] /\ i + 1 \in 1 .. Len(hooks)
    BY <1>1, <1>2
  <2>2. PICK j \in 1 .. Len(hooks) : hooks[j] = <<"post", tail[i][2]>>
    BY <2>1 DEF Paired
  <2>3. hooks[i + 1] = <<"pre", hooks[j][2]>> /\ hooks[j][1] = "post"
    BY <1>1, <2>1, <2>2
  <2>4. i + 1 < j
    BY <2>1, <2>3 DEF InOrder
  <2>5. j - 1 \in 1 .. Len(tail) /\ tail[j - 1] = hooks[j]
    BY <1>2, <2>4
  <2> QED
    BY <2>2, <2>5
<1>5. ASSUME Head(hooks)[1] = "pre"
      PROVE  ~Entered(hooks, u) /\ (Paired(hooks) => Entered(tail, u))
  <2>1. hooks[1] = <<"pre", u>>
    BY <1>1, <1>2, <1>5
  <2>2. ~Entered(hooks, u)
    BY <1>2, <2>1 DEF Entered
  <2>3. ASSUME Paired(hooks)
        PROVE  Entered(tail, u)
    <3>0. hooks[1][1] = "pre" /\ hooks[1][2] = u
      BY <1>1, <1>5
    <3> HIDE DEF u
    <3>1. PICK j \in 1 .. Len(hooks) : hooks[j] = <<"post", u>>
      BY <1>2, <2>3, <3>0 DEF Paired
    <3>2. j > 1
      BY <2>1, <3>1
    <3>3. \A i \in 1 .. Len(tail) : tail[i] # <<"pre", u>>
      <4> SUFFICES ASSUME NEW i \in 1 .. Len(tail), tail[i] = <<"pre", u>>
                   PROVE  FALSE
        OBVIOUS
      <4>1. hooks[i + 1] = hooks[1] /\ i + 1 \in 1 .. Len(hooks) /\ i + 1 # 1
        <5>1. hooks[i + 1] = tail[i]
          BY <1>1
        <5>2. i + 1 \in 1 .. Len(hooks) /\ i + 1 # 1
          BY <1>1
        <5> QED
          BY <2>1, <5>1, <5>2
      <4> QED
        BY <1>2, <4>1 DEF InOrder
    <3> QED
      BY <1>2, <3>1, <3>2, <3>3 DEF Entered
  <2> QED
    BY <2>2, <2>3
<1> QED
  BY <1>3, <1>4, <1>5 DEF tail

LEMMA ComputingGathered ==
  ASSUME PassInv, Running, NEW v \in Units, Computing(v)
  PROVE  Gathered(rt, v) /\ rt.grp[v].reduce = "none"
<1>1. Gathered(rt, v)
  <2>1. CASE need[v] # {}
    BY <2>1 DEF PassInv, InUse
  <2>2. CASE v \notin Reshard /\ Ran(v)
    BY <2>2 DEF PassInv, InUse, Ran
  <2>3. CASE Entered(events, v)
    BY <2>3 DEF PassInv, InUse
  <2> QED
    BY <2>1, <2>2, <2>3 DEF Computing
<1> QED
  BY <1>1 DEF Gathered, PassInv, LifecycleInv, Lifecycle, Consistent

LEMMA UnitStays ==
  ASSUME NEW v \in Units, UnitGrads(v), KeepsGrads(rt.grp[v], rt'.grp[v], v),
         Computing(v) => rt.grp[v].reduce = "none",
         need'[v] = need[v], Ran(v)' <=> Ran(v),
         Entered(events', v) <=> Entered(events, v),
         Entered(events, v) => grad' = grad,
         v \in unsynced' <=> v \in unsynced, v \in reduced' <=> v \in reduced,
         phase \in {"stepped", "eval"} => phase' \in {"stepped", "eval"}
  PROVE  UnitGrads(v)'
<1> DEFINE g == rt.grp[v]
           h == rt'.grp[v]
<1>1. /\ GradsOK(g) /\ StoresOK(g)
      /\ StoresOK(h) /\ h.pend = g.pend /\ h.seen = g.seen
      /\ h.depth = g.depth /\ h.defer = g.defer /\ h.final = g.final
      /\ h.store["own"] = g.store["own"] /\ h.store["bucket"] = g.store["bucket"]
      /\ \A p \in Params : HeldBy(h, p) = HeldBy(g, p)
      /\ Shown(g, v) => Shown(h, v)
      /\ g.reduce = "none" => SameGrads(g, h)
  BY DEF UnitGrads, GradsOK, KeepsGrads
<1>2. GradsOK(h)
  BY <1>1, DeferKept DEF GradsOK
<1>3. Computing(v)' <=> Computing(v)
  BY DEF Computing
<1>4. Settled(v)' => Settled(v)
  BY DEF Settled
<1>5. Computing(v) => Ready(h)
  <2>1. Computing(v) => Ready(g) /\ SameStores(g, h)
    BY <1>1 DEF UnitGrads, SameGrads, SameStores
  <2> QED
    BY <2>1, SameStoresHold
<1>6. ZeroHeld(g, v) => ZeroHeld(h, v)
  BY <1>1, OwnedAssumption DEF ZeroHeld
<1>7. Finished(g, v) => Finished(h, v)
  BY <1>1 DEF Finished
<1> QED
  BY <1>1, <1>2, <1>3, <1>4, <1>5, <1>6, <1>7 DEF UnitGrads

LEMMA PassesStay ==
  ASSUME NEW v \in Units, UnitPasses(v), micro' = micro,
         \A p \in Owned[v] : HeldBy(rt'.grp[v], p) = HeldBy(rt.grp[v], p),
         phase' = "backward" => /\ phase = "backward"
                                /\ need'[v] \subseteq need[v] \/ Ran(v)
                                /\ Ran(v)' => Ran(v)
  PROVE  UnitPasses(v)'
BY DEF UnitPasses

-----------------------------------------------------------------------------
(* Where the loop is *)

\* Ran, of a sequence: a primed Ran would prime the unit as well.
In(sequence, u) == \E i \in 1 .. Len(sequence) : sequence[i] = u

LEMMA PostForwardRan ==
  ASSUME LoopPlaces, PassPlaces, CallPostForward
  PROVE  LET u == Head(events)[2]
         IN  /\ u \in Units /\ ~Ran(u) /\ (In(back', u) <=> grad)
             /\ \A v \in Units \ {u} : Ran(v)' <=> Ran(v)
<1> DEFINE u == Head(events)[2]
<1>1. /\ events # <<>>
      /\ back' = (IF grad THEN <<u>> \o back ELSE back)
  BY DEF CallPostForward
<1>2. u \in Units
  BY <1>1, TailOfHooks DEF LoopPlaces, PassPlaces
<1>3. 1 \in 1 .. Len(events) /\ events[1][2] = u
  BY <1>1 DEF LoopPlaces
<1>4. \A i \in 1 .. Len(back) : back[i] # u
  BY <1>3 DEF Uncalled, PassPlaces
<1> HIDE DEF u
<1>5. CASE ~grad
  BY <1>1, <1>2, <1>4, <1>5 DEF Ran, In, u
<1>6. CASE grad
  <2>1. /\ Len(back') = Len(back) + 1 /\ Len(back) \in Nat
        /\ back'[1] = u
        /\ \A i \in 1 .. Len(back) : back'[i + 1] = back[i]
    BY <1>1, <1>2, <1>6 DEF PassPlaces
  <2>2. /\ 1 \in 1 .. Len(back')
        /\ \A i \in 1 .. Len(back) : i + 1 \in 1 .. Len(back')
        /\ \A i \in 1 .. Len(back') : i # 1 => i - 1 \in 1 .. Len(back) /\ back'[i] = back[i - 1]
    BY <2>1
  <2>3. ~Ran(u) /\ In(back', u)
    BY <1>4, <2>1, <2>2 DEF Ran, In
  <2>4. ASSUME NEW v \in Units \ {u}
        PROVE  Ran(v)' <=> Ran(v)
    BY <2>1, <2>2 DEF Ran
  <2> QED
    BY <1>2, <1>6, <2>3, <2>4 DEF u
<1> QED
  BY <1>5, <1>6

\* The backward comes to the units in the order it was left them in, without
\* passing one over: it reaches all of them.
LEMMA PreBackwardUnit ==
  ASSUME PassPlaces, GradPlaces, CallPreBackward
  PROVE  /\ phase = "backward"
         /\ UNCHANGED <<phase, grad, events, reach, micro, contexts, cursor>>
         /\ \E u \in Units :
              LET deferred == rt.grp[u].depth > 0
              IN  /\ Ran(u) /\ ~In(back', u) /\ need[u] = {}
                  /\ \A v \in Units \ {u} : Ran(v)' <=> Ran(v)
                  /\ Apply(IF u \in Reshard THEN PreBackwardUnshard(rt, u) ELSE rt)
                  /\ need' = [need EXCEPT ![u] = Params]
                  /\ unsynced' = IF deferred THEN unsynced \cup {u} ELSE unsynced \ {u}
                  /\ reduced' = IF ~deferred THEN reduced \cup {u} ELSE reduced \ {u}
<1>1. /\ phase = "backward"
      /\ UNCHANGED <<phase, grad, events, reach, micro, contexts, cursor>>
  BY DEF CallPreBackward
<1>2. PICK i \in 1 .. Len(back) :
        LET u == back[i]
            deferred == rt.grp[u].depth > 0
        IN  /\ FirstReached(i)
            /\ Apply(IF u \in Reshard THEN PreBackwardUnshard(rt, u) ELSE rt)
            /\ need' = [need EXCEPT ![u] = reach[u]]
            /\ unsynced' = IF deferred THEN unsynced \cup {u} ELSE unsynced \ {u}
            /\ reduced' = IF ~deferred /\ reach[u] = Params THEN reduced \cup {u}
                                                           ELSE reduced \ {u}
            /\ back' = SubSeq(back, i + 1, Len(back))
  BY DEF CallPreBackward
<1> DEFINE u == back[i]
<1>3. /\ back \in Seq(Units) /\ Len(back) \in Nat
      /\ \A j \in 1 .. Len(back) : back[j] \in Units /\ Ran(back[j])
  BY DEF PassPlaces, Ran
<1>4. \A j \in 1 .. Len(back) : reach[back[j]] = Params
  BY <1>1, <1>3 DEF GradPlaces
<1>5. i = 1
  <2> SUFFICES ASSUME i # 1
               PROVE  FALSE
    OBVIOUS
  <2>1. 1 \in 1 .. i - 1 /\ 1 \in 1 .. Len(back)
    BY <1>3
  <2>2. reach[back[1]] = {}
    BY <1>2, <2>1 DEF FirstReached
  <2> QED
    BY <1>4, <2>1, <2>2, ParamsAssumption
<1>6. /\ back' = SubSeq(back, 2, Len(back)) /\ u = back[1] /\ u \in Units
      /\ reach[u] = Params /\ Ran(u)
      /\ need[u] = {}
  BY <1>2, <1>3, <1>4, <1>5 DEF PassPlaces
<1>7. /\ \A j \in 1 .. Len(back') : j + 1 \in 1 .. Len(back) /\ j + 1 # 1 /\ back'[j] = back[j + 1]
      /\ \A j \in 1 .. Len(back) : j # 1 => j - 1 \in 1 .. Len(back') /\ back'[j - 1] = back[j]
  BY <1>3, <1>6
<1>8. ~In(back', u)
  <2> SUFFICES ASSUME NEW j \in 1 .. Len(back'), back'[j] = back[1]
               PROVE  FALSE
    BY <1>6 DEF In
  <2>1. j + 1 \in 1 .. Len(back) /\ j + 1 # 1 /\ back[j + 1] = back[1] /\ 1 \in 1 .. Len(back)
    BY <1>5, <1>7
  <2> QED
    BY <2>1 DEF PassPlaces
<1>9. ASSUME NEW v \in Units \ {u}
      PROVE  Ran(v)' <=> Ran(v)
  <2>1. back[1] # v
    BY <1>6
  <2>2. ASSUME NEW j \in 1 .. Len(back'), back'[j] = v
        PROVE  Ran(v)
    BY <1>7, <2>2 DEF Ran
  <2>3. ASSUME NEW j \in 1 .. Len(back), back[j] = v
        PROVE  Ran(v)'
    <3>1. j - 1 \in 1 .. Len(back') /\ back'[j - 1] = v
      BY <1>7, <2>1, <2>3
    <3> QED
      BY <3>1 DEF Ran
  <2> QED
    BY <2>2, <2>3 DEF Ran
<1> HIDE DEF u
<1>10. /\ Apply(IF u \in Reshard THEN PreBackwardUnshard(rt, u) ELSE rt)
       /\ need' = [need EXCEPT ![u] = Params]
       /\ unsynced' = IF rt.grp[u].depth > 0 THEN unsynced \cup {u} ELSE unsynced \ {u}
       /\ reduced' = IF ~(rt.grp[u].depth > 0) THEN reduced \cup {u} ELSE reduced \ {u}
  BY <1>2, <1>6 DEF u
<1> QED
  BY <1>1, <1>6, <1>8, <1>9, <1>10

LEMMA InitGradPlaces == Init => GradPlaces
BY DEF Init, GradPlaces, Paired

LEMMA NextKeepsGradPlaces ==
  ASSUME PlainUse, LoopPlaces, PassPlaces, GradPlaces, [Next]_vars
  PROVE  GradPlaces'
<1> USE DEF GradPlaces
<1>1. ASSUME NEW program \in Programs, NEW g \in BOOLEAN, BeginForward(program, g)
      PROVE  GradPlaces'
  <2>1. /\ phase \in {"idle", "stepped"}
        /\ g => phase = "idle" /\ micro < MicroCount
        /\ ~g /\ phase = "idle" => reduced = {}
    BY <1>1, MicroCountAssumption DEF BeginForward, CanTrain, CanEvaluate
  <2>2. Paired(program)
    <3> SUFFICES ASSUME NEW i \in 1 .. Len(program), program[i][1] = "pre"
                 PROVE  \E j \in 1 .. Len(program) : program[j] = <<"post", program[i][2]>>
      BY DEF Paired
    <3> QED
      BY HooksAssumption DEF Programs
  <2>3. /\ phase' \in {"forward", "eval"} /\ (phase' = "forward" <=> phase = "idle")
        /\ grad' = g /\ events' = program /\ UNCHANGED <<micro, reduced>>
    BY <1>1, <2>1 DEF BeginForward
  <2> QED
    BY <2>1, <2>2, <2>3
<1>2. CASE CallPreForward
  <2>1. Paired(Tail(events))
    BY <1>2, EnteredHead DEF CallPreForward, LoopPlaces, PassPlaces
  <2>2. /\ events # <<>> /\ events' = Tail(events)
        /\ UNCHANGED <<phase, grad, micro, back, reach, reduced, unsynced>>
    BY <1>2 DEF CallPreForward
  <2>3. phase \in {"forward", "eval"}
    BY <2>2 DEF PassPlaces
  <2> QED
    BY <2>1, <2>2, <2>3
<1>3. CASE CallPostForward
  <2>1. Paired(Tail(events))
    BY <1>3, EnteredHead DEF CallPostForward, LoopPlaces, PassPlaces
  <2>2. /\ events # <<>> /\ events' = Tail(events)
        /\ UNCHANGED <<grad, micro, reach, reduced, unsynced>>
    BY <1>3 DEF CallPostForward
  <2>3. phase \in {"forward", "eval"} /\ (phase = "eval" => ~grad)
    BY <2>2 DEF PassPlaces
  <2>4. \/ phase' = phase
        \/ grad /\ phase' = "forwarded"
        \/ ~grad /\ phase' \in {"stepped", "idle"}
    BY <1>3 DEF CallPostForward
  <2> QED
    BY <2>1, <2>2, <2>3, <2>4
<1>4. ASSUME NEW r \in Reaches, BeginBackward(r)
      PROVE  GradPlaces'
  <2>1. /\ phase = "forwarded" /\ phase' = "backward" /\ micro' = micro + 1
        /\ reach' = [u \in Units |-> IF Ran(u) THEN r[u] ELSE {}]
        /\ UNCHANGED <<back, events>>
    BY <1>4 DEF BeginBackward
  <2>2. micro' \in Micros /\ micro' \in Nat
    BY <2>1, MicroCountAssumption DEF Micros
  <2>3. \A v \in Units : Ran(v)' => reach'[v] = Params
    BY <2>1 DEF PlainUse, Ran
  <2> QED
    BY <2>1, <2>2, <2>3
<1>5. CASE CallPreBackward
  <2>1. phase = "backward" /\ UNCHANGED <<phase, grad, events, reach, micro>>
    BY <1>5, PreBackwardUnit
  <2>2. \A v \in Units : Ran(v)' => Ran(v)
    BY <1>5, PreBackwardUnit
  <2> QED
    BY <2>1, <2>2
<1>6. ASSUME NEW u \in Units, NEW p \in Params, CallAccumulateGrad(u, p)
      PROVE  GradPlaces'
  BY <1>6 DEF CallAccumulateGrad, Ran
<1>7. CASE EndBackward
  BY <1>7 DEF EndBackward
<1>8. ASSUME NEW scope \in Scopes, CallEnterNoSync(scope)
      PROVE  GradPlaces'
  BY <1>8 DEF CallEnterNoSync, Ran
<1>9. CASE CallExitNoSync
  BY <1>9 DEF CallExitNoSync, Ran
<1>10. CASE BeginStep
  BY <1>10 DEF BeginStep, CanStep, PlainUse
<1>11. CASE PrepareNextUnit
  BY <1>11 DEF PrepareNextUnit
<1>12. CASE EndStep
  BY <1>12 DEF EndStep
<1>13. ASSUME NEW setToNone \in ZeroModes, CallZeroGrad(setToNone)
       PROVE  GradPlaces'
  BY <1>13 DEF CallZeroGrad
<1>14. CASE UNCHANGED vars
  BY <1>14 DEF vars, Ran
<1> QED
  BY <1>1, <1>2, <1>3, <1>4, <1>5, <1>6, <1>7, <1>8, <1>9, <1>10, <1>11, <1>12, <1>13,
     <1>14 DEF Next

-----------------------------------------------------------------------------
(* Every step of the runtime is one of the promise, or none *)

SameHeld(s, t) ==
  \A v \in Units : \A p \in Owned[v] : HeldBy(t.grp[v], p) = HeldBy(s.grp[v], p)
SameShown(s, t) ==
  \A v \in Units : \A p \in Owned[v] : GradOf(t.grp[v], p) = GradOf(s.grp[v], p)

\* What a step has to keep while no error is raised.
UnitsKept == \A v \in Units : UnitGrads(v)' /\ UnitPasses(v)'

LEMMA SlotsOwned ==
  ASSUME NEW s \in Slots
  PROVE  s[1] \in Units /\ s[2] \in Owned[s[1]] /\ s[2] \in Params /\ s = <<s[1], s[2]>>
BY DEF Slots

LEMMA HeldStutters ==
  ASSUME SameHeld(rt, rt')
  PROVE  Held' = Held
<1>1. \A s \in Slots : HeldBy(rt'.grp[s[1]], s[2]) = HeldBy(rt.grp[s[1]], s[2])
  BY SlotsOwned DEF SameHeld
<1> QED
  BY <1>1 DEF Held

LEMMA SeenStutters ==
  ASSUME Stepped' <=> Stepped, Stepped => SameShown(rt, rt')
  PROVE  Seen' = Seen
<1>1. CASE ~Stepped
  BY <1>1 DEF Seen
<1>2. CASE Stepped
  <2>1. \A s \in Slots : GradOf(rt'.grp[s[1]], s[2]) = GradOf(rt.grp[s[1]], s[2])
    BY <1>2, SlotsOwned DEF SameShown
  <2> QED
    BY <1>2, <2>1 DEF Seen
<1> QED
  BY <1>1, <1>2

LEMMA SameGroupsStutter ==
  ASSUME rt'.grp = rt.grp, Stepped' <=> Stepped
  PROVE  Held' = Held /\ Seen' = Seen
BY HeldStutters, SeenStutters DEF SameHeld, SameShown

LEMMA AppliedError ==
  ASSUME NEW s, Lifecycle(rt), Apply(s), ~Running'
  PROVE  rt'.grp = rt.grp
<1>1. rt' = [rt EXCEPT !.err = s.err]
  BY DEF Apply, Running
<1> QED
  BY <1>1 DEF Lifecycle, IsRuntime, RuntimeFields

\* What the invariant says of a runtime that has raised nothing.
LEMMA InvFacts ==
  ASSUME GradInv, Running
  PROVE  /\ PassInv /\ GradPlaces /\ LoopPlaces /\ PassPlaces /\ InUse(rt)
         /\ Lifecycle(rt) /\ RuntimeOK(rt) /\ IsRuntime(rt) /\ rt.err = None
         /\ \A v \in Units : /\ UnitGrads(v) /\ UnitPasses(v)
                             /\ IsGroup(rt.grp[v]) /\ DOMAIN rt.grp[v] = GroupFields
                             /\ GradsOK(rt.grp[v]) /\ StoresOK(rt.grp[v])
<1>1. /\ PassInv /\ GradPlaces /\ LifecycleInv /\ LoopPlaces /\ PassPlaces /\ InUse(rt)
      /\ Lifecycle(rt) /\ rt.err = None
      /\ \A v \in Units : UnitGrads(v) /\ UnitPasses(v)
  BY DEF GradInv, PassInv, LifecycleInv, Running
<1>2. RuntimeOK(rt) /\ IsRuntime(rt)
  BY <1>1, LifecycleIsOK DEF RuntimeOK
<1>3. \A v \in Units : IsGroup(rt.grp[v]) /\ DOMAIN rt.grp[v] = GroupFields
  BY <1>2 DEF IsRuntime, IsGroup
<1>4. \A v \in Units : GradsOK(rt.grp[v]) /\ StoresOK(rt.grp[v])
  BY <1>1 DEF UnitGrads, GradsOK
<1> QED
  BY <1>1, <1>2, <1>3, <1>4

\* Handlers hold what they keep.
LEMMA KeptIsHeld ==
  ASSUME GradInv, Running
  PROVE  /\ KeepsAll(rt, rt') => SameHeld(rt, rt')
         /\ \A u : KeepsBut(rt, rt', u) =>
              \A v \in Units \ {u} : \A p \in Owned[v] :
                HeldBy(rt'.grp[v], p) = HeldBy(rt.grp[v], p)
<1>1. \A v \in Units : StoresOK(rt.grp[v]) /\ Owned[v] \subseteq Params
  BY InvFacts, OwnedAssumption
<1> QED
  BY <1>1 DEF KeepsAll, KeepsBut, KeepsGrads, SameHeld

LEMMA NothingChanges ==
  ASSUME NEW g, NEW u
  PROVE  KeepsGrads(g, g, u)
BY SameGradsKeeps DEF SameGrads

LEMMA BeginForwardRefines ==
  ASSUME PlainUse, GradInv, NEW program \in Programs, NEW g \in BOOLEAN,
         BeginForward(program, g)
  PROVE  UnitsKept /\ Held' = Held /\ Seen' = Seen
<1>1. /\ Running /\ phase \in {"idle", "stepped"}
      /\ phase' = (IF phase = "idle" THEN "forward" ELSE "eval")
      /\ grad' = g /\ events' = program
      /\ UNCHANGED <<rt, back, reach, need, micro, unsynced, reduced>>
  BY DEF BeginForward, CanTrain, CanEvaluate
<1>2. PassInv /\ PassPlaces /\ \A v \in Units : UnitGrads(v) /\ UnitPasses(v)
  BY <1>1, InvFacts
<1>3. events = <<>>
  BY <1>1, <1>2 DEF PassPlaces
<1>4. \A v \in Units : ~Entered(events, v) /\ ~Entered(events', v)
  BY <1>1, <1>3, ProgramInOrder, NoneEntered
<1>5. ASSUME NEW v \in Units
      PROVE  UnitGrads(v)' /\ UnitPasses(v)'
  <2>1. Ran(v)' <=> Ran(v)
    BY <1>1 DEF Ran
  <2>2. KeepsGrads(rt.grp[v], rt'.grp[v], v)
    BY <1>1, NothingChanges
  <2>3. Computing(v) => rt.grp[v].reduce = "none"
    BY <1>1, <1>2, ComputingGathered
  <2>4. UnitGrads(v)'
    BY <1>1, <1>2, <1>4, <2>1, <2>2, <2>3, UnitStays
  <2>5. UnitPasses(v)'
    BY <1>1, <1>2, <2>1, PassesStay
  <2> QED
    BY <2>4, <2>5
<1>6. Stepped' <=> Stepped
  BY <1>1 DEF Stepped
<1> QED
  BY <1>1, <1>5, <1>6, SameGroupsStutter DEF UnitsKept

LEMMA BeginBackwardRefines ==
  ASSUME PlainUse, GradInv, NEW r \in Reaches, BeginBackward(r)
  PROVE  UnitsKept /\ Held' = Held /\ Seen' = Seen
<1>1. /\ Running /\ phase = "forwarded" /\ phase' = "backward" /\ micro' = micro + 1
      /\ UNCHANGED <<rt, grad, events, back, need, unsynced, reduced>>
  BY DEF BeginBackward
<1>2. PassInv /\ GradPlaces /\ \A v \in Units : UnitGrads(v) /\ UnitPasses(v)
  BY <1>1, InvFacts
<1>3. micro \in Nat /\ micro < MicroCount /\ micro' \in Micros /\ micro' > micro
  BY <1>1, <1>2, MicroCountAssumption DEF GradPlaces, Micros
<1>4. ASSUME NEW v \in Units
      PROVE  UnitGrads(v)' /\ UnitPasses(v)'
  <2>1. Ran(v)' <=> Ran(v)
    BY <1>1 DEF Ran
  <2>2. KeepsGrads(rt.grp[v], rt'.grp[v], v)
    BY <1>1, NothingChanges
  <2>3. Computing(v) => rt.grp[v].reduce = "none"
    BY <1>1, <1>2, ComputingGathered
  <2>4. UnitGrads(v)'
    BY <1>1, <1>2, <2>1, <2>2, <2>3, UnitStays
  <2>5. \A p \in Owned[v], m \in Micros : m > micro => HeldBy(rt'.grp[v], p)[m] = 0
    BY <1>1, <1>2 DEF UnitPasses
  <2>6. \A m \in Micros : m > micro' => m > micro
    BY <1>3 DEF Micros
  <2>7. UnitPasses(v)'
    BY <1>3, <2>5, <2>6 DEF UnitPasses
  <2> QED
    BY <2>4, <2>7
<1>5. Stepped' <=> Stepped
  BY <1>1 DEF Stepped
<1> QED
  BY <1>1, <1>4, <1>5, SameGroupsStutter DEF UnitsKept

\* The backward has come to every unit of its forward.
LEMMA EndBackwardRefines ==
  ASSUME PlainUse, GradInv, EndBackward
  PROVE  UnitsKept /\ Held' = Held /\ Seen' = Seen
<1>1. /\ Running /\ phase = "backward" /\ phase' = "idle" /\ back' = <<>>
      /\ \A i \in 1 .. Len(back) : reach[back[i]] = {}
      /\ UNCHANGED <<rt, grad, events, need, micro, unsynced, reduced>>
  BY DEF EndBackward
<1>2. /\ PassInv /\ GradPlaces /\ PassPlaces
      /\ \A v \in Units : UnitGrads(v) /\ UnitPasses(v)
  BY <1>1, InvFacts
<1>3. ASSUME NEW v \in Units
      PROVE  ~Ran(v) /\ ~Ran(v)'
  <2>1. ~Ran(v)
    BY <1>1, <1>2, ParamsAssumption DEF Ran, GradPlaces
  <2>2. ~Ran(v)'
    BY <1>1 DEF Ran
  <2> QED
    BY <2>1, <2>2
<1>4. ASSUME NEW v \in Units
      PROVE  UnitGrads(v)' /\ UnitPasses(v)'
  <2>1. Ran(v)' <=> Ran(v)
    BY <1>3
  <2>2. KeepsGrads(rt.grp[v], rt'.grp[v], v)
    BY <1>1, NothingChanges
  <2>3. Computing(v) => rt.grp[v].reduce = "none"
    BY <1>1, <1>2, ComputingGathered
  <2>4. UnitGrads(v)'
    BY <1>1, <1>2, <2>1, <2>2, <2>3, UnitStays
  <2>5. UnitPasses(v)'
    BY <1>1, <1>2, PassesStay
  <2> QED
    BY <2>4, <2>5
<1>5. Stepped' <=> Stepped
  BY <1>1 DEF Stepped
<1> QED
  BY <1>1, <1>4, <1>5, SameGroupsStutter DEF UnitsKept

\* In a forward autograd accumulates nothing, and the unit whose hook comes next
\* has no backward to wait for.
LEMMA NextHook ==
  ASSUME GradInv, Running, events # <<>>
  PROVE  LET u == Head(events)[2]
         IN  /\ u \in Units /\ ~Ran(u)
             /\ phase \in {"forward", "eval"}
             /\ \A v \in Units : need[v] = {}
             /\ \A v \in Units \ {u} : Entered(Tail(events), v) <=> Entered(events, v)
             /\ Head(events)[1] = "pre" => ~Entered(events, u) /\ Entered(Tail(events), u)
             /\ Head(events)[1] = "post" => Entered(events, u) /\ ~Entered(Tail(events), u)
<1> DEFINE u == Head(events)[2]
<1>1. LoopPlaces /\ PassPlaces /\ GradPlaces
  BY InvFacts
<1>2. events \in Seq({"pre", "post"} \X Units) /\ InOrder(events) /\ Paired(events)
  BY <1>1 DEF LoopPlaces, PassPlaces, GradPlaces
<1>3. u \in Units
  BY <1>2, TailOfHooks
<1>4. phase \in {"forward", "eval"} /\ \A v \in Units : need[v] = {}
  BY <1>1 DEF PassPlaces
<1>5. 1 \in 1 .. Len(events) /\ events[1][2] = u
  BY <1>2
<1>6. \A i \in 1 .. Len(back) : back[i] # u
  BY <1>1, <1>5 DEF PassPlaces, Uncalled
<1> HIDE DEF u
<1>7. ~Ran(u)
  BY <1>6 DEF Ran
<1>8. \A v \in Units \ {u} : Entered(Tail(events), v) <=> Entered(events, v)
  BY <1>2, EnteredOthers DEF u
<1>9. /\ Head(events)[1] = "pre" => ~Entered(events, u) /\ Entered(Tail(events), u)
      /\ Head(events)[1] = "post" => Entered(events, u) /\ ~Entered(Tail(events), u)
  BY <1>2, EnteredHead DEF u
<1> QED
  BY <1>3, <1>4, <1>7, <1>8, <1>9 DEF u

LEMMA QuietShows ==
  ASSUME NEW s, NEW t, NEW u, QuietBut(s, t, u)
  PROVE  \A v \in Units \ {u}, p \in Params : GradOf(t.grp[v], p) = GradOf(s.grp[v], p)
<1>1. \A v \in Units \ {u} : SameGrads(s.grp[v], t.grp[v])
  BY DEF QuietBut, QuietGroup
<1> QED
  BY <1>1, SameGradsHold

LEMMA CallPreForwardRefines ==
  ASSUME PlainUse, GradInv, CallPreForward, Running'
  PROVE  UnitsKept /\ Held' = Held /\ Seen' = Seen
<1> DEFINE u == Head(events)[2]
           s == PreForward(rt, u, grad)
           g == rt.grp[u]
           h == s.grp[u]
           f == [g EXCEPT !.seen = {}, !.final = FALSE]
<1>1. /\ Running /\ events # <<>> /\ Head(events)[1] = "pre" /\ Apply(s)
      /\ events' = Tail(events)
      /\ UNCHANGED <<phase, grad, back, reach, need, micro, unsynced, reduced>>
  BY DEF CallPreForward
<1>2. /\ PassInv /\ PassPlaces /\ GradPlaces /\ Lifecycle(rt) /\ RuntimeOK(rt)
      /\ \A v \in Units : UnitGrads(v) /\ UnitPasses(v) /\ GradsOK(rt.grp[v])
                          /\ DOMAIN rt.grp[v] = GroupFields
  BY <1>1, InvFacts
<1>3. /\ u \in Units /\ ~Ran(u) /\ phase \in {"forward", "eval"}
      /\ \A v \in Units : need[v] = {}
      /\ \A v \in Units \ {u} : Entered(events', v) <=> Entered(events, v)
      /\ ~Entered(events, u) /\ Entered(events', u)
  BY <1>1, NextHook
<1> HIDE DEF u
<1>4. rt' = s /\ s.err = None
  BY <1>1, <1>2, AppliedWithoutError
<1>5. /\ QuietBut(rt, s, u) /\ ~g.pend /\ Gathered(s, u)
      /\ IF grad /\ u \notin Reshard THEN PreparedAs(f, h) ELSE SameGrads(f, h)
  BY <1>2, <1>3, <1>4, PreForwardQuiet
<1>6. g.reduce = h.reduce
  BY <1>3, <1>5 DEF QuietBut, SameReduces
<1>7. h.reduce = "none" /\ DOMAIN h = GroupFields
  <2>1. PassInv'
    BY <1>2, NextKeepsPass DEF Next
  <2>2. Consistent(rt'.grp[u]) /\ IsGroup(rt'.grp[u])
    BY <1>3, <2>1 DEF PassInv, LifecycleInv, Lifecycle, IsRuntime
  <2>3. Consistent(h) /\ h.state = "UNSHARDED" /\ DOMAIN h = GroupFields
    BY <1>4, <1>5, <2>2 DEF Gathered, IsGroup
  <2> QED
    BY <2>3 DEF Consistent
<1>8. /\ DOMAIN f = GroupFields /\ SameStores(g, f) /\ f.defer = g.defer
      /\ f.pend = g.pend /\ f.store = g.store
  BY <1>2, <1>3 DEF SameStores, GroupFields
<1> HIDE DEF s
<1>9. ~Computing(u)
  BY <1>3 DEF Computing
<1>10. Spent(g)
  BY <1>2, <1>3, <1>9 DEF UnitGrads, Spent
<1> HIDE DEF f
<1>11. PICK e : /\ DOMAIN e = GroupFields /\ SameGrads(f, e)
                /\ h = IF grad /\ u \notin Reshard THEN PrepareBackwardGradStorage(e) ELSE e
  <2>1. CASE grad /\ u \notin Reshard
    BY <1>5, <2>1 DEF PreparedAs
  <2>2. CASE ~(grad /\ u \notin Reshard)
    BY <1>5, <1>7, <2>2
  <2> QED
    BY <2>1, <2>2
<1>12. /\ GradsOK(e) /\ ~e.pend /\ e.store = g.store /\ e.defer = g.defer
       /\ e.reduce = g.reduce
       /\ \A p : HeldBy(e, p) = HeldBy(g, p) /\ GradOf(e, p) = GradOf(g, p)
  <2>1. GradsOK(f) /\ \A p : HeldBy(f, p) = HeldBy(g, p) /\ GradOf(f, p) = GradOf(g, p)
    BY <1>2, <1>3, <1>8, SameStoresHold DEF GradsOK
  <2>2. GradsOK(e) /\ \A p : HeldBy(e, p) = HeldBy(f, p) /\ GradOf(e, p) = GradOf(f, p)
    BY <1>11, <2>1, SameGradsHold DEF GradsOK
  <2>3. e.pend = f.pend /\ e.store = f.store /\ e.defer = f.defer /\ e.reduce = f.reduce
    BY <1>11 DEF SameGrads
  <2> QED
    BY <1>5, <1>8, <2>1, <2>2, <2>3 DEF SameStores
<1>13. Spent(e)
  BY <1>10, <1>12 DEF Spent
<1> DEFINE prepared == grad /\ u \notin Reshard
<1>14. /\ GradsOK(h) /\ ~h.pend /\ h.store["own"] = ZeroGrads
       /\ \A p \in Params : HeldBy(h, p) = HeldBy(g, p)
       /\ prepared => Ready(h)
       /\ ~prepared => h = e
  <2>1. CASE prepared
    <3>1. h = PrepareBackwardGradStorage(e)
      BY <1>11, <2>1
    <3>2. e.reduce = "none" /\ GradPath # "flat"
      BY <1>6, <1>7, <1>12 DEF PlainUse
    <3> QED
      BY <1>11, <1>12, <1>13, <2>1, <3>1, <3>2, PreparedGrads
  <2>2. CASE ~prepared
    BY <1>11, <1>12, <1>13, <2>2 DEF Spent
  <2> QED
    BY <2>1, <2>2
<1>15. KeepsBut(rt, rt', u)
  BY <1>4, <1>5, QuietKeeps
<1>16. SameHeld(rt, rt')
  <2>1. \A v \in Units \ {u} : \A p \in Owned[v] :
          HeldBy(rt'.grp[v], p) = HeldBy(rt.grp[v], p)
    BY <1>1, <1>15, KeptIsHeld
  <2>2. \A p \in Owned[u] : HeldBy(rt'.grp[u], p) = HeldBy(rt.grp[u], p)
    BY <1>3, <1>4, <1>14, OwnedAssumption
  <2> QED
    BY <2>1, <2>2 DEF SameHeld
<1>17. ASSUME NEW v \in Units \ {u}
       PROVE  UnitGrads(v)'
  <2>1. Ran(v)' <=> Ran(v)
    BY <1>1 DEF Ran
  <2>2. KeepsGrads(rt.grp[v], rt'.grp[v], v)
    BY <1>15 DEF KeepsBut
  <2>3. Computing(v) => rt.grp[v].reduce = "none"
    BY <1>1, <1>2, ComputingGathered
  <2> QED
    BY <1>1, <1>2, <1>3, <2>1, <2>2, <2>3, UnitStays
<1>18. ASSUME NEW v \in Units, v = u
       PROVE  UnitGrads(v)'
  <2> DEFINE later == v \notin Reshard /\ grad'
  <2>1. /\ rt'.grp[v] = h /\ need'[v] = {} /\ Entered(events', v)
        /\ later <=> prepared
    BY <1>1, <1>3, <1>4, <1>18
  <2>2. ~Ran(v)'
    BY <1>1, <1>3, <1>18 DEF Ran
  <2>3. Computing(v)' <=> prepared
    BY <2>1, <2>2 DEF Computing
  <2>4. h.store["bucket"] # None => h.defer \/ Computing(v)'
    BY <1>13, <1>14, <2>3 DEF Spent
  <2>5. v \notin reduced' \cup unsynced' => ZeroHeld(h, v)
    <3>1. u \notin reduced \cup unsynced => ZeroHeld(g, u)
      BY <1>2, <1>3 DEF UnitGrads
    <3> QED
      BY <1>1, <1>3, <1>14, <1>18, <3>1, OwnedAssumption DEF ZeroHeld
  <2>6. ~Settled(v)'
    BY <2>1 DEF Settled
  <2> QED
    BY <1>14, <2>1, <2>3, <2>4, <2>5, <2>6 DEF UnitGrads
<1>19. ASSUME NEW v \in Units
       PROVE  UnitPasses(v)'
  BY <1>1, <1>2, <1>3, <1>16, PassesStay DEF SameHeld
<1>20. Stepped' <=> Stepped
  BY <1>1 DEF Stepped
<1>21. Stepped => SameShown(rt, rt')
  <2> SUFFICES ASSUME Stepped, NEW v \in Units, NEW p \in Owned[v]
               PROVE  GradOf(rt'.grp[v], p) = GradOf(rt.grp[v], p)
    BY DEF SameShown
  <2>1. ~grad /\ p \in Params
    BY <1>2, <1>3, OwnedAssumption DEF Stepped, PassPlaces
  <2>2. CASE v = u
    BY <1>4, <1>12, <1>14, <2>1, <2>2
  <2>3. CASE v # u
    BY <1>4, <1>5, <2>1, <2>3, QuietShows
  <2> QED
    BY <2>2, <2>3
<1> QED
  BY <1>16, <1>17, <1>18, <1>19, <1>20, <1>21, HeldStutters, SeenStutters DEF UnitsKept

LEMMA CallPostForwardRefines ==
  ASSUME PlainUse, GradInv, CallPostForward, Running'
  PROVE  UnitsKept /\ Held' = Held /\ Seen' = Seen
<1> DEFINE u == Head(events)[2]
           s == PostForward(rt, u, grad)
           g == rt.grp[u]
           h == s.grp[u]
           f == [g EXCEPT !.pend = grad]
<1>1. /\ Running /\ events # <<>> /\ Head(events)[1] = "post" /\ Apply(s)
      /\ events' = Tail(events)
      /\ phase' = (CASE Tail(events) # <<>> -> phase
                     [] Tail(events) = <<>> /\ grad -> "forwarded"
                     [] Tail(events) = <<>> /\ ~grad ->
                          IF phase = "eval" THEN "stepped" ELSE "idle")
      /\ UNCHANGED <<grad, reach, need, micro, unsynced, reduced>>
  BY DEF CallPostForward
<1>2. /\ PassInv /\ LoopPlaces /\ PassPlaces /\ GradPlaces /\ Lifecycle(rt) /\ RuntimeOK(rt)
      /\ \A v \in Units : UnitGrads(v) /\ UnitPasses(v) /\ GradsOK(rt.grp[v])
                          /\ StoresOK(rt.grp[v]) /\ DOMAIN rt.grp[v] = GroupFields
  BY <1>1, InvFacts
<1>3. /\ u \in Units /\ ~Ran(u) /\ phase \in {"forward", "eval"}
      /\ \A v \in Units : need[v] = {}
      /\ \A v \in Units \ {u} : Entered(events', v) <=> Entered(events, v)
      /\ Entered(events, u) /\ ~Entered(events', u)
  BY <1>1, NextHook
<1>4. (In(back', u) <=> grad) /\ \A v \in Units \ {u} : Ran(v)' <=> Ran(v)
  BY <1>2, PostForwardRan
<1>5. /\ phase' \in {"forward", "forwarded", "idle", "eval", "stepped"}
      /\ phase' \in {"eval", "stepped"} <=> phase = "eval"
      /\ phase = "eval" => ~grad
      /\ phase = "forward" /\ ~grad => reduced = {}
  BY <1>1, <1>2, <1>3 DEF PassPlaces, GradPlaces
<1> HIDE DEF u
<1>6. rt' = s
  BY <1>1, <1>2, AppliedWithoutError
<1>7. /\ QuietBut(rt, s, u)
      /\ u \notin Reshard => s = rt
      /\ u \in Reshard /\ NothingToDrop(g) => SameGrads(f, h)
  BY <1>2, <1>3, PostForwardQuiet
<1> HIDE DEF s
<1>8. UnitGrads(u) /\ StoresOK(g) /\ GradsOK(g)
  BY <1>2, <1>3
<1>9. /\ DOMAIN f = GroupFields /\ SameStores(g, f) /\ f.defer = g.defer /\ f.pend = grad
      /\ f.store = g.store
  BY <1>2, <1>3 DEF SameStores, GroupFields
<1> HIDE DEF f
<1>10. u \in Reshard => NothingToDrop(g)
  BY <1>3, <1>8 DEF UnitGrads, Computing, StoresOK, NothingToDrop
<1>11. u \in Reshard =>
         /\ GradsOK(h) /\ h.pend = grad /\ h.store = g.store /\ h.defer = g.defer
         /\ \A p : HeldBy(h, p) = HeldBy(g, p) /\ GradOf(h, p) = GradOf(g, p)
  <2> SUFFICES ASSUME u \in Reshard
               PROVE  /\ GradsOK(h) /\ h.pend = grad /\ h.store = g.store /\ h.defer = g.defer
                      /\ \A p : HeldBy(h, p) = HeldBy(g, p) /\ GradOf(h, p) = GradOf(g, p)
    OBVIOUS
  <2>1. GradsOK(f) /\ \A p : HeldBy(f, p) = HeldBy(g, p) /\ GradOf(f, p) = GradOf(g, p)
    BY <1>8, <1>9, SameStoresHold DEF GradsOK
  <2>2. SameGrads(f, h)
    BY <1>7, <1>10
  <2>3. GradsOK(h) /\ \A p : HeldBy(h, p) = HeldBy(f, p) /\ GradOf(h, p) = GradOf(f, p)
    BY <2>1, <2>2, SameGradsHold DEF GradsOK
  <2>4. h.pend = f.pend /\ h.store = f.store /\ h.defer = f.defer
    BY <2>2 DEF SameGrads
  <2> QED
    BY <1>9, <2>1, <2>3, <2>4
<1>12. u \notin Reshard => h = g
  BY <1>7
<1>13. \A p : HeldBy(h, p) = HeldBy(g, p) /\ GradOf(h, p) = GradOf(g, p)
  BY <1>11, <1>12
<1>14. KeepsBut(rt, rt', u)
  BY <1>6, <1>7, QuietKeeps
<1>15. SameHeld(rt, rt')
  <2>1. \A v \in Units \ {u} : \A p \in Owned[v] :
          HeldBy(rt'.grp[v], p) = HeldBy(rt.grp[v], p)
    BY <1>1, <1>14, KeptIsHeld
  <2>2. \A p \in Owned[u] : HeldBy(rt'.grp[u], p) = HeldBy(rt.grp[u], p)
    BY <1>6, <1>13
  <2> QED
    BY <2>1, <2>2 DEF SameHeld
<1>16. ASSUME NEW v \in Units \ {u}
       PROVE  UnitGrads(v)'
  <2>1. KeepsGrads(rt.grp[v], rt'.grp[v], v)
    BY <1>14 DEF KeepsBut
  <2>2. Computing(v) => rt.grp[v].reduce = "none"
    BY <1>1, <1>2, ComputingGathered
  <2>3. UnitGrads(v) /\ need'[v] = need[v] /\ grad' = grad
        /\ (v \in unsynced' <=> v \in unsynced) /\ (v \in reduced' <=> v \in reduced)
        /\ (phase \in {"stepped", "eval"} => phase' \in {"stepped", "eval"})
    BY <1>1, <1>2, <1>3, <1>5
  <2> QED
    BY <1>3, <1>4, <2>1, <2>2, <2>3, UnitStays
<1>17. ASSUME NEW v \in Units, v = u
       PROVE  UnitGrads(v)'
  <2>1. /\ rt'.grp[v] = h /\ need'[v] = {} /\ ~Entered(events', v)
        /\ reduced' = reduced /\ unsynced' = unsynced /\ need[v] = {}
    BY <1>1, <1>3, <1>6, <1>17
  <2>2. Ran(v)' <=> grad
    BY <1>4, <1>17 DEF Ran, In
  <2>3. Computing(v)' <=> v \notin Reshard /\ grad
    BY <2>1, <2>2 DEF Computing
  <2>4. Computing(v) <=> v \notin Reshard /\ grad
    BY <1>3, <1>17 DEF Computing
  <2>5. GradsOK(h) /\ h.store = g.store /\ h.defer = g.defer
    BY <1>8, <1>11, <1>12
  <2>6. Computing(v)' => Ready(h)
    BY <1>8, <1>12, <1>17, <2>3, <2>4 DEF UnitGrads
  <2>7. h.store["bucket"] # None => h.defer \/ Computing(v)'
    BY <1>8, <1>17, <2>3, <2>4, <2>5 DEF UnitGrads
  <2>8. h.store["own"] = ZeroGrads
    BY <1>8, <1>17, <2>1, <2>5 DEF UnitGrads
  <2>9. v \notin reduced' \cup unsynced' => ZeroHeld(h, v)
    BY <1>8, <1>13, <1>17, <2>1 DEF UnitGrads, ZeroHeld
  <2>10. ~(v \in reduced' /\ Settled(v)')
    BY <1>3, <1>5, <2>1, <2>2 DEF Settled
  <2>11. h.pend => Ran(v)' /\ v \in Reshard
    BY <1>3, <1>8, <1>11, <1>12, <1>17, <2>2 DEF UnitGrads
  <2> QED
    BY <2>1, <2>5, <2>6, <2>7, <2>8, <2>9, <2>10, <2>11 DEF UnitGrads
<1>18. ASSUME NEW v \in Units
       PROVE  UnitPasses(v)'
  <2>1. UnitPasses(v) /\ micro' = micro /\ phase' # "backward"
    BY <1>1, <1>2, <1>5
  <2> QED
    BY <1>15, <2>1, PassesStay DEF SameHeld
<1>19. Stepped' <=> Stepped
  BY <1>3, <1>5 DEF Stepped
<1>20. SameShown(rt, rt')
  <2> SUFFICES ASSUME NEW v \in Units, NEW p \in Owned[v]
               PROVE  GradOf(rt'.grp[v], p) = GradOf(rt.grp[v], p)
    BY DEF SameShown
  <2>1. p \in Params
    BY OwnedAssumption
  <2>2. CASE v = u
    BY <1>6, <1>13, <2>2
  <2>3. CASE v # u
    BY <1>6, <1>7, <2>1, <2>3, QuietShows
  <2> QED
    BY <2>2, <2>3
<1> QED
  BY <1>15, <1>16, <1>17, <1>18, <1>19, <1>20, HeldStutters, SeenStutters DEF UnitsKept

\* The output hook of a unit makes it ready for the gradients to come.
LEMMA CallPreBackwardRefines ==
  ASSUME PlainUse, GradInv, CallPreBackward, Running'
  PROVE  UnitsKept /\ Held' = Held /\ Seen' = Seen
<1>1. Running /\ phase = "backward" /\ UNCHANGED <<phase, grad, events, reach, micro>>
  BY DEF CallPreBackward
<1>2. /\ PassInv /\ PassPlaces /\ GradPlaces /\ Lifecycle(rt) /\ RuntimeOK(rt) /\ InUse(rt)
      /\ \A v \in Units : UnitGrads(v) /\ UnitPasses(v) /\ GradsOK(rt.grp[v])
                          /\ StoresOK(rt.grp[v]) /\ DOMAIN rt.grp[v] = GroupFields
  BY <1>1, InvFacts
<1>3. PICK u \in Units :
        LET deferred == rt.grp[u].depth > 0
        IN  /\ Ran(u) /\ ~In(back', u) /\ need[u] = {}
            /\ \A v \in Units \ {u} : Ran(v)' <=> Ran(v)
            /\ Apply(IF u \in Reshard THEN PreBackwardUnshard(rt, u) ELSE rt)
            /\ need' = [need EXCEPT ![u] = Params]
            /\ unsynced' = IF deferred THEN unsynced \cup {u} ELSE unsynced \ {u}
            /\ reduced' = IF ~deferred THEN reduced \cup {u} ELSE reduced \ {u}
  BY <1>2, PreBackwardUnit
<1> DEFINE s == IF u \in Reshard THEN PreBackwardUnshard(rt, u) ELSE rt
           g == rt.grp[u]
           h == s.grp[u]
           f == [g EXCEPT !.pend = FALSE]
<1>4. /\ Apply(s)
      /\ need'[u] = Params /\ \A v \in Units \ {u} : need'[v] = need[v]
      /\ u \in unsynced' <=> g.depth > 0
      /\ u \in reduced' <=> ~(g.depth > 0)
      /\ \A v \in Units \ {u} : /\ v \in unsynced' <=> v \in unsynced
                                /\ v \in reduced' <=> v \in reduced
  BY <1>2, <1>3 DEF PassPlaces
<1>5. rt' = s
  BY <1>2, <1>4, AppliedWithoutError
<1>6. /\ QuietBut(rt, s, u)
      /\ u \notin Reshard => s = rt
      /\ u \in Reshard => PreparedAs(f, h) /\ Gathered(s, u)
  BY <1>2, PreBackwardUnshardQuiet, QuietReflexive
<1> HIDE DEF s
<1>7. /\ g.seen = {} /\ UnitGrads(u) /\ GradsOK(g)
  BY <1>2, <1>3 DEF InUse, Ran
<1>8. /\ DOMAIN f = GroupFields /\ SameStores(g, f) /\ f.defer = g.defer /\ ~f.pend
      /\ f.store = g.store /\ f.seen = g.seen /\ f.depth = g.depth
  BY <1>2 DEF SameStores, GroupFields
<1> HIDE DEF f
<1>9. /\ GradsOK(h) /\ Ready(h) /\ ~h.pend /\ h.seen = {} /\ h.depth = g.depth
      /\ \A p \in Params : HeldBy(h, p) = HeldBy(g, p)
  <2>1. CASE u \notin Reshard
    <3>1. h = g /\ Computing(u) /\ ~g.pend
      BY <1>3, <1>6, <1>7, <2>1 DEF Computing, UnitGrads
    <3> QED
      BY <1>7, <3>1 DEF UnitGrads
  <2>2. CASE u \in Reshard
    <3>1. PICK e : /\ DOMAIN e = GroupFields /\ SameGrads(f, e)
                   /\ h = PrepareBackwardGradStorage(e)
      BY <1>6, <2>2 DEF PreparedAs
    <3>2. ~Computing(u)
      BY <1>3, <2>2 DEF Computing
    <3>3. Spent(g)
      BY <1>3, <1>7, <3>2 DEF UnitGrads, Spent
    <3>4. g.reduce = h.reduce
      BY <1>6 DEF QuietBut, SameReduces
    <3>5. h.reduce = "none"
      <4>1. PassInv'
        BY <1>2, NextKeepsPass DEF Next
      <4>2. Consistent(rt'.grp[u])
        BY <4>1 DEF PassInv, LifecycleInv, Lifecycle
      <4>3. Consistent(h) /\ h.state = "UNSHARDED"
        BY <1>5, <1>6, <2>2, <4>2 DEF Gathered
      <4> QED
        BY <4>3 DEF Consistent
    <3>6. GradsOK(f) /\ \A p : HeldBy(f, p) = HeldBy(g, p)
      BY <1>7, <1>8, SameStoresHold DEF GradsOK
    <3>7. /\ GradsOK(e) /\ \A p : HeldBy(e, p) = HeldBy(g, p)
      BY <3>1, <3>6, SameGradsHold DEF GradsOK
    <3>8. /\ ~e.pend /\ e.seen = {} /\ e.depth = g.depth /\ e.reduce = "none"
          /\ e.store = g.store /\ e.defer = g.defer
      BY <1>7, <1>8, <3>1, <3>4, <3>5 DEF SameGrads, SameStores
    <3>9. Spent(e) /\ GradPath # "flat"
      BY <3>3, <3>8 DEF Spent, PlainUse
    <3>10. /\ GradsOK(h) /\ Ready(h) /\ h.pend = e.pend /\ h.seen = e.seen
           /\ h.depth = e.depth
           /\ \A p \in Params : HeldBy(h, p) = HeldBy(e, p)
      BY <3>1, <3>7, <3>8, <3>9, PreparedGrads
    <3> QED
      BY <3>7, <3>8, <3>10
  <2> QED
    BY <2>1, <2>2
<1>10. KeepsBut(rt, rt', u)
  BY <1>5, <1>6, QuietKeeps
<1>11. SameHeld(rt, rt')
  <2>1. \A v \in Units \ {u} : \A p \in Owned[v] :
          HeldBy(rt'.grp[v], p) = HeldBy(rt.grp[v], p)
    BY <1>1, <1>10, KeptIsHeld
  <2>2. \A p \in Owned[u] : HeldBy(rt'.grp[u], p) = HeldBy(rt.grp[u], p)
    BY <1>5, <1>9, OwnedAssumption
  <2> QED
    BY <2>1, <2>2 DEF SameHeld
<1>12. ASSUME NEW v \in Units \ {u}
       PROVE  UnitGrads(v)'
  <2>1. KeepsGrads(rt.grp[v], rt'.grp[v], v)
    BY <1>10 DEF KeepsBut
  <2>2. Computing(v) => rt.grp[v].reduce = "none"
    BY <1>1, <1>2, ComputingGathered
  <2>3. UnitGrads(v) /\ Entered(events', v) = Entered(events, v)
    BY <1>1, <1>2
  <2> QED
    BY <1>1, <1>3, <1>4, <2>1, <2>2, <2>3, UnitStays
<1>13. UnitGrads(u)'
  <2>1. rt'.grp[u] = h /\ need'[u] # {}
    BY <1>4, <1>5, ParamsAssumption
  <2>2. Computing(u)' /\ ~Settled(u)'
    BY <2>1 DEF Computing, Settled
  <2> QED
    BY <1>4, <1>9, <2>1, <2>2 DEF UnitGrads
<1>14. ASSUME NEW v \in Units
       PROVE  UnitPasses(v)'
  <2>1. Ran(v)' => Ran(v)
    BY <1>3 DEF Ran, In
  <2>2. need'[v] \subseteq need[v] \/ Ran(v)
    BY <1>3, <1>4
  <2>3. UnitPasses(v)
    BY <1>2
  <2> QED
    BY <1>1, <1>11, <2>1, <2>2, <2>3, PassesStay DEF SameHeld
<1>15. ~Stepped' /\ ~Stepped
  BY <1>1 DEF Stepped
<1> QED
  BY <1>11, <1>12, <1>13, <1>14, <1>15, HeldStutters, SeenStutters DEF UnitsKept

LEMMA HeldCounts ==
  ASSUME NEW g, StoresOK(g), NEW p \in Params
  PROVE  HeldBy(g, p) \in Counts
<1>1. /\ g.store["own"][p] \in Counts /\ InStore(g, "bucket", p) \in Counts
      /\ InStore(g, "local", p) \in Counts /\ g.reduced[p] \in Counts
  BY StoredCounts DEF StoresOK, Stores
<1> QED
  BY <1>1, HeldIsSum, SumCounts

\* The next contribution to a slot is a step of the promise.
LEMMA HeldContributes ==
  ASSUME NEW u \in Units, NEW p \in Owned[u], NEW m \in Micros, Seen = None, Seen' = Seen,
         HeldBy(rt.grp[u], p) \in Counts, HeldBy(rt.grp[u], p)[m] = 0,
         HeldBy(rt'.grp[u], p) = Plus(HeldBy(rt.grp[u], p), OnePass(m)),
         \A v \in Units, q \in Params :
           q \in Owned[v] /\ <<v, q>> # <<u, p>> =>
             HeldBy(rt'.grp[v], q) = HeldBy(rt.grp[v], q)
  PROVE  Promise!AccNext
<1> DEFINE slot == <<u, p>>
           old == HeldBy(rt.grp[u], p)
           new == HeldBy(rt'.grp[u], p)
<1>1. slot \in Slots /\ slot[1] = u /\ slot[2] = p
  BY OwnedAssumption DEF Slots
<1>2. /\ new \in Counts
      /\ \A n \in Micros : new[n] = old[n] + OnePass(m)[n]
  BY PlusCounts, ZeroCounts
<1> HIDE DEF old, new
<1>3. old \in Counts /\ old[m] = 0
  BY DEF old
<1>4. new = [old EXCEPT ![m] = 1]
  <2>1. \A n \in Micros : OnePass(m)[n] = IF n = m THEN 1 ELSE 0
    BY DEF OnePass
  <2>2. \A n \in Micros : old[n] \in Nat
    BY <1>3 DEF Counts
  <2>3. \A n \in Micros : new[n] = IF n = m THEN 1 ELSE old[n]
    BY <1>2, <1>3, <2>1, <2>2
  <2> DEFINE once == [old EXCEPT ![m] = 1]
  <2>4. once \in Counts
    BY <1>3 DEF Counts
  <2>5. \A n \in Micros : once[n] = IF n = m THEN 1 ELSE old[n]
    BY <1>3 DEF Counts
  <2> HIDE DEF once
  <2>6. \A n \in Micros : new[n] = once[n]
    BY <2>3, <2>5
  <2>7. new = once
    BY <1>2, <2>4, <2>6, EqualCounts
  <2> QED
    BY <2>7 DEF once
<1>5. Held[slot] = old /\ Held'[slot] = new
  BY <1>1 DEF Held, old, new
<1>6. ASSUME NEW s \in Slots, s # slot
      PROVE  Held'[s] = Held[s]
  <2>1. s[1] \in Units /\ s[2] \in Owned[s[1]] /\ s[2] \in Params /\ <<s[1], s[2]>> # slot
    BY <1>6, SlotsOwned
  <2>2. HeldBy(rt'.grp[s[1]], s[2]) = HeldBy(rt.grp[s[1]], s[2])
    BY <2>1
  <2> QED
    BY <2>2 DEF Held
<1>7. Held' = [Held EXCEPT ![slot] = new]
  <2>1. DOMAIN Held = Slots /\ DOMAIN Held' = Slots
    BY DEF Held
  <2>2. Held' = [s \in Slots |-> Held'[s]] /\ Held = [s \in Slots |-> Held[s]]
    BY DEF Held
  <2> HIDE DEF slot
  <2> QED
    BY <1>5, <1>6, <2>2
<1>8. Held' = [Held EXCEPT ![slot][m] = 1] /\ Held[slot][m] = 0
  BY <1>3, <1>4, <1>5, <1>7
<1>9. Promise!Contribute(slot, m)
  BY <1>8 DEF Promise!Contribute
<1> HIDE DEF slot
<1> QED
  BY <1>1, <1>9 DEF Promise!AccNext

LEMMA CallAccumulateGradRefines ==
  ASSUME PlainUse, GradInv, NEW u \in Units, NEW p \in Params,
         CallAccumulateGrad(u, p), Running'
  PROVE  UnitsKept /\ [Promise!AccNext]_<<Held, Seen>>
<1> DEFINE s == AccumulateGrad(rt, u, p, micro)
           g == rt.grp[u]
           h == s.grp[u]
           seen == g.seen \cup {p}
<1>1. /\ Running /\ p \in need[u] /\ Apply(s)
      /\ need' = [need EXCEPT ![u] = @ \ {p}]
      /\ UNCHANGED <<phase, grad, events, back, reach, micro, unsynced, reduced>>
  BY DEF CallAccumulateGrad
<1>2. /\ PassInv /\ PassPlaces /\ GradPlaces /\ Lifecycle(rt) /\ RuntimeOK(rt)
      /\ rt.err = None
      /\ \A v \in Units : UnitGrads(v) /\ UnitPasses(v) /\ GradsOK(rt.grp[v])
                          /\ StoresOK(rt.grp[v]) /\ DOMAIN rt.grp[v] = GroupFields
  BY <1>1, InvFacts
<1>3. /\ phase = "backward" /\ events = <<>> /\ need[u] # {} /\ ~Ran(u)
      /\ \A v \in Units : ~Entered(events, v)
      /\ need'[u] = need[u] \ {p} /\ \A v \in Units \ {u} : need'[v] = need[v]
  BY <1>1, <1>2, NoneEntered DEF PassPlaces, Ran
<1>4. \A v \in Units : Ran(v)' <=> Ran(v)
  BY <1>1 DEF Ran
<1>5. micro \in Micros
  BY <1>2, <1>3 DEF GradPlaces
<1>6. Computing(u) /\ g.reduce = "none" /\ Gathered(rt, u)
  BY <1>1, <1>2, <1>3, ComputingGathered DEF Computing
<1>7. /\ UnitGrads(u) /\ GradsOK(g) /\ Ready(g)
      /\ need[u] = Params \ g.seen /\ g.seen \subseteq Params
      /\ u \in unsynced <=> g.depth > 0
      /\ u \in reduced <=> ~(g.depth > 0)
      /\ ~g.pend
  BY <1>2, <1>3, <1>6 DEF UnitGrads
<1>8. rt' = s /\ s.err = None
  BY <1>1, <1>2, AppliedWithoutError
<1>9. /\ KeepsBut(rt, s, u) /\ GradsOK(h) /\ (h.pend => g.pend)
      /\ p \in Owned[u] => HeldBy(h, p) = Plus(HeldBy(g, p), OnePass(micro))
      /\ \A q \in Owned[u] \ {p} : HeldBy(h, q) = HeldBy(g, q)
      /\ seen # Params => Ready(h) /\ h.seen = seen /\ h.depth = g.depth
      /\ seen = Params => /\ h.store["own"] = ZeroGrads
                          /\ h.store["bucket"] # None => h.defer
                          /\ g.depth > 0 \/ Finished(h, u)
  BY <1>2, <1>6, <1>7, <1>8, AccumulateGradGrads DEF PlainUse
<1> HIDE DEF s
<1>10. need'[u] = Params \ seen /\ seen \subseteq Params
  BY <1>3, <1>7
<1>11. UnitGrads(u)'
  <2>1. /\ rt'.grp[u] = h /\ ~h.pend /\ u \in reduced' \cup unsynced'
        /\ u \in unsynced' <=> g.depth > 0
        /\ u \in reduced' <=> ~(g.depth > 0)
    BY <1>1, <1>7, <1>8, <1>9
  <2>2. CASE seen # Params
    <3>1. need'[u] # {} /\ seen # Params
      BY <1>10, <2>2
    <3>2. Computing(u)' /\ ~Settled(u)'
      BY <3>1 DEF Computing, Settled
    <3> QED
      BY <1>9, <1>10, <2>1, <3>1, <3>2 DEF UnitGrads
  <2>3. CASE seen = Params
    <3>1. need'[u] = {} /\ ~Ran(u)' /\ ~Entered(events', u)
      BY <1>1, <1>3, <1>4, <1>10, <2>3
    <3>2. ~Computing(u)'
      BY <3>1 DEF Computing
    <3> QED
      BY <1>9, <2>1, <2>3, <3>1, <3>2 DEF UnitGrads
  <2> QED
    BY <2>2, <2>3
<1>12. ASSUME NEW v \in Units \ {u}
       PROVE  UnitGrads(v)'
  <2>1. KeepsGrads(rt.grp[v], rt'.grp[v], v)
    BY <1>8, <1>9 DEF KeepsBut
  <2>2. Computing(v) => rt.grp[v].reduce = "none"
    BY <1>1, <1>2, ComputingGathered
  <2> QED
    BY <1>1, <1>2, <1>3, <1>4, <2>1, <2>2, UnitStays
<1>13. \A v \in Units \ {u} : \A q \in Owned[v] :
         HeldBy(rt'.grp[v], q) = HeldBy(rt.grp[v], q)
  BY <1>1, <1>8, <1>9, KeptIsHeld
<1>14. ASSUME NEW v \in Units \ {u}
       PROVE  UnitPasses(v)'
  <2>1. UnitPasses(v) /\ need'[v] \subseteq need[v]
    BY <1>2, <1>3
  <2> QED
    BY <1>1, <1>4, <1>13, <2>1, PassesStay
<1>15. HeldBy(g, p) \in Counts
  BY <1>7, HeldCounts DEF GradsOK
<1>16. \A m \in Micros : m # micro => Plus(HeldBy(g, p), OnePass(micro))[m] = HeldBy(g, p)[m]
  <2> SUFFICES ASSUME NEW m \in Micros, m # micro
               PROVE  Plus(HeldBy(g, p), OnePass(micro))[m] = HeldBy(g, p)[m]
    OBVIOUS
  <2>1. OnePass(micro)[m] = 0 /\ HeldBy(g, p)[m] \in Nat
    BY <1>15 DEF OnePass, Counts
  <2>2. Plus(HeldBy(g, p), OnePass(micro))[m] = HeldBy(g, p)[m] + OnePass(micro)[m]
    BY <1>15, PlusCounts, ZeroCounts
  <2> QED
    BY <2>1, <2>2
<1>17. UnitPasses(u)'
  <2>1. UnitPasses(u) /\ micro' = micro /\ rt'.grp[u] = h /\ micro \in Nat
    BY <1>1, <1>2, <1>8 DEF GradPlaces
  <2>2. ASSUME NEW q \in Owned[u], NEW m \in Micros, m > micro
        PROVE  HeldBy(h, q)[m] = 0
    <3>1. HeldBy(g, q)[m] = 0
      BY <2>1, <2>2 DEF UnitPasses
    <3>2. m # micro
      BY <2>1, <2>2
    <3> QED
      BY <1>9, <1>16, <3>1, <3>2
  <2>3. ASSUME NEW q \in Owned[u], q \in need'[u] \/ Ran(u)'
        PROVE  HeldBy(h, q)[micro] = 0
    <3>1. q # p /\ q \in need[u]
      BY <1>3, <1>4, <2>3
    <3>2. HeldBy(g, q)[micro] = 0
      BY <1>3, <2>1, <3>1 DEF UnitPasses
    <3> QED
      BY <1>9, <3>1, <3>2
  <2> QED
    BY <2>1, <2>2, <2>3 DEF UnitPasses
<1>18. ~Stepped' /\ ~Stepped /\ Seen = None /\ Seen' = None
  BY <1>1, <1>3 DEF Stepped, Seen
<1>19. CASE p \notin Owned[u]
  <2>1. \A q \in Owned[u] : HeldBy(rt'.grp[u], q) = HeldBy(rt.grp[u], q)
    BY <1>8, <1>9, <1>19
  <2>2. SameHeld(rt, rt')
    BY <1>13, <2>1 DEF SameHeld
  <2> QED
    BY <1>11, <1>12, <1>14, <1>17, <1>18, <2>2, HeldStutters DEF UnitsKept
<1>20. CASE p \in Owned[u]
  <2>1. HeldBy(g, p)[micro] = 0
    BY <1>1, <1>2, <1>3, <1>20 DEF UnitPasses
  <2>2. \A v \in Units, q \in Params :
          q \in Owned[v] /\ <<v, q>> # <<u, p>> =>
            HeldBy(rt'.grp[v], q) = HeldBy(rt.grp[v], q)
    BY <1>8, <1>9, <1>13
  <2>3. HeldBy(rt'.grp[u], p) = Plus(HeldBy(g, p), OnePass(micro))
    BY <1>8, <1>9, <1>20
  <2>4. Promise!AccNext
    BY <1>5, <1>15, <1>18, <1>20, <2>1, <2>2, <2>3, HeldContributes
  <2> QED
    BY <1>11, <1>12, <1>14, <1>17, <2>4 DEF UnitsKept
<1> QED
  BY <1>19, <1>20

\* no_sync is entered and left between a unit's hooks.
LEMMA BetweenStays ==
  ASSUME NEW v \in Units, UnitGrads(v), need[v] = {}, need'[v] = {}, Ran(v)' <=> Ran(v),
         UNCHANGED <<phase, grad, events, unsynced, reduced>>,
         GradsOK(rt'.grp[v]), rt'.grp[v].store["own"] = ZeroGrads,
         Ready(rt.grp[v]) => Ready(rt'.grp[v]),
         rt'.grp[v].defer = rt.grp[v].defer, rt'.grp[v].final = rt.grp[v].final,
         rt'.grp[v].pend => rt.grp[v].pend,
         \/ rt'.grp[v].store["bucket"] = rt.grp[v].store["bucket"]
         \/ rt'.grp[v].defer,
         ~rt.grp[v].defer => SameStores(rt.grp[v], rt'.grp[v]),
         \A p \in Owned[v] : HeldBy(rt'.grp[v], p) = HeldBy(rt.grp[v], p)
  PROVE  UnitGrads(v)'
<1> DEFINE g == rt.grp[v]
           h == rt'.grp[v]
<1>1. (Computing(v)' <=> Computing(v)) /\ (Settled(v)' <=> Settled(v))
  BY DEF Computing, Settled
<1>2. Finished(g, v) => Finished(h, v)
  BY SameStoresHold DEF Finished
<1>3. ZeroHeld(g, v) => ZeroHeld(h, v)
  BY DEF ZeroHeld
<1> QED
  BY <1>1, <1>2, <1>3 DEF UnitGrads

LEMMA CallEnterNoSyncRefines ==
  ASSUME PlainUse, GradInv, NEW scope \in Scopes, CallEnterNoSync(scope), Running'
  PROVE  UnitsKept /\ Held' = Held /\ Seen' = Seen
<1> DEFINE groups ==
      [u \in Units |-> IF u \in scope THEN EnterNoSync(rt.grp[u]) ELSE rt.grp[u]]
           s == [rt EXCEPT !.grp = groups]
<1>1. /\ Running /\ Apply(s) /\ phase \in {"idle", "forwarded"}
      /\ UNCHANGED <<phase, grad, events, back, reach, need, micro, unsynced, reduced>>
  BY DEF CallEnterNoSync, Between
<1>2. /\ PassInv /\ PassPlaces /\ Lifecycle(rt) /\ IsRuntime(rt)
      /\ \A v \in Units : UnitGrads(v) /\ UnitPasses(v) /\ GradsOK(rt.grp[v])
                          /\ DOMAIN rt.grp[v] = GroupFields
  BY <1>1, InvFacts
<1>3. \A v \in Units : need[v] = {} /\ need'[v] = {} /\ (Ran(v)' <=> Ran(v))
  BY <1>1, <1>2 DEF PassPlaces, Ran
<1>4. \A v \in Units : LET g == rt.grp[v]
                           h == groups[v]
                       IN  /\ SameStores(g, h) /\ h.defer = g.defer /\ h.final = g.final
                           /\ h.pend = g.pend /\ h.store = g.store
  BY <1>2 DEF EnterNoSync, SameStores, GroupFields
<1> HIDE DEF groups
<1>5. rt'.grp = groups
  BY <1>1, <1>2, AppliedWithoutError DEF IsRuntime, RuntimeFields
<1>6. ASSUME NEW v \in Units
      PROVE  /\ UnitGrads(v)' /\ UnitPasses(v)'
             /\ \A p \in Owned[v] : HeldBy(rt'.grp[v], p) = HeldBy(rt.grp[v], p)
  <2> DEFINE g == rt.grp[v]
             h == rt'.grp[v]
  <2>1. /\ SameStores(g, h) /\ h.defer = g.defer /\ h.final = g.final
        /\ h.pend = g.pend /\ h.store = g.store
    BY <1>4, <1>5
  <2>2. /\ GradsOK(h) /\ (Ready(g) => Ready(h))
        /\ \A p : HeldBy(h, p) = HeldBy(g, p)
    BY <1>2, <2>1, SameStoresHold DEF GradsOK
  <2>3. h.store["own"] = ZeroGrads
    BY <1>2, <1>3, <2>1 DEF UnitGrads
  <2>4. UnitGrads(v)'
    BY <1>1, <1>2, <1>3, <2>1, <2>2, <2>3, BetweenStays
  <2>5. UnitPasses(v)'
    BY <1>1, <1>2, <2>2, PassesStay
  <2> QED
    BY <2>2, <2>4, <2>5
<1>7. ~Stepped' /\ ~Stepped
  BY <1>1 DEF Stepped
<1> QED
  BY <1>6, <1>7, HeldStutters, SeenStutters DEF SameHeld, UnitsKept

LEMMA CallExitNoSyncRefines ==
  ASSUME PlainUse, GradInv, CallExitNoSync, Running'
  PROVE  UnitsKept /\ Held' = Held /\ Seen' = Seen
<1> DEFINE scope == contexts[Len(contexts)].scope
           groups ==
      [u \in Units |-> IF u \in scope THEN LeftNoSync(rt.grp[u], u) ELSE rt.grp[u]]
           s == [rt EXCEPT !.grp = groups]
<1>1. /\ Running /\ phase \in {"idle", "forwarded"}
      /\ UNCHANGED <<phase, grad, events, back, reach, need, micro, unsynced, reduced>>
  BY DEF CallExitNoSync, CanLeave, Between
<1>2. /\ PassInv /\ PassPlaces /\ Lifecycle(rt) /\ IsRuntime(rt)
      /\ \A v \in Units : UnitGrads(v) /\ UnitPasses(v) /\ GradsOK(rt.grp[v])
                          /\ DOMAIN rt.grp[v] = GroupFields
  BY <1>1, InvFacts
<1>3. \A v \in Units : need[v] = {} /\ need'[v] = {} /\ (Ran(v)' <=> Ran(v))
  BY <1>1, <1>2 DEF PassPlaces, Ran
<1>4. \A v \in Units : groups[v] \in {LeftNoSync(rt.grp[v], v), rt.grp[v]}
  OBVIOUS
<1>8. Apply(s)
  BY <1>2, CallExitNoSyncForm, RaisedExitStops
<1> HIDE DEF groups
<1>5. rt'.grp = groups
  BY <1>2, <1>8, AppliedWithoutError DEF IsRuntime, RuntimeFields
<1>6. ASSUME NEW v \in Units
      PROVE  /\ UnitGrads(v)' /\ UnitPasses(v)'
             /\ \A p \in Owned[v] : HeldBy(rt'.grp[v], p) = HeldBy(rt.grp[v], p)
  <2> DEFINE g == rt.grp[v]
             left == LeftNoSync(g, v)
             h == rt'.grp[v]
  <2>1. g.store["own"] = ZeroGrads
    BY <1>2, <1>3 DEF UnitGrads
  <2>2. /\ GradsOK(left) /\ left.store["own"] = ZeroGrads
        /\ Ready(g) => Ready(left)
        /\ left.defer = g.defer /\ left.final = g.final
        /\ left.pend => g.pend
        /\ left.store["bucket"] = g.store["bucket"] \/ left.defer
        /\ ~g.defer => SameStores(g, left)
        /\ \A p \in Params : HeldBy(left, p) = HeldBy(g, p)
    BY <1>2, <2>1, LeftNoSyncGrads
  <2>3. h \in {left, g} /\ GradsOK(g) /\ SameStores(g, g)
    BY <1>2, <1>4, <1>5 DEF SameStores
  <2> HIDE DEF left
  <2>4. /\ GradsOK(h) /\ h.store["own"] = ZeroGrads
        /\ Ready(g) => Ready(h)
        /\ h.defer = g.defer /\ h.final = g.final
        /\ h.pend => g.pend
        /\ h.store["bucket"] = g.store["bucket"] \/ h.defer
        /\ ~g.defer => SameStores(g, h)
        /\ \A p \in Params : HeldBy(h, p) = HeldBy(g, p)
    <3>1. CASE h = left
      BY <2>2, <3>1
    <3>2. CASE h = g
      BY <2>1, <2>3, <3>2
    <3> QED
      BY <2>3, <3>1, <3>2
  <2>5. \A p \in Owned[v] : HeldBy(h, p) = HeldBy(g, p)
    BY <2>4, OwnedAssumption
  <2>6. UnitGrads(v)'
    BY <1>1, <1>2, <1>3, <2>4, <2>5, BetweenStays
  <2>7. UnitPasses(v)'
    BY <1>1, <1>2, <2>5, PassesStay
  <2> QED
    BY <2>5, <2>6, <2>7
<1>7. ~Stepped' /\ ~Stepped
  BY <1>1 DEF Stepped
<1> QED
  BY <1>6, <1>7, HeldStutters, SeenStutters DEF SameHeld, UnitsKept

\* Outside a pass every unit is settled.
LEMMA OutsidePass ==
  ASSUME GradInv, Running, phase \in {"idle", "stepping", "stepped"}
  PROVE  /\ events = <<>> /\ back = <<>>
         /\ \A v \in Units : /\ need[v] = {} /\ ~Ran(v) /\ ~Computing(v)
                             /\ phase # "stepped" => Settled(v)
                             /\ Spent(rt.grp[v]) /\ ~rt.grp[v].pend
<1>1. PassPlaces /\ \A v \in Units : UnitGrads(v)
  BY InvFacts
<1>2. events = <<>> /\ back = <<>> /\ \A v \in Units : need[v] = {}
  BY <1>1 DEF PassPlaces
<1>3. \A v \in Units : ~Ran(v) /\ ~Entered(events, v)
  BY <1>2, NoneEntered DEF Ran
<1>4. \A v \in Units : ~Computing(v) /\ (phase # "stepped" => Settled(v))
  BY <1>2, <1>3 DEF Computing, Settled
<1>5. \A v \in Units : Spent(rt.grp[v]) /\ ~rt.grp[v].pend
  BY <1>1, <1>2, <1>3, <1>4 DEF UnitGrads, Spent
<1> QED
  BY <1>2, <1>3, <1>4, <1>5

LEMMA BeginStepRefines ==
  ASSUME PlainUse, GradInv, BeginStep, Running'
  PROVE  UnitsKept /\ Held' = Held /\ Seen' = Seen
<1> DEFINE s == WaitAllPending(rt)
<1>1. /\ Running /\ Apply(s) /\ phase = "idle" /\ phase' = "stepping"
      /\ UNCHANGED <<grad, events, back, reach, need, micro, unsynced, reduced>>
  BY DEF BeginStep, CanStep
<1>2. /\ PassInv /\ Lifecycle(rt) /\ IsRuntime(rt)
      /\ \A v \in Units : UnitGrads(v) /\ UnitPasses(v)
  BY <1>1, InvFacts
<1>3. rt' = s
  BY <1>1, <1>2, AppliedWithoutError
<1>4. KeepsAll(rt, rt')
  BY <1>2, <1>3, WaitAllPendingKeepsGrads
<1> HIDE DEF s
<1>5. SameHeld(rt, rt')
  BY <1>1, <1>4, KeptIsHeld
<1>6. ASSUME NEW v \in Units
      PROVE  UnitGrads(v)' /\ UnitPasses(v)'
  <2>1. Ran(v)' <=> Ran(v)
    BY <1>1 DEF Ran
  <2>2. KeepsGrads(rt.grp[v], rt'.grp[v], v)
    BY <1>4 DEF KeepsAll
  <2>3. Computing(v) => rt.grp[v].reduce = "none"
    BY <1>1, <1>2, ComputingGathered
  <2>4. UnitGrads(v)'
    BY <1>1, <1>2, <2>1, <2>2, <2>3, UnitStays
  <2>5. UnitPasses(v)'
    BY <1>1, <1>2, <1>5, PassesStay DEF SameHeld
  <2> QED
    BY <2>4, <2>5
<1>7. ~Stepped' /\ ~Stepped
  BY <1>1 DEF Stepped
<1> QED
  BY <1>5, <1>6, <1>7, HeldStutters, SeenStutters DEF UnitsKept

LEMMA PrepareNextUnitRefines ==
  ASSUME PlainUse, GradInv, PrepareNextUnit, Running'
  PROVE  UnitsKept /\ Held' = Held /\ Seen' = Seen
<1>1. /\ Running /\ phase = "stepping" /\ cursor <= UnitCount
      /\ Apply(PrepareStepUnit(rt, cursor))
      /\ UNCHANGED <<phase, grad, events, back, reach, need, micro, unsynced, reduced>>
  BY DEF PrepareNextUnit
<1>2. /\ PassInv /\ LoopPlaces /\ GradPlaces /\ Lifecycle(rt) /\ RuntimeOK(rt)
      /\ \A v \in Units : UnitGrads(v) /\ UnitPasses(v) /\ GradsOK(rt.grp[v])
  BY <1>1, InvFacts
<1>3. cursor \in Units
  BY <1>1, <1>2, UnitCountAssumption DEF LoopPlaces, Units
<1>4. PICK u \in Units : Apply(PrepareStepUnit(rt, u))
  BY <1>1, <1>3
<1> DEFINE s == PrepareStepUnit(rt, u)
           g == rt.grp[u]
           h == s.grp[u]
<1>5. rt' = s /\ s.err = None
  BY <1>2, <1>4, AppliedWithoutError
<1>6. /\ need[u] = {} /\ Settled(u) /\ Spent(g) /\ ~g.pend
      /\ \A v \in Units : ~Computing(v)
  BY <1>1, OutsidePass
<1>7. UnitGrads(u) /\ GradsOK(g) /\ unsynced = {}
  BY <1>1, <1>2 DEF GradPlaces
<1>8. g.final \/ \A p \in Owned[u] : HeldBy(g, p) = Zero
  BY <1>6, <1>7 DEF UnitGrads, ZeroHeld, Finished
<1>9. /\ KeepsBut(rt, s, u)
      /\ \/ KeepsGrads(g, h, u)
         \/ /\ GradsOK(h) /\ Finished(h, u)
            /\ h.store["own"] = ZeroGrads /\ h.store["bucket"] = None
            /\ ~h.pend
            /\ \A p \in Owned[u] : HeldBy(h, p) = HeldBy(g, p)
  BY <1>2, <1>5, <1>6, <1>7, <1>8, PrepareStepUnitGrads DEF PlainUse
<1> HIDE DEF s
<1>10. \A v \in Units : (Ran(v)' <=> Ran(v)) /\ (Computing(v)' <=> Computing(v))
  BY <1>1 DEF Ran, Computing
<1>11. ASSUME NEW v \in Units, KeepsGrads(rt.grp[v], rt'.grp[v], v)
       PROVE  UnitGrads(v)'
  BY <1>1, <1>2, <1>6, <1>10, <1>11, UnitStays
<1>12. ASSUME NEW v \in Units \ {u}
       PROVE  UnitGrads(v)'
  <2>1. KeepsGrads(rt.grp[v], rt'.grp[v], v)
    BY <1>5, <1>9 DEF KeepsBut
  <2> QED
    BY <1>11, <2>1
<1>13. UnitGrads(u)' /\ \A p \in Owned[u] : HeldBy(h, p) = HeldBy(g, p)
  <2>1. CASE KeepsGrads(g, h, u)
    <3>1. UnitGrads(u)'
      BY <1>5, <1>11, <2>1
    <3>2. \A p \in Params : HeldBy(h, p) = HeldBy(g, p)
      BY <1>7, <2>1 DEF KeepsGrads, GradsOK
    <3> QED
      BY <3>1, <3>2, OwnedAssumption
  <2>2. CASE /\ GradsOK(h) /\ Finished(h, u)
             /\ h.store["own"] = ZeroGrads /\ h.store["bucket"] = None
             /\ ~h.pend
             /\ \A p \in Owned[u] : HeldBy(h, p) = HeldBy(g, p)
    <3>1. ZeroHeld(g, u) => ZeroHeld(h, u)
      BY <2>2 DEF ZeroHeld
    <3>2. rt'.grp[u] = h /\ need'[u] = {} /\ ~Computing(u)'
          /\ reduced' = reduced /\ unsynced' = unsynced
      BY <1>1, <1>5, <1>6, <1>10
    <3>3. UnitGrads(u)'
      BY <1>7, <2>2, <3>1, <3>2 DEF UnitGrads
    <3> QED
      BY <2>2, <3>3
  <2> QED
    BY <1>9, <2>1, <2>2
<1>14. SameHeld(rt, rt')
  <2>1. \A v \in Units \ {u} : \A p \in Owned[v] :
          HeldBy(rt'.grp[v], p) = HeldBy(rt.grp[v], p)
    BY <1>1, <1>5, <1>9, KeptIsHeld
  <2> QED
    BY <1>5, <1>13, <2>1 DEF SameHeld
<1>15. ASSUME NEW v \in Units
       PROVE  UnitPasses(v)'
  BY <1>1, <1>2, <1>14, PassesStay DEF SameHeld
<1>16. ~Stepped' /\ ~Stepped
  BY <1>1 DEF Stepped
<1> QED
  BY <1>12, <1>13, <1>14, <1>15, <1>16, HeldStutters, SeenStutters DEF UnitsKept

\* A parameter shows all it holds when the reduce of its unit has been waited
\* for.
LEMMA ShownIsHeld ==
  ASSUME NEW g, NEW u \in Units, StoresOK(g), g.reduce = "none", Shown(g, u),
         NEW p \in Owned[u]
  PROVE  GradOf(g, p) = HeldBy(g, p)
<1>1. p \in Params
  BY OwnedAssumption
<1>2. g.store["bucket"] = None /\ g.ref[p] = "local"
  BY DEF Shown
<1>3. /\ g.store["own"][p] = Zero /\ g.store["local"] # None /\ g.reduced[p] = Zero
  BY <1>1, <1>2, NothingIsNoGrad, ZeroCounts DEF StoresOK, Stores
<1>4. /\ GradOf(g, p) = g.store["local"][p]
      /\ InStore(g, "bucket", p) = Zero /\ InStore(g, "local", p) = g.store["local"][p]
      /\ g.store["local"][p] \in Counts
  BY <1>1, <1>2, <1>3, StoredCounts, NothingIsNoGrad DEF GradOf, InStore, Stores
<1> DEFINE x == g.store["local"][p]
<1>5. HeldBy(g, p) = Sum(Zero, Zero, x, Zero)
  BY <1>1, <1>3, <1>4, HeldIsSum
<1> HIDE DEF x
<1>6. x \in Counts /\ Zero \in Counts
  BY <1>4, ZeroCounts DEF x
<1>7. \A m \in Micros : Zero[m] = 0 /\ x[m] \in Nat
  BY <1>6 DEF Zero, Counts
<1>8. \A m \in Micros : Sum(Zero, Zero, x, Zero)[m] = x[m]
  BY <1>6, <1>7, SumCounts
<1>9. Sum(Zero, Zero, x, Zero) = x
  BY <1>6, <1>8, SumCounts, EqualCounts
<1> QED
  BY <1>4, <1>5, <1>9 DEF x

\* The optimizer steps on what every slot holds.
LEMMA EndStepRefines ==
  ASSUME PlainUse, GradInv, EndStep, Running'
  PROVE  UnitsKept /\ [Promise!AccNext]_<<Held, Seen>>
<1> DEFINE s == FinishStepPreparation(rt)
<1>1. /\ Running /\ phase = "stepping" /\ Apply(s)
      /\ phase' = (IF OptimizerReadyError(rt) = None THEN "stepped" ELSE phase)
      /\ UNCHANGED <<grad, events, back, reach, need, micro, unsynced, reduced>>
  BY DEF EndStep
<1>2. /\ PassInv /\ GradPlaces /\ Lifecycle(rt) /\ IsRuntime(rt)
      /\ \A v \in Units : UnitGrads(v) /\ UnitPasses(v) /\ StoresOK(rt.grp[v])
  BY <1>1, InvFacts
<1>3. rt' = s /\ s.err = None
  BY <1>1, <1>2, AppliedWithoutError
<1>4. OptimizerReadyError(rt) = None
  <2>1. OptimizerReadyError(rt) \in Errors \cup {None}
    BY DEF OptimizerReadyError, Errors
  <2>2. OptimizerReadyError(rt) # None => s = Raise(rt, OptimizerReadyError(rt))
    BY DEF FinishStepPreparation
  <2> QED
    BY <1>2, <1>3, <2>1, <2>2, RaiseSetsError
<1>5. \A v \in Units : rt.grp[v].reduce = "none"
  BY <1>4, NoneAssumption DEF OptimizerReadyError, Errors
<1>6. rt'.grp = rt.grp
  BY <1>2, <1>3, <1>4 DEF FinishStepPreparation, FinishBackwardIteration, IsRuntime,
                          RuntimeFields
<1> HIDE DEF s
<1>7. phase' = "stepped"
  BY <1>1, <1>4
<1>8. ASSUME NEW v \in Units
      PROVE  UnitGrads(v)' /\ UnitPasses(v)'
  <2>1. Ran(v)' <=> Ran(v)
    BY <1>1 DEF Ran
  <2>2. KeepsGrads(rt.grp[v], rt'.grp[v], v)
    BY <1>6, NothingChanges
  <2>3. UnitGrads(v)'
    BY <1>1, <1>2, <1>5, <1>7, <2>1, <2>2, UnitStays
  <2>4. UnitPasses(v)'
    BY <1>1, <1>2, <1>6, <1>7, PassesStay
  <2> QED
    BY <2>3, <2>4
<1>9. ASSUME NEW v \in Units, NEW p \in Owned[v]
      PROVE  GradOf(rt.grp[v], p) = HeldBy(rt.grp[v], p)
  <2> DEFINE g == rt.grp[v]
  <2>1. StoresOK(g) /\ g.reduce = "none" /\ UnitGrads(v) /\ unsynced = {}
    BY <1>1, <1>2, <1>5 DEF GradPlaces
  <2>2. Settled(v)
    BY <1>1, OutsidePass
  <2>3. CASE v \in reduced
    <3>1. Shown(g, v)
      BY <2>1, <2>2, <2>3 DEF UnitGrads, Finished
    <3> QED
      BY <2>1, <3>1, ShownIsHeld
  <2>4. CASE v \notin reduced
    <3>1. \A q \in Owned[v] : HeldBy(g, q) = Zero
      BY <2>1, <2>4 DEF UnitGrads, ZeroHeld
    <3> QED
      BY <2>1, <3>1, ZeroCollects
  <2> QED
    BY <2>3, <2>4
<1>10. Held' = Held
  BY <1>6, HeldStutters DEF SameHeld
<1>11. Seen' = Held
  <2>1. \A slot \in Slots :
          GradOf(rt'.grp[slot[1]], slot[2]) = HeldBy(rt.grp[slot[1]], slot[2])
    BY <1>6, <1>9, SlotsOwned
  <2>2. Stepped'
    BY <1>7 DEF Stepped
  <2> QED
    BY <2>1, <2>2 DEF Seen, Held
<1>12. Promise!AccNext
  BY <1>10, <1>11 DEF Promise!AccNext, Promise!StepOptimizer
<1> QED
  BY <1>8, <1>12 DEF UnitsKept

LEMMA ZeroHeldStartsOver ==
  ASSUME NEW r, \A v \in Units, p \in Params : HeldBy(r.grp[v], p) = Zero
  PROVE  [s \in Slots |-> HeldBy(r.grp[s[1]], s[2])] = Promise!NoGrads
<1>1. \A s \in Slots : HeldBy(r.grp[s[1]], s[2]) = [m \in Micros |-> 0]
  BY SlotsOwned DEF Zero
<1> QED
  BY <1>1 DEF Promise!NoGrads

LEMMA CallZeroGradRefines ==
  ASSUME PlainUse, GradInv, NEW setToNone \in ZeroModes, CallZeroGrad(setToNone)
  PROVE  Running' /\ UnitsKept /\ [Promise!AccNext]_<<Held, Seen>>
<1> DEFINE s == ZeroGrad(rt, setToNone)
<1>1. /\ Running /\ phase \in {"stepped", "idle"} /\ Apply(s) /\ phase' = "idle"
      /\ micro' = 0 /\ unsynced' = {} /\ reduced' = {}
      /\ UNCHANGED <<grad, events, back, reach, need>>
  BY DEF CallZeroGrad
<1>2. /\ IsRuntime(rt) /\ rt.err = None
      /\ \A v \in Units : StoresOK(rt.grp[v])
  BY <1>1, InvFacts
<1>3. /\ events = <<>> /\ back = <<>>
      /\ \A v \in Units : /\ need[v] = {} /\ ~Ran(v)
                          /\ rt.grp[v].store["own"] = ZeroGrads /\ ~rt.grp[v].pend
  BY <1>1, OutsidePass DEF Spent
<1>4. /\ s.err = rt.err
      /\ \A v \in Units :
           LET h == s.grp[v]
           IN  /\ GradsOK(h)
               /\ h.store["own"] = ZeroGrads /\ h.store["bucket"] = None
               /\ h.pend = rt.grp[v].pend
               /\ \A p \in Params : HeldBy(h, p) = Zero
  BY <1>2, <1>3, ZeroGradGrads
<1> HIDE DEF s
<1>5. rt' = s /\ Running'
  BY <1>1, <1>2, <1>4 DEF Apply, Running
<1>6. ASSUME NEW v \in Units
      PROVE  UnitGrads(v)' /\ UnitPasses(v)'
  <2> DEFINE h == s.grp[v]
  <2>1. /\ GradsOK(h) /\ h.store["own"] = ZeroGrads /\ h.store["bucket"] = None
        /\ ~h.pend /\ ZeroHeld(h, v)
    BY <1>3, <1>4, OwnedAssumption DEF ZeroHeld
  <2>2. /\ rt'.grp[v] = h /\ need'[v] = {} /\ ~Ran(v)' /\ ~Entered(events', v)
        /\ v \notin reduced'
    BY <1>1, <1>3, <1>5, NoneEntered DEF Ran
  <2>3. ~Computing(v)'
    BY <2>2 DEF Computing
  <2>4. UnitGrads(v)'
    BY <2>1, <2>2, <2>3 DEF UnitGrads
  <2>5. \A p \in Owned[v], m \in Micros : HeldBy(h, p)[m] = 0
    BY <2>1 DEF ZeroHeld, Zero
  <2>6. UnitPasses(v)'
    BY <1>1, <2>2, <2>5 DEF UnitPasses
  <2> QED
    BY <2>4, <2>6
<1>7. Held' = Promise!NoGrads
  <2>1. \A v \in Units, p \in Params : HeldBy(rt'.grp[v], p) = Zero
    BY <1>4, <1>5
  <2> QED
    BY <2>1, ZeroHeldStartsOver DEF Held
<1>8. Seen' = None
  BY <1>1 DEF Seen, Stepped
<1>9. Promise!AccNext
  BY <1>7, <1>8 DEF Promise!AccNext, Promise!StartOver
<1> QED
  BY <1>5, <1>6, <1>9 DEF UnitsKept

-----------------------------------------------------------------------------
(* The theorem *)

LEMMA InitGrads ==
  ASSUME Init
  PROVE  GradInv /\ Promise!AccInit
<1> DEFINE g == InitGroup
<1>1. /\ rt = InitRuntime /\ phase = "idle" /\ events = <<>> /\ back = <<>> /\ micro = 0
      /\ need = NoParams /\ unsynced = {} /\ reduced = {}
  BY DEF Init
<1>2. rt.grp = [u \in Units |-> g]
  BY <1>1 DEF InitRuntime
<1>3. /\ g.reduce = "none" /\ g.reduced = ZeroGrads /\ ~g.defer /\ ~g.pend
      /\ g.ref = [p \in Params |-> None]
      /\ g.store = [t \in Stores |-> IF t = "own" THEN ZeroGrads ELSE None]
  BY DEF InitGroup
<1> HIDE DEF g
<1>4. /\ g.store["own"] = ZeroGrads /\ g.store["full"] = None
      /\ g.store["bucket"] = None /\ g.store["local"] = None
  BY <1>3 DEF Stores
<1>5. StoresOK(g)
  <2>1. g.store \in [Stores -> Gradients \cup {None}]
    BY <1>3, ZeroCounts
  <2>2. g.ref \in [Params -> Stores \cup {None}] /\ \A p \in Params : g.ref[p] = None
    BY <1>3
  <2>3. \A p \in Params : g.store["own"][p] = Zero
    BY <1>4, ZeroCounts
  <2> QED
    BY <1>3, <1>4, <2>1, <2>2, <2>3, ZeroCounts, NothingIsNoGrad DEF StoresOK
<1>6. GradsOK(g)
  BY <1>3, <1>4, <1>5 DEF GradsOK, DeferOK
<1>7. \A p \in Params : HeldBy(g, p) = Zero
  <2> SUFFICES ASSUME NEW p \in Params
               PROVE  HeldBy(g, p) = Zero
    OBVIOUS
  <2>1. HeldBy(g, p) = Sum(Zero, Zero, Zero, Zero)
    BY <1>3, <1>4, <1>5, HeldIsSum, ZeroCounts DEF InStore
  <2>2. \A m \in Micros : Sum(Zero, Zero, Zero, Zero)[m] = Zero[m]
    <3>1. \A m \in Micros : Zero[m] = 0
      BY DEF Zero
    <3> QED
      BY <3>1, SumCounts, ZeroCounts
  <2> QED
    BY <2>1, <2>2, SumCounts, ZeroCounts, EqualCounts
<1>8. ASSUME NEW v \in Units
      PROVE  UnitGrads(v) /\ UnitPasses(v)
  <2>1. /\ rt.grp[v] = g /\ need[v] = {} /\ ~Ran(v) /\ ~Entered(events, v)
        /\ v \notin reduced
    BY <1>1, <1>2, NoneEntered DEF NoParams, Ran
  <2>2. ~Computing(v)
    BY <2>1 DEF Computing
  <2>3. ZeroHeld(g, v)
    BY <1>7, OwnedAssumption DEF ZeroHeld
  <2>4. UnitGrads(v)
    BY <1>3, <1>4, <1>6, <2>1, <2>2, <2>3 DEF UnitGrads
  <2>5. \A p \in Owned[v], m \in Micros : HeldBy(g, p)[m] = 0
    BY <2>3 DEF ZeroHeld, Zero
  <2> QED
    BY <1>1, <2>1, <2>4, <2>5 DEF UnitPasses
<1>9. GradInv
  BY <1>8, InitPass, InitGradPlaces DEF GradInv
<1>10. Held = Promise!NoGrads /\ Seen = None
  <2>1. \A v \in Units, p \in Params : HeldBy(rt.grp[v], p) = Zero
    BY <1>2, <1>7
  <2> QED
    BY <1>1, <2>1, ZeroHeldStartsOver DEF Held, Seen, Stepped
<1> QED
  BY <1>9, <1>10 DEF Promise!AccInit

\* A handler that raises has changed nothing that lasts.
LEMMA ErrorStutters ==
  ASSUME PlainUse, GradInv, [Next]_vars, ~Running'
  PROVE  Held' = Held /\ Seen' = Seen
<1> SUFFICES ASSUME Next
             PROVE  Held' = Held /\ Seen' = Seen
  BY SameGroupsStutter DEF vars, Stepped
<1>1. Running
  BY DEF Next, BeginForward, CanTrain, CanEvaluate, CallPreForward, CallPostForward,
         BeginBackward, CallPreBackward, CallAccumulateGrad, EndBackward,
         CallEnterNoSync, CallExitNoSync, CanLeave, BeginStep, CanStep, PrepareNextUnit,
         EndStep, CallZeroGrad
<1>2. Lifecycle(rt) /\ PassPlaces
  BY <1>1, InvFacts
<1>3. ASSUME NEW s, Apply(s), Stepped' <=> Stepped
      PROVE  Held' = Held /\ Seen' = Seen
  BY <1>2, <1>3, AppliedError, SameGroupsStutter
<1>4. ASSUME rt' = rt
      PROVE  FALSE
  BY <1>1, <1>4 DEF Running
<1>5. ASSUME NEW program \in Programs, NEW g \in BOOLEAN, BeginForward(program, g)
      PROVE  FALSE
  BY <1>4, <1>5 DEF BeginForward
<1>6. CASE CallPreForward
  <2>1. Stepped' <=> Stepped
    BY <1>6 DEF CallPreForward, Stepped
  <2> QED
    BY <1>3, <1>6, <2>1 DEF CallPreForward
<1>7. CASE CallPostForward
  <2>1. /\ events # <<>>
        /\ phase' = (CASE Tail(events) # <<>> -> phase
                       [] Tail(events) = <<>> /\ grad -> "forwarded"
                       [] Tail(events) = <<>> /\ ~grad ->
                            IF phase = "eval" THEN "stepped" ELSE "idle")
    BY <1>7 DEF CallPostForward
  <2>2. phase \in {"forward", "eval"} /\ (phase = "eval" => ~grad)
    BY <1>2, <2>1 DEF PassPlaces
  <2>3. Stepped' <=> Stepped
    BY <2>1, <2>2 DEF Stepped
  <2> QED
    BY <1>3, <1>7, <2>3 DEF CallPostForward
<1>8. ASSUME NEW r \in Reaches, BeginBackward(r)
      PROVE  FALSE
  BY <1>4, <1>8 DEF BeginBackward
<1>9. CASE CallPreBackward
  <2>1. Stepped' <=> Stepped
    BY <1>9 DEF CallPreBackward, Stepped
  <2>2. PICK i \in 1 .. Len(back) :
          Apply(IF back[i] \in Reshard THEN PreBackwardUnshard(rt, back[i]) ELSE rt)
    BY <1>9 DEF CallPreBackward
  <2> QED
    BY <1>3, <2>1, <2>2
<1>10. ASSUME NEW u \in Units, NEW p \in Params, CallAccumulateGrad(u, p)
       PROVE  Held' = Held /\ Seen' = Seen
  <2>1. Stepped' <=> Stepped
    BY <1>10 DEF CallAccumulateGrad, Stepped
  <2> QED
    BY <1>3, <1>10, <2>1 DEF CallAccumulateGrad
<1>11. CASE EndBackward
  BY <1>4, <1>11 DEF EndBackward
<1>12. ASSUME NEW scope \in Scopes, CallEnterNoSync(scope)
       PROVE  Held' = Held /\ Seen' = Seen
  <2>1. Stepped' <=> Stepped
    BY <1>12 DEF CallEnterNoSync, Stepped
  <2> QED
    BY <1>3, <1>12, <2>1 DEF CallEnterNoSync
<1>13. CASE CallExitNoSync
  <2>1. Stepped' <=> Stepped
    BY <1>13 DEF CallExitNoSync, Stepped
  <2> QED
    BY <1>3, <1>13, <2>1 DEF CallExitNoSync
<1>14. CASE BeginStep
  <2>1. Stepped' <=> Stepped
    BY <1>14 DEF BeginStep, CanStep, Stepped
  <2> QED
    BY <1>3, <1>14, <2>1 DEF BeginStep
<1>15. CASE PrepareNextUnit
  <2>1. Stepped' <=> Stepped
    BY <1>15 DEF PrepareNextUnit, Stepped
  <2> QED
    BY <1>3, <1>15, <2>1 DEF PrepareNextUnit
<1>16. CASE EndStep
  <2>1. /\ Apply(FinishStepPreparation(rt)) /\ phase = "stepping"
        /\ phase' = IF OptimizerReadyError(rt) = None THEN "stepped" ELSE phase
    BY <1>16 DEF EndStep
  <2>2. OptimizerReadyError(rt) # None
    <3>1. (FinishBackwardIteration(rt)).err = rt.err
      BY <1>2 DEF FinishBackwardIteration, Lifecycle, IsRuntime, RuntimeFields
    <3>2. OptimizerReadyError(rt) = None => FinishStepPreparation(rt) = FinishBackwardIteration(rt)
      BY DEF FinishStepPreparation
    <3> QED
      BY <1>1, <2>1, <3>1, <3>2 DEF Apply, Running
  <2>3. Stepped' <=> Stepped
    BY <2>1, <2>2 DEF Stepped
  <2> QED
    BY <1>3, <2>1, <2>3
<1>17. ASSUME NEW setToNone \in ZeroModes, CallZeroGrad(setToNone)
       PROVE  FALSE
  BY <1>17, CallZeroGradRefines
<1> QED
  BY <1>5, <1>6, <1>7, <1>8, <1>9, <1>10, <1>11, <1>12, <1>13, <1>14, <1>15, <1>16, <1>17
     DEF Next

LEMMA NextRefines ==
  ASSUME PlainUse, GradInv, [Next]_vars
  PROVE  GradInv' /\ [Promise!AccNext]_<<Held, Seen>>
<1>1. PassInv' /\ GradPlaces'
  BY NextKeepsPass, NextKeepsGradPlaces DEF GradInv, PassInv, LifecycleInv
<1>2. CASE ~Running'
  BY <1>1, <1>2, ErrorStutters DEF GradInv
<1>3. CASE UNCHANGED vars
  <2>1. Held' = Held /\ Seen' = Seen
    BY <1>3, SameGroupsStutter DEF vars, Stepped
  <2>2. GradInv'
    <3>1. ASSUME NEW v \in Units
          PROVE  (UnitGrads(v) /\ UnitPasses(v)) => (UnitGrads(v)' /\ UnitPasses(v)')
      BY <1>3 DEF vars, UnitGrads, UnitPasses, Computing, Settled, Ran
    <3>2. Running' => Running
      BY <1>3 DEF vars, Running
    <3> QED
      BY <1>1, <3>1, <3>2 DEF GradInv
  <2> QED
    BY <2>1, <2>2
<1>4. CASE Next /\ Running'
  <2> SUFFICES UnitsKept /\ [Promise!AccNext]_<<Held, Seen>>
    BY <1>1 DEF GradInv, UnitsKept
  <2>1. ASSUME NEW program \in Programs, NEW g \in BOOLEAN, BeginForward(program, g)
        PROVE  UnitsKept /\ Held' = Held /\ Seen' = Seen
    BY <2>1, BeginForwardRefines
  <2>2. ASSUME NEW r \in Reaches, BeginBackward(r)
        PROVE  UnitsKept /\ Held' = Held /\ Seen' = Seen
    BY <2>2, BeginBackwardRefines
  <2>3. ASSUME NEW u \in Units, NEW p \in Params, CallAccumulateGrad(u, p)
        PROVE  UnitsKept /\ [Promise!AccNext]_<<Held, Seen>>
    BY <1>4, <2>3, CallAccumulateGradRefines
  <2>4. ASSUME NEW scope \in Scopes, CallEnterNoSync(scope)
        PROVE  UnitsKept /\ Held' = Held /\ Seen' = Seen
    BY <1>4, <2>4, CallEnterNoSyncRefines
  <2>5. ASSUME NEW setToNone \in ZeroModes, CallZeroGrad(setToNone)
        PROVE  UnitsKept /\ [Promise!AccNext]_<<Held, Seen>>
    BY <2>5, CallZeroGradRefines
  <2> QED
    BY <1>4, <2>1, <2>2, <2>3, <2>4, <2>5, CallPreForwardRefines, CallPostForwardRefines,
       CallPreBackwardRefines, EndBackwardRefines, CallExitNoSyncRefines, BeginStepRefines,
       PrepareNextUnitRefines, EndStepRefines DEF Next
<1> QED
  BY <1>2, <1>3, <1>4

\* Under plain use the training loop counts every gradient once and loses none
\* (AccumulatesGradients): what a slot holds, wherever the runtime has put it,
\* changes only by the contribution autograd has just made and by zero_grad, and
\* the optimizer is shown all of it, whatever the number of units, their
\* parameters and who owns them, the programs, budgets and prefetch timing, the
\* no_sync contexts and the groups whose reduces are still in flight.
THEOREM GradientsAreAccumulated == PlainUse => (Spec => AccumulatesGradients)
<1> SUFFICES ASSUME PlainUse
             PROVE  Spec => AccumulatesGradients
  OBVIOUS
<1>1. Init => GradInv /\ Promise!AccInit
  BY InitGrads
<1>2. GradInv /\ [Next]_vars => GradInv' /\ [Promise!AccNext]_<<Held, Seen>>
  BY NextRefines
<1> QED
  BY <1>1, <1>2, PTL DEF Spec, AccumulatesGradients, Promise!AccSpec
=============================================================================
