------------------------ MODULE FullParamStorageProofs ------------------------
(***************************************************************************)
(* The buffer pool, for every set of buffers, every key function and every *)
(* capacity, and whose parameters a unit computes with, for any number of  *)
(* units, root or none, with or without a pool and prefetch, whichever     *)
(* units reshard after their forward and have saved-tensor hooks.          *)
(*                                                                         *)
(* The pool's invariant is the conjunction of its four state properties: a *)
(* drain makes exactly the buffers without GPU work idle, so quiescence    *)
(* needs ownership (only a holder may start work on a buffer), and the     *)
(* capacity count needs ownership too (the two lists of a key are          *)
(* disjoint, so a buffer that moves from one to the other is counted       *)
(* once).                                                                  *)
(*                                                                         *)
(* For the units the argument is ownership: their full buffers are held    *)
(* and no two of them are one (Owns), so that a gather writes to a storage *)
(* nobody else computes with.  That the views saved for backward are safe  *)
(* needs more, and is not true of every configuration: the view is a       *)
(* handle of the unit's own hooks, or a view of the buffer the unit still  *)
(* has (SavedViewsKept).  Ownership is also why the hooks of a root never  *)
(* pack the view of another unit, and a unit without hooks of its own      *)
(* keeps its buffer because it does not reshard or, without a pool,        *)
(* because a shrunk tensor stays with its unit.                            *)
(***************************************************************************)
EXTENDS FullParamStorage, FiniteSetTheorems, TLAPS

PoolInv ==
  /\ PoolTypeOK
  /\ ExclusiveOwnership
  /\ IdleBuffersAreQuiescent
  /\ CapacityRespected

-----------------------------------------------------------------------------
(* Counting *)

\* Any set of buffers of one key is finite.
LEMMA OfKeyFinite ==
  ASSUME NEW S \in SUBSET Buffers, NEW k
  PROVE  /\ IsFiniteSet(OfKey(S, k))
         /\ Cardinality(OfKey(S, k)) \in Nat
BY BuffersFinite, FS_Subset, FS_CardinalityType DEF OfKey

\* The buffers of a key in two disjoint lists are as many as in their union.
LEMMA DisjointCount ==
  ASSUME NEW S \in SUBSET Buffers, NEW T \in SUBSET Buffers, NEW k,
         S \cap T = {}
  PROVE  Cardinality(OfKey(S, k)) + Cardinality(OfKey(T, k))
           = Cardinality(OfKey(S \cup T, k))
<1>1. OfKey(S \cup T, k) = OfKey(S, k) \cup OfKey(T, k)
  BY DEF OfKey
<1>2. OfKey(S, k) \cap OfKey(T, k) = {}
  BY DEF OfKey
<1>3. Cardinality(OfKey(S, k) \cup OfKey(T, k))
        = Cardinality(OfKey(S, k)) + Cardinality(OfKey(T, k))
            - Cardinality(OfKey(S, k) \cap OfKey(T, k))
  BY OfKeyFinite, FS_Union
<1>4. Cardinality(OfKey(S, k) \cap OfKey(T, k)) = 0
  BY <1>2, FS_EmptySet
<1>5. Cardinality(OfKey(S, k)) \in Nat /\ Cardinality(OfKey(T, k)) \in Nat
  BY OfKeyFinite
<1> QED
  BY <1>1, <1>3, <1>4, <1>5

\* Fewer buffers take fewer slots of a key.
LEMMA SmallerCount ==
  ASSUME NEW S \in SUBSET Buffers, NEW T \in SUBSET S, NEW k
  PROVE  Cardinality(OfKey(T, k)) <= Cardinality(OfKey(S, k))
<1>1. OfKey(T, k) \in SUBSET OfKey(S, k)
  BY DEF OfKey
<1> QED
  BY <1>1, OfKeyFinite, FS_Subset

-----------------------------------------------------------------------------
(* The drain *)

\* What a drain moves was pending and has no GPU work left.
LEMMA DrainMovesCompleted ==
  ASSUME NEW keep \in Drains
  PROVE  keep \subseteq pending \ busy
BY DEF Drains, Completed

\* A drain makes every completed release idle: by the capacity they all fit
\* beside the idle buffers of their key.
LEMMA DrainKeepsCompleted ==
  ASSUME PoolInv, NEW keep \in Drains
  PROVE  Completed \subseteq keep
<1>1. SUFFICES ASSUME NEW b \in Completed PROVE b \in keep
  OBVIOUS
<1> DEFINE k == KeyOf[b]
           done == Cardinality(OfKey(Completed, k))
           idle == Cardinality(OfKey(cached, k))
           waiting == Cardinality(OfKey(pending, k))
<1>2. /\ cached \in SUBSET Buffers
      /\ pending \in SUBSET Buffers
      /\ Completed \in SUBSET pending
      /\ Completed \in SUBSET Buffers
      /\ k \in Keys
  BY KeysTyped DEF PoolInv, PoolTypeOK, Completed
<1> HIDE DEF k
<1>3. done \in Nat /\ idle \in Nat /\ waiting \in Nat
  BY <1>2, OfKeyFinite
<1>4. done <= waiting
  BY <1>2, SmallerCount
<1>5. idle + waiting <= MaxCachedPerKey
  BY <1>2 DEF PoolInv, CapacityRespected
<1>6. Room(k) = MaxCachedPerKey - idle
  BY DEF Room
<1> HIDE DEF done, idle, waiting
<1>7. ~(done > Room(k))
  BY <1>3, <1>4, <1>5, <1>6, MaxCachedPerKeyNat
<1>8. OfKey(keep, k) = OfKey(Completed, k)
  BY <1>2, <1>7 DEF Drains, IsDrain, done
<1> QED
  BY <1>1, <1>8 DEF OfKey, k

\* A state whose idle and pending buffers were all idle or pending before
\* respects the capacity if the old one did.
LEMMA ShrinkingKeepsCapacity ==
  ASSUME PoolInv,
         cached' \cap pending' = {},
         cached' \cup pending' \subseteq cached \cup pending
  PROVE  CapacityRespected'
<1>1. ASSUME NEW k \in Keys
      PROVE  Cardinality(OfKey(cached', k)) + Cardinality(OfKey(pending', k))
               <= MaxCachedPerKey
  <2>1. /\ cached \in SUBSET Buffers
        /\ pending \in SUBSET Buffers
        /\ cached' \in SUBSET Buffers
        /\ pending' \in SUBSET Buffers
        /\ cached \cap pending = {}
    BY DEF PoolInv, PoolTypeOK, ExclusiveOwnership
  <2>2. Cardinality(OfKey(cached, k)) + Cardinality(OfKey(pending, k))
          = Cardinality(OfKey(cached \cup pending, k))
    BY <2>1, DisjointCount
  <2>3. Cardinality(OfKey(cached', k)) + Cardinality(OfKey(pending', k))
          = Cardinality(OfKey(cached' \cup pending', k))
    BY <2>1, DisjointCount
  <2>4. Cardinality(OfKey(cached' \cup pending', k))
          <= Cardinality(OfKey(cached \cup pending, k))
    BY <2>1, SmallerCount
  <2>5. /\ Cardinality(OfKey(cached' \cup pending', k)) \in Nat
        /\ Cardinality(OfKey(cached \cup pending, k)) \in Nat
    <3>1. /\ cached' \cup pending' \in SUBSET Buffers
          /\ cached \cup pending \in SUBSET Buffers
      BY <2>1
    <3> QED  BY <3>1, OfKeyFinite
  <2>6. Cardinality(OfKey(cached, k)) + Cardinality(OfKey(pending, k))
          <= MaxCachedPerKey
    BY DEF PoolInv, CapacityRespected
  <2> QED
    BY <2>2, <2>3, <2>4, <2>5, <2>6, MaxCachedPerKeyNat
<1> QED
  BY <1>1 DEF CapacityRespected, OfKey

\* Every operation but Release leaves no more buffers idle or pending than
\* there were: the invariant follows from what it does to the four sets.
LEMMA QuietStep ==
  ASSUME PoolInv,
         cached' \subseteq Buffers, pending' \subseteq Buffers,
         held' \subseteq Buffers, busy' \subseteq Buffers,
         cached' \cup pending' \subseteq cached \cup pending,
         cached' \cap pending' = {},
         held' \cap (cached' \cup pending') = {},
         cached' \cap busy' = {}
  PROVE  PoolInv'
<1>1. CapacityRespected'
  BY ShrinkingKeepsCapacity
<1> QED
  BY <1>1 DEF PoolInv, PoolTypeOK, ExclusiveOwnership, IdleBuffersAreQuiescent

-----------------------------------------------------------------------------
(* One lemma per operation *)

LEMMA AcquireKeepsInv ==
  ASSUME PoolInv, NEW k \in Keys, Acquire(k)
  PROVE  PoolInv'
<1> USE DEF PoolInv, PoolTypeOK, ExclusiveOwnership, IdleBuffersAreQuiescent
<1>1. PICK keep \in Drains :
        LET idle == OfKey(cached \cup keep, k)
        IN \/ \E b \in idle :
                 /\ held' = held \cup {b}
                 /\ cached' = (cached \cup keep) \ {b}
                 /\ pending' = StillPending
                 /\ busy' = busy
           \/ /\ idle = {}
              /\ \E b \in OfKey(Allocatable, k) : held' = held \cup {b}
              /\ cached' = cached \cup keep
              /\ pending' = StillPending
              /\ busy' = busy
  BY DEF Acquire
<1>2. keep \subseteq pending \ busy
  BY DrainMovesCompleted
<1>3. CASE \E b \in OfKey(cached \cup keep, k) :
             /\ held' = held \cup {b}
             /\ cached' = (cached \cup keep) \ {b}
             /\ pending' = StillPending
             /\ busy' = busy
  BY <1>2, <1>3, QuietStep DEF OfKey, StillPending
<1>4. CASE /\ OfKey(cached \cup keep, k) = {}
           /\ \E b \in OfKey(Allocatable, k) : held' = held \cup {b}
           /\ cached' = cached \cup keep
           /\ pending' = StillPending
           /\ busy' = busy
  BY <1>2, <1>4, QuietStep DEF OfKey, StillPending, Allocatable
<1> QED
  BY <1>1, <1>3, <1>4

LEMMA DrainOnlyKeepsInv ==
  ASSUME PoolInv, CanCache \/ Stats
  PROVE  PoolInv'
<1> USE DEF PoolInv, PoolTypeOK, ExclusiveOwnership, IdleBuffersAreQuiescent
<1>1. PICK keep \in Drains : cached' = cached \cup keep
  BY DEF CanCache, Stats
<1>2. keep \subseteq pending \ busy
  BY DrainMovesCompleted
<1>3. pending' = StillPending /\ held' = held /\ busy' = busy
  BY DEF CanCache, Stats
<1> QED
  BY <1>1, <1>2, <1>3, QuietStep DEF StillPending

\* A release that found room adds its buffer to one of the lists of its key.
LEMMA ReleaseWithRoomKeepsCapacity ==
  ASSUME PoolInv, NEW b \in held, NEW keep \in Drains, HasRoom(b, keep),
         cached' \cap pending' = {},
         cached' \cup pending' = (cached \cup keep) \cup StillPending \cup {b}
  PROVE  CapacityRespected'
<1> DEFINE idle == cached \cup keep
           old == idle \cup StillPending
<1>1. /\ keep \subseteq pending \ busy
      /\ cached \in SUBSET Buffers
      /\ pending \in SUBSET Buffers
      /\ cached \cap pending = {}
      /\ b \in Buffers
  BY DrainMovesCompleted DEF PoolInv, PoolTypeOK, ExclusiveOwnership
<1>2. /\ idle \in SUBSET Buffers
      /\ StillPending \in SUBSET Buffers
      /\ idle \cap StillPending = {}
      /\ old \in SUBSET Buffers
      /\ old \subseteq cached \cup pending
      /\ cached' \in SUBSET Buffers
      /\ pending' \in SUBSET Buffers
      /\ cached' \cup pending' = old \cup {b}
  BY <1>1 DEF StillPending
<1> HIDE DEF idle, old
<1>3. ASSUME NEW k \in Keys
      PROVE  Cardinality(OfKey(cached', k)) + Cardinality(OfKey(pending', k))
               <= MaxCachedPerKey
  <2>1. Cardinality(OfKey(cached', k)) + Cardinality(OfKey(pending', k))
          = Cardinality(OfKey(old \cup {b}, k))
    BY <1>2, DisjointCount
  <2>2. CASE KeyOf[b] = k
    <3>1. Cardinality(OfKey(idle, k)) + Cardinality(OfKey(StillPending, k))
            < MaxCachedPerKey
      BY <2>2 DEF HasRoom, idle
    <3>2. Cardinality(OfKey(old, k)) < MaxCachedPerKey
      <4>1. Cardinality(OfKey(idle, k)) + Cardinality(OfKey(StillPending, k))
              = Cardinality(OfKey(idle \cup StillPending, k))
        BY <1>2, DisjointCount
      <4> QED  BY <3>1, <4>1 DEF old
    <3>3. OfKey(old \cup {b}, k) = OfKey(old, k) \cup {b}
      BY <2>2 DEF OfKey
    <3>4. Cardinality(OfKey(old, k) \cup {b}) <= Cardinality(OfKey(old, k)) + 1
      <4>1. IsFiniteSet(OfKey(old, k)) /\ Cardinality(OfKey(old, k)) \in Nat
        BY <1>2, OfKeyFinite
      <4>2. Cardinality(OfKey(old, k) \cup {b})
              = IF b \in OfKey(old, k) THEN Cardinality(OfKey(old, k))
                                       ELSE Cardinality(OfKey(old, k)) + 1
        BY <4>1, FS_AddElement
      <4> QED  BY <4>1, <4>2
    <3>5. /\ Cardinality(OfKey(old, k)) \in Nat
          /\ Cardinality(OfKey(old \cup {b}, k)) \in Nat
      <4>1. old \cup {b} \in SUBSET Buffers
        BY <1>1, <1>2
      <4> QED  BY <1>2, <4>1, OfKeyFinite
    <3> QED
      BY <2>1, <3>2, <3>3, <3>4, <3>5, MaxCachedPerKeyNat
  <2>3. CASE KeyOf[b] # k
    <3>1. OfKey(old \cup {b}, k) = OfKey(old, k)
      BY <2>3 DEF OfKey
    <3>2. Cardinality(OfKey(old, k)) <= Cardinality(OfKey(cached \cup pending, k))
      BY <1>1, <1>2, SmallerCount
    <3>3. Cardinality(OfKey(cached \cup pending, k))
            = Cardinality(OfKey(cached, k)) + Cardinality(OfKey(pending, k))
      BY <1>1, DisjointCount
    <3>4. Cardinality(OfKey(cached, k)) + Cardinality(OfKey(pending, k))
            <= MaxCachedPerKey
      BY DEF PoolInv, CapacityRespected
    <3>5. /\ Cardinality(OfKey(old, k)) \in Nat
          /\ Cardinality(OfKey(cached \cup pending, k)) \in Nat
      <4>1. cached \cup pending \in SUBSET Buffers
        BY <1>1
      <4> QED  BY <1>2, <4>1, OfKeyFinite
    <3> QED
      BY <2>1, <3>1, <3>2, <3>3, <3>4, <3>5, MaxCachedPerKeyNat
  <2> QED
    BY <2>2, <2>3
<1> QED
  BY <1>3 DEF CapacityRespected, OfKey

LEMMA ReleaseKeepsInv ==
  ASSUME PoolInv, NEW b \in Buffers, Release(b)
  PROVE  PoolInv'
<1> USE DEF PoolInv, PoolTypeOK, ExclusiveOwnership, IdleBuffersAreQuiescent
<1>1. b \in held /\ held' = held \ {b} /\ busy' = busy
  BY DEF Release
<1>2. PICK keep \in Drains :
        \/ /\ ~HasRoom(b, keep)
           /\ cached' = cached \cup keep
           /\ pending' = StillPending
        \/ /\ HasRoom(b, keep)
           /\ b \in busy
           /\ cached' = cached \cup keep
           /\ pending' = StillPending \cup {b}
        \/ /\ HasRoom(b, keep)
           /\ b \notin busy
           /\ cached' = cached \cup keep \cup {b}
           /\ pending' = StillPending
  BY DEF Release
<1>3. keep \subseteq pending \ busy
  BY DrainMovesCompleted
<1>4. CASE /\ ~HasRoom(b, keep)
           /\ cached' = cached \cup keep
           /\ pending' = StillPending
  BY <1>1, <1>3, <1>4, QuietStep DEF StillPending
<1>5. CASE /\ HasRoom(b, keep)
           /\ b \in busy
           /\ cached' = cached \cup keep
           /\ pending' = StillPending \cup {b}
  <2>1. CapacityRespected'
    BY <1>1, <1>3, <1>5, ReleaseWithRoomKeepsCapacity DEF StillPending
  <2> QED
    BY <1>1, <1>3, <1>5, <2>1 DEF StillPending
<1>6. CASE /\ HasRoom(b, keep)
           /\ b \notin busy
           /\ cached' = cached \cup keep \cup {b}
           /\ pending' = StillPending
  <2>1. CapacityRespected'
    BY <1>1, <1>3, <1>6, ReleaseWithRoomKeepsCapacity DEF StillPending
  <2> QED
    BY <1>1, <1>3, <1>6, <2>1 DEF StillPending
<1> QED
  BY <1>2, <1>4, <1>5, <1>6

LEMMA GpuKeepsInv ==
  ASSUME PoolInv, NEW b \in Buffers, Use(b) \/ EventCompletes(b)
  PROVE  PoolInv'
BY QuietStep
   DEF PoolInv, PoolTypeOK, ExclusiveOwnership, IdleBuffersAreQuiescent,
       Use, EventCompletes

LEMMA ClearKeepsInv ==
  ASSUME PoolInv, Clear
  PROVE  PoolInv'
BY QuietStep
   DEF PoolInv, PoolTypeOK, ExclusiveOwnership, IdleBuffersAreQuiescent, Clear

LEMMA StutterKeepsInv ==
  ASSUME PoolInv, UNCHANGED poolVars
  PROVE  PoolInv'
BY DEF PoolInv, PoolTypeOK, ExclusiveOwnership, IdleBuffersAreQuiescent,
       CapacityRespected, OfKey, poolVars

LEMMA PoolInitInv == PoolInit => PoolInv
<1> SUFFICES ASSUME PoolInit PROVE PoolInv
  OBVIOUS
<1>1. CapacityRespected
  <2>1. ASSUME NEW k \in Keys
        PROVE  Cardinality(OfKey({}, k)) + Cardinality(OfKey({}, k)) <= MaxCachedPerKey
    <3>1. OfKey({}, k) = {}
      BY DEF OfKey
    <3> QED  BY <3>1, FS_EmptySet, MaxCachedPerKeyNat
  <2> QED  BY <2>1 DEF CapacityRespected, PoolInit, OfKey
<1> QED
  BY <1>1 DEF PoolInit, PoolInv, PoolTypeOK, ExclusiveOwnership, IdleBuffersAreQuiescent

LEMMA PoolNextInv == PoolInv /\ [PoolNext]_poolVars => PoolInv'
<1> SUFFICES ASSUME PoolInv, [PoolNext]_poolVars PROVE PoolInv'
  OBVIOUS
<1>1. CASE \E k \in Keys : Acquire(k)
  BY <1>1, AcquireKeepsInv
<1>2. CASE \E b \in Buffers : Release(b)
  BY <1>2, ReleaseKeepsInv
<1>3. CASE \E b \in Buffers : Use(b) \/ EventCompletes(b)
  BY <1>3, GpuKeepsInv
<1>4. CASE CanCache \/ Stats
  BY <1>4, DrainOnlyKeepsInv
<1>5. CASE Clear
  BY <1>5, ClearKeepsInv
<1>6. CASE UNCHANGED poolVars
  BY <1>6, StutterKeepsInv
<1> QED
  BY <1>1, <1>2, <1>3, <1>4, <1>5, <1>6 DEF PoolNext

-----------------------------------------------------------------------------
(* The theorems *)

\* Ownership, quiescence and the capacity bound hold in every reachable state
\* of a pool of any size: no buffer is shared by two units or by a unit and
\* the pool, no idle buffer has GPU work outstanding.
THEOREM PoolSafe == PoolSpec => []PoolInv
BY PoolInitInv, PoolNextInv, PTL DEF PoolSpec

\* The pool's lists and the units hold buffers of the model only.
THEOREM PoolTyped == PoolSpec => []PoolTypeOK
<1>1. PoolInv => PoolTypeOK
  BY DEF PoolInv
<1> QED
  BY <1>1, PoolSafe, PTL

\* No idle buffer has GPU work outstanding: a drain reads the events, and only
\* a unit that holds a buffer starts work on it.
THEOREM PoolIdleQuiescent == PoolSpec => []IdleBuffersAreQuiescent
<1>1. PoolInv => IdleBuffersAreQuiescent
  BY DEF PoolInv
<1> QED
  BY <1>1, PoolSafe, PTL

\* A buffer a unit holds is neither idle nor waiting in the pool, and no
\* buffer is both: the pool never hands one buffer to two units.
THEOREM PoolOwnership == PoolSpec => []ExclusiveOwnership
<1>1. PoolInv => ExclusiveOwnership
  BY DEF PoolInv
<1> QED
  BY <1>1, PoolSafe, PTL

\* At most max_cached_per_key buffers of a key are kept alive by the pool.
THEOREM PoolCapacity == PoolSpec => []CapacityRespected
<1>1. PoolInv => CapacityRespected
  BY DEF PoolInv
<1> QED
  BY <1>1, PoolSafe, PTL

\* A release the pool accepted survives every later drain: what waits for its
\* event goes on waiting, becomes idle or is handed out at once.  The room that
\* was there when it was accepted is there when it becomes idle, because
\* releases count both lists of a key.
THEOREM PoolKeepsAcceptedReleases == PoolSpec => AcceptedReleaseSurvivesDrain
<1> DEFINE Survives == \/ Clear
                       \/ \A b \in pending : b \in pending' \cup cached' \cup held'
<1>1. PoolInv /\ [PoolNext]_poolVars => [Survives]_poolVars
  <2> SUFFICES ASSUME PoolInv, PoolNext PROVE Survives
    BY DEF poolVars
  <2>1. pending = StillPending \cup Completed
    BY DEF StillPending, Completed
  <2>2. ASSUME NEW keep \in Drains,
               keep \subseteq cached' \cup held', StillPending \subseteq pending'
        PROVE  Survives
    BY <2>1, <2>2, DrainKeepsCompleted
  <2>3. ASSUME NEW k \in Keys, Acquire(k)
        PROVE  Survives
    <3>1. PICK keep \in Drains :
            LET taken == OfKey(cached \cup keep, k)
            IN \/ \E b \in taken :
                    /\ held' = held \cup {b}
                    /\ cached' = (cached \cup keep) \ {b}
                    /\ pending' = StillPending
               \/ /\ cached' = cached \cup keep
                  /\ pending' = StillPending
      BY <2>3 DEF Acquire
    <3>2. keep \subseteq cached' \cup held' /\ StillPending \subseteq pending'
      BY <3>1
    <3> QED
      BY <2>2, <3>2
  <2>4. ASSUME NEW b \in Buffers, Release(b)
        PROVE  Survives
    <3>1. PICK keep \in Drains :
            cached \cup keep \subseteq cached' /\ StillPending \subseteq pending'
      BY <2>4 DEF Release
    <3> QED
      BY <2>2, <3>1
  <2>5. ASSUME CanCache \/ Stats
        PROVE  Survives
    <3>1. PICK keep \in Drains : cached' = cached \cup keep /\ pending' = StillPending
      BY <2>5 DEF CanCache, Stats
    <3> QED
      BY <2>2, <3>1
  <2>6. ASSUME NEW b \in Buffers, Use(b) \/ EventCompletes(b)
        PROVE  pending' = pending
    BY <2>6 DEF Use, EventCompletes
  <2>7. CASE Clear
    BY <2>7
  <2> QED
    BY <2>3, <2>4, <2>5, <2>6, <2>7 DEF PoolNext
<1> HIDE DEF Survives
<1>2. PoolSpec => [][Survives]_poolVars
  BY <1>1, PoolSafe, PTL DEF PoolSpec
<1> QED
  BY <1>2 DEF Survives, AcceptedReleaseSurvivesDrain

\* No unit is ever given a buffer that still has GPU work outstanding: an
\* idle buffer has none, and the drain only makes buffers idle whose event
\* has completed.
THEOREM PoolHandsOutQuiescent == PoolSpec => HandsOutQuiescent
<1>1. PoolInv /\ [PoolNext]_poolVars => [(held' \ held) \cap busy = {}]_poolVars
  <2> SUFFICES ASSUME PoolInv, PoolNext
               PROVE  (held' \ held) \cap busy = {}
    BY DEF poolVars
  <2>1. ASSUME NEW k \in Keys, Acquire(k)
        PROVE  (held' \ held) \cap busy = {}
    <3>1. PICK keep \in Drains :
            LET idle == OfKey(cached \cup keep, k)
            IN \/ \E b \in idle : held' = held \cup {b}
               \/ \E b \in OfKey(Allocatable, k) : held' = held \cup {b}
      BY <2>1 DEF Acquire
    <3>2. keep \subseteq pending \ busy
      BY DrainMovesCompleted
    <3> QED
      BY <3>1, <3>2 DEF OfKey, Allocatable, PoolInv, IdleBuffersAreQuiescent
  <2>2. ASSUME NEW b \in Buffers, Release(b) \/ Use(b) \/ EventCompletes(b)
        PROVE  held' \subseteq held
    BY <2>2 DEF Release, Use, EventCompletes
  <2>3. ASSUME CanCache \/ Stats \/ Clear
        PROVE  held' \subseteq held
    BY <2>3 DEF CanCache, Stats, Clear
  <2> QED
    BY <2>1, <2>2, <2>3 DEF PoolNext
<1> QED
  BY <1>1, PoolSafe, PTL DEF PoolSpec, HandsOutQuiescent

-----------------------------------------------------------------------------
(* Units *)

\* No two units have one full buffer, and the pool has none of them.
Owns ==
  /\ \A u \in Units : buf[u] # NoBuffer => buf[u] \in held
  /\ \A u, v \in Units : u # v /\ buf[u] # NoBuffer => buf[u] # buf[v]

Unsharded(u) == phase[u] \in {"gathered", "computed"}

Filled == \A u \in Units : Unsharded(u) => buf[u] # NoBuffer /\ content[buf[u]] = u

\* The forward of the unit is behind, its backward is not.
AfterForward(u) ==
  \/ phase[u] \in {"computed", "resharded"}
  \/ phase[u] = "gathered" /\ (pass # "forward" \/ u < at)

\* The saved views of the unit are a handle of its own hooks, or the unit
\* still has the buffer they were taken from.
KeepsView(u) ==
  IF u \in Reshard \cap Hooked
    THEN saved[u] = u
    ELSE u \notin Reshard \/ MaxCachedPerKey = 0
           => buf[u] # NoBuffer /\ saved[u] = buf[u]

SavedViewsKept == \A u \in Units : AfterForward(u) => KeepsView(u)

StorageInv == StorageTypeOK /\ Owns /\ Filled /\ SavedViewsKept

\* The buffers and contents after a step that concerns u alone.
OthersKeepBuffers(u) ==
  \A v \in Units \ {u} :
    /\ buf'[v] = buf[v]
    /\ buf[v] # NoBuffer => content'[buf[v]] = content[buf[v]]

BufferTypes ==
  /\ PoolTypeOK
  /\ buf \in [Units -> Buffers \cup {NoBuffer}]
  /\ content \in [Buffers -> Units \cup {Nobody}]

-----------------------------------------------------------------------------
(* The two ways to get a buffer, and the two to give one up *)

LEMMA DrainsTyped ==
  ASSUME PoolTypeOK, NEW keep \in Drains
  PROVE  keep \subseteq Buffers
BY DEF PoolTypeOK, Drains, Completed

LEMMA AcquireTyped ==
  ASSUME PoolTypeOK, NEW k, Acquire(k)
  PROVE  PoolTypeOK' /\ held \subseteq held'
BY DrainsTyped DEF PoolTypeOK, Acquire, OfKey, Allocatable, StillPending

LEMMA ReleaseTyped ==
  ASSUME PoolTypeOK, NEW b \in Buffers, Release(b)
  PROVE  PoolTypeOK' /\ held' = held \ {b}
BY DrainsTyped DEF PoolTypeOK, Release, StillPending

\* A gather leaves the unit with its parameters in a buffer of its own; a
\* unit that had a buffer keeps it.
LEMMA GatherFills ==
  ASSUME StorageInv, NEW u \in Units, Gather(u)
  PROVE  /\ BufferTypes' /\ Owns' /\ OthersKeepBuffers(u)
         /\ buf'[u] # NoBuffer /\ content'[buf'[u]] = u
         /\ buf[u] # NoBuffer => buf'[u] = buf[u]
<1> USE DEF StorageInv, StorageTypeOK, Owns, BufferTypes, OthersKeepBuffers
<1>1. CASE /\ buf[u] # NoBuffer
           /\ content' = [content EXCEPT ![buf[u]] = u]
           /\ busy' = IF Cuda THEN busy \cup {buf[u]} ELSE busy
           /\ UNCHANGED <<cached, pending, held, buf>>
  BY <1>1 DEF PoolTypeOK
<1>2. CASE buf[u] = NoBuffer /\ Acquire(UnitKey[u])
           /\ \E b \in held' \ held :
                /\ buf' = [buf EXCEPT ![u] = b]
                /\ content' = [content EXCEPT ![b] = u]
  <2>1. PoolTypeOK' /\ held \subseteq held'
    BY <1>2, AcquireTyped
  <2>2. PICK b \in held' \ held :
               buf' = [buf EXCEPT ![u] = b] /\ content' = [content EXCEPT ![b] = u]
    BY <1>2
  <2>3. b \in Buffers /\ b # NoBuffer
    BY <2>1, NoBufferOutside DEF PoolTypeOK
  <2> QED
    BY <1>2, <2>1, <2>2, <2>3
<1> QED
  BY <1>1, <1>2 DEF Gather

\* Giving a buffer up takes it from nobody else.
LEMMA ReleaseFullKeepsOthers ==
  ASSUME StorageInv, NEW u \in Units, buf[u] # NoBuffer, ReleaseFull(u)
  PROVE  BufferTypes' /\ Owns' /\ OthersKeepBuffers(u)
<1> USE DEF StorageInv, StorageTypeOK, Owns, BufferTypes, OthersKeepBuffers
<1>1. PoolTypeOK' /\ held' = held \ {buf[u]}
  BY ReleaseTyped DEF ReleaseFull
<1> QED
  BY <1>1 DEF ReleaseFull

LEMMA ShrinkKeepsOthers ==
  ASSUME StorageInv, NEW u \in Units, NEW keepTensor \in BOOLEAN,
         buf[u] # NoBuffer, Shrink(u, keepTensor)
  PROVE  /\ BufferTypes' /\ Owns' /\ OthersKeepBuffers(u)
         /\ MaxCachedPerKey = 0 /\ keepTensor => buf' = buf
<1> USE DEF StorageInv, StorageTypeOK, Owns, BufferTypes, OthersKeepBuffers
<1>1. CASE /\ CanCacheBuffer(buf[u]) /\ Release(buf[u])
           /\ buf' = [buf EXCEPT ![u] = NoBuffer] /\ UNCHANGED content
  <2>1. PoolTypeOK' /\ held' = held \ {buf[u]}
    BY <1>1, ReleaseTyped
  <2> QED
    BY <1>1, <2>1 DEF CanCacheBuffer
<1>2. CASE /\ IF MaxCachedPerKey = 0
                THEN UNCHANGED <<cached, pending>>
                ELSE /\ \E keep \in Drains : cached' = cached \cup keep
                     /\ pending' = StillPending
           /\ content' = [content EXCEPT ![buf[u]] = Nobody]
           /\ IF keepTensor
                THEN UNCHANGED <<held, buf>>
                ELSE /\ held' = held \ {buf[u]}
                     /\ buf' = [buf EXCEPT ![u] = NoBuffer]
           /\ UNCHANGED busy
  <2>1. cached' \subseteq Buffers /\ pending' \subseteq Buffers
    BY <1>2, DrainsTyped DEF PoolTypeOK, StillPending
  <2>2. PoolTypeOK'
    BY <1>2, <2>1 DEF PoolTypeOK
  <2> QED
    BY <1>2, <2>2
<1> QED
  BY <1>1, <1>2 DEF Shrink

-----------------------------------------------------------------------------
(* The steps *)

LEMMA InitKeepsStorage == StorageInit => StorageInv
BY UnitCountPositive
   DEF StorageInit, PoolInit, StorageInv, StorageTypeOK, PoolTypeOK, Owns, Filled,
       Unsharded, SavedViewsKept, AfterForward, Units

LEMMA GatherForwardKeeps ==
  ASSUME StorageInv, NEW u \in Units, GatherForward(u)
  PROVE  StorageInv'
<1> USE DEF GatherForward
<1>1. /\ BufferTypes' /\ Owns' /\ OthersKeepBuffers(u)
      /\ buf'[u] # NoBuffer /\ content'[buf'[u]] = u
      /\ buf[u] # NoBuffer => buf'[u] = buf[u]
  BY GatherFills
<1>2. StorageTypeOK'
  BY <1>1 DEF StorageInv, StorageTypeOK, BufferTypes
<1>3. Filled'
  BY <1>1 DEF StorageInv, StorageTypeOK, Filled, Unsharded, OthersKeepBuffers
<1>4. SavedViewsKept'
  <2>1. ~AfterForward(u)'
    BY DEF StorageInv, StorageTypeOK, AfterForward, Due, Units
  <2>2. ASSUME NEW v \in Units \ {u}, AfterForward(v)'
        PROVE  KeepsView(v)'
    <3>1. AfterForward(v)
      BY <2>2 DEF StorageInv, StorageTypeOK, AfterForward
    <3> QED
      BY <1>1, <3>1 DEF StorageInv, SavedViewsKept, KeepsView, OthersKeepBuffers
  <2> QED
    BY <2>1, <2>2 DEF SavedViewsKept
<1> QED
  BY <1>1, <1>2, <1>3, <1>4 DEF StorageInv

LEMMA GatherBackwardKeeps ==
  ASSUME StorageInv, NEW u \in Units, GatherBackward(u)
  PROVE  StorageInv'
<1> USE DEF GatherBackward
<1>1. /\ BufferTypes' /\ Owns' /\ OthersKeepBuffers(u)
      /\ buf'[u] # NoBuffer /\ content'[buf'[u]] = u
      /\ buf[u] # NoBuffer => buf'[u] = buf[u]
  BY GatherFills
<1>2. StorageTypeOK'
  BY <1>1 DEF StorageInv, StorageTypeOK, BufferTypes
<1>3. Filled'
  BY <1>1 DEF StorageInv, StorageTypeOK, Filled, Unsharded, OthersKeepBuffers
<1>4. SavedViewsKept'
  <2>1. ASSUME NEW v \in Units, AfterForward(v)'
        PROVE  AfterForward(v) /\ (buf[v] # NoBuffer => buf'[v] = buf[v])
    BY <1>1, <2>1 DEF StorageInv, StorageTypeOK, AfterForward, OthersKeepBuffers
  <2> QED
    BY <2>1 DEF StorageInv, SavedViewsKept, KeepsView
<1> QED
  BY <1>1, <1>2, <1>3, <1>4 DEF StorageInv

\* A view packed in the forward of u is the handle of u's own hooks or is not
\* packed: the root's hooks compare it with the root's buffer.
LEMMA PackedByOwnHooks ==
  ASSUME StorageInv, NEW u \in Units, buf[u] # NoBuffer
  PROVE  Pack(u) = IF u \in Reshard \cap Hooked THEN u ELSE buf[u]
<1>1. CASE u \in Reshard \cap Hooked
  <2>1. HooksOver(u) = u /\ u # Nobody
    BY <1>1, NoBufferOutside DEF HooksOver
  <2> QED
    BY <1>1, <2>1 DEF Pack
<1>2. CASE u \notin Reshard \cap Hooked /\ Root \in Reshard \cap Hooked
  <2>1. Root \in Units /\ Root # u /\ HooksOver(u) = Root
    BY <1>2, OptionsTyped DEF HooksOver
  <2>2. buf[Root] # buf[u]
    BY <2>1 DEF StorageInv, Owns
  <2> QED
    BY <1>2, <2>1, <2>2 DEF Pack
<1>3. CASE u \notin Reshard \cap Hooked /\ Root \notin Reshard \cap Hooked
  BY <1>3 DEF Pack, HooksOver
<1> QED
  BY <1>1, <1>2, <1>3

LEMMA ComputeForwardKeeps ==
  ASSUME StorageInv, NEW u \in Units, ComputeForward(u)
  PROVE  StorageInv'
<1> USE DEF ComputeForward, StorageInv
<1>1. buf[u] # NoBuffer /\ buf[u] \in Buffers
  BY DEF StorageTypeOK, Filled, Unsharded
<1>2. Pack(u) = IF u \in Reshard \cap Hooked THEN u ELSE buf[u]
  BY <1>1, PackedByOwnHooks
<1>3. StorageTypeOK'
  BY <1>1, <1>2 DEF StorageTypeOK, PoolTypeOK
<1>4. Owns' /\ Filled'
  BY DEF StorageTypeOK, Owns, Filled, Unsharded
<1>5. SavedViewsKept'
  <2>1. KeepsView(u)'
    BY <1>1, <1>2 DEF StorageTypeOK, KeepsView
  <2>2. ASSUME NEW v \in Units \ {u}, AfterForward(v)'
        PROVE  KeepsView(v)'
    BY <2>2 DEF StorageTypeOK, SavedViewsKept, AfterForward, KeepsView
  <2> QED
    BY <2>1, <2>2 DEF SavedViewsKept
<1> QED
  BY <1>3, <1>4, <1>5

LEMMA ComputeBackwardKeeps ==
  ASSUME StorageInv, NEW u \in Units, ComputeBackward(u)
  PROVE  StorageInv'
<1> USE DEF ComputeBackward, StorageInv
<1>1. buf[u] # NoBuffer /\ buf[u] \in Buffers
  BY DEF StorageTypeOK, Filled, Unsharded
<1>2. StorageTypeOK'
  BY <1>1 DEF StorageTypeOK, PoolTypeOK
<1>3. Owns' /\ Filled'
  BY DEF StorageTypeOK, Owns, Filled, Unsharded
<1>4. SavedViewsKept'
  BY DEF StorageTypeOK, SavedViewsKept, AfterForward, KeepsView
<1> QED
  BY <1>2, <1>3, <1>4

\* Entering the children, the root is behind: it has computed.
LEMMA EnterChildrenKeeps ==
  ASSUME StorageInv, EnterChildren
  PROVE  StorageInv'
<1> USE DEF EnterChildren, StorageInv
<1>1. at = 1 /\ at' = 2 /\ at' \in Units
  BY RootTyped, NoBufferOutside, UnitCountPositive DEF StorageTypeOK, Units
<1>2. StorageTypeOK'
  BY <1>1 DEF StorageTypeOK, PoolTypeOK
<1>3. Owns' /\ Filled'
  BY DEF Owns, Filled, Unsharded
<1>4. SavedViewsKept'
  <2>1. ASSUME NEW v \in Units, AfterForward(v)'
        PROVE  AfterForward(v)
    BY <1>1, <2>1 DEF AfterForward, Units
  <2> QED
    BY <2>1 DEF SavedViewsKept, KeepsView
<1> QED
  BY <1>2, <1>3, <1>4

\* When a unit leaves its forward, only that unit is newly behind.
LEMMA LeavingForward ==
  ASSUME StorageInv, NEW u \in Units, LeavesForward(u), ForwardMovesOn,
         NEW kind \in {"gathered", "resharded"},
         phase' = [phase EXCEPT ![u] = kind]
  PROVE  /\ pass' \in {"forward", "closing", "backward"} /\ at' \in Units
         /\ AfterForward(u)
         /\ \A v \in Units \ {u} : AfterForward(v)' => AfterForward(v)
<1> USE DEF LeavesForward, ForwardMovesOn, StorageInv, StorageTypeOK
<1>1. pass' \in {"forward", "closing", "backward"} /\ at' \in Units
  BY UnitCountPositive DEF Units
<1>2. AfterForward(u)
  BY DEF AfterForward
<1>3. ASSUME NEW v \in Units \ {u}, AfterForward(v)'
      PROVE  AfterForward(v)
  <2>1. phase'[v] = phase[v]
    OBVIOUS
  <2>2. CASE phase[v] = "gathered" /\ pass = "forward"
    BY <1>3, <2>1, <2>2, UnitCountPositive DEF AfterForward, Units
  <2> QED
    BY <1>3, <2>1, <2>2 DEF AfterForward
<1> QED
  BY <1>1, <1>2, <1>3

LEMMA KeepAfterForwardKeeps ==
  ASSUME StorageInv, NEW u \in Units, KeepAfterForward(u)
  PROVE  StorageInv'
<1> USE DEF KeepAfterForward
<1>1. /\ pass' \in {"forward", "closing", "backward"} /\ at' \in Units
      /\ AfterForward(u)
      /\ \A v \in Units \ {u} : AfterForward(v)' => AfterForward(v)
  BY LeavingForward
<1>2. StorageTypeOK'
  BY <1>1 DEF StorageInv, StorageTypeOK, PoolTypeOK
<1>3. Owns' /\ Filled'
  BY DEF StorageInv, StorageTypeOK, Owns, Filled, Unsharded, LeavesForward
<1>4. SavedViewsKept'
  BY <1>1 DEF StorageInv, SavedViewsKept, KeepsView
<1> QED
  BY <1>2, <1>3, <1>4 DEF StorageInv

LEMMA ReshardAfterForwardKeeps ==
  ASSUME StorageInv, NEW u \in Units, ReshardAfterForward(u)
  PROVE  StorageInv'
<1> USE DEF ReshardAfterForward
<1>1. buf[u] # NoBuffer
  BY DEF StorageInv, Filled, Unsharded, LeavesForward
<1>2. /\ BufferTypes' /\ Owns' /\ OthersKeepBuffers(u)
      /\ u \notin Hooked /\ MaxCachedPerKey = 0 => buf' = buf
  BY <1>1, ReleaseFullKeepsOthers, ShrinkKeepsOthers
<1>3. /\ pass' \in {"forward", "closing", "backward"} /\ at' \in Units
      /\ AfterForward(u)
      /\ \A v \in Units \ {u} : AfterForward(v)' => AfterForward(v)
  BY LeavingForward
<1>4. StorageTypeOK'
  BY <1>2, <1>3 DEF StorageInv, StorageTypeOK, BufferTypes
<1>5. Filled'
  BY <1>2 DEF StorageInv, StorageTypeOK, Filled, Unsharded, OthersKeepBuffers
<1>6. SavedViewsKept'
  <2>1. KeepsView(u)'
    BY <1>2, <1>3 DEF StorageInv, SavedViewsKept, KeepsView
  <2>2. ASSUME NEW v \in Units \ {u}, AfterForward(v)'
        PROVE  KeepsView(v)'
    BY <1>2, <1>3, <2>2 DEF StorageInv, SavedViewsKept, KeepsView, OthersKeepBuffers
  <2> QED
    BY <2>1, <2>2 DEF SavedViewsKept
<1> QED
  BY <1>2, <1>4, <1>5, <1>6 DEF StorageInv

LEMMA ReshardAfterBackwardKeeps ==
  ASSUME StorageInv, NEW u \in Units, ReshardAfterBackward(u)
  PROVE  StorageInv'
<1> USE DEF ReshardAfterBackward
<1>1. buf[u] # NoBuffer
  BY DEF StorageInv, Filled, Unsharded
<1>2. BufferTypes' /\ Owns' /\ OthersKeepBuffers(u)
  BY <1>1, ShrinkKeepsOthers
<1>3. StorageTypeOK'
  BY <1>2, UnitCountPositive DEF StorageInv, StorageTypeOK, BufferTypes, Units
<1>4. Filled'
  BY <1>2 DEF StorageInv, StorageTypeOK, Filled, Unsharded, OthersKeepBuffers
<1>5. SavedViewsKept'
  <2>1. ASSUME NEW v \in Units, AfterForward(v)'
        PROVE  KeepsView(v)'
    <3>1. v # u /\ AfterForward(v)
      BY <2>1 DEF StorageInv, StorageTypeOK, AfterForward
    <3> QED
      BY <1>2, <3>1 DEF StorageInv, StorageTypeOK, SavedViewsKept, KeepsView,
                        OthersKeepBuffers
  <2> QED
    BY <2>1 DEF SavedViewsKept
<1> QED
  BY <1>2, <1>3, <1>4, <1>5 DEF StorageInv

LEMMA GpuCompletesKeeps ==
  ASSUME StorageInv, GpuCompletes
  PROVE  StorageInv'
BY DEF GpuCompletes, EventCompletes, StorageInv, StorageTypeOK, PoolTypeOK, Owns,
       Filled, Unsharded, SavedViewsKept, AfterForward, KeepsView

LEMMA StorageNextInv == StorageInv /\ [StorageNext]_storageVars => StorageInv'
<1> SUFFICES ASSUME StorageInv, [StorageNext]_storageVars PROVE StorageInv'
  OBVIOUS
<1>1. CASE UNCHANGED storageVars
  BY <1>1 DEF storageVars, StorageInv, StorageTypeOK, PoolTypeOK, Owns, Filled,
              Unsharded, SavedViewsKept, AfterForward, KeepsView
<1>2. CASE StorageNext
  BY <1>2, GatherForwardKeeps, ComputeForwardKeeps, EnterChildrenKeeps,
     KeepAfterForwardKeeps, ReshardAfterForwardKeeps, GatherBackwardKeeps,
     ComputeBackwardKeeps, ReshardAfterBackwardKeeps, GpuCompletesKeeps
     DEF StorageNext
<1> QED
  BY <1>1, <1>2

LEMMA StorageSafe == StorageSpec => []StorageInv
BY InitKeepsStorage, StorageNextInv, PTL DEF StorageSpec

\* Units, buffers and saved views stay of their types through every pass.
THEOREM StorageTyped == StorageSpec => []StorageTypeOK
<1>1. StorageInv => StorageTypeOK
  BY DEF StorageInv
<1> QED
  BY <1>1, StorageSafe, PTL

\* Every unit that is gathered has its own parameters in its buffer: no
\* acquire, prefetch, shrink or release of another unit (flat_buffer.py and
\* buffer_pool.py) writes there, whatever the pool and the prefetch do.
THEOREM UnitsKeepTheirParameters == StorageSpec => []UnshardedUnitsKeepTheirParameters
<1>1. StorageInv => UnshardedUnitsKeepTheirParameters
  BY DEF StorageInv, Filled, Unsharded, UnshardedUnitsKeepTheirParameters
<1> QED
  BY <1>1, StorageSafe, PTL

\* The views saved for backward read the unit's own parameters, without a
\* buffer pool or when every unit that reshards after its forward has the
\* saved-tensor hooks of fsdp_unit.py, whatever hooks of a root are over it.
\* A pool and a unit that reshards without hooks has a counterexample.
THEOREM SavedViewsSafe ==
  ASSUME MaxCachedPerKey = 0 \/ Reshard \subseteq Hooked
  PROVE  StorageSpec => []SavedViewsReadOwnParameters
<1>1. StorageInv => SavedViewsReadOwnParameters
  <2> SUFFICES ASSUME StorageInv, NEW u \in Units, pass = "backward",
                      phase[u] \in {"gathered", "computed"}
               PROVE  SavedStorage(u) # NoBuffer /\ content[SavedStorage(u)] = u
    BY DEF SavedViewsReadOwnParameters
  <2>1. buf[u] # NoBuffer /\ buf[u] \in Buffers /\ content[buf[u]] = u
    BY DEF StorageInv, StorageTypeOK, Filled, Unsharded
  <2>2. KeepsView(u)
    BY DEF StorageInv, SavedViewsKept, AfterForward
  <2>3. saved[u] = u \/ saved[u] = buf[u]
    BY <2>2 DEF KeepsView
  <2>4. SavedStorage(u) = buf[u]
    BY <2>1, <2>3, NoBufferOutside DEF SavedStorage
  <2> QED
    BY <2>1, <2>4
<1> QED
  BY <1>1, StorageSafe, PTL
=============================================================================
