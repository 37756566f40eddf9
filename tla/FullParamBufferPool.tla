------------------------- MODULE FullParamBufferPool -------------------------
(***************************************************************************)
(* The pool of full-parameter communication buffers                        *)
(* (matrix_fsdp/runtime/buffer_pool.py).                                   *)
(*                                                                         *)
(* A unit acquires a flat buffer for its all-gather and returns it when it *)
(* reshards.  On CUDA the GPU may still be reading the buffer at that      *)
(* moment, so a released buffer with an incomplete event waits in          *)
(* `pending' and is moved to the free lists by the drain that opens every  *)
(* locked section.  Free lists are sets here: which of two idle buffers of *)
(* one key is handed out is not observable.  The lock makes every          *)
(* operation atomic; only the GPU (Use, EventCompletes) runs beside them.  *)
(*                                                                         *)
(* An operator marked `Slip' is a defect a change could introduce in the   *)
(* one that follows it; the specification uses none of them.               *)
(***************************************************************************)
EXTENDS FiniteSets, Integers

CONSTANTS
  Buffers,          \* storages the allocator may hand out
  Keys,             \* FullParamBufferKey: device, dtype and element count
  KeyOf,            \* the key of each storage
  MaxCachedPerKey,  \* max_cached_per_key
  Cuda              \* buffers live on a CUDA device

ASSUME BuffersFinite == IsFiniteSet(Buffers)
ASSUME KeysTyped == KeyOf \in [Buffers -> Keys]
ASSUME MaxCachedPerKeyNat == MaxCachedPerKey \in Nat
ASSUME CudaBoolean == Cuda \in BOOLEAN

VARIABLES
  cached,   \* _cached: the idle buffers
  pending,  \* _pending: released buffers whose event had not completed
  held,     \* buffers in the hands of the units
  busy      \* buffers with GPU work enqueued and not completed

poolVars == <<cached, pending, held, busy>>

OfKey(set, k) == {b \in set : KeyOf[b] = k}

PoolInit ==
  /\ cached = {}
  /\ pending = {}
  /\ held = {}
  /\ busy = {}

-----------------------------------------------------------------------------
(* _drain_pending_locked: every completed release goes through            *)
(* _cache_locked, which drops it when the free list of its key is full.   *)

\* Slip: the drain does not ask the events.
CompletedUnqueried == pending

Completed == pending \ busy

Room(k) == MaxCachedPerKey - Cardinality(OfKey(cached, k))

\* keep is what a drain may move to the free lists: all of a key's completed
\* releases when they fit, as many as fit when they do not.
IsDrain(keep) ==
  \A k \in Keys :
    LET done == OfKey(Completed, k)
        kept == OfKey(keep, k)
    IN  /\ kept \subseteq done
        /\ \/ kept = done /\ Cardinality(done) <= Room(k)
           \/ Cardinality(done) > Room(k) /\ Cardinality(kept) = Room(k)

Drains == {keep \in SUBSET Completed : IsDrain(keep)}

\* Slip: the (event, key, buffer) entries kept are unpacked in the wrong order.
StillPendingMisread == {KeyOf[b] : b \in pending \cap busy}

StillPending == pending \cap busy

\* Slip: only the idle buffers are counted.
HasRoomAmongIdle(b, keep) ==
  Cardinality(OfKey(cached \cup keep, KeyOf[b])) < MaxCachedPerKey

\* can_cache and release count both lists of the key, after the drain.
HasRoom(b, keep) ==
  Cardinality(OfKey(cached \cup keep, KeyOf[b]))
    + Cardinality(OfKey(StillPending, KeyOf[b])) < MaxCachedPerKey

-----------------------------------------------------------------------------
\* The storages new_empty may return: the allocator reuses a dropped storage
\* only once the GPU is done with it.
Allocatable == Buffers \ (held \cup cached \cup pending \cup busy)

\* Slip: the idle buffer handed out stays in its free list.
AcquireWithoutPop(k) ==
  \E keep \in Drains : \E b \in OfKey(cached \cup keep \cup Allocatable, k) :
    /\ held' = held \cup {b}
    /\ cached' = cached \cup keep
    /\ pending' = StillPending
    /\ UNCHANGED busy

Acquire(k) ==
  \E keep \in Drains :
    LET idle == OfKey(cached \cup keep, k)
    IN \/ \E b \in idle :
             /\ held' = held \cup {b}
             /\ cached' = (cached \cup keep) \ {b}
             /\ pending' = StillPending
             /\ busy' = busy
       \/ /\ idle = {}
          /\ \E b \in OfKey(Allocatable, k) : held' = held \cup {b}
          /\ cached' = cached \cup keep
          /\ pending' = StillPending
          /\ busy' = busy

\* can_cache answers from the drained lists; the drain is its only effect.
CanCache ==
  /\ MaxCachedPerKey # 0
  /\ \E keep \in Drains : cached' = cached \cup keep
  /\ pending' = StillPending
  /\ UNCHANGED <<held, busy>>

\* release: a dropped buffer goes back to the allocator, one with GPU work
\* outstanding waits for its event, the others become idle.  A CPU buffer,
\* or a pool that caches nothing, records no event.
Release(b) ==
  /\ b \in held
  /\ held' = held \ {b}
  /\ \E keep \in Drains :
       \/ /\ ~HasRoom(b, keep)
          /\ cached' = cached \cup keep
          /\ pending' = StillPending
       \/ /\ HasRoom(b, keep)
          /\ b \in busy
          /\ cached' = cached \cup keep
          /\ pending' = StillPending \cup {b}
       \/ /\ HasRoom(b, keep)
          /\ b \notin busy
          /\ cached' = cached \cup keep \cup {b}
          /\ pending' = StillPending
  /\ UNCHANGED busy

Stats ==
  /\ \E keep \in Drains : cached' = cached \cup keep
  /\ pending' = StillPending
  /\ UNCHANGED <<held, busy>>

Clear ==
  /\ cached' = {}
  /\ pending' = {}
  /\ UNCHANGED <<held, busy>>

\* The holder enqueues GPU work (the gather into the buffer, or a kernel that
\* reads the parameters in it); the GPU retires all the work of a buffer.
Use(b) ==
  /\ Cuda
  /\ b \in held
  /\ busy' = busy \cup {b}
  /\ UNCHANGED <<cached, pending, held>>

EventCompletes(b) ==
  /\ b \in busy
  /\ busy' = busy \ {b}
  /\ UNCHANGED <<cached, pending, held>>

PoolNext ==
  \/ \E k \in Keys : Acquire(k)
  \/ \E b \in Buffers : Release(b) \/ Use(b) \/ EventCompletes(b)
  \/ CanCache \/ Stats \/ Clear

PoolSpec == PoolInit /\ [][PoolNext]_poolVars

-----------------------------------------------------------------------------
PoolTypeOK ==
  /\ cached \subseteq Buffers
  /\ pending \subseteq Buffers
  /\ held \subseteq Buffers
  /\ busy \subseteq Buffers

\* A buffer is in one place only: no unit holds a buffer that the pool may
\* hand to another unit, now or once its event completes.
ExclusiveOwnership ==
  /\ held \cap (cached \cup pending) = {}
  /\ cached \cap pending = {}

\* A buffer the pool hands out is one the GPU has finished with: an idle
\* buffer never has work outstanding from the unit that released it.
IdleBuffersAreQuiescent == cached \cap busy = {}

\* max_cached_per_key bounds what the pool keeps alive of one key, releases
\* that still wait for their event included.
CapacityRespected ==
  \A k \in Keys :
    Cardinality(OfKey(cached, k)) + Cardinality(OfKey(pending, k)) <= MaxCachedPerKey

\* A release the pool accepted is never lost by a later drain: a buffer leaves
\* `pending' only to become idle, to be handed out at once, or with Clear.
AcceptedReleaseSurvivesDrain ==
  [][ \/ Clear
      \/ \A b \in pending : b \in pending' \cup cached' \cup held' ]_poolVars

\* A unit is only ever given a storage without outstanding GPU work.
HandsOutQuiescent == [][ (held' \ held) \cap busy = {} ]_poolVars
=============================================================================
