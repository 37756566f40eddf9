--------------------------- MODULE ParamGroupRuntime ---------------------------
(***************************************************************************)
(* The runtime of one rank: the parameter groups (runtime/fsdp_unit.py)    *)
(* with the gradient side of their flat buffers (runtime/flat_buffer.py),  *)
(* the prefetch and reduce scheduler they share (runtime/scheduler.py) and *)
(* the optimizer wrapper (optim/wrapper.py).                               *)
(*                                                                         *)
(* A handler of the code is an operator from a runtime state to the next   *)
(* one, composed as the methods call each other; the modules that EXTEND   *)
(* this one turn them into actions.  A runtime state s is a record:        *)
(*                                                                         *)
(*   s.grp[u]    the parameter group u; its fields are commented at Group  *)
(*   s.order     _post_forward_order                                       *)
(*   s.idx[u]    _post_forward_indices_by_unit_id, counted from 1          *)
(*   s.fwdIds    _forward_prefetched_unit_ids                              *)
(*   s.bwdIds    _backward_prefetched_unit_ids                             *)
(*   s.queue[u]  place of u in _pending_backward_reduce_units, 0 if absent *)
(*               (a unit is appended only when it is not in the list)      *)
(*   s.deferred  _deferred_backward_prefetch_unit                          *)
(*   s.err       the RuntimeError raised, None while there is none         *)
(*                                                                         *)
(* The full-parameter buffer is not a field: a unit has a materialised one *)
(* exactly while it is UNSHARDED (the storages are in FullParamStorage).   *)
(* The unshard handle is `inflight': the two are always set together.      *)
(*                                                                         *)
(* An operator marked `Slip' is a defect a change could introduce in the   *)
(* one that follows it; the specification uses none of them.               *)
(***************************************************************************)
EXTENDS FiniteSets, Integers, Sequences

CONSTANTS
  UnitCount,       \* the units are 1 .. UnitCount, in scheduler order
  Params,          \* the parameters of a unit
  Owned,           \* the parameters of each unit with a local view here
  MicroCount,      \* backward passes between two zero_grad (a bound)
  GradPath,        \* "flat", "copy_in" or "zero_copy"
  Reshard,         \* the units with reshard_after_forward
  Finalize,        \* finalize_after_backward
  Prefetch,        \* forward_prefetch and backward_prefetch
  Timing,          \* backward_prefetch_timing
  MaxForwardPrefetch,   \* max_forward_prefetch_units
  MaxBackwardPrefetch,  \* max_backward_prefetch_units
  MaxActive,            \* max_active_full_param_buffers
  MaxPendingReduces,    \* max_pending_backward_reduces
  None

Units == 1 .. UnitCount
Micros == 1 .. MicroCount

ASSUME UnitCountAssumption == UnitCount \in Nat \ {0}
ASSUME MicroCountAssumption == MicroCount \in Nat
ASSUME ParamsAssumption == IsFiniteSet(Params) /\ Params # {}
ASSUME OwnedAssumption == Owned \in [Units -> SUBSET Params]
ASSUME GradPathAssumption == GradPath \in {"flat", "copy_in", "zero_copy"}
ASSUME ReshardAssumption == Reshard \in SUBSET Units
ASSUME SwitchAssumption == Finalize \in BOOLEAN /\ Prefetch \in BOOLEAN
ASSUME TimingAssumption == Timing \in {"pre_backward", "post_reshard"}
ASSUME BudgetAssumption ==
  /\ MaxForwardPrefetch \in Nat
  /\ MaxBackwardPrefetch \in Nat
  /\ MaxActive \in Nat
  /\ MaxPendingReduces \in Nat

\* The errors the handlers raise.
Errors == {
  "gather_while_not_unsharded", "reduce_while_not_resharded",
  "finalize_inside_no_sync", "finalize_expects_unsharded",
  "finalize_while_forward_resharded", "forward_before_backward",
  "forward_before_finalize", "step_with_gather_in_flight",
  "step_with_reduce_in_flight", "step_expects_sharded"}

ASSUME NoneAssumption == None \notin Errors

-----------------------------------------------------------------------------
(* Gradients.  What is told apart is which backward pass contributed, and  *)
(* how often: a gradient is a count per pass.                              *)

Zero == [m \in Micros |-> 0]
ZeroGrads == [p \in Params |-> Zero]
Plus(a, b) == [m \in Micros |-> a[m] + b[m]]
PlusGrads(a, b) == [p \in Params |-> Plus(a[p], b[p])]
OnePass(m) == [n \in Micros |-> IF n = m THEN 1 ELSE 0]

Gradients == [Params -> [Micros -> Nat]]

\* The tensors a gradient can be in: one autograd made for the parameter,
\* full_grad_buffer, grad_bucket_input, and the local shard of grad_state.
Stores == {"own", "full", "bucket", "local"}

ASSUME NothingAssumption == None \notin Stores /\ None \notin Gradients

Group == [
  state : {"SHARDED", "UNSHARDED", "FORWARD_RESHARDED"},  \* lifecycle_state
  inflight : BOOLEAN,          \* _unshard_inflight, _unshard_handle
  fwd : BOOLEAN,               \* _forward_prefetched
  bwd : BOOLEAN,               \* _backward_prefetched
  pend : BOOLEAN,              \* _pending_backward_context.pending_backward
  seen : SUBSET Params,        \* _post_backward_seen_param_ids
  depth : Nat,                 \* _no_sync_depth
  defer : BOOLEAN,             \* _defer_backward_reduce
  final : BOOLEAN,             \* _finalized_after_backward
  reduce : {"none", "fresh", "add"},  \* _post_backward_reduce_handle and
                                      \* _post_backward_reduce_should_accumulate
  reduced : Gradients,         \* what that handle will return
  ref : [Params -> Stores \cup {None}],        \* the tensor param.grad views
  store : [Stores -> Gradients \cup {None}] ]  \* their contents

InitGroup == [
  state |-> "SHARDED", inflight |-> FALSE, fwd |-> FALSE, bwd |-> FALSE,
  pend |-> FALSE, seen |-> {}, depth |-> 0, defer |-> FALSE, final |-> FALSE,
  reduce |-> "none", reduced |-> ZeroGrads, ref |-> [p \in Params |-> None],
  store |-> [t \in Stores |-> IF t = "own" THEN ZeroGrads ELSE None] ]

\* The gradient a parameter shows in param.grad.
GradOf(g, p) == IF g.ref[p] = None THEN Zero ELSE g.store[g.ref[p]][p]
ParamGrads(g) == [p \in Params |-> GradOf(g, p)]
HasGrad(g) == \E p \in Params : g.ref[p] # None

\* A parameter whose tensor is dropped by the flat buffer keeps its view.
Drop(g, t) ==
  [g EXCEPT
    !.ref = [p \in Params |-> IF g.ref[p] = t THEN "own" ELSE g.ref[p]],
    !.store = [g.store EXCEPT
      ![t] = None,
      !["own"] = [p \in Params |-> IF g.ref[p] = t THEN g.store[t][p]
                                                  ELSE g.store["own"][p]]]]

\* param.grad = None, or = view of t, for every parameter of ps; a tensor
\* autograd made is freed with its last view.
PointGrads(g, ps, t) ==
  [g EXCEPT !.ref = [p \in Params |-> IF p \in ps THEN t ELSE None],
            !.store["own"] = ZeroGrads]
FreeGrads(g) == PointGrads(g, {}, None)

-----------------------------------------------------------------------------
(* The gradient side of the flat buffer *)

\* Slip: the buffers of deferred gradients are dropped like any others.
UseLocalShardsForgettingDeferral(g, keepFull, keepBucket) ==
  LET h == IF g.store["full"] = None THEN g ELSE Drop(g, "full")
  IN  IF h.store["bucket"] = None THEN h ELSE Drop(h, "bucket")

\* use_local_shards(preserve_local_grad_shard=True)
UseLocalShards(g, keepFull, keepBucket) ==
  LET h == IF keepFull \/ g.store["full"] = None THEN g ELSE Drop(g, "full")
  IN  IF keepBucket \/ h.store["bucket"] = None THEN h ELSE Drop(h, "bucket")

UseLocalGradShard(g, u, grads) ==
  [PointGrads(g, Owned[u], "local") EXCEPT !.store["local"] = grads]

AccumulateLocalGradShard(g, u, grads) ==
  UseLocalGradShard(g, u,
    IF g.store["local"] = None THEN grads ELSE PlusGrads(g.store["local"], grads))

\* _prepare_backward_grad_storage with prepare_full_grad_buffer or
\* prepare_grad_bucket: new storage unless accumulation was deferred.
PrepareBackwardGradStorage(g) ==
  LET defer == g.defer \/ g.depth > 0
      fresh(t) == IF defer /\ g.store[t] # None THEN g.store[t] ELSE ZeroGrads
      h == [g EXCEPT !.defer = defer]
  IN  CASE GradPath = "flat" ->
             [PointGrads(h, Params, "full") EXCEPT !.store["full"] = fresh("full")]
        [] GradPath = "zero_copy" ->
             [PointGrads(h, Params, "bucket") EXCEPT !.store["bucket"] = fresh("bucket")]
        [] GradPath = "copy_in" ->
             [FreeGrads(h) EXCEPT !.store["bucket"] = IF defer THEN @ ELSE None]

\* _accumulate_copy_in_grad_bucket_if_needed
AccumulateCopyIn(g) ==
  IF GradPath # "copy_in" \/ ~g.defer \/ ~HasGrad(g)
    THEN g
    ELSE [FreeGrads(g) EXCEPT
            !.store["bucket"] =
              PlusGrads(IF g.store["bucket"] = None THEN ZeroGrads
                                                    ELSE g.store["bucket"],
                        ParamGrads(g))]

\* collect_grad_bucket and the first half of reduce_full_grads_to_local_shard:
\* the buffer if there is one, otherwise whatever the parameters show.
Collected(g, t) == IF g.store[t] # None THEN g.store[t] ELSE ParamGrads(g)
AfterCollect(g, t) == [FreeGrads(g) EXCEPT !.store[t] = None]

-----------------------------------------------------------------------------
(* Lifecycle of one group *)

Raise(s, e) == IF s.err = None THEN [s EXCEPT !.err = e] ELSE s

SetGroup(s, u, g) == [s EXCEPT !.grp[u] = g]

\* _validate_lifecycle_invariants
Validate(s, u) ==
  CASE s.grp[u].inflight /\ s.grp[u].state # "UNSHARDED" ->
         Raise(s, "gather_while_not_unsharded")
    [] s.grp[u].reduce # "none" /\ s.grp[u].state # "SHARDED" ->
         Raise(s, "reduce_while_not_resharded")
    [] OTHER -> s

\* start_unshard, with the flag prefetch_forward or prefetch_backward set.
Gathering(g) == [g EXCEPT !.inflight = TRUE, !.state = "UNSHARDED"]

StartUnshard(s, u) ==
  IF s.grp[u].state = "UNSHARDED"
    THEN s
    ELSE Validate(SetGroup(s, u, Gathering(s.grp[u])), u)

\* Slip: the gather is used without waiting for it.
WaitUnshardForgotten(s, u) == s

WaitUnshard(s, u) ==
  IF s.grp[u].state = "UNSHARDED"
    THEN Validate([s EXCEPT !.grp[u].inflight = FALSE], u)
    ELSE s

ReshardAfterForward(s, u, needsPreBackward) ==
  LET g == s.grp[u]
  IN  IF g.state # "UNSHARDED"
        THEN s
        ELSE Validate(SetGroup(s, u,
               [UseLocalShards(g, g.defer, g.defer) EXCEPT
                  !.state = IF needsPreBackward THEN "FORWARD_RESHARDED"
                                                ELSE "SHARDED"]), u)

DiscardUnconsumedPrefetch(s, u) ==
  LET r == ReshardAfterForward(WaitUnshard(s, u), u, FALSE)
  IN  [r EXCEPT !.grp[u].fwd = FALSE, !.grp[u].bwd = FALSE]

HasUnconsumedPrefetch(g) ==
  g.state = "UNSHARDED" /\ (g.fwd \/ g.bwd \/ g.inflight)

\* wait_post_backward_reduce: the result reaches the local shard, alone or
\* added to the shard of the earlier passes.
WaitPostBackwardReduce(g, u) ==
  CASE g.reduce = "none" -> g
    [] g.reduce = "fresh" ->
         [g EXCEPT !.reduce = "none", !.reduced = ZeroGrads,
                   !.store["local"] = IF @ = None THEN None ELSE g.reduced]
    [] g.reduce = "add" ->
         AccumulateLocalGradShard(
           [g EXCEPT !.reduce = "none", !.reduced = ZeroGrads], u, g.reduced)

\* What a group is once it is sharded again after a backward.
Sharded(g) ==
  [g EXCEPT !.state = "SHARDED", !.pend = FALSE, !.seen = {},
            !.fwd = FALSE, !.bwd = FALSE, !.inflight = FALSE]

\* Slip: the handle is dropped before the transition looks at it.
ReshardAfterDeferredBackwardUnchecked(s, u) ==
  IF s.grp[u].state # "UNSHARDED" THEN s
  ELSE Validate(SetGroup(s, u, Sharded(s.grp[u])), u)

\* _reshard_after_deferred_no_sync_backward: the transition is validated while
\* the unshard handle is still set, so that a gather in flight raises.
ReshardAfterDeferredBackward(s, u) ==
  LET g == s.grp[u]
  IN  IF g.state # "UNSHARDED"
        THEN s
        ELSE SetGroup(Validate(SetGroup(s, u, [g EXCEPT !.state = "SHARDED"]), u),
                      u, Sharded(g))

\* Slip: entering no_sync is not counted.
EnterNoSyncUncounted(g) == g

EnterNoSync(g) == [g EXCEPT !.depth = @ + 1]

\* Slip: leaving no_sync reshards nothing.
ExitNoSyncStayingUnsharded(s, u) ==
  LET h == [s.grp[u] EXCEPT !.depth = @ - 1]
  IN  SetGroup(s, u, IF h.depth > 0 \/ ~h.defer THEN h ELSE AccumulateCopyIn(h))

ExitNoSync(s, u) ==
  LET h == [s.grp[u] EXCEPT !.depth = @ - 1]
      copied == SetGroup(s, u, AccumulateCopyIn(h))
  IN  IF h.depth > 0 \/ ~h.defer
        THEN SetGroup(s, u, h)
        ELSE IF u \in Reshard THEN ReshardAfterDeferredBackward(copied, u) ELSE copied

\* MatrixFSDPNoSync.__exit__: every unit leaves, and each changes itself alone;
\* an error of one ends the exit and the loop, whatever the others did before.
ExitNoSyncOf(s, scope) ==
  LET left == [u \in Units |-> IF u \in scope THEN ExitNoSync(s, u) ELSE s]
  IN  IF \E u \in Units : left[u].err # s.err
        THEN Raise(s, "gather_while_not_unsharded")
        ELSE [s EXCEPT !.grp = [u \in Units |-> left[u].grp[u]]]

-----------------------------------------------------------------------------
(* Scheduler: budgets and queues *)

Smaller(a, b) == IF a < b THEN a ELSE b

\* _active_full_param_buffer_stats, with a pool that caches nothing
ActiveBuffers(s) == Cardinality({u \in Units : s.grp[u].state = "UNSHARDED"})

\* _prefetch_forward_window: from `start' on, the SHARDED units in order, for
\* as long as the lookahead budget and the memory cap have room.
LiveForwardPrefetches(s) == {v \in s.fwdIds : s.grp[v].fwd}

\* Slip: one unit too many is gathered ahead.
ForwardRoomOffByOne(s) ==
  Smaller(MaxForwardPrefetch + 1 - Cardinality(LiveForwardPrefetches(s)),
          MaxActive - ActiveBuffers(s))
\* Slip: the memory cap is not looked at.
ForwardRoomWithoutCap(s) ==
  MaxForwardPrefetch - Cardinality(LiveForwardPrefetches(s))

ForwardRoom(s) ==
  Smaller(MaxForwardPrefetch - Cardinality(LiveForwardPrefetches(s)),
          MaxActive - ActiveBuffers(s))

PrefetchForwardWindow(s, start) ==
  LET candidates == {v \in start .. UnitCount : s.grp[v].state = "SHARDED"}
      chosen == {v \in candidates :
                   Cardinality({w \in candidates : w < v}) < ForwardRoom(s)}
      issued == [s EXCEPT
        !.fwdIds = LiveForwardPrefetches(s) \cup chosen,
        !.grp = [v \in Units |-> IF v \in chosen
                                   THEN [Gathering(s.grp[v]) EXCEPT !.fwd = TRUE]
                                   ELSE s.grp[v]]]
  IN  CASE MaxForwardPrefetch = 0 -> s
        [] MaxForwardPrefetch > 0 /\ (\E v \in chosen : s.grp[v].reduce # "none") ->
             Raise(issued, "reduce_while_not_resharded")
        [] OTHER -> issued

\* on_pre_forward: not for a unit already recorded in this iteration
OnPreForward(s, u) ==
  LET consumed == [s EXCEPT !.grp[u].fwd = FALSE, !.fwdIds = @ \ {u}]
  IN  CASE ~Prefetch \/ (\E i \in 1 .. Len(s.order) : s.order[i] = u) -> s
        [] u = UnitCount -> consumed
        [] OTHER -> PrefetchForwardWindow(consumed, u + 1)

RecordPostForward(s, u) ==
  LET recorded == [s EXCEPT !.order = Append(@, u),
                            !.idx[u] = Append(@, Len(s.order) + 1)]
  IN  IF Prefetch /\ u < UnitCount THEN PrefetchForwardWindow(recorded, u + 1)
                                   ELSE recorded

\* _issue_backward_prefetch
IssueBackwardPrefetch(s, v) ==
  IF s.grp[v].state # "FORWARD_RESHARDED"
    THEN s
    ELSE StartUnshard([s EXCEPT !.grp[v].bwd = TRUE, !.bwdIds = @ \cup {v}], v)

\* The unit whose forward came before u's latest unconsumed one; for a unit
\* with none, or whose forward was the first, the unit before it in index.
HasPostForwardEntry(s, u) ==
  s.idx[u] # <<>> /\ s.idx[u][Len(s.idx[u])] > 1

BackwardPrefetchTarget(s, u) ==
  CASE HasPostForwardEntry(s, u) -> s.order[s.idx[u][Len(s.idx[u])] - 1]
    [] ~HasPostForwardEntry(s, u) /\ u > 1 -> u - 1
    [] OTHER -> None

\* _prefetch_previous_backward_unit
PrefetchPreviousBackwardUnit(s, u) ==
  LET target == BackwardPrefetchTarget(s, u)
      live == IF MaxBackwardPrefetch = 0 THEN s.bwdIds
              ELSE {v \in s.bwdIds : s.grp[v].bwd}
      consumed == [s EXCEPT
        !.idx[u] = IF HasPostForwardEntry(s, u) THEN SubSeq(@, 1, Len(@) - 1) ELSE @,
        !.bwdIds = live]
  IN  CASE ~Prefetch \/ target = None -> s
        [] Prefetch /\ target # None /\ Cardinality(live) >= MaxBackwardPrefetch ->
             consumed
        [] OTHER ->
             IF Timing = "pre_backward" /\ ActiveBuffers(s) + 1 > MaxActive
               THEN [consumed EXCEPT !.deferred = target]
               ELSE IssueBackwardPrefetch(consumed, target)

OnPreBackward(s, u) ==
  IF Timing # "pre_backward"
    THEN s
    ELSE PrefetchPreviousBackwardUnit(
           [s EXCEPT !.grp[u].bwd = FALSE, !.bwdIds = @ \ {u}], u)

OnPostBackwardReshard(s, u) ==
  CASE s.deferred # None ->
         IssueBackwardPrefetch([s EXCEPT !.deferred = None], s.deferred)
    [] s.deferred = None /\ Timing = "post_reshard" ->
         PrefetchPreviousBackwardUnit(s, u)
    [] OTHER -> s

\* _prune_completed_backward_reduces
Prune(s) ==
  LET live == {v \in Units : s.queue[v] > 0 /\ s.grp[v].reduce # "none"}
  IN  [s EXCEPT !.queue =
        [v \in Units |-> IF v \in live
                           THEN Cardinality({w \in live : s.queue[w] <= s.queue[v]})
                           ELSE 0]]

Queued(s) == Cardinality({v \in Units : s.queue[v] > 0})

\* Wait for the n reduces that were started first.
WaitOldest(s, n) ==
  [s EXCEPT
    !.grp = [v \in Units |-> IF s.queue[v] \in 1 .. n
                               THEN WaitPostBackwardReduce(s.grp[v], v)
                               ELSE s.grp[v]],
    !.queue = [v \in Units |-> IF s.queue[v] > n THEN s.queue[v] - n ELSE 0]]

WaitAllPending(s) == WaitOldest(Prune(s), UnitCount)

\* Slip: no reduce is waited for before another starts.
BeforeBackwardReduceUnbounded(s) == Prune(s)

BeforeBackwardReduce(s) ==
  LET pruned == Prune(s)
  IN  CASE MaxPendingReduces = 0 -> WaitAllPending(s)
        [] Queued(pruned) < MaxPendingReduces -> pruned
        [] OTHER -> WaitOldest(pruned, Queued(pruned) - MaxPendingReduces + 1)

\* Slip: the reduce of the first unit is left in flight too.
AfterBackwardReduceStartedLeavingLast(s, u) ==
  LET pruned == Prune(s)
  IN  IF s.grp[u].reduce = "none" THEN s
      ELSE [pruned EXCEPT !.queue[u] = IF @ = 0 THEN Queued(pruned) + 1 ELSE @]

\* Slip: the reduce is not queued.
AfterBackwardReduceStartedUnqueued(s, u) == Prune(s)

AfterBackwardReduceStarted(s, u) ==
  LET pruned == Prune(s)
      queued == [pruned EXCEPT !.queue[u] = IF @ = 0 THEN Queued(pruned) + 1 ELSE @]
  IN  CASE s.grp[u].reduce = "none" -> s
        [] s.grp[u].reduce # "none" /\ (MaxPendingReduces = 0 \/ u = 1) ->
             WaitAllPending(queued)
        [] OTHER -> queued

FinishBackwardIteration(s) ==
  [s EXCEPT !.order = <<>>, !.idx = [v \in Units |-> <<>>],
            !.fwdIds = {}, !.bwdIds = {}]

-----------------------------------------------------------------------------
(* Finalizing the backward of a group *)

\* _finish_backward_common, with the same order of validation and reset.
FinishBackwardCommon(s, u) ==
  LET g == s.grp[u]
  IN  SetGroup(Validate(SetGroup(s, u, [g EXCEPT !.state = "SHARDED"]), u), u,
        [Sharded(g) EXCEPT !.defer = FALSE, !.final = IF Finalize THEN TRUE ELSE @])

\* _finish_backward_with_grad_bucket: reshard, start the reduce, leave it in
\* flight when the post-accumulate hooks are on, otherwise wait for it.
FinishBackwardWithGradBucket(s, u) ==
  LET g == s.grp[u]
      accumulate == g.store["local"] # None
      resharded == Validate(SetGroup(s, u,
        [UseLocalShards(AfterCollect(g, "bucket"), FALSE, FALSE) EXCEPT
           !.state = "SHARDED"]), u)
      ready == BeforeBackwardReduce(resharded)
      handle == [ready.grp[u] EXCEPT !.reduce = IF accumulate THEN "add" ELSE "fresh",
                                     !.reduced = Collected(g, "bucket")]
      started == SetGroup(ready, u,
        IF accumulate THEN handle ELSE UseLocalGradShard(handle, u, ZeroGrads))
  IN  FinishBackwardCommon(
        IF Finalize
          THEN OnPostBackwardReshard(AfterBackwardReduceStarted(started, u), u)
          ELSE SetGroup(started, u, WaitPostBackwardReduce(started.grp[u], u)),
        u)

\* The flat path reduces synchronously and never calls the scheduler.
FinishBackwardWithFullGrads(s, u) ==
  LET g == s.grp[u]
  IN  FinishBackwardCommon(SetGroup(s, u,
        AccumulateLocalGradShard(AfterCollect(g, "full"), u, Collected(g, "full"))), u)

FinishBackward(s, u) ==
  IF GradPath = "flat" THEN FinishBackwardWithFullGrads(s, u)
                       ELSE FinishBackwardWithGradBucket(s, u)

FinalizeBackward(s, u) ==
  LET g == s.grp[u]
      c == SetGroup(s, u, AccumulateCopyIn(g))
  IN  CASE g.reduce # "none" -> SetGroup(s, u, WaitPostBackwardReduce(g, u))
        [] g.reduce = "none" /\ g.depth > 0 -> Raise(s, "finalize_inside_no_sync")
        [] OTHER ->
             IF g.state = "UNSHARDED" \/ (g.defer /\ g.state = "SHARDED")
               THEN FinishBackward(c, u)
               ELSE Raise(c, IF g.state = "SHARDED"
                               THEN "finalize_expects_unsharded"
                               ELSE "finalize_while_forward_resharded")

-----------------------------------------------------------------------------
(* The hooks torch calls *)

\* _pre_forward, outside a backward (no checkpoint recomputation)
PreForward(s, u, gradEnabled) ==
  LET g == s.grp[u]
      reset == SetGroup(s, u,
        [g EXCEPT !.seen = {}, !.final = FALSE, !.fwd = FALSE, !.bwd = FALSE])
      entered == OnPreForward(WaitUnshard(StartUnshard(reset, u), u), u)
  IN  CASE g.pend -> Raise(s, "forward_before_backward")
        [] ~g.pend /\ u \in Reshard
             /\ (g.state = "FORWARD_RESHARDED" \/ (g.state = "UNSHARDED" /\ ~g.fwd)) ->
             Raise(s, "forward_before_finalize")
        [] OTHER ->
             IF gradEnabled /\ u \notin Reshard
               THEN SetGroup(entered, u, PrepareBackwardGradStorage(entered.grp[u]))
               ELSE entered

\* _post_forward: registered only on units that reshard
PostForward(s, u, gradEnabled) ==
  LET resharded == ReshardAfterForward([s EXCEPT !.grp[u].pend = gradEnabled], u, gradEnabled)
  IN  CASE u \notin Reshard -> s
        [] u \in Reshard /\ gradEnabled -> RecordPostForward(resharded, u)
        [] OTHER -> resharded

\* _pre_backward_unshard, the hook on the unit's outputs
PreBackwardUnshard(s, u) ==
  LET gathered == WaitUnshard(StartUnshard([s EXCEPT !.grp[u].pend = FALSE], u), u)
      scheduled == OnPreBackward([gathered EXCEPT !.grp[u].bwd = FALSE], u)
  IN  SetGroup(scheduled, u, PrepareBackwardGradStorage(scheduled.grp[u]))

\* AccumulateGrad of autograd: into param.grad, or as a new param.grad.
AutogradAccumulate(g, p, m) ==
  IF g.ref[p] = None
    THEN [g EXCEPT !.ref[p] = "own", !.store["own"][p] = OnePass(m)]
    ELSE [g EXCEPT !.store[g.ref[p]][p] = Plus(@, OnePass(m))]

\* Slip: the gradient hook is not registered.
PostAccumulateGradUnregistered(s, u, p) == s

\* _post_accumulate_grad: acts when the last parameter of the unit is seen
PostAccumulateGrad(s, u, p) ==
  LET g == [s.grp[u] EXCEPT !.seen = @ \cup {p}]
      deferred == AccumulateCopyIn([g EXCEPT !.defer = TRUE])
      copied == AccumulateCopyIn(g)
  IN  CASE ~Finalize -> s
        [] Finalize /\ g.seen # Params -> SetGroup(s, u, g)
        [] Finalize /\ g.seen = Params /\ g.depth > 0 ->
             IF u \in Reshard THEN ReshardAfterDeferredBackward(SetGroup(s, u, deferred), u)
                              ELSE SetGroup(s, u, deferred)
        [] OTHER -> IF g.state = "UNSHARDED" THEN FinalizeBackward(SetGroup(s, u, copied), u)
                                             ELSE SetGroup(s, u, copied)

AccumulateGrad(s, u, p, m) ==
  PostAccumulateGrad(SetGroup(s, u, AutogradAccumulate(s.grp[u], p, m)), u, p)

-----------------------------------------------------------------------------
(* The optimizer wrapper *)

\* Slip: a prefetch nothing consumed is left alone.
PrepareStepUnitKeepingPrefetch(s, u) ==
  LET g == s.grp[u]
  IN  IF g.reduce # "none" \/ (HasGrad(g) /\ ~(Finalize /\ g.final))
        THEN FinalizeBackward(s, u) ELSE s

\* One unit of the loop of _prepare_matrix_optimizer_step
PrepareStepUnit(s, u) ==
  LET g == s.grp[u]
  IN  CASE g.reduce # "none" -> FinalizeBackward(s, u)
        [] g.reduce = "none" /\ Finalize /\ g.final -> s
        [] OTHER ->
             IF HasGrad(g) THEN FinalizeBackward(s, u)
             ELSE IF g.state = "SHARDED" THEN s
             ELSE IF HasUnconsumedPrefetch(g) THEN DiscardUnconsumedPrefetch(s, u)
             ELSE FinalizeBackward(s, u)

\* assert_optimizer_ready on every unit
OptimizerReadyError(s) ==
  CASE \E u \in Units : s.grp[u].inflight -> "step_with_gather_in_flight"
    [] \E u \in Units : s.grp[u].reduce # "none" -> "step_with_reduce_in_flight"
    [] \E u \in Units : s.grp[u].state # "SHARDED" -> "step_expects_sharded"
    [] OTHER -> None

FinishStepPreparation(s) ==
  IF OptimizerReadyError(s) # None THEN Raise(s, OptimizerReadyError(s))
                                   ELSE FinishBackwardIteration(s)

\* zero_grad of the wrapped optimizer: through the views, or by dropping them
ZeroParamGrads(g, setToNone) ==
  IF setToNone
    THEN FreeGrads(g)
    ELSE [g EXCEPT !.store = [t \in Stores |->
           IF g.store[t] = None THEN None
           ELSE [p \in Params |-> IF g.ref[p] = t THEN Zero ELSE g.store[t][p]]]]

\* reset_grad_accumulation and clear_local_grad_shard
ResetGradAccumulation(g) ==
  LET reset == [g EXCEPT !.defer = FALSE, !.seen = {}]
      local == IF reset.store["local"] = None THEN reset ELSE Drop(reset, "local")
  IN  IF local.store["bucket"] = None THEN local ELSE Drop(local, "bucket")

ZeroGrad(s, setToNone) ==
  LET waited == WaitAllPending(s)
  IN  FinishBackwardIteration([waited EXCEPT !.grp =
        [u \in Units |->
           ResetGradAccumulation(
             ZeroParamGrads(WaitPostBackwardReduce(waited.grp[u], u), setToNone))]])

-----------------------------------------------------------------------------
InitRuntime == [
  grp |-> [u \in Units |-> InitGroup], order |-> <<>>,
  idx |-> [u \in Units |-> <<>>], fwdIds |-> {}, bwdIds |-> {},
  queue |-> [u \in Units |-> 0], deferred |-> None, err |-> None ]
=============================================================================
