# Verification of the matrix-fsdp runtime

matrix-fsdp shards the parameters of a PyTorch model over ranks. A wrapped module
("unit", `MatrixFSDPParamGroup`) keeps only its local shard between uses; its hooks
gather the full parameters before its forward and its backward, give them up
afterwards, and reduce the gradients into the local shard. A scheduler gathers
units ahead of their use and bounds how many gathers and reduces are outstanding;
an optimizer wrapper finalizes what is left when the optimizer steps.

The correctness of this machinery is about sequences: hooks of several units,
collectives in flight, `no_sync` contexts and optimizer calls interleave, and each
handler trusts flags that others left. That is what these modules model. Paths are
relative to `src/matrix_fsdp/` unless they start with `src/`.

## Inventory

| part | state | operations | correct when |
|---|---|---|---|
| buffer pool, `runtime/buffer_pool.py` | free lists and pending releases per key | `acquire`, `release`, `can_cache`, `clear`, `stats`; each starts with a drain | one owner per buffer; none handed out with GPU work outstanding; the limit is kept and no accepted release is lost |
| full buffers, `runtime/flat_buffer.py` | `full_buffer`, its storage, the views of parameters | gather, use, shrink, release | a unit computes with its own parameters, its saved views included |
| gradients, `runtime/flat_buffer.py` | `full_grad_buffer`, `grad_bucket_input`, local grad shard, `param.grad` | prepare, collect, reduce, accumulate, clear | each contribution of each pass is counted once |
| unit lifecycle, `runtime/fsdp_unit.py`, `runtime/hooks.py` | `lifecycle_state`, unshard handle, reduce handle, no_sync depth, deferral, prefetch and finalized flags | pre/post forward, pre-backward, post-accumulate, enter/exit no_sync, finalize, discard | a gather is in flight only while UNSHARDED, a reduce only while SHARDED; no legal use raises |
| scheduler, `runtime/scheduler.py` | post-forward order, prefetch sets, pending reduces, deferred prefetch; cursors of the owner-ordered queues | `on_pre_forward`, `record_post_forward`, `on_pre_backward`, `before_backward_reduce`, ... | budgets, memory cap and the reduce limit hold; everything in flight ends; ranks that decide alone enter the same collectives in the same order |
| optimizer wrapper, `optim/wrapper.py` | the wrapped optimizer | `step`, `zero_grad`, `no_sync` | the step sees the whole gradient of all passes since `zero_grad` |
| workspace cache, `runtime/workspace_cache.py` | leased and idle workspaces | acquire, release, trim, limits | a lease is exclusive and found again |
| collectives, `runtime/collectives.py`, `runtime/grad_bucket.py`, `kernels/` | handles, workspaces | twelve ways to gather and to reduce, with their fallbacks | all ranks issue the same operations; gathered parameters are whole; every gradient is summed once |
| layout and planning, `core/`, `planning/` | none but the loads a planner of several groups remembers | plans from parameters to segments, policies, rotations, validation | every element of every parameter is in exactly one segment; owners are balanced; matrices the optimizer needs whole are whole |
| checkpoint, `checkpoint/` | files | save, load, load into another layout | every element is loaded once, from where it was saved |
| optimizer state, `optim/state.py`, `optim/adamw_state.py` | flat AdamW state | initialize, gather | out of reach: floating point |
| API, summaries, tools, scripts | none | construction, reports | not modelled |

How they interact: torch calls a unit's hooks; a unit calls its scheduler, which calls
`prefetch_forward`, `prefetch_backward` and `wait_post_backward_reduce` of other units;
units call their flat buffers, which call the pool; the optimizer wrapper calls the
scheduler and every unit. All of it runs on one Python thread per rank (the autograd
thread takes over during a backward), so that handlers do not overlap; what overlaps
are the collectives and kernels they leave in flight, and what varies is the order in
which torch and the caller call them. On several ranks each runs its own program, and the
process group runs a collective when all have issued it. What is persisted are
checkpoints, which a new job, with other ranks or another layout, may load. The hazards,
each with its line and its properties, are in `PROJECT.json`.

## Modules

* `FullParamBufferPool`: the pool. A drain moves completed releases to the free lists
  and may drop what does not fit; every operation contains one, as in the code. `Use`
  and `EventCompletes` are the GPU. `MCFullParamBufferPool` gives it two keys;
  `FullParamStorageProofs` proves it safe for all sizes.
* `FullParamStorage` (extends the pool): which storage holds whose parameters during
  one forward and backward of a chain of units, with or without a root around them, and
  which storage the views saved for backward refer to. `Gather`, `Shrink` and
  `ReleaseFull` are `start_all_gather_full_params`, `clear_full_params` and
  `_release_full_buffer_if_inactive`. Whether a unit reshards after its forward and
  whether it has saved-tensor hooks are options of the unit. `Pack` is
  `_pack_saved_tensor` of the innermost hooks entered, the unit's own or the root's: a
  view of the buffer of the unit whose hooks they are becomes a handle, any other stays
  a view of its storage. `SavedStorage` is `_unpack_saved_tensor`: a handle is a view of
  the buffer that unit has by then. `FullParamStorageProofs` has its theorems.
* `ParamGroupRuntime`: the handlers of `fsdp_unit.py`, `scheduler.py` and `wrapper.py`
  as operators from one runtime state to the next. They call each other deeply
  (a post-accumulate hook finalizes, which waits for reduces of other units and
  prefetches another), so that a handler is one operator composed of the operators of
  what it calls, and an action is one handler run to its end. A raised `RuntimeError`
  is the field `err`.
* `TrainingLoop` (extends the runtime): the actions. Torch and the caller run the
  handlers: forwards in a module order, backward in autograd's order with the
  gradients of a unit accumulated in any order, `no_sync` entered and left around or
  inside passes, `step` unit by unit, `zero_grad`. Constants say how freely the
  caller behaves, so that each run names the use under which it holds.
  `ParamGroupLifecycleProofs`, `TrainingLoopProofs` and `GradientAccumulationProofs`
  have its theorems.
* `GradientAccumulation`: the promise to the training loop, in three actions:
  contributions are counted once, a step sees exactly what was contributed, and
  `zero_grad` starts over. `TrainingLoop!AccumulatesGradients` states that the loop
  implements it: the accumulated gradient of a slot is mapped to the sum of
  what is in a parameter's own gradient, the full buffer, the bucket, the reduce in
  flight and the local shard.
* `CollectiveOrder`: the promise of ranks to each other: on every communicator they
  enter the same operations in the same order (`OrderSafety`), and an operation that
  one has entered runs (`Completion`).
* `OwnerOrderedPrefetch`: the queues of `scheduler.py` that gather owner segments ahead
  of their use, on several ranks. A hook is split where the rank may block and where
  it reads the progress of its GPU, so that ranks interleave between every decision
  and the collective it leads to. `ImplementsCollectiveOrder` and `EnteredCollectivesRun` state
  that the queues implement the two parts of `CollectiveOrder`: what has been agreed on
  is what the rank furthest ahead has entered. `OwnerPrefetchProofs`
  and `OwnerOrderProofs` have its theorems.
* `ShardLayout`, `ShardPlanner`, `AutoPlanner`: pure operators from the parameters of a
  group and a number of ranks to a layout: segments, hints, reorder and validator;
  the planners of `planner.py`; the candidates, costs and policies of
  `auto_planner.py` with the planners that remember the load of earlier groups. An
  operation that may raise returns the set of its result, empty when it raises.
  `ShardLayoutProofs` proves what its operators return.
* `Containers`: the selections and joins of sequences that the modules of a group share.
* `CommWorkspace`: the workspace cache, as operators on one cache.
* `ShardExchange` (extends the planner and the cache): each rank runs a program of
  gathers and reduces over the planned group. `GatherKinds`, `BucketOps`,
  `CustomReduces` and the others are what a strategy issues; `StartGather`,
  `FinishGather`, `StartReduce`, `FinishReduce` are the host, `Deliver` the process
  group. A value is the set of contributions added up in it, so that an element that is
  misplaced, summed twice or left from an earlier use is a different value.
* `ShardCheckpoint` (extends the exchange): the job that trains, saves, crashes, starts
  again with another number of ranks or another planner, and loads.
  `ShardedGroupProofs` has the theorems of the exchanges, workspaces and checkpoints.
* `MCTrainingLoop`, `MCFullParamStorage`, `MCFullParamBufferPool`,
  `MCOwnerOrderedPrefetch`, `MCShardedGroup`: instances.

Abstractions. A gradient is, per parameter, how often each backward pass contributed:
enough to tell lost, doubled and stale contributions apart, whatever the dtype and the
division by the world size. The loop models
one rank: a reduce returns what this rank put in; what several ranks make of it is
the business of `ShardExchange`. Full parameters are "materialised while UNSHARDED" in
the loop; what their storage holds is the business of `FullParamStorage`. Memory caps
count buffers of equal size. Waits block the host, as they do with gloo and with
`wait()` before a use; with CUDA streams the host runs further ahead of the collectives
it has entered, in the same order.

## Runs

| run | configuration | what it shows |
|---|---|---|
| pool | 3 buffers of one key, 1 of another, limit 2 | ownership, quiescence, capacity; no accepted release is lost to a later drain |
| storage_hooks | a root and 3 units in it, 5 buffers, pool of 2; all but the third reshard and have saved-tensor hooks | saved views are rebound to their own unit's present buffer, or stay on a storage the unit keeps |
| storage_pooled | 3 units in a chain, all reshard, none has hooks | **violated**: views stay on a storage another unit gets |
| loop_default | copy-in buckets, all units but the last reshard, prefetch of 1 unit, 2 full buffers, 1 pending reduce, nested no_sync, 3 passes | gathered parameters, budgets, memory cap, reduces, gradients |
| loop_root | zero-copy, root unit, all reshard, prefetch after the reshard, 2 pending reduces, 4 passes; inside no_sync units are left out, the first keeps a parameter without a gradient | gathers end by being waited for, or leaving `no_sync` raises, and nothing else does; gathered parameters, reduces and gradients for nested units and storage prepared in the forward |
| loop_explicit | flat, `finalize_after_backward=False`, a unit sometimes left out of a pass | reduces at step; all communication ends |
| loop_pending_reduce | root unit, two synchronous passes | **violated**: a gather over a pending reduce |
| loop_unused_prefetch | a finalized unit is left out of the next forward | **violated**: its prefetch fails the step |
| owner_prefetch | 2 ranks, 3 units, 60 policies: both timings, overlap allowed, skipped or waited for, communicators shared or apart, limits from none pending to no limit at all, 1 or 2 passes | no overlap of prefetch and reduce; the ranks enter the same collectives in the same order, and those run; each keeps stepping |
| owner_prefetch_capped | a cap of 2 full buffers, a pool that keeps 1 | **violated**: one rank enters a reduce where the other enters a gather |
| sharded_group | 1 to 3 ranks, 10 models of one or two groups, 23 planners, 12 configurations of the exchanges, 3 programs, changes of the workspace limit, crash and load with every other number of ranks and planner | layouts, balance, exchanges, workspaces and checkpoints |
| checkpoint_reshard | chunk planner, 1 and 2 ranks | **violated**: a resharded load permutes the parameters |

Bounds. Three units are the smallest number with a first, a middle and a last one,
where a window of prefetches can meet a budget, a cap and a unit between two others;
two buffers make the cap bind, one pending reduce makes every second reduce wait. Two
parameters make "all of a unit's gradients" differ from "one"; the first unit owns both
here, the second one of them, the third none, the three cases of a rank's slots. Three
passes allow deferred, deferred, reduced; no counter but `micro` grows, and it is reset
by `zero_grad`, so that iterations repeat without bound: state left by an earlier
iteration is in the model. Deadlock checking is off in the loop runs: an error of the
runtime ends the behaviour. `RunsWithoutError` says that there is none in loop_default
and loop_explicit, `OnlyLeavingNoSyncRaises` which one there is in loop_root (item 16
below). It is off in owner_prefetch_capped, where the ranks do come to stop.

Two ranks suffice for a disagreement about order; two passes make the recorded order
longer than the units, and steps repeat without bound. In `MCShardedGroup` a group has
at most ten elements: shards that are empty, of unequal length, split inside a row, and
out of rank order all occur on three ranks, and two groups are enough for a planner to
remember one. A program gathers once and reduces twice, the second time with fewer
gradients in a workspace the first has used. `MaxVersion` is 1: one optimizer step
tells what was saved from what a fresh group holds. Training stops at the first save,
because a checkpoint does not depend on the exchanges before it but through the
shards. Operators commented `Slip` are the defects each property was tried against.

Fairness. `FairSpec` of the loop (loop_root, loop_explicit): inside a pass or a step
the next handler is called (torch and the wrapper return); a caller that can train,
leave a `no_sync` context, or step again and again does so. How contexts are entered
and which units a pass leaves out is free. `CommunicationEnds` is checked where the
caller makes no evaluation passes: a caller that evaluates for ever need not step, and
only `step` discards a gather nothing consumed. `OwnerOrderedPrefetch`: a rank that is
not waiting goes on, a collective that every rank has entered runs, and the GPU finishes
what it was given. A rank's whole program is one weakly fair action, because it is
sequential. No fairness is assumed about which rank is faster.

## What the runs say about use

The properties hold for the uses the passing runs allow. The following do not work in
the code; the ones marked with a run are findings with a counterexample, the others
were met while choosing the constants.

1. `step` after a pass inside `no_sync` on the copy-in path drops its gradients
   (`wrapper.py:969-971`); `StepAfterDeferred = FALSE` in the runs.
2. A buffer pool with `reshard_after_forward` and without saved-tensor hooks lets a
   backward read another unit's parameters (storage_pooled).
3. A unit finalized earlier and left out of a forward fails the step with a gather in
   flight (`wrapper.py:967`; loop_unused_prefetch).
4. A root unit's reduce is pending at the next forward without a step in between
   (`scheduler.py:565`, `fsdp_unit.py:352`; loop_pending_reduce).
5. An evaluation forward between the last backward and `step` is met by "finalize
   expects parameters to be unsharded" when a unit has gradients and is sharded
   (`fsdp_unit.py:504`); `CanEvaluate` excludes it after a synchronous pass.
6. On the flat path `zero_grad` after a deferred pass leaves `full_grad_buffer`
   (`flat_buffer.py:970`); `Abandon = FALSE` in loop_explicit.
7. A unit that runs forward but has no part in the loss keeps its pending-backward mark,
   and the next forward raises (`fsdp_unit.py:1043`).
8. `_deferred_backward_prefetch_unit` survives a pass that reduces nothing and
   `finish_backward_iteration` (`scheduler.py:569-576`), and the ids of
   forward-prefetched units do not: budgets are exceeded after a unit was left out.
9. With `finalize_after_backward=False`, `no_sync` entered between a forward and its
   backward, or kept over two passes, loses the deferred gradients of units that do not
   reshard; `ContextUse = "one_pass"`.
10. `zero_grad` calls `set_to_none=False` leave a zero gradient on a unit that the next
    iteration leaves out, and `step` tries to finalize it.
11. A gather for a unit that never runs stays in flight while passes are abandoned with
    `zero_grad`: only `step` discards it.
12. A memory cap together with a pool that keeps buffers makes owner-ordered prefetch
    depend on each rank's GPU (`scheduler.py:671`, `846`; owner_prefetch_capped). The
    passing run has caps without a kept buffer and kept buffers without a binding cap.
13. A resharded load reads the saved shards as if they followed each other in the flat
    buffer (`state_dict.py:928`; checkpoint_reshard). `LoadedStateIsTheSaved` holds for
    the layouts that are so (`RankChunks`), and for every same-layout load.
14. The forward cursor of the ordered queue stays behind after one prefetch missed for
    want of budget (`scheduler.py:335`), until the step ends: slower, not wrong.
15. A rank on which no parameter of a unit got a gradient skips the reduce the others
    enter (`flat_buffer.py:644`), and per_param strategies reduce in the order autograd
    happens to take (`fsdp_unit.py:1441`): programs must be the same on every rank. The
    runs have ranks that use different parameters, but none that uses none alone.
16. A unit with deferred gradients that is left out of a later pass inside `no_sync`, but
    gathered ahead in it, makes leaving `no_sync` raise "a pending all-gather handle can
    only exist while parameters are unsharded": `_reshard_after_deferred_no_sync_backward`
    changes the state (`fsdp_unit.py:762`) before it drops the handle (771). The full
    parameters are released by then. loop_root reaches this case, and
    `OnlyLeavingNoSyncRaises` says that no other handler raises there;
    `_finish_backward_common` validates in the same order (`fsdp_unit.py:707`, 720).
17. `per_param` strategies scatter the gradient of a parameter in rank order
    (`flat_buffer.py:522-552`) whatever the order of its segments. The run sharded_group
    has these strategies on every layout it builds: no planner modelled gives a later
    rank an earlier part of a parameter. A layout that did would get shards of the right
    length with the wrong elements.

## Proofs

Every theorem is about the specification a run checks, and holds for every value of its
constants that satisfies the named assumptions (which TLC evaluates in the runs).

`FullParamStorageProofs`, the pool (`PoolSafe`, `PoolTyped`, `PoolOwnership`,
`PoolCapacity`, `PoolIdleQuiescent`, `PoolHandsOutQuiescent`,
`PoolKeepsAcceptedReleases`), for every finite set of buffers, keys and every limit.
`PoolInv` (types, ownership, quiescence, capacity) is inductive: capacity needs ownership, because the two lists of a key are counted
separately and only disjoint ones add up, and quiescence needs the drain to take
completed releases only. One lemma per operation; operations other than `Release` only
shrink what the pool keeps (`QuietStep`), and `Release` is the count of one more buffer
under the room it found. That no drain loses a release follows from the capacity: the
completed releases of a key fit beside its idle buffers, so a drain keeps all of them
(`DrainKeepsCompleted`). Then the units (`StorageTyped`, `UnitsKeepTheirParameters`,
`SavedViewsSafe`): what a unit computes with. The runs check "a gathered unit has its
own parameters"; that is not inductive, because a gather writes a buffer without looking
at the other units. It is with `Owns` (full buffers are held, no two units have one)
beside it: a gather takes a buffer nobody held, a shrink gives up one nobody else has.
The saved views need `SavedViewsKept` besides: the view of a unit whose forward is
behind is a handle of the unit's own hooks, or one of the buffer the unit still has,
because it does not reshard or because without a pool a shrunk tensor stays with its
unit. That the hooks of a root pack no view of another unit is ownership again
(`PackedByOwnHooks`). `SavedViewsSafe` assumes that every unit that reshards has
saved-tensor hooks, or that there is no pool; the run storage_pooled is the
counterexample in the remaining configuration.

`ParamGroupLifecycleProofs` (`LifecycleAlwaysConsistent`): the lifecycle of the groups,
for any number of units, any options and every use the constants of `TrainingLoop`
allow, the ones that raise included. The code asserts it at its transitions; that it
holds between any two events is what the theorems below start from. A handler calls
handlers of other groups while its own group is half changed, so the lemmas are about runtime states rather than steps:
`RuntimeOK` (every group consistent, or an error raised) is what each handler keeps, and
`RuntimeOKBut(s, u)` what holds between a change of u and the next validation. A wait
keeps the state of every group and only ends reduces (`EndsReduces`), which is why the
group a bucket reduce starts on is still resharded after the scheduler made room for it.
The inductive invariant `LifecycleInv` adds that pending hooks and the step's cursor
name units. The proof needs only the fields the lifecycle consists of, not the types of
the gradients, nor a bound on anything.

`OwnerPrefetchProofs` (`OwnerPrefetchesNeverOverlap`): no prefetch overlaps a reduce, for
any number of ranks and units and any policy that does not allow it. The property is
about a rank's queue of entered collectives and its scheduler's sets of prefetched
units, which agree only by way of what the units are doing and which reduces are
pending. `PrefetchInv` says so: a queued reduce is in the pending list, a queued gather
is of a unit "inflight", a unit gathered ahead has not been used since (`PlaceOK`, by the
place its rank has come to), and the pending list is empty in the forward, because the
last reduce of a pass is waited for. A window then holds back on the pending list where
the property speaks of the queue, and a reduce waits for the units in flight. Other
ranks and the network only shorten a queue (`DeliverQueues`), so the argument is local
to a rank and needs nothing about their order.

`OwnerPrefetchTyped` in the same module extends it: the cursors stay in range,
the recorded order is bounded and the pool keeps its limit, again for any number of ranks
and units and any policy. The length of the order is not inductive; with the units the
pass has still to run forward (`ToRun`) it is at most one entry per unit and pass, and
`Moves` says of each step that it does not add to that sum.

`OwnerOrderProofs` (`OwnerRanksAgree`, `OwnerQueuesImplementOrder`): the queues implement
`CollectiveOrder`, for any number of ranks and units, if every policy is `Predictable`:
its pool keeps no buffer, or its cap is beyond what full and kept buffers reach together.
The run owner_prefetch_capped shows what happens otherwise. That ranks agree is a
statement about their histories, which no rank's state holds. The proof makes it one
about states: `HostStepIsTurn` says that what a rank does next, and what it enters, is a
function of its own state alone (`After`, `Entering`), and that what it waits for only
decides when; `CourseInv` then says that there is one finite run of that function and one
log of collectives such that every rank is at a place of the run and its queues are the
stretches of the log between what the network has delivered and what that place has
entered. A step of the rank furthest ahead makes the run longer, by what it did; a step
of another follows it. Agreement (`CourseOrders`) and the steps of the abstract
specification (`EntersEnter`, `DeliverRuns`) follow from where the ranks are.

`TrainingLoopProofs` (`ReducesAlwaysTracked`, `ParametersStayGathered`,
`GathersAlwaysWaitedFor`, `ReducedGroupsAreResharded`): properties of the loop for any
number of units and any options, all but the last for any use the constants allow. All
rest on `LifecycleInv`.

* Reduces: `ReduceBound` says that listed units have distinct places, that what is in
  flight is listed, and that it is at most `MaxPendingReduces`. It is stated of runtime
  states, because a reduce starts in the middle of a handler: the waits before it leave
  room for one more, and pruning, which gives places by counting, keeps them distinct
  (`FiniteSetTheorems`).
* Parameters: `PassInv` says which hooks are still to be called in which order
  (`PassPlaces`: a unit's post hook after its pre hook, an output hook at most once, no
  parameter to accumulate but in a backward) and that each unit that computes is gathered
  (`InUse`). What makes it inductive is that every handler of another unit, prefetch,
  eviction, wait or reduce, leaves a computing unit alone, and that a context of
  `no_sync` is left only between passes. `HooksAssumption` is what torch guarantees of a
  module's hooks: one forward calls each once, pre before post. The theorem is about
  states without an error, as is the run: a handler that raises ends the behaviour.
* Gathers: `GathersAreWaitedFor` says how a gather in flight may end. The handlers that
  clear the unshard handle of a group without a wait are
  `_reshard_after_deferred_no_sync_backward` and `_finish_backward_common`, and for each
  there is a lemma that with a gather in flight it raises, because its transition
  validates first; every other handler waits, and that leaves the group unsharded until
  it is resharded (`HandlerKeepsGathers`). The step is the exception: it waits for a
  gather nobody consumed and gives it up in one handler, of a group without gradients.
* Resharding: `ReshardInv` says that during a pass a reduced group is resharded or still
  `Awaited`: its post hook, its output hook or a gradient of its parameters is to come.
  The hook that sees the last gradient finalizes the group, and it is the last because
  what is still needed is what the group has not seen (`ReducedShards`); after it no
  handler of another unit gathers the group again (`StaysSharded`). The theorem has a
  hypothesis, `WholePasses`: a pass that follows one that reduced, before the step, runs
  every unit and its backward reaches them all. With `SyncedAccumulation` FALSE it is
  void. It cannot be dropped: a unit the later pass leaves out may be gathered ahead in
  it, has no hook of its own to reshard it, and is still gathered when the pass is over.

`GradientAccumulationProofs` (`GradientsAreAccumulated`): the loop implements
`GradientAccumulation`, for any number of units, parameters and passes, whatever each
rank owns, under `PlainUse`: the hooks reduce (`finalize_after_backward`), through a
bucket (`copy_in` or `zero_copy`), a backward that reaches a unit gives all its
parameters a gradient, and no step follows a deferred pass. The run loop_default is such
a use. Each hypothesis leaves out a use that goes wrong or that only runs cover: a step
after a deferred pass ignores its gradients on the copy-in path, the flat path keeps a
full buffer that `zero_grad` does not clear, and a unit reached in part is finalized by
the step instead of its hooks (loop_explicit and loop_root check
those). What a slot holds is a sum over four places, and the step that moves a gradient
from one to the next is mostly a handler of another unit, so the lemmas come in layers.

* A group: `GradsOK` says where gradients may be (one no reduce has taken over is shown by
  its parameter; a group whose reduce is in flight keeps nothing else; on the copy-in path
  a bucket between passes is a deferred one), and each operation of the flat buffer keeps
  it and the sum `HeldBy`. Reduced shards replace the local shard only when that was
  created, empty, by the same reduce.
* Other groups: `KeepsGrads` is all a handler may do to a group that is not its own, to
  wait for its reduce.
* The loop: `GradInv` adds to `PassInv` when a group is `Ready` for autograd
  (`Computing`: from its output hook, or from its forward if it does not reshard, to its
  last gradient), that a reduced group is `Finished` once its pass is over, that one
  neither reduced nor deferred holds nothing, and that no pass has contributed before its
  time (`UnitPasses`), which is why a contribution is counted once.

Each action has a lemma that it keeps `GradInv` and is a step of the promise or none
(`CallAccumulateGradRefines` contributes, `EndStepRefines` steps, `CallZeroGradRefines`
starts over); a handler that raises is none (`ErrorStutters`).

`ShardLayoutProofs`: what the operators of a layout return, for any number of ranks and
any segments: joins, merged and clipped segments, offsets of shards. They are folds over
sequences, and induction over data is out of the provers' reach as a theorem about an
operator; the first section has induction and recursion over the numbers for sets and
functions instead, and a fold is then the last value of a function on the places of the
sequence (`Joins`, `Reaches`).

`ShardedGroupProofs` (`RanksAgreeOnCollectives`, `ExchangesCannotDeadlock`,
`WorkspacesComeBack`, `GathersBringWholeParameters`, `LoadsRestoreWhatWasSaved`): the
exchanges and checkpoints of a group, for any number of ranks, every strategy, backend
and fallback, any programs and any limits, from `CountsAssumption`, `HowsAssumption`,
`WorksAssumption`, `LimitsAssumption` and `MaxVersionAssumption`. They have one
hypothesis, `[]GroupIsSound`: every group that is built has typed and packed segments,
each element in one of them, and parameters one after the other. That is what the
planners and the runtime make, whichever they are; `ExchangeTypeOK` has it as a conjunct,
so that TLC checks it for every planner of the run, and the theorems say what follows
for any layout that has it, of a planner of the repository or of a caller.

* Order: no rank's state says what the others have issued. `InOrder` does: there is one
  course of collectives for a program, the same whichever rank makes it and whichever
  parameters its backward used, and each rank is at a place along it, behind what the
  process group has run by no more than the exchange it is in. Agreement is that two
  places on one course have a common beginning; absence of deadlock is that the rank
  furthest behind can go on, or what it waits for has been issued by all.
* Workspaces: `WorkspacesOK` says that the one workspace in use is the leased one. Trims
  and new limits, which may come between acquire and release, drop idle ones only.
* Gathers: `GatherOK` says what a rank has after m collectives of its gather
  (`HasSofar`), for each way to gather. It is not true of a rank alone: a broadcast
  takes what the root has, so that the step needs the invariant of all ranks at the same
  place of the course, which `InOrder` gives.
* Checkpoints: `SavedOK` says that a rank's part of a checkpoint is what the layout in its
  metadata gives it at its version, `ProgramHas` that a program which is still to save has
  what the checkpoint should get. A resharded load cuts the target's segments out of the
  joined shards; for the state of the optimizer it joins the parts of each parameter
  (`PartsFrom`, `KeptOf`), which make up the parameter because the ranks' parts follow
  each other in the same order as the ranks.

Only model-checked: the promise under other uses than `PlainUse`; the scheduler's
budgets: `PrefetchWithinBudget` is true of the loop the run checks and not of every use.
The attempt to prove it fails for a reason TLC confirms on three units that all
reshard, with one prefetch and two full buffers: in a deferred pass that leaves out a
unit gathered ahead, a backward prefetch waits for memory
(`_deferred_backward_prefetch_unit`, `scheduler.py:304`); nothing reduces in that pass,
so it is still waiting when the next, synchronous pass has already prefetched a unit,
and it is issued at the first reshard without a look at the budget
(`scheduler.py:266-269`): two units are gathered ahead where one is allowed. For the
same reason `PrefetchKeepsMemoryCap` depends on the configuration: with a cap of one
buffer and a first unit that does not reshard, TLC sees the prefetch that waited be
issued at the reshard of the last unit, which makes two. Further
`TypeOK` of the loop (its `no_sync` depth and queue places need a relation to the open
contexts and a count); `RunsWithoutError` and `OnlyLeavingNoSyncRaises` (false under
other uses, see above); the
soundness of what the planners lay out (`GroupIsSound` in `ExchangeTypeOK`,
`EveryElementIsKeptOnce`, `BalancedOwnersDifferByOneRole`,
`MuonPlansKeepParametersWhole`: sorts, folds and choices over sequences);
`ReducedShardsSumTheirElements`; and whatever is liveness: `EnteredCollectivesRun`,
`EveryRankKeepsStepping` and `CommunicationEnds`.

## Not modelled

* Recomputation of activation checkpointing, and the lifecycle of the `per_param`
  strategies: their exchanges are in `ShardExchange`, the hooks are not in the loop.
* CUDA streams and events beyond the pool's; profiled prefetch budgets; validation of
  the post-forward order and of collective signatures, which are off by default and only
  turn a hang into an error; units that mix owner-ordered and static gathers.
* Replicated groups (HSDP), mixed precision, dtypes, and the division by world size.
* Full state dicts, gradients in checkpoints, flat AdamW state and the arithmetic of
  optimizers. Planner costs are exact where the code adds floats, hints carry no
  optimizer types, and an element has four bytes.
* Native kernels: what they move is modelled at the calls of `custom_collectives.py`, as
  external operations.
* Summaries, traces, reports, benchmarks and argument validation.
