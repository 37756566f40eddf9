------------------------- MODULE OwnerOrderedPrefetch -------------------------
(***************************************************************************)
(* The owner-ordered prefetch queues of MatrixFSDPScheduler on the ranks   *)
(* of a shard group (matrix_fsdp/runtime/scheduler.py with the hooks of    *)
(* fsdp_unit.py).  A gather of owner segments is a collective: every rank  *)
(* must enter it, in the same order relative to the others, and each rank  *)
(* decides from its own queues when to enter one ahead of its use.         *)
(*                                                                         *)
(* Every rank trains for ever: passes of forward and backward over units   *)
(* 1 .. UnitCount, then the optimizer's step.  A hook is split where the   *)
(* rank may wait and where the GPU's progress is read: start_unshard,      *)
(* wait_unshard, each turn of a prefetch window, the reshard, the reduce,  *)
(* what follows it.  A rank's hooks are sequential; ranks interleave.      *)
(*                                                                         *)
(* An operator marked `Slip' is a defect a change could introduce in the   *)
(* one that follows it; the specification uses none of them.               *)
(***************************************************************************)
EXTENDS Integers, Sequences, FiniteSets

CONSTANTS
  Ranks,
  UnitCount,
  Policies   \* the options the schedulers may be built with, the same on
             \* every rank: see Policy

Units == 1 .. UnitCount

\* max_forward_prefetch_units, max_backward_prefetch_units,
\* max_pending_backward_reduces and max_active_full_param_buffers_limit, where
\* None is a number that is never reached; backward_prefetch_timing; whether
\* an owner prefetch may be issued over a pending reduce or else waits for it;
\* max_cached_full_param_buffers_per_key, one key for units of one size; whether gathers and reduces have
\* communicators of their own; passes between steps.
Policy ==
  [forward : Nat, backward : Nat, pending : Nat, active : Nat,
   timing : {"pre_backward", "post_reshard"}, overlap : BOOLEAN,
   waits : BOOLEAN, cached : Nat, lanes : BOOLEAN, passes : Nat \ {0}]

ASSUME RanksAssumption == Ranks # {}
ASSUME UnitCountAssumption == UnitCount \in Nat \ {0}
ASSUME PoliciesAssumption == Policies \subseteq Policy

VARIABLES
  policy,    \* constant along a behaviour
  host,      \* per rank: where it is, and its scheduler's and units' state
  queue,     \* per rank and lane: collectives entered that have not run
  pool       \* per rank: released buffers, draining until the GPU has used them

vars == <<policy, host, queue, pool>>

Lanes == {"group", "gather", "reduce"}
Operations == ({"gather", "reduce"} \X Units) \cup {<<"barrier", 0>>}

Unset == -1  \* None of _owner_backward_prefetch_next_post_forward_index

Host ==
  [at |-> <<"pre_forward", 1>>,
   unit |-> [u \in Units |-> "sharded"],
   ahead |-> [forward |-> {}, backward |-> {}],
   order |-> <<>>,
   next |-> [forward |-> 2, backward |-> Unset],
   issued |-> FALSE,
   pending |-> <<>>,
   pass |-> 1]

Init ==
  /\ policy \in Policies
  /\ host = [r \in Ranks |-> Host]
  /\ queue = [r \in Ranks |-> [l \in Lanes |-> <<>>]]
  /\ pool = [r \in Ranks |-> [draining |-> 0, idle |-> 0]]

-----------------------------------------------------------------------------
(* Collectives *)

At(r, step, u) == host[r].at = <<step, u>>

In(x, s) == \E i \in DOMAIN s : s[i] = x

\* Native communicators have a lane for each direction; the barrier, and
\* every collective without them, uses the shard group's.
Lane(op) == IF policy.lanes /\ op[1] # "barrier" THEN op[1] ELSE "group"

Enters(r, op) == queue' = [queue EXCEPT ![r][Lane(op)] = Append(@, op)]

Queued(r, op) == In(op, queue[r][Lane(op)])
Gathered(r, u) == ~Queued(r, <<"gather", u>>)
Reduced(r, u) == ~Queued(r, <<"reduce", u>>)

\* A collective runs when it is the next one of every rank.
Deliver(l) ==
  /\ \A r \in Ranks : queue[r][l] # <<>>
  /\ \A r, s \in Ranks : Head(queue[r][l]) = Head(queue[s][l])
  /\ queue' = [r \in Ranks |-> [queue[r] EXCEPT ![l] = Tail(@)]]
  /\ UNCHANGED <<policy, host, pool>>

-----------------------------------------------------------------------------
(* Full parameter buffers *)

\* A gather takes an idle buffer from the pool, or else allocates one.
Gather(r, u) ==
  /\ Enters(r, <<"gather", u>>)
  /\ pool' = [pool EXCEPT ![r].idle = IF @ > 0 THEN @ - 1 ELSE 0]

\* start_unshard: nothing to do for a unit that is unsharded already.
Unshard(r, u, from) ==
  IF host[r].unit[u] = from THEN Gather(r, u) ELSE UNCHANGED <<queue, pool>>

InFlightFrom(state, from) == IF state = from THEN "inflight" ELSE state

\* release: what the pool has room for is pending until the GPU has used it,
\* what it drops no longer counts.
Release(r) ==
  pool' = IF pool[r].draining + pool[r].idle < policy.cached
            THEN [pool EXCEPT ![r].draining = @ + 1] ELSE pool

GpuDone(r) ==
  /\ pool[r].draining > 0
  /\ pool' = [pool EXCEPT ![r].draining = @ - 1, ![r].idle = @ + 1]
  /\ UNCHANGED <<policy, host, queue>>

\* _has_full_param_buffer_budget_for_prefetch, with units of one size.
HasRoom(r) ==
  Cardinality({u \in Units : host[r].unit[u] \in {"inflight", "full"}})
    + pool[r].draining + 1 <= policy.active

-----------------------------------------------------------------------------
(* Forward *)

PreForward(r, u) ==
  /\ At(r, "pre_forward", u)
  /\ Unshard(r, u, "sharded")
  /\ host' = [host EXCEPT ![r].at = <<"wait_forward", u>>,
                          ![r].unit[u] = InFlightFrom(@, "sharded"),
                          ![r].ahead.forward = @ \ {u},
                          ![r].ahead.backward = @ \ {u}]
  /\ UNCHANGED policy

\* on_pre_forward leaves a unit alone that this step has run forward before.
WaitForward(r, u) ==
  /\ At(r, "wait_forward", u)
  /\ Gathered(r, u)
  /\ host' = [host EXCEPT
       ![r].at = IF In(u, host[r].order) THEN <<"post_forward", u>>
                                         ELSE <<"fill_before", u>>,
       ![r].unit[u] = "full"]
  /\ UNCHANGED <<policy, queue, pool>>

PostForward(r, u) ==
  /\ At(r, "post_forward", u)
  /\ Release(r)
  /\ host' = [host EXCEPT ![r].at = <<"fill_after", u>>,
                          ![r].unit[u] = "resharded",
                          ![r].order = Append(@, u)]
  /\ UNCHANGED <<policy, queue>>

\* _prefetch_forward_owner_ordered_window: the cursor never goes back, and
\* while it is behind the unit that runs next nothing is issued.
MayPrefetchForward(r, u) ==
  LET next == host[r].next.forward
  IN  /\ next \in u + 1 .. UnitCount
      /\ Cardinality(host[r].ahead.forward) < policy.forward
      /\ HasRoom(r)
      /\ host[r].unit[next] = "sharded"

PrefetchForward(r, u) ==
  /\ At(r, "fill_before", u) \/ At(r, "fill_after", u)
  /\ MayPrefetchForward(r, u)
  /\ LET next == host[r].next.forward
     IN  /\ Gather(r, next)
         /\ host' = [host EXCEPT ![r].unit[next] = "inflight",
                                 ![r].ahead.forward = @ \cup {next},
                                 ![r].next.forward = @ + 1,
                                 ![r].issued = TRUE]
  /\ UNCHANGED policy

LeaveForwardWindow(r, u) ==
  /\ ~MayPrefetchForward(r, u)
  /\ \/ /\ At(r, "fill_before", u)
        /\ host' = [host EXCEPT ![r].at = <<"post_forward", u>>]
     \/ /\ At(r, "fill_after", u)
        /\ host' = [host EXCEPT
             ![r].at = IF u < UnitCount THEN <<"pre_forward", u + 1>>
                                        ELSE <<"pre_backward", UnitCount>>]
  /\ UNCHANGED <<policy, queue, pool>>

-----------------------------------------------------------------------------
(* Backward *)

\* _previous_backward_prefetch_entry_from_post_forward_order: the k-th unit
\* that ran lies before the last time this one did.
RanBefore(r, k, u) ==
  \E i \in k + 1 .. Len(host[r].order) : host[r].order[i] = u

\* _ensure_owner_backward_prefetch_cursor, when the unit has an entry.
Cursor(r, u) ==
  IF host[r].next.backward = Unset /\ RanBefore(r, 1, u)
    THEN Len(host[r].order) - 1 ELSE host[r].next.backward

PreBackward(r, u) ==
  /\ At(r, "pre_backward", u)
  /\ Unshard(r, u, "resharded")
  /\ host' = [host EXCEPT ![r].at = <<"wait_backward", u>>,
                          ![r].unit[u] = InFlightFrom(@, "resharded")]
  /\ UNCHANGED policy

WaitBackward(r, u) ==
  /\ At(r, "wait_backward", u)
  /\ Gathered(r, u)
  /\ LET pre == policy.timing = "pre_backward"
     IN  host' = [host EXCEPT
           ![r].at = IF pre THEN <<"fill_backward", u>> ELSE <<"post_backward", u>>,
           ![r].unit[u] = "full",
           ![r].ahead.backward = @ \ {u},
           ![r].next.backward = IF pre THEN Cursor(r, u) ELSE @]
  /\ UNCHANGED <<policy, queue, pool>>

InBackwardWindow(r, u) == At(r, "fill_backward", u) \/ At(r, "fill_reshard", u)

\* _prefetch_previous_backward_owner_ordered_window up to the pending reduces.
MayTryBackward(r, u) ==
  LET next == host[r].next.backward
  IN  /\ next > 0 /\ RanBefore(r, next, u)
      /\ Cardinality(host[r].ahead.backward) < policy.backward
      /\ HasRoom(r)

\* Slip: reduces whose collective has run are no longer pending.
PendingUnlessRun(r) == \E u \in Units : ~Reduced(r, u)

\* pending_backward_reduce_count: reduces nobody has waited for, also those
\* that are done.
Pending(r) == host[r].pending # <<>>

MayPrefetchBackward(r, u) ==
  /\ MayTryBackward(r, u)
  /\ Pending(r) => policy.overlap
  /\ host[r].unit[host[r].order[host[r].next.backward]] = "resharded"

PrefetchBackward(r, u) ==
  /\ InBackwardWindow(r, u)
  /\ MayPrefetchBackward(r, u)
  /\ LET next == host[r].order[host[r].next.backward]
     IN  /\ Gather(r, next)
         /\ host' = [host EXCEPT ![r].unit[next] = "inflight",
                                 ![r].ahead.backward = @ \cup {next},
                                 ![r].next.backward = @ - 1,
                                 ![r].issued = TRUE]
  /\ UNCHANGED policy

MustWaitForReduces(r, u) ==
  MayTryBackward(r, u) /\ Pending(r) /\ ~policy.overlap /\ policy.waits

\* Slip: the reduces waited for stay in the list.
WaitForReducesKept(r, u) ==
  /\ InBackwardWindow(r, u)
  /\ MustWaitForReduces(r, u)
  /\ \A v \in Units : Reduced(r, v)
  /\ UNCHANGED vars

WaitForReduces(r, u) ==
  /\ InBackwardWindow(r, u)
  /\ MustWaitForReduces(r, u)
  /\ \A v \in Units : Reduced(r, v)
  /\ host' = [host EXCEPT ![r].pending = <<>>]
  /\ UNCHANGED <<policy, queue, pool>>

AfterBackward(u) == IF u > 1 THEN <<"pre_backward", u - 1>> ELSE <<"end", 1>>

LeaveBackwardWindow(r, u) ==
  /\ InBackwardWindow(r, u)
  /\ ~MayPrefetchBackward(r, u) /\ ~MustWaitForReduces(r, u)
  /\ \/ /\ At(r, "fill_backward", u)
        /\ host' = [host EXCEPT ![r].at = <<"post_backward", u>>]
     \/ /\ At(r, "fill_reshard", u)
        /\ host' = [host EXCEPT ![r].at = AfterBackward(u)]
  /\ UNCHANGED <<policy, queue, pool>>

\* The last gradient of the unit: it reshards before it reduces.
PostBackward(r, u) ==
  /\ At(r, "post_backward", u)
  /\ Release(r)
  /\ host' = [host EXCEPT ![r].at = <<"reduce", u>>, ![r].unit[u] = "sharded"]
  /\ UNCHANGED <<policy, queue>>

\* Slip: gathers started for the backward are left in flight.
PrefetchesInFlightForward(r, u) ==
  {v \in Units \ {u} : host[r].unit[v] = "inflight" /\ v \in host[r].ahead.forward}

\* _wait_inflight_ordered_owner_prefetches_before_reduce.
PrefetchesInFlight(r, u) ==
  {v \in Units \ {u} : /\ host[r].unit[v] = "inflight"
                       /\ v \in host[r].ahead.forward \cup host[r].ahead.backward}

\* before_backward_reduce waits for the oldest reduces until fewer than the
\* limit are left, or for all of them.
Oldest(r) ==
  LET excess == Len(host[r].pending) - policy.pending + 1
  IN  {i \in DOMAIN host[r].pending : i <= excess}

StartReduce(r, u) ==
  /\ At(r, "reduce", u)
  /\ \A v \in PrefetchesInFlight(r, u) : Gathered(r, v)
  /\ \A i \in Oldest(r) : Reduced(r, host[r].pending[i])
  /\ Enters(r, <<"reduce", u>>)
  /\ host' = [host EXCEPT
       ![r].at = <<"reduced", u>>,
       ![r].unit = [v \in Units |-> IF v \in PrefetchesInFlight(r, u) THEN "full"
                                                                      ELSE @[v]],
       ![r].pending =
         Append(SubSeq(@, Cardinality(Oldest(r)) + 1, Len(@)), u)]
  /\ UNCHANGED <<policy, pool>>

\* after_backward_reduce_started.
WaitsForAll(u) == policy.pending = 0 \/ u = 1

EndReduce(r, u) ==
  /\ At(r, "reduced", u)
  /\ WaitsForAll(u) => \A v \in Units : Reduced(r, v)
  /\ LET post == policy.timing = "post_reshard"
     IN  host' = [host EXCEPT
           ![r].at = IF post THEN <<"fill_reshard", u>> ELSE AfterBackward(u),
           ![r].pending = IF WaitsForAll(u) THEN <<>> ELSE @,
           ![r].next.backward = IF post THEN Cursor(r, u) ELSE @]
  /\ UNCHANGED <<policy, queue, pool>>

-----------------------------------------------------------------------------
(* Between passes *)

NextPass(r) ==
  /\ At(r, "end", 1)
  /\ host[r].pass < policy.passes
  /\ host' = [host EXCEPT ![r].at = <<"pre_forward", 1>>, ![r].pass = @ + 1]
  /\ UNCHANGED <<policy, queue, pool>>

\* Slip: the post-forward order of the step that ended is kept.
FinishedKeepingOrder(h) ==
  [Host EXCEPT !.unit = h.unit, !.pending = h.pending, !.order = h.order]

\* What finish_backward_iteration leaves; the units keep their states.
Finished(h) == [Host EXCEPT !.unit = h.unit, !.pending = h.pending]

\* step: wait_pending_backward_reduce, then finish_backward_iteration, whose
\* barrier is entered by a rank that issued an ordered prefetch.  zero_grad
\* calls both again and changes nothing more.
Finish(r) ==
  /\ At(r, "end", 1)
  /\ host[r].pass = policy.passes
  /\ \A v \in Units : Reduced(r, v)
  /\ IF host[r].issued
       THEN /\ Enters(r, <<"barrier", 0>>)
            /\ host' = [host EXCEPT ![r].at = <<"barrier", 0>>,
                                    ![r].issued = FALSE, ![r].pending = <<>>]
       ELSE /\ host' = [host EXCEPT
                 ![r] = Finished([host[r] EXCEPT !.pending = <<>>])]
            /\ UNCHANGED queue
  /\ UNCHANGED <<policy, pool>>

LeaveBarrier(r) ==
  /\ At(r, "barrier", 0)
  /\ ~Queued(r, <<"barrier", 0>>)
  /\ host' = [host EXCEPT ![r] = Finished(host[r])]
  /\ UNCHANGED <<policy, queue, pool>>

-----------------------------------------------------------------------------
HostStep(r) ==
  \/ \E u \in Units :
       \/ PreForward(r, u) \/ WaitForward(r, u) \/ PostForward(r, u)
       \/ PrefetchForward(r, u) \/ LeaveForwardWindow(r, u)
       \/ PreBackward(r, u) \/ WaitBackward(r, u) \/ PostBackward(r, u)
       \/ PrefetchBackward(r, u) \/ WaitForReduces(r, u)
       \/ LeaveBackwardWindow(r, u)
       \/ StartReduce(r, u) \/ EndReduce(r, u)
  \/ NextPass(r) \/ Finish(r) \/ LeaveBarrier(r)

Next ==
  \/ \E r \in Ranks : HostStep(r) \/ GpuDone(r)
  \/ \E l \in Lanes : Deliver(l)

\* A rank that is not waiting goes on, a collective every rank has entered
\* runs, and the GPU finishes what it was given.
Fairness ==
  /\ \A r \in Ranks : WF_vars(HostStep(r)) /\ WF_vars(GpuDone(r))
  /\ \A l \in Lanes : WF_vars(Deliver(l))

Spec == Init /\ [][Next]_vars /\ Fairness

-----------------------------------------------------------------------------
TypeOK ==
  /\ policy \in Policies
  /\ \A r \in Ranks :
       LET h == host[r]
       IN  /\ h.unit \in [Units -> {"sharded", "inflight", "full", "resharded"}]
           /\ h.ahead.forward \subseteq Units /\ h.ahead.backward \subseteq Units
           /\ Len(h.order) <= UnitCount * policy.passes
           /\ h.next.forward \in 2 .. UnitCount + 1
           /\ h.next.backward \in Unset .. Len(h.order)
           /\ h.issued \in BOOLEAN
           /\ \A i \in DOMAIN h.pending : h.pending[i] \in Units
           /\ h.pass \in 1 .. policy.passes
           /\ pool[r].draining \in Nat /\ pool[r].idle \in Nat
           /\ pool[r].draining + pool[r].idle <= policy.cached
           /\ \A l \in Lanes : \A i \in DOMAIN queue[r][l] :
                queue[r][l][i] \in Operations

\* Unless the policy allows the overlap, a gather entered ahead of its use and
\* a reduce are never both in flight on a rank: the window holds back while a
\* reduce is pending, and a reduce waits for the gathers in flight.
PrefetchesNeverOverlapReduces ==
  policy.overlap \/
  \A r \in Ranks :
    (\E u \in host[r].ahead.forward \cup host[r].ahead.backward : ~Gathered(r, u))
      => \A u \in Units : Reduced(r, u)

\* No two ranks have entered different collectives at the same place: the
\* queues "avoid rank-order deadlocks in custom owner collectives".
RanksAgreeOnOrder ==
  \A r, s \in Ranks, l \in Lanes : \A i \in DOMAIN queue[r][l] \cap DOMAIN queue[s][l] :
    queue[r][l][i] = queue[s][l][i]

Furthest(l) == CHOOSE r \in Ranks : \A s \in Ranks : Len(queue[s][l]) <= Len(queue[r][l])

Agreement == INSTANCE CollectiveOrder
  WITH agreed <- [l \in Lanes |-> queue[Furthest(l)][l]],
       entered <- [r \in Ranks |-> [l \in Lanes |-> Len(queue[r][l])]]

\* Ranks enter the same collectives in the same order, whichever of them runs
\* ahead, whatever each of them has still to wait for.
ImplementsCollectiveOrder == Agreement!OrderSafety

\* What every rank has entered runs, on every communicator: no collective stands
\* behind one that some rank will never join.
EnteredCollectivesRun == Agreement!Completion

\* Every rank finishes one step after the other: no rank waits for ever in a
\* gather, a reduce or the barrier for the others to join.
EveryRankKeepsStepping == \A r \in Ranks : []<>At(r, "end", 1)
=============================================================================
