----------------------- MODULE ParamGroupLifecycleProofs -----------------------
(***************************************************************************)
(* The lifecycle of a parameter group is consistent in every reachable     *)
(* state of the training loop, for any number of units, any options and    *)
(* any use of the caller: a gather is in flight only for an UNSHARDED      *)
(* group, a reduce only for a SHARDED one.                                 *)
(*                                                                         *)
(* The code asserts this in _validate_lifecycle_invariants, at the end of  *)
(* each transition, and clears handles and flags after it.  One lemma per  *)
(* handler says that it keeps RuntimeOK: every group is consistent, or an  *)
(* error has been raised.  The theorems of TrainingLoopProofs and          *)
(* GradientAccumulationProofs start from here.                             *)
(***************************************************************************)
EXTENDS TrainingLoop, TLAPS

GroupFields ==
  {"state", "inflight", "fwd", "bwd", "pend", "seen", "depth", "defer", "final",
   "reduce", "reduced", "ref", "store"}

RuntimeFields ==
  {"grp", "order", "idx", "fwdIds", "bwdIds", "queue", "deferred", "err"}

IsGroup(g) == DOMAIN g = GroupFields /\ g.reduce \in {"none", "fresh", "add"}

Consistent(g) ==
  /\ g.inflight => g.state = "UNSHARDED"
  /\ g.reduce # "none" => g.state = "SHARDED"

\* h differs from g in gradients and flags only.
SameLifecycle(g, h) ==
  /\ DOMAIN h = GroupFields
  /\ h.state = g.state /\ h.inflight = g.inflight /\ h.reduce = g.reduce

IsRuntime(s) ==
  /\ DOMAIN s = RuntimeFields
  /\ DOMAIN s.grp = Units
  /\ \A v \in Units : IsGroup(s.grp[v])

RuntimeOK(s) ==
  /\ IsRuntime(s)
  /\ s.err = None => \A v \in Units : Consistent(s.grp[v])

\* Every group but u's is consistent.
RuntimeOKBut(s, u) ==
  /\ IsRuntime(s)
  /\ s.err = None => \A v \in Units \ {u} : Consistent(s.grp[v])

-----------------------------------------------------------------------------
(* Gradients *)

LEMMA UseLocalShardsKeeps ==
  ASSUME NEW g, NEW keepFull, NEW keepBucket, DOMAIN g = GroupFields
  PROVE  SameLifecycle(g, UseLocalShards(g, keepFull, keepBucket))
BY DEF UseLocalShards, Drop, SameLifecycle, GroupFields

LEMMA UseLocalGradShardKeeps ==
  ASSUME NEW g, NEW u, NEW grads, DOMAIN g = GroupFields
  PROVE  SameLifecycle(g, UseLocalGradShard(g, u, grads))
BY DEF UseLocalGradShard, PointGrads, SameLifecycle, GroupFields

LEMMA AccumulateLocalGradShardKeeps ==
  ASSUME NEW g, NEW u, NEW grads, DOMAIN g = GroupFields
  PROVE  SameLifecycle(g, AccumulateLocalGradShard(g, u, grads))
BY UseLocalGradShardKeeps DEF AccumulateLocalGradShard

LEMMA PrepareBackwardGradStorageKeeps ==
  ASSUME NEW g, DOMAIN g = GroupFields
  PROVE  SameLifecycle(g, PrepareBackwardGradStorage(g))
BY GradPathAssumption
   DEF PrepareBackwardGradStorage, PointGrads, FreeGrads, SameLifecycle, GroupFields

LEMMA AccumulateCopyInKeeps ==
  ASSUME NEW g, DOMAIN g = GroupFields
  PROVE  SameLifecycle(g, AccumulateCopyIn(g))
BY DEF AccumulateCopyIn, FreeGrads, PointGrads, SameLifecycle, GroupFields

LEMMA AfterCollectKeeps ==
  ASSUME NEW g, NEW t, DOMAIN g = GroupFields
  PROVE  SameLifecycle(g, AfterCollect(g, t))
BY DEF AfterCollect, FreeGrads, PointGrads, SameLifecycle, GroupFields

LEMMA AutogradAccumulateKeeps ==
  ASSUME NEW g, NEW p, NEW m, DOMAIN g = GroupFields
  PROVE  SameLifecycle(g, AutogradAccumulate(g, p, m))
BY DEF AutogradAccumulate, SameLifecycle, GroupFields

LEMMA ZeroParamGradsKeeps ==
  ASSUME NEW g, NEW setToNone, DOMAIN g = GroupFields
  PROVE  SameLifecycle(g, ZeroParamGrads(g, setToNone))
BY DEF ZeroParamGrads, FreeGrads, PointGrads, SameLifecycle, GroupFields

LEMMA ResetGradAccumulationKeeps ==
  ASSUME NEW g, DOMAIN g = GroupFields
  PROVE  SameLifecycle(g, ResetGradAccumulation(g))
BY DEF ResetGradAccumulation, Drop, SameLifecycle, GroupFields

-----------------------------------------------------------------------------
(* One group *)

\* Waiting for a reduce ends it and leaves the state alone.
LEMMA WaitPostBackwardReduceKeeps ==
  ASSUME NEW g, NEW u, IsGroup(g)
  PROVE  LET h == WaitPostBackwardReduce(g, u)
         IN  /\ IsGroup(h)
             /\ h.state = g.state /\ h.inflight = g.inflight
             /\ h.reduce = "none"
<1>1. CASE g.reduce \in {"none", "fresh"}
  BY <1>1 DEF WaitPostBackwardReduce, IsGroup, GroupFields
<1>2. CASE g.reduce = "add"
  <2> DEFINE f == [g EXCEPT !.reduce = "none", !.reduced = ZeroGrads]
  <2>1. /\ DOMAIN f = GroupFields
        /\ f.state = g.state /\ f.inflight = g.inflight /\ f.reduce = "none"
    BY DEF IsGroup, GroupFields
  <2>2. SameLifecycle(f, AccumulateLocalGradShard(f, u, g.reduced))
    BY <2>1, AccumulateLocalGradShardKeeps
  <2>3. WaitPostBackwardReduce(g, u) = AccumulateLocalGradShard(f, u, g.reduced)
    BY <1>2 DEF WaitPostBackwardReduce
  <2> QED
    BY <2>1, <2>2, <2>3 DEF SameLifecycle, IsGroup
<1> QED
  BY <1>1, <1>2 DEF IsGroup

\* The group a deferred backward and the exit of no_sync leave behind when they
\* do not raise.
ReshardedDeferred(g) == IF g.state # "UNSHARDED" THEN g ELSE Sharded(g)

LeftNoSync(g, u) ==
  LET h == [g EXCEPT !.depth = @ - 1]
  IN  IF h.depth > 0 \/ ~h.defer
        THEN h
        ELSE IF u \in Reshard THEN ReshardedDeferred(AccumulateCopyIn(h))
                              ELSE AccumulateCopyIn(h)

LEMMA ReshardedDeferredKeeps ==
  ASSUME NEW g, IsGroup(g), Consistent(g)
  PROVE  LET h == ReshardedDeferred(g)
         IN  IsGroup(h) /\ Consistent(h)
BY DEF ReshardedDeferred, Sharded, IsGroup, Consistent, GroupFields

LEMMA EnterNoSyncKeeps ==
  ASSUME NEW g, IsGroup(g), Consistent(g)
  PROVE  IsGroup(EnterNoSync(g)) /\ Consistent(EnterNoSync(g))
BY DEF EnterNoSync, IsGroup, Consistent, GroupFields

LEMMA LeftNoSyncKeeps ==
  ASSUME NEW g, NEW u, IsGroup(g), Consistent(g)
  PROVE  IsGroup(LeftNoSync(g, u)) /\ Consistent(LeftNoSync(g, u))
<1> DEFINE h == [g EXCEPT !.depth = @ - 1]
<1>1. IsGroup(h) /\ Consistent(h)
  BY DEF IsGroup, Consistent, GroupFields
<1>2. IsGroup(AccumulateCopyIn(h)) /\ Consistent(AccumulateCopyIn(h))
  BY <1>1, AccumulateCopyInKeeps DEF SameLifecycle, IsGroup, Consistent
<1>3. LET c == ReshardedDeferred(AccumulateCopyIn(h))
      IN  IsGroup(c) /\ Consistent(c)
  BY <1>2, ReshardedDeferredKeeps
<1>4. LeftNoSync(g, u) \in
        {h, AccumulateCopyIn(h), ReshardedDeferred(AccumulateCopyIn(h))}
  BY DEF LeftNoSync
<1> QED
  BY <1>1, <1>2, <1>3, <1>4

-----------------------------------------------------------------------------
(* Putting a group back *)

LEMMA ChangeGroup ==
  ASSUME NEW s, NEW u, NEW g, RuntimeOKBut(s, u), IsGroup(g)
  PROVE  LET t == [s EXCEPT !.grp[u] = g]
         IN  /\ RuntimeOKBut(t, u)
             /\ u \in Units => t.grp[u] = g
             /\ Consistent(g) => RuntimeOK(t)
             /\ t.err = s.err
BY DEF RuntimeOKBut, RuntimeOK, IsRuntime, RuntimeFields

LEMMA OKButOne ==
  ASSUME NEW s, NEW u, RuntimeOK(s)
  PROVE  RuntimeOKBut(s, u)
BY DEF RuntimeOKBut, RuntimeOK

LEMMA RaiseKeeps ==
  ASSUME NEW s, NEW e \in Errors, NEW u, RuntimeOKBut(s, u)
  PROVE  RuntimeOK(Raise(s, e)) /\ Raise(s, e).grp = s.grp
BY NoneAssumption DEF Raise, RuntimeOKBut, RuntimeOK, IsRuntime, RuntimeFields

\* Either the group is consistent or _validate_lifecycle_invariants raises.
LEMMA ValidateKeeps ==
  ASSUME NEW s, NEW u, RuntimeOKBut(s, u)
  PROVE  RuntimeOK(Validate(s, u)) /\ Validate(s, u).grp = s.grp
<1>1. CASE s.grp[u].inflight /\ s.grp[u].state # "UNSHARDED"
  BY <1>1, RaiseKeeps DEF Validate, Errors
<1>2. CASE /\ ~ (s.grp[u].inflight /\ s.grp[u].state # "UNSHARDED")
           /\ s.grp[u].reduce # "none" /\ s.grp[u].state # "SHARDED"
  BY <1>2, RaiseKeeps DEF Validate, Errors
<1>3. CASE /\ ~ (s.grp[u].inflight /\ s.grp[u].state # "UNSHARDED")
           /\ ~ (s.grp[u].reduce # "none" /\ s.grp[u].state # "SHARDED")
  <2>1. Validate(s, u) = s
    BY <1>3 DEF Validate
  <2>2. Consistent(s.grp[u])
    BY <1>3 DEF Consistent
  <2> QED
    BY <2>1, <2>2 DEF RuntimeOKBut, RuntimeOK
<1> QED
  BY <1>1, <1>2, <1>3

LEMMA RaiseForm ==
  ASSUME NEW s, NEW e
  PROVE  Raise(s, e) \in {s, [s EXCEPT !.err = e]}
BY DEF Raise

\* The reshard of deferred gradients puts the group back, raising if its gather
\* is in flight.
LEMMA ReshardAfterDeferredBackwardForm ==
  ASSUME NEW s, NEW u \in Units, IsRuntime(s), s.err = None => Consistent(s.grp[u])
  PROVE  LET t == ReshardAfterDeferredBackward(s, u)
             done == SetGroup(s, u, ReshardedDeferred(s.grp[u]))
         IN  IF s.grp[u].state # "UNSHARDED"
               THEN t = s /\ ReshardedDeferred(s.grp[u]) = s.grp[u]
               ELSE t = IF s.grp[u].inflight /\ s.err = None
                          THEN [done EXCEPT !.err = "gather_while_not_unsharded"]
                          ELSE done
<1> DEFINE g == s.grp[u]
           moved == SetGroup(s, u, [g EXCEPT !.state = "SHARDED"])
           done == SetGroup(s, u, ReshardedDeferred(g))
           t == ReshardAfterDeferredBackward(s, u)
<1>1. CASE g.state # "UNSHARDED"
  BY <1>1 DEF ReshardAfterDeferredBackward, ReshardedDeferred
<1>2. CASE g.state = "UNSHARDED"
  <2>1. /\ moved.grp[u].state = "SHARDED" /\ moved.grp[u].inflight = g.inflight
        /\ moved.err = s.err /\ (s.err = None => moved.grp[u].reduce = "none")
    BY <1>2 DEF SetGroup, IsRuntime, RuntimeFields, IsGroup, GroupFields, Consistent
  <2>2. /\ done = SetGroup(moved, u, Sharded(g))
        /\ t = SetGroup(Validate(moved, u), u, Sharded(g))
    BY <1>2 DEF ReshardAfterDeferredBackward, ReshardedDeferred, SetGroup,
               IsRuntime, RuntimeFields
  <2>3. CASE g.inflight /\ s.err = None
    <3>1. Validate(moved, u) = [moved EXCEPT !.err = "gather_while_not_unsharded"]
      BY <2>1, <2>3 DEF Validate, Raise
    <3> HIDE DEF moved
    <3>2. SetGroup([moved EXCEPT !.err = "gather_while_not_unsharded"], u, Sharded(g))
            = [SetGroup(moved, u, Sharded(g)) EXCEPT !.err = "gather_while_not_unsharded"]
      BY DEF SetGroup
    <3> QED
      BY <1>2, <2>2, <2>3, <3>1, <3>2
  <2>4. CASE ~g.inflight \/ s.err # None
    <3>1. Validate(moved, u) = moved
      BY <2>1, <2>4 DEF Validate, Raise
    <3> QED
      BY <1>2, <2>2, <2>4, <3>1
  <2> QED
    BY <2>3, <2>4
<1> QED
  BY <1>1, <1>2

\* Leaving no_sync puts the group back as LeftNoSync does, or raises.
LEMMA ExitNoSyncForm ==
  ASSUME NEW s, NEW u \in Units, IsRuntime(s), s.err = None, Consistent(s.grp[u])
  PROVE  LET t == ExitNoSync(s, u)
             done == SetGroup(s, u, LeftNoSync(s.grp[u], u))
         IN  /\ t \in {done, [done EXCEPT !.err = "gather_while_not_unsharded"]}
             /\ t.grp[u] = LeftNoSync(s.grp[u], u)
             /\ s.grp[u].inflight => t.err # None \/ t.grp[u].inflight
<1> DEFINE g == s.grp[u]
           h == [g EXCEPT !.depth = @ - 1]
           a == AccumulateCopyIn(h)
           copied == SetGroup(s, u, a)
           done == SetGroup(s, u, LeftNoSync(g, u))
           e == "gather_while_not_unsharded"
<1>1. IsGroup(h) /\ Consistent(h) /\ h.inflight = g.inflight
  BY DEF IsRuntime, IsGroup, Consistent, GroupFields
<1> HIDE DEF h
<1>2. IsGroup(a) /\ Consistent(a) /\ a.inflight = g.inflight
  BY <1>1, AccumulateCopyInKeeps DEF SameLifecycle, IsGroup, Consistent
<1> HIDE DEF a
<1>3. IsRuntime(copied) /\ copied.err = None /\ copied.grp[u] = a
  BY <1>2 DEF SetGroup, IsRuntime, RuntimeFields
<1>4. SetGroup(copied, u, ReshardedDeferred(a)) = SetGroup(s, u, ReshardedDeferred(a))
  BY DEF SetGroup, IsRuntime, RuntimeFields
<1> HIDE DEF copied
<1>5. /\ ReshardAfterDeferredBackward(copied, u) \in
           {SetGroup(s, u, ReshardedDeferred(a)),
            [SetGroup(s, u, ReshardedDeferred(a)) EXCEPT !.err = e]}
      /\ g.inflight => ReshardAfterDeferredBackward(copied, u).err # None
  <2> DEFINE put == SetGroup(s, u, ReshardedDeferred(a))
  <2>1. CASE a.state # "UNSHARDED"
    BY <1>2, <1>3, <2>1, ReshardAfterDeferredBackwardForm DEF copied, Consistent
  <2>2. CASE a.state = "UNSHARDED"
    <3>1. [put EXCEPT !.err = e].err = e /\ e # None
      BY NoneAssumption DEF SetGroup, IsRuntime, RuntimeFields, Errors
    <3> HIDE DEF put
    <3>2. ReshardAfterDeferredBackward(copied, u) =
            IF a.inflight THEN [put EXCEPT !.err = e] ELSE put
      BY <1>2, <1>3, <1>4, <2>2, ReshardAfterDeferredBackwardForm DEF put
    <3> QED
      BY <1>2, <3>1, <3>2 DEF put
  <2> QED
    BY <2>1, <2>2
<1>6. ExitNoSync(s, u) =
        IF h.depth > 0 \/ ~h.defer
          THEN SetGroup(s, u, h)
          ELSE IF u \in Reshard THEN ReshardAfterDeferredBackward(copied, u) ELSE copied
  BY DEF ExitNoSync, copied, a, h
<1>7. LeftNoSync(g, u) = IF h.depth > 0 \/ ~h.defer
                          THEN h ELSE IF u \in Reshard THEN ReshardedDeferred(a) ELSE a
  BY DEF LeftNoSync, a, h
<1>8. ExitNoSync(s, u) \in {done, [done EXCEPT !.err = e]}
  BY <1>5, <1>6, <1>7 DEF copied
<1>9. done.grp[u] = LeftNoSync(g, u) /\ [done EXCEPT !.err = e].grp[u] = LeftNoSync(g, u)
  BY DEF SetGroup, IsRuntime, RuntimeFields
<1>10. /\ SetGroup(s, u, h).grp[u].inflight = g.inflight
       /\ copied.grp[u].inflight = g.inflight
  BY <1>1, <1>2, <1>3 DEF SetGroup, IsRuntime, RuntimeFields
<1>11. g.inflight => ExitNoSync(s, u).err # None \/ ExitNoSync(s, u).grp[u].inflight
  BY <1>5, <1>6, <1>10
<1> HIDE DEF done
<1> QED
  BY <1>8, <1>9, <1>11 DEF done

LEMMA ExitNoSyncOfForm ==
  ASSUME NEW s, NEW scope, IsRuntime(s), s.err = None,
         \A v \in Units : Consistent(s.grp[v])
  PROVE  LET groups == [u \in Units |-> IF u \in scope THEN LeftNoSync(s.grp[u], u)
                                                       ELSE s.grp[u]]
         IN  \/ ExitNoSyncOf(s, scope) = [s EXCEPT !.err = "gather_while_not_unsharded"]
             \/ /\ ExitNoSyncOf(s, scope) = [s EXCEPT !.grp = groups]
                /\ \A u \in Units : s.grp[u].inflight => groups[u].inflight
<1> DEFINE left == [u \in Units |-> IF u \in scope THEN ExitNoSync(s, u) ELSE s]
           groups == [u \in Units |-> IF u \in scope THEN LeftNoSync(s.grp[u], u)
                                                     ELSE s.grp[u]]
<1>1. ASSUME NEW u \in Units
      PROVE  /\ left[u].grp[u] = groups[u]
             /\ s.grp[u].inflight => left[u].err # s.err \/ groups[u].inflight
  BY ExitNoSyncForm
<1> HIDE DEF left, groups
<1>2. [u \in Units |-> left[u].grp[u]] = groups
  BY <1>1 DEF groups
<1>3. ExitNoSyncOf(s, scope) =
        IF \E u \in Units : left[u].err # s.err
          THEN Raise(s, "gather_while_not_unsharded")
          ELSE [s EXCEPT !.grp = [u \in Units |-> left[u].grp[u]]]
  BY DEF ExitNoSyncOf, left
<1>4. CASE \E u \in Units : left[u].err # s.err
  BY <1>3, <1>4 DEF Raise, groups
<1>5. CASE \A u \in Units : left[u].err = s.err
  <2>1. ExitNoSyncOf(s, scope) = [s EXCEPT !.grp = groups]
    BY <1>2, <1>3, <1>5
  <2>2. \A u \in Units : s.grp[u].inflight => groups[u].inflight
    BY <1>1, <1>5
  <2> QED
    BY <2>1, <2>2 DEF groups
<1> QED
  BY <1>4, <1>5 DEF groups

LEMMA ReshardAfterDeferredBackwardKeeps ==
  ASSUME NEW s, NEW u \in Units, RuntimeOK(s)
  PROVE  RuntimeOK(ReshardAfterDeferredBackward(s, u))
<1> DEFINE g == s.grp[u]
           moved == SetGroup(s, u, [g EXCEPT !.state = "SHARDED"])
           v == Validate(moved, u)
<1>1. RuntimeOKBut(s, u) /\ IsGroup(g)
  BY OKButOne DEF RuntimeOK, IsRuntime
<1>2. IsGroup([g EXCEPT !.state = "SHARDED"]) /\ IsGroup(Sharded(g))
  BY <1>1 DEF Sharded, IsGroup, GroupFields
<1>3. RuntimeOKBut(moved, u)
  BY <1>1, <1>2, ChangeGroup DEF SetGroup
<1> HIDE DEF moved
<1>4. RuntimeOKBut(v, u)
  BY <1>3, ValidateKeeps, OKButOne
<1> HIDE DEF v
<1>5. Consistent(Sharded(g))
  BY <1>1 DEF Sharded, IsGroup, Consistent, GroupFields
<1>6. RuntimeOK(SetGroup(v, u, Sharded(g)))
  BY <1>2, <1>4, <1>5, ChangeGroup DEF SetGroup
<1> QED
  BY <1>6 DEF ReshardAfterDeferredBackward, v, moved

-----------------------------------------------------------------------------
(* Gathers *)

LEMMA GatheringIsGroup ==
  ASSUME NEW g, IsGroup(g)
  PROVE  IsGroup(Gathering(g)) /\ Gathering(g).reduce = g.reduce
BY DEF Gathering, IsGroup, GroupFields

LEMMA StartUnshardKeeps ==
  ASSUME NEW s, NEW u, RuntimeOK(s)
  PROVE  RuntimeOK(StartUnshard(s, u))
<1>1. RuntimeOKBut(s, u) /\ (u \in Units => IsGroup(s.grp[u]))
  BY OKButOne DEF RuntimeOK, IsRuntime
<1>2. CASE u \in Units
  <2>1. RuntimeOKBut(SetGroup(s, u, Gathering(s.grp[u])), u)
    BY <1>1, <1>2, GatheringIsGroup, ChangeGroup DEF SetGroup
  <2> QED
    BY <2>1, ValidateKeeps DEF StartUnshard
<1>3. CASE u \notin Units
  <2>1. RuntimeOKBut(SetGroup(s, u, Gathering(s.grp[u])), u)
    BY <1>1, <1>3 DEF SetGroup, RuntimeOKBut, IsRuntime, RuntimeFields
  <2> QED
    BY <2>1, ValidateKeeps DEF StartUnshard
<1> QED
  BY <1>2, <1>3

LEMMA WaitUnshardKeeps ==
  ASSUME NEW s, NEW u \in Units, RuntimeOK(s)
  PROVE  RuntimeOK(WaitUnshard(s, u))
<1> DEFINE g == [s.grp[u] EXCEPT !.inflight = FALSE]
<1>1. RuntimeOKBut(s, u) /\ IsGroup(g)
  BY OKButOne DEF RuntimeOK, IsRuntime, IsGroup, GroupFields
<1>2. RuntimeOKBut([s EXCEPT !.grp[u] = g], u)
  BY <1>1, ChangeGroup
<1> QED
  BY <1>2, ValidateKeeps DEF WaitUnshard

LEMMA ReshardAfterForwardKeeps ==
  ASSUME NEW s, NEW u \in Units, NEW needsPreBackward, RuntimeOK(s)
  PROVE  RuntimeOK(ReshardAfterForward(s, u, needsPreBackward))
<1> DEFINE g == s.grp[u]
           h == UseLocalShards(g, g.defer, g.defer)
           r == [h EXCEPT !.state = IF needsPreBackward THEN "FORWARD_RESHARDED"
                                                        ELSE "SHARDED"]
<1>1. RuntimeOKBut(s, u) /\ IsGroup(g)
  BY OKButOne DEF RuntimeOK, IsRuntime
<1>2. SameLifecycle(g, h)
  BY <1>1, UseLocalShardsKeeps DEF IsGroup
<1>3. IsGroup(r)
  BY <1>1, <1>2 DEF SameLifecycle, IsGroup, GroupFields
<1>4. RuntimeOKBut(SetGroup(s, u, r), u)
  BY <1>1, <1>3, ChangeGroup DEF SetGroup
<1> QED
  BY <1>4, ValidateKeeps DEF ReshardAfterForward

\* Flags of one group other than the lifecycle's.
LEMMA ChangeFlags ==
  ASSUME NEW s, NEW u \in Units, NEW g, RuntimeOK(s), SameLifecycle(s.grp[u], g)
  PROVE  LET t == [s EXCEPT !.grp[u] = g]
         IN  RuntimeOK(t) /\ t.grp[u] = g /\ t.err = s.err
<1>1. RuntimeOKBut(s, u) /\ IsGroup(g)
  BY OKButOne DEF SameLifecycle, RuntimeOK, IsRuntime, IsGroup
<1>2. CASE s.err = None
  <2>1. Consistent(g)
    BY <1>2 DEF SameLifecycle, RuntimeOK, Consistent
  <2> QED
    BY <1>1, <2>1, ChangeGroup
<1>3. CASE s.err # None
  BY <1>1, <1>3, ChangeGroup DEF RuntimeOKBut, RuntimeOK
<1> QED
  BY <1>2, <1>3

LEMMA DiscardUnconsumedPrefetchKeeps ==
  ASSUME NEW s, NEW u \in Units, RuntimeOK(s)
  PROVE  RuntimeOK(DiscardUnconsumedPrefetch(s, u))
<1> DEFINE r == ReshardAfterForward(WaitUnshard(s, u), u, FALSE)
           f == [r EXCEPT !.grp[u] = [r.grp[u] EXCEPT !.fwd = FALSE]]
           b == [f EXCEPT !.grp[u] = [f.grp[u] EXCEPT !.bwd = FALSE]]
<1>1. RuntimeOK(r)
  BY WaitUnshardKeeps, ReshardAfterForwardKeeps
<1>2. SameLifecycle(r.grp[u], [r.grp[u] EXCEPT !.fwd = FALSE])
  BY <1>1 DEF RuntimeOK, IsRuntime, IsGroup, SameLifecycle, GroupFields
<1>3. RuntimeOK(f)
  BY <1>1, <1>2, ChangeFlags
<1>4. SameLifecycle(f.grp[u], [f.grp[u] EXCEPT !.bwd = FALSE])
  BY <1>3 DEF RuntimeOK, IsRuntime, IsGroup, SameLifecycle, GroupFields
<1>5. RuntimeOK(b)
  BY <1>3, <1>4, ChangeFlags
<1> HIDE DEF r
<1>6. b = [r EXCEPT !.grp[u].fwd = FALSE, !.grp[u].bwd = FALSE]
  BY <1>1 DEF RuntimeOK, IsRuntime, RuntimeFields
<1> QED
  BY <1>5, <1>6 DEF DiscardUnconsumedPrefetch, r

-----------------------------------------------------------------------------
(* The scheduler *)

LEMMA PrefetchForwardWindowKeeps ==
  ASSUME NEW s, NEW start, RuntimeOK(s)
  PROVE  RuntimeOK(PrefetchForwardWindow(s, start))
<1> DEFINE candidates == {v \in start .. UnitCount : s.grp[v].state = "SHARDED"}
           chosen == {v \in candidates :
                        Cardinality({w \in candidates : w < v}) < ForwardRoom(s)}
           ids == LiveForwardPrefetches(s) \cup chosen
           groups == [v \in Units |-> IF v \in chosen
                                        THEN [Gathering(s.grp[v]) EXCEPT !.fwd = TRUE]
                                        ELSE s.grp[v]]
           issued == [s EXCEPT !.fwdIds = ids, !.grp = groups]
           late == \E v \in chosen : s.grp[v].reduce # "none"
<1>0. PrefetchForwardWindow(s, start) =
        CASE MaxForwardPrefetch = 0 -> s
          [] MaxForwardPrefetch > 0 /\ late -> Raise(issued, "reduce_while_not_resharded")
          [] OTHER -> issued
  BY DEF PrefetchForwardWindow
<1> HIDE DEF chosen
<1>1. ASSUME NEW v \in Units
      PROVE  /\ IsGroup(groups[v])
             /\ v \notin chosen => groups[v] = s.grp[v]
             /\ v \in chosen => /\ groups[v].inflight /\ groups[v].state = "UNSHARDED"
                                 /\ groups[v].reduce = s.grp[v].reduce
  BY DEF RuntimeOK, IsRuntime, IsGroup, Gathering, GroupFields
<1>2. IsRuntime(issued) /\ issued.grp = groups /\ issued.err = s.err
  BY <1>1 DEF RuntimeOK, IsRuntime, RuntimeFields
<1>3. RuntimeOK(Raise(issued, "reduce_while_not_resharded"))
  BY <1>2, NoneAssumption DEF Raise, RuntimeOK, IsRuntime, RuntimeFields, Errors
<1>4. ~late => RuntimeOK(issued)
  <2> SUFFICES ASSUME ~late, issued.err = None, NEW v \in Units
               PROVE  Consistent(issued.grp[v])
    BY <1>2 DEF RuntimeOK
  <2> HIDE DEF groups, issued
  <2>1. CASE v \in chosen
    BY <1>1, <1>2, <2>1 DEF Consistent
  <2>2. CASE v \notin chosen
    BY <1>1, <1>2, <2>2 DEF Consistent, RuntimeOK
  <2> QED
    BY <2>1, <2>2
<1> HIDE DEF issued, late
<1>5. CASE MaxForwardPrefetch = 0
  BY <1>0, <1>5
<1>6. CASE MaxForwardPrefetch > 0 /\ late
  <2>1. PrefetchForwardWindow(s, start) = Raise(issued, "reduce_while_not_resharded")
    BY <1>0, <1>6
  <2> QED
    BY <2>1, <1>3
<1>7. CASE MaxForwardPrefetch > 0 /\ ~late
  <2>1. PrefetchForwardWindow(s, start) = issued
    BY <1>0, <1>7
  <2> QED
    BY <2>1, <1>4, <1>7
<1> QED
  BY <1>5, <1>6, <1>7, BudgetAssumption

\* Queues and lookahead sets are no part of the lifecycle.
LEMMA SameGroupsKeeps ==
  ASSUME NEW s, NEW t, RuntimeOK(s), DOMAIN t = RuntimeFields,
         t.grp = s.grp, t.err = s.err
  PROVE  RuntimeOK(t)
BY DEF RuntimeOK, IsRuntime

LEMMA OnPreForwardKeeps ==
  ASSUME NEW s, NEW u \in Units, RuntimeOK(s)
  PROVE  RuntimeOK(OnPreForward(s, u))
<1> DEFINE f == [s EXCEPT !.grp[u] = [s.grp[u] EXCEPT !.fwd = FALSE]]
           consumed == [s EXCEPT !.grp[u].fwd = FALSE, !.fwdIds = @ \ {u}]
<1>1. SameLifecycle(s.grp[u], [s.grp[u] EXCEPT !.fwd = FALSE])
  BY DEF RuntimeOK, IsRuntime, IsGroup, SameLifecycle, GroupFields
<1>2. RuntimeOK(f)
  BY <1>1, ChangeFlags
<1>3. DOMAIN consumed = RuntimeFields /\ consumed.grp = f.grp /\ consumed.err = f.err
  BY DEF RuntimeOK, IsRuntime, RuntimeFields
<1>4. RuntimeOK(consumed)
  BY <1>2, <1>3, SameGroupsKeeps
<1>5. RuntimeOK(PrefetchForwardWindow(consumed, u + 1))
  BY <1>4, PrefetchForwardWindowKeeps
<1> HIDE DEF consumed
<1>6. OnPreForward(s, u) \in {s, consumed, PrefetchForwardWindow(consumed, u + 1)}
  BY DEF OnPreForward, consumed
<1> QED
  BY <1>4, <1>5, <1>6

LEMMA RecordPostForwardKeeps ==
  ASSUME NEW s, NEW u \in Units, RuntimeOK(s)
  PROVE  RuntimeOK(RecordPostForward(s, u))
<1> DEFINE recorded == [s EXCEPT !.order = Append(@, u),
                                 !.idx[u] = Append(@, Len(s.order) + 1)]
<1>1. DOMAIN recorded = RuntimeFields /\ recorded.grp = s.grp /\ recorded.err = s.err
  BY DEF RuntimeOK, IsRuntime, RuntimeFields
<1>2. RuntimeOK(recorded)
  BY <1>1, SameGroupsKeeps
<1>3. RuntimeOK(PrefetchForwardWindow(recorded, u + 1))
  BY <1>2, PrefetchForwardWindowKeeps
<1> HIDE DEF recorded
<1>4. RecordPostForward(s, u) \in {recorded, PrefetchForwardWindow(recorded, u + 1)}
  BY DEF RecordPostForward, recorded
<1> QED
  BY <1>2, <1>3, <1>4

LEMMA IssueBackwardPrefetchKeeps ==
  ASSUME NEW s, NEW v, RuntimeOK(s)
  PROVE  RuntimeOK(IssueBackwardPrefetch(s, v))
<1> DEFINE t == [s EXCEPT !.grp[v].bwd = TRUE, !.bwdIds = @ \cup {v}]
           b == [s EXCEPT !.grp[v] = [s.grp[v] EXCEPT !.bwd = TRUE]]
<1>1. RuntimeOK(b)
  <2>1. CASE v \in Units
    <3>1. SameLifecycle(s.grp[v], [s.grp[v] EXCEPT !.bwd = TRUE])
      BY <2>1 DEF RuntimeOK, IsRuntime, IsGroup, SameLifecycle, GroupFields
    <3> QED
      BY <2>1, <3>1, ChangeFlags
  <2>2. CASE v \notin Units
    BY <2>2 DEF RuntimeOK, IsRuntime, RuntimeFields
  <2> QED
    BY <2>1, <2>2
<1>2. DOMAIN t = RuntimeFields /\ t.grp = b.grp /\ t.err = b.err
  BY DEF RuntimeOK, IsRuntime, RuntimeFields
<1>3. RuntimeOK(t)
  BY <1>1, <1>2, SameGroupsKeeps
<1> QED
  BY <1>3, StartUnshardKeeps DEF IssueBackwardPrefetch

LEMMA PrefetchPreviousBackwardUnitKeeps ==
  ASSUME NEW s, NEW u, RuntimeOK(s)
  PROVE  RuntimeOK(PrefetchPreviousBackwardUnit(s, u))
<1> DEFINE target == BackwardPrefetchTarget(s, u)
           live == IF MaxBackwardPrefetch = 0 THEN s.bwdIds
                   ELSE {v \in s.bwdIds : s.grp[v].bwd}
           consumed == [s EXCEPT
             !.idx[u] = IF HasPostForwardEntry(s, u) THEN SubSeq(@, 1, Len(@) - 1) ELSE @,
             !.bwdIds = live]
           later == [consumed EXCEPT !.deferred = target]
<1>1. /\ DOMAIN consumed = RuntimeFields
      /\ consumed.grp = s.grp /\ consumed.err = s.err
  BY DEF RuntimeOK, IsRuntime, RuntimeFields
<1>2. RuntimeOK(consumed)
  BY <1>1, SameGroupsKeeps
<1> HIDE DEF consumed, target
<1>3. RuntimeOK(later)
  BY <1>1, <1>2, SameGroupsKeeps DEF RuntimeFields
<1>4. RuntimeOK(IssueBackwardPrefetch(consumed, target))
  BY <1>2, IssueBackwardPrefetchKeeps
<1>5. PrefetchPreviousBackwardUnit(s, u)
        \in {s, consumed, later, IssueBackwardPrefetch(consumed, target)}
  BY DEF PrefetchPreviousBackwardUnit, consumed, target
<1> QED
  BY <1>2, <1>3, <1>4, <1>5

LEMMA OnPreBackwardKeeps ==
  ASSUME NEW s, NEW u \in Units, RuntimeOK(s)
  PROVE  RuntimeOK(OnPreBackward(s, u))
<1> DEFINE t == [s EXCEPT !.grp[u].bwd = FALSE, !.bwdIds = @ \ {u}]
           b == [s EXCEPT !.grp[u] = [s.grp[u] EXCEPT !.bwd = FALSE]]
<1>1. SameLifecycle(s.grp[u], [s.grp[u] EXCEPT !.bwd = FALSE])
  BY DEF RuntimeOK, IsRuntime, IsGroup, SameLifecycle, GroupFields
<1>2. RuntimeOK(b)
  BY <1>1, ChangeFlags
<1>3. DOMAIN t = RuntimeFields /\ t.grp = b.grp /\ t.err = b.err
  BY DEF RuntimeOK, IsRuntime, RuntimeFields
<1>4. RuntimeOK(t)
  BY <1>2, <1>3, SameGroupsKeeps
<1> QED
  BY <1>4, PrefetchPreviousBackwardUnitKeeps DEF OnPreBackward

LEMMA OnPostBackwardReshardKeeps ==
  ASSUME NEW s, NEW u, RuntimeOK(s)
  PROVE  RuntimeOK(OnPostBackwardReshard(s, u))
<1> DEFINE t == [s EXCEPT !.deferred = None]
<1>1. DOMAIN t = RuntimeFields /\ t.grp = s.grp /\ t.err = s.err
  BY DEF RuntimeOK, IsRuntime, RuntimeFields
<1>2. RuntimeOK(t)
  BY <1>1, SameGroupsKeeps
<1>3. RuntimeOK(IssueBackwardPrefetch(t, s.deferred))
  BY <1>2, IssueBackwardPrefetchKeeps
<1>4. RuntimeOK(PrefetchPreviousBackwardUnit(s, u))
  BY PrefetchPreviousBackwardUnitKeeps
<1>5. OnPostBackwardReshard(s, u) \in
        {s, IssueBackwardPrefetch(t, s.deferred), PrefetchPreviousBackwardUnit(s, u)}
  BY DEF OnPostBackwardReshard
<1> QED
  BY <1>3, <1>4, <1>5

-----------------------------------------------------------------------------
(* Reduces that end *)

\* t differs from s in gradients, queues and reduces waited for.
EndsReduces(s, t) ==
  /\ DOMAIN t = RuntimeFields /\ DOMAIN t.grp = Units /\ t.err = s.err
  /\ \A v \in Units :
       /\ IsGroup(t.grp[v])
       /\ t.grp[v].state = s.grp[v].state /\ t.grp[v].inflight = s.grp[v].inflight
       /\ t.grp[v].reduce \in {s.grp[v].reduce, "none"}

LEMMA EndsReducesKeeps ==
  ASSUME NEW s, NEW t, RuntimeOK(s), EndsReduces(s, t)
  PROVE  RuntimeOK(t)
BY DEF EndsReduces, RuntimeOK, IsRuntime, Consistent

LEMMA EndsReducesTransitive ==
  ASSUME NEW r, NEW s, NEW t, EndsReduces(r, s), EndsReduces(s, t)
  PROVE  EndsReduces(r, t)
BY DEF EndsReduces

LEMMA SameGroupsEndsReduces ==
  ASSUME NEW s, NEW t, IsRuntime(s), DOMAIN t = RuntimeFields,
         t.grp = s.grp, t.err = s.err
  PROVE  EndsReduces(s, t)
BY DEF EndsReduces, IsRuntime

LEMMA PruneEndsReduces ==
  ASSUME NEW s, IsRuntime(s)
  PROVE  EndsReduces(s, Prune(s)) /\ IsRuntime(Prune(s))
<1>1. /\ DOMAIN Prune(s) = RuntimeFields
      /\ Prune(s).grp = s.grp /\ Prune(s).err = s.err
  BY DEF Prune, IsRuntime, RuntimeFields
<1> QED
  BY <1>1, SameGroupsEndsReduces DEF IsRuntime

LEMMA WaitOldestEndsReduces ==
  ASSUME NEW s, NEW n, IsRuntime(s)
  PROVE  EndsReduces(s, WaitOldest(s, n))
<1> DEFINE groups == [v \in Units |-> IF s.queue[v] \in 1 .. n
                                        THEN WaitPostBackwardReduce(s.grp[v], v)
                                        ELSE s.grp[v]]
<1>1. /\ DOMAIN WaitOldest(s, n) = RuntimeFields
      /\ WaitOldest(s, n).grp = groups /\ WaitOldest(s, n).err = s.err
  BY DEF WaitOldest, IsRuntime, RuntimeFields
<1>2. ASSUME NEW v \in Units
      PROVE  /\ IsGroup(groups[v])
             /\ groups[v].state = s.grp[v].state
             /\ groups[v].inflight = s.grp[v].inflight
             /\ groups[v].reduce \in {s.grp[v].reduce, "none"}
  BY WaitPostBackwardReduceKeeps DEF IsRuntime
<1>3. DOMAIN groups = Units
  OBVIOUS
<1> HIDE DEF groups
<1> QED
  BY <1>1, <1>2, <1>3 DEF EndsReduces

LEMMA WaitAllPendingEndsReduces ==
  ASSUME NEW s, IsRuntime(s)
  PROVE  EndsReduces(s, WaitAllPending(s))
BY PruneEndsReduces, WaitOldestEndsReduces, EndsReducesTransitive DEF WaitAllPending

LEMMA BeforeBackwardReduceEndsReduces ==
  ASSUME NEW s, IsRuntime(s)
  PROVE  EndsReduces(s, BeforeBackwardReduce(s))
<1> DEFINE n == Queued(Prune(s)) - MaxPendingReduces + 1
<1>1. EndsReduces(s, WaitOldest(Prune(s), n))
  BY PruneEndsReduces, WaitOldestEndsReduces, EndsReducesTransitive
<1>2. BeforeBackwardReduce(s) \in
        {WaitAllPending(s), Prune(s), WaitOldest(Prune(s), n)}
  BY DEF BeforeBackwardReduce
<1> QED
  BY <1>1, <1>2, PruneEndsReduces, WaitAllPendingEndsReduces

LEMMA AfterBackwardReduceStartedEndsReduces ==
  ASSUME NEW s, NEW u, IsRuntime(s)
  PROVE  EndsReduces(s, AfterBackwardReduceStarted(s, u))
<1> DEFINE pruned == Prune(s)
           queued == [pruned EXCEPT !.queue[u] = IF @ = 0 THEN Queued(pruned) + 1 ELSE @]
<1>1. EndsReduces(s, pruned) /\ IsRuntime(pruned)
  BY PruneEndsReduces
<1> HIDE DEF pruned
<1>2. DOMAIN queued = RuntimeFields /\ queued.grp = pruned.grp /\ queued.err = pruned.err
  BY <1>1 DEF IsRuntime, RuntimeFields
<1>3. IsRuntime(queued) /\ EndsReduces(pruned, queued)
  BY <1>1, <1>2, SameGroupsEndsReduces DEF IsRuntime
<1> HIDE DEF queued
<1>4. EndsReduces(s, queued)
  BY <1>1, <1>3, EndsReducesTransitive
<1>5. EndsReduces(s, WaitAllPending(queued))
  BY <1>3, <1>4, WaitAllPendingEndsReduces, EndsReducesTransitive
<1>6. EndsReduces(s, s)
  BY SameGroupsEndsReduces DEF IsRuntime
<1>7. AfterBackwardReduceStarted(s, u) \in {s, WaitAllPending(queued), queued}
  BY DEF AfterBackwardReduceStarted, queued, pruned
<1> QED
  BY <1>4, <1>5, <1>6, <1>7

LEMMA FinishBackwardIterationKeeps ==
  ASSUME NEW s, RuntimeOK(s)
  PROVE  RuntimeOK(FinishBackwardIteration(s))
BY DEF FinishBackwardIteration, RuntimeOK, IsRuntime, RuntimeFields

-----------------------------------------------------------------------------
(* Finalizing *)

\* The group _finish_backward_common leaves behind.
FinishedGroup(g) ==
  [Sharded(g) EXCEPT !.defer = FALSE, !.final = IF Finalize THEN TRUE ELSE @]

\* The transition is validated with the handle still set; an error aside, what
\* is left is the same.
LEMMA FinishBackwardCommonForm ==
  ASSUME NEW s, NEW u \in Units, IsRuntime(s)
  PROVE  LET t == FinishBackwardCommon(s, u)
             done == SetGroup(s, u, FinishedGroup(s.grp[u]))
             e == "gather_while_not_unsharded"
         IN  /\ t \in {done, [done EXCEPT !.err = e]}
             /\ s.err # None => t = done
             /\ ~s.grp[u].inflight => t = done
             /\ s.err = None /\ s.grp[u].inflight => t = [done EXCEPT !.err = e]
<1> DEFINE g == s.grp[u]
           moved == SetGroup(s, u, [g EXCEPT !.state = "SHARDED"])
           done == SetGroup(s, u, FinishedGroup(g))
           e == "gather_while_not_unsharded"
<1>1. /\ moved.grp[u].state = "SHARDED" /\ moved.grp[u].inflight = g.inflight
      /\ moved.err = s.err
  BY DEF SetGroup, IsRuntime, RuntimeFields, IsGroup, GroupFields
<1>2. /\ done = SetGroup(moved, u, FinishedGroup(g))
      /\ FinishBackwardCommon(s, u) = SetGroup(Validate(moved, u), u, FinishedGroup(g))
  BY DEF FinishBackwardCommon, FinishedGroup, SetGroup, IsRuntime, RuntimeFields
<1> HIDE DEF moved, done
<1>3. Validate(moved, u) = IF g.inflight THEN Raise(moved, e) ELSE moved
  BY <1>1 DEF Validate
<1>4. SetGroup([moved EXCEPT !.err = e], u, FinishedGroup(g)) = [done EXCEPT !.err = e]
  BY <1>2 DEF SetGroup
<1>5. CASE ~g.inflight \/ s.err # None
  <2>1. Validate(moved, u) = moved
    BY <1>1, <1>3, <1>5 DEF Raise
  <2> QED
    BY <1>2, <1>5, <2>1 DEF done
<1>6. CASE g.inflight /\ s.err = None
  <2>1. Validate(moved, u) = [moved EXCEPT !.err = e]
    BY <1>1, <1>3, <1>6 DEF Raise
  <2> QED
    BY <1>2, <1>4, <1>6, <2>1 DEF done
<1> QED
  BY <1>5, <1>6

LEMMA FinishBackwardCommonKeeps ==
  ASSUME NEW s, NEW u \in Units, RuntimeOKBut(s, u)
  PROVE  RuntimeOK(FinishBackwardCommon(s, u))
<1> DEFINE g == FinishedGroup(s.grp[u])
           done == SetGroup(s, u, g)
           t == FinishBackwardCommon(s, u)
<1>1. IsGroup(g) /\ Consistent(g)
  BY DEF FinishedGroup, Sharded, RuntimeOKBut, IsRuntime, IsGroup, Consistent, GroupFields
<1> HIDE DEF g
<1>2. RuntimeOK(done) /\ RuntimeOK([done EXCEPT !.err = "gather_while_not_unsharded"])
  <2>1. RuntimeOK(done)
    BY <1>1, ChangeGroup DEF SetGroup
  <2> HIDE DEF done
  <2> QED
    BY <2>1, NoneAssumption DEF RuntimeOK, IsRuntime, RuntimeFields, Errors
<1>3. t \in {done, [done EXCEPT !.err = "gather_while_not_unsharded"]}
  BY FinishBackwardCommonForm DEF RuntimeOKBut, g
<1> QED
  BY <1>2, <1>3

\* The reduce starts on a group that is resharded by then.
LEMMA FinishBackwardWithGradBucketKeeps ==
  ASSUME NEW s, NEW u \in Units, RuntimeOK(s)
  PROVE  RuntimeOK(FinishBackwardWithGradBucket(s, u))
<1> DEFINE g == s.grp[u]
           accumulate == g.store["local"] # None
           h == UseLocalShards(AfterCollect(g, "bucket"), FALSE, FALSE)
           r == [h EXCEPT !.state = "SHARDED"]
           resharded == Validate(SetGroup(s, u, r), u)
           ready == BeforeBackwardReduce(resharded)
           handle == [ready.grp[u] EXCEPT !.reduce = IF accumulate THEN "add" ELSE "fresh",
                                          !.reduced = Collected(g, "bucket")]
           last == IF accumulate THEN handle ELSE UseLocalGradShard(handle, u, ZeroGrads)
           started == SetGroup(ready, u, last)
<1>1. RuntimeOKBut(s, u) /\ IsGroup(g)
  BY OKButOne DEF RuntimeOK, IsRuntime
<1>2. IsGroup(r) /\ r.state = "SHARDED"
  <2>1. SameLifecycle(g, AfterCollect(g, "bucket"))
    BY <1>1, AfterCollectKeeps DEF IsGroup
  <2>2. SameLifecycle(AfterCollect(g, "bucket"), h)
    <3>1. DOMAIN AfterCollect(g, "bucket") = GroupFields
      BY <2>1 DEF SameLifecycle
    <3> QED
      BY <3>1, UseLocalShardsKeeps
  <2> HIDE DEF h
  <2> QED
    BY <1>1, <2>1, <2>2 DEF SameLifecycle, IsGroup, GroupFields
<1> HIDE DEF r
<1>3. RuntimeOK(resharded) /\ resharded.grp[u].state = "SHARDED"
  <2>1. RuntimeOKBut(SetGroup(s, u, r), u) /\ SetGroup(s, u, r).grp[u] = r
    BY <1>1, <1>2, ChangeGroup DEF SetGroup
  <2> QED
    BY <1>2, <2>1, ValidateKeeps
<1> HIDE DEF resharded
<1>4. RuntimeOK(ready) /\ ready.grp[u].state = "SHARDED"
  <2>1. EndsReduces(resharded, ready)
    BY <1>3, BeforeBackwardReduceEndsReduces DEF RuntimeOK
  <2> QED
    BY <1>3, <2>1, EndsReducesKeeps DEF EndsReduces
<1> HIDE DEF ready
<1>5. /\ IsGroup(last) /\ last.state = "SHARDED"
      /\ last.inflight = ready.grp[u].inflight
  <2>1. /\ IsGroup(handle) /\ handle.state = "SHARDED"
        /\ handle.inflight = ready.grp[u].inflight
    BY <1>4 DEF RuntimeOK, IsRuntime, IsGroup, GroupFields
  <2> HIDE DEF handle
  <2>2. SameLifecycle(handle, UseLocalGradShard(handle, u, ZeroGrads))
    BY <2>1, UseLocalGradShardKeeps DEF IsGroup
  <2> QED
    BY <2>1, <2>2 DEF SameLifecycle, IsGroup
<1> HIDE DEF last
<1>6. RuntimeOK(started) /\ started.grp[u] = last
  <2>1. RuntimeOKBut(ready, u)
    BY <1>4, OKButOne
  <2>2. /\ RuntimeOKBut(started, u) /\ started.grp[u] = last
        /\ started.err = ready.err /\ (Consistent(last) => RuntimeOK(started))
    BY <1>5, <2>1, ChangeGroup DEF SetGroup
  <2>3. CASE ready.err = None
    <3>1. Consistent(last)
      BY <1>4, <1>5, <2>3 DEF RuntimeOK, Consistent
    <3> QED
      BY <2>2, <3>1
  <2>4. CASE ready.err # None
    BY <2>2, <2>4 DEF RuntimeOKBut, RuntimeOK
  <2> QED
    BY <2>2, <2>3, <2>4
<1> HIDE DEF started
<1> DEFINE async == OnPostBackwardReshard(AfterBackwardReduceStarted(started, u), u)
           sync == SetGroup(started, u, WaitPostBackwardReduce(started.grp[u], u))
<1>7. RuntimeOKBut(async, u)
  <2>1. RuntimeOK(AfterBackwardReduceStarted(started, u))
    BY <1>6, AfterBackwardReduceStartedEndsReduces, EndsReducesKeeps DEF RuntimeOK
  <2> QED
    BY <2>1, OnPostBackwardReshardKeeps, OKButOne
<1>8. RuntimeOKBut(sync, u)
  <2>1. IsGroup(WaitPostBackwardReduce(started.grp[u], u))
    BY <1>5, <1>6, WaitPostBackwardReduceKeeps
  <2> QED
    BY <1>6, <2>1, OKButOne, ChangeGroup DEF SetGroup
<1>9. FinishBackwardWithGradBucket(s, u) =
        FinishBackwardCommon(IF Finalize THEN async ELSE sync, u)
  BY DEF FinishBackwardWithGradBucket, started, last, ready, resharded, r
<1> HIDE DEF async, sync
<1> QED
  BY <1>7, <1>8, <1>9, FinishBackwardCommonKeeps

LEMMA FinishBackwardWithFullGradsKeeps ==
  ASSUME NEW s, NEW u \in Units, RuntimeOK(s)
  PROVE  RuntimeOK(FinishBackwardWithFullGrads(s, u))
<1> DEFINE g == s.grp[u]
           h == AccumulateLocalGradShard(AfterCollect(g, "full"), u, Collected(g, "full"))
<1>1. SameLifecycle(g, AfterCollect(g, "full"))
  BY AfterCollectKeeps DEF RuntimeOK, IsRuntime, IsGroup
<1>2. SameLifecycle(AfterCollect(g, "full"), h)
  BY <1>1, AccumulateLocalGradShardKeeps DEF SameLifecycle
<1> HIDE DEF h
<1>3. SameLifecycle(g, h)
  BY <1>1, <1>2 DEF SameLifecycle
<1>4. RuntimeOKBut(SetGroup(s, u, h), u)
  BY <1>3, ChangeFlags, OKButOne DEF SetGroup
<1> QED
  BY <1>4, FinishBackwardCommonKeeps DEF FinishBackwardWithFullGrads, h

LEMMA FinalizeBackwardKeeps ==
  ASSUME NEW s, NEW u \in Units, RuntimeOK(s)
  PROVE  RuntimeOK(FinalizeBackward(s, u))
<1> DEFINE g == s.grp[u]
           c == SetGroup(s, u, AccumulateCopyIn(g))
           w == SetGroup(s, u, WaitPostBackwardReduce(g, u))
           e == IF g.state = "SHARDED" THEN "finalize_expects_unsharded"
                                       ELSE "finalize_while_forward_resharded"
<1>1. RuntimeOK(c)
  BY AccumulateCopyInKeeps, ChangeFlags DEF SetGroup, RuntimeOK, IsRuntime, IsGroup
<1>2. RuntimeOK(w)
  <2>1. EndsReduces(s, w)
    BY WaitPostBackwardReduceKeeps
       DEF SetGroup, EndsReduces, RuntimeOK, IsRuntime, RuntimeFields
  <2> QED
    BY <2>1, EndsReducesKeeps
<1>3. RuntimeOK(Raise(s, "finalize_inside_no_sync"))
  BY OKButOne, RaiseKeeps DEF Errors
<1>4. RuntimeOK(Raise(c, e))
  BY <1>1, OKButOne, RaiseKeeps DEF Errors
<1>5. RuntimeOK(FinishBackward(c, u))
  BY <1>1, FinishBackwardWithFullGradsKeeps, FinishBackwardWithGradBucketKeeps
     DEF FinishBackward
<1>6. FinalizeBackward(s, u) \in
        {w, Raise(s, "finalize_inside_no_sync"), FinishBackward(c, u), Raise(c, e)}
  BY DEF FinalizeBackward
<1> QED
  BY <1>2, <1>3, <1>4, <1>5, <1>6

-----------------------------------------------------------------------------
(* The hooks and the optimizer *)

LEMMA PreparedKeeps ==
  ASSUME NEW s, NEW u \in Units, RuntimeOK(s)
  PROVE  RuntimeOK(SetGroup(s, u, PrepareBackwardGradStorage(s.grp[u])))
<1>1. DOMAIN s.grp[u] = GroupFields
  BY DEF RuntimeOK, IsRuntime, IsGroup
<1>2. SameLifecycle(s.grp[u], PrepareBackwardGradStorage(s.grp[u]))
  BY <1>1, PrepareBackwardGradStorageKeeps
<1> QED
  BY <1>2, ChangeFlags DEF SetGroup

LEMMA PreForwardKeeps ==
  ASSUME NEW s, NEW u \in Units, NEW gradEnabled, RuntimeOK(s)
  PROVE  RuntimeOK(PreForward(s, u, gradEnabled))
<1> DEFINE g == s.grp[u]
           h == [g EXCEPT !.seen = {}, !.final = FALSE, !.fwd = FALSE, !.bwd = FALSE]
           reset == SetGroup(s, u, h)
           entered == OnPreForward(WaitUnshard(StartUnshard(reset, u), u), u)
           prepared == SetGroup(entered, u, PrepareBackwardGradStorage(entered.grp[u]))
<1>1. SameLifecycle(g, h)
  BY DEF RuntimeOK, IsRuntime, IsGroup, SameLifecycle, GroupFields
<1> HIDE DEF h
<1>2. RuntimeOK(reset)
  BY <1>1, ChangeFlags DEF SetGroup
<1> HIDE DEF reset
<1>3. RuntimeOK(entered)
  BY <1>2, StartUnshardKeeps, WaitUnshardKeeps, OnPreForwardKeeps
<1> HIDE DEF entered
<1>4. RuntimeOK(prepared)
  BY <1>3, PreparedKeeps
<1>5. /\ RuntimeOK(Raise(s, "forward_before_backward"))
      /\ RuntimeOK(Raise(s, "forward_before_finalize"))
  BY OKButOne, RaiseKeeps DEF Errors
<1>6. PreForward(s, u, gradEnabled) \in
        {Raise(s, "forward_before_backward"), Raise(s, "forward_before_finalize"),
         prepared, entered}
  BY DEF PreForward, entered, reset, h
<1> QED
  BY <1>3, <1>4, <1>5, <1>6

LEMMA PostForwardKeeps ==
  ASSUME NEW s, NEW u \in Units, NEW gradEnabled, RuntimeOK(s)
  PROVE  RuntimeOK(PostForward(s, u, gradEnabled))
<1> DEFINE g == [s.grp[u] EXCEPT !.pend = gradEnabled]
           pending == [s EXCEPT !.grp[u] = g]
           resharded == ReshardAfterForward(pending, u, gradEnabled)
<1>1. SameLifecycle(s.grp[u], g)
  BY DEF RuntimeOK, IsRuntime, IsGroup, SameLifecycle, GroupFields
<1>2. RuntimeOK(resharded)
  BY <1>1, ChangeFlags, ReshardAfterForwardKeeps
<1>3. RuntimeOK(RecordPostForward(resharded, u))
  BY <1>2, RecordPostForwardKeeps
<1>4. PostForward(s, u, gradEnabled) \in {s, resharded, RecordPostForward(resharded, u)}
  BY DEF PostForward
<1> QED
  BY <1>2, <1>3, <1>4

LEMMA PreBackwardUnshardKeeps ==
  ASSUME NEW s, NEW u \in Units, RuntimeOK(s)
  PROVE  RuntimeOK(PreBackwardUnshard(s, u))
<1> DEFINE entered == [s EXCEPT !.grp[u] = [s.grp[u] EXCEPT !.pend = FALSE]]
           gathered == WaitUnshard(StartUnshard(entered, u), u)
           consumed == [gathered EXCEPT !.grp[u] = [gathered.grp[u] EXCEPT !.bwd = FALSE]]
           scheduled == OnPreBackward(consumed, u)
<1>1. SameLifecycle(s.grp[u], [s.grp[u] EXCEPT !.pend = FALSE])
  BY DEF RuntimeOK, IsRuntime, IsGroup, SameLifecycle, GroupFields
<1>2. RuntimeOK(entered)
  BY <1>1, ChangeFlags
<1> HIDE DEF entered
<1>3. RuntimeOK(gathered)
  BY <1>2, StartUnshardKeeps, WaitUnshardKeeps
<1> HIDE DEF gathered
<1>4. SameLifecycle(gathered.grp[u], [gathered.grp[u] EXCEPT !.bwd = FALSE])
  BY <1>3 DEF RuntimeOK, IsRuntime, IsGroup, SameLifecycle, GroupFields
<1>5. RuntimeOK(scheduled)
  BY <1>3, <1>4, ChangeFlags, OnPreBackwardKeeps
<1> HIDE DEF scheduled
<1>6. RuntimeOK(SetGroup(scheduled, u, PrepareBackwardGradStorage(scheduled.grp[u])))
  BY <1>5, PreparedKeeps
<1> QED
  BY <1>6 DEF PreBackwardUnshard, scheduled, gathered, entered

LEMMA PostAccumulateGradKeeps ==
  ASSUME NEW s, NEW u \in Units, NEW p, RuntimeOK(s)
  PROVE  RuntimeOK(PostAccumulateGrad(s, u, p))
<1> DEFINE g == [s.grp[u] EXCEPT !.seen = @ \cup {p}]
           d == [g EXCEPT !.defer = TRUE]
           deferred == AccumulateCopyIn(d)
           copied == AccumulateCopyIn(g)
<1>1. SameLifecycle(s.grp[u], g) /\ SameLifecycle(s.grp[u], d)
  BY DEF RuntimeOK, IsRuntime, IsGroup, SameLifecycle, GroupFields
<1> HIDE DEF g, d
<1>2. SameLifecycle(s.grp[u], deferred) /\ SameLifecycle(s.grp[u], copied)
  <2>1. SameLifecycle(d, deferred) /\ SameLifecycle(g, copied)
    BY <1>1, AccumulateCopyInKeeps DEF SameLifecycle
  <2> QED
    BY <1>1, <2>1 DEF SameLifecycle
<1> HIDE DEF deferred, copied
<1>3. /\ RuntimeOK(SetGroup(s, u, g)) /\ RuntimeOK(SetGroup(s, u, copied))
      /\ RuntimeOK(SetGroup(s, u, deferred))
  BY <1>1, <1>2, ChangeFlags DEF SetGroup
<1>4. RuntimeOK(FinalizeBackward(SetGroup(s, u, copied), u))
  BY <1>3, FinalizeBackwardKeeps
<1>5. RuntimeOK(ReshardAfterDeferredBackward(SetGroup(s, u, deferred), u))
  BY <1>3, ReshardAfterDeferredBackwardKeeps
<1>6. PostAccumulateGrad(s, u, p) \in
        {s, SetGroup(s, u, g), SetGroup(s, u, deferred), SetGroup(s, u, copied),
         ReshardAfterDeferredBackward(SetGroup(s, u, deferred), u),
         FinalizeBackward(SetGroup(s, u, copied), u)}
  BY DEF PostAccumulateGrad, g, d, deferred, copied
<1> QED
  BY <1>3, <1>4, <1>5, <1>6

LEMMA AccumulateGradKeeps ==
  ASSUME NEW s, NEW u \in Units, NEW p, NEW m, RuntimeOK(s)
  PROVE  RuntimeOK(AccumulateGrad(s, u, p, m))
<1>1. RuntimeOK(SetGroup(s, u, AutogradAccumulate(s.grp[u], p, m)))
  BY AutogradAccumulateKeeps, ChangeFlags
     DEF SetGroup, RuntimeOK, IsRuntime, IsGroup
<1> QED
  BY <1>1, PostAccumulateGradKeeps DEF AccumulateGrad

LEMMA PrepareStepUnitKeeps ==
  ASSUME NEW s, NEW u \in Units, RuntimeOK(s)
  PROVE  RuntimeOK(PrepareStepUnit(s, u))
<1>1. PrepareStepUnit(s, u) \in
        {s, FinalizeBackward(s, u), DiscardUnconsumedPrefetch(s, u)}
  BY DEF PrepareStepUnit
<1> QED
  BY <1>1, FinalizeBackwardKeeps, DiscardUnconsumedPrefetchKeeps

LEMMA FinishStepPreparationKeeps ==
  ASSUME NEW s, RuntimeOK(s)
  PROVE  RuntimeOK(FinishStepPreparation(s))
<1>1. OptimizerReadyError(s) \in Errors \cup {None}
  BY DEF OptimizerReadyError, Errors
<1>2. OptimizerReadyError(s) # None => RuntimeOK(Raise(s, OptimizerReadyError(s)))
  BY <1>1, OKButOne, RaiseKeeps
<1> QED
  BY <1>2, FinishBackwardIterationKeeps DEF FinishStepPreparation

LEMMA ZeroGradKeeps ==
  ASSUME NEW s, NEW setToNone, RuntimeOK(s)
  PROVE  RuntimeOK(ZeroGrad(s, setToNone)) /\ EndsReduces(s, ZeroGrad(s, setToNone))
<1> DEFINE waited == WaitAllPending(s)
           zeroed(u) == ResetGradAccumulation(
             ZeroParamGrads(WaitPostBackwardReduce(waited.grp[u], u), setToNone))
           cleared == [waited EXCEPT !.grp = [u \in Units |-> zeroed(u)]]
<1>1. RuntimeOK(waited) /\ EndsReduces(s, waited)
  BY WaitAllPendingEndsReduces, EndsReducesKeeps DEF RuntimeOK
<1> HIDE DEF waited
<1>2. ASSUME NEW u \in Units
      PROVE  /\ IsGroup(zeroed(u))
             /\ zeroed(u).state = waited.grp[u].state
             /\ zeroed(u).inflight = waited.grp[u].inflight
             /\ zeroed(u).reduce = "none"
  <2> DEFINE w == WaitPostBackwardReduce(waited.grp[u], u)
             z == ZeroParamGrads(w, setToNone)
  <2>1. /\ IsGroup(w) /\ w.state = waited.grp[u].state
        /\ w.inflight = waited.grp[u].inflight /\ w.reduce = "none"
    BY <1>1, WaitPostBackwardReduceKeeps DEF RuntimeOK, IsRuntime
  <2> HIDE DEF w
  <2>2. SameLifecycle(w, z)
    BY <2>1, ZeroParamGradsKeeps DEF IsGroup
  <2>3. SameLifecycle(z, ResetGradAccumulation(z))
    BY <2>2, ResetGradAccumulationKeeps DEF SameLifecycle
  <2> QED
    BY <2>1, <2>2, <2>3 DEF SameLifecycle, IsGroup, w
<1> HIDE DEF zeroed
<1>3. EndsReduces(waited, cleared)
  BY <1>1, <1>2 DEF EndsReduces, RuntimeOK, IsRuntime, RuntimeFields
<1>4. RuntimeOK(cleared)
  BY <1>1, <1>3, EndsReducesKeeps
<1> HIDE DEF cleared
<1>5. ZeroGrad(s, setToNone) = FinishBackwardIteration(cleared)
  BY DEF ZeroGrad, cleared, zeroed, waited
<1>6. EndsReduces(s, cleared)
  BY <1>1, <1>3, EndsReducesTransitive
<1>7. EndsReduces(cleared, FinishBackwardIteration(cleared))
  BY <1>4, SameGroupsEndsReduces
     DEF FinishBackwardIteration, RuntimeOK, IsRuntime, RuntimeFields
<1> QED
  BY <1>4, <1>5, <1>6, <1>7, FinishBackwardIterationKeeps, EndsReducesTransitive

-----------------------------------------------------------------------------
(* The training loop *)

\* The hooks a forward has still to call, and the unit a step comes to next.
LoopPlaces ==
  /\ events \in Seq({"pre", "post"} \X Units)
  /\ cursor \in Nat \ {0}

\* Inductive: once an error is raised the groups keep the state before it.
Lifecycle(s) == IsRuntime(s) /\ \A v \in Units : Consistent(s.grp[v])

LifecycleInv == LoopPlaces /\ Lifecycle(rt)

LEMMA LifecycleIsOK ==
  ASSUME NEW s, Lifecycle(s)
  PROVE  RuntimeOK(s)
BY DEF Lifecycle, RuntimeOK

LEMMA ApplyKeeps ==
  ASSUME NEW r, NEW s, Lifecycle(r), RuntimeOK(s)
  PROVE  Lifecycle(IF s.err = None THEN s ELSE [r EXCEPT !.err = s.err])
BY DEF Lifecycle, RuntimeOK, IsRuntime, RuntimeFields

\* One handler of one rank, whatever groups it is called for.
LEMMA ApplyKeepsLifecycle ==
  ASSUME NEW s, Lifecycle(rt), RuntimeOK(s), Apply(s)
  PROVE  Lifecycle(rt')
BY ApplyKeeps DEF Apply

LEMMA EveryGroupKeeps ==
  ASSUME NEW s, NEW groups, Lifecycle(s), DOMAIN groups = Units,
         \A v \in Units : IsGroup(groups[v]) /\ Consistent(groups[v])
  PROVE  RuntimeOK([s EXCEPT !.grp = groups])
BY DEF Lifecycle, RuntimeOK, IsRuntime, RuntimeFields

LEMMA CallExitNoSyncForm ==
  ASSUME Lifecycle(rt), CallExitNoSync
  PROVE  LET scope == contexts[Len(contexts)].scope
             groups == [u \in Units |-> IF u \in scope THEN LeftNoSync(rt.grp[u], u)
                                                       ELSE rt.grp[u]]
         IN  \/ rt' = [rt EXCEPT !.err = "gather_while_not_unsharded"]
             \/ /\ Apply([rt EXCEPT !.grp = groups])
                /\ \A u \in Units : rt.grp[u].inflight => groups[u].inflight
<1> DEFINE scope == contexts[Len(contexts)].scope
           groups == [u \in Units |-> IF u \in scope THEN LeftNoSync(rt.grp[u], u)
                                                     ELSE rt.grp[u]]
           e == "gather_while_not_unsharded"
<1>1. rt.err = None /\ Apply(ExitNoSyncOf(rt, scope))
  BY DEF CallExitNoSync, CanLeave, Running
<1> HIDE DEF scope, groups
<1>2. \/ ExitNoSyncOf(rt, scope) = [rt EXCEPT !.err = e]
      \/ /\ ExitNoSyncOf(rt, scope) = [rt EXCEPT !.grp = groups]
         /\ \A u \in Units : rt.grp[u].inflight => groups[u].inflight
  BY <1>1, ExitNoSyncOfForm DEF Lifecycle, groups
<1>3. [rt EXCEPT !.err = e].err = e /\ e # None
  BY NoneAssumption DEF Lifecycle, IsRuntime, RuntimeFields, Errors
<1>4. ExitNoSyncOf(rt, scope) = [rt EXCEPT !.err = e] => rt' = [rt EXCEPT !.err = e]
  BY <1>1, <1>3 DEF Apply
<1> QED
  BY <1>1, <1>2, <1>4 DEF groups, scope

LEMMA InitLifecycle == Init => LifecycleInv
BY DEF Init, LifecycleInv, LoopPlaces, Lifecycle, InitRuntime, InitGroup, IsRuntime,
       RuntimeFields, IsGroup, GroupFields, Consistent

LEMMA NextKeepsLifecycle == LifecycleInv /\ [Next]_vars => LifecycleInv'
<1> SUFFICES ASSUME LifecycleInv, [Next]_vars
             PROVE  LoopPlaces' /\ Lifecycle(rt)'
  BY DEF LifecycleInv
<1> USE DEF LifecycleInv
<1>0. RuntimeOK(rt)
  BY LifecycleIsOK
<1>1. ASSUME NEW program \in Programs, NEW g \in BOOLEAN, BeginForward(program, g)
      PROVE  LoopPlaces' /\ Lifecycle(rt)'
  BY <1>1, ForwardsAssumption DEF BeginForward, Programs, LoopPlaces
<1>2. CASE CallPreForward
  <2>1. Head(events)[2] \in Units /\ LoopPlaces'
    BY <1>2 DEF CallPreForward, LoopPlaces
  <2>2. RuntimeOK(PreForward(rt, Head(events)[2], grad))
    BY <1>0, <2>1, PreForwardKeeps
  <2> QED
    BY <1>2, <2>1, <2>2, ApplyKeepsLifecycle DEF CallPreForward
<1>3. CASE CallPostForward
  <2>1. Head(events)[2] \in Units /\ LoopPlaces'
    BY <1>3 DEF CallPostForward, LoopPlaces
  <2>2. RuntimeOK(PostForward(rt, Head(events)[2], grad))
    BY <1>0, <2>1, PostForwardKeeps
  <2> QED
    BY <1>3, <2>1, <2>2, ApplyKeepsLifecycle DEF CallPostForward
<1>4. ASSUME NEW r \in Reaches, BeginBackward(r)
      PROVE  LoopPlaces' /\ Lifecycle(rt)'
  BY <1>4 DEF BeginBackward, LoopPlaces
<1>5. CASE CallPreBackward
  <2>1. PICK i \in 1 .. Len(back) :
          Apply(IF back[i] \in Reshard THEN PreBackwardUnshard(rt, back[i]) ELSE rt)
    BY <1>5 DEF CallPreBackward
  <2> DEFINE u == back[i]
             s == IF u \in Reshard THEN PreBackwardUnshard(rt, u) ELSE rt
  <2>2. RuntimeOK(s)
    BY <1>0, ReshardAssumption, PreBackwardUnshardKeeps
  <2>3. LoopPlaces'
    BY <1>5 DEF CallPreBackward, LoopPlaces
  <2> QED
    BY <2>1, <2>2, <2>3, ApplyKeepsLifecycle
<1>6. ASSUME NEW u \in Units, NEW p \in Params, CallAccumulateGrad(u, p)
      PROVE  LoopPlaces' /\ Lifecycle(rt)'
  <2>1. RuntimeOK(AccumulateGrad(rt, u, p, micro))
    BY <1>0, AccumulateGradKeeps
  <2> QED
    BY <1>6, <2>1, ApplyKeepsLifecycle DEF CallAccumulateGrad, LoopPlaces
<1>7. CASE EndBackward
  BY <1>7 DEF EndBackward, LoopPlaces
<1>8. ASSUME NEW scope \in Scopes, CallEnterNoSync(scope)
      PROVE  LoopPlaces' /\ Lifecycle(rt)'
  <2> DEFINE groups ==
        [u \in Units |-> IF u \in scope THEN EnterNoSync(rt.grp[u]) ELSE rt.grp[u]]
  <2>1. \A v \in Units : IsGroup(groups[v]) /\ Consistent(groups[v])
    BY EnterNoSyncKeeps DEF Lifecycle, IsRuntime
  <2>2. Apply([rt EXCEPT !.grp = groups]) /\ LoopPlaces'
    BY <1>8 DEF CallEnterNoSync, LoopPlaces
  <2>3. DOMAIN groups = Units
    OBVIOUS
  <2> HIDE DEF groups
  <2> QED
    BY <2>1, <2>2, <2>3, EveryGroupKeeps, ApplyKeepsLifecycle
<1>9. CASE CallExitNoSync
  <2> DEFINE scope == contexts[Len(contexts)].scope
             groups ==
        [u \in Units |-> IF u \in scope THEN LeftNoSync(rt.grp[u], u) ELSE rt.grp[u]]
  <2>1. \A v \in Units : IsGroup(groups[v]) /\ Consistent(groups[v])
    BY LeftNoSyncKeeps DEF Lifecycle, IsRuntime
  <2>2. rt' = [rt EXCEPT !.err = "gather_while_not_unsharded"] \/ Apply([rt EXCEPT !.grp = groups])
    BY <1>9, CallExitNoSyncForm
  <2>3. DOMAIN groups = Units /\ LoopPlaces'
    BY <1>9 DEF CallExitNoSync, LoopPlaces
  <2> HIDE DEF groups
  <2>4. CASE rt' = [rt EXCEPT !.err = "gather_while_not_unsharded"]
    BY <2>3, <2>4 DEF Lifecycle, IsRuntime, RuntimeFields
  <2> QED
    BY <2>1, <2>2, <2>3, <2>4, EveryGroupKeeps, ApplyKeepsLifecycle
<1>10. CASE BeginStep
  <2>1. RuntimeOK(WaitAllPending(rt))
    BY <1>0, WaitAllPendingEndsReduces, EndsReducesKeeps DEF RuntimeOK
  <2> QED
    BY <1>10, <2>1, ApplyKeepsLifecycle DEF BeginStep, LoopPlaces
<1>11. CASE PrepareNextUnit
  <2>1. cursor \in Units
    BY <1>11, UnitCountAssumption DEF PrepareNextUnit, LoopPlaces, Units
  <2>2. RuntimeOK(PrepareStepUnit(rt, cursor))
    BY <1>0, <2>1, PrepareStepUnitKeeps
  <2> QED
    BY <1>11, <2>2, ApplyKeepsLifecycle DEF PrepareNextUnit, LoopPlaces
<1>12. CASE EndStep
  <2>1. RuntimeOK(FinishStepPreparation(rt))
    BY <1>0, FinishStepPreparationKeeps
  <2> QED
    BY <1>12, <2>1, ApplyKeepsLifecycle DEF EndStep, LoopPlaces
<1>13. ASSUME NEW setToNone \in ZeroModes, CallZeroGrad(setToNone)
       PROVE  LoopPlaces' /\ Lifecycle(rt)'
  <2>1. RuntimeOK(ZeroGrad(rt, setToNone))
    BY <1>0, ZeroGradKeeps
  <2> QED
    BY <1>13, <2>1, ApplyKeepsLifecycle DEF CallZeroGrad, LoopPlaces
<1>14. CASE UNCHANGED vars
  BY <1>14 DEF vars, LoopPlaces
<1> QED
  BY <1>1, <1>2, <1>3, <1>4, <1>5, <1>6, <1>7, <1>8, <1>9, <1>10, <1>11, <1>12, <1>13,
     <1>14 DEF Next

\* What _validate_lifecycle_invariants asserts inside a transition holds between
\* any two events of any training loop: the changes a handler makes after its
\* last transition (a wait, a handle cleared, a reduce ended) keep it.
THEOREM LifecycleAlwaysConsistent == Spec => []LifecycleConsistent
<1>1. Init => LifecycleInv
  BY InitLifecycle
<1>2. LifecycleInv /\ [Next]_vars => LifecycleInv'
  BY NextKeepsLifecycle
<1>3. LifecycleInv => LifecycleConsistent
  BY DEF LifecycleInv, Lifecycle, Consistent, LifecycleConsistent
<1> QED
  BY <1>1, <1>2, <1>3, PTL DEF Spec
=============================================================================
