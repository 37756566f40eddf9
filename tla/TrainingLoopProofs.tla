--------------------------- MODULE TrainingLoopProofs ---------------------------
(***************************************************************************)
(* What the groups of a rank owe each other, for any number of units, any  *)
(* options and budgets and any use of the caller.                          *)
(*                                                                         *)
(*   ReducesTracked              the scheduler's list of pending reduces   *)
(*                               names every reduce in flight, each at a   *)
(*                               place of its own, and is never longer     *)
(*                               than max_pending_backward_reduces         *)
(*   ParametersGatheredWhenUsed  the handlers of the other groups leave a  *)
(*                               group gathered while it computes          *)
(*   ReducedGroupsReshard        between passes, a group the last backward *)
(*                               reduced holds only its shard              *)
(*   GathersAreWaitedFor         no handler drops the handle of a gather   *)
(*                               in flight                                 *)
(*                                                                         *)
(* They rest on frame lemmas, one per handler: which reduces it may touch  *)
(* (SameReduces), which groups it leaves gathered (SparedGroup) and which  *)
(* resharded (StaysSharded), and whether it raises where its group's       *)
(* gather is in flight (Waits).                                            *)
(***************************************************************************)
EXTENDS ParamGroupLifecycleProofs, FiniteSetTheorems

\* The reduces of t are those of s, at the same places.
SameReduces(s, t) ==
  /\ t.queue = s.queue
  /\ \A v \in Units : t.grp[v].reduce = s.grp[v].reduce

\* A group is not resharded, starts no gather while it is gathered and does
\* not forget which parameters its backward has seen nor how many no_sync
\* contexts are open for it.
SparedGroup(g, h) ==
  /\ h.seen = g.seen /\ h.depth = g.depth
  /\ g.state = "UNSHARDED" => h.state = "UNSHARDED" /\ (h.inflight => g.inflight)

SparesAll(s, t) == \A v \in Units : SparedGroup(s.grp[v], t.grp[v])
SparesBut(s, t, u) == \A v \in Units \ {u} : SparedGroup(s.grp[v], t.grp[v])

\* What of a group only its own hooks, no_sync and the optimizer change.
SameGrads(g, h) ==
  /\ h.pend = g.pend /\ h.seen = g.seen
  /\ h.depth = g.depth /\ h.defer = g.defer /\ h.final = g.final
  /\ h.reduce = g.reduce /\ h.reduced = g.reduced
  /\ h.ref = g.ref /\ h.store = g.store

QuietGroup(g, h) == SparedGroup(g, h) /\ SameGrads(g, h)

\* A handler that gathers, and one that does more to the group u.
Quiet(s, t) ==
  SameReduces(s, t) /\ \A v \in Units : QuietGroup(s.grp[v], t.grp[v])
QuietBut(s, t, u) ==
  SameReduces(s, t) /\ \A v \in Units \ {u} : QuietGroup(s.grp[v], t.grp[v])

LEMMA QuietSpares ==
  ASSUME NEW s, NEW t
  PROVE  /\ Quiet(s, t) => SameReduces(s, t) /\ SparesAll(s, t)
         /\ \A u : QuietBut(s, t, u) => SameReduces(s, t) /\ SparesBut(s, t, u)
BY DEF Quiet, QuietBut, QuietGroup, SparesAll, SparesBut

LEMMA QuietTransitive ==
  ASSUME NEW r, NEW s, NEW t
  PROVE  /\ Quiet(r, s) /\ Quiet(s, t) => Quiet(r, t)
         /\ \A u : QuietBut(r, s, u) /\ QuietBut(s, t, u) => QuietBut(r, t, u)
         /\ \A u : Quiet(r, s) /\ QuietBut(s, t, u) => QuietBut(r, t, u)
         /\ \A u : QuietBut(r, s, u) /\ Quiet(s, t) => QuietBut(r, t, u)
         /\ \A u : Quiet(r, s) => QuietBut(r, s, u)
BY DEF Quiet, QuietBut, QuietGroup, SameGrads, SameReduces, SparedGroup

LEMMA QuietReflexive ==
  ASSUME NEW s
  PROVE  Quiet(s, s) /\ \A u : QuietBut(s, s, u)
BY DEF Quiet, QuietBut, QuietGroup, SameGrads, SameReduces, SparedGroup

\* Lists and lookahead sets are not part of the frame.
LEMMA SameGroupsQuiet ==
  ASSUME NEW s, NEW t, t.queue = s.queue, \A v \in Units : t.grp[v] = s.grp[v]
  PROVE  Quiet(s, t)
BY DEF Quiet, QuietGroup, SameGrads, SameReduces, SparedGroup

\* One group changes, not its reduce.
LEMMA OneGroupQuiet ==
  ASSUME NEW s, NEW u \in Units, NEW g, IsRuntime(s), g.reduce = s.grp[u].reduce
  PROVE  LET t == SetGroup(s, u, g)
         IN  /\ QuietBut(s, t, u)
             /\ QuietGroup(s.grp[u], g) => Quiet(s, t)
             /\ t.grp[u] = g
BY DEF SetGroup, Quiet, QuietBut, QuietGroup, SameGrads, SameReduces, SparedGroup,
       IsRuntime, RuntimeFields

LEMMA RaiseQuiet ==
  ASSUME NEW s, NEW e, IsRuntime(s)
  PROVE  Quiet(s, Raise(s, e))
<1>1. Raise(s, e).grp = s.grp /\ Raise(s, e).queue = s.queue
  BY DEF Raise, IsRuntime, RuntimeFields
<1> QED
  BY <1>1, SameGroupsQuiet

LEMMA ValidateQuiet ==
  ASSUME NEW s, NEW u, IsRuntime(s)
  PROVE  /\ Quiet(s, Validate(s, u))
         /\ Validate(s, u).grp = s.grp
<1>1. Validate(s, u) \in {s, Raise(s, "gather_while_not_unsharded"),
                          Raise(s, "reduce_while_not_resharded")}
  BY DEF Validate
<1>2. \A e : Raise(s, e).grp = s.grp
  BY DEF Raise, IsRuntime, RuntimeFields
<1> QED
  BY <1>1, <1>2, RaiseQuiet, QuietReflexive

LEMMA ValidatedQuiet ==
  ASSUME NEW s, NEW u \in Units, NEW g, RuntimeOK(s), IsGroup(g),
         g.reduce = s.grp[u].reduce
  PROVE  LET t == Validate(SetGroup(s, u, g), u)
         IN  /\ QuietBut(s, t, u)
             /\ t.grp[u] = g
             /\ QuietGroup(s.grp[u], g) => Quiet(s, t)
<1> DEFINE c == SetGroup(s, u, g)
           t == Validate(c, u)
<1>1. QuietBut(s, c, u) /\ (QuietGroup(s.grp[u], g) => Quiet(s, c))
  BY OneGroupQuiet DEF RuntimeOK
<1>2. IsRuntime(c) /\ c.grp[u] = g
  BY DEF SetGroup, RuntimeOK, IsRuntime, RuntimeFields
<1> HIDE DEF c
<1>3. Quiet(c, t) /\ t.grp = c.grp
  BY <1>2, ValidateQuiet
<1> HIDE DEF t
<1>4. QuietBut(s, t, u) /\ (QuietGroup(s.grp[u], g) => Quiet(s, t))
  BY <1>1, <1>3, QuietTransitive
<1>5. t.grp[u] = g
  BY <1>2, <1>3
<1> QED
  BY <1>4, <1>5 DEF t, c

-----------------------------------------------------------------------------
(* Gradients *)

\* Where gradients are kept says nothing of which were accumulated.
LEMMA GradientsKeepSeen ==
  ASSUME NEW g, DOMAIN g = GroupFields
  PROVE  /\ \A full, bucket : UseLocalShards(g, full, bucket).seen = g.seen
         /\ \A u, grads : UseLocalGradShard(g, u, grads).seen = g.seen
         /\ \A u, grads : AccumulateLocalGradShard(g, u, grads).seen = g.seen
         /\ PrepareBackwardGradStorage(g).seen = g.seen
         /\ AccumulateCopyIn(g).seen = g.seen
         /\ \A t : AfterCollect(g, t).seen = g.seen
         /\ \A p, m : AutogradAccumulate(g, p, m).seen = g.seen
<1>1. \A full, bucket : UseLocalShards(g, full, bucket).seen = g.seen
  BY DEF UseLocalShards, Drop, GroupFields
<1>2. \A u, grads : UseLocalGradShard(g, u, grads).seen = g.seen
  BY DEF UseLocalGradShard, PointGrads, GroupFields
<1>3. \A u, grads : AccumulateLocalGradShard(g, u, grads).seen = g.seen
  BY <1>2 DEF AccumulateLocalGradShard
<1>4. PrepareBackwardGradStorage(g).seen = g.seen
  BY GradPathAssumption
     DEF PrepareBackwardGradStorage, PointGrads, FreeGrads, GroupFields
<1>5. AccumulateCopyIn(g).seen = g.seen
  BY DEF AccumulateCopyIn, FreeGrads, PointGrads, GroupFields
<1>6. \A t : AfterCollect(g, t).seen = g.seen
  BY DEF AfterCollect, FreeGrads, PointGrads, GroupFields
<1>7. \A p, m : AutogradAccumulate(g, p, m).seen = g.seen
  BY DEF AutogradAccumulate, GroupFields
<1> QED
  BY <1>1, <1>2, <1>3, <1>4, <1>5, <1>6, <1>7

LEMMA GradientsKeepDepth ==
  ASSUME NEW g, DOMAIN g = GroupFields
  PROVE  /\ \A u, grads : AccumulateLocalGradShard(g, u, grads).depth = g.depth
         /\ PrepareBackwardGradStorage(g).depth = g.depth
         /\ AccumulateCopyIn(g).depth = g.depth
         /\ \A p, m : AutogradAccumulate(g, p, m).depth = g.depth
<1>1. \A u, grads : AccumulateLocalGradShard(g, u, grads).depth = g.depth
  BY DEF AccumulateLocalGradShard, UseLocalGradShard, PointGrads, GroupFields
<1>2. PrepareBackwardGradStorage(g).depth = g.depth
  BY GradPathAssumption
     DEF PrepareBackwardGradStorage, PointGrads, FreeGrads, GroupFields
<1>3. AccumulateCopyIn(g).depth = g.depth
  BY DEF AccumulateCopyIn, FreeGrads, PointGrads, GroupFields
<1>4. \A p, m : AutogradAccumulate(g, p, m).depth = g.depth
  BY DEF AutogradAccumulate, GroupFields
<1> QED
  BY <1>1, <1>2, <1>3, <1>4

-----------------------------------------------------------------------------
(* Gathers *)

LEMMA StartUnshardQuiet ==
  ASSUME NEW s, NEW u \in Units, RuntimeOK(s)
  PROVE  LET t == StartUnshard(s, u)
         IN  /\ Quiet(s, t)
             /\ t.grp[u].state = "UNSHARDED"
<1>1. CASE s.grp[u].state = "UNSHARDED"
  BY <1>1, QuietReflexive DEF StartUnshard
<1>2. CASE s.grp[u].state # "UNSHARDED"
  <2> DEFINE g == Gathering(s.grp[u])
  <2>1. SameGrads(s.grp[u], g) /\ g.state = "UNSHARDED" /\ IsGroup(g)
    BY DEF Gathering, SameGrads, RuntimeOK, IsRuntime, IsGroup, GroupFields
  <2>2. StartUnshard(s, u) = Validate(SetGroup(s, u, g), u)
    BY <1>2 DEF StartUnshard
  <2> HIDE DEF g
  <2>3. QuietGroup(s.grp[u], g) /\ g.reduce = s.grp[u].reduce
    BY <1>2, <2>1 DEF QuietGroup, SparedGroup, SameGrads
  <2>4. /\ Quiet(s, StartUnshard(s, u))
        /\ StartUnshard(s, u).grp[u] = g
    BY <2>1, <2>2, <2>3, ValidatedQuiet
  <2> QED
    BY <2>1, <2>4
<1> QED
  BY <1>1, <1>2

LEMMA WaitUnshardQuiet ==
  ASSUME NEW s, NEW u \in Units, RuntimeOK(s)
  PROVE  LET t == WaitUnshard(s, u)
         IN  /\ Quiet(s, t)
             /\ t.grp[u].state = s.grp[u].state
             /\ s.grp[u].state = "UNSHARDED" => ~t.grp[u].inflight
<1>1. CASE s.grp[u].state # "UNSHARDED"
  BY <1>1, QuietReflexive DEF WaitUnshard
<1>2. CASE s.grp[u].state = "UNSHARDED"
  <2> DEFINE g == [s.grp[u] EXCEPT !.inflight = FALSE]
  <2>1. /\ SameGrads(s.grp[u], g)
        /\ g.state = "UNSHARDED" /\ ~g.inflight /\ IsGroup(g)
    BY <1>2 DEF SameGrads, RuntimeOK, IsRuntime, IsGroup, GroupFields
  <2>2. WaitUnshard(s, u) = Validate(SetGroup(s, u, g), u)
    BY <1>2 DEF WaitUnshard, SetGroup
  <2> HIDE DEF g
  <2>3. QuietGroup(s.grp[u], g) /\ g.reduce = s.grp[u].reduce
    BY <1>2, <2>1 DEF QuietGroup, SparedGroup, SameGrads
  <2>4. /\ Quiet(s, WaitUnshard(s, u))
        /\ WaitUnshard(s, u).grp[u] = g
    BY <2>1, <2>2, <2>3, ValidatedQuiet
  <2> QED
    BY <1>2, <2>1, <2>4
<1> QED
  BY <1>1, <1>2

\* A reshard drops no gradients: there is no full buffer, and the bucket, if
\* there is one, is kept for the passes to come.
NothingToDrop(g) ==
  g.store["full"] = None /\ (g.store["bucket"] = None \/ g.defer)

LEMMA ReshardAfterForwardQuiet ==
  ASSUME NEW s, NEW u \in Units, NEW needsPreBackward, RuntimeOK(s)
  PROVE  LET t == ReshardAfterForward(s, u, needsPreBackward)
         IN  /\ QuietBut(s, t, u)
             /\ t.grp[u].seen = s.grp[u].seen
             /\ NothingToDrop(s.grp[u]) => SameGrads(s.grp[u], t.grp[u])
<1>1. CASE s.grp[u].state # "UNSHARDED"
  BY <1>1, QuietReflexive DEF ReshardAfterForward, SameGrads
<1>2. CASE s.grp[u].state = "UNSHARDED"
  <2> DEFINE g == s.grp[u]
             h == UseLocalShards(g, g.defer, g.defer)
             r == [h EXCEPT !.state = IF needsPreBackward THEN "FORWARD_RESHARDED"
                                                          ELSE "SHARDED"]
  <2>1. SameLifecycle(g, h) /\ h.seen = g.seen
    <3>1. DOMAIN g = GroupFields
      BY DEF RuntimeOK, IsRuntime, IsGroup
    <3> QED
      BY <3>1, UseLocalShardsKeeps, GradientsKeepSeen
  <2>2. ReshardAfterForward(s, u, needsPreBackward)
          = Validate(SetGroup(s, u, r), u)
    BY <1>2 DEF ReshardAfterForward
  <2>0. NothingToDrop(g) => h = g
    BY DEF NothingToDrop, UseLocalShards
  <2> HIDE DEF h
  <2>3. /\ r.reduce = g.reduce /\ r.seen = g.seen /\ IsGroup(r)
        /\ NothingToDrop(g) => SameGrads(g, r)
    BY <2>0, <2>1 DEF SameLifecycle, RuntimeOK, IsRuntime, IsGroup, GroupFields, SameGrads
  <2> HIDE DEF r
  <2> QED
    BY <2>2, <2>3, ValidatedQuiet
<1> QED
  BY <1>1, <1>2

LEMMA DiscardUnconsumedPrefetchQuiet ==
  ASSUME NEW s, NEW u \in Units, RuntimeOK(s)
  PROVE  LET t == DiscardUnconsumedPrefetch(s, u)
         IN  /\ QuietBut(s, t, u)
             /\ NothingToDrop(s.grp[u]) => SameGrads(s.grp[u], t.grp[u])
<1> DEFINE w == WaitUnshard(s, u)
           r == ReshardAfterForward(w, u, FALSE)
           g == [r.grp[u] EXCEPT !.fwd = FALSE, !.bwd = FALSE]
           t == SetGroup(r, u, g)
<1>1. RuntimeOK(w) /\ Quiet(s, w)
  BY WaitUnshardKeeps, WaitUnshardQuiet
<1>2. /\ RuntimeOK(r) /\ QuietBut(w, r, u)
      /\ NothingToDrop(w.grp[u]) => SameGrads(w.grp[u], r.grp[u])
  BY <1>1, ReshardAfterForwardKeeps, ReshardAfterForwardQuiet
<1>3. QuietBut(s, r, u)
  BY <1>1, <1>2, QuietTransitive
<1> HIDE DEF w, r
<1>4. SameGrads(r.grp[u], g)
  BY <1>2 DEF RuntimeOK, IsRuntime, IsGroup, GroupFields, SameGrads
<1>5. DiscardUnconsumedPrefetch(s, u) = t
  BY <1>2 DEF SetGroup, DiscardUnconsumedPrefetch, w, r, RuntimeOK, IsRuntime, RuntimeFields
<1> HIDE DEF g
<1>6. QuietBut(r, t, u) /\ t.grp[u] = g
  BY <1>2, <1>4, OneGroupQuiet DEF RuntimeOK, SameGrads
<1>7. SameGrads(s.grp[u], w.grp[u])
  BY <1>1 DEF Quiet, QuietGroup
<1>8. NothingToDrop(s.grp[u]) => SameGrads(s.grp[u], t.grp[u])
  BY <1>2, <1>4, <1>6, <1>7 DEF SameGrads, NothingToDrop
<1> QED
  BY <1>3, <1>5, <1>6, <1>8, QuietTransitive

-----------------------------------------------------------------------------
(* The scheduler *)

LEMMA PrefetchForwardWindowQuiet ==
  ASSUME NEW s, NEW start, RuntimeOK(s)
  PROVE  Quiet(s, PrefetchForwardWindow(s, start))
<1> DEFINE candidates == {v \in start .. UnitCount : s.grp[v].state = "SHARDED"}
           chosen == {v \in candidates :
                        Cardinality({w \in candidates : w < v}) < ForwardRoom(s)}
           ids == LiveForwardPrefetches(s) \cup chosen
           groups == [v \in Units |-> IF v \in chosen
                                        THEN [Gathering(s.grp[v]) EXCEPT !.fwd = TRUE]
                                        ELSE s.grp[v]]
           issued == [s EXCEPT !.fwdIds = ids, !.grp = groups]
           late == \E v \in chosen : s.grp[v].reduce # "none"
<1>0. PrefetchForwardWindow(s, start) =
        CASE MaxForwardPrefetch = 0 -> s
          [] MaxForwardPrefetch > 0 /\ late -> Raise(issued, "reduce_while_not_resharded")
          [] OTHER -> issued
  BY DEF PrefetchForwardWindow
<1>1. \A v \in chosen : s.grp[v].state = "SHARDED"
  OBVIOUS
<1> HIDE DEF chosen
<1>2. ASSUME NEW v \in Units
      PROVE  /\ groups[v].reduce = s.grp[v].reduce
             /\ QuietGroup(s.grp[v], groups[v])
             /\ IsGroup(groups[v])
  BY <1>1 DEF RuntimeOK, IsRuntime, IsGroup, Gathering, GroupFields, QuietGroup,
              SparedGroup, SameGrads
<1>3. /\ IsRuntime(issued) /\ issued.grp = groups
      /\ issued.queue = s.queue
  BY <1>2 DEF RuntimeOK, IsRuntime, RuntimeFields
<1> HIDE DEF issued, late, groups
<1>4. Quiet(s, issued)
  BY <1>2, <1>3 DEF Quiet, SameReduces
<1>5. Quiet(s, Raise(issued, "reduce_while_not_resharded"))
  BY <1>3, <1>4, RaiseQuiet, QuietTransitive
<1> DEFINE raised == Raise(issued, "reduce_while_not_resharded")
<1>6. PrefetchForwardWindow(s, start) \in {s, raised, issued}
  BY <1>0, BudgetAssumption
<1> HIDE DEF raised
<1> QED
  BY <1>4, <1>5, <1>6, QuietReflexive DEF raised

LEMMA OnPreForwardQuiet ==
  ASSUME NEW s, NEW u \in Units, RuntimeOK(s)
  PROVE  Quiet(s, OnPreForward(s, u))
<1> DEFINE g == [s.grp[u] EXCEPT !.fwd = FALSE]
           f == SetGroup(s, u, g)
           consumed == [s EXCEPT !.grp[u].fwd = FALSE, !.fwdIds = @ \ {u}]
<1>1. SameLifecycle(s.grp[u], g) /\ SameGrads(s.grp[u], g)
  BY DEF RuntimeOK, IsRuntime, IsGroup, SameLifecycle, SameGrads, GroupFields
<1>2. consumed.grp = f.grp /\ consumed.queue = f.queue /\ consumed.err = f.err
      /\ DOMAIN consumed = RuntimeFields
  BY DEF SetGroup, RuntimeOK, IsRuntime, RuntimeFields
<1> HIDE DEF g
<1>3. Quiet(s, f) /\ RuntimeOK(f)
  <2>1. QuietGroup(s.grp[u], g) /\ g.reduce = s.grp[u].reduce
    BY <1>1 DEF SameLifecycle, QuietGroup, SparedGroup, SameGrads
  <2> QED
    BY <1>1, <2>1, OneGroupQuiet, ChangeFlags DEF RuntimeOK, SetGroup
<1> HIDE DEF consumed, f
<1>4. Quiet(s, consumed) /\ RuntimeOK(consumed)
  BY <1>2, <1>3, SameGroupsQuiet, SameGroupsKeeps, QuietTransitive
<1>5. Quiet(s, PrefetchForwardWindow(consumed, u + 1))
  BY <1>4, PrefetchForwardWindowQuiet, QuietTransitive
<1>6. OnPreForward(s, u) \in {s, consumed, PrefetchForwardWindow(consumed, u + 1)}
  BY DEF OnPreForward, consumed
<1> QED
  BY <1>4, <1>5, <1>6, QuietReflexive

LEMMA RecordPostForwardQuiet ==
  ASSUME NEW s, NEW u \in Units, RuntimeOK(s)
  PROVE  Quiet(s, RecordPostForward(s, u))
<1> DEFINE recorded == [s EXCEPT !.order = Append(@, u),
                                 !.idx[u] = Append(@, Len(s.order) + 1)]
<1>1. DOMAIN recorded = RuntimeFields /\ recorded.grp = s.grp
      /\ recorded.err = s.err /\ recorded.queue = s.queue
  BY DEF RuntimeOK, IsRuntime, RuntimeFields
<1>2. RuntimeOK(recorded) /\ Quiet(s, recorded)
  BY <1>1, SameGroupsKeeps, SameGroupsQuiet
<1> HIDE DEF recorded
<1>3. Quiet(s, PrefetchForwardWindow(recorded, u + 1))
  BY <1>2, PrefetchForwardWindowQuiet, QuietTransitive
<1>4. RecordPostForward(s, u) \in {recorded, PrefetchForwardWindow(recorded, u + 1)}
  BY DEF RecordPostForward, recorded
<1> QED
  BY <1>2, <1>3, <1>4

LEMMA IssueBackwardPrefetchToUnitQuiet ==
  ASSUME NEW s, NEW v \in Units, RuntimeOK(s)
  PROVE  Quiet(s, IssueBackwardPrefetch(s, v))
<1> DEFINE g == [s.grp[v] EXCEPT !.bwd = TRUE]
           b == SetGroup(s, v, g)
           t == [s EXCEPT !.grp[v].bwd = TRUE, !.bwdIds = @ \cup {v}]
<1>1. SameLifecycle(s.grp[v], g) /\ SameGrads(s.grp[v], g)
  BY DEF RuntimeOK, IsRuntime, IsGroup, SameLifecycle, SameGrads, GroupFields
<1>2. t.grp = b.grp /\ t.queue = b.queue /\ t.err = b.err /\ DOMAIN t = RuntimeFields
  BY DEF SetGroup, RuntimeOK, IsRuntime, RuntimeFields
<1> HIDE DEF g
<1>3. Quiet(s, b) /\ RuntimeOK(b)
  <2>1. QuietGroup(s.grp[v], g) /\ g.reduce = s.grp[v].reduce
    BY <1>1 DEF SameLifecycle, QuietGroup, SparedGroup, SameGrads
  <2> QED
    BY <1>1, <2>1, OneGroupQuiet, ChangeFlags DEF RuntimeOK, SetGroup
<1> HIDE DEF t, b
<1>4. Quiet(s, t) /\ RuntimeOK(t)
  BY <1>2, <1>3, SameGroupsQuiet, SameGroupsKeeps, QuietTransitive
<1>5. Quiet(s, StartUnshard(t, v))
  BY <1>4, StartUnshardQuiet, QuietTransitive
<1>6. IssueBackwardPrefetch(s, v) \in {s, StartUnshard(t, v)}
  BY DEF IssueBackwardPrefetch, t
<1> QED
  BY <1>5, <1>6, QuietReflexive

\* Also when there is no unit to prefetch.
LEMMA IssueBackwardPrefetchQuiet ==
  ASSUME NEW s, NEW v, RuntimeOK(s)
  PROVE  Quiet(s, IssueBackwardPrefetch(s, v))
<1>1. CASE v \in Units
  BY <1>1, IssueBackwardPrefetchToUnitQuiet
<1>2. CASE v \notin Units
  <2> DEFINE t == [s EXCEPT !.grp[v].bwd = TRUE, !.bwdIds = @ \cup {v}]
             c == SetGroup(t, v, Gathering(t.grp[v]))
  <2>1. /\ \A w \in Units : t.grp[w] = s.grp[w]
        /\ t.queue = s.queue /\ IsRuntime(t)
    BY <1>2 DEF RuntimeOK, IsRuntime, RuntimeFields
  <2> HIDE DEF t
  <2>2. /\ \A w \in Units : c.grp[w] = s.grp[w]
        /\ c.queue = s.queue /\ IsRuntime(c)
    BY <1>2, <2>1 DEF SetGroup, IsRuntime, RuntimeFields
  <2> HIDE DEF c
  <2>3. Quiet(s, t) /\ Quiet(s, c)
    BY <2>1, <2>2, SameGroupsQuiet
  <2>4. Quiet(s, Validate(c, v))
    BY <2>2, <2>3, ValidateQuiet, QuietTransitive
  <2>5. IssueBackwardPrefetch(s, v) \in {s, t, Validate(c, v)}
    BY DEF IssueBackwardPrefetch, StartUnshard, t, c
  <2> QED
    BY <2>3, <2>4, <2>5, QuietReflexive
<1> QED
  BY <1>1, <1>2

LEMMA PrefetchPreviousBackwardUnitQuiet ==
  ASSUME NEW s, NEW u, RuntimeOK(s)
  PROVE  Quiet(s, PrefetchPreviousBackwardUnit(s, u))
<1> DEFINE target == BackwardPrefetchTarget(s, u)
           live == IF MaxBackwardPrefetch = 0 THEN s.bwdIds
                   ELSE {v \in s.bwdIds : s.grp[v].bwd}
           consumed == [s EXCEPT
             !.idx[u] = IF HasPostForwardEntry(s, u) THEN SubSeq(@, 1, Len(@) - 1) ELSE @,
             !.bwdIds = live]
           later == [consumed EXCEPT !.deferred = target]
<1>1. /\ DOMAIN consumed = RuntimeFields
      /\ consumed.grp = s.grp /\ consumed.err = s.err /\ consumed.queue = s.queue
  BY DEF RuntimeOK, IsRuntime, RuntimeFields
<1> HIDE DEF consumed, target
<1>2. /\ later.grp = s.grp /\ later.queue = s.queue
  BY <1>1 DEF RuntimeFields
<1> HIDE DEF later
<1>3. RuntimeOK(consumed) /\ Quiet(s, consumed) /\ Quiet(s, later)
  BY <1>1, <1>2, SameGroupsKeeps, SameGroupsQuiet
<1>4. Quiet(s, IssueBackwardPrefetch(consumed, target))
  BY <1>3, IssueBackwardPrefetchQuiet, QuietTransitive
<1>5. PrefetchPreviousBackwardUnit(s, u)
        \in {s, consumed, later, IssueBackwardPrefetch(consumed, target)}
  BY DEF PrefetchPreviousBackwardUnit, consumed, target, later
<1> QED
  BY <1>3, <1>4, <1>5, QuietReflexive

LEMMA OnPreBackwardQuiet ==
  ASSUME NEW s, NEW u \in Units, RuntimeOK(s)
  PROVE  Quiet(s, OnPreBackward(s, u))
<1> DEFINE g == [s.grp[u] EXCEPT !.bwd = FALSE]
           b == SetGroup(s, u, g)
           t == [s EXCEPT !.grp[u].bwd = FALSE, !.bwdIds = @ \ {u}]
<1>1. SameLifecycle(s.grp[u], g) /\ SameGrads(s.grp[u], g)
  BY DEF RuntimeOK, IsRuntime, IsGroup, SameLifecycle, SameGrads, GroupFields
<1>2. t.grp = b.grp /\ t.queue = b.queue /\ t.err = b.err /\ DOMAIN t = RuntimeFields
  BY DEF SetGroup, RuntimeOK, IsRuntime, RuntimeFields
<1> HIDE DEF g
<1>3. Quiet(s, b) /\ RuntimeOK(b)
  <2>1. QuietGroup(s.grp[u], g) /\ g.reduce = s.grp[u].reduce
    BY <1>1 DEF SameLifecycle, QuietGroup, SparedGroup, SameGrads
  <2> QED
    BY <1>1, <2>1, OneGroupQuiet, ChangeFlags DEF RuntimeOK, SetGroup
<1> HIDE DEF t, b
<1>4. Quiet(s, t) /\ RuntimeOK(t)
  BY <1>2, <1>3, SameGroupsQuiet, SameGroupsKeeps, QuietTransitive
<1>5. Quiet(s, PrefetchPreviousBackwardUnit(t, u))
  BY <1>4, PrefetchPreviousBackwardUnitQuiet, QuietTransitive
<1>6. OnPreBackward(s, u) \in {s, PrefetchPreviousBackwardUnit(t, u)}
  BY DEF OnPreBackward, t
<1> QED
  BY <1>5, <1>6, QuietReflexive

LEMMA OnPostBackwardReshardQuiet ==
  ASSUME NEW s, NEW u, RuntimeOK(s)
  PROVE  Quiet(s, OnPostBackwardReshard(s, u))
<1> DEFINE t == [s EXCEPT !.deferred = None]
<1>1. /\ DOMAIN t = RuntimeFields /\ t.grp = s.grp /\ t.err = s.err
      /\ t.queue = s.queue
  BY DEF RuntimeOK, IsRuntime, RuntimeFields
<1>2. RuntimeOK(t) /\ Quiet(s, t)
  BY <1>1, SameGroupsKeeps, SameGroupsQuiet
<1> HIDE DEF t
<1>3. Quiet(s, IssueBackwardPrefetch(t, s.deferred))
  BY <1>2, IssueBackwardPrefetchQuiet, QuietTransitive
<1>4. OnPostBackwardReshard(s, u) \in
        {s, IssueBackwardPrefetch(t, s.deferred), PrefetchPreviousBackwardUnit(s, u)}
  BY DEF OnPostBackwardReshard, t
<1> QED
  BY <1>3, <1>4, PrefetchPreviousBackwardUnitQuiet, QuietReflexive

LEMMA FinishBackwardCommonQuiet ==
  ASSUME NEW s, NEW u \in Units, RuntimeOKBut(s, u)
  PROVE  LET t == FinishBackwardCommon(s, u)
         IN  QuietBut(s, t, u) /\ t.grp[u] = FinishedGroup(s.grp[u])
<1> DEFINE g == FinishedGroup(s.grp[u])
           done == SetGroup(s, u, g)
           e == "gather_while_not_unsharded"
<1>1. IsGroup(g) /\ g.reduce = s.grp[u].reduce
  BY DEF FinishedGroup, Sharded, RuntimeOKBut, IsRuntime, IsGroup, GroupFields
<1>2. FinishBackwardCommon(s, u) \in {done, [done EXCEPT !.err = e]}
  BY FinishBackwardCommonForm DEF RuntimeOKBut
<1> HIDE DEF g
<1>3. QuietBut(s, done, u) /\ done.grp[u] = g
  BY <1>1, OneGroupQuiet DEF RuntimeOKBut
<1>4. IsRuntime(done)
  BY <1>1 DEF SetGroup, RuntimeOKBut, IsRuntime, RuntimeFields
<1> HIDE DEF done
<1>5. [done EXCEPT !.err = e].grp = done.grp /\ [done EXCEPT !.err = e].queue = done.queue
  BY <1>4 DEF IsRuntime, RuntimeFields
<1>6. Quiet(done, [done EXCEPT !.err = e])
  BY <1>5, SameGroupsQuiet
<1>7. QuietBut(s, [done EXCEPT !.err = e], u) /\ [done EXCEPT !.err = e].grp[u] = g
  BY <1>3, <1>5, <1>6, QuietTransitive
<1> QED
  BY <1>2, <1>3, <1>7 DEF g

LEMMA ReshardAfterDeferredBackwardQuiet ==
  ASSUME NEW s, NEW u \in Units, RuntimeOK(s)
  PROVE  LET t == ReshardAfterDeferredBackward(s, u)
         IN  QuietBut(s, t, u) /\ t.grp[u] = ReshardedDeferred(s.grp[u])
<1> DEFINE g == ReshardedDeferred(s.grp[u])
           done == SetGroup(s, u, g)
           e == "gather_while_not_unsharded"
           t == ReshardAfterDeferredBackward(s, u)
<1>1. IsGroup(g) /\ g.reduce = s.grp[u].reduce
  BY DEF ReshardedDeferred, Sharded, RuntimeOK, IsRuntime, IsGroup, GroupFields
<1>2. (t = s /\ g = s.grp[u]) \/ t \in {done, [done EXCEPT !.err = e]}
  BY ReshardAfterDeferredBackwardForm DEF RuntimeOK
<1> HIDE DEF g, t
<1>3. QuietBut(s, done, u) /\ done.grp[u] = g
  BY <1>1, OneGroupQuiet DEF RuntimeOK
<1>4. IsRuntime(done)
  BY <1>1 DEF SetGroup, RuntimeOK, IsRuntime, RuntimeFields
<1> HIDE DEF done
<1>5. [done EXCEPT !.err = e].grp = done.grp /\ [done EXCEPT !.err = e].queue = done.queue
  BY <1>4 DEF IsRuntime, RuntimeFields
<1>6. Quiet(done, [done EXCEPT !.err = e])
  BY <1>5, SameGroupsQuiet
<1>7. QuietBut(s, [done EXCEPT !.err = e], u) /\ [done EXCEPT !.err = e].grp[u] = g
  BY <1>3, <1>5, <1>6, QuietTransitive
<1> QED
  BY <1>2, <1>3, <1>7, QuietReflexive DEF g, t

-----------------------------------------------------------------------------
(* The hooks *)

\* The parameters of u are there.
Gathered(s, u) == s.grp[u].state = "UNSHARDED" /\ ~s.grp[u].inflight

LEMMA QuietKeepsGathered ==
  ASSUME NEW s, NEW t, NEW u \in Units, Quiet(s, t), Gathered(s, u)
  PROVE  Gathered(t, u)
BY DEF Quiet, QuietGroup, SparedGroup, Gathered

LEMMA UnshardGathers ==
  ASSUME NEW s, NEW u \in Units, RuntimeOK(s)
  PROVE  LET t == WaitUnshard(StartUnshard(s, u), u)
         IN  RuntimeOK(t) /\ Quiet(s, t) /\ Gathered(t, u)
<1> DEFINE started == StartUnshard(s, u)
           t == WaitUnshard(started, u)
<1>1. RuntimeOK(started) /\ Quiet(s, started) /\ started.grp[u].state = "UNSHARDED"
  BY StartUnshardKeeps, StartUnshardQuiet
<1> HIDE DEF started
<1>2. RuntimeOK(t) /\ Quiet(started, t) /\ Gathered(t, u)
  BY <1>1, WaitUnshardKeeps, WaitUnshardQuiet DEF Gathered
<1> HIDE DEF t
<1>3. RuntimeOK(t) /\ Quiet(s, t) /\ Gathered(t, u)
  BY <1>1, <1>2, QuietTransitive
<1> QED
  BY <1>3 DEF t, started

\* New storage for gradients concerns no other part of a group.
LEMMA PreparedQuiet ==
  ASSUME NEW s, NEW u \in Units, RuntimeOK(s)
  PROVE  LET g == PrepareBackwardGradStorage(s.grp[u])
             t == SetGroup(s, u, g)
         IN  /\ QuietBut(s, t, u)
             /\ t.grp[u] = g
             /\ SparedGroup(s.grp[u], g)
             /\ Gathered(s, u) => Gathered(t, u)
<1> DEFINE g == PrepareBackwardGradStorage(s.grp[u])
<1>1. DOMAIN s.grp[u] = GroupFields
  BY DEF RuntimeOK, IsRuntime, IsGroup
<1>2. /\ SameLifecycle(s.grp[u], g)
      /\ g.seen = s.grp[u].seen /\ g.depth = s.grp[u].depth
  BY <1>1, PrepareBackwardGradStorageKeeps, GradientsKeepSeen, GradientsKeepDepth
<1> HIDE DEF g
<1>3. SparedGroup(s.grp[u], g) /\ g.reduce = s.grp[u].reduce
  BY <1>2 DEF SameLifecycle, SparedGroup
<1>4. QuietBut(s, SetGroup(s, u, g), u) /\ SetGroup(s, u, g).grp[u] = g
  BY <1>3, OneGroupQuiet DEF RuntimeOK
<1>5. Gathered(s, u) => Gathered(SetGroup(s, u, g), u)
  BY <1>2, <1>4 DEF Gathered, SameLifecycle
<1> QED
  BY <1>3, <1>4, <1>5 DEF g

LEMMA RaiseSetsError ==
  ASSUME NEW s, NEW e \in Errors, IsRuntime(s)
  PROVE  Raise(s, e).err # None
BY NoneAssumption DEF Raise, IsRuntime, RuntimeFields

\* h is the group g with storage for the gradients of a backward.
PreparedAs(g, h) ==
  \E e : /\ DOMAIN e = GroupFields /\ SameGrads(g, e)
         /\ h = PrepareBackwardGradStorage(e)

\* A forward hook that does not raise leaves its group gathered and has
\* forgotten the parameters of the last backward; it prepares a group that
\* does not reshard for the gradients of the next.
LEMMA PreForwardQuiet ==
  ASSUME NEW s, NEW u \in Units, NEW gradEnabled, RuntimeOK(s)
  PROVE  LET t == PreForward(s, u, gradEnabled)
         IN  /\ QuietBut(s, t, u)
             /\ t.err = None =>
                  /\ Gathered(t, u) /\ t.grp[u].seen = {}
                  /\ ~s.grp[u].pend
                  /\ IF gradEnabled /\ u \notin Reshard
                       THEN PreparedAs([s.grp[u] EXCEPT !.seen = {}, !.final = FALSE],
                                       t.grp[u])
                       ELSE SameGrads([s.grp[u] EXCEPT !.seen = {}, !.final = FALSE],
                                      t.grp[u])
<1> DEFINE g == s.grp[u]
           h == [g EXCEPT !.seen = {}, !.final = FALSE, !.fwd = FALSE, !.bwd = FALSE]
           f == [g EXCEPT !.seen = {}, !.final = FALSE]
           reset == SetGroup(s, u, h)
           gathered == WaitUnshard(StartUnshard(reset, u), u)
           entered == OnPreForward(gathered, u)
           prepared == SetGroup(entered, u, PrepareBackwardGradStorage(entered.grp[u]))
<1>1. SameLifecycle(g, h) /\ SameGrads(f, h) /\ h.seen = {}
  BY DEF RuntimeOK, IsRuntime, IsGroup, SameLifecycle, SameGrads, GroupFields
<1> HIDE DEF h, f
<1>2. RuntimeOK(reset) /\ QuietBut(s, reset, u) /\ reset.grp[u] = h
  <2>1. RuntimeOK(reset)
    BY <1>1, ChangeFlags DEF SetGroup
  <2>2. IsRuntime(s) /\ h.reduce = s.grp[u].reduce
    BY <1>1 DEF SameLifecycle, RuntimeOK
  <2> QED
    BY <1>1, <2>1, <2>2, OneGroupQuiet
<1> HIDE DEF reset
<1>3. RuntimeOK(gathered) /\ Quiet(reset, gathered) /\ Gathered(gathered, u)
  BY <1>2, UnshardGathers
<1> HIDE DEF gathered
<1>4. RuntimeOK(entered) /\ Quiet(gathered, entered)
  BY <1>3, OnPreForwardKeeps, OnPreForwardQuiet
<1> DEFINE e == entered.grp[u]
<1>5. DOMAIN e = GroupFields
  BY <1>4 DEF RuntimeOK, IsRuntime, IsGroup
<1> HIDE DEF entered
<1>6. /\ Quiet(reset, entered) /\ Gathered(entered, u)
      /\ SameGrads(h, e)
  <2>1. Quiet(reset, entered)
    BY <1>3, <1>4, QuietTransitive
  <2> QED
    BY <1>2, <1>3, <1>4, <2>1, QuietKeepsGathered DEF Quiet, QuietGroup
<1>7. /\ QuietBut(entered, prepared, u) /\ Gathered(prepared, u)
      /\ prepared.grp[u] = PrepareBackwardGradStorage(e)
      /\ SparedGroup(e, PrepareBackwardGradStorage(e))
  BY <1>4, <1>6, PreparedQuiet
<1> HIDE DEF prepared
<1>8. SameGrads(f, e) /\ e.seen = {} /\ prepared.grp[u].seen = {}
  BY <1>1, <1>6, <1>7 DEF SameGrads, SparedGroup
<1>9. QuietBut(s, entered, u) /\ QuietBut(s, prepared, u)
  BY <1>2, <1>6, <1>7, QuietTransitive
<1> DEFINE late == Raise(s, "forward_before_backward")
           unfinished == Raise(s, "forward_before_finalize")
<1>10. /\ late.err # None /\ unfinished.err # None
       /\ QuietBut(s, late, u) /\ QuietBut(s, unfinished, u)
  BY RaiseSetsError, RaiseQuiet, QuietTransitive DEF RuntimeOK, Errors
<1> HIDE DEF late, unfinished
<1>11. \/ PreForward(s, u, gradEnabled) \in {late, unfinished}
       \/ /\ ~g.pend
          /\ PreForward(s, u, gradEnabled) =
               IF gradEnabled /\ u \notin Reshard THEN prepared ELSE entered
  BY DEF PreForward, prepared, entered, gathered, reset, h, late, unfinished
<1>12. QuietBut(s, PreForward(s, u, gradEnabled), u)
  BY <1>9, <1>10, <1>11
<1>13. ASSUME PreForward(s, u, gradEnabled).err = None
       PROVE  LET t == PreForward(s, u, gradEnabled)
              IN  /\ Gathered(t, u) /\ t.grp[u].seen = {}
                  /\ ~g.pend
                  /\ t.grp[u] = IF gradEnabled /\ u \notin Reshard
                                  THEN PrepareBackwardGradStorage(e) ELSE e
  BY <1>6, <1>7, <1>8, <1>10, <1>11, <1>13
<1> HIDE DEF e
<1> QED
  BY <1>5, <1>8, <1>12, <1>13 DEF f, PreparedAs

LEMMA PostForwardQuiet ==
  ASSUME NEW s, NEW u \in Units, NEW gradEnabled, RuntimeOK(s)
  PROVE  LET t == PostForward(s, u, gradEnabled)
         IN  /\ QuietBut(s, t, u)
             /\ t.grp[u].seen = s.grp[u].seen
             /\ u \notin Reshard => t = s
             /\ u \in Reshard /\ NothingToDrop(s.grp[u]) =>
                  SameGrads([s.grp[u] EXCEPT !.pend = gradEnabled], t.grp[u])
<1> DEFINE g == [s.grp[u] EXCEPT !.pend = gradEnabled]
           pending == SetGroup(s, u, g)
           resharded == ReshardAfterForward(pending, u, gradEnabled)
           recorded == RecordPostForward(resharded, u)
<1>1. /\ SameLifecycle(s.grp[u], g) /\ g.seen = s.grp[u].seen
      /\ NothingToDrop(s.grp[u]) => NothingToDrop(g)
  BY DEF RuntimeOK, IsRuntime, IsGroup, SameLifecycle, GroupFields, NothingToDrop
<1>2. pending = [s EXCEPT !.grp[u].pend = gradEnabled]
  BY DEF SetGroup, RuntimeOK, IsRuntime, RuntimeFields
<1> HIDE DEF g
<1>3. RuntimeOK(pending) /\ QuietBut(s, pending, u)
      /\ pending.grp[u] = g
  <2>1. RuntimeOK(pending)
    BY <1>1, ChangeFlags DEF SetGroup
  <2>2. IsRuntime(s) /\ g.reduce = s.grp[u].reduce
    BY <1>1 DEF SameLifecycle, RuntimeOK
  <2> QED
    BY <1>1, <2>1, <2>2, OneGroupQuiet
<1> HIDE DEF pending
<1>4. /\ RuntimeOK(resharded) /\ QuietBut(pending, resharded, u)
      /\ resharded.grp[u].seen = g.seen
      /\ NothingToDrop(g) => SameGrads(g, resharded.grp[u])
  BY <1>3, ReshardAfterForwardKeeps, ReshardAfterForwardQuiet
<1> HIDE DEF resharded
<1>5. Quiet(resharded, recorded)
  BY <1>4, RecordPostForwardQuiet
<1> HIDE DEF recorded
<1>6. QuietBut(s, resharded, u) /\ QuietBut(s, recorded, u)
  BY <1>3, <1>4, <1>5, QuietTransitive
<1>7. SameGrads(resharded.grp[u], recorded.grp[u])
  BY <1>5 DEF Quiet, QuietGroup
<1>8. /\ resharded.grp[u].seen = s.grp[u].seen /\ recorded.grp[u].seen = s.grp[u].seen
      /\ NothingToDrop(s.grp[u]) => SameGrads(g, resharded.grp[u])
                                      /\ SameGrads(g, recorded.grp[u])
  BY <1>1, <1>4, <1>7 DEF SameGrads
<1>9. PostForward(s, u, gradEnabled)
        \in IF u \in Reshard THEN {resharded, recorded} ELSE {s}
  BY <1>2 DEF PostForward, resharded, recorded
<1> QED
  BY <1>6, <1>8, <1>9, QuietReflexive DEF g

\* The output hook gathers its group, prefetches another and prepares its own
\* for the gradients to come.
LEMMA PreBackwardUnshardQuiet ==
  ASSUME NEW s, NEW u \in Units, RuntimeOK(s)
  PROVE  LET t == PreBackwardUnshard(s, u)
         IN  /\ QuietBut(s, t, u) /\ SparesAll(s, t) /\ Gathered(t, u)
             /\ PreparedAs([s.grp[u] EXCEPT !.pend = FALSE], t.grp[u])
<1> DEFINE g == [s.grp[u] EXCEPT !.pend = FALSE]
           entered == SetGroup(s, u, g)
           gathered == WaitUnshard(StartUnshard(entered, u), u)
           h == [gathered.grp[u] EXCEPT !.bwd = FALSE]
           consumed == SetGroup(gathered, u, h)
           scheduled == OnPreBackward(consumed, u)
           prepared == SetGroup(scheduled, u, PrepareBackwardGradStorage(scheduled.grp[u]))
<1>1. /\ SameLifecycle(s.grp[u], g)
      /\ g.seen = s.grp[u].seen /\ g.depth = s.grp[u].depth
  BY DEF RuntimeOK, IsRuntime, IsGroup, SameLifecycle, GroupFields
<1>2. entered = [s EXCEPT !.grp[u].pend = FALSE]
  BY DEF SetGroup, RuntimeOK, IsRuntime, RuntimeFields
<1> HIDE DEF g
<1>3. /\ RuntimeOK(entered) /\ QuietBut(s, entered, u)
      /\ SparesAll(s, entered) /\ entered.grp[u] = g
  <2>1. RuntimeOK(entered)
    BY <1>1, ChangeFlags DEF SetGroup
  <2>2. IsRuntime(s) /\ SparedGroup(s.grp[u], g) /\ g.reduce = s.grp[u].reduce
    BY <1>1 DEF SameLifecycle, SparedGroup, RuntimeOK
  <2>3. QuietBut(s, entered, u) /\ entered.grp[u] = g
    BY <2>1, <2>2, OneGroupQuiet
  <2>4. SparesAll(s, entered)
    BY <2>2, <2>3, QuietSpares DEF SparesAll, SparesBut
  <2> QED
    BY <2>1, <2>3, <2>4
<1> HIDE DEF entered
<1>4. RuntimeOK(gathered) /\ Quiet(entered, gathered) /\ Gathered(gathered, u)
  BY <1>3, UnshardGathers
<1>5. consumed = [gathered EXCEPT !.grp[u].bwd = FALSE]
  BY <1>4 DEF SetGroup, RuntimeOK, IsRuntime, RuntimeFields
<1> HIDE DEF gathered
<1>6. SameLifecycle(gathered.grp[u], h) /\ SameGrads(gathered.grp[u], h)
  BY <1>4 DEF RuntimeOK, IsRuntime, IsGroup, SameLifecycle, SameGrads, GroupFields
<1> HIDE DEF h
<1>7. RuntimeOK(consumed) /\ Quiet(gathered, consumed)
  <2>1. RuntimeOK(consumed)
    BY <1>4, <1>6, ChangeFlags DEF SetGroup
  <2>2. /\ IsRuntime(gathered) /\ QuietGroup(gathered.grp[u], h)
        /\ h.reduce = gathered.grp[u].reduce
    BY <1>4, <1>6 DEF SameLifecycle, QuietGroup, SparedGroup, SameGrads, RuntimeOK
  <2> QED
    BY <2>1, <2>2, OneGroupQuiet
<1> HIDE DEF consumed
<1>8. RuntimeOK(scheduled) /\ Quiet(consumed, scheduled)
  BY <1>7, OnPreBackwardKeeps, OnPreBackwardQuiet
<1> DEFINE e == scheduled.grp[u]
<1>9. DOMAIN e = GroupFields
  BY <1>8 DEF RuntimeOK, IsRuntime, IsGroup
<1> HIDE DEF scheduled
<1>10. Quiet(entered, scheduled) /\ Gathered(scheduled, u)
  BY <1>4, <1>7, <1>8, QuietTransitive, QuietKeepsGathered
<1>11. SameGrads(g, e) /\ SparesAll(s, scheduled) /\ QuietBut(s, scheduled, u)
  BY <1>3, <1>10, QuietTransitive, QuietSpares
     DEF Quiet, QuietGroup, SparesAll, SparedGroup
<1>12. /\ QuietBut(scheduled, prepared, u) /\ SparedGroup(e, prepared.grp[u])
       /\ Gathered(prepared, u)
       /\ prepared.grp[u] = PrepareBackwardGradStorage(e)
  BY <1>8, <1>10, PreparedQuiet
<1>13. PreBackwardUnshard(s, u) = prepared
  BY <1>2, <1>5 DEF PreBackwardUnshard, prepared, scheduled, gathered
<1> HIDE DEF prepared
<1>14. QuietBut(s, prepared, u)
  BY <1>11, <1>12, QuietTransitive
<1>15. SparesAll(s, prepared)
  BY <1>11, <1>12, <1>14, QuietSpares DEF SparesAll, SparesBut, SparedGroup
<1> HIDE DEF e
<1> QED
  BY <1>9, <1>11, <1>12, <1>13, <1>14, <1>15 DEF g, PreparedAs

-----------------------------------------------------------------------------
(* The list of pending reduces *)

Reducing(s) == {v \in Units : s.grp[v].reduce # "none"}
Listed(s) == {v \in Units : s.queue[v] > 0}

\* Every listed unit has a place of its own.
Places(s) ==
  /\ s.queue \in [Units -> Nat]
  /\ \A v, w \in Units : v # w /\ s.queue[v] > 0 => s.queue[w] # s.queue[v]

Tracked(s) == Places(s) /\ Reducing(s) \subseteq Listed(s)

ReduceBound(s) == Tracked(s) /\ Cardinality(Reducing(s)) <= MaxPendingReduces

LEMMA UnitsFinite ==
  /\ IsFiniteSet(Units) /\ Cardinality(Units) = UnitCount
  /\ \A S \in SUBSET Units : /\ IsFiniteSet(S) /\ Cardinality(S) \in Nat
                             /\ Cardinality(S) <= UnitCount
<1>1. IsFiniteSet(Units) /\ Cardinality(Units) = UnitCount
  BY FS_Interval, UnitCountAssumption DEF Units
<1> QED
  BY <1>1, FS_Subset, FS_CardinalityType

LEMMA FewerUnits ==
  ASSUME NEW S \in SUBSET Units, NEW T \in SUBSET S
  PROVE  Cardinality(T) <= Cardinality(S)
BY UnitsFinite, FS_Subset

LEMMA SubsetsOfUnits ==
  ASSUME NEW s
  PROVE  Reducing(s) \in SUBSET Units /\ Listed(s) \in SUBSET Units
BY DEF Reducing, Listed

\* What changes no place and starts no reduce keeps the bound.
LEMMA FewerReducesKeepBound ==
  ASSUME NEW s, NEW t, ReduceBound(s), t.queue = s.queue,
         \A v \in Units : t.grp[v].reduce \in {s.grp[v].reduce, "none"}
  PROVE  ReduceBound(t)
<1>1. Reducing(t) \in SUBSET Reducing(s)
  BY DEF Reducing
<1>2. Cardinality(Reducing(t)) <= Cardinality(Reducing(s))
  BY <1>1, FewerUnits, SubsetsOfUnits
<1>3. /\ Cardinality(Reducing(t)) \in Nat /\ Cardinality(Reducing(s)) \in Nat
  BY UnitsFinite, SubsetsOfUnits
<1>4. Tracked(t)
  BY <1>1 DEF ReduceBound, Tracked, Places, Listed
<1> QED
  BY <1>2, <1>3, <1>4, BudgetAssumption DEF ReduceBound

LEMMA SameReducesKeepBound ==
  ASSUME NEW s, NEW t, ReduceBound(s), SameReduces(s, t)
  PROVE  ReduceBound(t)
BY FewerReducesKeepBound DEF SameReduces

\* The place of v in L ordered by q, counted from 1.
Rank(L, q, v) == Cardinality({w \in L : q[w] <= q[v]})

LEMMA RankLess ==
  ASSUME NEW L, IsFiniteSet(L), NEW q, \A v \in L : q[v] \in Nat,
         NEW v \in L, NEW w \in L, q[v] < q[w]
  PROVE  Rank(L, q, v) < Rank(L, q, w)
<1> DEFINE V == {x \in L : q[x] <= q[v]}
           W == {x \in L : q[x] <= q[w]}
<1>1. V \in SUBSET W
  <2> SUFFICES ASSUME NEW x \in L, q[x] <= q[v]
               PROVE  q[x] <= q[w]
    OBVIOUS
  <2>1. q[x] \in Nat /\ q[v] \in Nat /\ q[w] \in Nat
    OBVIOUS
  <2> QED
    BY <2>1
<1>2. w \in W /\ w \notin V
  <2>1. q[v] \in Nat /\ q[w] \in Nat
    OBVIOUS
  <2> QED
    BY <2>1
<1>3. IsFiniteSet(W)
  <2>1. W \in SUBSET L
    OBVIOUS
  <2> QED
    BY <2>1, FS_Subset
<1> HIDE DEF V, W
<1>4. /\ Cardinality(V) <= Cardinality(W)
      /\ Cardinality(V) # Cardinality(W)
      /\ Cardinality(V) \in Nat /\ Cardinality(W) \in Nat
  BY <1>1, <1>2, <1>3, FS_Subset, FS_CardinalityType
<1>5. Cardinality(V) < Cardinality(W)
  BY <1>4
<1> QED
  BY <1>5 DEF Rank, V, W

LEMMA Ranks ==
  ASSUME NEW L, IsFiniteSet(L), NEW q, \A v \in L : q[v] \in Nat,
         \A v, w \in L : v # w => q[v] # q[w]
  PROVE  /\ \A v \in L : Rank(L, q, v) \in 1 .. Cardinality(L)
         /\ \A v, w \in L : v # w => Rank(L, q, v) # Rank(L, q, w)
<1>1. ASSUME NEW v \in L
      PROVE  Rank(L, q, v) \in 1 .. Cardinality(L)
  <2> DEFINE V == {x \in L : q[x] <= q[v]}
  <2>1. V \in SUBSET L /\ v \in V
    <3>1. q[v] \in Nat
      OBVIOUS
    <3> QED
      BY <3>1
  <2> HIDE DEF V
  <2>2. /\ IsFiniteSet(V) /\ Cardinality(V) <= Cardinality(L)
        /\ Cardinality(V) \in Nat /\ Cardinality(L) \in Nat /\ Cardinality(V) # 0
    BY <2>1, FS_Subset, FS_CardinalityType, FS_EmptySet
  <2>3. Cardinality(V) \in 1 .. Cardinality(L)
    BY <2>2
  <2> QED
    BY <2>3 DEF Rank, V
<1>2. ASSUME NEW v \in L, NEW w \in L, v # w
      PROVE  Rank(L, q, v) # Rank(L, q, w)
  <2>1. q[v] \in Nat /\ q[w] \in Nat /\ q[v] # q[w]
    BY <1>2
  <2>2. q[v] < q[w] \/ q[w] < q[v]
    BY <2>1
  <2>3. Rank(L, q, v) < Rank(L, q, w) \/ Rank(L, q, w) < Rank(L, q, v)
    BY <2>2, RankLess
  <2>4. Rank(L, q, v) \in Int /\ Rank(L, q, w) \in Int
    BY <1>1
  <2> QED
    BY <2>3, <2>4
<1> QED
  BY <1>1, <1>2

\* Pruning keeps the listed units that reduce, at places without a gap.
LEMMA PruneRanks ==
  ASSUME NEW s, IsRuntime(s), Places(s)
  PROVE  LET t == Prune(s)
             live == Listed(s) \cap Reducing(s)
         IN  /\ t.grp = s.grp
             /\ Places(t) /\ Listed(t) = live
             /\ \A v \in Units : t.queue[v] <= Cardinality(live)
<1> DEFINE live == Listed(s) \cap Reducing(s)
           t == Prune(s)
           q == s.queue
<1>1. live = {v \in Units : s.queue[v] > 0 /\ s.grp[v].reduce # "none"}
  BY DEF Listed, Reducing
<1>2. /\ t.grp = s.grp
      /\ t.queue = [v \in Units |-> IF v \in live THEN Rank(live, q, v) ELSE 0]
  BY <1>1 DEF Prune, Rank, IsRuntime, RuntimeFields
<1>3. /\ live \in SUBSET Units
      /\ \A v \in live : q[v] \in Nat
      /\ \A v, w \in live : v # w => q[v] # q[w]
  BY DEF Listed, Places
<1>4. /\ IsFiniteSet(live) /\ Cardinality(live) \in Nat
  BY <1>3, UnitsFinite
<1> HIDE DEF live, t, q
<1>5. /\ \A v \in live : Rank(live, q, v) \in 1 .. Cardinality(live)
      /\ \A v, w \in live : v # w => Rank(live, q, v) # Rank(live, q, w)
  BY <1>3, <1>4, Ranks
<1>6. ASSUME NEW v \in Units
      PROVE  /\ t.queue[v] \in Nat /\ t.queue[v] <= Cardinality(live)
             /\ t.queue[v] > 0 <=> v \in live
             /\ v \in live => t.queue[v] = Rank(live, q, v)
  <2>1. CASE v \in live
    <3>1. t.queue[v] = Rank(live, q, v)
      BY <1>2, <2>1
    <3>2. Rank(live, q, v) \in 1 .. Cardinality(live)
      BY <1>5, <2>1
    <3> QED
      BY <1>4, <2>1, <3>1, <3>2
  <2>2. CASE v \notin live
    <3>1. t.queue[v] = 0
      BY <1>2, <2>2
    <3> QED
      BY <1>4, <2>2, <3>1
  <2> QED
    BY <2>1, <2>2
<1>7. t.queue \in [Units -> Nat]
  BY <1>2, <1>6
<1>8. ASSUME NEW v \in Units, NEW w \in Units, v # w, t.queue[v] > 0
      PROVE  t.queue[w] # t.queue[v]
  BY <1>5, <1>6, <1>8
<1>9. Places(t)
  BY <1>7, <1>8 DEF Places
<1>10. Listed(t) = live
  BY <1>3, <1>6 DEF Listed
<1>11. \A v \in Units : t.queue[v] <= Cardinality(live)
  BY <1>6
<1> QED
  BY <1>2, <1>9, <1>10, <1>11 DEF t, live

\* What is left after waiting for the first n of a list of m places.
LEMMA WaitOldestLeaves ==
  ASSUME NEW s, IsRuntime(s), Tracked(s), NEW m \in Nat, NEW n \in Nat,
         \A v \in Units : s.queue[v] <= m
  PROVE  LET t == WaitOldest(s, n)
         IN  /\ Tracked(t)
             /\ Reducing(t) \subseteq Reducing(s)
             /\ n >= m => Reducing(t) = {}
             /\ n < m => Cardinality(Reducing(t)) <= m - n
<1> DEFINE t == WaitOldest(s, n)
           R == Reducing(t)
           f == [v \in R |-> t.queue[v]]
<1>1. /\ t.grp = [v \in Units |-> IF s.queue[v] \in 1 .. n
                                    THEN WaitPostBackwardReduce(s.grp[v], v)
                                    ELSE s.grp[v]]
      /\ t.queue = [v \in Units |-> IF s.queue[v] > n THEN s.queue[v] - n ELSE 0]
  BY DEF WaitOldest, IsRuntime, RuntimeFields
<1> HIDE DEF t
<1>2. s.queue \in [Units -> Nat]
  BY DEF Tracked, Places
<1>3. ASSUME NEW v \in Units
      PROVE  /\ t.queue[v] = IF s.queue[v] > n THEN s.queue[v] - n ELSE 0
             /\ t.queue[v] \in Nat
             /\ t.grp[v].reduce # "none" =>
                  /\ s.grp[v].reduce # "none"
                  /\ s.queue[v] > n
  <2>1. s.queue[v] \in Nat
    BY <1>2
  <2>2. t.queue[v] = IF s.queue[v] > n THEN s.queue[v] - n ELSE 0
    BY <1>1
  <2>3. t.queue[v] \in Nat
    BY <2>1, <2>2
  <2>4. CASE s.queue[v] \in 1 .. n
    <3>1. t.grp[v] = WaitPostBackwardReduce(s.grp[v], v)
      BY <1>1, <2>4
    <3>2. t.grp[v].reduce = "none"
      BY <3>1, WaitPostBackwardReduceKeeps DEF IsRuntime
    <3> QED
      BY <2>2, <2>3, <3>2
  <2>5. CASE s.queue[v] \notin 1 .. n
    <3>1. t.grp[v] = s.grp[v]
      BY <1>1, <2>5
    <3>2. s.grp[v].reduce # "none" => s.queue[v] > 0
      BY DEF Tracked, Reducing, Listed
    <3> QED
      BY <2>1, <2>2, <2>3, <2>5, <3>1, <3>2
  <2> QED
    BY <2>4, <2>5
<1>4. /\ R \subseteq Reducing(s) /\ R \subseteq Units
      /\ \A v \in R : s.queue[v] > n /\ s.queue[v] \in Nat /\ t.queue[v] = s.queue[v] - n
  BY <1>2, <1>3 DEF Reducing
<1>5. Tracked(t)
  <2>1. t.queue \in [Units -> Nat]
    BY <1>1, <1>3
  <2>2. ASSUME NEW v \in Units, NEW w \in Units, v # w, t.queue[v] > 0
        PROVE  t.queue[w] # t.queue[v]
    <3>1. s.queue[v] \in Nat /\ s.queue[w] \in Nat
      BY <1>2
    <3>2. s.queue[v] > n /\ t.queue[v] = s.queue[v] - n
      BY <1>3, <2>2, <3>1
    <3>3. s.queue[w] # s.queue[v]
      BY <2>2, <3>1, <3>2 DEF Tracked, Places
    <3>4. t.queue[w] = IF s.queue[w] > n THEN s.queue[w] - n ELSE 0
      BY <1>3
    <3> QED
      BY <3>1, <3>2, <3>3, <3>4
  <2>3. Reducing(t) \subseteq Listed(t)
    <3> SUFFICES ASSUME NEW v \in R
                 PROVE  t.queue[v] > 0
      BY <1>4 DEF Listed
    <3> QED
      BY <1>4
  <2> QED
    BY <2>1, <2>2, <2>3 DEF Tracked, Places
<1>6. ASSUME n >= m
      PROVE  R = {}
  <2> SUFFICES ASSUME NEW v \in R
               PROVE  FALSE
    OBVIOUS
  <2>1. s.queue[v] <= m /\ s.queue[v] > n /\ s.queue[v] \in Nat
    BY <1>4
  <2> QED
    BY <1>6, <2>1
<1>7. ASSUME n < m
      PROVE  Cardinality(R) <= m - n
  <2>1. ASSUME NEW v \in R
        PROVE  t.queue[v] \in 1 .. (m - n)
    <3>1. s.queue[v] <= m /\ s.queue[v] > n /\ s.queue[v] \in Nat
          /\ t.queue[v] = s.queue[v] - n
      BY <1>4
    <3> QED
      BY <3>1
  <2>2. ASSUME NEW v \in R, NEW w \in R, v # w
        PROVE  f[v] # f[w]
    <3>1. t.queue[v] > 0 /\ v \in Units /\ w \in Units
      BY <1>4, <2>1
    <3> QED
      BY <1>5, <2>2, <3>1 DEF Tracked, Places
  <2>3. f \in [R -> 1 .. (m - n)]
    BY <2>1
  <2> HIDE DEF f
  <2>4. f \in Injection(R, 1 .. (m - n))
    BY <2>2, <2>3 DEF Injection, IsInjective
  <2>5. IsFiniteSet(1 .. (m - n)) /\ Cardinality(1 .. (m - n)) = m - n
    <3>1. m - n \in Int /\ ~(1 > m - n) /\ (m - n) - 1 + 1 = m - n
      BY <1>7
    <3> HIDE DEF R
    <3> QED
      BY <3>1, FS_Interval
  <2> QED
    BY <2>4, <2>5, FS_Injection
<1> QED
  BY <1>4, <1>5, <1>6, <1>7 DEF t

-----------------------------------------------------------------------------
(* Waiting for reduces and starting them *)

LEMMA EndsReducesIsRuntime ==
  ASSUME NEW s, NEW t, EndsReduces(s, t)
  PROVE  IsRuntime(t)
BY DEF EndsReduces, IsRuntime

LEMMA SparesTransitive ==
  ASSUME NEW r, NEW s, NEW t
  PROVE  /\ SparesAll(r, s) /\ SparesAll(s, t) => SparesAll(r, t)
         /\ \A u : SparesBut(r, s, u) /\ SparesBut(s, t, u) => SparesBut(r, t, u)
         /\ \A u : SparesAll(r, s) => SparesBut(r, s, u)
BY DEF SparesAll, SparesBut, SparedGroup

LEMMA SameGroupsSpares ==
  ASSUME NEW s, NEW t, t.grp = s.grp
  PROVE  SparesAll(s, t)
BY DEF SparesAll, SparedGroup

LEMMA WaitPostBackwardReduceSpares ==
  ASSUME NEW g, NEW u, IsGroup(g)
  PROVE  SparedGroup(g, WaitPostBackwardReduce(g, u))
<1> DEFINE h == WaitPostBackwardReduce(g, u)
<1>1. h.state = g.state /\ h.inflight = g.inflight
  BY WaitPostBackwardReduceKeeps
<1>2. h.seen = g.seen /\ h.depth = g.depth
  <2>1. CASE g.reduce \in {"none", "fresh"}
    BY <2>1 DEF WaitPostBackwardReduce, IsGroup, GroupFields
  <2>2. CASE g.reduce = "add"
    <3> DEFINE f == [g EXCEPT !.reduce = "none", !.reduced = ZeroGrads]
    <3>1. DOMAIN f = GroupFields /\ f.seen = g.seen /\ f.depth = g.depth
      BY DEF IsGroup, GroupFields
    <3>2. h = AccumulateLocalGradShard(f, u, g.reduced)
      BY <2>2 DEF WaitPostBackwardReduce
    <3> HIDE DEF f, h
    <3> QED
      BY <3>1, <3>2, GradientsKeepSeen, GradientsKeepDepth
  <2> QED
    BY <2>1, <2>2 DEF IsGroup
<1> QED
  BY <1>1, <1>2 DEF SparedGroup

LEMMA PruneSpares ==
  ASSUME NEW s, IsRuntime(s)
  PROVE  SparesAll(s, Prune(s))
<1>1. Prune(s).grp = s.grp
  BY DEF Prune, IsRuntime, RuntimeFields
<1> QED
  BY <1>1, SameGroupsSpares

LEMMA WaitOldestSpares ==
  ASSUME NEW s, NEW n, IsRuntime(s)
  PROVE  SparesAll(s, WaitOldest(s, n))
<1> SUFFICES ASSUME NEW v \in Units
             PROVE  SparedGroup(s.grp[v], WaitOldest(s, n).grp[v])
  BY DEF SparesAll
<1>1. WaitOldest(s, n).grp[v] \in {WaitPostBackwardReduce(s.grp[v], v), s.grp[v]}
  BY DEF WaitOldest, IsRuntime, RuntimeFields
<1>2. SparedGroup(s.grp[v], WaitPostBackwardReduce(s.grp[v], v))
  BY WaitPostBackwardReduceSpares DEF IsRuntime
<1>3. SparedGroup(s.grp[v], s.grp[v])
  BY DEF SparedGroup
<1> QED
  BY <1>1, <1>2, <1>3

\* Pruning loses no reduce that is in flight.
LEMMA PruneTracks ==
  ASSUME NEW s, IsRuntime(s), Tracked(s)
  PROVE  LET t == Prune(s)
         IN  /\ IsRuntime(t) /\ Tracked(t)
             /\ Reducing(t) = Reducing(s)
             /\ Queued(t) = Cardinality(Reducing(s))
             /\ \A v \in Units : t.queue[v] <= Cardinality(Reducing(s))
<1> DEFINE t == Prune(s)
<1>1. Listed(s) \cap Reducing(s) = Reducing(s)
  BY DEF Tracked
<1>2. /\ t.grp = s.grp
      /\ Places(t) /\ Listed(t) = Reducing(s)
      /\ \A v \in Units : t.queue[v] <= Cardinality(Reducing(s))
  BY <1>1, PruneRanks DEF Tracked
<1>3. IsRuntime(t)
  BY PruneEndsReduces
<1> HIDE DEF t
<1>4. Reducing(t) = Reducing(s)
  BY <1>2 DEF Reducing
<1>5. Tracked(t) /\ Queued(t) = Cardinality(Reducing(s))
  BY <1>2, <1>4 DEF Tracked, Queued, Listed
<1> QED
  BY <1>2, <1>3, <1>4, <1>5 DEF t

LEMMA WaitAllPendingEndsAll ==
  ASSUME NEW s, IsRuntime(s), Tracked(s)
  PROVE  LET t == WaitAllPending(s)
         IN  Tracked(t) /\ Reducing(t) = {}
<1> DEFINE p == Prune(s)
           m == Cardinality(Reducing(s))
<1>1. /\ IsRuntime(p) /\ Tracked(p)
      /\ \A v \in Units : p.queue[v] <= m
  BY PruneTracks
<1>2. m \in Nat /\ UnitCount >= m /\ UnitCount \in Nat
  BY UnitsFinite, SubsetsOfUnits, UnitCountAssumption
<1> HIDE DEF p, m
<1>3. Tracked(WaitOldest(p, UnitCount)) /\ Reducing(WaitOldest(p, UnitCount)) = {}
  BY <1>1, <1>2, WaitOldestLeaves
<1> QED
  BY <1>3 DEF WaitAllPending, p

\* Before another reduce starts there is room for it.
LEMMA BeforeBackwardReduceMakesRoom ==
  ASSUME NEW s, IsRuntime(s), Tracked(s)
  PROVE  LET t == BeforeBackwardReduce(s)
         IN  /\ Tracked(t)
             /\ IF MaxPendingReduces = 0
                  THEN Reducing(t) = {}
                  ELSE Cardinality(Reducing(t)) <= MaxPendingReduces - 1
<1> DEFINE p == Prune(s)
           m == Cardinality(Reducing(s))
           n == Queued(p) - MaxPendingReduces + 1
<1>1. /\ IsRuntime(p) /\ Tracked(p) /\ Reducing(p) = Reducing(s) /\ Queued(p) = m
      /\ \A v \in Units : p.queue[v] <= m
  BY PruneTracks
<1>2. m \in Nat /\ MaxPendingReduces \in Nat
  BY UnitsFinite, SubsetsOfUnits, BudgetAssumption
<1>3. BeforeBackwardReduce(s) =
        CASE MaxPendingReduces = 0 -> WaitAllPending(s)
          [] Queued(p) < MaxPendingReduces -> p
          [] OTHER -> WaitOldest(p, n)
  BY DEF BeforeBackwardReduce
<1> HIDE DEF p
<1>4. CASE MaxPendingReduces = 0
  <2>1. ~(Queued(p) < MaxPendingReduces)
    BY <1>1, <1>2, <1>4
  <2>2. BeforeBackwardReduce(s) = WaitAllPending(s)
    BY <1>3, <1>4, <2>1
  <2> QED
    BY <1>4, <2>2, WaitAllPendingEndsAll
<1>5. CASE MaxPendingReduces # 0 /\ Queued(p) < MaxPendingReduces
  <2>1. BeforeBackwardReduce(s) = p
    BY <1>3, <1>5
  <2>2. m <= MaxPendingReduces - 1
    BY <1>1, <1>2, <1>5
  <2> QED
    BY <1>1, <1>5, <2>1, <2>2
<1>6. CASE MaxPendingReduces # 0 /\ ~(Queued(p) < MaxPendingReduces)
  <2>1. BeforeBackwardReduce(s) = WaitOldest(p, n)
    BY <1>3, <1>6
  <2>2. n = m - MaxPendingReduces + 1 /\ m >= MaxPendingReduces /\ MaxPendingReduces > 0
    BY <1>1, <1>2, <1>6
  <2> HIDE DEF m, n
  <2>3. /\ n \in Nat
        /\ n >= m => MaxPendingReduces = 1
        /\ n < m => m - n = MaxPendingReduces - 1
    BY <1>2, <2>2
  <2>4. /\ Tracked(WaitOldest(p, n))
        /\ n >= m => Reducing(WaitOldest(p, n)) = {}
        /\ n < m => Cardinality(Reducing(WaitOldest(p, n))) <= m - n
    BY <1>1, <1>2, <2>3, WaitOldestLeaves
  <2>5. n < m \/ n >= m
    BY <1>2, <2>3
  <2>6. Cardinality({}) = 0 /\ (MaxPendingReduces = 1 => 0 <= MaxPendingReduces - 1)
    BY FS_EmptySet
  <2>7. Cardinality(Reducing(WaitOldest(p, n))) <= MaxPendingReduces - 1
    BY <2>3, <2>4, <2>5, <2>6
  <2> QED
    BY <1>6, <2>1, <2>4, <2>7
<1> QED
  BY <1>4, <1>5, <1>6

\* The reduce of u has started: it is listed last, or waited for with the rest.
LEMMA AfterBackwardReduceStartedTracks ==
  ASSUME NEW s, NEW u \in Units, IsRuntime(s), Places(s),
         u \in Reducing(s), Reducing(s) \ {u} \subseteq Listed(s),
         MaxPendingReduces # 0 => Cardinality(Reducing(s)) <= MaxPendingReduces
  PROVE  ReduceBound(AfterBackwardReduceStarted(s, u))
<1> DEFINE p == Prune(s)
           live == Listed(s) \cap Reducing(s)
           m == Cardinality(live)
           place == IF p.queue[u] = 0 THEN Queued(p) + 1 ELSE p.queue[u]
           queued == [p EXCEPT !.queue[u] = IF @ = 0 THEN Queued(p) + 1 ELSE @]
<1>1. /\ IsRuntime(p) /\ p.grp = s.grp
      /\ Places(p) /\ Listed(p) = live
      /\ \A v \in Units : p.queue[v] <= m
  BY PruneRanks, PruneEndsReduces
<1>2. m \in Nat /\ Queued(p) = m
  <2>1. live \in SUBSET Units
    BY DEF Listed
  <2>2. Queued(p) = m
    BY <1>1 DEF Queued, Listed
  <2> HIDE DEF live
  <2> QED
    BY <2>1, <2>2, UnitsFinite
<1>3. Reducing(s) \ {u} \subseteq live
  OBVIOUS
<1> HIDE DEF p, live, m
<1>4. /\ IsRuntime(queued) /\ queued.grp = s.grp
      /\ queued.queue = [p.queue EXCEPT ![u] = place]
  BY <1>1 DEF IsRuntime, RuntimeFields
<1> HIDE DEF queued
<1>5. p.queue \in [Units -> Nat]
  BY <1>1 DEF Places
<1>6. /\ place \in Nat /\ place > 0
      /\ p.queue[u] = 0 => place = m + 1
      /\ p.queue[u] # 0 => place = p.queue[u]
  BY <1>2, <1>5
<1> HIDE DEF place
<1>7. /\ queued.queue \in [Units -> Nat] /\ queued.queue[u] = place
      /\ \A v \in Units \ {u} : queued.queue[v] = p.queue[v]
  BY <1>4, <1>5, <1>6
<1>8. \A v \in Units \ {u} : place # p.queue[v]
  <2> SUFFICES ASSUME NEW v \in Units \ {u}
               PROVE  place # p.queue[v]
    OBVIOUS
  <2>1. p.queue[v] \in Nat /\ p.queue[v] <= m /\ p.queue[u] \in Nat
    BY <1>1, <1>5
  <2>2. CASE p.queue[u] = 0
    BY <1>2, <1>6, <2>1, <2>2
  <2>3. CASE p.queue[u] # 0
    BY <1>1, <1>6, <2>1, <2>3 DEF Places
  <2> QED
    BY <2>2, <2>3
<1>9. Places(queued)
  <2> SUFFICES ASSUME NEW v \in Units, NEW w \in Units, v # w, queued.queue[v] > 0
               PROVE  queued.queue[w] # queued.queue[v]
    BY <1>7 DEF Places
  <2>1. CASE v = u
    BY <1>7, <1>8, <2>1
  <2>2. CASE w = u
    BY <1>7, <1>8, <2>2
  <2>3. CASE v # u /\ w # u
    BY <1>1, <1>7, <2>3 DEF Places
  <2> QED
    BY <2>1, <2>2, <2>3
<1>10. Reducing(queued) = Reducing(s)
  BY <1>4 DEF Reducing
<1>11. Reducing(queued) \subseteq Listed(queued)
  <2> SUFFICES ASSUME NEW v \in Reducing(s)
               PROVE  v \in Units /\ queued.queue[v] > 0
    BY <1>10 DEF Listed
  <2>1. v \in Units
    BY DEF Reducing
  <2>2. CASE v = u
    BY <1>6, <1>7, <2>2
  <2>3. CASE v # u
    <3>1. v \in Listed(p)
      BY <1>1, <1>3, <2>3
    <3> QED
      BY <1>7, <2>1, <2>3, <3>1 DEF Listed
  <2> QED
    BY <2>1, <2>2, <2>3
<1>12. Tracked(queued)
  BY <1>9, <1>11 DEF Tracked
<1>13. ReduceBound(WaitAllPending(queued))
  BY <1>4, <1>12, WaitAllPendingEndsAll, FS_EmptySet, BudgetAssumption DEF ReduceBound
<1>14. MaxPendingReduces # 0 => ReduceBound(queued)
  BY <1>10, <1>12 DEF ReduceBound
<1>15. s.grp[u].reduce # "none"
  BY DEF Reducing
<1>16. AfterBackwardReduceStarted(s, u) =
         IF MaxPendingReduces = 0 \/ u = 1 THEN WaitAllPending(queued) ELSE queued
  BY <1>15 DEF AfterBackwardReduceStarted, queued, p
<1> QED
  BY <1>13, <1>14, <1>16

LEMMA AfterBackwardReduceStartedSpares ==
  ASSUME NEW s, NEW u \in Units, IsRuntime(s)
  PROVE  SparesAll(s, AfterBackwardReduceStarted(s, u))
<1> DEFINE p == Prune(s)
           queued == [p EXCEPT !.queue[u] = IF @ = 0 THEN Queued(p) + 1 ELSE @]
           pq == Prune(queued)
<1>1. IsRuntime(p) /\ SparesAll(s, p)
  BY PruneEndsReduces, PruneSpares
<1> HIDE DEF p
<1>2. IsRuntime(queued) /\ queued.grp = p.grp
  BY <1>1 DEF IsRuntime, RuntimeFields
<1> HIDE DEF queued
<1>3. SparesAll(p, queued) /\ SparesAll(queued, pq) /\ IsRuntime(pq)
  BY <1>2, SameGroupsSpares, PruneSpares, PruneEndsReduces
<1> HIDE DEF pq
<1>4. SparesAll(pq, WaitOldest(pq, UnitCount))
  BY <1>3, WaitOldestSpares
<1>5. SparesAll(s, queued) /\ SparesAll(s, WaitOldest(pq, UnitCount))
  BY <1>1, <1>3, <1>4, SparesTransitive
<1>6. SparesAll(s, s)
  BY SameGroupsSpares
<1>7. AfterBackwardReduceStarted(s, u) \in {s, WaitOldest(pq, UnitCount), queued}
  BY DEF AfterBackwardReduceStarted, WaitAllPending, pq, queued, p
<1> QED
  BY <1>5, <1>6, <1>7

LEMMA BeforeBackwardReduceSpares ==
  ASSUME NEW s, IsRuntime(s)
  PROVE  SparesAll(s, BeforeBackwardReduce(s))
<1> DEFINE p == Prune(s)
           n == Queued(p) - MaxPendingReduces + 1
<1>1. IsRuntime(p) /\ SparesAll(s, p)
  BY PruneEndsReduces, PruneSpares
<1>2. BeforeBackwardReduce(s) \in {p, WaitOldest(p, UnitCount), WaitOldest(p, n)}
  BY DEF BeforeBackwardReduce, WaitAllPending
<1> HIDE DEF p, n
<1>3. \A k : SparesAll(s, WaitOldest(p, k))
  BY <1>1, WaitOldestSpares, SparesTransitive
<1> QED
  BY <1>1, <1>2, <1>3

-----------------------------------------------------------------------------
(* Finalizing *)

\* From s to t a handler of u keeps the list of reduces right and spares the
\* other groups.
Handles(s, t, u) ==
  /\ ReduceBound(s) => ReduceBound(t)
  /\ SparesBut(s, t, u)

LEMMA HandlesTransitive ==
  ASSUME NEW r, NEW s, NEW t, NEW u, Handles(r, s, u), Handles(s, t, u)
  PROVE  Handles(r, t, u)
BY SparesTransitive DEF Handles

LEMMA QuietHandles ==
  ASSUME NEW s, NEW t, NEW u
  PROVE  /\ QuietBut(s, t, u) => Handles(s, t, u)
         /\ Quiet(s, t) => Handles(s, t, u)
BY SameReducesKeepBound, SparesTransitive, QuietSpares DEF Handles

\* The reduce of u starts in t where there was room for it in s.
LEMMA StartedReduce ==
  ASSUME NEW s, NEW u \in Units, NEW g, IsRuntime(s), Tracked(s), IsGroup(g),
         g.reduce # "none",
         IF MaxPendingReduces = 0
           THEN Reducing(s) = {}
           ELSE Cardinality(Reducing(s)) <= MaxPendingReduces - 1
  PROVE  LET t == SetGroup(s, u, g)
         IN  /\ IsRuntime(t) /\ Places(t) /\ u \in Reducing(t)
             /\ Reducing(t) \ {u} \subseteq Listed(t)
             /\ MaxPendingReduces # 0 => Cardinality(Reducing(t)) <= MaxPendingReduces
<1> DEFINE t == SetGroup(s, u, g)
<1>1. /\ IsRuntime(t) /\ t.queue = s.queue /\ t.grp[u] = g
      /\ \A v \in Units \ {u} : t.grp[v] = s.grp[v]
  BY DEF SetGroup, IsRuntime, RuntimeFields
<1> HIDE DEF t
<1>2. Reducing(t) = Reducing(s) \cup {u}
  BY <1>1 DEF Reducing
<1>3. Places(t) /\ Reducing(t) \ {u} \subseteq Listed(t)
  BY <1>1, <1>2 DEF Tracked, Places, Listed
<1>4. ASSUME MaxPendingReduces # 0
      PROVE  Cardinality(Reducing(t)) <= MaxPendingReduces
  <2>1. /\ IsFiniteSet(Reducing(s)) /\ Cardinality(Reducing(s)) \in Nat
        /\ MaxPendingReduces \in Nat
    BY UnitsFinite, SubsetsOfUnits, BudgetAssumption
  <2>2. Cardinality(Reducing(t)) \in
          {Cardinality(Reducing(s)), Cardinality(Reducing(s)) + 1}
    BY <1>2, <2>1, FS_AddElement
  <2>3. Cardinality(Reducing(s)) <= MaxPendingReduces - 1
    BY <1>4
  <2> QED
    BY <2>1, <2>2, <2>3
<1> QED
  BY <1>1, <1>2, <1>3, <1>4 DEF t

LEMMA FinishBackwardWithGradBucketHandles ==
  ASSUME NEW s, NEW u \in Units, RuntimeOK(s)
  PROVE  Handles(s, FinishBackwardWithGradBucket(s, u), u)
<1> DEFINE g == s.grp[u]
           accumulate == g.store["local"] # None
           h == UseLocalShards(AfterCollect(g, "bucket"), FALSE, FALSE)
           r == [h EXCEPT !.state = "SHARDED"]
           resharded == Validate(SetGroup(s, u, r), u)
           ready == BeforeBackwardReduce(resharded)
           handle == [ready.grp[u] EXCEPT !.reduce = IF accumulate THEN "add" ELSE "fresh",
                                          !.reduced = Collected(g, "bucket")]
           last == IF accumulate THEN handle ELSE UseLocalGradShard(handle, u, ZeroGrads)
           started == SetGroup(ready, u, last)
<1>1. IsRuntime(s) /\ IsGroup(g)
  BY DEF RuntimeOK, IsRuntime
<1>2. IsGroup(r) /\ r.reduce = g.reduce /\ r.state = "SHARDED"
  <2>1. SameLifecycle(g, AfterCollect(g, "bucket"))
    BY <1>1, AfterCollectKeeps DEF IsGroup
  <2>2. SameLifecycle(AfterCollect(g, "bucket"), h)
    <3>1. DOMAIN AfterCollect(g, "bucket") = GroupFields
      BY <2>1 DEF SameLifecycle
    <3> QED
      BY <3>1, UseLocalShardsKeeps
  <2> HIDE DEF h
  <2> QED
    BY <1>1, <2>1, <2>2 DEF SameLifecycle, IsGroup, GroupFields
<1> HIDE DEF r
<1>3. /\ RuntimeOK(resharded) /\ IsRuntime(resharded)
      /\ QuietBut(s, resharded, u) /\ resharded.grp[u] = r
  <2>1. QuietBut(s, resharded, u) /\ resharded.grp[u] = r
    BY <1>2, ValidatedQuiet
  <2>2. RuntimeOKBut(SetGroup(s, u, r), u)
    BY <1>2, OKButOne, ChangeGroup DEF SetGroup
  <2> QED
    BY <2>1, <2>2, ValidateKeeps DEF RuntimeOK
<1> HIDE DEF resharded
<1>4. /\ RuntimeOK(ready) /\ SparesAll(resharded, ready)
      /\ ready.grp[u].state = "SHARDED"
  <2>1. EndsReduces(resharded, ready)
    BY <1>3, BeforeBackwardReduceEndsReduces
  <2>2. ready.grp[u].state = resharded.grp[u].state
    BY <2>1 DEF EndsReduces
  <2> QED
    BY <1>2, <1>3, <2>1, <2>2, EndsReducesKeeps, BeforeBackwardReduceSpares
<1>5. ASSUME ReduceBound(s)
      PROVE  /\ Tracked(ready)
             /\ IF MaxPendingReduces = 0
                  THEN Reducing(ready) = {}
                  ELSE Cardinality(Reducing(ready)) <= MaxPendingReduces - 1
  <2>1. Tracked(resharded)
    BY <1>3, <1>5, SameReducesKeepBound, QuietSpares DEF ReduceBound
  <2> QED
    BY <1>3, <2>1, BeforeBackwardReduceMakesRoom
<1> HIDE DEF ready
<1>6. /\ IsGroup(last) /\ last.reduce # "none"
      /\ last.state = "SHARDED" /\ last.inflight = ready.grp[u].inflight
  <2>1. /\ IsGroup(handle) /\ handle.reduce # "none"
        /\ handle.state = "SHARDED" /\ handle.inflight = ready.grp[u].inflight
    BY <1>4 DEF RuntimeOK, IsRuntime, IsGroup, GroupFields
  <2> HIDE DEF handle
  <2>2. SameLifecycle(handle, UseLocalGradShard(handle, u, ZeroGrads))
    BY <2>1, UseLocalGradShardKeeps DEF IsGroup
  <2> QED
    BY <2>1, <2>2 DEF SameLifecycle, IsGroup
<1> HIDE DEF last
<1>7. /\ RuntimeOK(started) /\ IsRuntime(started)
      /\ started.grp[u] = last /\ started.queue = ready.queue
      /\ \A v \in Units \ {u} : started.grp[v] = ready.grp[v]
      /\ SparesBut(ready, started, u)
  <2>1. /\ IsRuntime(started) /\ started.queue = ready.queue
        /\ started.grp[u] = last /\ started.err = ready.err
        /\ \A v \in Units \ {u} : started.grp[v] = ready.grp[v]
    BY <1>4, <1>6 DEF SetGroup, RuntimeOK, IsRuntime, RuntimeFields
  <2> HIDE DEF started
  <2>2. RuntimeOK(started)
    <3> SUFFICES ASSUME started.err = None, NEW v \in Units
                 PROVE  Consistent(started.grp[v])
      BY <2>1 DEF RuntimeOK
    <3>1. Consistent(ready.grp[v]) /\ Consistent(ready.grp[u])
      BY <1>4, <2>1 DEF RuntimeOK
    <3> QED
      BY <1>4, <1>6, <2>1, <3>1 DEF Consistent
  <2> QED
    BY <2>1, <2>2 DEF SparesBut, SparedGroup
<1>8. ASSUME ReduceBound(s)
      PROVE  /\ Places(started) /\ u \in Reducing(started)
             /\ Reducing(started) \ {u} \subseteq Listed(started)
             /\ MaxPendingReduces # 0 =>
                  Cardinality(Reducing(started)) <= MaxPendingReduces
  BY <1>4, <1>5, <1>6, <1>8, StartedReduce DEF RuntimeOK
<1>9. SparesBut(s, started, u)
  BY <1>3, <1>4, <1>7, SparesTransitive, QuietSpares
<1> HIDE DEF started
<1> DEFINE after == AfterBackwardReduceStarted(started, u)
           async == OnPostBackwardReshard(after, u)
           w == WaitPostBackwardReduce(started.grp[u], u)
           sync == SetGroup(started, u, w)
<1>10. Handles(s, async, u) /\ RuntimeOK(async)
  <2>1. RuntimeOK(after) /\ SparesBut(s, after, u)
    <3>1. EndsReduces(started, after) /\ SparesAll(started, after)
      BY <1>7, AfterBackwardReduceStartedEndsReduces, AfterBackwardReduceStartedSpares
    <3> QED
      BY <1>7, <1>9, <3>1, EndsReducesKeeps, SparesTransitive
  <2>2. ReduceBound(s) => ReduceBound(after)
    BY <1>7, <1>8, AfterBackwardReduceStartedTracks
  <2> HIDE DEF after
  <2>3. Quiet(after, async) /\ RuntimeOK(async)
    BY <2>1, OnPostBackwardReshardQuiet, OnPostBackwardReshardKeeps
  <2>4. Handles(s, after, u) /\ Handles(after, async, u)
    BY <2>1, <2>2, <2>3, QuietHandles DEF Handles
  <2> QED
    BY <2>3, <2>4, HandlesTransitive
<1>11. Handles(s, sync, u) /\ RuntimeOKBut(sync, u)
  <2>1. IsGroup(w) /\ w.reduce = "none"
    BY <1>6, <1>7, WaitPostBackwardReduceKeeps
  <2> HIDE DEF w
  <2>2. /\ sync.queue = ready.queue /\ sync.grp[u] = w
        /\ \A v \in Units \ {u} : sync.grp[v] = ready.grp[v]
    BY <1>7, <2>1 DEF SetGroup, IsRuntime, RuntimeFields
  <2>3. RuntimeOKBut(sync, u)
    BY <1>7, <2>1, OKButOne, ChangeGroup DEF SetGroup
  <2> HIDE DEF sync
  <2>4. SparesBut(ready, sync, u)
    BY <2>2 DEF SparesBut, SparedGroup
  <2>5. SparesBut(s, sync, u)
    BY <1>3, <1>4, <2>4, SparesTransitive, QuietSpares
  <2>6. ASSUME ReduceBound(s)
        PROVE  ReduceBound(sync)
    <3>1. ReduceBound(ready)
      <4>1. /\ Cardinality(Reducing(ready)) \in Nat /\ MaxPendingReduces \in Nat
            /\ Cardinality({}) = 0
        BY UnitsFinite, SubsetsOfUnits, BudgetAssumption, FS_EmptySet
      <4> QED
        BY <1>5, <2>6, <4>1 DEF ReduceBound
    <3>2. \A v \in Units : sync.grp[v].reduce \in {ready.grp[v].reduce, "none"}
      BY <2>1, <2>2
    <3> QED
      BY <2>2, <3>1, <3>2, FewerReducesKeepBound
  <2> QED
    BY <2>3, <2>5, <2>6 DEF Handles
<1>12. FinishBackwardWithGradBucket(s, u) =
         FinishBackwardCommon(IF Finalize THEN async ELSE sync, u)
  BY DEF FinishBackwardWithGradBucket, started, last, ready, resharded, r
<1> HIDE DEF async, sync
<1>13. /\ Handles(s, FinishBackwardCommon(async, u), u)
       /\ Handles(s, FinishBackwardCommon(sync, u), u)
  <2>1. /\ QuietBut(async, FinishBackwardCommon(async, u), u)
        /\ QuietBut(sync, FinishBackwardCommon(sync, u), u)
    BY <1>10, <1>11, OKButOne, FinishBackwardCommonQuiet
  <2> QED
    BY <1>10, <1>11, <2>1, QuietHandles, HandlesTransitive
<1> QED
  BY <1>12, <1>13

LEMMA FinishBackwardWithFullGradsHandles ==
  ASSUME NEW s, NEW u \in Units, RuntimeOK(s)
  PROVE  Handles(s, FinishBackwardWithFullGrads(s, u), u)
<1> DEFINE g == s.grp[u]
           h == AccumulateLocalGradShard(AfterCollect(g, "full"), u, Collected(g, "full"))
           t == SetGroup(s, u, h)
<1>1. SameLifecycle(g, AfterCollect(g, "full"))
  BY AfterCollectKeeps DEF RuntimeOK, IsRuntime, IsGroup
<1>2. SameLifecycle(AfterCollect(g, "full"), h)
  BY <1>1, AccumulateLocalGradShardKeeps DEF SameLifecycle
<1>3. FinishBackwardWithFullGrads(s, u) = FinishBackwardCommon(t, u)
  BY DEF FinishBackwardWithFullGrads
<1> HIDE DEF h
<1>4. SameLifecycle(g, h)
  BY <1>1, <1>2 DEF SameLifecycle
<1>5. RuntimeOKBut(t, u)
  BY <1>4, ChangeFlags, OKButOne DEF SetGroup
<1>6. QuietBut(s, t, u)
  BY <1>4, OneGroupQuiet DEF SameLifecycle, RuntimeOK
<1> HIDE DEF t
<1>7. QuietBut(s, FinishBackwardCommon(t, u), u)
  BY <1>5, <1>6, FinishBackwardCommonQuiet, QuietTransitive
<1> QED
  BY <1>3, <1>7, QuietHandles

\* The group u changes its reduce to none at most.
LEMMA OneGroupHandles ==
  ASSUME NEW s, NEW u \in Units, NEW g, IsRuntime(s), IsGroup(g),
         g.reduce \in {s.grp[u].reduce, "none"}
  PROVE  Handles(s, SetGroup(s, u, g), u)
<1> DEFINE t == SetGroup(s, u, g)
<1>1. /\ t.queue = s.queue /\ t.grp[u] = g
      /\ \A v \in Units \ {u} : t.grp[v] = s.grp[v]
  BY DEF SetGroup, IsRuntime, RuntimeFields
<1> HIDE DEF t
<1>2. \A v \in Units : t.grp[v].reduce \in {s.grp[v].reduce, "none"}
  BY <1>1
<1>3. ReduceBound(s) => ReduceBound(t)
  BY <1>1, <1>2, FewerReducesKeepBound
<1>4. SparesBut(s, t, u)
  BY <1>1 DEF SparesBut, SparedGroup
<1> QED
  BY <1>3, <1>4 DEF Handles, t

LEMMA FinalizeBackwardHandles ==
  ASSUME NEW s, NEW u \in Units, RuntimeOK(s)
  PROVE  Handles(s, FinalizeBackward(s, u), u)
<1> DEFINE g == s.grp[u]
           c == SetGroup(s, u, AccumulateCopyIn(g))
           h == WaitPostBackwardReduce(g, u)
           w == SetGroup(s, u, h)
           inside == Raise(s, "finalize_inside_no_sync")
           e == IF g.state = "SHARDED" THEN "finalize_expects_unsharded"
                                       ELSE "finalize_while_forward_resharded"
           early == Raise(c, e)
<1>1. IsRuntime(s) /\ IsGroup(g) /\ DOMAIN g = GroupFields
  BY DEF RuntimeOK, IsRuntime, IsGroup
<1>2. RuntimeOK(c) /\ Handles(s, c, u)
  <2>1. SameLifecycle(g, AccumulateCopyIn(g))
    BY <1>1, AccumulateCopyInKeeps
  <2>2. RuntimeOK(c)
    BY <2>1, ChangeFlags DEF SetGroup
  <2>3. QuietBut(s, c, u)
    BY <1>1, <2>1, OneGroupQuiet DEF SameLifecycle
  <2> QED
    BY <2>2, <2>3, QuietHandles
<1>3. Handles(s, w, u)
  <2>1. IsGroup(h) /\ h.reduce = "none"
    BY <1>1, WaitPostBackwardReduceKeeps
  <2> HIDE DEF h
  <2> QED
    BY <1>1, <2>1, OneGroupHandles
<1> DEFINE f == FinishBackward(c, u)
<1>4. FinalizeBackward(s, u) \in {w, inside, f, early}
  BY DEF FinalizeBackward
<1> HIDE DEF w, c, e
<1>5. Handles(s, inside, u)
  BY <1>1, RaiseQuiet, QuietHandles
<1>6. Handles(s, early, u)
  <2>1. Quiet(c, early)
    BY <1>2, RaiseQuiet DEF RuntimeOK
  <2> QED
    BY <1>2, <2>1, QuietHandles, HandlesTransitive
<1>7. Handles(s, f, u)
  <2>1. Handles(c, f, u)
    BY <1>2, FinishBackwardWithFullGradsHandles, FinishBackwardWithGradBucketHandles
       DEF FinishBackward
  <2> QED
    BY <1>2, <2>1, HandlesTransitive
<1> QED
  BY <1>3, <1>4, <1>5, <1>6, <1>7

-----------------------------------------------------------------------------
(* The gradient hook and the optimizer *)

\* What the gradient hook leaves of its own group: the parameter is seen, or
\* all are, and the backward of the group is over.
LEMMA PostAccumulateGradHandles ==
  ASSUME NEW s, NEW u \in Units, NEW p, RuntimeOK(s)
  PROVE  LET t == PostAccumulateGrad(s, u, p)
             seen == s.grp[u].seen \cup {p}
         IN  /\ Handles(s, t, u)
             /\ \/ seen = Params
                \/ /\ Gathered(s, u) => Gathered(t, u)
                   /\ t.grp[u].seen \subseteq seen
<1> DEFINE g == [s.grp[u] EXCEPT !.seen = @ \cup {p}]
           d == [g EXCEPT !.defer = TRUE]
           deferred == AccumulateCopyIn(d)
           copied == AccumulateCopyIn(g)
           resharded == ReshardAfterDeferredBackward(SetGroup(s, u, deferred), u)
<1>0. IsRuntime(s)
  BY DEF RuntimeOK
<1>1. /\ SameLifecycle(s.grp[u], g) /\ SameLifecycle(s.grp[u], d)
      /\ g.seen = s.grp[u].seen \cup {p} /\ g.depth = s.grp[u].depth
  BY DEF RuntimeOK, IsRuntime, IsGroup, SameLifecycle, GroupFields
<1>2. PostAccumulateGrad(s, u, p) =
        CASE ~Finalize -> s
          [] Finalize /\ g.seen # Params -> SetGroup(s, u, g)
          [] Finalize /\ g.seen = Params /\ g.depth > 0 ->
               IF u \in Reshard THEN resharded ELSE SetGroup(s, u, deferred)
          [] OTHER -> IF g.state = "UNSHARDED"
                        THEN FinalizeBackward(SetGroup(s, u, copied), u)
                        ELSE SetGroup(s, u, copied)
  BY DEF PostAccumulateGrad
<1> HIDE DEF g, d
<1>3. SameLifecycle(s.grp[u], deferred) /\ SameLifecycle(s.grp[u], copied)
  <2>1. SameLifecycle(d, deferred) /\ SameLifecycle(g, copied)
    BY <1>1, AccumulateCopyInKeeps DEF SameLifecycle
  <2> QED
    BY <1>1, <2>1 DEF SameLifecycle
<1> HIDE DEF deferred, copied
<1> DEFINE tg == SetGroup(s, u, g)
           td == SetGroup(s, u, deferred)
           tc == SetGroup(s, u, copied)
           tr == ReshardAfterDeferredBackward(td, u)
           tf == FinalizeBackward(tc, u)
<1>5. /\ Handles(s, tg, u) /\ tg.grp[u] = g
      /\ Handles(s, td, u) /\ Handles(s, tr, u)
      /\ Handles(s, tc, u) /\ RuntimeOK(tc)
  <2>1. /\ g.reduce = s.grp[u].reduce /\ deferred.reduce = s.grp[u].reduce
        /\ copied.reduce = s.grp[u].reduce
    BY <1>1, <1>3 DEF SameLifecycle
  <2>2. RuntimeOK(tc)
    BY <1>3, ChangeFlags DEF SetGroup
  <2>3. /\ QuietBut(s, tg, u) /\ QuietBut(s, td, u) /\ QuietBut(s, tc, u)
        /\ tg.grp[u] = g
    BY <1>0, <2>1, OneGroupQuiet
  <2>4. RuntimeOK(td)
    BY <1>3, ChangeFlags DEF SetGroup
  <2> HIDE DEF td
  <2>5. QuietBut(s, tr, u)
    BY <2>3, <2>4, ReshardAfterDeferredBackwardQuiet, QuietTransitive
  <2> QED
    BY <2>2, <2>3, <2>5, QuietHandles
<1> HIDE DEF tg, tc, tr
<1>6. Handles(s, tf, u)
  <2>1. Handles(tc, tf, u)
    BY <1>5, FinalizeBackwardHandles
  <2> QED
    BY <1>5, <2>1, HandlesTransitive
<1> HIDE DEF tf
<1>7. Handles(s, s, u)
  BY QuietReflexive, QuietHandles
<1>8. PostAccumulateGrad(s, u, p) \in {s, tg, td, tr, tc, tf}
  BY <1>2 DEF tg, td, tc, tr, tf
<1>9. Handles(s, PostAccumulateGrad(s, u, p), u)
  BY <1>5, <1>6, <1>7, <1>8
<1>10. ASSUME g.seen # Params
       PROVE  PostAccumulateGrad(s, u, p) \in {s, tg}
  BY <1>2, <1>10, SwitchAssumption DEF tg
<1>11. /\ Gathered(s, u) => Gathered(tg, u)
       /\ tg.grp[u].seen \subseteq s.grp[u].seen \cup {p}
  BY <1>1, <1>5 DEF Gathered, SameLifecycle
<1> QED
  BY <1>1, <1>9, <1>10, <1>11

LEMMA AccumulateGradHandles ==
  ASSUME NEW s, NEW u \in Units, NEW p, NEW m, RuntimeOK(s)
  PROVE  LET t == AccumulateGrad(s, u, p, m)
             seen == s.grp[u].seen \cup {p}
         IN  /\ Handles(s, t, u)
             /\ \/ seen = Params
                \/ /\ Gathered(s, u) => Gathered(t, u)
                   /\ t.grp[u].seen \subseteq seen
<1> DEFINE g == AutogradAccumulate(s.grp[u], p, m)
           a == SetGroup(s, u, g)
           t == PostAccumulateGrad(a, u, p)
<1>1. SameLifecycle(s.grp[u], g) /\ g.seen = s.grp[u].seen
  <2>1. DOMAIN s.grp[u] = GroupFields
    BY DEF RuntimeOK, IsRuntime, IsGroup
  <2> QED
    BY <2>1, AutogradAccumulateKeeps, GradientsKeepSeen
<1>2. AccumulateGrad(s, u, p, m) = t
  BY DEF AccumulateGrad
<1> HIDE DEF g
<1>3. RuntimeOK(a) /\ QuietBut(s, a, u) /\ a.grp[u] = g
  <2>1. RuntimeOK(a)
    BY <1>1, ChangeFlags DEF SetGroup
  <2>2. IsRuntime(s) /\ g.reduce = s.grp[u].reduce
    BY <1>1 DEF SameLifecycle, RuntimeOK
  <2> QED
    BY <2>1, <2>2, OneGroupQuiet
<1> HIDE DEF a
<1>4. /\ Handles(a, t, u)
      /\ \/ a.grp[u].seen \cup {p} = Params
         \/ /\ Gathered(a, u) => Gathered(t, u)
            /\ t.grp[u].seen \subseteq a.grp[u].seen \cup {p}
  BY <1>3, PostAccumulateGradHandles
<1>5. Handles(s, t, u)
  BY <1>3, <1>4, QuietHandles, HandlesTransitive
<1>6. Gathered(s, u) => Gathered(a, u)
  BY <1>1, <1>3 DEF SameLifecycle, Gathered
<1> QED
  BY <1>1, <1>2, <1>3, <1>4, <1>5, <1>6

LEMMA PrepareStepUnitHandles ==
  ASSUME NEW s, NEW u \in Units, RuntimeOK(s)
  PROVE  Handles(s, PrepareStepUnit(s, u), u)
<1>1. PrepareStepUnit(s, u) \in
        {s, FinalizeBackward(s, u), DiscardUnconsumedPrefetch(s, u)}
  BY DEF PrepareStepUnit
<1>2. Handles(s, FinalizeBackward(s, u), u)
  BY FinalizeBackwardHandles
<1>3. Handles(s, DiscardUnconsumedPrefetch(s, u), u)
  BY DiscardUnconsumedPrefetchQuiet, QuietHandles
<1>4. Handles(s, s, u)
  BY QuietReflexive, QuietHandles
<1> QED
  BY <1>1, <1>2, <1>3, <1>4

LEMMA FinishBackwardIterationQuiet ==
  ASSUME NEW s, IsRuntime(s)
  PROVE  Quiet(s, FinishBackwardIteration(s))
<1>1. /\ FinishBackwardIteration(s).grp = s.grp
      /\ FinishBackwardIteration(s).queue = s.queue
  BY DEF FinishBackwardIteration, IsRuntime, RuntimeFields
<1> QED
  BY <1>1, SameGroupsQuiet

LEMMA FinishStepPreparationQuiet ==
  ASSUME NEW s, IsRuntime(s)
  PROVE  Quiet(s, FinishStepPreparation(s))
BY RaiseQuiet, FinishBackwardIterationQuiet DEF FinishStepPreparation

\* zero_grad waits for what the scheduler lists, then for anything else.
LEMMA ZeroGradKeepsBound ==
  ASSUME NEW s, NEW setToNone, RuntimeOK(s), ReduceBound(s)
  PROVE  ReduceBound(ZeroGrad(s, setToNone))
<1> DEFINE waited == WaitAllPending(s)
           zeroed(u) == ResetGradAccumulation(
             ZeroParamGrads(WaitPostBackwardReduce(waited.grp[u], u), setToNone))
           cleared == [waited EXCEPT !.grp = [u \in Units |-> zeroed(u)]]
<1>1. IsRuntime(waited)
  BY WaitAllPendingEndsReduces, EndsReducesIsRuntime DEF RuntimeOK
<1>2. Tracked(waited) /\ Reducing(waited) = {}
  BY WaitAllPendingEndsAll DEF RuntimeOK, ReduceBound
<1> HIDE DEF waited
<1>3. ASSUME NEW u \in Units
      PROVE  IsGroup(zeroed(u)) /\ zeroed(u).reduce = "none"
  <2> DEFINE w == WaitPostBackwardReduce(waited.grp[u], u)
             z == ZeroParamGrads(w, setToNone)
  <2>1. IsGroup(w) /\ w.reduce = "none"
    BY <1>1, WaitPostBackwardReduceKeeps DEF IsRuntime
  <2> HIDE DEF w
  <2>2. SameLifecycle(w, z)
    BY <2>1, ZeroParamGradsKeeps DEF IsGroup
  <2>3. SameLifecycle(z, ResetGradAccumulation(z))
    BY <2>2, ResetGradAccumulationKeeps DEF SameLifecycle
  <2> QED
    BY <2>1, <2>2, <2>3 DEF SameLifecycle, IsGroup, w
<1> HIDE DEF zeroed
<1>4. /\ IsRuntime(cleared) /\ cleared.queue = waited.queue
      /\ \A u \in Units : cleared.grp[u].reduce = "none"
  BY <1>1, <1>3 DEF IsRuntime, RuntimeFields
<1>5. ZeroGrad(s, setToNone) = FinishBackwardIteration(cleared)
  BY DEF ZeroGrad, cleared, zeroed, waited
<1> HIDE DEF cleared
<1>6. ReduceBound(waited)
  BY <1>2, FS_EmptySet, BudgetAssumption DEF ReduceBound
<1>7. ReduceBound(cleared)
  BY <1>4, <1>6, FewerReducesKeepBound
<1> QED
  BY <1>4, <1>5, <1>7, FinishBackwardIterationQuiet, SameReducesKeepBound DEF Quiet

\* Entering and leaving no_sync starts and ends no reduce.
LEMMA NoSyncKeepsReduce ==
  ASSUME NEW g, NEW u, IsGroup(g)
  PROVE  EnterNoSync(g).reduce = g.reduce /\ LeftNoSync(g, u).reduce = g.reduce
<1>1. EnterNoSync(g).reduce = g.reduce
  BY DEF EnterNoSync, IsGroup, GroupFields
<1> DEFINE h == [g EXCEPT !.depth = @ - 1]
           a == AccumulateCopyIn(h)
           r == ReshardedDeferred(a)
<1>2. DOMAIN h = GroupFields /\ h.reduce = g.reduce
  BY DEF IsGroup, GroupFields
<1>3. LeftNoSync(g, u) \in {h, a, r}
  BY DEF LeftNoSync
<1> HIDE DEF h
<1>4. DOMAIN a = GroupFields /\ a.reduce = g.reduce
  BY <1>2, AccumulateCopyInKeeps DEF SameLifecycle
<1> HIDE DEF a
<1>5. r.reduce = g.reduce
  BY <1>4 DEF ReshardedDeferred, Sharded, GroupFields
<1> QED
  BY <1>1, <1>2, <1>3, <1>4, <1>5

LEMMA EveryGroupKeepsBound ==
  ASSUME NEW s, NEW groups, IsRuntime(s), ReduceBound(s),
         \A v \in Units : groups[v].reduce = s.grp[v].reduce
  PROVE  ReduceBound([s EXCEPT !.grp = groups])
<1> DEFINE t == [s EXCEPT !.grp = groups]
<1>1. t.queue = s.queue /\ t.grp = groups
  BY DEF IsRuntime, RuntimeFields
<1> HIDE DEF t
<1>2. ReduceBound(t)
  BY <1>1, FewerReducesKeepBound
<1> QED
  BY <1>2 DEF t

-----------------------------------------------------------------------------
(* The reduces of the training loop *)

\* Inductive: what the scheduler lists, whatever the caller does next.
ReduceInv == LifecycleInv /\ ReduceBound(rt)

LEMMA ApplyKeepsBound ==
  ASSUME NEW s, Lifecycle(rt), ReduceBound(rt), ReduceBound(s), Apply(s)
  PROVE  ReduceBound(rt')
<1> DEFINE t == [rt EXCEPT !.err = s.err]
<1>1. t.queue = rt.queue /\ t.grp = rt.grp
  BY DEF Lifecycle, IsRuntime, RuntimeFields
<1>2. rt' \in {s, t}
  BY DEF Apply
<1> HIDE DEF t
<1>3. ReduceBound(t)
  BY <1>1, FewerReducesKeepBound
<1> QED
  BY <1>2, <1>3

LEMMA InitReduces == Init => ReduceInv
<1> SUFFICES ASSUME Init
             PROVE  LifecycleInv /\ ReduceBound(rt)
  BY DEF ReduceInv
<1>1. LifecycleInv
  BY InitLifecycle
<1>2. /\ rt.queue = [u \in Units |-> 0]
      /\ \A u \in Units : rt.grp[u].reduce = "none"
  BY DEF Init, InitRuntime, InitGroup
<1>3. Tracked(rt) /\ Reducing(rt) = {}
  BY <1>2 DEF Tracked, Places, Reducing, Listed
<1> QED
  BY <1>1, <1>3, FS_EmptySet, BudgetAssumption DEF ReduceBound

LEMMA NextKeepsReduces == ReduceInv /\ [Next]_vars => ReduceInv'
<1> SUFFICES ASSUME ReduceInv, [Next]_vars
             PROVE  ReduceBound(rt)'
  BY NextKeepsLifecycle DEF ReduceInv
<1>0. /\ Lifecycle(rt) /\ LoopPlaces /\ ReduceBound(rt)
      /\ RuntimeOK(rt) /\ IsRuntime(rt)
  BY LifecycleIsOK DEF ReduceInv, LifecycleInv, RuntimeOK
<1>1. ASSUME NEW program \in Programs, NEW g \in BOOLEAN, BeginForward(program, g)
      PROVE  ReduceBound(rt)'
  BY <1>0, <1>1 DEF BeginForward
<1>2. CASE CallPreForward
  <2> DEFINE u == Head(events)[2]
             s == PreForward(rt, u, grad)
  <2>1. u \in Units /\ Apply(s)
    BY <1>0, <1>2 DEF CallPreForward, LoopPlaces
  <2> HIDE DEF u
  <2>2. Handles(rt, s, u)
    BY <1>0, <2>1, PreForwardQuiet, QuietHandles
  <2> QED
    BY <1>0, <2>1, <2>2, ApplyKeepsBound DEF Handles
<1>3. CASE CallPostForward
  <2> DEFINE u == Head(events)[2]
             s == PostForward(rt, u, grad)
  <2>1. u \in Units /\ Apply(s)
    BY <1>0, <1>3 DEF CallPostForward, LoopPlaces
  <2> HIDE DEF u
  <2>2. Handles(rt, s, u)
    BY <1>0, <2>1, PostForwardQuiet, QuietHandles
  <2> QED
    BY <1>0, <2>1, <2>2, ApplyKeepsBound DEF Handles
<1>4. ASSUME NEW r \in Reaches, BeginBackward(r)
      PROVE  ReduceBound(rt)'
  BY <1>0, <1>4 DEF BeginBackward
<1>5. CASE CallPreBackward
  <2>1. PICK i \in 1 .. Len(back) :
          Apply(IF back[i] \in Reshard THEN PreBackwardUnshard(rt, back[i]) ELSE rt)
    BY <1>5 DEF CallPreBackward
  <2> DEFINE u == back[i]
             s == IF u \in Reshard THEN PreBackwardUnshard(rt, u) ELSE rt
  <2>2. Apply(s)
    BY <2>1
  <2> HIDE DEF u
  <2>3. u \in Reshard => Handles(rt, PreBackwardUnshard(rt, u), u)
    BY <1>0, ReshardAssumption, PreBackwardUnshardQuiet, QuietHandles
  <2>4. ReduceBound(s)
    BY <1>0, <2>3 DEF Handles
  <2> QED
    BY <1>0, <2>2, <2>4, ApplyKeepsBound
<1>6. ASSUME NEW u \in Units, NEW p \in Params, CallAccumulateGrad(u, p)
      PROVE  ReduceBound(rt)'
  <2> DEFINE s == AccumulateGrad(rt, u, p, micro)
  <2>1. Apply(s)
    BY <1>6 DEF CallAccumulateGrad
  <2>2. Handles(rt, s, u)
    BY <1>0, AccumulateGradHandles
  <2> QED
    BY <1>0, <2>1, <2>2, ApplyKeepsBound DEF Handles
<1>7. CASE EndBackward
  BY <1>0, <1>7 DEF EndBackward
<1>8. ASSUME NEW scope \in Scopes, CallEnterNoSync(scope)
      PROVE  ReduceBound(rt)'
  <2> DEFINE groups ==
        [u \in Units |-> IF u \in scope THEN EnterNoSync(rt.grp[u]) ELSE rt.grp[u]]
  <2>1. \A v \in Units : groups[v].reduce = rt.grp[v].reduce
    BY <1>0, NoSyncKeepsReduce DEF IsRuntime
  <2>2. Apply([rt EXCEPT !.grp = groups])
    BY <1>8 DEF CallEnterNoSync
  <2> HIDE DEF groups
  <2>3. ReduceBound([rt EXCEPT !.grp = groups])
    BY <1>0, <2>1, EveryGroupKeepsBound
  <2> QED
    BY <1>0, <2>2, <2>3, ApplyKeepsBound
<1>9. CASE CallExitNoSync
  <2> DEFINE scope == contexts[Len(contexts)].scope
             groups ==
        [u \in Units |-> IF u \in scope THEN LeftNoSync(rt.grp[u], u) ELSE rt.grp[u]]
  <2>1. \A v \in Units : groups[v].reduce = rt.grp[v].reduce
    BY <1>0, NoSyncKeepsReduce DEF IsRuntime
  <2>2. rt' = [rt EXCEPT !.err = "gather_while_not_unsharded"] \/ Apply([rt EXCEPT !.grp = groups])
    BY <1>0, <1>9, CallExitNoSyncForm
  <2> HIDE DEF groups
  <2>3. ReduceBound([rt EXCEPT !.grp = groups])
    BY <1>0, <2>1, EveryGroupKeepsBound
  <2>4. CASE rt' = [rt EXCEPT !.err = "gather_while_not_unsharded"]
    <3>1. rt'.grp = rt.grp /\ rt'.queue = rt.queue
      BY <1>0, <2>4 DEF Lifecycle, IsRuntime, RuntimeFields
    <3> QED
      BY <1>0, <3>1, SameReducesKeepBound DEF SameReduces
  <2> QED
    BY <1>0, <2>2, <2>3, <2>4, ApplyKeepsBound
<1>10. CASE BeginStep
  <2>1. ReduceBound(WaitAllPending(rt))
    BY <1>0, WaitAllPendingEndsAll, FS_EmptySet, BudgetAssumption DEF ReduceBound
  <2> QED
    BY <1>0, <1>10, <2>1, ApplyKeepsBound DEF BeginStep
<1>11. CASE PrepareNextUnit
  <2>1. cursor \in Units
    BY <1>0, <1>11, UnitCountAssumption DEF PrepareNextUnit, LoopPlaces, Units
  <2>2. Handles(rt, PrepareStepUnit(rt, cursor), cursor)
    BY <1>0, <2>1, PrepareStepUnitHandles
  <2> QED
    BY <1>0, <1>11, <2>2, ApplyKeepsBound DEF PrepareNextUnit, Handles
<1>12. CASE EndStep
  <2>1. ReduceBound(FinishStepPreparation(rt))
    BY <1>0, FinishStepPreparationQuiet, SameReducesKeepBound DEF Quiet
  <2> QED
    BY <1>0, <1>12, <2>1, ApplyKeepsBound DEF EndStep
<1>13. ASSUME NEW setToNone \in ZeroModes, CallZeroGrad(setToNone)
       PROVE  ReduceBound(rt)'
  BY <1>0, <1>13, ZeroGradKeepsBound, ApplyKeepsBound DEF CallZeroGrad
<1>14. CASE UNCHANGED vars
  BY <1>0, <1>14 DEF vars
<1> QED
  BY <1>1, <1>2, <1>3, <1>4, <1>5, <1>6, <1>7, <1>8, <1>9, <1>10, <1>11, <1>12, <1>13,
     <1>14 DEF Next

\* The scheduler never loses a reduce it left in flight: the list of
\* after_backward_reduce_started names each, at a place of its own, through
\* pruning, waiting for the oldest and starting more, and it is never longer
\* than max_pending_backward_reduces.
THEOREM ReducesAlwaysTracked == Spec => []ReducesTracked
<1>1. Init => ReduceInv
  BY InitReduces
<1>2. ReduceInv /\ [Next]_vars => ReduceInv'
  BY NextKeepsReduces
<1>3. ReduceInv => ReducesTracked
  <2> SUFFICES ASSUME ReduceBound(rt)
               PROVE  ReducesTracked
    BY DEF ReduceInv
  <2>1. InFlightReduces = Reducing(rt)
    BY DEF InFlightReduces, Reducing
  <2> QED
    BY <2>1 DEF ReduceBound, Tracked, Places, Reducing, Listed, ReducesTracked
<1> QED
  BY <1>1, <1>2, <1>3, PTL DEF Spec

-----------------------------------------------------------------------------
(* The parameters a forward or a backward computes with.  Between its two  *)
(* forward hooks a unit is gathered and no parameter of it has a gradient  *)
(* yet; so it is, if it does not reshard, until its output hook; and from  *)
(* the output hook on the parameters autograd still has to accumulate are  *)
(* among those the group has not seen, so that the group is not finalized. *)

\* Entering and leaving no_sync reshard, at most, a group that reshards.
LEMMA NoSyncKeepsUse ==
  ASSUME NEW g, NEW u, IsGroup(g), g.seen = {}
  PROVE  /\ EnterNoSync(g).seen = {}
         /\ EnterNoSync(g).state = g.state /\ EnterNoSync(g).inflight = g.inflight
         /\ LeftNoSync(g, u).seen = {}
         /\ u \notin Reshard => /\ LeftNoSync(g, u).state = g.state
                                /\ LeftNoSync(g, u).inflight = g.inflight
<1>1. /\ EnterNoSync(g).seen = {}
      /\ EnterNoSync(g).state = g.state /\ EnterNoSync(g).inflight = g.inflight
  BY DEF EnterNoSync, IsGroup, GroupFields
<1> DEFINE h == [g EXCEPT !.depth = @ - 1]
           a == AccumulateCopyIn(h)
           r == ReshardedDeferred(a)
<1>2. /\ DOMAIN h = GroupFields
      /\ h.seen = {} /\ h.state = g.state /\ h.inflight = g.inflight
  BY DEF IsGroup, GroupFields
<1>3. LeftNoSync(g, u) \in {h, a, r} /\ (u \notin Reshard => LeftNoSync(g, u) \in {h, a})
  BY DEF LeftNoSync
<1> HIDE DEF h
<1>4. /\ DOMAIN a = GroupFields
      /\ a.seen = {} /\ a.state = g.state /\ a.inflight = g.inflight
  BY <1>2, AccumulateCopyInKeeps, GradientsKeepSeen DEF SameLifecycle
<1> HIDE DEF a
<1>5. r.seen = {}
  BY <1>4 DEF ReshardedDeferred, Sharded, GroupFields
<1> HIDE DEF r
<1> QED
  BY <1>1, <1>2, <1>3, <1>4, <1>5

\* The hooks of a forward, or what is left of them.
InOrder(hooks) ==
  \A i, j \in 1 .. Len(hooks) :
    /\ hooks[i] = hooks[j] => i = j
    /\ hooks[i] = <<"pre", hooks[j][2]>> /\ hooks[j][1] = "post" => i < j

Uncalled(hooks, u) == \A i \in 1 .. Len(hooks) : hooks[i][2] # u

LEMMA TailOfHooks ==
  ASSUME NEW hooks \in Seq({"pre", "post"} \X Units), hooks # <<>>, InOrder(hooks)
  PROVE  /\ InOrder(Tail(hooks))
         /\ Head(hooks)[2] \in Units
         /\ \A u \in Units : Uncalled(hooks, u) => Uncalled(Tail(hooks), u)
         /\ Head(hooks)[1] = "post" => Uncalled(Tail(hooks), Head(hooks)[2])
<1> DEFINE u == Head(hooks)[2]
<1>1. /\ Len(hooks) \in Nat \ {0} /\ Head(hooks) = hooks[1]
      /\ Tail(hooks) \in Seq({"pre", "post"} \X Units)
      /\ Len(Tail(hooks)) = Len(hooks) - 1
      /\ \A i \in 1 .. Len(Tail(hooks)) :
           i + 1 \in 1 .. Len(hooks) /\ Tail(hooks)[i] = hooks[i + 1]
  OBVIOUS
<1>2. \A i \in 1 .. Len(hooks) : /\ hooks[i] = <<hooks[i][1], hooks[i][2]>>
                                 /\ hooks[i][1] \in {"pre", "post"}
                                 /\ hooks[i][2] \in Units
  BY <1>1
<1>3. InOrder(Tail(hooks))
  <2> SUFFICES ASSUME NEW i \in 1 .. Len(Tail(hooks)), NEW j \in 1 .. Len(Tail(hooks))
               PROVE  /\ Tail(hooks)[i] = Tail(hooks)[j] => i = j
                      /\ Tail(hooks)[i] = <<"pre", Tail(hooks)[j][2]>>
                           /\ Tail(hooks)[j][1] = "post" => i < j
    BY DEF InOrder
  <2>1. /\ i + 1 \in 1 .. Len(hooks) /\ Tail(hooks)[i] = hooks[i + 1]
        /\ j + 1 \in 1 .. Len(hooks) /\ Tail(hooks)[j] = hooks[j + 1]
    BY <1>1
  <2>2. /\ hooks[i + 1] = hooks[j + 1] => i + 1 = j + 1
        /\ hooks[i + 1] = <<"pre", hooks[j + 1][2]>> /\ hooks[j + 1][1] = "post"
             => i + 1 < j + 1
    BY <2>1 DEF InOrder
  <2> QED
    BY <2>1, <2>2
<1>4. \A v \in Units : Uncalled(hooks, v) => Uncalled(Tail(hooks), v)
  BY <1>1 DEF Uncalled
<1>5. ASSUME hooks[1][1] = "post", NEW i \in 1 .. Len(Tail(hooks)),
             Tail(hooks)[i][2] = hooks[1][2]
      PROVE  FALSE
  <2>1. /\ 1 \in 1 .. Len(hooks) /\ i + 1 \in 1 .. Len(hooks)
        /\ hooks[i + 1][2] = hooks[1][2]
    BY <1>1, <1>5
  <2>2. CASE hooks[i + 1][1] = "post"
    <3>1. hooks[i + 1] = hooks[1]
      BY <1>2, <1>5, <2>1, <2>2
    <3> QED
      BY <2>1, <3>1 DEF InOrder
  <2>3. CASE hooks[i + 1][1] = "pre"
    <3>1. hooks[i + 1] = <<"pre", hooks[1][2]>>
      BY <1>2, <2>1, <2>3
    <3>2. i + 1 < 1
      BY <1>5, <2>1, <3>1 DEF InOrder
    <3> QED
      BY <3>2
  <2> QED
    BY <1>2, <2>1, <2>2, <2>3
<1> QED
  BY <1>1, <1>2, <1>3, <1>4, <1>5 DEF Uncalled

\* Between its hooks.
Entered(hooks, u) ==
  /\ \E i \in 1 .. Len(hooks) : hooks[i] = <<"post", u>>
  /\ ~ \E i \in 1 .. Len(hooks) : hooks[i] = <<"pre", u>>

LEMMA EnteredAfterHead ==
  ASSUME NEW hooks \in Seq({"pre", "post"} \X Units), hooks # <<>>, InOrder(hooks),
         NEW v \in Units
  PROVE  /\ Entered(Tail(hooks), v) =>
              \/ Entered(hooks, v)
              \/ Head(hooks)[1] = "pre" /\ Head(hooks)[2] = v
         /\ Head(hooks)[1] = "post" => Entered(hooks, Head(hooks)[2])
<1>1. /\ Len(hooks) \in Nat \ {0} /\ Head(hooks) = hooks[1]
      /\ Len(Tail(hooks)) = Len(hooks) - 1
      /\ \A i \in 1 .. Len(Tail(hooks)) :
           i + 1 \in 1 .. Len(hooks) /\ Tail(hooks)[i] = hooks[i + 1]
      /\ \A i \in 1 .. Len(hooks) :
           i = 1 \/ (i - 1 \in 1 .. Len(Tail(hooks)) /\ Tail(hooks)[i - 1] = hooks[i])
  OBVIOUS
<1>2. hooks[1] = <<hooks[1][1], hooks[1][2]>>
  BY <1>1
<1>3. ASSUME Entered(Tail(hooks), v), ~Entered(hooks, v)
      PROVE  hooks[1][1] = "pre" /\ hooks[1][2] = v
  <2>1. \E i \in 1 .. Len(hooks) : hooks[i] = <<"post", v>>
    BY <1>1, <1>3 DEF Entered
  <2>2. PICK i \in 1 .. Len(hooks) : hooks[i] = <<"pre", v>>
    BY <1>3, <2>1 DEF Entered
  <2>3. i = 1
    BY <1>1, <1>3, <2>2 DEF Entered
  <2> QED
    BY <2>2, <2>3
<1>4. ASSUME hooks[1][1] = "post"
      PROVE  Entered(hooks, hooks[1][2])
  <2>1. 1 \in 1 .. Len(hooks) /\ hooks[1] = <<"post", hooks[1][2]>>
    BY <1>1, <1>2, <1>4
  <2>2. ASSUME NEW i \in 1 .. Len(hooks), hooks[i] = <<"pre", hooks[1][2]>>
        PROVE  FALSE
    <3>1. i < 1
      BY <1>4, <2>1, <2>2 DEF InOrder
    <3> QED
      BY <3>1
  <2> QED
    BY <2>1, <2>2 DEF Entered
<1> QED
  BY <1>1, <1>3, <1>4

LEMMA ProgramInOrder ==
  ASSUME NEW program \in Programs
  PROVE  InOrder(program) /\ \A u \in Units : ~Entered(program, u)
<1>1. InOrder(program)
  BY HooksAssumption DEF Programs, InOrder
<1>2. ASSUME NEW u \in Units, Entered(program, u)
      PROVE  FALSE
  <2>1. PICK i \in 1 .. Len(program) : program[i] = <<"post", u>>
    BY <1>2 DEF Entered
  <2>2. program[i][1] = "post" /\ program[i][2] = u
    BY <2>1
  <2>3. \E k \in 1 .. Len(program) : program[k] = <<"pre", program[i][2]>>
    BY <2>2, HooksAssumption DEF Programs
  <2> QED
    BY <1>2, <2>2, <2>3 DEF Entered
<1> QED
  BY <1>1, <1>2

\* Where the pass is: the units of `back' have left their forward.
PassPlaces ==
  /\ back \in Seq(Units)
  /\ need \in [Units -> SUBSET Params] /\ reach \in [Units -> SUBSET Params]
  /\ InOrder(events)
  /\ \A i, j \in 1 .. Len(back) : back[i] = back[j] => i = j
  /\ \A i \in 1 .. Len(back) : Uncalled(events, back[i]) /\ need[back[i]] = {}
  /\ events # <<>> => phase \in {"forward", "eval"}
  /\ \A u \in Units : need[u] # {} => phase = "backward"
  /\ back # <<>> => phase \in {"forward", "forwarded", "backward"}
  /\ phase = "eval" => ~grad
  /\ phase = "forward" /\ back # <<>> => grad

InUse(s) ==
  /\ \A u \in Units : Entered(events, u) => Gathered(s, u) /\ s.grp[u].seen = {}
  /\ \A i \in 1 .. Len(back) : /\ s.grp[back[i]].seen = {}
                               /\ back[i] \notin Reshard => Gathered(s, back[i])
  /\ \A u \in Units :
       need[u] # {} => Gathered(s, u) /\ need[u] \cap s.grp[u].seen = {}

\* An error ends the behaviour, and with it the use of what it left behind.
PassInv == LifecycleInv /\ PassPlaces /\ (Running => InUse(rt))

LEMMA InitPass == Init => PassInv
<1> SUFFICES ASSUME Init
             PROVE  LifecycleInv /\ PassPlaces /\ InUse(rt)
  BY DEF PassInv
<1>1. LifecycleInv
  BY InitLifecycle
<1>2. PassPlaces
  BY DEF Init, PassPlaces, NoParams, InOrder
<1>3. InUse(rt)
  BY DEF Init, InUse, Entered, NoParams
<1> QED
  BY <1>1, <1>2, <1>3

LEMMA NextKeepsPlaces ==
  ASSUME LoopPlaces, PassPlaces, [Next]_vars
  PROVE  PassPlaces'
<1> USE DEF PassPlaces
<1>1. ASSUME NEW program \in Programs, NEW g \in BOOLEAN, BeginForward(program, g)
      PROVE  PassPlaces'
  <2>1. phase \in {"idle", "stepped"} /\ (phase = "stepped" => ~g)
    BY <1>1 DEF BeginForward, CanTrain, CanEvaluate
  <2>2. back = <<>>
    BY <2>1
  <2> QED
    BY <1>1, <2>1, <2>2, ProgramInOrder DEF BeginForward
<1>2. CASE CallPreForward
  BY <1>2, TailOfHooks DEF CallPreForward, LoopPlaces
<1>3. CASE CallPostForward
  <2> DEFINE u == Head(events)[2]
  <2>1. /\ events # <<>> /\ Head(events)[1] = "post"
        /\ events' = Tail(events)
        /\ back' = (IF grad THEN <<u>> \o back ELSE back)
        /\ need' = need /\ reach' = reach /\ grad' = grad
        /\ phase \in {"forward", "eval"}
    BY <1>3 DEF CallPostForward
  <2>2. /\ InOrder(Tail(events)) /\ u \in Units /\ Uncalled(Tail(events), u)
        /\ \A v \in Units : Uncalled(events, v) => Uncalled(Tail(events), v)
    BY <2>1, TailOfHooks DEF LoopPlaces
  <2>3. 1 \in 1 .. Len(events) /\ events[1][2] = u
    BY <2>1 DEF LoopPlaces
  <2>4. \A i \in 1 .. Len(back) : back[i] # u
    BY <2>3 DEF Uncalled
  <2>5. need[u] = {}
    BY <2>1, <2>2
  <2> HIDE DEF u
  <2>6. /\ back' \in Seq(Units)
        /\ \A i \in 1 .. Len(back') :
             \/ back'[i] = u /\ i = 1 /\ grad
             \/ ~grad /\ i \in 1 .. Len(back) /\ back'[i] = back[i]
             \/ grad /\ i - 1 \in 1 .. Len(back) /\ back'[i] = back[i - 1]
    BY <2>1, <2>2
  <2>7. \A i \in 1 .. Len(back') : Uncalled(events', back'[i]) /\ need'[back'[i]] = {}
    BY <2>1, <2>2, <2>5, <2>6
  <2>8. \A i, j \in 1 .. Len(back') : back'[i] = back'[j] => i = j
    BY <2>4, <2>6
  <2>9. \/ Tail(events) # <<>> /\ phase' = phase
        \/ Tail(events) = <<>> /\ grad /\ phase' = "forwarded"
        \/ Tail(events) = <<>> /\ ~grad /\ phase' \in {"stepped", "idle"}
    BY <1>3 DEF CallPostForward
  <2>10. /\ events' # <<>> => phase' \in {"forward", "eval"}
         /\ \A v \in Units : need'[v] # {} => phase' = "backward"
         /\ phase' = "eval" => ~grad'
    BY <2>1, <2>9
  <2>11. /\ back' # <<>> => phase' \in {"forward", "forwarded", "backward"}
         /\ phase' = "forward" /\ back' # <<>> => grad'
    BY <2>1, <2>9
  <2> QED
    BY <2>1, <2>2, <2>6, <2>7, <2>8, <2>10, <2>11
<1>4. ASSUME NEW r \in Reaches, BeginBackward(r)
      PROVE  PassPlaces'
  <2>1. reach' \in [Units -> SUBSET Params]
    BY <1>4, ReachesAssumption DEF BeginBackward
  <2> QED
    BY <1>4, <2>1 DEF BeginBackward
<1>5. CASE CallPreBackward
  <2>1. PICK i \in 1 .. Len(back) :
          /\ need' = [need EXCEPT ![back[i]] = reach[back[i]]]
          /\ back' = SubSeq(back, i + 1, Len(back))
    BY <1>5 DEF CallPreBackward
  <2>2. /\ phase = "backward"
        /\ UNCHANGED <<phase, grad, events, reach>>
    BY <1>5 DEF CallPreBackward
  <2>3. /\ back[i] \in Units /\ back' \in Seq(Units)
        /\ \A j \in 1 .. Len(back') :
             i + j \in 1 .. Len(back) /\ i + j # i /\ back'[j] = back[i + j]
    BY <2>1
  <2>4. \A j, k \in 1 .. Len(back') : back'[j] = back'[k] => j = k
    BY <2>3
  <2>5. \A j \in 1 .. Len(back') :
          Uncalled(events', back'[j]) /\ need'[back'[j]] = {}
    BY <2>1, <2>2, <2>3
  <2>6. need' \in [Units -> SUBSET Params]
    BY <2>1, <2>3
  <2> QED
    BY <2>2, <2>3, <2>4, <2>5, <2>6
<1>6. ASSUME NEW u \in Units, NEW p \in Params, CallAccumulateGrad(u, p)
      PROVE  PassPlaces'
  BY <1>6 DEF CallAccumulateGrad
<1>7. CASE EndBackward
  BY <1>7 DEF EndBackward, NoParams
<1>8. ASSUME NEW scope \in Scopes, CallEnterNoSync(scope)
      PROVE  PassPlaces'
  BY <1>8 DEF CallEnterNoSync
<1>9. CASE CallExitNoSync
  BY <1>9 DEF CallExitNoSync
<1>10. CASE BeginStep
  BY <1>10 DEF BeginStep, CanStep
<1>11. CASE PrepareNextUnit
  BY <1>11 DEF PrepareNextUnit
<1>12. CASE EndStep
  BY <1>12 DEF EndStep
<1>13. ASSUME NEW setToNone \in ZeroModes, CallZeroGrad(setToNone)
       PROVE  PassPlaces'
  BY <1>13 DEF CallZeroGrad
<1>14. CASE UNCHANGED vars
  BY <1>14 DEF vars
<1> QED
  BY <1>1, <1>2, <1>3, <1>4, <1>5, <1>6, <1>7, <1>8, <1>9, <1>10, <1>11, <1>12, <1>13,
     <1>14 DEF Next

LEMMA RaisedExitStops ==
  ASSUME Lifecycle(rt), Running', rt' = [rt EXCEPT !.err = "gather_while_not_unsharded"]
  PROVE  FALSE
BY NoneAssumption DEF Lifecycle, IsRuntime, RuntimeFields, Running, Errors

LEMMA AppliedWithoutError ==
  ASSUME NEW s, Lifecycle(rt), Apply(s), Running'
  PROVE  rt' = s /\ s.err = None
<1>1. [rt EXCEPT !.err = s.err].err = s.err
  BY DEF Lifecycle, IsRuntime, RuntimeFields
<1> QED
  BY <1>1 DEF Apply, Running

LEMMA SparedKeepsUse ==
  ASSUME NEW s, NEW t, NEW u, NEW v \in Units \ {u}, SparesBut(s, t, u)
  PROVE  t.grp[v].seen = s.grp[v].seen /\ (Gathered(s, v) => Gathered(t, v))
BY DEF SparesBut, SparedGroup, Gathered

LEMMA NoneEntered == \A u : ~Entered(<<>>, u)
BY DEF Entered

LEMMA NextKeepsUse ==
  ASSUME LifecycleInv, PassPlaces, Running => InUse(rt), [Next]_vars, Running'
  PROVE  InUse(rt)'
<1>0. Lifecycle(rt) /\ LoopPlaces /\ RuntimeOK(rt) /\ IsRuntime(rt)
  BY LifecycleIsOK DEF LifecycleInv, RuntimeOK
<1> USE DEF PassPlaces
<1>1. ASSUME NEW program \in Programs, NEW g \in BOOLEAN, BeginForward(program, g)
      PROVE  InUse(rt)'
  <2>1. Running /\ phase \in {"idle", "stepped"}
    BY <1>1 DEF BeginForward, CanTrain, CanEvaluate
  <2>2. \A u \in Units : ~Entered(events', u)
    BY <1>1, ProgramInOrder DEF BeginForward
  <2> QED
    BY <1>1, <2>1, <2>2 DEF BeginForward, InUse
<1>2. CASE CallPreForward
  <2> DEFINE u == Head(events)[2]
             s == PreForward(rt, u, grad)
  <2>1. /\ Running /\ events # <<>> /\ Head(events)[1] = "pre" /\ Apply(s)
        /\ events' = Tail(events)
        /\ UNCHANGED <<back, need>>
    BY <1>2 DEF CallPreForward
  <2>2. u \in Units /\ 1 \in 1 .. Len(events) /\ events[1][2] = u
    BY <1>0, <2>1, TailOfHooks DEF LoopPlaces
  <2>3. phase # "backward"
    BY <2>1
  <2>4. \A v \in Units : Entered(events', v) => Entered(events, v) \/ v = u
    BY <1>0, <2>1, EnteredAfterHead DEF LoopPlaces
  <2>5. \A i \in 1 .. Len(back) : back[i] \in Units \ {u}
    BY <2>2 DEF Uncalled
  <2> HIDE DEF u
  <2>6. rt' = s /\ s.err = None
    BY <1>0, <2>1, AppliedWithoutError
  <2>7. SparesBut(rt, s, u) /\ Gathered(s, u) /\ s.grp[u].seen = {}
    BY <1>0, <2>2, <2>6, PreForwardQuiet, QuietSpares
  <2> HIDE DEF s
  <2>8. \A v \in Units : Entered(events', v) => Gathered(s, v) /\ s.grp[v].seen = {}
    BY <2>1, <2>4, <2>7, SparedKeepsUse DEF InUse
  <2>9. \A i \in 1 .. Len(back) : /\ s.grp[back[i]].seen = {}
                                  /\ back[i] \notin Reshard => Gathered(s, back[i])
    BY <2>1, <2>5, <2>7, SparedKeepsUse DEF InUse
  <2>10. \A v \in Units : need[v] = {}
    BY <2>3
  <2> QED
    BY <2>1, <2>6, <2>8, <2>9, <2>10 DEF InUse
<1>3. CASE CallPostForward
  <2> DEFINE u == Head(events)[2]
             s == PostForward(rt, u, grad)
  <2>1. /\ Running /\ events # <<>> /\ Head(events)[1] = "post" /\ Apply(s)
        /\ events' = Tail(events)
        /\ back' = (IF grad THEN <<u>> \o back ELSE back)
        /\ need' = need
    BY <1>3 DEF CallPostForward
  <2>2. u \in Units /\ 1 \in 1 .. Len(events) /\ events[1][2] = u
    BY <1>0, <2>1, TailOfHooks DEF LoopPlaces
  <2>3. \A v \in Units : Entered(events', v) => Entered(events, v)
    BY <1>0, <2>1, EnteredAfterHead DEF LoopPlaces
  <2>4. Entered(events, u)
    BY <1>0, <2>1, <2>2, EnteredAfterHead DEF LoopPlaces
  <2>5. ~Entered(events', u)
    <3>1. Uncalled(events', u)
      BY <1>0, <2>1, TailOfHooks DEF LoopPlaces
    <3> QED
      BY <3>1 DEF Entered, Uncalled
  <2>6. \A i \in 1 .. Len(back) : back[i] \in Units \ {u}
    BY <2>2 DEF Uncalled
  <2>7. \A v \in Units : need[v] = {}
    BY <2>1
  <2> HIDE DEF u
  <2>8. \A i \in 1 .. Len(back') :
          back'[i] = u \/ \E j \in 1 .. Len(back) : back'[i] = back[j]
    BY <2>1, <2>2
  <2>9. rt' = s
    BY <1>0, <2>1, AppliedWithoutError
  <2>10. /\ SparesBut(rt, s, u) /\ s.grp[u].seen = rt.grp[u].seen
         /\ u \notin Reshard => s = rt
    <3>1. RuntimeOK(rt) /\ u \in Units
      BY <1>0, <2>2
    <3>2. QuietBut(rt, s, u) => SparesBut(rt, s, u)
      BY QuietSpares
    <3> QED
      BY <3>1, <3>2, PostForwardQuiet
  <2> HIDE DEF s
  <2>11. \A v \in Units : Entered(events', v) => Gathered(s, v) /\ s.grp[v].seen = {}
    BY <2>1, <2>3, <2>5, <2>10, SparedKeepsUse DEF InUse
  <2>12. s.grp[u].seen = {} /\ (u \notin Reshard => Gathered(s, u))
    BY <2>1, <2>2, <2>4, <2>10 DEF InUse
  <2>13. \A i \in 1 .. Len(back) : /\ s.grp[back[i]].seen = {}
                                   /\ back[i] \notin Reshard => Gathered(s, back[i])
    BY <2>1, <2>6, <2>10, SparedKeepsUse DEF InUse
  <2>14. \A i \in 1 .. Len(back') : /\ s.grp[back'[i]].seen = {}
                                    /\ back'[i] \notin Reshard => Gathered(s, back'[i])
    BY <2>8, <2>12, <2>13
  <2> QED
    BY <2>1, <2>7, <2>9, <2>11, <2>14 DEF InUse
<1>4. ASSUME NEW r \in Reaches, BeginBackward(r)
      PROVE  InUse(rt)'
  BY <1>4 DEF BeginBackward, InUse, Entered
<1>5. CASE CallPreBackward
  <2>1. /\ Running /\ phase = "backward" /\ events' = events /\ events = <<>>
    BY <1>5 DEF CallPreBackward
  <2>2. PICK i \in 1 .. Len(back) :
          /\ Apply(IF back[i] \in Reshard THEN PreBackwardUnshard(rt, back[i]) ELSE rt)
          /\ need' = [need EXCEPT ![back[i]] = reach[back[i]]]
          /\ back' = SubSeq(back, i + 1, Len(back))
    BY <1>5 DEF CallPreBackward
  <2> DEFINE u == back[i]
             s == IF u \in Reshard THEN PreBackwardUnshard(rt, u) ELSE rt
  <2>3. Apply(s) /\ u \in Units
    BY <2>2
  <2>4. \A j \in 1 .. Len(back') : i + j \in 1 .. Len(back) /\ back'[j] = back[i + j]
    BY <2>2
  <2>5. /\ rt.grp[u].seen = {} /\ (u \notin Reshard => Gathered(rt, u))
        /\ need' = [need EXCEPT ![u] = reach[u]]
    BY <2>1, <2>2 DEF InUse
  <2> HIDE DEF u
  <2>6. rt' = s
    BY <1>0, <2>3, AppliedWithoutError
  <2>7. /\ SparesAll(rt, s) /\ Gathered(s, u)
    BY <1>0, <2>3, <2>5, PreBackwardUnshardQuiet, QuietReflexive, QuietSpares
  <2> HIDE DEF s
  <2>8. \A v \in Units : /\ s.grp[v].seen = rt.grp[v].seen
                         /\ Gathered(rt, v) => Gathered(s, v)
    BY <2>7 DEF SparesAll, SparedGroup, Gathered
  <2>9. \A v \in Units :
          need'[v] # {} => Gathered(s, v) /\ need'[v] \cap s.grp[v].seen = {}
    <3> SUFFICES ASSUME NEW v \in Units, need'[v] # {}
                 PROVE  Gathered(s, v) /\ need'[v] \cap s.grp[v].seen = {}
      OBVIOUS
    <3>1. CASE v = u
      BY <2>5, <2>7, <2>8, <3>1
    <3>2. CASE v # u
      <4>1. need'[v] = need[v]
        BY <2>5, <3>2
      <4> QED
        BY <2>1, <2>8, <4>1 DEF InUse
    <3> QED
      BY <3>1, <3>2
  <2>10. \A j \in 1 .. Len(back') : /\ s.grp[back'[j]].seen = {}
                                    /\ back'[j] \notin Reshard => Gathered(s, back'[j])
    <3> SUFFICES ASSUME NEW j \in 1 .. Len(back')
                 PROVE  /\ s.grp[back'[j]].seen = {}
                        /\ back'[j] \notin Reshard => Gathered(s, back'[j])
      OBVIOUS
    <3>1. PICK k \in 1 .. Len(back) : back'[j] = back[k]
      BY <2>4
    <3>2. back[k] \in Units
      OBVIOUS
    <3> QED
      BY <2>1, <2>8, <3>1, <3>2 DEF InUse
  <2> QED
    BY <2>1, <2>6, <2>9, <2>10, NoneEntered DEF InUse
<1>6. ASSUME NEW u \in Units, NEW p \in Params, CallAccumulateGrad(u, p)
      PROVE  InUse(rt)'
  <2> DEFINE s == AccumulateGrad(rt, u, p, micro)
  <2>1. /\ Running /\ p \in need[u] /\ Apply(s) /\ need[u] # {}
        /\ need' = [need EXCEPT ![u] = @ \ {p}]
        /\ UNCHANGED <<back, events, phase>>
    BY <1>6 DEF CallAccumulateGrad
  <2>2. phase = "backward" /\ events = <<>>
    BY <2>1
  <2>3. \A i \in 1 .. Len(back) : back[i] \in Units \ {u}
    BY <2>1
  <2>4. Gathered(rt, u) /\ need[u] \cap rt.grp[u].seen = {}
    BY <2>1 DEF InUse
  <2>5. rt' = s
    BY <1>0, <2>1, AppliedWithoutError
  <2>6. /\ SparesBut(rt, s, u)
        /\ \/ rt.grp[u].seen \cup {p} = Params
           \/ Gathered(s, u) /\ s.grp[u].seen \subseteq rt.grp[u].seen \cup {p}
    BY <1>0, <2>4, AccumulateGradHandles DEF Handles
  <2> HIDE DEF s
  <2>7. need'[u] = need[u] \ {p} /\ \A v \in Units \ {u} : need'[v] = need[v]
    BY <2>1
  <2>8. need'[u] # {} => Gathered(s, u) /\ need'[u] \cap s.grp[u].seen = {}
    <3>1. CASE rt.grp[u].seen \cup {p} = Params
      <4>1. need[u] \subseteq Params
        OBVIOUS
      <4> QED
        BY <2>4, <2>7, <3>1, <4>1
    <3>2. CASE Gathered(s, u) /\ s.grp[u].seen \subseteq rt.grp[u].seen \cup {p}
      BY <2>4, <2>7, <3>2
    <3> QED
      BY <2>6, <3>1, <3>2
  <2>9. \A v \in Units \ {u} :
          need'[v] # {} => Gathered(s, v) /\ need'[v] \cap s.grp[v].seen = {}
    BY <2>1, <2>6, <2>7, SparedKeepsUse DEF InUse
  <2>10. \A i \in 1 .. Len(back) : /\ s.grp[back[i]].seen = {}
                                   /\ back[i] \notin Reshard => Gathered(s, back[i])
    BY <2>1, <2>3, <2>6, SparedKeepsUse DEF InUse
  <2> QED
    BY <2>1, <2>2, <2>5, <2>8, <2>9, <2>10, NoneEntered DEF InUse
<1>7. CASE EndBackward
  BY <1>7 DEF EndBackward, InUse, Running
<1>8. ASSUME NEW scope \in Scopes, CallEnterNoSync(scope)
      PROVE  InUse(rt)'
  <2> DEFINE groups ==
        [u \in Units |-> IF u \in scope THEN EnterNoSync(rt.grp[u]) ELSE rt.grp[u]]
             s == [rt EXCEPT !.grp = groups]
  <2>1. /\ Running /\ Apply(s) /\ UNCHANGED <<events, back, need>>
        /\ phase \in {"idle", "forwarded"}
    BY <1>8 DEF CallEnterNoSync, Between
  <2>2. events = <<>> /\ \A v \in Units : need[v] = {}
    BY <2>1
  <2>3. \A v \in Units : rt.grp[v].seen = {} =>
          /\ groups[v].seen = {}
          /\ groups[v].state = rt.grp[v].state
          /\ groups[v].inflight = rt.grp[v].inflight
    BY <1>0, NoSyncKeepsUse DEF IsRuntime
  <2> HIDE DEF groups
  <2>4. rt' = s /\ s.grp = groups
    BY <1>0, <2>1, AppliedWithoutError DEF IsRuntime, RuntimeFields
  <2> HIDE DEF s
  <2>5. \A i \in 1 .. Len(back) : /\ s.grp[back[i]].seen = {}
                                  /\ back[i] \notin Reshard => Gathered(s, back[i])
    <3> SUFFICES ASSUME NEW i \in 1 .. Len(back)
                 PROVE  /\ s.grp[back[i]].seen = {}
                        /\ back[i] \notin Reshard => Gathered(s, back[i])
      OBVIOUS
    <3>1. back[i] \in Units
      OBVIOUS
    <3> QED
      BY <2>1, <2>3, <2>4, <3>1 DEF InUse, Gathered
  <2> QED
    BY <2>1, <2>2, <2>4, <2>5, NoneEntered DEF InUse
<1>9. CASE CallExitNoSync
  <2> DEFINE scope == contexts[Len(contexts)].scope
             groups ==
        [u \in Units |-> IF u \in scope THEN LeftNoSync(rt.grp[u], u) ELSE rt.grp[u]]
             s == [rt EXCEPT !.grp = groups]
  <2>1. /\ Running /\ Apply(s) /\ UNCHANGED <<events, back, need>>
        /\ phase \in {"idle", "forwarded"}
    BY <1>0, <1>9, CallExitNoSyncForm, RaisedExitStops DEF CallExitNoSync, CanLeave, Between
  <2>2. events = <<>> /\ \A v \in Units : need[v] = {}
    BY <2>1
  <2>3. \A v \in Units : rt.grp[v].seen = {} =>
          /\ groups[v].seen = {}
          /\ v \notin Reshard => /\ groups[v].state = rt.grp[v].state
                                 /\ groups[v].inflight = rt.grp[v].inflight
    BY <1>0, NoSyncKeepsUse DEF IsRuntime
  <2> HIDE DEF groups
  <2>4. rt' = s /\ s.grp = groups
    BY <1>0, <2>1, AppliedWithoutError DEF IsRuntime, RuntimeFields
  <2> HIDE DEF s
  <2>5. \A i \in 1 .. Len(back) : /\ s.grp[back[i]].seen = {}
                                  /\ back[i] \notin Reshard => Gathered(s, back[i])
    <3> SUFFICES ASSUME NEW i \in 1 .. Len(back)
                 PROVE  /\ s.grp[back[i]].seen = {}
                        /\ back[i] \notin Reshard => Gathered(s, back[i])
      OBVIOUS
    <3>1. back[i] \in Units
      OBVIOUS
    <3> QED
      BY <2>1, <2>3, <2>4, <3>1 DEF InUse, Gathered
  <2> QED
    BY <2>1, <2>2, <2>4, <2>5, NoneEntered DEF InUse
<1>10. CASE BeginStep
  BY <1>10 DEF BeginStep, CanStep, InUse, Entered
<1>11. CASE PrepareNextUnit
  BY <1>11 DEF PrepareNextUnit, InUse, Entered
<1>12. CASE EndStep
  BY <1>12 DEF EndStep, InUse, Entered
<1>13. ASSUME NEW setToNone \in ZeroModes, CallZeroGrad(setToNone)
       PROVE  InUse(rt)'
  BY <1>13 DEF CallZeroGrad, InUse, Entered
<1>14. CASE UNCHANGED vars
  BY <1>14 DEF vars, InUse, Running
<1> QED
  BY <1>1, <1>2, <1>3, <1>4, <1>5, <1>6, <1>7, <1>8, <1>9, <1>10, <1>11, <1>12, <1>13,
     <1>14 DEF Next

LEMMA NextKeepsPass == PassInv /\ [Next]_vars => PassInv'
<1> SUFFICES ASSUME PassInv, [Next]_vars
             PROVE  LifecycleInv' /\ PassPlaces' /\ (Running' => InUse(rt)')
  BY DEF PassInv
<1>1. LifecycleInv'
  BY NextKeepsLifecycle DEF PassInv
<1>2. PassPlaces'
  BY NextKeepsPlaces DEF PassInv, LifecycleInv
<1>3. Running' => InUse(rt)'
  BY NextKeepsUse DEF PassInv
<1> QED
  BY <1>1, <1>2, <1>3

\* While the runtime has raised no error, a unit has its full parameters, and
\* no gather of them under way, from its pre-forward hook to its post-forward
\* hook and for as long as autograd has gradients of it to accumulate: no
\* prefetch, eviction, reshard or finalize of any group takes them from it,
\* whatever the programs, budgets, no_sync contexts and gradients reached are.
THEOREM ParametersStayGathered == Spec => [](Running => ParametersGatheredWhenUsed)
<1>1. Init => PassInv
  BY InitPass
<1>2. PassInv /\ [Next]_vars => PassInv'
  BY NextKeepsPass
<1>3. PassInv => (Running => ParametersGatheredWhenUsed)
  BY DEF PassInv, InUse, Gathered, Entered, InForward, ParametersGatheredWhenUsed
<1> QED
  BY <1>1, <1>2, <1>3, PTL DEF Spec

-----------------------------------------------------------------------------
(* What a backward reshards stays resharded: the handlers that run in it    *)
(* gather only the group of the output hook and, ahead, groups resharded in *)
(* their forward.                                                           *)

StaysSharded(s, t) ==
  \A v \in Units : s.grp[v].state = "SHARDED" => t.grp[v].state = "SHARDED"

LEMMA StaysTransitive ==
  ASSUME NEW r, NEW s, NEW t, StaysSharded(r, s), StaysSharded(s, t)
  PROVE  StaysSharded(r, t)
BY DEF StaysSharded

LEMMA SameStatesStay ==
  ASSUME NEW s, NEW t, \A v \in Units : t.grp[v].state = s.grp[v].state
  PROVE  StaysSharded(s, t)
BY DEF StaysSharded

LEMMA OneGroupStays ==
  ASSUME NEW s, NEW u \in Units, NEW g, IsRuntime(s),
         s.grp[u].state = "SHARDED" => g.state = "SHARDED"
  PROVE  LET t == Validate(SetGroup(s, u, g), u)
         IN  /\ StaysSharded(s, SetGroup(s, u, g))
             /\ SetGroup(s, u, g).grp[u] = g
             /\ IsGroup(g) => StaysSharded(s, t) /\ t.grp[u] = g
<1> DEFINE c == SetGroup(s, u, g)
<1>1. c.grp[u] = g /\ \A v \in Units \ {u} : c.grp[v] = s.grp[v]
  BY DEF SetGroup, IsRuntime, RuntimeFields
<1>2. StaysSharded(s, c)
  BY <1>1 DEF StaysSharded
<1>3. ASSUME IsGroup(g)
      PROVE  Validate(c, u).grp = c.grp
  <2>1. IsRuntime(c)
    BY <1>3 DEF SetGroup, IsRuntime, RuntimeFields
  <2> QED
    BY <2>1, ValidateQuiet
<1> HIDE DEF c
<1> QED
  BY <1>1, <1>2, <1>3 DEF StaysSharded, c

LEMMA StartUnshardStays ==
  ASSUME NEW s, NEW u \in Units, IsRuntime(s), s.grp[u].state # "SHARDED"
  PROVE  StaysSharded(s, StartUnshard(s, u))
<1>1. IsGroup(Gathering(s.grp[u]))
  BY GatheringIsGroup DEF IsRuntime
<1>2. StaysSharded(s, Validate(SetGroup(s, u, Gathering(s.grp[u])), u))
  BY <1>1, OneGroupStays
<1>3. StaysSharded(s, s)
  BY DEF StaysSharded
<1> QED
  BY <1>2, <1>3 DEF StartUnshard

\* Also when there is no unit to prefetch.
LEMMA IssueBackwardPrefetchStays ==
  ASSUME NEW s, NEW v, IsRuntime(s)
  PROVE  StaysSharded(s, IssueBackwardPrefetch(s, v))
<1> DEFINE t == [s EXCEPT !.grp[v].bwd = TRUE, !.bwdIds = @ \cup {v}]
<1>1. /\ IsRuntime(t)
      /\ \A w \in Units : t.grp[w].state = s.grp[w].state
  BY DEF IsRuntime, IsGroup, RuntimeFields, GroupFields
<1>2. IssueBackwardPrefetch(s, v) =
        IF s.grp[v].state # "FORWARD_RESHARDED" THEN s ELSE StartUnshard(t, v)
  BY DEF IssueBackwardPrefetch
<1> HIDE DEF t
<1>3. StaysSharded(s, t) /\ StaysSharded(s, s)
  BY <1>1 DEF StaysSharded
<1>4. CASE v \in Units
  <2>1. s.grp[v].state = "FORWARD_RESHARDED" => StaysSharded(t, StartUnshard(t, v))
    BY <1>1, <1>4, StartUnshardStays
  <2> QED
    BY <1>2, <1>3, <2>1, StaysTransitive
<1>5. CASE v \notin Units
  <2> DEFINE c == SetGroup(t, v, Gathering(t.grp[v]))
  <2>1. IsRuntime(c) /\ \A w \in Units : c.grp[w].state = t.grp[w].state
    BY <1>1, <1>5 DEF SetGroup, IsRuntime, RuntimeFields
  <2>2. StartUnshard(t, v) \in {t, Validate(c, v)}
    BY DEF StartUnshard
  <2> HIDE DEF c
  <2>3. Validate(c, v).grp = c.grp
    BY <2>1, ValidateQuiet
  <2>4. StaysSharded(t, StartUnshard(t, v))
    BY <2>1, <2>2, <2>3 DEF StaysSharded
  <2> QED
    BY <1>2, <1>3, <2>4, StaysTransitive
<1> QED
  BY <1>4, <1>5

LEMMA PrefetchPreviousBackwardUnitStays ==
  ASSUME NEW s, NEW u, IsRuntime(s)
  PROVE  StaysSharded(s, PrefetchPreviousBackwardUnit(s, u))
<1> DEFINE target == BackwardPrefetchTarget(s, u)
           live == IF MaxBackwardPrefetch = 0 THEN s.bwdIds
                   ELSE {v \in s.bwdIds : s.grp[v].bwd}
           consumed == [s EXCEPT
             !.idx[u] = IF HasPostForwardEntry(s, u) THEN SubSeq(@, 1, Len(@) - 1) ELSE @,
             !.bwdIds = live]
           later == [consumed EXCEPT !.deferred = target]
<1>1. IsRuntime(consumed) /\ consumed.grp = s.grp /\ later.grp = s.grp
  BY DEF IsRuntime, RuntimeFields
<1>2. PrefetchPreviousBackwardUnit(s, u)
        \in {s, consumed, later, IssueBackwardPrefetch(consumed, target)}
  BY DEF PrefetchPreviousBackwardUnit
<1> HIDE DEF consumed, later, target
<1>3. StaysSharded(consumed, IssueBackwardPrefetch(consumed, target))
  BY <1>1, IssueBackwardPrefetchStays
<1> QED
  BY <1>1, <1>2, <1>3 DEF StaysSharded

LEMMA OnPostBackwardReshardStays ==
  ASSUME NEW s, NEW u, IsRuntime(s)
  PROVE  StaysSharded(s, OnPostBackwardReshard(s, u))
<1> DEFINE t == [s EXCEPT !.deferred = None]
<1>1. IsRuntime(t) /\ t.grp = s.grp
  BY DEF IsRuntime, RuntimeFields
<1>2. OnPostBackwardReshard(s, u) \in
        {s, IssueBackwardPrefetch(t, s.deferred), PrefetchPreviousBackwardUnit(s, u)}
  BY DEF OnPostBackwardReshard
<1> HIDE DEF t
<1>3. /\ StaysSharded(t, IssueBackwardPrefetch(t, s.deferred))
      /\ StaysSharded(s, PrefetchPreviousBackwardUnit(s, u))
  BY <1>1, IssueBackwardPrefetchStays, PrefetchPreviousBackwardUnitStays
<1> QED
  BY <1>1, <1>2, <1>3 DEF StaysSharded

LEMMA OnPreBackwardStays ==
  ASSUME NEW s, NEW u, IsRuntime(s)
  PROVE  StaysSharded(s, OnPreBackward(s, u))
<1> DEFINE t == [s EXCEPT !.grp[u].bwd = FALSE, !.bwdIds = @ \ {u}]
<1>1. /\ IsRuntime(t)
      /\ \A w \in Units : t.grp[w].state = s.grp[w].state
  BY DEF IsRuntime, IsGroup, RuntimeFields, GroupFields
<1>2. OnPreBackward(s, u) \in {s, PrefetchPreviousBackwardUnit(t, u)}
  BY DEF OnPreBackward
<1> HIDE DEF t
<1>3. StaysSharded(t, PrefetchPreviousBackwardUnit(t, u))
  BY <1>1, PrefetchPreviousBackwardUnitStays
<1> QED
  BY <1>1, <1>2, <1>3 DEF StaysSharded

LEMMA PreBackwardUnshardStays ==
  ASSUME NEW s, NEW u \in Units, NEW v \in Units \ {u}, RuntimeOK(s),
         s.grp[v].state = "SHARDED"
  PROVE  PreBackwardUnshard(s, u).grp[v].state = "SHARDED"
<1> DEFINE g == [s.grp[u] EXCEPT !.pend = FALSE]
           entered == SetGroup(s, u, g)
           started == StartUnshard(entered, u)
           gathered == WaitUnshard(started, u)
           consumed == [gathered EXCEPT !.grp[u].bwd = FALSE]
           scheduled == OnPreBackward(consumed, u)
           prepared == SetGroup(scheduled, u, PrepareBackwardGradStorage(scheduled.grp[u]))
<1>1. SameLifecycle(s.grp[u], g)
  BY DEF RuntimeOK, IsRuntime, IsGroup, SameLifecycle, GroupFields
<1>2. entered = [s EXCEPT !.grp[u].pend = FALSE]
  BY DEF SetGroup, RuntimeOK, IsRuntime, RuntimeFields
<1> HIDE DEF g
<1>3. RuntimeOK(entered) /\ entered.grp[v] = s.grp[v]
  <2>1. RuntimeOK(entered)
    BY <1>1, ChangeFlags DEF SetGroup
  <2> QED
    BY <2>1 DEF SetGroup, RuntimeOK, IsRuntime, RuntimeFields
<1> HIDE DEF entered
<1>4. RuntimeOK(started) /\ started.grp[v] = entered.grp[v]
  <2> DEFINE c == SetGroup(entered, u, Gathering(entered.grp[u]))
  <2>1. IsRuntime(c) /\ c.grp[v] = entered.grp[v]
    BY <1>3, GatheringIsGroup DEF SetGroup, RuntimeOK, IsRuntime, RuntimeFields
  <2>2. started \in {entered, Validate(c, u)}
    BY DEF StartUnshard
  <2> HIDE DEF c, started
  <2>3. Validate(c, u).grp = c.grp
    BY <2>1, ValidateQuiet
  <2>4. RuntimeOK(StartUnshard(entered, u))
    BY <1>3, StartUnshardKeeps
  <2> QED
    BY <2>1, <2>2, <2>3, <2>4 DEF started
<1> HIDE DEF started
<1>5. RuntimeOK(gathered) /\ gathered.grp[v] = started.grp[v]
  <2> DEFINE c == [started EXCEPT !.grp[u].inflight = FALSE]
  <2>1. IsRuntime(c) /\ c.grp[v] = started.grp[v]
    BY <1>4 DEF RuntimeOK, IsRuntime, IsGroup, RuntimeFields, GroupFields
  <2>2. gathered \in {started, Validate(c, u)}
    BY DEF WaitUnshard
  <2> HIDE DEF c, gathered
  <2>3. Validate(c, u).grp = c.grp
    BY <2>1, ValidateQuiet
  <2>4. RuntimeOK(WaitUnshard(started, u))
    BY <1>4, WaitUnshardKeeps
  <2> QED
    BY <2>1, <2>2, <2>3, <2>4 DEF gathered
<1> HIDE DEF gathered
<1>6. IsRuntime(consumed) /\ consumed.grp[v] = gathered.grp[v]
  BY <1>5 DEF RuntimeOK, IsRuntime, IsGroup, RuntimeFields, GroupFields
<1>7. PreBackwardUnshard(s, u) = prepared
  BY <1>2 DEF PreBackwardUnshard, prepared, scheduled, consumed, gathered, started
<1>8. RuntimeOK(consumed)
  <2> DEFINE h == [gathered.grp[u] EXCEPT !.bwd = FALSE]
  <2>1. SameLifecycle(gathered.grp[u], h)
    BY <1>5 DEF RuntimeOK, IsRuntime, IsGroup, SameLifecycle, GroupFields
  <2>2. consumed = SetGroup(gathered, u, h)
    BY <1>5 DEF SetGroup, RuntimeOK, IsRuntime, RuntimeFields
  <2> HIDE DEF h, consumed
  <2> QED
    BY <1>5, <2>1, <2>2, ChangeFlags DEF SetGroup
<1> HIDE DEF consumed
<1>9. scheduled.grp[v].state = "SHARDED" /\ RuntimeOK(scheduled)
  BY <1>3, <1>4, <1>5, <1>6, <1>8, OnPreBackwardStays, OnPreBackwardKeeps
     DEF StaysSharded
<1> HIDE DEF scheduled
<1>10. prepared.grp[v] = scheduled.grp[v]
  BY <1>9 DEF SetGroup, RuntimeOK, IsRuntime, RuntimeFields
<1> QED
  BY <1>7, <1>9, <1>10

LEMMA FinishBackwardCommonShards ==
  ASSUME NEW s, NEW u \in Units, IsRuntime(s)
  PROVE  LET t == FinishBackwardCommon(s, u)
         IN  StaysSharded(s, t) /\ t.grp[u].state = "SHARDED"
<1> DEFINE g == FinishedGroup(s.grp[u])
           done == SetGroup(s, u, g)
           e == "gather_while_not_unsharded"
<1>1. IsGroup(g) /\ g.state = "SHARDED"
  BY DEF FinishedGroup, Sharded, IsRuntime, IsGroup, GroupFields
<1>2. FinishBackwardCommon(s, u) \in {done, [done EXCEPT !.err = e]}
  BY FinishBackwardCommonForm
<1> HIDE DEF g
<1>3. StaysSharded(s, done) /\ done.grp[u] = g /\ IsRuntime(done)
  BY <1>1, OneGroupStays DEF SetGroup, IsRuntime, RuntimeFields
<1> HIDE DEF done
<1>4. [done EXCEPT !.err = e].grp = done.grp
  BY <1>3 DEF IsRuntime, RuntimeFields
<1> QED
  BY <1>1, <1>2, <1>3, <1>4 DEF StaysSharded

LEMMA FinishBackwardWithGradBucketShards ==
  ASSUME NEW s, NEW u \in Units, RuntimeOK(s)
  PROVE  LET t == FinishBackwardWithGradBucket(s, u)
         IN  StaysSharded(s, t) /\ t.grp[u].state = "SHARDED"
<1> DEFINE g == s.grp[u]
           accumulate == g.store["local"] # None
           h == UseLocalShards(AfterCollect(g, "bucket"), FALSE, FALSE)
           r == [h EXCEPT !.state = "SHARDED"]
           resharded == Validate(SetGroup(s, u, r), u)
           ready == BeforeBackwardReduce(resharded)
           handle == [ready.grp[u] EXCEPT !.reduce = IF accumulate THEN "add" ELSE "fresh",
                                          !.reduced = Collected(g, "bucket")]
           last == IF accumulate THEN handle ELSE UseLocalGradShard(handle, u, ZeroGrads)
           started == SetGroup(ready, u, last)
           after == AfterBackwardReduceStarted(started, u)
           async == OnPostBackwardReshard(after, u)
           sync == SetGroup(started, u, WaitPostBackwardReduce(started.grp[u], u))
<1>1. IsGroup(g) /\ IsRuntime(s)
  BY DEF RuntimeOK, IsRuntime
<1>2. IsGroup(r) /\ r.state = "SHARDED"
  <2>1. SameLifecycle(g, AfterCollect(g, "bucket"))
    BY <1>1, AfterCollectKeeps DEF IsGroup
  <2>2. SameLifecycle(AfterCollect(g, "bucket"), h)
    <3>1. DOMAIN AfterCollect(g, "bucket") = GroupFields
      BY <2>1 DEF SameLifecycle
    <3> QED
      BY <3>1, UseLocalShardsKeeps
  <2> HIDE DEF h
  <2> QED
    BY <1>1, <2>1, <2>2 DEF SameLifecycle, IsGroup, GroupFields
<1> HIDE DEF r
<1>3. /\ RuntimeOK(resharded) /\ StaysSharded(s, resharded)
      /\ resharded.grp[u].state = "SHARDED"
  <2>1. /\ StaysSharded(s, Validate(SetGroup(s, u, r), u))
        /\ Validate(SetGroup(s, u, r), u).grp[u] = r
    BY <1>1, <1>2, OneGroupStays
  <2>2. RuntimeOKBut(SetGroup(s, u, r), u)
    BY <1>2, OKButOne, ChangeGroup DEF SetGroup
  <2> QED
    BY <1>2, <2>1, <2>2, ValidateKeeps
<1> HIDE DEF resharded
<1>4. /\ RuntimeOK(ready) /\ StaysSharded(resharded, ready)
      /\ ready.grp[u].state = "SHARDED"
  <2>1. EndsReduces(resharded, ready)
    BY <1>3, BeforeBackwardReduceEndsReduces DEF RuntimeOK
  <2> QED
    BY <1>3, <2>1, EndsReducesKeeps DEF EndsReduces, StaysSharded
<1> HIDE DEF ready
<1>5. /\ IsGroup(last) /\ last.state = "SHARDED"
      /\ last.inflight = ready.grp[u].inflight
  <2>1. /\ IsGroup(handle) /\ handle.state = "SHARDED"
        /\ handle.inflight = ready.grp[u].inflight
    BY <1>4 DEF RuntimeOK, IsRuntime, IsGroup, GroupFields
  <2> HIDE DEF handle
  <2>2. SameLifecycle(handle, UseLocalGradShard(handle, u, ZeroGrads))
    BY <2>1, UseLocalGradShardKeeps DEF IsGroup
  <2> QED
    BY <2>1, <2>2 DEF SameLifecycle, IsGroup
<1> HIDE DEF last
<1>6. RuntimeOK(started) /\ StaysSharded(ready, started) /\ started.grp[u] = last
  <2>1. Consistent(last) \/ ready.err # None
    BY <1>4, <1>5 DEF RuntimeOK, Consistent
  <2>2. RuntimeOKBut(started, u) /\ started.grp[u] = last /\ started.err = ready.err
        /\ (Consistent(last) => RuntimeOK(started))
    BY <1>4, <1>5, OKButOne, ChangeGroup DEF SetGroup
  <2>3. RuntimeOK(started)
    BY <2>1, <2>2 DEF RuntimeOKBut, RuntimeOK
  <2>4. StaysSharded(ready, started)
    BY <1>4, <1>5, OneGroupStays DEF RuntimeOK
  <2> QED
    BY <2>2, <2>3, <2>4
<1> HIDE DEF started
<1>7. IsRuntime(async) /\ StaysSharded(started, async)
  <2>1. RuntimeOK(after) /\ StaysSharded(started, after)
    <3>1. EndsReduces(started, after)
      BY <1>6, AfterBackwardReduceStartedEndsReduces DEF RuntimeOK
    <3> QED
      BY <1>6, <3>1, EndsReducesKeeps DEF EndsReduces, StaysSharded
  <2> HIDE DEF after
  <2>2. StaysSharded(after, async)
    BY <2>1, OnPostBackwardReshardStays DEF RuntimeOK
  <2>3. IsRuntime(async)
    BY <2>1, OnPostBackwardReshardKeeps DEF RuntimeOK
  <2> QED
    BY <2>1, <2>2, <2>3, StaysTransitive
<1>8. IsRuntime(sync) /\ StaysSharded(started, sync)
  <2> DEFINE w == WaitPostBackwardReduce(started.grp[u], u)
  <2>1. IsGroup(w) /\ w.state = "SHARDED"
    BY <1>5, <1>6, WaitPostBackwardReduceKeeps
  <2> HIDE DEF w
  <2>2. IsRuntime(SetGroup(started, u, w))
    BY <1>6, <2>1 DEF SetGroup, RuntimeOK, IsRuntime, RuntimeFields
  <2>3. StaysSharded(started, SetGroup(started, u, w))
    BY <1>6, <2>1, OneGroupStays DEF RuntimeOK
  <2> QED
    BY <2>2, <2>3 DEF w
<1>9. FinishBackwardWithGradBucket(s, u) =
        FinishBackwardCommon(IF Finalize THEN async ELSE sync, u)
  BY DEF FinishBackwardWithGradBucket, started, last, ready, resharded, r
<1> HIDE DEF async, sync
<1>10. StaysSharded(s, async) /\ StaysSharded(s, sync)
  BY <1>3, <1>4, <1>6, <1>7, <1>8 DEF StaysSharded
<1> QED
  BY <1>7, <1>8, <1>9, <1>10, FinishBackwardCommonShards DEF StaysSharded

LEMMA FinishBackwardShards ==
  ASSUME NEW s, NEW u \in Units, RuntimeOK(s)
  PROVE  LET t == FinishBackward(s, u)
         IN  StaysSharded(s, t) /\ t.grp[u].state = "SHARDED"
<1> DEFINE g == s.grp[u]
           h == AccumulateLocalGradShard(AfterCollect(g, "full"), u, Collected(g, "full"))
           c == SetGroup(s, u, h)
<1>1. IsGroup(h) /\ h.state = g.state
  <2>1. SameLifecycle(g, AfterCollect(g, "full"))
    BY AfterCollectKeeps DEF RuntimeOK, IsRuntime, IsGroup
  <2>2. SameLifecycle(AfterCollect(g, "full"), h)
    BY <2>1, AccumulateLocalGradShardKeeps DEF SameLifecycle
  <2> HIDE DEF h
  <2> QED
    BY <2>1, <2>2 DEF SameLifecycle, RuntimeOK, IsRuntime, IsGroup
<1>2. FinishBackwardWithFullGrads(s, u) = FinishBackwardCommon(c, u)
  BY DEF FinishBackwardWithFullGrads
<1> HIDE DEF h
<1>3. IsRuntime(c) /\ StaysSharded(s, c)
  <2>1. IsRuntime(c)
    BY <1>1 DEF SetGroup, RuntimeOK, IsRuntime, RuntimeFields
  <2> QED
    BY <1>1, <2>1, OneGroupStays DEF RuntimeOK
<1> HIDE DEF c
<1>4. LET t == FinishBackwardWithFullGrads(s, u)
      IN  StaysSharded(s, t) /\ t.grp[u].state = "SHARDED"
  BY <1>2, <1>3, FinishBackwardCommonShards, StaysTransitive
<1> QED
  BY <1>4, FinishBackwardWithGradBucketShards DEF FinishBackward

\* A group whose backward ends outside no_sync is finalized, and resharded.
LEMMA FinalizeBackwardShards ==
  ASSUME NEW s, NEW u \in Units, RuntimeOK(s), s.err = None,
         s.grp[u].state = "UNSHARDED", ~(s.grp[u].depth > 0)
  PROVE  LET t == FinalizeBackward(s, u)
         IN  StaysSharded(s, t) /\ t.grp[u].state = "SHARDED"
<1> DEFINE g == s.grp[u]
           h == AccumulateCopyIn(g)
           c == SetGroup(s, u, h)
<1>1. g.reduce = "none"
  BY DEF RuntimeOK, Consistent
<1>2. FinalizeBackward(s, u) = FinishBackward(c, u)
  BY <1>1 DEF FinalizeBackward
<1>3. SameLifecycle(g, h)
  BY AccumulateCopyInKeeps DEF RuntimeOK, IsRuntime, IsGroup
<1> HIDE DEF h
<1>4. RuntimeOK(c)
  BY <1>3, ChangeFlags DEF SetGroup
<1>5. StaysSharded(s, c)
  BY <1>3, OneGroupStays DEF RuntimeOK, SameLifecycle
<1> HIDE DEF c
<1> QED
  BY <1>2, <1>4, <1>5, FinishBackwardShards, StaysTransitive

LEMMA PostAccumulateGradShards ==
  ASSUME NEW s, NEW u \in Units, NEW p, RuntimeOK(s), s.err = None, Finalize,
         Gathered(s, u)
  PROVE  LET t == PostAccumulateGrad(s, u, p)
             seen == s.grp[u].seen \cup {p}
         IN  /\ StaysSharded(s, t)
             /\ ~(s.grp[u].depth > 0) =>
                  IF seen = Params
                    THEN t.grp[u].state = "SHARDED"
                    ELSE t.grp[u].seen = seen /\ t.grp[u].depth = s.grp[u].depth
<1> DEFINE g == [s.grp[u] EXCEPT !.seen = @ \cup {p}]
           deferred == AccumulateCopyIn([g EXCEPT !.defer = TRUE])
           copied == AccumulateCopyIn(g)
           resharded == ReshardAfterDeferredBackward(SetGroup(s, u, deferred), u)
           tc == SetGroup(s, u, copied)
           tf == FinalizeBackward(tc, u)
<1>1. /\ SameLifecycle(s.grp[u], g)
      /\ g.seen = s.grp[u].seen \cup {p} /\ g.depth = s.grp[u].depth
  BY DEF RuntimeOK, IsRuntime, IsGroup, SameLifecycle, GroupFields
<1>2. PostAccumulateGrad(s, u, p) =
        CASE ~Finalize -> s
          [] Finalize /\ g.seen # Params -> SetGroup(s, u, g)
          [] Finalize /\ g.seen = Params /\ g.depth > 0 ->
               IF u \in Reshard THEN resharded ELSE SetGroup(s, u, deferred)
          [] OTHER -> IF g.state = "UNSHARDED" THEN tf ELSE tc
  BY DEF PostAccumulateGrad
<1> HIDE DEF g
<1>3. SameLifecycle(g, copied) /\ copied.depth = g.depth
  BY <1>1, AccumulateCopyInKeeps, GradientsKeepDepth DEF SameLifecycle
<1>4. s.grp[u].state = "UNSHARDED"
  BY DEF Gathered
<1> HIDE DEF copied, deferred
<1>5. \A h : StaysSharded(s, SetGroup(s, u, h)) /\ SetGroup(s, u, h).grp[u] = h
  <2> TAKE h
  <2>1. /\ SetGroup(s, u, h).grp[u] = h
        /\ \A v \in Units \ {u} : SetGroup(s, u, h).grp[v] = s.grp[v]
    BY DEF SetGroup, RuntimeOK, IsRuntime, RuntimeFields
  <2> QED
    BY <1>4, <2>1 DEF StaysSharded
<1>9. StaysSharded(s, resharded)
  <2>1. SameLifecycle(s.grp[u], deferred)
    BY <1>1, AccumulateCopyInKeeps DEF deferred, SameLifecycle, GroupFields
  <2>2. RuntimeOK(SetGroup(s, u, deferred))
    BY <2>1, ChangeFlags DEF SetGroup
  <2> DEFINE td == SetGroup(s, u, deferred)
             done == SetGroup(td, u, ReshardedDeferred(td.grp[u]))
  <2>3. resharded \in {td, done, [done EXCEPT !.err = "gather_while_not_unsharded"]}
    BY <2>2, ReshardAfterDeferredBackwardForm DEF RuntimeOK
  <2>5. IsRuntime(td) /\ \A v \in Units \ {u} : td.grp[v] = s.grp[v]
    BY <2>2 DEF SetGroup, RuntimeOK, IsRuntime, RuntimeFields
  <2> HIDE DEF td
  <2>6. /\ "err" \in DOMAIN done /\ DOMAIN done = RuntimeFields
        /\ \A v \in Units \ {u} : done.grp[v] = td.grp[v]
    BY <2>5 DEF SetGroup, IsRuntime, RuntimeFields
  <2> HIDE DEF done
  <2>7. [done EXCEPT !.err = "gather_while_not_unsharded"].grp = done.grp
    BY <2>6 DEF RuntimeFields
  <2> HIDE DEF resharded
  <2>4. \A v \in Units \ {u} : resharded.grp[v] = s.grp[v]
    BY <2>3, <2>5, <2>6, <2>7
  <2> QED
    BY <1>4, <2>4 DEF StaysSharded
<1> HIDE DEF resharded
<1>6. CASE g.seen # Params
  <2>1. PostAccumulateGrad(s, u, p) = SetGroup(s, u, g)
    BY <1>2, <1>6
  <2> QED
    BY <1>1, <1>5, <1>6, <2>1
<1>7. CASE g.seen = Params /\ g.depth > 0
  <2>1. PostAccumulateGrad(s, u, p) =
          IF u \in Reshard THEN resharded ELSE SetGroup(s, u, deferred)
    BY <1>2, <1>7
  <2> QED
    BY <1>1, <1>5, <1>7, <1>9, <2>1
<1>8. CASE g.seen = Params /\ ~(g.depth > 0)
  <2>1. PostAccumulateGrad(s, u, p) = tf
    BY <1>1, <1>2, <1>4, <1>8 DEF SameLifecycle
  <2>2. RuntimeOK(tc) /\ tc.grp[u] = copied /\ tc.err = s.err
    <3>1. SameLifecycle(s.grp[u], copied)
      BY <1>1, <1>3 DEF SameLifecycle
    <3> QED
      BY <3>1, ChangeFlags DEF SetGroup
  <2>3. StaysSharded(s, tc)
    BY <1>5
  <2>4. tc.grp[u].state = "UNSHARDED" /\ ~(tc.grp[u].depth > 0)
    BY <1>1, <1>3, <1>4, <1>8, <2>2 DEF SameLifecycle
  <2> HIDE DEF tc
  <2>5. StaysSharded(tc, tf) /\ tf.grp[u].state = "SHARDED"
    BY <2>2, <2>4, FinalizeBackwardShards
  <2> HIDE DEF tf
  <2> QED
    BY <1>1, <1>8, <2>1, <2>3, <2>5, StaysTransitive
<1> QED
  BY <1>6, <1>7, <1>8

LEMMA AccumulateGradShards ==
  ASSUME NEW s, NEW u \in Units, NEW p, NEW m, RuntimeOK(s), s.err = None, Finalize,
         Gathered(s, u)
  PROVE  LET t == AccumulateGrad(s, u, p, m)
             seen == s.grp[u].seen \cup {p}
         IN  /\ StaysSharded(s, t)
             /\ ~(s.grp[u].depth > 0) =>
                  IF seen = Params
                    THEN t.grp[u].state = "SHARDED"
                    ELSE t.grp[u].seen = seen /\ t.grp[u].depth = s.grp[u].depth
<1> DEFINE g == AutogradAccumulate(s.grp[u], p, m)
           a == SetGroup(s, u, g)
           t == PostAccumulateGrad(a, u, p)
<1>1. /\ SameLifecycle(s.grp[u], g)
      /\ g.seen = s.grp[u].seen /\ g.depth = s.grp[u].depth
  <2>1. DOMAIN s.grp[u] = GroupFields
    BY DEF RuntimeOK, IsRuntime, IsGroup
  <2> QED
    BY <2>1, AutogradAccumulateKeeps, GradientsKeepSeen, GradientsKeepDepth
<1>2. AccumulateGrad(s, u, p, m) = t
  BY DEF AccumulateGrad
<1> HIDE DEF g
<1>3. RuntimeOK(a) /\ a.grp[u] = g /\ a.err = s.err
  BY <1>1, ChangeFlags DEF SetGroup
<1>4. StaysSharded(s, a)
  BY <1>1, OneGroupStays DEF RuntimeOK, SameLifecycle
<1> HIDE DEF a
<1>5. Gathered(a, u)
  BY <1>1, <1>3 DEF SameLifecycle, Gathered
<1>6. /\ StaysSharded(a, t)
      /\ ~(a.grp[u].depth > 0) =>
           IF a.grp[u].seen \cup {p} = Params
             THEN t.grp[u].state = "SHARDED"
             ELSE /\ t.grp[u].seen = a.grp[u].seen \cup {p}
                  /\ t.grp[u].depth = a.grp[u].depth
  BY <1>3, <1>5, PostAccumulateGradShards
<1> HIDE DEF t
<1> QED
  BY <1>1, <1>2, <1>3, <1>4, <1>6, StaysTransitive

-----------------------------------------------------------------------------
(* Between passes, a group the last backward reduced is resharded.         *)

\* A pass may follow one that reduced only if it runs and reaches every unit:
\* a unit left out of it may be gathered ahead and is then not resharded.
WholePasses ==
  SyncedAccumulation =>
    \A u \in Units :
      /\ \A program \in Programs :
           \E i \in 1 .. Len(program) : program[i] = <<"post", u>>
      /\ \A r \in Reaches : r[u] # {}

Due(hooks, u) == \E i \in 1 .. Len(hooks) : hooks[i] = <<"post", u>>

\* The unit has still a part in the pass, after which it is resharded.
Awaited(u) ==
  \/ Due(events, u)
  \/ Ran(u) /\ (phase = "backward" => reach[u] # {})
  \/ need[u] # {}

ReducedPlaces ==
  /\ reduced \subseteq Units
  /\ phase \in {"forward", "forwarded"} /\ reduced # {} =>
       grad /\ SyncedAccumulation /\ \A u \in Units : Awaited(u)
  /\ phase = "idle" => \A u \in reduced : rt.grp[u].state = "SHARDED"

\* The gradient hook that sees the last parameter of a unit finds it outside
\* no_sync, and finalizes it.
ReducedShards ==
  \A u \in reduced :
    /\ need[u] # {} => /\ ~(rt.grp[u].depth > 0)
                       /\ rt.grp[u].seen \subseteq Params
                       /\ need[u] = Params \ rt.grp[u].seen
    /\ phase = "backward" => Awaited(u) \/ rt.grp[u].state = "SHARDED"

ReshardInv ==
  PassInv /\ (Finalize => ReducedPlaces /\ (Running => ReducedShards))

LEMMA DueInTail ==
  ASSUME NEW hooks \in Seq({"pre", "post"} \X Units), hooks # <<>>,
         NEW u, Due(hooks, u)
  PROVE  Due(Tail(hooks), u) \/ Head(hooks) = <<"post", u>>
<1>1. PICK i \in 1 .. Len(hooks) : hooks[i] = <<"post", u>>
  BY DEF Due
<1>2. CASE i = 1
  BY <1>1, <1>2
<1>3. CASE i # 1
  <2>1. i - 1 \in 1 .. Len(Tail(hooks)) /\ Tail(hooks)[i - 1] = hooks[i]
    BY <1>3
  <2> QED
    BY <1>1, <2>1 DEF Due
<1> QED
  BY <1>2, <1>3

LEMMA NoSyncStays ==
  ASSUME NEW g, NEW u, IsGroup(g), g.state = "SHARDED"
  PROVE  EnterNoSync(g).state = "SHARDED" /\ LeftNoSync(g, u).state = "SHARDED"
<1> DEFINE h == [g EXCEPT !.depth = @ - 1]
           a == AccumulateCopyIn(h)
<1>1. EnterNoSync(g).state = "SHARDED"
  BY DEF EnterNoSync, IsGroup, GroupFields
<1>2. DOMAIN h = GroupFields /\ h.state = "SHARDED"
  BY DEF IsGroup, GroupFields
<1>3. LeftNoSync(g, u) \in {h, a, ReshardedDeferred(a)}
  BY DEF LeftNoSync
<1> HIDE DEF h
<1>4. a.state = "SHARDED"
  BY <1>2, AccumulateCopyInKeeps DEF SameLifecycle
<1> HIDE DEF a
<1>5. ReshardedDeferred(a).state = "SHARDED"
  BY <1>4 DEF ReshardedDeferred, Sharded
<1> QED
  BY <1>1, <1>2, <1>3, <1>4, <1>5

LEMMA InitReshard == Init => ReshardInv
BY InitPass DEF Init, ReshardInv, ReducedPlaces, ReducedShards

LEMMA BeginForwardReshards ==
  ASSUME WholePasses, PassPlaces, ReducedPlaces,
         NEW program \in Programs, NEW g \in BOOLEAN, BeginForward(program, g)
  PROVE  ReducedPlaces' /\ ReducedShards'
<1> USE DEF PassPlaces
<1>1. /\ phase' = (IF phase = "idle" THEN "forward" ELSE "eval")
      /\ grad' = g /\ events' = program
      /\ UNCHANGED <<rt, back, reach, need, reduced>>
      /\ IF g THEN phase = "idle" /\ (SyncedAccumulation \/ reduced = {})
              ELSE phase = "stepped" \/ (phase = "idle" /\ reduced = {})
  BY DEF BeginForward, CanTrain, CanEvaluate, AnotherPass
<1>2. \A u \in Units : need[u] = {}
  BY <1>1
<1>3. ASSUME reduced # {}, phase' = "forward"
      PROVE  grad' /\ SyncedAccumulation /\ \A u \in Units : Awaited(u)'
  <2>1. grad' /\ SyncedAccumulation
    BY <1>1, <1>3
  <2>2. \A u \in Units : Due(program, u)
    BY <2>1 DEF WholePasses, Due
  <2> QED
    BY <1>1, <2>1, <2>2 DEF Awaited
<1>4. ReducedPlaces'
  BY <1>1, <1>3 DEF ReducedPlaces
<1>5. ReducedShards'
  BY <1>1, <1>2 DEF ReducedPlaces, ReducedShards
<1> QED
  BY <1>4, <1>5

LEMMA CallPreForwardReshards ==
  ASSUME LoopPlaces, PassPlaces, ReducedPlaces, CallPreForward
  PROVE  ReducedPlaces' /\ ReducedShards'
<1> USE DEF PassPlaces
<1>1. /\ events # <<>> /\ Head(events)[1] = "pre" /\ events' = Tail(events)
      /\ UNCHANGED <<phase, grad, back, reach, need, reduced>>
      /\ events \in Seq({"pre", "post"} \X Units)
  BY DEF CallPreForward, LoopPlaces
<1>2. phase \in {"forward", "eval"} /\ \A u \in Units : need[u] = {}
  BY <1>1
<1>3. ASSUME NEW u \in Units, Awaited(u)
      PROVE  Awaited(u)'
  <2>1. Due(events, u) => Due(events', u)
    BY <1>1, DueInTail
  <2> QED
    BY <1>1, <1>3, <2>1 DEF Awaited, Ran
<1>4. ReducedPlaces'
  BY <1>1, <1>2, <1>3 DEF ReducedPlaces
<1>5. ReducedShards'
  BY <1>1, <1>2 DEF ReducedPlaces, ReducedShards
<1> QED
  BY <1>4, <1>5

LEMMA CallPostForwardReshards ==
  ASSUME LoopPlaces, PassPlaces, ReducedPlaces, CallPostForward
  PROVE  ReducedPlaces' /\ ReducedShards'
<1> USE DEF PassPlaces
<1> DEFINE u == Head(events)[2]
<1>1. /\ events # <<>> /\ Head(events)[1] = "post" /\ events' = Tail(events)
      /\ back' = (IF grad THEN <<u>> \o back ELSE back)
      /\ phase' = CASE Tail(events) # <<>> -> phase
                    [] Tail(events) = <<>> /\ grad -> "forwarded"
                    [] Tail(events) = <<>> /\ ~grad ->
                         IF phase = "eval" THEN "stepped" ELSE "idle"
      /\ UNCHANGED <<grad, reach, need, reduced>>
      /\ events \in Seq({"pre", "post"} \X Units)
  BY DEF CallPostForward, LoopPlaces
<1>2. /\ phase \in {"forward", "eval"} /\ (phase = "eval" => ~grad)
      /\ \A v \in Units : need[v] = {}
      /\ u \in Units
  BY <1>1
<1>3. /\ phase' \in {"forward", "eval", "forwarded", "stepped", "idle"}
      /\ phase' \in {"forward", "forwarded", "idle"} => phase = "forward"
      /\ phase' = "idle" => ~grad
  BY <1>1, <1>2
<1>4. ASSUME grad, NEW v \in Units, Awaited(v), phase = "forward"
      PROVE  Due(events', v) \/ Ran(v)'
  <2>1. back' = <<u>> \o back
    BY <1>1, <1>4
  <2>2. CASE Ran(v)
    <3>1. PICK i \in 1 .. Len(back) : back[i] = v
      BY <2>2 DEF Ran
    <3>2. i + 1 \in 1 .. Len(back') /\ back'[i + 1] = v
      BY <2>1, <3>1
    <3> QED
      BY <3>2 DEF Ran
  <2>3. CASE Due(events, v)
    <3>1. Due(events', v) \/ Head(events) = <<"post", v>>
      BY <1>1, <2>3, DueInTail
    <3>2. 1 \in 1 .. Len(back') /\ back'[1] = u
      BY <2>1
    <3>3. Head(events) = <<"post", v>> => Ran(v)'
      BY <3>2 DEF Ran
    <3> QED
      BY <3>1, <3>3
  <2> QED
    BY <1>2, <1>4, <2>2, <2>3 DEF Awaited
<1> HIDE DEF u
<1>5. ReducedPlaces'
  <2>1. reduced # {} /\ phase' \in {"forward", "forwarded"} =>
          grad /\ SyncedAccumulation /\ \A v \in Units : Due(events', v) \/ Ran(v)'
    BY <1>3, <1>4 DEF ReducedPlaces
  <2>2. phase' = "idle" => reduced = {}
    BY <1>3 DEF ReducedPlaces
  <2>3. phase' # "backward"
    BY <1>3
  <2> QED
    BY <1>1, <2>1, <2>2, <2>3 DEF ReducedPlaces, Awaited
<1>6. ReducedShards'
  BY <1>1, <1>2, <1>3 DEF ReducedPlaces, ReducedShards
<1> QED
  BY <1>5, <1>6

LEMMA BeginBackwardReshards ==
  ASSUME WholePasses, PassPlaces, ReducedPlaces, NEW r \in Reaches, BeginBackward(r)
  PROVE  ReducedPlaces' /\ ReducedShards'
<1> USE DEF PassPlaces
<1>1. /\ phase = "forwarded" /\ phase' = "backward"
      /\ reach' = [u \in Units |-> IF Ran(u) THEN r[u] ELSE {}]
      /\ UNCHANGED <<rt, back, need, events, reduced>>
  BY DEF BeginBackward
<1>2. events = <<>> /\ \A u \in Units : need[u] = {}
  BY <1>1
<1>3. ASSUME NEW u \in reduced
      PROVE  u \in Units /\ Awaited(u)'
  <2>1. u \in Units /\ SyncedAccumulation /\ Awaited(u)
    BY <1>1 DEF ReducedPlaces
  <2>2. ~Due(events, u)
    BY <1>2 DEF Due
  <2>3. Ran(u) /\ r[u] # {}
    BY <1>2, <2>1, <2>2 DEF Awaited, WholePasses
  <2> QED
    BY <1>1, <2>1, <2>3 DEF Awaited, Ran
<1>4. ReducedPlaces'
  BY <1>1 DEF ReducedPlaces
<1>5. ReducedShards'
  BY <1>1, <1>2, <1>3 DEF ReducedShards
<1> QED
  BY <1>4, <1>5

LEMMA CallPreBackwardReshards ==
  ASSUME Lifecycle(rt), PassPlaces, InUse(rt), ReducedPlaces, ReducedShards,
         CallPreBackward
  PROVE  ReducedPlaces' /\ (Running' => ReducedShards')
<1> USE DEF PassPlaces
<1>1. /\ phase = "backward" /\ events = <<>>
      /\ UNCHANGED <<phase, grad, events, reach>>
  BY DEF CallPreBackward
<1>2. PICK i \in 1 .. Len(back) :
        /\ FirstReached(i)
        /\ Apply(IF back[i] \in Reshard THEN PreBackwardUnshard(rt, back[i]) ELSE rt)
        /\ need' = [need EXCEPT ![back[i]] = reach[back[i]]]
        /\ reduced' = IF ~(rt.grp[back[i]].depth > 0) /\ reach[back[i]] = Params
                        THEN reduced \cup {back[i]} ELSE reduced \ {back[i]}
        /\ back' = SubSeq(back, i + 1, Len(back))
  BY DEF CallPreBackward
<1> DEFINE u == back[i]
           s == IF u \in Reshard THEN PreBackwardUnshard(rt, u) ELSE rt
<1>3. u \in Units /\ reduced' \subseteq Units
  BY <1>2 DEF ReducedPlaces
<1>4. ReducedPlaces'
  BY <1>1, <1>3 DEF ReducedPlaces
<1>5. ASSUME Running', NEW v \in reduced'
      PROVE  /\ need'[v] # {} => /\ ~(rt'.grp[v].depth > 0)
                                 /\ rt'.grp[v].seen \subseteq Params
                                 /\ need'[v] = Params \ rt'.grp[v].seen
             /\ Awaited(v)' \/ rt'.grp[v].state = "SHARDED"
  <2>1. rt' = s
    BY <1>2, <1>5, AppliedWithoutError
  <2>2. rt.grp[u].seen = {} /\ v \in Units
    BY <1>2, <1>3, <1>5 DEF InUse
  <2>3. RuntimeOK(rt)
    BY LifecycleIsOK
  <2>4. /\ need'[u] = reach[u] /\ reach[u] # {}
        /\ \A w \in Units \ {u} : need'[w] = need[w]
    BY <1>2, <1>3 DEF FirstReached
  <2>5. v = u => ~(rt.grp[u].depth > 0) /\ reach[u] = Params
    BY <1>2, <1>5
  <2>6. v # u => v \in reduced
    BY <1>2, <1>5
  <2>7. \A w \in Units : Ran(w) /\ w # u /\ reach[w] # {} => Ran(w)'
    <3> SUFFICES ASSUME NEW w \in Units, Ran(w), w # u, reach[w] # {}
                 PROVE  Ran(w)'
      OBVIOUS
    <3>1. PICK j \in 1 .. Len(back) : back[j] = w
      BY DEF Ran
    <3>2. j \in i + 1 .. Len(back)
      BY <1>2, <3>1 DEF FirstReached
    <3>3. j - i \in 1 .. Len(back') /\ back'[j - i] = w
      BY <1>2, <3>1, <3>2
    <3> QED
      BY <3>3 DEF Ran
  <2> HIDE DEF u
  <2>8. /\ s.grp[v].depth = rt.grp[v].depth /\ s.grp[v].seen = rt.grp[v].seen
        /\ v # u /\ rt.grp[v].state = "SHARDED" => s.grp[v].state = "SHARDED"
    <3>1. CASE u \in Reshard
      <4>1. SparesAll(rt, PreBackwardUnshard(rt, u))
        BY <1>3, <2>3, PreBackwardUnshardQuiet
      <4>2. v # u /\ rt.grp[v].state = "SHARDED" =>
              PreBackwardUnshard(rt, u).grp[v].state = "SHARDED"
        BY <1>3, <2>2, <2>3, PreBackwardUnshardStays
      <4> QED
        BY <2>2, <3>1, <4>1, <4>2 DEF SparesAll, SparedGroup
    <3>2. CASE u \notin Reshard
      BY <3>2
    <3> QED
      BY <3>1, <3>2
  <2> HIDE DEF s
  <2>9. CASE v = u
    BY <2>1, <2>2, <2>4, <2>5, <2>8, <2>9 DEF Awaited
  <2>10. CASE v # u
    <3>1. /\ need'[v] = need[v]
          /\ need[v] # {} => /\ ~(rt.grp[v].depth > 0)
                             /\ rt.grp[v].seen \subseteq Params
                             /\ need[v] = Params \ rt.grp[v].seen
          /\ Awaited(v) \/ rt.grp[v].state = "SHARDED"
      BY <1>1, <2>2, <2>4, <2>6, <2>10 DEF ReducedShards
    <3>2. ~Due(events, v)
      BY <1>1 DEF Due
    <3>3. Awaited(v) => Awaited(v)'
      BY <1>1, <2>2, <2>7, <2>10, <3>1, <3>2 DEF Awaited
    <3> QED
      BY <2>1, <2>8, <2>10, <3>1, <3>3
  <2> QED
    BY <2>9, <2>10
<1>6. ASSUME Running'
      PROVE  ReducedShards'
  BY <1>1, <1>5, <1>6 DEF ReducedShards
<1> QED
  BY <1>4, <1>6

LEMMA CallAccumulateGradReshards ==
  ASSUME Lifecycle(rt), Finalize, PassPlaces, InUse(rt), ReducedPlaces, ReducedShards,
         NEW u \in Units, NEW p \in Params, CallAccumulateGrad(u, p)
  PROVE  ReducedPlaces' /\ (Running' => ReducedShards')
<1> USE DEF PassPlaces
<1> DEFINE s == AccumulateGrad(rt, u, p, micro)
<1>1. /\ Running /\ p \in need[u] /\ need[u] # {} /\ Apply(s)
      /\ need' = [need EXCEPT ![u] = @ \ {p}]
      /\ UNCHANGED <<phase, events, back, reach, reduced>>
  BY DEF CallAccumulateGrad
<1>2. phase = "backward" /\ events = <<>>
  BY <1>1
<1>3. ReducedPlaces'
  BY <1>1, <1>2 DEF ReducedPlaces
<1>4. ASSUME Running', NEW v \in reduced'
      PROVE  /\ need'[v] # {} => /\ ~(rt'.grp[v].depth > 0)
                                 /\ rt'.grp[v].seen \subseteq Params
                                 /\ need'[v] = Params \ rt'.grp[v].seen
             /\ Awaited(v)' \/ rt'.grp[v].state = "SHARDED"
  <2>1. rt' = s
    BY <1>1, <1>4, AppliedWithoutError
  <2>2. RuntimeOK(rt) /\ rt.err = None /\ Gathered(rt, u)
    BY <1>1, LifecycleIsOK DEF Running, InUse
  <2>3. v \in Units /\ v \in reduced
    BY <1>1, <1>4 DEF ReducedPlaces
  <2>4. /\ need[v] # {} => /\ ~(rt.grp[v].depth > 0)
                           /\ rt.grp[v].seen \subseteq Params
                           /\ need[v] = Params \ rt.grp[v].seen
        /\ Awaited(v) \/ rt.grp[v].state = "SHARDED"
    BY <1>2, <2>3 DEF ReducedShards
  <2>5. /\ StaysSharded(rt, s)
        /\ ~(rt.grp[u].depth > 0) =>
             IF rt.grp[u].seen \cup {p} = Params
               THEN s.grp[u].state = "SHARDED"
               ELSE /\ s.grp[u].seen = rt.grp[u].seen \cup {p}
                    /\ s.grp[u].depth = rt.grp[u].depth
    BY <2>2, AccumulateGradShards
  <2>6. SparesBut(rt, s, u)
    BY <2>2, AccumulateGradHandles DEF Handles
  <2> HIDE DEF s
  <2>7. CASE v = u
    <3>1. /\ rt.grp[u].seen \subseteq Params /\ need[u] = Params \ rt.grp[u].seen
          /\ ~(rt.grp[u].depth > 0)
      BY <1>1, <2>4, <2>7
    <3>2. need'[u] = need[u] \ {p}
      BY <1>1
    <3>3. CASE rt.grp[u].seen \cup {p} = Params
      <4>1. need'[u] = {}
        BY <3>1, <3>2, <3>3
      <4> QED
        BY <2>1, <2>5, <2>7, <3>1, <3>3, <4>1
    <3>4. CASE rt.grp[u].seen \cup {p} # Params
      <4>1. /\ s.grp[u].seen = rt.grp[u].seen \cup {p}
            /\ s.grp[u].depth = rt.grp[u].depth
        BY <2>5, <3>1, <3>4
      <4>2. s.grp[u].seen \subseteq Params /\ need'[u] = Params \ s.grp[u].seen
        BY <3>1, <3>2, <4>1
      <4>3. need'[u] # {}
        BY <3>1, <3>2, <3>4
      <4> QED
        BY <2>1, <2>7, <3>1, <4>1, <4>2, <4>3 DEF Awaited
    <3> QED
      BY <3>3, <3>4
  <2>8. CASE v # u
    <3>1. need'[v] = need[v]
      BY <1>1, <2>8
    <3>2. s.grp[v].depth = rt.grp[v].depth /\ s.grp[v].seen = rt.grp[v].seen
      BY <2>3, <2>6, <2>8 DEF SparesBut, SparedGroup
    <3>3. Awaited(v) => Awaited(v)'
      BY <1>1, <3>1 DEF Awaited, Ran, Due
    <3> QED
      BY <2>1, <2>3, <2>4, <2>5, <3>1, <3>2, <3>3 DEF StaysSharded
  <2> QED
    BY <2>7, <2>8
<1>5. ASSUME Running'
      PROVE  ReducedShards'
  BY <1>1, <1>2, <1>4, <1>5 DEF ReducedShards
<1> QED
  BY <1>3, <1>5

LEMMA EndBackwardReshards ==
  ASSUME Running, PassPlaces, ReducedPlaces, ReducedShards, EndBackward
  PROVE  ReducedPlaces' /\ ReducedShards'
<1> USE DEF PassPlaces
<1>1. /\ phase = "backward" /\ phase' = "idle" /\ need = NoParams
      /\ \A i \in 1 .. Len(back) : reach[back[i]] = {}
      /\ UNCHANGED <<rt, need, reduced>>
  BY DEF EndBackward
<1>2. events = <<>> /\ \A u \in Units : need[u] = {}
  BY <1>1 DEF NoParams
<1>3. ASSUME NEW u \in reduced
      PROVE  rt.grp[u].state = "SHARDED"
  <2>1. u \in Units /\ (Awaited(u) \/ rt.grp[u].state = "SHARDED")
    BY <1>1 DEF ReducedPlaces, ReducedShards
  <2>2. ~Awaited(u)
    BY <1>1, <1>2, <2>1 DEF Awaited, Ran, Due
  <2> QED
    BY <2>1, <2>2
<1>4. ReducedPlaces' /\ ReducedShards'
  BY <1>1, <1>2, <1>3 DEF ReducedPlaces, ReducedShards
<1> QED
  BY <1>4

\* Entering and leaving no_sync, between passes or before a backward.
LEMMA NoSyncReshards ==
  ASSUME Lifecycle(rt), Running, PassPlaces, ReducedPlaces, Between,
         NEW groups, \A u \in Units :
           groups[u] \in {rt.grp[u], EnterNoSync(rt.grp[u]), LeftNoSync(rt.grp[u], u)},
         rt'.grp = groups,
         UNCHANGED <<phase, grad, events, back, reach, need, reduced>>
  PROVE  ReducedPlaces' /\ ReducedShards'
<1> USE DEF PassPlaces
<1>1. phase \in {"idle", "forwarded"} /\ \A u \in Units : need[u] = {}
  BY DEF Between
<1>3. ASSUME NEW u \in Units, rt.grp[u].state = "SHARDED"
      PROVE  rt'.grp[u].state = "SHARDED"
  <2>1. groups[u].state = "SHARDED"
    <3>1. IsGroup(rt.grp[u])
      BY DEF Lifecycle, IsRuntime
    <3>2. /\ EnterNoSync(rt.grp[u]).state = "SHARDED"
          /\ LeftNoSync(rt.grp[u], u).state = "SHARDED"
      BY <1>3, <3>1, NoSyncStays
    <3>3. groups[u] \in {rt.grp[u], EnterNoSync(rt.grp[u]), LeftNoSync(rt.grp[u], u)}
      OBVIOUS
    <3> QED
      BY <1>3, <3>2, <3>3
  <2>2. rt'.grp[u] = groups[u]
    OBVIOUS
  <2> QED
    BY <2>1, <2>2
<1>4. ASSUME NEW u \in Units, Awaited(u)
      PROVE  Awaited(u)'
  BY <1>4 DEF Awaited, Ran, Due
<1>5. ReducedPlaces'
  BY <1>3, <1>4 DEF ReducedPlaces
<1>6. ReducedShards'
  BY <1>1 DEF ReducedPlaces, ReducedShards
<1> QED
  BY <1>5, <1>6

LEMMA AppliedGroups ==
  ASSUME NEW groups, Lifecycle(rt), Running, Apply([rt EXCEPT !.grp = groups])
  PROVE  rt'.grp = groups
<1>1. [rt EXCEPT !.grp = groups].err = None /\ [rt EXCEPT !.grp = groups].grp = groups
  BY DEF Running, Lifecycle, IsRuntime, RuntimeFields
<1> QED
  BY <1>1 DEF Apply

LEMMA NextReshards ==
  ASSUME WholePasses, ReshardInv, [Next]_vars
  PROVE  ReshardInv'
<1>1. PassInv'
  BY NextKeepsPass DEF ReshardInv
<1> SUFFICES ASSUME Finalize
             PROVE  ReducedPlaces' /\ (Running' => ReducedShards')
  BY <1>1 DEF ReshardInv
<1>2. /\ LoopPlaces /\ Lifecycle(rt) /\ PassPlaces /\ ReducedPlaces
      /\ Running => InUse(rt) /\ ReducedShards
  BY DEF ReshardInv, PassInv, LifecycleInv
<1>3. ASSUME phase' \in {"stepping", "stepped"}, reduced' = reduced, need' = need,
             \A u \in Units : need[u] = {}
      PROVE  ReducedPlaces' /\ ReducedShards'
  BY <1>2, <1>3 DEF ReducedPlaces, ReducedShards
<1>4. phase # "backward" => \A u \in Units : need[u] = {}
  BY <1>2 DEF PassPlaces
<1>5. ASSUME NEW program \in Programs, NEW g \in BOOLEAN, BeginForward(program, g)
      PROVE  ReducedPlaces' /\ ReducedShards'
  BY <1>2, <1>5, BeginForwardReshards
<1>6. CASE CallPreForward
  BY <1>2, <1>6, CallPreForwardReshards
<1>7. CASE CallPostForward
  BY <1>2, <1>7, CallPostForwardReshards
<1>8. ASSUME NEW r \in Reaches, BeginBackward(r)
      PROVE  ReducedPlaces' /\ ReducedShards'
  BY <1>2, <1>8, BeginBackwardReshards
<1>9. CASE CallPreBackward
  <2>1. Running
    BY <1>9 DEF CallPreBackward
  <2> QED
    BY <1>2, <1>9, <2>1, CallPreBackwardReshards
<1>10. ASSUME NEW u \in Units, NEW p \in Params, CallAccumulateGrad(u, p)
       PROVE  ReducedPlaces' /\ (Running' => ReducedShards')
  <2>1. Running
    BY <1>10 DEF CallAccumulateGrad
  <2> QED
    BY <1>2, <1>10, <2>1, CallAccumulateGradReshards
<1>11. CASE EndBackward
  <2>1. Running
    BY <1>11 DEF EndBackward
  <2> QED
    BY <1>2, <1>11, <2>1, EndBackwardReshards
<1>12. ASSUME NEW scope \in Scopes, CallEnterNoSync(scope)
       PROVE  ReducedPlaces' /\ ReducedShards'
  <2> DEFINE groups ==
        [u \in Units |-> IF u \in scope THEN EnterNoSync(rt.grp[u]) ELSE rt.grp[u]]
  <2>1. /\ Running /\ Between /\ Apply([rt EXCEPT !.grp = groups])
        /\ UNCHANGED <<phase, grad, events, back, reach, need, reduced>>
    BY <1>2, <1>12 DEF CallEnterNoSync, Lifecycle, IsRuntime, RuntimeFields
  <2>2. \A u \in Units :
          groups[u] \in {rt.grp[u], EnterNoSync(rt.grp[u]), LeftNoSync(rt.grp[u], u)}
    OBVIOUS
  <2> HIDE DEF groups
  <2>3. rt'.grp = groups
    BY <1>2, <2>1, AppliedGroups
  <2> QED
    BY <1>2, <2>1, <2>2, <2>3, NoSyncReshards
<1>13. CASE CallExitNoSync
  <2> DEFINE scope == contexts[Len(contexts)].scope
             groups ==
        [u \in Units |-> IF u \in scope THEN LeftNoSync(rt.grp[u], u) ELSE rt.grp[u]]
  <2>1. /\ Running /\ Between
        /\ UNCHANGED <<phase, grad, events, back, reach, need, reduced>>
    BY <1>13 DEF CallExitNoSync, CanLeave
  <2>2. \A u \in Units :
          groups[u] \in {rt.grp[u], EnterNoSync(rt.grp[u]), LeftNoSync(rt.grp[u], u)}
    OBVIOUS
  <2>3. rt' = [rt EXCEPT !.err = "gather_while_not_unsharded"] \/ Apply([rt EXCEPT !.grp = groups])
    BY <1>2, <1>13, CallExitNoSyncForm
  <2> HIDE DEF groups
  <2>4. rt'.grp = groups \/ rt'.grp = rt.grp
    BY <1>2, <2>1, <2>3, AppliedGroups DEF Lifecycle, IsRuntime, RuntimeFields
  <2>5. CASE rt'.grp = groups
    BY <1>2, <2>1, <2>2, <2>5, NoSyncReshards
  <2>6. CASE rt'.grp = rt.grp
    <3>1. \A u \in Units :
            rt.grp[u] \in {rt.grp[u], EnterNoSync(rt.grp[u]), LeftNoSync(rt.grp[u], u)}
      OBVIOUS
    <3> QED
      BY <1>2, <2>1, <2>6, <3>1, NoSyncReshards
  <2> QED
    BY <2>4, <2>5, <2>6
<1>14. CASE BeginStep
  BY <1>3, <1>4, <1>14 DEF BeginStep, CanStep
<1>15. CASE PrepareNextUnit
  BY <1>3, <1>4, <1>15 DEF PrepareNextUnit
<1>16. CASE EndStep
  BY <1>3, <1>4, <1>16 DEF EndStep
<1>17. ASSUME NEW setToNone \in ZeroModes, CallZeroGrad(setToNone)
       PROVE  ReducedPlaces' /\ ReducedShards'
  BY <1>17 DEF CallZeroGrad, ReducedPlaces, ReducedShards
<1>18. CASE UNCHANGED vars
  BY <1>2, <1>18
     DEF vars, ReducedPlaces, ReducedShards, Awaited, Ran, Due, Running
<1> QED
  BY <1>5, <1>6, <1>7, <1>8, <1>9, <1>10, <1>11, <1>12, <1>13, <1>14, <1>15, <1>16,
     <1>17, <1>18 DEF Next

\* Where every pass after one that reduced runs and reaches every unit, no
\* group the last backward reduced keeps its full parameters between passes,
\* whatever was gathered ahead for it, whether it reshards after its forward,
\* in whichever order autograd accumulates and the groups' reduces end.
THEOREM ReducedGroupsAreResharded == WholePasses => (Spec => []ReducedGroupsReshard)
<1> SUFFICES ASSUME WholePasses
             PROVE  Spec => []ReducedGroupsReshard
  OBVIOUS
<1>1. Init => ReshardInv
  BY InitReshard
<1>2. ReshardInv /\ [Next]_vars => ReshardInv'
  BY NextReshards
<1>3. ReshardInv => ReducedGroupsReshard
  BY DEF ReshardInv, ReducedPlaces, ReducedGroupsReshard
<1> QED
  BY <1>1, <1>2, <1>3, PTL DEF Spec

-----------------------------------------------------------------------------
(* Gathers end by being waited for *)

\* An error raised in s is still there in t.
KeepsError(s, t) == s.err # None => t.err # None

\* A gather of u in flight in s is not given up in t, unless t is an error.
Waits(s, t, u) ==
  s.grp[u].inflight => t.err # None \/ t.grp[u].state = "UNSHARDED"

LEMMA ValidateKeepsError ==
  ASSUME NEW s, NEW u
  PROVE  KeepsError(s, Validate(s, u))
BY DEF Validate, Raise, KeepsError

LEMMA StartUnshardKeepsError ==
  ASSUME NEW s, NEW u, IsRuntime(s)
  PROVE  KeepsError(s, StartUnshard(s, u))
<1> DEFINE t == SetGroup(s, u, Gathering(s.grp[u]))
<1>1. t.err = s.err
  BY DEF SetGroup, IsRuntime, RuntimeFields
<1> HIDE DEF t
<1>2. KeepsError(s, Validate(t, u))
  BY <1>1, ValidateKeepsError DEF KeepsError
<1> QED
  BY <1>2 DEF StartUnshard, KeepsError, t

LEMMA PrefetchForwardWindowKeepsError ==
  ASSUME NEW s, NEW start, IsRuntime(s)
  PROVE  KeepsError(s, PrefetchForwardWindow(s, start))
<1> DEFINE candidates == {v \in start .. UnitCount : s.grp[v].state = "SHARDED"}
           chosen == {v \in candidates :
                        Cardinality({w \in candidates : w < v}) < ForwardRoom(s)}
           ids == LiveForwardPrefetches(s) \cup chosen
           groups == [v \in Units |-> IF v \in chosen
                                        THEN [Gathering(s.grp[v]) EXCEPT !.fwd = TRUE]
                                        ELSE s.grp[v]]
           issued == [s EXCEPT !.fwdIds = ids, !.grp = groups]
<1> HIDE DEF ids, groups
<1>1. issued.err = s.err
  BY DEF IsRuntime, RuntimeFields
<1> HIDE DEF issued
<1>2. PrefetchForwardWindow(s, start)
        \in {s, issued, Raise(issued, "reduce_while_not_resharded")}
  BY DEF PrefetchForwardWindow, issued, ids, groups
<1> QED
  BY <1>1, <1>2 DEF Raise, KeepsError

LEMMA IssueBackwardPrefetchKeepsError ==
  ASSUME NEW s, NEW v, IsRuntime(s)
  PROVE  KeepsError(s, IssueBackwardPrefetch(s, v))
<1> DEFINE t == [s EXCEPT !.grp[v].bwd = TRUE, !.bwdIds = @ \cup {v}]
<1>1. t.err = s.err /\ IsRuntime(t)
  BY DEF IsRuntime, RuntimeFields, IsGroup, GroupFields
<1> HIDE DEF t
<1>2. KeepsError(s, StartUnshard(t, v))
  BY <1>1, StartUnshardKeepsError DEF KeepsError
<1> QED
  BY <1>2 DEF IssueBackwardPrefetch, KeepsError, t

LEMMA PrefetchPreviousBackwardUnitKeepsError ==
  ASSUME NEW s, NEW u, IsRuntime(s)
  PROVE  KeepsError(s, PrefetchPreviousBackwardUnit(s, u))
<1> DEFINE target == BackwardPrefetchTarget(s, u)
           live == IF MaxBackwardPrefetch = 0 THEN s.bwdIds
                   ELSE {v \in s.bwdIds : s.grp[v].bwd}
           consumed == [s EXCEPT
             !.idx[u] = IF HasPostForwardEntry(s, u) THEN SubSeq(@, 1, Len(@) - 1) ELSE @,
             !.bwdIds = live]
           later == [consumed EXCEPT !.deferred = target]
<1>1. DOMAIN consumed = RuntimeFields /\ consumed.grp = s.grp /\ consumed.err = s.err
  BY DEF IsRuntime, RuntimeFields
<1> HIDE DEF consumed, target
<1>2. IsRuntime(consumed) /\ later.err = s.err
  BY <1>1 DEF IsRuntime, RuntimeFields
<1>3. KeepsError(consumed, IssueBackwardPrefetch(consumed, target))
  BY <1>2, IssueBackwardPrefetchKeepsError
<1>4. PrefetchPreviousBackwardUnit(s, u)
        \in {s, consumed, later, IssueBackwardPrefetch(consumed, target)}
  BY DEF PrefetchPreviousBackwardUnit, consumed, target
<1> QED
  BY <1>1, <1>2, <1>3, <1>4 DEF KeepsError

LEMMA OnPostBackwardReshardKeepsError ==
  ASSUME NEW s, NEW u, IsRuntime(s)
  PROVE  KeepsError(s, OnPostBackwardReshard(s, u))
<1> DEFINE t == [s EXCEPT !.deferred = None]
<1>1. IsRuntime(t) /\ t.err = s.err
  BY DEF IsRuntime, RuntimeFields
<1> HIDE DEF t
<1>2. KeepsError(t, IssueBackwardPrefetch(t, s.deferred))
  BY <1>1, IssueBackwardPrefetchKeepsError
<1>3. OnPostBackwardReshard(s, u) \in
        {s, IssueBackwardPrefetch(t, s.deferred), PrefetchPreviousBackwardUnit(s, u)}
  BY DEF OnPostBackwardReshard, t
<1> QED
  BY <1>1, <1>2, <1>3, PrefetchPreviousBackwardUnitKeepsError DEF KeepsError

\* A group whose gather is in flight is not validated as anything but UNSHARDED.
LEMMA ReshardedInFlightRaises ==
  ASSUME NEW s, NEW u \in Units, NEW g, IsRuntime(s), g.inflight, g.state # "UNSHARDED"
  PROVE  Validate(SetGroup(s, u, g), u).err # None
<1> DEFINE c == SetGroup(s, u, g)
           e == "gather_while_not_unsharded"
           f == "reduce_while_not_resharded"
<1>1. /\ DOMAIN c = RuntimeFields /\ c.grp[u] = g
      /\ c.err = s.err
  BY DEF SetGroup, IsRuntime, RuntimeFields
<1> HIDE DEF c
<1>2. Validate(c, u) \in {Raise(c, e), Raise(c, f)}
  <2>1. c.grp[u].inflight /\ c.grp[u].state # "UNSHARDED"
    BY <1>1
  <2> QED
    BY <2>1 DEF Validate
<1>3. /\ [c EXCEPT !.err = e].err = e /\ e # None
      /\ [c EXCEPT !.err = f].err = f /\ f # None
  BY <1>1, NoneAssumption DEF RuntimeFields, Errors
<1>4. Raise(c, e).err # None /\ Raise(c, f).err # None
  BY <1>3 DEF Raise
<1> QED
  BY <1>2, <1>4 DEF c

\* _finish_backward_common raises for a gather in flight, and repairs no error.
LEMMA FinishBackwardCommonRaises ==
  ASSUME NEW s, NEW u \in Units, IsRuntime(s), s.grp[u].inflight \/ s.err # None
  PROVE  FinishBackwardCommon(s, u).err # None
<1> DEFINE done == SetGroup(s, u, FinishedGroup(s.grp[u]))
           e == "gather_while_not_unsharded"
<1>1. done.err = s.err /\ [done EXCEPT !.err = e].err = e /\ e # None
  BY NoneAssumption DEF SetGroup, IsRuntime, RuntimeFields, Errors
<1> HIDE DEF done
<1>2. /\ s.err # None => FinishBackwardCommon(s, u) = done
      /\ s.err = None /\ s.grp[u].inflight =>
           FinishBackwardCommon(s, u) = [done EXCEPT !.err = e]
  BY FinishBackwardCommonForm DEF done
<1> QED
  BY <1>1, <1>2

\* Finalizing a group whose gather is in flight raises: on the bucket path at
\* the transition before the reduce starts, on the flat path at the last one.
LEMMA FinishBackwardWithGradBucketRaises ==
  ASSUME NEW s, NEW u \in Units, RuntimeOK(s), s.grp[u].inflight
  PROVE  FinishBackwardWithGradBucket(s, u).err # None
<1> DEFINE g == s.grp[u]
           accumulate == g.store["local"] # None
           h == UseLocalShards(AfterCollect(g, "bucket"), FALSE, FALSE)
           r == [h EXCEPT !.state = "SHARDED"]
           resharded == Validate(SetGroup(s, u, r), u)
           ready == BeforeBackwardReduce(resharded)
           handle == [ready.grp[u] EXCEPT !.reduce = IF accumulate THEN "add" ELSE "fresh",
                                          !.reduced = Collected(g, "bucket")]
           last == IF accumulate THEN handle ELSE UseLocalGradShard(handle, u, ZeroGrads)
           started == SetGroup(ready, u, last)
<1>1. IsRuntime(s) /\ IsGroup(g)
  BY DEF RuntimeOK, IsRuntime
<1>2. IsGroup(r) /\ r.state = "SHARDED" /\ r.inflight
  <2>1. SameLifecycle(g, AfterCollect(g, "bucket"))
    BY <1>1, AfterCollectKeeps DEF IsGroup
  <2>2. SameLifecycle(AfterCollect(g, "bucket"), h)
    <3>1. DOMAIN AfterCollect(g, "bucket") = GroupFields
      BY <2>1 DEF SameLifecycle
    <3> QED
      BY <3>1, UseLocalShardsKeeps
  <2> HIDE DEF h
  <2> QED
    BY <1>1, <2>1, <2>2 DEF SameLifecycle, IsGroup, GroupFields
<1> HIDE DEF r
<1>3. resharded.err # None /\ RuntimeOK(resharded)
  <2>1. resharded.err # None
    BY <1>1, <1>2, ReshardedInFlightRaises
  <2>2. RuntimeOKBut(SetGroup(s, u, r), u)
    BY <1>2, OKButOne, ChangeGroup DEF SetGroup
  <2> QED
    BY <2>1, <2>2, ValidateKeeps
<1> HIDE DEF resharded
<1>4. ready.err # None /\ IsRuntime(ready)
  BY <1>3, BeforeBackwardReduceEndsReduces, EndsReducesIsRuntime
     DEF EndsReduces, RuntimeOK
<1> HIDE DEF ready
<1>5. IsGroup(last)
  <2>1. IsGroup(handle)
    BY <1>4 DEF IsRuntime, IsGroup, GroupFields
  <2> HIDE DEF handle
  <2>2. SameLifecycle(handle, UseLocalGradShard(handle, u, ZeroGrads))
    BY <2>1, UseLocalGradShardKeeps DEF IsGroup
  <2> QED
    BY <2>1, <2>2 DEF SameLifecycle, IsGroup
<1> HIDE DEF last
<1>6. started.err # None /\ IsRuntime(started)
  BY <1>4, <1>5 DEF SetGroup, IsRuntime, RuntimeFields
<1> HIDE DEF started
<1> DEFINE after == AfterBackwardReduceStarted(started, u)
           async == OnPostBackwardReshard(after, u)
           w == WaitPostBackwardReduce(started.grp[u], u)
           sync == SetGroup(started, u, w)
<1>7. async.err # None /\ IsRuntime(async)
  <2>1. after.err # None /\ IsRuntime(after)
    BY <1>6, AfterBackwardReduceStartedEndsReduces, EndsReducesIsRuntime
       DEF EndsReduces
  <2>2. RuntimeOK(after)
    BY <2>1 DEF RuntimeOK
  <2> HIDE DEF after
  <2>3. RuntimeOK(async)
    BY <2>2, OnPostBackwardReshardKeeps
  <2> QED
    BY <2>1, <2>3, OnPostBackwardReshardKeepsError DEF KeepsError, RuntimeOK
<1>8. sync.err # None /\ IsRuntime(sync)
  <2>1. IsGroup(w)
    BY <1>6, WaitPostBackwardReduceKeeps DEF IsRuntime
  <2> HIDE DEF w
  <2> QED
    BY <1>6, <2>1 DEF SetGroup, IsRuntime, RuntimeFields
<1>9. FinishBackwardWithGradBucket(s, u) =
        FinishBackwardCommon(IF Finalize THEN async ELSE sync, u)
  BY DEF FinishBackwardWithGradBucket, started, last, ready, resharded, r
<1> HIDE DEF async, sync
<1>10. /\ FinishBackwardCommon(async, u).err # None
       /\ FinishBackwardCommon(sync, u).err # None
  BY <1>7, <1>8, FinishBackwardCommonRaises
<1> QED
  BY <1>9, <1>10

LEMMA FinishBackwardWithFullGradsRaises ==
  ASSUME NEW s, NEW u \in Units, RuntimeOK(s), s.grp[u].inflight
  PROVE  FinishBackwardWithFullGrads(s, u).err # None
<1> DEFINE g == s.grp[u]
           h == AccumulateLocalGradShard(AfterCollect(g, "full"), u, Collected(g, "full"))
           t == SetGroup(s, u, h)
<1>1. SameLifecycle(g, AfterCollect(g, "full"))
  BY AfterCollectKeeps DEF RuntimeOK, IsRuntime, IsGroup
<1>2. SameLifecycle(AfterCollect(g, "full"), h)
  BY <1>1, AccumulateLocalGradShardKeeps DEF SameLifecycle
<1> HIDE DEF h
<1>3. SameLifecycle(g, h)
  BY <1>1, <1>2 DEF SameLifecycle
<1>4. IsRuntime(t) /\ t.grp[u].inflight
  BY <1>3 DEF SetGroup, SameLifecycle, RuntimeOK, IsRuntime, RuntimeFields, IsGroup
<1> HIDE DEF t
<1>5. FinishBackwardCommon(t, u).err # None
  BY <1>4, FinishBackwardCommonRaises
<1> QED
  BY <1>5 DEF FinishBackwardWithFullGrads, t, h

\* A handler that leaves the state of its group alone waits.
LEMMA SameStateWaits ==
  ASSUME NEW s, NEW u \in Units, NEW g, RuntimeOK(s), g.state = s.grp[u].state
  PROVE  Waits(s, SetGroup(s, u, g), u)
<1> DEFINE t == SetGroup(s, u, g)
<1>1. t.grp[u] = g /\ t.err = s.err
  BY DEF SetGroup, RuntimeOK, IsRuntime, RuntimeFields
<1> HIDE DEF t
<1>2. s.err = None /\ s.grp[u].inflight => s.grp[u].state = "UNSHARDED"
  BY DEF RuntimeOK, Consistent
<1> QED
  BY <1>1, <1>2 DEF Waits, t

LEMMA WaitsFrom ==
  ASSUME NEW r, NEW s, NEW t, NEW u, Waits(s, t, u),
         s.grp[u].inflight = r.grp[u].inflight
  PROVE  Waits(r, t, u)
BY DEF Waits

LEMMA ReshardAfterDeferredBackwardWaits ==
  ASSUME NEW s, NEW u \in Units, RuntimeOK(s)
  PROVE  Waits(s, ReshardAfterDeferredBackward(s, u), u)
<1> DEFINE done == SetGroup(s, u, ReshardedDeferred(s.grp[u]))
           e == "gather_while_not_unsharded"
           t == ReshardAfterDeferredBackward(s, u)
<1>1. IsRuntime(s) /\ (s.err = None => Consistent(s.grp[u]))
  BY DEF RuntimeOK
<1>2. done.err = s.err /\ [done EXCEPT !.err = e].err = e /\ e # None
  BY <1>1, NoneAssumption DEF SetGroup, IsRuntime, RuntimeFields, Errors
<1> HIDE DEF done
<1>3. IF s.grp[u].state # "UNSHARDED"
        THEN t = s
        ELSE t = IF s.grp[u].inflight /\ s.err = None
                   THEN [done EXCEPT !.err = e] ELSE done
  BY <1>1, ReshardAfterDeferredBackwardForm DEF done
<1> HIDE DEF t
<1> QED
  BY <1>1, <1>2, <1>3 DEF Waits, Consistent, t

LEMMA FinalizeBackwardWaits ==
  ASSUME NEW s, NEW u \in Units, RuntimeOK(s)
  PROVE  Waits(s, FinalizeBackward(s, u), u)
<1> DEFINE g == s.grp[u]
           c == SetGroup(s, u, AccumulateCopyIn(g))
           w == SetGroup(s, u, WaitPostBackwardReduce(g, u))
           inside == Raise(s, "finalize_inside_no_sync")
           e == IF g.state = "SHARDED" THEN "finalize_expects_unsharded"
                                       ELSE "finalize_while_forward_resharded"
           early == Raise(c, e)
           f == FinishBackward(c, u)
<1>1. IsRuntime(s) /\ IsGroup(g) /\ DOMAIN g = GroupFields
  BY DEF RuntimeOK, IsRuntime, IsGroup
<1>2. RuntimeOK(c) /\ IsRuntime(c) /\ c.grp[u].inflight = g.inflight
  <2>1. SameLifecycle(g, AccumulateCopyIn(g))
    BY <1>1, AccumulateCopyInKeeps
  <2>2. RuntimeOK(c)
    BY <2>1, ChangeFlags DEF SetGroup
  <2>3. c.grp[u] = AccumulateCopyIn(g)
    BY <1>1 DEF SetGroup, IsRuntime, RuntimeFields
  <2> QED
    BY <2>1, <2>2, <2>3 DEF RuntimeOK, SameLifecycle
<1>3. FinalizeBackward(s, u) \in {w, inside, f, early}
  BY DEF FinalizeBackward
<1> HIDE DEF c
<1>4. Waits(s, w, u)
  <2>1. WaitPostBackwardReduce(g, u).state = g.state
    BY <1>1, WaitPostBackwardReduceKeeps
  <2> QED
    BY <2>1, SameStateWaits
<1>5. inside.err # None /\ early.err # None
  <2>1. "finalize_inside_no_sync" \in Errors /\ e \in Errors
    BY DEF Errors
  <2> HIDE DEF e
  <2> QED
    BY <1>1, <1>2, <2>1, RaiseSetsError
<1>6. g.inflight => f.err # None
  BY <1>2, FinishBackwardWithFullGradsRaises, FinishBackwardWithGradBucketRaises
     DEF FinishBackward
<1> HIDE DEF w, inside, f, early
<1> QED
  BY <1>3, <1>4, <1>5, <1>6 DEF Waits

\* The gradient hook of a group, whose gradients come when its forward gathered
\* it, when it does not reshard, or after its output hook.
LEMMA PostAccumulateGradWaits ==
  ASSUME NEW s, NEW u \in Units, NEW p, RuntimeOK(s)
  PROVE  Waits(s, PostAccumulateGrad(s, u, p), u)
<1> DEFINE g == [s.grp[u] EXCEPT !.seen = @ \cup {p}]
           d == [g EXCEPT !.defer = TRUE]
           deferred == AccumulateCopyIn(d)
           copied == AccumulateCopyIn(g)
           tg == SetGroup(s, u, g)
           td == SetGroup(s, u, deferred)
           tc == SetGroup(s, u, copied)
           tr == ReshardAfterDeferredBackward(td, u)
           tf == FinalizeBackward(tc, u)
<1>1. PostAccumulateGrad(s, u, p) \in {s, tg, td, tr, tc, tf}
  BY DEF PostAccumulateGrad
<1>2. SameLifecycle(s.grp[u], g) /\ SameLifecycle(s.grp[u], d)
  BY DEF RuntimeOK, IsRuntime, IsGroup, SameLifecycle, GroupFields
<1> HIDE DEF g, d
<1>3. SameLifecycle(s.grp[u], deferred) /\ SameLifecycle(s.grp[u], copied)
  <2>1. SameLifecycle(d, deferred) /\ SameLifecycle(g, copied)
    BY <1>2, AccumulateCopyInKeeps DEF SameLifecycle
  <2> QED
    BY <1>2, <2>1 DEF SameLifecycle
<1> HIDE DEF deferred, copied
<1>4. /\ Waits(s, tg, u) /\ Waits(s, td, u) /\ Waits(s, tc, u)
  BY <1>2, <1>3, SameStateWaits DEF SameLifecycle
<1>5. RuntimeOK(td) /\ RuntimeOK(tc)
  BY <1>3, ChangeFlags DEF SetGroup
<1>6. td.grp[u].inflight = s.grp[u].inflight /\ tc.grp[u].inflight = s.grp[u].inflight
  BY <1>3 DEF SetGroup, SameLifecycle, RuntimeOK, IsRuntime, RuntimeFields
<1> HIDE DEF tg, td, tc
<1>7. Waits(s, tr, u) /\ Waits(s, tf, u)
  BY <1>5, <1>6, ReshardAfterDeferredBackwardWaits, FinalizeBackwardWaits, WaitsFrom
<1>8. Waits(s, s, u)
  BY DEF Waits, RuntimeOK, Consistent
<1> HIDE DEF tr, tf
<1> QED
  BY <1>1, <1>4, <1>7, <1>8

LEMMA AccumulateGradWaits ==
  ASSUME NEW s, NEW u \in Units, NEW p, NEW m, RuntimeOK(s)
  PROVE  Waits(s, AccumulateGrad(s, u, p, m), u)
<1> DEFINE g == AutogradAccumulate(s.grp[u], p, m)
           a == SetGroup(s, u, g)
<1>1. SameLifecycle(s.grp[u], g)
  BY AutogradAccumulateKeeps DEF RuntimeOK, IsRuntime, IsGroup
<1> HIDE DEF g
<1>2. RuntimeOK(a) /\ a.grp[u].inflight = s.grp[u].inflight
  <2>1. RuntimeOK(a)
    BY <1>1, ChangeFlags DEF SetGroup
  <2> QED
    BY <1>1, <2>1 DEF SetGroup, SameLifecycle, RuntimeOK, IsRuntime, RuntimeFields
<1> HIDE DEF a
<1>3. Waits(s, PostAccumulateGrad(a, u, p), u)
  BY <1>2, PostAccumulateGradWaits, WaitsFrom
<1> QED
  BY <1>3 DEF AccumulateGrad, a, g

\* A post-forward hook reshards a group whose pre-forward hook has waited.
LEMMA PostForwardWaits ==
  ASSUME NEW s, NEW u \in Units, NEW gradEnabled, RuntimeOK(s)
  PROVE  Waits(s, PostForward(s, u, gradEnabled), u)
<1> DEFINE h == [s.grp[u] EXCEPT !.pend = gradEnabled]
           pending == SetGroup(s, u, h)
           local == UseLocalShards(h, h.defer, h.defer)
           r == [local EXCEPT !.state = IF gradEnabled THEN "FORWARD_RESHARDED"
                                                       ELSE "SHARDED"]
           resharded == ReshardAfterForward(pending, u, gradEnabled)
           recorded == RecordPostForward(resharded, u)
<1>1. SameLifecycle(s.grp[u], h) /\ pending = [s EXCEPT !.grp[u].pend = gradEnabled]
  BY DEF SetGroup, RuntimeOK, IsRuntime, IsGroup, SameLifecycle, RuntimeFields, GroupFields
<1>2. PostForward(s, u, gradEnabled) \in {s, resharded, recorded}
  BY <1>1 DEF PostForward
<1> HIDE DEF h
<1>3. RuntimeOK(pending) /\ pending.grp[u] = h
  <2>1. RuntimeOK(pending)
    BY <1>1, ChangeFlags DEF SetGroup
  <2> QED
    BY <2>1 DEF SetGroup, RuntimeOK, IsRuntime, RuntimeFields
<1>4. SameLifecycle(h, local) /\ r.inflight = h.inflight /\ r.state # "UNSHARDED"
  <2>1. SameLifecycle(h, local)
    BY <1>1, UseLocalShardsKeeps DEF SameLifecycle
  <2> HIDE DEF local
  <2> QED
    BY <2>1 DEF SameLifecycle, GroupFields
<1>5. resharded = IF h.state # "UNSHARDED" THEN pending
                  ELSE Validate(SetGroup(pending, u, r), u)
  BY <1>3 DEF ReshardAfterForward
<1>6. Waits(s, pending, u)
  BY <1>1, SameStateWaits DEF SameLifecycle
<1> HIDE DEF pending, r
<1>7. RuntimeOK(resharded)
  BY <1>3, ReshardAfterForwardKeeps
<1> HIDE DEF resharded
<1>8. h.inflight => resharded.err # None
  <2>1. CASE h.state # "UNSHARDED"
    BY <1>3, <1>5, <2>1 DEF RuntimeOK, Consistent
  <2>2. CASE h.state = "UNSHARDED"
    BY <1>3, <1>4, <1>5, <2>2, ReshardedInFlightRaises DEF RuntimeOK
  <2> QED
    BY <2>1, <2>2
<1>9. KeepsError(resharded, recorded)
  <2> DEFINE listed == [resharded EXCEPT !.order = Append(@, u),
                          !.idx[u] = Append(@, Len(resharded.order) + 1)]
  <2>1. IsRuntime(listed) /\ listed.err = resharded.err
    BY <1>7 DEF RuntimeOK, IsRuntime, RuntimeFields
  <2>2. recorded \in {listed, PrefetchForwardWindow(listed, u + 1)}
    BY DEF RecordPostForward
  <2> HIDE DEF listed, recorded
  <2> QED
    BY <2>1, <2>2, PrefetchForwardWindowKeepsError DEF KeepsError
<1> HIDE DEF recorded
<1>10. Waits(s, s, u)
  BY DEF Waits, RuntimeOK, Consistent
<1> QED
  BY <1>1, <1>2, <1>8, <1>9, <1>10 DEF Waits, KeepsError, SameLifecycle

\* The optimizer's preparation may give up what no gradient came for.
Unused(u) == phase = "stepping" /\ ~HasGrad(rt.grp[u])

\* No other gather in flight is given up.
GathersKept ==
  \A u \in Units :
    rt.grp[u].inflight /\ ~rt'.grp[u].inflight =>
      rt'.grp[u].state = "UNSHARDED" \/ Unused(u)

LEMMA SameGathersKept ==
  ASSUME \A u \in Units : rt.grp[u].inflight => rt'.grp[u].inflight
  PROVE  GathersKept
BY DEF GathersKept

\* An error leaves the groups as they were.
LEMMA AppliedOrRaised ==
  ASSUME NEW s, Lifecycle(rt), Apply(s)
  PROVE  rt'.grp = rt.grp \/ (rt' = s /\ s.err = None)
<1>1. [rt EXCEPT !.err = s.err].grp = rt.grp
  BY DEF Lifecycle, IsRuntime, RuntimeFields
<1> QED
  BY <1>1 DEF Apply

LEMMA HandlerKeepsGathers ==
  ASSUME NEW s, NEW u \in Units, Lifecycle(rt), Apply(s), SparesBut(rt, s, u),
         Waits(rt, s, u) \/ Unused(u)
  PROVE  GathersKept
<1>1. CASE rt'.grp = rt.grp
  BY <1>1, SameGathersKept
<1>2. CASE rt' = s /\ s.err = None
  <2> SUFFICES ASSUME NEW v \in Units, rt.grp[v].inflight
               PROVE  rt'.grp[v].state = "UNSHARDED" \/ Unused(v)
    BY DEF GathersKept
  <2>1. rt.grp[v].state = "UNSHARDED"
    BY DEF Lifecycle, Consistent
  <2>2. CASE v = u
    BY <1>2, <2>2 DEF Waits
  <2>3. CASE v # u
    BY <1>2, <2>1, <2>3 DEF SparesBut, SparedGroup
  <2> QED
    BY <2>2, <2>3
<1> QED
  BY <1>1, <1>2, AppliedOrRaised

LEMMA EndedReducesKeepGathers ==
  ASSUME NEW s, Lifecycle(rt), Apply(s), EndsReduces(rt, s)
  PROVE  GathersKept
<1>1. \A u \in Units : rt.grp[u].inflight => rt'.grp[u].inflight
  BY AppliedOrRaised DEF EndsReduces
<1> QED
  BY <1>1, SameGathersKept

LEMMA NextKeepsGathers == LifecycleInv /\ [Next]_vars => GathersKept
<1> SUFFICES ASSUME LifecycleInv, [Next]_vars
             PROVE  GathersKept
  OBVIOUS
<1>0. /\ Lifecycle(rt) /\ LoopPlaces /\ RuntimeOK(rt) /\ IsRuntime(rt)
  BY LifecycleIsOK DEF LifecycleInv, RuntimeOK
<1>1. ASSUME NEW program \in Programs, NEW g \in BOOLEAN, BeginForward(program, g)
      PROVE  GathersKept
  BY <1>1, SameGathersKept DEF BeginForward
<1>2. CASE CallPreForward
  <2> DEFINE u == Head(events)[2]
             s == PreForward(rt, u, grad)
  <2>1. u \in Units /\ Apply(s)
    BY <1>0, <1>2 DEF CallPreForward, LoopPlaces
  <2> HIDE DEF u
  <2>2. SparesBut(rt, s, u) /\ Waits(rt, s, u)
    BY <1>0, <2>1, PreForwardQuiet, QuietSpares DEF Waits, Gathered
  <2> HIDE DEF s
  <2> QED
    BY <1>0, <2>1, <2>2, HandlerKeepsGathers
<1>3. CASE CallPostForward
  <2> DEFINE u == Head(events)[2]
             s == PostForward(rt, u, grad)
  <2>1. u \in Units /\ Apply(s)
    BY <1>0, <1>3 DEF CallPostForward, LoopPlaces
  <2> HIDE DEF u
  <2>2. SparesBut(rt, s, u) /\ Waits(rt, s, u)
    BY <1>0, <2>1, PostForwardQuiet, PostForwardWaits, QuietSpares
  <2> HIDE DEF s
  <2> QED
    BY <1>0, <2>1, <2>2, HandlerKeepsGathers
<1>4. ASSUME NEW r \in Reaches, BeginBackward(r)
      PROVE  GathersKept
  BY <1>4, SameGathersKept DEF BeginBackward
<1>5. CASE CallPreBackward
  <2>1. PICK i \in 1 .. Len(back) :
          Apply(IF back[i] \in Reshard THEN PreBackwardUnshard(rt, back[i]) ELSE rt)
    BY <1>5 DEF CallPreBackward
  <2> DEFINE u == back[i]
             s == PreBackwardUnshard(rt, u)
  <2> HIDE DEF u
  <2>2. CASE u \in Reshard
    <3>1. u \in Units /\ Apply(s)
      BY <2>1, <2>2, ReshardAssumption DEF u
    <3>2. SparesBut(rt, s, u) /\ Waits(rt, s, u)
      BY <1>0, <3>1, PreBackwardUnshardQuiet, QuietSpares DEF Waits, Gathered
    <3> HIDE DEF s
    <3> QED
      BY <1>0, <3>1, <3>2, HandlerKeepsGathers
  <2>3. CASE u \notin Reshard
    <3>1. Apply(rt)
      BY <2>1, <2>3 DEF u
    <3>2. rt'.grp = rt.grp
      BY <1>0, <3>1, AppliedOrRaised
    <3> QED
      BY <3>2, SameGathersKept
  <2> QED
    BY <2>2, <2>3
<1>6. ASSUME NEW u \in Units, NEW p \in Params, CallAccumulateGrad(u, p)
      PROVE  GathersKept
  <2> DEFINE s == AccumulateGrad(rt, u, p, micro)
  <2>1. Apply(s)
    BY <1>6 DEF CallAccumulateGrad
  <2>2. SparesBut(rt, s, u) /\ Waits(rt, s, u)
    BY <1>0, AccumulateGradHandles, AccumulateGradWaits DEF Handles
  <2> HIDE DEF s
  <2> QED
    BY <1>0, <2>1, <2>2, HandlerKeepsGathers
<1>7. CASE EndBackward
  BY <1>7, SameGathersKept DEF EndBackward
<1>8. ASSUME NEW scope \in Scopes, CallEnterNoSync(scope)
      PROVE  GathersKept
  <2> DEFINE groups ==
        [u \in Units |-> IF u \in scope THEN EnterNoSync(rt.grp[u]) ELSE rt.grp[u]]
  <2>1. \A u \in Units : rt.grp[u].inflight => groups[u].inflight
    BY <1>0, EnterNoSyncKeeps DEF IsRuntime, IsGroup, EnterNoSync, GroupFields
  <2>2. Apply([rt EXCEPT !.grp = groups])
    BY <1>8 DEF CallEnterNoSync
  <2> HIDE DEF groups
  <2>3. [rt EXCEPT !.grp = groups].grp = groups
    BY <1>0 DEF IsRuntime, RuntimeFields
  <2>4. rt'.grp = rt.grp \/ rt'.grp = groups
    BY <1>0, <2>2, <2>3, AppliedOrRaised
  <2> QED
    BY <2>1, <2>4, SameGathersKept
<1>9. CASE CallExitNoSync
  <2> DEFINE groups == [u \in Units |-> IF u \in contexts[Len(contexts)].scope
                                          THEN LeftNoSync(rt.grp[u], u) ELSE rt.grp[u]]
             raised == [rt EXCEPT !.err = "gather_while_not_unsharded"]
  <2>1. \/ rt' = raised
        \/ /\ Apply([rt EXCEPT !.grp = groups])
           /\ \A u \in Units : rt.grp[u].inflight => groups[u].inflight
    BY <1>0, <1>9, CallExitNoSyncForm
  <2> HIDE DEF groups
  <2>2. [rt EXCEPT !.grp = groups].grp = groups /\ raised.grp = rt.grp
    BY <1>0 DEF IsRuntime, RuntimeFields
  <2>3. \A u \in Units : rt.grp[u].inflight => rt'.grp[u].inflight
    BY <1>0, <2>1, <2>2, AppliedOrRaised
  <2> QED
    BY <2>3, SameGathersKept
<1>10. CASE BeginStep
  <2>1. EndsReduces(rt, WaitAllPending(rt))
    BY <1>0, WaitAllPendingEndsReduces
  <2> QED
    BY <1>0, <1>10, <2>1, EndedReducesKeepGathers DEF BeginStep
<1>11. CASE PrepareNextUnit
  <2> DEFINE s == PrepareStepUnit(rt, cursor)
  <2>1. cursor \in Units /\ phase = "stepping" /\ Apply(s)
    BY <1>0, <1>11, UnitCountAssumption DEF PrepareNextUnit, LoopPlaces, Units
  <2>2. SparesBut(rt, s, cursor)
    BY <1>0, <2>1, PrepareStepUnitHandles DEF Handles
  <2>3. HasGrad(rt.grp[cursor]) => s \in {rt, FinalizeBackward(rt, cursor)}
    BY DEF PrepareStepUnit
  <2>4. Waits(rt, rt, cursor) /\ Waits(rt, FinalizeBackward(rt, cursor), cursor)
    BY <1>0, <2>1, FinalizeBackwardWaits DEF Waits, Lifecycle, Consistent
  <2>5. Waits(rt, s, cursor) \/ Unused(cursor)
    BY <2>1, <2>3, <2>4 DEF Unused
  <2> HIDE DEF s
  <2> QED
    BY <1>0, <2>1, <2>2, <2>5, HandlerKeepsGathers
<1>12. CASE EndStep
  <2>1. FinishStepPreparation(rt).grp = rt.grp
    BY <1>0 DEF FinishStepPreparation, FinishBackwardIteration, Raise, IsRuntime,
                RuntimeFields
  <2> QED
    BY <1>0, <1>12, <2>1, AppliedOrRaised, SameGathersKept DEF EndStep
<1>13. ASSUME NEW setToNone \in ZeroModes, CallZeroGrad(setToNone)
       PROVE  GathersKept
  <2>1. EndsReduces(rt, ZeroGrad(rt, setToNone))
    BY <1>0, ZeroGradKeeps
  <2> QED
    BY <1>0, <1>13, <2>1, EndedReducesKeepGathers DEF CallZeroGrad
<1>14. CASE UNCHANGED vars
  BY <1>14, SameGathersKept DEF vars
<1> QED
  BY <1>1, <1>2, <1>3, <1>4, <1>5, <1>6, <1>7, <1>8, <1>9, <1>10, <1>11, <1>12, <1>13,
     <1>14 DEF Next

\* Whatever is prefetched, left out of a pass, deferred or abandoned, the
\* handlers that drop the unshard handle find no gather in flight or raise
\* before they drop it; only the step gives up, after waiting for it, a gather
\* of a group no gradient came for.
THEOREM GathersAlwaysWaitedFor == Spec => GathersAreWaitedFor
<1>1. Init => LifecycleInv
  BY InitLifecycle
<1>2. LifecycleInv /\ [Next]_vars => LifecycleInv'
  BY NextKeepsLifecycle
<1>3. LifecycleInv /\ [Next]_vars =>
        [ \A u \in Units :
            rt.grp[u].inflight /\ ~rt'.grp[u].inflight =>
              \/ rt'.grp[u].state = "UNSHARDED"
              \/ phase = "stepping" /\ ~HasGrad(rt.grp[u]) ]_vars
  BY NextKeepsGathers DEF GathersKept, Unused
<1> QED
  BY <1>1, <1>2, <1>3, PTL DEF Spec, GathersAreWaitedFor
=============================================================================
