---------------------------- MODULE ShardedGroupProofs ----------------------------
(***************************************************************************)
(* The exchanges of a group, for any number of ranks, any configuration    *)
(* and any program of exchanges.                                           *)
(*                                                                         *)
(* What the theorems need of the layout is that it is sound                *)
(* (GroupIsSound): segments packed, every element in one of them,          *)
(* parameters one after the other.                                         *)
(*                                                                         *)
(* What a rank has issued depends on the exchanges it has begun and on     *)
(* what all ranks know.  InOrder says so: there is one sequence of         *)
(* collectives for the program, the course, and each rank is somewhere     *)
(* along it, behind what the process group has run by no more than one     *)
(* exchange.  WorkspacesOK adds which workspace of a rank is in use,       *)
(* GatherOK what a rank has of the parameters after the collectives of its *)
(* gather that have run, and SavedOK and ProgramHas what a checkpoint and  *)
(* a program that saves or has loaded it have in common.                   *)
(***************************************************************************)
EXTENDS ShardCheckpoint, ShardLayoutProofs

\* The library's facts about finite sets.
Finite == INSTANCE FiniteSetTheorems

-----------------------------------------------------------------------------
(* Groups and segments *)

\* The part of a rank's segments that belongs to a parameter.
ClippedTo(p, total) ==
  {c \in [start : 0 .. total, end : 0 .. total, local : Int, rank : Nat] :
     p.start <= c.start /\ c.start < c.end /\ c.end <= p.end}

\* What a rank has of a parameter is a sequence of clipped pieces of it.
LEMMA OnRankClips ==
  ASSUME NEW total \in Nat, NEW segs \in Seq(Segments(total)), NEW p, NEW r \in Nat,
         p.start \in 0 .. total, p.end \in 0 .. total
  PROVE  OnRank(segs, p, r) \in Seq(ClippedTo(p, total))
<1> DEFINE P == {k \in DOMAIN segs : Overlaps(segs[k], p)}
           here == Selected(segs, P)
<1>1. here \in Seq(Segments(total)) /\ \E at : Picks(here, segs, P, at)
  BY SelectedPicks
<1>2. PICK at : Picks(here, segs, P, at)
  BY <1>1
<1>3. OnRank(segs, p, r) = [i \in 1 .. Len(here) |-> Clip(here[i], p, r)]
  BY DEF OnRank
<1> HIDE DEF here
<1>4. ASSUME NEW i \in 1 .. Len(here)
      PROVE  Clip(here[i], p, r) \in ClippedTo(p, total)
  <2>1. at[i] \in P /\ here[i] = segs[at[i]]
    BY <1>2 DEF Picks
  <2>2. here[i] \in Segments(total)
    BY <1>1
  <2>3. Overlaps(here[i], p)
    BY <2>1
  <2> DEFINE seg == here[i]
             c == Clip(seg, p, r)
  <2> HIDE DEF seg
  <2>4. /\ seg.start \in 0 .. total /\ seg.end \in 0 .. total /\ seg.local \in 0 .. total
        /\ Overlaps(seg, p)
    BY <2>2, <2>3 DEF seg, Segments
  <2>5. /\ AtLeast(seg.start, p.start) \in 0 .. total
        /\ AtMost(seg.end, p.end) \in 0 .. total
        /\ p.start <= AtLeast(seg.start, p.start)
        /\ AtMost(seg.end, p.end) <= p.end
        /\ AtLeast(seg.start, p.start) < AtMost(seg.end, p.end)
    BY <2>4 DEF Overlaps, AtLeast, AtMost
  <2>6. c = [start |-> AtLeast(seg.start, p.start), end |-> AtMost(seg.end, p.end),
             local |-> seg.local + AtLeast(seg.start, p.start) - seg.start, rank |-> r]
    BY DEF Clip
  <2>7. c \in ClippedTo(p, total)
    BY <2>4, <2>5, <2>6 DEF ClippedTo
  <2> QED
    BY <2>7 DEF seg
<1>5. Len(here) \in Nat
  BY <1>1
<1> QED
  BY <1>3, <1>4, <1>5

-----------------------------------------------------------------------------
(* Groups *)

\* What soundness says of a group, in the form the proofs cite it.
LEMMA GroupTyped ==
  ASSUME NEW g, SoundGroup(g)
  PROVE  /\ g.n \in Nat /\ g.n >= 1 /\ 0 \in RanksOf(g.n) /\ RanksOf(g.n) = 0 .. g.n - 1
         /\ g.layout.total \in Nat
         /\ g.sizes \in [0 .. g.n - 1 -> Nat] /\ DOMAIN g.sizes = RanksOf(g.n)
         /\ DOMAIN g.layout.ranks = RanksOf(g.n)
         /\ \A r \in RanksOf(g.n) :
              g.layout.ranks[r] \in Seq(Segments(g.layout.total)) /\ NotEmpty(g.layout.ranks[r])
         /\ g.params # <<>>
         /\ \A i \in DOMAIN g.params :
              /\ g.params[i].start \in 0 .. g.layout.total
              /\ g.params[i].end \in 0 .. g.layout.total
              /\ g.params[i].start < g.params[i].end
         /\ Len(g.params) \in Nat \ {0} /\ DOMAIN g.params = 1 .. Len(g.params)
<1>0. g.n \in Counts
  BY DEF SoundGroup
<1>1. g.n \in Nat /\ g.n >= 1 /\ RanksOf(g.n) = 0 .. g.n - 1 /\ 0 \in 0 .. g.n - 1
  <2> DEFINE n == g.n
  <2> HIDE DEF n
  <2>1. n \in Nat \ {0}
    BY <1>0, CountsAssumption DEF n
  <2>2. n \in Nat /\ n >= 1 /\ 0 \in 0 .. n - 1
    BY <2>1
  <2> QED
    BY <2>2 DEF n, RanksOf
<1>2. WellPlaced(g) /\ WellSized(g) /\ WellNamed(g)
  BY DEF SoundGroup
<1>3. /\ g.layout.total \in Nat
      /\ DOMAIN g.layout.ranks = RanksOf(g.n)
      /\ \A r \in RanksOf(g.n) :
           g.layout.ranks[r] \in Seq(Segments(g.layout.total)) /\ NotEmpty(g.layout.ranks[r])
  BY <1>2 DEF WellPlaced, Segments, NotEmpty
<1>4. g.sizes \in [0 .. g.n - 1 -> Nat] /\ DOMAIN g.sizes = RanksOf(g.n)
  BY <1>1, <1>2 DEF WellSized
<1> DEFINE F == [fqn : {g.params[i].fqn : i \in DOMAIN g.params},
                 start : 0 .. g.layout.total, end : 0 .. g.layout.total]
<1>5. /\ g.params \in Seq(F) /\ g.params # <<>>
      /\ \A i \in DOMAIN g.params : g.params[i].start < g.params[i].end
  BY <1>2 DEF WellNamed
<1>6. \A x \in F : x.start \in 0 .. g.layout.total /\ x.end \in 0 .. g.layout.total
  OBVIOUS
<1> HIDE DEF F
<1>7. Len(g.params) \in Nat \ {0} /\ DOMAIN g.params = 1 .. Len(g.params)
  BY <1>5
<1>8. \A i \in DOMAIN g.params : g.params[i] \in F
  BY <1>5
<1> QED
  BY <1>1, <1>3, <1>4, <1>5, <1>6, <1>7, <1>8

\* The parts of a parameter, in rank order.
LEMMA PartsTyped ==
  ASSUME NEW g, SoundGroup(g), NEW i \in DOMAIN g.params
  PROVE  Parts(g, g.params[i]) \in Seq(ClippedTo(g.params[i], g.layout.total))
<1> DEFINE p == g.params[i]
           A == ClippedTo(p, g.layout.total)
           b == [r \in DOMAIN g.sizes |-> OnRank(g.layout.ranks[r], p, r)]
<1>1. ASSUME NEW r \in 0 .. g.n - 1
      PROVE  b[r] \in Seq(A)
  <2> DEFINE total == g.layout.total
             segs == g.layout.ranks[r]
             q == g.params[i]
  <2>1. /\ r \in Nat /\ r \in DOMAIN g.sizes
        /\ total \in Nat /\ segs \in Seq(Segments(total))
        /\ q.start \in 0 .. total /\ q.end \in 0 .. total
    BY GroupTyped
  <2>2. b[r] = OnRank(segs, q, r)
    BY <2>1
  <2> HIDE DEF b, segs, q, total
  <2>3. OnRank(segs, q, r) \in Seq(ClippedTo(q, total))
    BY <2>1, OnRankClips
  <2> QED
    BY <2>2, <2>3 DEF q, total
<1>2. g.n \in Nat
  BY GroupTyped
<1>3. Parts(g, p) = Concat(b, g.n)
  BY DEF Parts
<1> HIDE DEF A, b, p
<1>4. Concat(b, g.n) \in Seq(A)
  BY <1>1, <1>2, ConcatHolds
<1> QED
  BY <1>3, <1>4 DEF A, p

\* A parameter that is whole on one rank is in one piece of the packed buffer.
LEMMA OwnedInOnePiece ==
  ASSUME NEW g, SoundGroup(g), WholeOwners(g), NEW i \in DOMAIN g.params
  PROVE  PackedPlaces(g, g.params[i], TRUE) # {}
<1> DEFINE p == g.params[i]
           parts == Parts(g, p)
<1>1. Len(parts) = 1 /\ Size(parts[1]) = Size(p)
  BY DEF WholeOwners, Parts
<1>2. parts \in Seq(ClippedTo(p, g.layout.total))
  BY PartsTyped
<1>3. p.start \in Nat /\ p.end \in Nat
  BY GroupTyped
<1> HIDE DEF p, parts
<1> DEFINE A == ClippedTo(p, g.layout.total)
<1> HIDE DEF A
<1>4. parts # <<>> /\ parts[1] \in A
  <2>1. parts \in Seq(A)
    BY <1>2 DEF A, p
  <2> QED
    BY <1>1, <2>1
<1>5. parts[1].start = p.start /\ parts[1].end = p.end
  <2> DEFINE c == parts[1]
  <2> HIDE DEF c
  <2>1. c \in ClippedTo(p, g.layout.total) /\ Size(c) = Size(p)
    BY <1>1, <1>4 DEF c, A
  <2>2. c.start \in Nat /\ c.end \in Nat /\ p.start <= c.start /\ c.end <= p.end
    <3>1. g.layout.total \in Nat
      BY GroupTyped
    <3> QED
      BY <2>1, <3>1 DEF ClippedTo
  <2>3. c.end - c.start = p.end - p.start
    BY <2>1 DEF Size
  <2>4. c.start = p.start /\ c.end = p.end
    BY <2>2, <2>3, <1>3
  <2> QED
    BY <2>4 DEF c
<1>6. 2 .. Len(parts) = {}
  BY <1>1
<1> QED
  BY <1>1, <1>4, <1>5, <1>6 DEF PackedPlaces, parts, p

-----------------------------------------------------------------------------
(* What the actions do to the ranks *)

\* The fields of a rank.
Fields ==
  {"shard", "full", "wire", "result", "cache", "mem", "lease", "tensor", "issued", "kind",
   "running", "next"}

\* Every rank of the group has a program, and no other.
Shaped == DOMAIN proc = Members /\ \A r \in Members : DOMAIN proc[r] = Fields

\* A step of one rank changes no other rank and no shared state.
OnlyRank(r) ==
  /\ Shaped'
  /\ \A q \in Members \ {r} : proc'[q] = proc[q]
  /\ group' = group /\ how' = how /\ jobs' = jobs /\ delivered' = delivered /\ version' = version

\* What a rank's full buffer holds when a gather starts.
FullAtStart(r, kind) ==
  CASE kind = "copy" -> [i \in 0 .. group.layout.total - 1 |-> proc[r].shard[i]]
    [] kind = "broadcast" ->
         CopySegments(group, Garbage(group.layout.total), proc[r].shard, r)
    [] kind = "all_reduce" ->
         CopySegments(group, Zeros(group.layout.total), proc[r].shard, r)
    [] OTHER -> Garbage(group.layout.total)

\* The fields an exchange of the rank leaves alone.
Same(r, fields) == \A x \in fields : proc'[r][x] = proc[r][x]

\* The effect of starting a gather on the rank that starts it.
LEMMA StartGatherDoes ==
  ASSUME Shaped, NEW r \in Members, StartGather(r)
  PROVE  /\ OnlyRank(r)
         /\ \E kind \in GatherKinds(group) :
              /\ proc'[r].full = FullAtStart(r, kind)
              /\ proc'[r].issued = proc[r].issued \o GatherOps(group, kind)
              /\ proc'[r].kind = kind
         /\ proc'[r].running = TRUE
         /\ Same(r, Fields \ {"full", "issued", "kind", "running"})
<1>1. PICK kind \in GatherKinds(group) :
        proc' = [proc EXCEPT ![r].running = TRUE, ![r].full = FullAtStart(r, kind), ![r].kind = kind,
                                ![r].issued = @ \o GatherOps(group, kind)]
  BY DEF StartGather, FullAtStart
<1>2. UNCHANGED <<group, how, jobs, delivered, version>>
  BY DEF StartGather
<1> DEFINE p == [proc[r] EXCEPT !.running = TRUE, !.full = FullAtStart(r, kind), !.kind = kind,
                                !.issued = @ \o GatherOps(group, kind)]
<1>3. proc' = [proc EXCEPT ![r] = p]
  BY <1>1 DEF Shaped
<1>4. /\ DOMAIN p = Fields
      /\ \A x \in Fields \ {"full", "issued", "kind", "running"} : p[x] = proc[r][x]
      /\ p.full = FullAtStart(r, kind)
      /\ p.issued = proc[r].issued \o GatherOps(group, kind)
      /\ p.kind = kind
      /\ p.running = TRUE
  BY DEF Shaped, Fields
<1> HIDE DEF p
<1>5. Shaped' /\ \A q \in Members \ {r} : proc'[q] = proc[q]
  BY <1>2, <1>3, <1>4 DEF Shaped, Members
<1>6. proc'[r] = p
  BY <1>3 DEF Shaped
<1> QED
  BY <1>2, <1>4, <1>5, <1>6 DEF OnlyRank, Same

\* What a rank has gathered when a gather ends.
FullAtEnd(r) ==
  LET k == group.layout.total
      wire == proc[r].wire
      packed == [i \in 0 .. k - 1 |->
                   LET q == CHOOSE q \in Members : PackedOffset(group.sizes, q) <= i
                                                  /\ i < PackedOffset(group.sizes, q + 1)
                   IN  wire[q][i - PackedOffset(group.sizes, q)]]
  IN  CASE proc[r].kind = "padded" -> Unpack(group, packed)
        [] proc[r].kind = "uneven" -> [i \in 0 .. k - 1 |-> wire[Keeper(group, i)][Place(group, i)]]
        [] OTHER -> proc[r].full

\* The effect of finishing a gather.
LEMMA FinishGatherDoes ==
  ASSUME Shaped, NEW r \in Members, FinishGather(r)
  PROVE  /\ OnlyRank(r)
         /\ proc'[r].running = FALSE
         /\ proc'[r].full = FullAtEnd(r)
         /\ proc'[r].wire = <<>>
         /\ proc'[r].next = proc[r].next + 1
         /\ Same(r, Fields \ {"running", "full", "wire", "next"})
<1>1. proc' = [proc EXCEPT ![r].running = FALSE, ![r].full = FullAtEnd(r), ![r].wire = <<>>,
                           ![r].next = @ + 1]
  BY DEF FinishGather, FullAtEnd
<1>2. UNCHANGED <<group, how, jobs, delivered, version>>
  BY DEF FinishGather
<1> DEFINE p == [proc[r] EXCEPT !.running = FALSE, !.full = FullAtEnd(r), !.wire = <<>>,
                                !.next = @ + 1]
<1>3. proc' = [proc EXCEPT ![r] = p]
  BY <1>1 DEF Shaped
<1>4. /\ DOMAIN p = Fields
      /\ \A x \in Fields \ {"running", "full", "wire", "next"} : p[x] = proc[r][x]
      /\ p.running = FALSE
      /\ p.full = FullAtEnd(r)
      /\ p.wire = <<>>
      /\ p.next = proc[r].next + 1
  BY DEF Shaped, Fields
<1> HIDE DEF p
<1>5. Shaped' /\ \A q \in Members \ {r} : proc'[q] = proc[q]
  BY <1>2, <1>3, <1>4 DEF Shaped, Members
<1>6. proc'[r] = p
  BY <1>3 DEF Shaped
<1> QED
  BY <1>2, <1>4, <1>5, <1>6 DEF OnlyRank, Same

\* The effect of finishing a reduce: the workspace is released, if there was one.
LEMMA FinishReduceDoes ==
  ASSUME Shaped, NEW r \in Members, FinishReduce(r)
  PROVE  /\ OnlyRank(r)
         /\ proc'[r].running = FALSE
         /\ proc'[r].result = Append(proc[r].result, Reduced(r))
         /\ proc'[r].wire = <<>>
         /\ proc'[r].next = proc[r].next + 1
         /\ proc'[r].cache \in IF proc[r].lease = <<>> THEN {proc[r].cache}
                                ELSE Release(proc[r].cache, proc[r].lease[1])
         /\ proc'[r].lease = <<>>
         /\ Same(r, Fields \ {"running", "result", "wire", "next", "cache", "lease"})
<1>1. PICK cache \in IF proc[r].lease = <<>> THEN {proc[r].cache}
                      ELSE Release(proc[r].cache, proc[r].lease[1]) :
        proc' = [proc EXCEPT ![r].running = FALSE, ![r].result = Append(@, Reduced(r)),
                            ![r].wire = <<>>, ![r].cache = cache, ![r].lease = <<>>,
                            ![r].next = @ + 1]
  BY DEF FinishReduce
<1>2. UNCHANGED <<group, how, jobs, delivered, version>>
  BY DEF FinishReduce
<1> DEFINE p == [proc[r] EXCEPT !.running = FALSE, !.result = Append(@, Reduced(r)),
                            !.wire = <<>>, !.cache = cache, !.lease = <<>>,
                            !.next = @ + 1]
<1>3. proc' = [proc EXCEPT ![r] = p]
  BY <1>1 DEF Shaped
<1>4. /\ DOMAIN p = Fields
      /\ \A x \in Fields \ {"running", "result", "wire", "next", "cache", "lease"} : p[x] = proc[r][x]
      /\ p.running = FALSE
      /\ p.result = Append(proc[r].result, Reduced(r))
      /\ p.wire = <<>>
      /\ p.next = proc[r].next + 1
      /\ p.cache = cache
      /\ p.lease = <<>>
  BY DEF Shaped, Fields
<1> HIDE DEF p
<1>5. Shaped' /\ \A q \in Members \ {r} : proc'[q] = proc[q]
  BY <1>2, <1>3, <1>4 DEF Shaped, Members
<1>6. proc'[r] = p
  BY <1>3 DEF Shaped
<1> QED
  BY <1>1, <1>2, <1>4, <1>5, <1>6 DEF OnlyRank, Same

\* A new limit changes the cache of workspaces and nothing else.
LEMMA LimitWorkspacesDoes ==
  ASSUME Shaped, NEW r \in Members, NEW limit, LimitWorkspaces(r, limit)
  PROVE  /\ OnlyRank(r)
         /\ proc'[r].cache = SetLimit(proc[r].cache, limit)
         /\ Same(r, Fields \ {"cache"})
<1>1. /\ proc' = [proc EXCEPT ![r].cache = SetLimit(@, limit)]
      /\ UNCHANGED <<group, how, jobs, delivered, version>>
  BY DEF LimitWorkspaces
<1> DEFINE p == [proc[r] EXCEPT !.cache = SetLimit(@, limit)]
<1>2. proc' = [proc EXCEPT ![r] = p]
  BY <1>1 DEF Shaped
<1>3. /\ DOMAIN p = Fields
      /\ \A x \in Fields \ {"cache"} : p[x] = proc[r][x]
      /\ p.cache = SetLimit(proc[r].cache, limit)
  BY DEF Shaped, Fields
<1> HIDE DEF p
<1>4. Shaped' /\ \A q \in Members \ {r} : proc'[q] = proc[q]
  BY <1>1, <1>2, <1>3 DEF Shaped, Members
<1>5. proc'[r] = p
  BY <1>2 DEF Shaped
<1> QED
  BY <1>1, <1>3, <1>4, <1>5 DEF OnlyRank, Same

\* The collectives a rank issues for a reduce that uses some parameters.
ReduceOpsFor(used) ==
  CASE how.reduce = "flat" -> One("scatter_full")
    [] how.reduce = "per_param" -> ParamOps(group, used, "scatter_param")
    [] how.reduce = "per_param_allreduce" -> ParamOps(group, used, "sum_param")
    [] how.reduce = "bucket_reduce_scatter" ->
         IF group.n = 1 \/ (~ZeroCopy(group) /\ used = {}) THEN <<>>
         ELSE BucketOps(group, Compact(group, used))

\* The workspace of a bucket: none, one given back at once, or one kept.
Leases(r) ==
  LET got == Acquired(r, Compact(group, UsedBy(r)))
  IN  \/ Same(r, {"cache", "lease"})
      \/ proc'[r].lease = proc[r].lease /\ proc'[r].cache \in Release(got.cache, got.lease)
      \/ proc'[r].lease = <<got.lease>> /\ proc'[r].cache = got.cache

\* The effect of starting a reduce: collectives issued, a workspace leased.
LEMMA StartReduceDoes ==
  ASSUME Shaped, NEW r \in Members, StartReduce(r), how.reduce \in Reducers
  PROVE  /\ OnlyRank(r)
         /\ proc'[r].running = TRUE
         /\ proc'[r].issued = proc[r].issued \o ReduceOpsFor(UsedBy(r))
         /\ Leases(r)
         /\ Same(r, {"shard", "full", "wire", "result", "next"})
<1> DEFINE compact == Compact(group, UsedBy(r))
           got == Acquired(r, compact)
           ops == ReduceOpsFor(UsedBy(r))
           Good(p) == /\ DOMAIN p = Fields
                      /\ p.running = TRUE
                      /\ p.issued = proc[r].issued \o ops
                      /\ \A x \in {"shard", "full", "wire", "result", "next"} : p[x] = proc[r][x]
                      /\ \/ p.cache = proc[r].cache /\ p.lease = proc[r].lease
                         \/ p.lease = proc[r].lease /\ p.cache \in Release(got.cache, got.lease)
                         \/ p.lease = <<got.lease>> /\ p.cache = got.cache
<1>1. PICK started \in IF how.reduce = "bucket_reduce_scatter" THEN StartBucket(r)
                        ELSE {Reducing(proc[r], ReduceOps(r))} :
        proc' = [proc EXCEPT ![r] = started]
  BY DEF StartReduce
<1>2. UNCHANGED <<group, how, jobs, delivered, version>>
  BY DEF StartReduce
<1>3. ASSUME NEW any
      PROVE  LET p == Reducing(proc[r], any)
             IN  /\ DOMAIN p = Fields
                 /\ p.running = TRUE
                 /\ p.issued = proc[r].issued \o any
                 /\ \A x \in Fields \ {"running", "issued", "kind"} : p[x] = proc[r][x]
  BY DEF Reducing, Shaped, Fields
<1>4. ASSUME how.reduce # "bucket_reduce_scatter" PROVE Good(started)
  <2>1. started = Reducing(proc[r], ReduceOps(r))
    BY <1>1, <1>4
  <2>2. ReduceOps(r) = ops
    BY <1>4 DEF ReduceOps, ReduceOpsFor, Reducers
  <2> HIDE DEF ops, got
  <2>3. Good(started)
    BY <1>3, <2>1, <2>2 DEF Fields
  <2> QED
    BY <2>3
<1>5. ASSUME how.reduce = "bucket_reduce_scatter" PROVE Good(started)
  <2> DEFINE bops == IF group.n = 1 THEN <<>> ELSE BucketOps(group, compact)
             packed == PackedInto(r, UsedBy(r), compact, Before(r, got, compact))
  <2>1. started \in Bucket(r, UsedBy(r), compact, got, bops)
    BY <1>1, <1>5 DEF StartBucket, BucketAs
  <2>2. ops = IF group.n = 1 \/ (~ZeroCopy(group) /\ UsedBy(r) = {}) THEN <<>> ELSE BucketOps(group, compact)
    BY <1>5 DEF ReduceOpsFor
  <2> HIDE DEF ops, compact, got, packed
  <2>3. CASE ZeroCopy(group)
    <3>1. started \in Prepared(r, UsedBy(r), compact, bops)
      BY <2>1, <2>3 DEF Bucket
    <3>2. bops = ops
      BY <2>2, <2>3
    <3> HIDE DEF bops
    <3>3. PICK mem, kind : started = [Reducing(proc[r], ops) EXCEPT !.tensor = 0, !.kind = kind, !.mem = mem]
      BY <3>1, <3>2 DEF Prepared
    <3>4. Good(started)
      <4> DEFINE p == Reducing(proc[r], ops)
      <4>1. /\ DOMAIN p = Fields
            /\ p.running = TRUE
            /\ p.issued = proc[r].issued \o ops
            /\ \A x \in Fields \ {"running", "issued", "kind"} : p[x] = proc[r][x]
        BY <1>3
      <4> HIDE DEF p
      <4>2. started = [p EXCEPT !.tensor = 0, !.kind = kind, !.mem = mem]
        BY <3>3 DEF p
      <4> QED
        BY <4>1, <4>2 DEF Fields
    <3> QED
      BY <3>4
  <2>4. CASE ~ZeroCopy(group) /\ UsedBy(r) = {}
    <3>1. started = Reducing(proc[r], <<>>)
      BY <2>1, <2>4 DEF Bucket
    <3>2. ops = <<>>
      BY <2>2, <2>4
    <3> QED
      BY <1>3, <3>1, <3>2 DEF Fields
  <2>5. CASE ~ZeroCopy(group) /\ UsedBy(r) # {}
    <3>1. started \in Packing(r, packed, got, bops)
      BY <2>1, <2>5 DEF Bucket, packed
    <3>2. bops = ops
      BY <2>2, <2>5
    <3> HIDE DEF bops
    <3> DEFINE p == Reducing(proc[r], ops)
               before == [p EXCEPT !.tensor = got.lease.tensor,
                                   !.mem = With(@, got.lease.tensor, packed)]
    <3>3. /\ DOMAIN p = Fields
          /\ p.running = TRUE
          /\ p.issued = proc[r].issued \o ops
          /\ \A x \in Fields \ {"running", "issued", "kind"} : p[x] = proc[r][x]
      BY <1>3
    <3>4. started \in IF group.n = 1
                      THEN {[before EXCEPT !.kind = "copied", !.cache = cache] :
                              cache \in Release(got.cache, got.lease)}
                      ELSE {[before EXCEPT !.cache = got.cache, !.lease = <<got.lease>>]}
      BY <3>1, <3>2 DEF Packing
    <3> HIDE DEF p
    <3>5. /\ DOMAIN before = Fields
          /\ before.running = TRUE
          /\ before.issued = proc[r].issued \o ops
          /\ \A x \in Fields \ {"running", "issued", "kind", "tensor", "mem"} : before[x] = proc[r][x]
      BY <3>3 DEF Fields
    <3> HIDE DEF before
    <3>6. CASE group.n = 1
      <4>1. PICK cache \in Release(got.cache, got.lease) :
               started = [before EXCEPT !.kind = "copied", !.cache = cache]
        BY <3>4, <3>6
      <4> QED
        BY <3>5, <4>1 DEF Fields
    <3>7. CASE group.n # 1
      <4>1. started = [before EXCEPT !.cache = got.cache, !.lease = <<got.lease>>]
        BY <3>4, <3>7
      <4> QED
        BY <3>5, <4>1 DEF Fields
    <3> QED
      BY <3>6, <3>7
  <2> QED
    BY <2>3, <2>4, <2>5
<1> HIDE DEF ops
<1>6. Good(started)
  BY <1>4, <1>5
<1>7. Shaped' /\ (\A q \in Members \ {r} : proc'[q] = proc[q]) /\ proc'[r] = started
  BY <1>1, <1>2, <1>6 DEF Shaped, Members
<1>8. OnlyRank(r)
  BY <1>2, <1>7 DEF OnlyRank
<1>9. Leases(r)
  BY <1>6, <1>7 DEF Leases, Same
<1> QED
  BY <1>6, <1>7, <1>8, <1>9 DEF Same, ops

-----------------------------------------------------------------------------
(* The collectives of an exchange *)

\* The largest shard.
LEMMA MaxSizeIs ==
  ASSUME NEW g, SoundGroup(g)
  PROVE  MaxSize(g) \in Nat /\ \A r \in RanksOf(g.n) : g.sizes[r] <= MaxSize(g)
<1> DEFINE n == g.n
           sizes == g.sizes
           S == {k \in Nat : k <= n - 1 => \E m \in 0 .. k : \A r \in 0 .. k : sizes[r] <= sizes[m]}
<1>1. n \in Nat /\ n >= 1 /\ sizes \in [0 .. n - 1 -> Nat] /\ RanksOf(n) = 0 .. n - 1 /\ DOMAIN sizes = 0 .. n - 1
  BY GroupTyped
<1> HIDE DEF sizes, n
<1>2. 0 \in S
  BY <1>1
<1>3. ASSUME NEW k \in 1 .. n - 1, k - 1 \in S
      PROVE  k \in S
  <2>1. PICK m \in 0 .. k - 1 : \A r \in 0 .. k - 1 : sizes[r] <= sizes[m]
    <3>1. k - 1 <= n - 1
      BY <1>1
    <3> QED
      BY <1>3, <3>1
  <2>2. \A r \in 0 .. k : sizes[r] \in Nat
    BY <1>1
  <2>3. CASE sizes[k] <= sizes[m]
    <3>1. \A r \in 0 .. k : sizes[r] <= sizes[m]
      BY <2>1, <2>3
    <3> QED
      BY <3>1
  <2>4. CASE sizes[m] <= sizes[k]
    <3>1. ASSUME NEW r \in 0 .. k
          PROVE  sizes[r] <= sizes[k]
      <4>1. CASE r = k
        BY <4>1, <2>2
      <4>2. CASE r \in 0 .. k - 1
        <5>1. sizes[r] <= sizes[m] /\ sizes[r] \in Nat /\ sizes[m] \in Nat /\ sizes[k] \in Nat
          BY <2>1, <2>2, <4>2
        <5> QED
          BY ONLY <5>1, <2>4
      <4> QED
        BY <4>1, <4>2
    <3>2. k \in 0 .. k
      OBVIOUS
    <3> QED
      BY <3>1, <3>2
  <2>5. sizes[k] \in Nat /\ sizes[m] \in Nat
    BY <2>2
  <2>6. sizes[k] <= sizes[m] \/ sizes[m] <= sizes[k]
    BY <2>5
  <2> QED
    BY <2>3, <2>4, <2>6
<1> HIDE DEF S
<1>4. 0 .. n - 1 \subseteq S
  <2>1. n - 1 \in Nat
    BY <1>1
  <2> QED
    BY <1>2, <1>3, <2>1, BoundedInduction
<1>5. \E m \in 0 .. n - 1 : \A r \in 0 .. n - 1 : sizes[r] <= sizes[m]
  <2>1. n - 1 \in S
    BY <1>1, <1>4
  <2> QED
    BY <2>1 DEF S
<1> DEFINE All == {sizes[r] : r \in 0 .. n - 1}
<1>6. \E m \in All : \A r \in 0 .. n - 1 : sizes[r] <= m
  BY <1>5
<1>7. MaxSize(g) = CHOOSE m \in All : \A r \in 0 .. n - 1 : sizes[r] <= m
  BY <1>1 DEF MaxSize, sizes
<1>8. All \subseteq Nat
  BY <1>1
<1> HIDE DEF All
<1>9. MaxSize(g) \in All /\ \A r \in 0 .. n - 1 : sizes[r] <= MaxSize(g)
  BY <1>6, <1>7
<1> QED
  BY <1>1, <1>8, <1>9 DEF n, sizes

-----------------------------------------------------------------------------
(* The collectives an exchange issues *)

\* The kinds of collective a group issues.
OpKinds ==
  {"broadcast", "segments", "chunks", "equal", "padded", "uneven", "all_reduce", "reduce",
   "scatter_padded", "scatter_list", "scatter_full", "scatter_param", "sum_param"}

\* Collectives.
OpSet == [kind : OpKinds, root : Nat, start : Nat, end : Nat]

\* One collective over the whole buffer.
LEMMA OneTyped ==
  ASSUME NEW kind \in OpKinds
  PROVE  One(kind) \in Seq(OpSet) /\ Len(One(kind)) = 1 /\ One(kind)[1] = Op(kind, 0, 0, 0)
<1>1. Op(kind, 0, 0, 0) \in OpSet
  BY DEF Op, OpSet
<1> QED
  BY <1>1 DEF One

\* Coalescing keeps the segments of every rank in the flat buffer.
LEMMA FusedTyped ==
  ASSUME NEW g, SoundGroup(g), NEW r \in RanksOf(g.n)
  PROVE  /\ Fused(g)[r] \in Seq(Segments(g.layout.total))
         /\ NotEmpty(Fused(g)[r])
         /\ \A i \in Nat : i \in Within(Fused(g)[r]) <=> i \in Within(g.layout.ranks[r])
<1>1. /\ g.layout.total \in Nat /\ r \in DOMAIN g.sizes
      /\ g.layout.ranks[r] \in Seq(Segments(g.layout.total)) /\ NotEmpty(g.layout.ranks[r])
  BY GroupTyped
<1>2. Fused(g)[r] = MergeAdjacent(g.layout.ranks[r])
  BY <1>1 DEF Fused
<1> QED
  BY <1>1, <1>2, MergeAdjacentKeeps

\* The broadcasts of one rank's segments.
RankBroadcasts(g) ==
  [r \in RanksOf(g.n) |->
     [k \in DOMAIN Fused(g)[r] |->
        Op("broadcast", r, Fused(g)[r][k].start, Fused(g)[r][k].end)]]

\* The broadcasts of one rank, one per fused range of it.
LEMMA RankBroadcastsTyped ==
  ASSUME NEW g, SoundGroup(g), NEW r \in RanksOf(g.n)
  PROVE  /\ RankBroadcasts(g)[r] \in Seq(OpSet)
         /\ Len(RankBroadcasts(g)[r]) = Len(Fused(g)[r])
<1> DEFINE segs == Fused(g)[r]
           total == g.layout.total
<1>1. segs \in Seq(Segments(total)) /\ total \in Nat /\ r \in Nat
  BY FusedTyped, GroupTyped
<1>2. RankBroadcasts(g)[r] = [k \in DOMAIN segs |-> Op("broadcast", r, segs[k].start, segs[k].end)]
  BY DEF RankBroadcasts
<1> HIDE DEF segs, total
<1>3. Len(segs) \in Nat /\ DOMAIN segs = 1 .. Len(segs)
  BY <1>1
<1>4. \A k \in 1 .. Len(segs) : segs[k] \in Segments(total)
  BY <1>1, <1>3
<1>5. \A x \in Segments(total) : x.start \in Nat /\ x.end \in Nat
  BY <1>1 DEF Segments
<1>6. \A k \in 1 .. Len(segs) : Op("broadcast", r, segs[k].start, segs[k].end) \in OpSet
  BY <1>1, <1>4, <1>5 DEF Op, OpSet, OpKinds
<1> QED
  BY <1>2, <1>3, <1>6 DEF segs

\* The broadcasts of all ranks, one rank after the other.
LEMMA BroadcastsTyped ==
  ASSUME NEW g, SoundGroup(g)
  PROVE  /\ Broadcasts(g) = Concat(RankBroadcasts(g), g.n)
         /\ Broadcasts(g) \in Seq(OpSet)
<1>1. g.n \in Nat /\ DOMAIN g.sizes = RanksOf(g.n) /\ RanksOf(g.n) = 0 .. g.n - 1
  BY GroupTyped
<1>2. Broadcasts(g) = Concat(RankBroadcasts(g), g.n)
  BY <1>1 DEF Broadcasts, RankBroadcasts
<1> DEFINE b == RankBroadcasts(g)
<1>3. \A r \in 0 .. g.n - 1 : b[r] \in Seq(OpSet)
  BY <1>1, RankBroadcastsTyped
<1> HIDE DEF b
<1>4. Concat(b, g.n) \in Seq(OpSet)
  BY <1>1, <1>3, ConcatHolds
<1> QED
  BY <1>2, <1>4 DEF b

\* The ways to gather; there is at most one for a configuration.
GatherWays == {"copy", "equal", "padded", "broadcast", "segments", "chunks", "uneven", "all_reduce"}

\* A group has at most one way to gather.
LEMMA OneWayToGather ==
  ASSUME NEW g, how.impl \in Impls
  PROVE  \A a, b \in GatherKinds(g) : a = b /\ a \in GatherWays
<1>1. UnevenGather(g) \in {"uneven", "broadcast"}
  BY DEF UnevenGather
<1>2. \A batched \in BOOLEAN : SendRecvGather(g, batched) \in {"chunks", "segments", "uneven", "broadcast"}
  BY <1>1 DEF SendRecvGather
<1>3. ResolvedImpl(g) \in Impls \ {"auto"}
  BY DEF ResolvedImpl, Impls
<1>4. CustomGather(g) \in GatherWays
  BY <1>1, <1>2, <1>3 DEF CustomGather, Impls, GatherWays
<1> QED
  BY <1>4 DEF GatherKinds, GatherWays

\* The collectives of a gather.
LEMMA GatherOpsTyped ==
  ASSUME NEW g, SoundGroup(g), NEW kind \in GatherWays
  PROVE  GatherOps(g, kind) \in Seq(OpSet)
<1>1. CASE kind = "copy"
  BY <1>1 DEF GatherOps
<1>2. CASE kind = "broadcast"
  BY <1>2, BroadcastsTyped DEF GatherOps
<1>3. CASE kind \notin {"copy", "broadcast"}
  <2>1. kind \in OpKinds
    BY <1>3 DEF GatherWays, OpKinds
  <2>2. GatherOps(g, kind) = One(kind)
    BY <1>3 DEF GatherOps
  <2> QED
    BY <2>1, <2>2, OneTyped
<1> QED
  BY <1>1, <1>2, <1>3

\* The reduces to owners.
LEMMA OwnerReducesTyped ==
  ASSUME NEW g, SoundGroup(g), NEW compact
  PROVE  OwnerReduces(g, compact) \in Seq(OpSet)
<1> DEFINE n == g.n
           ranks == [i \in 1 .. n |-> i - 1]
           P == {i \in 1 .. n : g.sizes[i - 1] > 0}
           owners == Selected(ranks, P)
<1>1. n \in Nat /\ g.sizes \in [0 .. n - 1 -> Nat]
  BY GroupTyped
<1>2. ranks \in Seq(0 .. n - 1)
  BY <1>1
<1>3. OwnerReduces(g, compact) =
        [i \in DOMAIN owners |->
           Op("reduce", owners[i], ChunkStart(g, owners[i], compact),
              ChunkStart(g, owners[i], compact) + g.sizes[owners[i]])]
  BY DEF OwnerReduces
<1>4. MaxSize(g) \in Nat
  BY MaxSizeIs
<1>5. \A r \in 0 .. n : PackedOffset(g.sizes, r) \in Nat
  BY <1>1, PackedOffsets
<1>6. ASSUME NEW r \in 0 .. n - 1
      PROVE  Op("reduce", r, ChunkStart(g, r, compact), ChunkStart(g, r, compact) + g.sizes[r]) \in OpSet
  <2>1. r \in Nat /\ r \in 0 .. n /\ g.sizes[r] \in Nat
    BY <1>1
  <2>2. r * MaxSize(g) \in Nat
    BY <1>4, <2>1
  <2>3. ChunkStart(g, r, compact) \in Nat
    BY <1>5, <2>1, <2>2 DEF ChunkStart
  <2> QED
    BY <2>1, <2>3 DEF Op, OpSet, OpKinds
<1> HIDE DEF ranks, P
<1>7. owners \in Seq(0 .. n - 1)
  <2> DEFINE A == 0 .. n - 1
  <2> HIDE DEF A
  <2>1. ranks \in Seq(A)
    BY <1>2 DEF A
  <2>2. Selected(ranks, P) \in Seq(A)
    BY <2>1, SelectedPicks
  <2> QED
    BY <2>2 DEF A
<1> HIDE DEF owners
<1>8. \A i \in DOMAIN owners : owners[i] \in 0 .. n - 1
  <2> DEFINE A == 0 .. n - 1
  <2>1. owners \in Seq(A)
    BY <1>7
  <2> HIDE DEF A
  <2>2. \A i \in DOMAIN owners : owners[i] \in A
    BY <2>1
  <2> QED
    BY <2>2 DEF A
<1>9. DOMAIN owners = 1 .. Len(owners) /\ Len(owners) \in Nat
  BY <1>7
<1> QED
  BY <1>3, <1>6, <1>8, <1>9

\* One collective per parameter some rank used.
LEMMA ParamOpsTyped ==
  ASSUME NEW g, SoundGroup(g), NEW used, NEW kind \in OpKinds
  PROVE  ParamOps(g, used, kind) \in Seq(OpSet)
<1> DEFINE m == Len(g.params)
           backward == [i \in 1 .. m |-> m + 1 - i]
           P == {i \in DOMAIN backward : backward[i] \in used}
           reached == Selected(backward, P)
<1>1. m \in Nat
  BY GroupTyped
<1> DEFINE A == Nat
<1>2. backward \in Seq(A)
  BY <1>1
<1>3. ParamOps(g, used, kind) = [i \in DOMAIN reached |-> Op(kind, reached[i], 0, 0)]
  BY DEF ParamOps
<1> HIDE DEF backward, P, A
<1>4. reached \in Seq(A)
  BY <1>2, SelectedPicks
<1> HIDE DEF reached
<1>5. \A i \in DOMAIN reached : reached[i] \in A
  BY <1>4
<1>6. DOMAIN reached = 1 .. Len(reached) /\ Len(reached) \in Nat
  BY <1>4
<1>7. \A x \in A : Op(kind, x, 0, 0) \in OpSet
  BY DEF Op, OpSet, A
<1> QED
  BY <1>3, <1>5, <1>6, <1>7

\* The collectives of a reduce of the whole bucket.
LEMMA BucketOpsTyped ==
  ASSUME NEW g, SoundGroup(g), NEW compact
  PROVE  BucketOps(g, compact) \in Seq(OpSet)
<1>1. OwnerReduces(g, compact) \in Seq(OpSet)
  BY OwnerReducesTyped
<1>2. One("scatter_list") \in Seq(OpSet) /\ One("scatter_padded") \in Seq(OpSet)
  BY OneTyped DEF OpKinds
<1>3. CustomReduces(g, compact) \in Seq(OpSet)
  BY <1>1, <1>2 DEF CustomReduces
<1> QED
  BY <1>1, <1>2, <1>3 DEF BucketOps

\* The collectives of a reduce.
LEMMA ReduceOpsTyped ==
  ASSUME SoundGroup(group), how.reduce \in Reducers, NEW used
  PROVE  ReduceOpsFor(used) \in Seq(OpSet)
<1>1. One("scatter_full") \in Seq(OpSet)
  BY OneTyped DEF OpKinds
<1>2. ParamOps(group, used, "scatter_param") \in Seq(OpSet) /\ ParamOps(group, used, "sum_param") \in Seq(OpSet)
  BY ParamOpsTyped DEF OpKinds
<1>3. BucketOps(group, Compact(group, used)) \in Seq(OpSet)
  BY BucketOpsTyped
<1>4. <<>> \in Seq(OpSet)
  OBVIOUS
<1> HIDE DEF OpSet
<1> QED
  BY <1>1, <1>2, <1>3, <1>4 DEF ReduceOpsFor, Reducers

\* Ranks that run the same program reduce with the same collectives, whichever
\* parameters each of them used.
LEMMA RanksReduceAlike ==
  ASSUME SoundGroup(group), how.reduce \in Reducers, NEW job, job.used \in [Members -> Uses],
         SameProgram(how, job.used), NEW q \in Members, NEW r \in Members
  PROVE  ReduceOpsFor(UsedIn(job, q)) = ReduceOpsFor(UsedIn(job, r))
<1>1. CASE how.reduce = "flat"
  BY <1>1 DEF ReduceOpsFor
<1>2. CASE job.used[q] = job.used[r]
  <2>1. UsedIn(job, q) = UsedIn(job, r)
    BY <1>2 DEF UsedIn
  <2> QED
    BY <2>1
<1>3. CASE how.reduce = "bucket_reduce_scatter" /\ \A x \in Members : job.used[x] # "none"
  <2>1. 1 \in DOMAIN group.params
    BY GroupTyped
  <2>2. \A x \in Members : UsedIn(job, x) # {} /\ UsedIn(job, x) \subseteq DOMAIN group.params
    <3> SUFFICES ASSUME NEW x \in Members
                 PROVE  UsedIn(job, x) # {} /\ UsedIn(job, x) \subseteq DOMAIN group.params
      OBVIOUS
    <3>1. job.used[x] \in {"all", "first"}
      BY <1>3 DEF Uses
    <3> QED
      BY <2>1, <3>1 DEF UsedIn
  <2>3. ASSUME OwnerSegments(group)
        PROVE  Compact(group, UsedIn(job, q)) = Compact(group, UsedIn(job, r))
    <3>1. WholeOwners(group)
      BY <2>3 DEF OwnerSegments
    <3>2. \A i \in DOMAIN group.params : PackedPlaces(group, group.params[i], TRUE) # {}
      BY <3>1, OwnedInOnePiece
    <3>3. ASSUME NEW used \in SUBSET DOMAIN group.params
          PROVE  CompactPiece(group, used)
      BY <3>2 DEF CompactPiece
    <3>4. \A x \in Members : CompactPiece(group, IF ZeroCopy(group) THEN DOMAIN group.params ELSE UsedIn(job, x))
      BY <2>2, <3>3
    <3>5. \A x \in Members : Compact(group, UsedIn(job, x)) = (group.n > 1)
      BY <2>3, <3>4 DEF Compact
    <3> QED
      BY <3>5
  <2>4. ASSUME ~OwnerSegments(group), NEW a, NEW b
        PROVE  BucketOps(group, a) = BucketOps(group, b)
    BY <2>4 DEF BucketOps
  <2>5. BucketOps(group, Compact(group, UsedIn(job, q))) = BucketOps(group, Compact(group, UsedIn(job, r)))
    BY <2>3, <2>4
  <2> QED
    BY <1>3, <2>2, <2>5 DEF ReduceOpsFor
<1> QED
  BY <1>1, <1>2, <1>3 DEF SameProgram

-----------------------------------------------------------------------------
(* The course of a program *)

\* The first of two runs of joined sequences begins the second.
LEMMA JoinPrefix ==
  ASSUME NEW A, NEW s \in Seq(Seq(A)), NEW f, Joins(f, s, A)
  PROVE  \A a, b \in 0 .. Len(s) : a <= b =>
           /\ Len(f[a]) <= Len(f[b])
           /\ \A i \in 1 .. Len(f[a]) : f[b][i] = f[a][i]
<1> DEFINE n == Len(s)
           X == Seq(A)
           Begins(a, b) == /\ Len(f[a]) <= Len(f[b])
                           /\ \A i \in 1 .. Len(f[a]) : f[b][i] = f[a][i]
           S == {b \in Nat : b <= n => \A a \in 0 .. n : a <= b => Begins(a, b)}
<1>0. n \in Nat /\ \A k \in 1 .. n : s[k] \in X
  OBVIOUS
<1>1. /\ \A k \in 0 .. n : f[k] \in X
      /\ \A k \in 1 .. n : f[k - 1] \in X /\ f[k] = f[k - 1] \o s[k]
  BY DEF Joins
<1>2. \A x \in X : Len(x) \in Nat
  OBVIOUS
<1>3. 0 \in S
  <2>1. \A a \in 0 .. n : a <= 0 => a = 0
    BY <1>0
  <2> QED
    BY <1>1, <1>2, <2>1
<1>4. ASSUME NEW b \in 1 .. n, b - 1 \in S
      PROVE  b \in S
  <2>0. b \in Nat /\ b \in 0 .. n /\ b - 1 \in 0 .. n /\ b - 1 <= n
    BY <1>0
  <2>1. Begins(b - 1, b)
    <3> DEFINE u == f[b - 1]
               v == s[b]
    <3>1. u \in X /\ v \in X /\ f[b] = u \o v
      BY <1>0, <1>1
    <3> HIDE DEF u, v
    <3>2. u \in Seq(A) /\ v \in Seq(A)
      BY <3>1
    <3>3. Len(u \o v) = Len(u) + Len(v) /\ \A i \in 1 .. Len(u) : (u \o v)[i] = u[i]
      BY <3>2, ConcatPlaces
    <3>4. Len(u) \in Nat /\ Len(v) \in Nat
      BY <3>2
    <3>5. Len(u) <= Len(u \o v)
      BY ONLY <3>3, <3>4
    <3> QED
      BY <3>1, <3>3, <3>5 DEF u
  <2>2. ASSUME NEW a \in 0 .. n, a <= b
        PROVE  Begins(a, b)
    <3>1. CASE a = b
      <4>1. Len(f[b]) \in Nat
        BY <1>1, <1>2, <2>0
      <4> QED
        BY <3>1, <4>1
    <3>2. CASE a <= b - 1
      <4>1. Begins(a, b - 1)
        BY <1>4, <2>0, <3>2
      <4>2. Len(f[a]) \in Nat /\ Len(f[b - 1]) \in Nat /\ Len(f[b]) \in Nat
        BY <1>1, <1>2, <2>0
      <4>3. Len(f[a]) <= Len(f[b - 1]) /\ Len(f[b - 1]) <= Len(f[b])
        BY <2>1, <4>1
      <4>4. Len(f[a]) <= Len(f[b])
        BY ONLY <4>2, <4>3
      <4>5. ASSUME NEW i \in 1 .. Len(f[a])
            PROVE  f[b][i] = f[a][i]
        <5>1. i \in 1 .. Len(f[b - 1])
          BY ONLY <4>2, <4>3, i \in 1 .. Len(f[a])
        <5> QED
          BY <2>1, <4>1, <5>1
      <4> QED
        BY <4>4, <4>5
    <3>3. a = b \/ a <= b - 1
      BY <2>0, <2>2
    <3> QED
      BY <3>1, <3>2, <3>3
  <2> HIDE DEF Begins
  <2> QED
    BY <2>0, <2>2
<1> HIDE DEF S, X
<1>5. 0 .. n \subseteq S
  BY <1>0, <1>3, <1>4, BoundedInduction
<1> QED
  BY <1>0, <1>5 DEF S

-----------------------------------------------------------------------------
(* The course of a program: what each exchange issues *)

\* The collectives of an exchange, on a rank.
OpsFor(job, r) ==
  IF job.kind = "gather" THEN GatherOps(group, CHOOSE kind \in GatherKinds(group) : TRUE)
  ELSE ReduceOpsFor(UsedIn(job, r))

\* The collectives of every exchange of the program, as rank 0 issues them.
JobOps == [k \in 1 .. Len(jobs) |-> OpsFor(jobs[k], 0)]

\* What the program has issued when the first k exchanges were started.
Course == CHOOSE f : Joins(f, JobOps, OpSet)

\* The configuration decides the collectives, and it does not change.
LEMMA OwnerSegmentsStays ==
  ASSUME how' = how, NEW g
  PROVE  OwnerSegments(g)' = OwnerSegments(g)
  BY DEF OwnerSegments

\* What depends on the configuration alone stays while it does.
LEMMA ZeroCopyStays ==
  ASSUME how' = how, NEW g
  PROVE  ZeroCopy(g)' = ZeroCopy(g)
  BY DEF ZeroCopy

\* As above, for whether a reduce is compact.
LEMMA CompactStays ==
  ASSUME how' = how, NEW g, NEW used
  PROVE  Compact(g, used)' = Compact(g, used)
<1>1. OwnerSegments(g)' = OwnerSegments(g) /\ ZeroCopy(g)' = ZeroCopy(g)
  BY OwnerSegmentsStays, ZeroCopyStays
<1> QED
  BY <1>1 DEF Compact

\* As above, for the ways to gather.
LEMMA GatherKindsStay ==
  ASSUME how' = how, NEW g
  PROVE  GatherKinds(g)' = GatherKinds(g)
<1>1. UnevenGather(g)' = UnevenGather(g)
  BY DEF UnevenGather
<1>2. ASSUME NEW batched
      PROVE  SendRecvGather(g, batched)' = SendRecvGather(g, batched)
  BY <1>1 DEF SendRecvGather
<1>3. ResolvedImpl(g)' = ResolvedImpl(g)
  BY DEF ResolvedImpl
<1>4. CustomGather(g)' = CustomGather(g)
  BY <1>1, <1>2, <1>3 DEF CustomGather
<1>5. OwnerSegments(g)' = OwnerSegments(g)
  BY OwnerSegmentsStays
<1> QED
  BY <1>4, <1>5 DEF GatherKinds

\* As above, for the collectives of a bucket.
LEMMA BucketOpsStay ==
  ASSUME how' = how, NEW g, NEW compact
  PROVE  BucketOps(g, compact)' = BucketOps(g, compact)
<1>1. CustomReduces(g, compact)' = CustomReduces(g, compact)
  BY DEF CustomReduces
<1>2. OwnerSegments(g)' = OwnerSegments(g)
  BY OwnerSegmentsStays
<1> QED
  BY <1>1, <1>2 DEF BucketOps

\* As above, for the collectives of a reduce.
LEMMA ReduceOpsStay ==
  ASSUME how' = how, group' = group, NEW used
  PROVE  ReduceOpsFor(used)' = ReduceOpsFor(used)
<1>1. ZeroCopy(group)' = ZeroCopy(group)
  BY ZeroCopyStays
<1>2. Compact(group, used)' = Compact(group, used)
  BY CompactStays
<1>3. BucketOps(group, Compact(group, used))' = BucketOps(group, Compact(group, used))
  BY <1>2, BucketOpsStay
<1>4. ParamOps(group, used, "scatter_param")' = ParamOps(group, used, "scatter_param")
  OBVIOUS
<1>5. ParamOps(group, used, "sum_param")' = ParamOps(group, used, "sum_param")
  OBVIOUS
<1> QED
  BY <1>1, <1>3, <1>4, <1>5 DEF ReduceOpsFor

\* As above, for the collectives of an exchange.
LEMMA OpsStay ==
  ASSUME how' = how, group' = group, NEW job, NEW r
  PROVE  OpsFor(job, r)' = OpsFor(job, r)
<1>1. GatherKinds(group)' = GatherKinds(group)
  BY GatherKindsStay
<1>2. UsedIn(job, r)' = UsedIn(job, r)
  BY DEF UsedIn
<1>3. ReduceOpsFor(UsedIn(job, r))' = ReduceOpsFor(UsedIn(job, r))
  BY <1>2, ReduceOpsStay
<1> QED
  BY <1>1, <1>3 DEF OpsFor

\* While the group, the configuration and the program stay, so does the course.
LEMMA CourseStays ==
  ASSUME how' = how, group' = group, jobs' = jobs
  PROVE  JobOps' = JobOps /\ Course' = Course
<1>1. \A k \in 1 .. Len(jobs) : OpsFor(jobs[k], 0)' = OpsFor(jobs[k], 0)
  BY OpsStay
<1>2. JobOps' = JobOps
  BY <1>1 DEF JobOps
<1> QED
  BY <1>2 DEF Course

\* A collective changes what a rank gathers, receives or packed, and nothing else.
LEMMA RanKeeps ==
  ASSUME Shaped, NEW r \in Members, NEW op, op.kind \in OpKinds
  PROVE  /\ DOMAIN Ran(op, r) = Fields
         /\ \A x \in Fields \ {"full", "wire", "mem"} : Ran(op, r)[x] = proc[r][x]
<1> DEFINE p == proc[r]
           Good(q) == DOMAIN q = Fields /\ \A x \in Fields \ {"full", "wire", "mem"} : q[x] = p[x]
<1>1. DOMAIN p = Fields
  BY DEF Shaped
<1>2. ASSUME NEW v
      PROVE  Good([p EXCEPT !.full = v]) /\ Good([p EXCEPT !.wire = v]) /\ Good([p EXCEPT !.mem = v])
  BY <1>1 DEF Fields
<1>3. Good([p EXCEPT !.mem[p.tensor] = ReducedAtRoot(op, r, @)])
  <2>1. [p EXCEPT !.mem[p.tensor] = ReducedAtRoot(op, r, @)]
          = [p EXCEPT !.mem = [p.mem EXCEPT ![p.tensor] = ReducedAtRoot(op, r, @)]]
    OBVIOUS
  <2> HIDE DEF Good
  <2> QED
    BY <1>2, <2>1
<1> HIDE DEF Good
<1>4. Good(Ran(op, r))
  BY <1>2, <1>3 DEF Ran, OpKinds
<1> QED
  BY <1>4 DEF Good

\* What an exchange needs to be run by every rank.
JobOK(job) ==
  /\ job.kind = "gather" => GatherKinds(group) # {}
  /\ job.kind = "reduce" => job.used \in [Members -> Uses] /\ SameProgram(how, job.used)

\* A program has a group, and exchanges the ranks can make together.
ProgramOK ==
  /\ GroupIsSound
  /\ jobs # <<>> => group # Nothing /\ how \in Hows
  /\ jobs = <<>> => delivered = 0
  /\ jobs \in Seq(JobsOn(group.n))
  /\ \A k \in DOMAIN jobs : JobOK(jobs[k])
  /\ delivered \in Nat

\* How many exchanges a rank has started.
Begun(r) == IF proc[r].running THEN proc[r].next ELSE proc[r].next - 1

\* A rank has issued what the exchanges it has started issue, in the order of
\* the program; the process group has run those of the ones it has finished.
RankInOrder(r) ==
  /\ proc[r].next \in 1 .. Len(jobs) + 1
  /\ proc[r].running \in BOOLEAN
  /\ proc[r].running => proc[r].next <= Len(jobs)
  /\ proc[r].issued = Course[Begun(r)]
  /\ Len(Course[proc[r].next - 1]) <= delivered
  /\ delivered <= Len(proc[r].issued)

\* The invariant: the program is one a group may have, and each rank is along it.
InOrder == ProgramOK /\ Shaped /\ \A r \in Members : RankInOrder(r)

\* What is known of one exchange of the program.
LEMMA JobTyped ==
  ASSUME ProgramOK, NEW k \in DOMAIN jobs
  PROVE  /\ SoundGroup(group) /\ how.impl \in Impls /\ how.reduce \in Reducers
         /\ jobs[k].kind \in {"gather", "reduce"}
         /\ jobs[k].kind = "gather" => GatherKinds(group) # {}
         /\ jobs[k].kind = "reduce" => /\ jobs[k].used \in [Members -> Uses]
                                        /\ SameProgram(how, jobs[k].used)
<1>1. jobs # <<>>
  BY DEF ProgramOK
<1>2. group # Nothing /\ how \in Hows /\ GroupIsSound
  BY <1>1 DEF ProgramOK
<1>3. SoundGroup(group)
  BY <1>2 DEF GroupIsSound
<1>4. jobs[k] \in JobsOn(group.n)
  <2> DEFINE A == JobsOn(group.n)
  <2>1. jobs \in Seq(A)
    BY DEF ProgramOK
  <2> HIDE DEF A
  <2>2. jobs[k] \in A
    BY <2>1
  <2> QED
    BY <2>2 DEF A
<1>5. jobs[k].kind \in {"gather", "reduce"}
  BY <1>4 DEF JobsOn
<1>6. JobOK(jobs[k])
  BY DEF ProgramOK
<1> QED
  BY <1>2, <1>3, <1>5, <1>6, HowsAssumption DEF JobOK

\* What an exchange of the program issues is the same on every rank.
LEMMA OpsAgree ==
  ASSUME ProgramOK, NEW k \in DOMAIN jobs, NEW r \in Members
  PROVE  /\ OpsFor(jobs[k], r) = OpsFor(jobs[k], 0)
         /\ OpsFor(jobs[k], r) \in Seq(OpSet)
<1>1. /\ SoundGroup(group) /\ how.impl \in Impls /\ how.reduce \in Reducers
      /\ jobs[k].kind \in {"gather", "reduce"}
      /\ jobs[k].kind = "gather" => GatherKinds(group) # {}
      /\ jobs[k].kind = "reduce" => /\ jobs[k].used \in [Members -> Uses]
                                     /\ SameProgram(how, jobs[k].used)
  BY JobTyped
<1>2. 0 \in Members
  BY <1>1, GroupTyped DEF Members
<1>3. CASE jobs[k].kind = "gather"
  <2>1. PICK kind \in GatherKinds(group) : TRUE
    BY <1>1, <1>3
  <2>2. \A c \in GatherKinds(group) : c \in GatherWays
    BY <1>1, OneWayToGather
  <2>3. GatherOps(group, CHOOSE c \in GatherKinds(group) : TRUE) \in Seq(OpSet)
    BY <1>1, <2>1, <2>2, GatherOpsTyped
  <2> QED
    BY <1>3, <2>3 DEF OpsFor
<1>4. CASE jobs[k].kind = "reduce"
  <2> DEFINE job == jobs[k]
  <2>1. job.used \in [Members -> Uses] /\ SameProgram(how, job.used)
    BY <1>1, <1>4
  <2> HIDE DEF job
  <2>2. ReduceOpsFor(UsedIn(job, r)) = ReduceOpsFor(UsedIn(job, 0))
    BY <1>1, <1>2, <2>1, RanksReduceAlike
  <2>3. ReduceOpsFor(UsedIn(job, r)) \in Seq(OpSet)
    BY <1>1, ReduceOpsTyped
  <2>4. job.kind # "gather"
    BY <1>4 DEF job
  <2>5. OpsFor(job, r) = OpsFor(job, 0) /\ OpsFor(job, r) \in Seq(OpSet)
    BY <2>2, <2>3, <2>4 DEF OpsFor
  <2> QED
    BY <2>5 DEF job
<1> QED
  BY <1>1, <1>3, <1>4

\* The course joins what the exchanges issue.
CourseJoined ==
  /\ Len(jobs) \in Nat /\ DOMAIN jobs = 1 .. Len(jobs)
  /\ JobOps \in Seq(Seq(OpSet)) /\ Len(JobOps) = Len(jobs)
  /\ Joins(Course, JobOps, OpSet)

\* The course after an exchange is the course before it and its collectives.
LEMMA CourseJoins == ProgramOK => CourseJoined
<1> SUFFICES ASSUME ProgramOK PROVE CourseJoined
  OBVIOUS
<1>1. Len(jobs) \in Nat /\ DOMAIN jobs = 1 .. Len(jobs)
  BY DEF ProgramOK
<1>2. ASSUME NEW k \in 1 .. Len(jobs)
      PROVE  OpsFor(jobs[k], 0) \in Seq(OpSet)
  <2>1. k \in DOMAIN jobs
    BY <1>1
  <2>2. 0 \in Members
    BY <2>1, JobTyped, GroupTyped DEF Members
  <2> QED
    BY <2>1, <2>2, OpsAgree
<1> DEFINE X == Seq(OpSet)
<1> HIDE DEF X
<1>3. \A k \in 1 .. Len(jobs) : OpsFor(jobs[k], 0) \in X
  BY <1>2 DEF X
<1>4. JobOps \in Seq(X) /\ Len(JobOps) = Len(jobs)
  BY <1>1, <1>3 DEF JobOps
<1>5. JobOps \in Seq(Seq(OpSet))
  BY <1>4 DEF X
<1>6. \E f : Joins(f, JobOps, OpSet)
  BY <1>5, JoinExists
<1>7. Joins(Course, JobOps, OpSet)
  BY <1>6 DEF Course
<1> QED
  BY <1>1, <1>4, <1>5, <1>7 DEF CourseJoined

\* The same of the next state, where the program may be a new one.
LEMMA CourseJoinsNext == ProgramOK' => CourseJoined'
  BY CourseJoins, PTL

\* The runs of the course.
LEMMA CourseRuns ==
  ASSUME ProgramOK
  PROVE  /\ Course[0] = <<>>
         /\ \A k \in 0 .. Len(jobs) : Course[k] \in Seq(OpSet) /\ Len(Course[k]) \in Nat
         /\ \A k \in 1 .. Len(jobs) :
              /\ k - 1 \in 0 .. Len(jobs)
              /\ Course[k] = Course[k - 1] \o OpsFor(jobs[k], 0)
         /\ \A a, b \in 0 .. Len(jobs) : a <= b =>
              /\ Len(Course[a]) <= Len(Course[b])
              /\ \A i \in 1 .. Len(Course[a]) : Course[b][i] = Course[a][i]
<1>1. /\ Len(jobs) \in Nat /\ DOMAIN jobs = 1 .. Len(jobs)
      /\ JobOps \in Seq(Seq(OpSet)) /\ Len(JobOps) = Len(jobs)
      /\ Joins(Course, JobOps, OpSet)
  BY CourseJoins DEF CourseJoined
<1>2. \A k \in 1 .. Len(jobs) : JobOps[k] = OpsFor(jobs[k], 0)
  BY DEF JobOps
<1> DEFINE X == Seq(OpSet)
<1>3. /\ Course[0] = <<>>
      /\ \A k \in 0 .. Len(jobs) : Course[k] \in X
      /\ \A k \in 1 .. Len(jobs) : Course[k] = Course[k - 1] \o OpsFor(jobs[k], 0)
  BY <1>1, <1>2 DEF Joins
<1>4. \A x \in X : Len(x) \in Nat
  OBVIOUS
<1> HIDE DEF X
<1>5. \A k \in 0 .. Len(jobs) : Course[k] \in X /\ Len(Course[k]) \in Nat
  BY <1>3, <1>4
<1>6. \A k \in 1 .. Len(jobs) : k - 1 \in 0 .. Len(jobs)
  BY <1>1
<1>7. \A a, b \in 0 .. Len(jobs) : a <= b =>
              /\ Len(Course[a]) <= Len(Course[b])
              /\ \A i \in 1 .. Len(Course[a]) : Course[b][i] = Course[a][i]
  BY <1>1, JoinPrefix
<1> QED
  BY <1>3, <1>5, <1>6, <1>7 DEF X

-----------------------------------------------------------------------------
(* Every step goes along the course *)

\* A step that changes neither group nor program keeps what is known of them.
LEMMA ProgramStays ==
  ASSUME ProgramOK, UNCHANGED <<group, how, jobs>>, delivered' \in Nat, jobs = <<>> => delivered' = 0
  PROVE  ProgramOK'
<1>1. ASSUME NEW k \in DOMAIN jobs
      PROVE  JobOK(jobs[k])'
  <2>1. JobOK(jobs[k])
    BY DEF ProgramOK
  <2>2. GatherKinds(group)' = GatherKinds(group)
    BY GatherKindsStay
  <2>3. SameProgram(how, jobs[k].used)' = SameProgram(how, jobs[k].used)
    BY DEF SameProgram, Members
  <2> QED
    BY <2>1, <2>2, <2>3 DEF JobOK, Members
<1>2. GroupIsSound'
  BY DEF ProgramOK, GroupIsSound
<1> QED
  BY <1>1, <1>2 DEF ProgramOK

\* The numbers of a rank.
LEMMA RankNumbers ==
  ASSUME ProgramOK, NEW r \in Members, RankInOrder(r)
  PROVE  /\ Len(jobs) \in Nat
         /\ proc[r].next \in Nat /\ proc[r].next - 1 \in 0 .. Len(jobs)
         /\ Begun(r) \in 0 .. Len(jobs) /\ proc[r].next - 1 <= Begun(r)
         /\ Len(Course[proc[r].next - 1]) \in Nat
         /\ proc[r].issued \in Seq(OpSet) /\ Len(proc[r].issued) \in Nat
<1>1. Len(jobs) \in Nat
  BY CourseJoins DEF CourseJoined
<1>2. proc[r].next \in Nat /\ proc[r].next - 1 \in 0 .. Len(jobs)
  BY <1>1 DEF RankInOrder
<1>3. Begun(r) \in 0 .. Len(jobs) /\ proc[r].next - 1 <= Begun(r)
  BY <1>1, <1>2 DEF RankInOrder, Begun
<1>4. \A k \in 0 .. Len(jobs) : Course[k] \in Seq(OpSet) /\ Len(Course[k]) \in Nat
  BY CourseRuns
<1>5. proc[r].issued = Course[Begun(r)]
  BY DEF RankInOrder
<1> QED
  BY <1>1, <1>2, <1>3, <1>4, <1>5

\* A rank that does not move stays along the course when more of it has run.
LEMMA RankStays ==
  ASSUME ProgramOK, NEW r \in Members, RankInOrder(r), UNCHANGED <<group, how, jobs>>,
         Same(r, {"next", "running", "issued"}),
         delivered' \in Nat, delivered <= delivered', delivered' <= Len(proc[r].issued)
  PROVE  RankInOrder(r)'
<1>1. Course' = Course
  BY CourseStays
<1>2. proc'[r].next = proc[r].next /\ proc'[r].running = proc[r].running /\ proc'[r].issued = proc[r].issued
  BY DEF Same
<1>3. Begun(r)' = Begun(r)
  BY <1>2 DEF Begun
<1>4. Len(Course[proc[r].next - 1]) <= delivered'
  <2>1. Len(Course[proc[r].next - 1]) \in Nat /\ Len(Course[proc[r].next - 1]) <= delivered /\ delivered \in Nat
    BY RankNumbers DEF RankInOrder, ProgramOK
  <2> QED
    BY <2>1
<1> QED
  BY <1>1, <1>2, <1>3, <1>4 DEF RankInOrder

\* A step of one rank alone.
LEMMA OneRankSteps ==
  ASSUME InOrder, NEW r \in Members, OnlyRank(r), RankInOrder(r)'
  PROVE  InOrder'
<1>1. UNCHANGED <<group, how, jobs, delivered>> /\ Shaped' /\ Members' = Members
  BY DEF OnlyRank, Members
<1>2. ProgramOK'
  BY <1>1, ProgramStays DEF InOrder, ProgramOK
<1>3. ASSUME NEW q \in Members, q # r
      PROVE  RankInOrder(q)'
  <2>1. Same(q, {"next", "running", "issued"})
    BY <1>3 DEF OnlyRank, Same
  <2>2. delivered' \in Nat /\ delivered <= delivered' /\ delivered' <= Len(proc[q].issued)
    BY <1>1 DEF InOrder, ProgramOK, RankInOrder
  <2> QED
    BY <1>1, <2>1, <2>2, RankStays DEF InOrder
<1> QED
  BY <1>1, <1>2, <1>3 DEF InOrder

\* A rank that starts an exchange goes on along the course.
LEMMA StartsInOrder ==
  ASSUME InOrder, NEW r \in Members, OnlyRank(r), ~proc[r].running, proc[r].next <= Len(jobs),
         proc'[r].running = TRUE, proc'[r].next = proc[r].next,
         proc'[r].issued = proc[r].issued \o OpsFor(jobs[proc[r].next], r)
  PROVE  InOrder'
<1> DEFINE k == proc[r].next
<1>1. ProgramOK /\ RankInOrder(r)
  BY DEF InOrder
<1>2. k \in 1 .. Len(jobs) /\ k \in DOMAIN jobs /\ k - 1 \in 0 .. Len(jobs) /\ k \in 0 .. Len(jobs)
  BY <1>1, RankNumbers, CourseJoins DEF RankInOrder, CourseJoined
<1>3. proc[r].issued = Course[k - 1]
  BY <1>1 DEF RankInOrder, Begun
<1> HIDE DEF k
<1>4. Course[k] = Course[k - 1] \o OpsFor(jobs[k], 0) /\ Len(Course[k - 1]) <= Len(Course[k])
  <2>1. k - 1 <= k
    BY <1>2
  <2> QED
    BY <1>1, <1>2, <2>1, CourseRuns
<1>5. OpsFor(jobs[k], r) = OpsFor(jobs[k], 0)
  BY <1>1, <1>2, OpsAgree
<1>6. proc'[r].issued = Course[k]
  BY <1>3, <1>4, <1>5 DEF k
<1>7. UNCHANGED <<group, how, jobs, delivered>> /\ Course' = Course
  BY CourseStays DEF OnlyRank
<1>8. Len(Course[k - 1]) \in Nat /\ Len(Course[k]) \in Nat /\ delivered \in Nat
  BY <1>1, <1>2, CourseRuns DEF ProgramOK
<1>9. Len(Course[k - 1]) <= delivered /\ delivered <= Len(Course[k - 1])
  BY <1>1, <1>3 DEF RankInOrder, k
<1>10. delivered <= Len(Course[k])
  <2>1. Len(Course[k - 1]) <= Len(Course[k])
    BY <1>4
  <2> QED
    BY ONLY <1>8, <1>9, <2>1
<1>12. proc'[r].next = k /\ Begun(r)' = k
  BY DEF Begun, k
<1>13. k \in 1 .. Len(jobs) + 1 /\ k <= Len(jobs)
  BY <1>1, <1>2, RankNumbers
<1>11. RankInOrder(r)'
  BY <1>6, <1>7, <1>9, <1>10, <1>12, <1>13 DEF RankInOrder
<1> QED
  BY <1>11, OneRankSteps

\* A rank that has waited for what it issued is done with the exchange.
LEMMA FinishesInOrder ==
  ASSUME InOrder, NEW r \in Members, OnlyRank(r), Running(r), Waited(r),
         proc'[r].running = FALSE, proc'[r].next = proc[r].next + 1,
         proc'[r].issued = proc[r].issued
  PROVE  InOrder'
<1> DEFINE k == proc[r].next
<1>1. ProgramOK /\ RankInOrder(r) /\ proc[r].running
  BY DEF InOrder, Running
<1>2. k \in 1 .. Len(jobs) /\ Len(jobs) \in Nat /\ k + 1 \in 1 .. Len(jobs) + 1 /\ (k + 1) - 1 = k
  BY <1>1, RankNumbers DEF RankInOrder
<1>3. proc[r].issued = Course[k]
  BY <1>1 DEF RankInOrder, Begun
<1>4. UNCHANGED <<group, how, jobs, delivered>> /\ Course' = Course
  BY CourseStays DEF OnlyRank
<1>5. delivered \in Nat /\ Len(Course[k]) \in Nat /\ delivered <= Len(Course[k]) /\ delivered >= Len(Course[k])
  BY <1>1, <1>3, RankNumbers DEF RankInOrder, Waited, ProgramOK
<1>6. proc'[r].next = k + 1
  OBVIOUS
<1> HIDE DEF k
<1>7. proc'[r].issued = Course[k]
  BY <1>3
<1>8. Begun(r)' = k
  BY <1>2, <1>6 DEF Begun
<1>9. RankInOrder(r)'
  BY <1>2, <1>4, <1>5, <1>6, <1>7, <1>8 DEF RankInOrder
<1> QED
  BY <1>9, OneRankSteps

\* Starting and finishing exchanges keeps every rank along the course.
LEMMA HostStepsInOrder ==
  ASSUME InOrder, NEW r \in Members, HostStep(r)
  PROVE  InOrder' /\ OnlyRank(r)
<1> DEFINE k == proc[r].next
<1>0. ProgramOK /\ RankInOrder(r) /\ Shaped
  BY DEF InOrder
<1>1. CASE StartGather(r)
  <2>1. ~proc[r].running /\ k <= Len(jobs) /\ jobs[k].kind = "gather"
    BY <1>1 DEF StartGather, ToStart, Job
  <2>2. k \in DOMAIN jobs
    BY <1>0, <2>1, CourseJoins DEF RankInOrder, CourseJoined
  <2>3. PICK kind \in GatherKinds(group) :
             proc'[r].issued = proc[r].issued \o GatherOps(group, kind)
    BY <1>0, <1>1, StartGatherDoes
  <2>4. kind = CHOOSE c \in GatherKinds(group) : TRUE
    BY <1>0, <2>2, JobTyped, OneWayToGather
  <2>5. OpsFor(jobs[k], r) = GatherOps(group, kind)
    BY <2>1, <2>4 DEF OpsFor
  <2>6. OnlyRank(r) /\ proc'[r].running = TRUE /\ proc'[r].next = k
    BY <1>0, <1>1, StartGatherDoes DEF Same, Fields
  <2>7. proc'[r].issued = proc[r].issued \o OpsFor(jobs[k], r)
    BY <2>3, <2>5
  <2> QED
    BY <2>1, <2>6, <2>7, StartsInOrder
<1>2. CASE FinishGather(r)
  <2>1. Running(r) /\ Waited(r)
    BY <1>2 DEF FinishGather
  <2>2. /\ OnlyRank(r) /\ proc'[r].running = FALSE /\ proc'[r].next = proc[r].next + 1
        /\ proc'[r].issued = proc[r].issued
    BY <1>0, <1>2, FinishGatherDoes DEF Same, Fields
  <2> QED
    BY <2>1, <2>2, FinishesInOrder
<1>3. CASE StartReduce(r)
  <2>1. ~proc[r].running /\ k <= Len(jobs) /\ jobs[k].kind = "reduce"
    BY <1>3 DEF StartReduce, ToStart, Job
  <2>2. k \in DOMAIN jobs
    BY <1>0, <2>1, CourseJoins DEF RankInOrder, CourseJoined
  <2>3. how.reduce \in Reducers
    BY <1>0, <2>2, JobTyped
  <2>4. /\ OnlyRank(r) /\ proc'[r].running = TRUE /\ proc'[r].next = k
        /\ proc'[r].issued = proc[r].issued \o ReduceOpsFor(UsedBy(r))
    BY <1>0, <1>3, <2>3, StartReduceDoes DEF Same
  <2>5. UsedBy(r) = UsedIn(jobs[k], r)
    BY DEF UsedBy
  <2>6. proc'[r].issued = proc[r].issued \o OpsFor(jobs[k], r)
    BY <2>1, <2>4, <2>5 DEF OpsFor
  <2> QED
    BY <2>1, <2>4, <2>6, StartsInOrder
<1>4. CASE FinishReduce(r)
  <2>1. Running(r) /\ Waited(r)
    BY <1>4 DEF FinishReduce
  <2>2. /\ OnlyRank(r) /\ proc'[r].running = FALSE /\ proc'[r].next = proc[r].next + 1
        /\ proc'[r].issued = proc[r].issued
    BY <1>0, <1>4, FinishReduceDoes DEF Same, Fields
  <2> QED
    BY <2>1, <2>2, FinishesInOrder
<1> QED
  BY <1>1, <1>2, <1>3, <1>4 DEF HostStep

\* The process group runs what every rank issued next.
LEMMA DeliverDoes ==
  ASSUME InOrder, Deliver
  PROVE  /\ jobs # <<>> /\ SoundGroup(group) /\ 0 \in Members
         /\ \A r \in Members : Len(proc[r].issued) > delivered
         /\ \E op \in OpSet :
              \A r \in Members :
                /\ proc[r].issued[delivered + 1] = op
                /\ proc'[r] = Ran(op, r)
                /\ Same(r, Fields \ {"full", "wire", "mem"})
         /\ delivered' = delivered + 1 /\ delivered \in Nat
         /\ UNCHANGED <<group, how, jobs, version>> /\ Shaped'
<1>1. jobs # <<>> /\ ProgramOK /\ Shaped
  BY DEF Deliver, InOrder
<1>2. SoundGroup(group) /\ 0 \in Members
  <2>1. SoundGroup(group)
    BY <1>1 DEF ProgramOK, GroupIsSound
  <2> QED
    BY <2>1, GroupTyped DEF Members
<1> DEFINE op == proc[0].issued[delivered + 1]
<1>3. /\ \A r \in Members : Len(proc[r].issued) > delivered
      /\ \A r \in Members : proc[r].issued[delivered + 1] = op
      /\ proc' = [r \in Members |-> Ran(op, r)]
      /\ delivered' = delivered + 1 /\ UNCHANGED <<group, how, jobs, version>>
  BY DEF Deliver
<1>4. delivered \in Nat
  BY <1>1 DEF ProgramOK
<1>5. op \in OpSet
  <2>1. RankInOrder(0)
    BY <1>2 DEF InOrder
  <2>2. proc[0].issued \in Seq(OpSet) /\ Len(proc[0].issued) \in Nat
    BY <1>1, <1>2, <2>1, RankNumbers
  <2>3. delivered + 1 \in 1 .. Len(proc[0].issued)
    BY <1>2, <1>3, <1>4, <2>2
  <2> DEFINE A == OpSet
             s == proc[0].issued
  <2> HIDE DEF A, s
  <2>4. s \in Seq(A) /\ delivered + 1 \in 1 .. Len(s)
    BY <2>2, <2>3 DEF A, s
  <2>5. s[delivered + 1] \in A
    BY <2>4
  <2> QED
    BY <2>5 DEF A, s
<1> HIDE DEF op
<1>6. op.kind \in OpKinds
  BY <1>5 DEF OpSet
<1>7. \A r \in Members : proc'[r] = Ran(op, r)
  BY <1>3
<1>8. \A r \in Members : DOMAIN Ran(op, r) = Fields /\ \A x \in Fields \ {"full", "wire", "mem"} : Ran(op, r)[x] = proc[r][x]
  BY <1>1, <1>6, RanKeeps
<1>9. \A r \in Members : Same(r, Fields \ {"full", "wire", "mem"})
  BY <1>7, <1>8 DEF Same
<1>10. Shaped'
  BY <1>3, <1>7, <1>8 DEF Shaped, Members
<1> QED
  BY <1>1, <1>2, <1>3, <1>4, <1>5, <1>7, <1>9, <1>10

\* Running a collective does.
LEMMA DeliversInOrder ==
  ASSUME InOrder, Deliver
  PROVE  InOrder'
<1>1. /\ jobs # <<>> /\ delivered' = delivered + 1 /\ delivered \in Nat
      /\ UNCHANGED <<group, how, jobs>> /\ Shaped'
      /\ \A r \in Members : Len(proc[r].issued) > delivered
  BY DeliverDoes
<1>2. \A r \in Members : Same(r, Fields \ {"full", "wire", "mem"})
  BY DeliverDoes
<1>3. ProgramOK /\ \A r \in Members : RankInOrder(r)
  BY DEF InOrder
<1>4. ProgramOK'
  BY <1>1, <1>3, ProgramStays
<1>5. ASSUME NEW r \in Members
      PROVE  RankInOrder(r)'
  <2>1. Same(r, {"next", "running", "issued"})
    BY <1>2 DEF Same, Fields
  <2>2. Len(proc[r].issued) \in Nat /\ Len(proc[r].issued) > delivered
    BY <1>1, <1>3, RankNumbers
  <2>3. delivered' \in Nat /\ delivered <= delivered' /\ delivered' <= Len(proc[r].issued)
    BY <1>1, <2>2
  <2> QED
    BY <1>1, <1>3, <2>1, <2>3, RankStays
<1> QED
  BY <1>1, <1>4, <1>5 DEF InOrder, Members

\* Limiting workspaces does.
LEMMA LimitsInOrder ==
  ASSUME InOrder, NEW r \in Members, NEW limit, LimitWorkspaces(r, limit)
  PROVE  InOrder' /\ OnlyRank(r)
<1>1. OnlyRank(r) /\ Same(r, {"next", "running", "issued"})
  BY LimitWorkspacesDoes DEF InOrder, Same, Fields
<1>2. UNCHANGED <<group, how, jobs, delivered>>
  BY <1>1 DEF OnlyRank
<1>3. RankInOrder(r)'
  BY <1>1, <1>2, RankStays DEF InOrder, ProgramOK, RankInOrder
<1> QED
  BY <1>1, <1>3, OneRankSteps

\* Before a program begins no rank has issued anything.
LEMMA IdleProgram ==
  ASSUME GroupIsSound', jobs' = <<>>, delivered' = 0
  PROVE  ProgramOK'
  BY DEF ProgramOK

\* Nothing is issued before the first exchange.
LEMMA CourseBegins ==
  ASSUME ProgramOK'
  PROVE  Course'[0] = <<>>
  BY CourseJoinsNext DEF CourseJoined, Joins

\* A rank at the start of a program is along its course.
LEMMA RankBegins ==
  ASSUME ProgramOK', delivered' = 0, NEW r,
         proc'[r].next = 1, proc'[r].running = FALSE, proc'[r].issued = <<>>
  PROVE  RankInOrder(r)'
<1>1. Course'[0] = <<>>
  BY CourseBegins
<1>2. Len(jobs') \in Nat
  BY CourseJoinsNext DEF CourseJoined
<1>3. 1 \in 1 .. Len(jobs') + 1 /\ 1 - 1 = 0 /\ Len(<<>>) = 0
  BY <1>2
<1>4. Begun(r)' = 0
  BY <1>3 DEF Begun
<1>5. Len(Course'[proc'[r].next - 1]) <= delivered' /\ delivered' <= Len(proc'[r].issued)
  BY <1>1, <1>3
<1>6. proc'[r].running \in BOOLEAN /\ ~proc'[r].running
  OBVIOUS
<1> QED
  BY <1>1, <1>3, <1>4, <1>5, <1>6 DEF RankInOrder

\* A fresh rank has its shard and nothing else.
LEMMA FreshIs ==
  ASSUME NEW g, NEW r, NEW v
  PROVE  LET p == Fresh(g, r, v)
         IN  /\ DOMAIN p = Fields
             /\ p.shard = LocalShard(g, Params(g, v), r)
             /\ p.full = <<>> /\ p.wire = <<>> /\ p.result = <<>> /\ p.cache = EmptyCache(1)
             /\ p.mem = <<>> /\ p.lease = <<>> /\ p.issued = <<>>
             /\ p.running = FALSE /\ p.next = 1
  BY DEF Fresh, Fields

\* A new group is in order.
LEMMA FreshInOrder ==
  ASSUME GroupIsSound', jobs' = <<>>, delivered' = 0, NEW v,
         proc' = [r \in Members' |-> Fresh(group', r, v)]
  PROVE  InOrder'
<1>1. ProgramOK'
  BY IdleProgram
<1>2. \A r \in Members' : proc'[r] = Fresh(group', r, v)
  OBVIOUS
<1>3. Shaped'
  BY <1>2, FreshIs DEF Shaped
<1>4. ASSUME NEW r \in Members'
      PROVE  RankInOrder(r)'
  BY <1>1, <1>2, RankBegins, FreshIs
<1> QED
  BY <1>1, <1>3, <1>4 DEF InOrder

\* A new program begins in order, since every rank is done with the old one.
LEMMA BeginsInOrder ==
  ASSUME InOrder, Begin
  PROVE  InOrder'
<1>1. /\ group # Nothing /\ jobs = <<>> /\ UNCHANGED <<group, proc, version>> /\ delivered' = 0
      /\ Members' = Members
  BY DEF Begin, Members
<1>2. PICK h \in Hows, work \in Works(group.n) :
       /\ \A k \in DOMAIN work : work[k].kind = "reduce" => SameProgram(h, work[k].used)
       /\ how' = h /\ jobs' = work
       /\ (\E k \in DOMAIN work : work[k].kind = "gather") => GatherKinds(group)' # {}
  BY DEF Begin
<1>3. ProgramOK /\ Shaped /\ \A r \in Members : RankInOrder(r)
  BY DEF InOrder
<1>4. group.n \in Counts /\ GroupIsSound'
  BY <1>1, <1>3 DEF ProgramOK, GroupIsSound, SoundGroup
<1>5. work \in Seq(JobsOn(group.n))
  BY <1>4, WorksAssumption
<1>6. ASSUME NEW k \in DOMAIN work
      PROVE  JobOK(work[k])'
  <2>1. work[k] \in JobsOn(group.n)
    <3> DEFINE A == JobsOn(group.n)
    <3> HIDE DEF A
    <3>1. work \in Seq(A)
      BY <1>5 DEF A
    <3>2. work[k] \in A
      BY <3>1
    <3> QED
      BY <3>2 DEF A
  <2>2. work[k].kind = "gather" => GatherKinds(group)' # {}
    BY <1>2
  <2>3. work[k].kind = "reduce" => work[k].used \in [Members -> Uses]
    BY <2>1 DEF JobsOn, Members
  <2>4. work[k].kind = "reduce" => SameProgram(how', work[k].used)
    BY <1>2
  <2>5. SameProgram(how, work[k].used)' = SameProgram(how', work[k].used)
    BY <1>1 DEF SameProgram
  <2> QED
    BY <1>1, <2>2, <2>3, <2>4, <2>5 DEF JobOK
<1>7. ProgramOK'
  <2>1. (\A k \in DOMAIN jobs : JobOK(jobs[k]))'
    BY <1>2, <1>6
  <2> QED
    BY <1>1, <1>2, <1>4, <1>5, <2>1 DEF ProgramOK
<1>8. ASSUME NEW r \in Members
      PROVE  RankInOrder(r)'
  <2>1. proc[r].next = 1 /\ proc[r].running = FALSE
    BY <1>1, <1>3 DEF RankInOrder
  <2>2. proc[r].issued = <<>>
    <3>1. Course[0] = <<>>
      BY <1>3, CourseRuns
    <3> QED
      BY <1>3, <2>1, <3>1 DEF RankInOrder, Begun
  <2> QED
    BY <1>1, <1>7, <2>1, <2>2, RankBegins
<1>9. Shaped'
  BY <1>1, <1>3 DEF Shaped
<1> QED
  BY <1>1, <1>7, <1>8, <1>9 DEF InOrder

\* A load gives the ranks other shards, and nothing else.
LEMMA LoadDoes ==
  ASSUME Shaped, NEW allowReshard \in BOOLEAN, Load(allowReshard)
  PROVE  /\ jobs = <<>> /\ UNCHANGED <<group, how, jobs, delivered>> /\ Members' = Members
         /\ Shaped' /\ \A r \in Members : Same(r, Fields \ {"shard"})
<1>1. /\ jobs = <<>> /\ UNCHANGED <<group, how, jobs, delivered>> /\ Members' = Members
      /\ LoadSameLayout \/ LoadResharded
  BY DEF Load, Members
<1>2. ASSUME NEW r \in Members, NEW v, proc'[r] = [proc[r] EXCEPT !.shard = v]
      PROVE  DOMAIN proc'[r] = Fields /\ Same(r, Fields \ {"shard"})
  BY <1>2 DEF Shaped, Fields, Same
<1>3. CASE LoadSameLayout
  <2>1. proc' = [r \in Members |-> [proc[r] EXCEPT !.shard = disk.payload[r].shard]]
    BY <1>3 DEF LoadSameLayout
  <2>2. \A r \in Members : proc'[r] = [proc[r] EXCEPT !.shard = disk.payload[r].shard]
    BY <2>1
  <2> QED
    BY <1>1, <1>2, <2>1, <2>2 DEF Shaped
<1>4. CASE LoadResharded
  <2> DEFINE full == InRankOrder([q \in RanksOf(disk.meta.n) |-> disk.payload[q].shard])
  <2>1. proc' = [r \in Members |-> [proc[r] EXCEPT !.shard = TargetShard(full, r)]]
    BY <1>4 DEF LoadResharded
  <2> HIDE DEF full
  <2>2. \A r \in Members : proc'[r] = [proc[r] EXCEPT !.shard = TargetShard(full, r)]
    BY <2>1
  <2> QED
    BY <1>1, <1>2, <2>1, <2>2 DEF Shaped
<1> QED
  BY <1>1, <1>3, <1>4

\* A load leaves fresh ranks.
LEMMA LoadsInOrder ==
  ASSUME InOrder, NEW allowReshard \in BOOLEAN, Load(allowReshard)
  PROVE  InOrder'
<1>1. ProgramOK /\ Shaped /\ \A r \in Members : RankInOrder(r)
  BY DEF InOrder
<1>2. /\ jobs = <<>> /\ UNCHANGED <<group, how, jobs, delivered>> /\ Members' = Members
      /\ Shaped' /\ \A r \in Members : Same(r, Fields \ {"shard"})
  BY <1>1, LoadDoes
<1>3. ProgramOK'
  BY <1>1, <1>2, ProgramStays DEF ProgramOK
<1>4. ASSUME NEW r \in Members
      PROVE  RankInOrder(r)'
  <2>1. Same(r, {"next", "running", "issued"})
    BY <1>2 DEF Same, Fields
  <2>2. delivered' \in Nat /\ delivered <= delivered' /\ delivered' <= Len(proc[r].issued)
    BY <1>1, <1>2 DEF ProgramOK, RankInOrder
  <2> QED
    BY <1>1, <1>2, <2>1, <2>2, RankStays
<1> QED
  BY <1>2, <1>3, <1>4 DEF InOrder

\* Steps of the checkpoint alone leave the exchanges in order.
LEMMA UnchangedInOrder ==
  ASSUME InOrder, UNCHANGED exchangeVars
  PROVE  InOrder'
<1>1. UNCHANGED <<group, how, jobs, proc, delivered>> /\ Members' = Members
  BY DEF exchangeVars, Members
<1>2. ProgramOK /\ Shaped /\ \A r \in Members : RankInOrder(r)
  BY DEF InOrder
<1>3. ProgramOK'
  BY <1>1, <1>2, ProgramStays DEF ProgramOK
<1>4. ASSUME NEW r \in Members
      PROVE  RankInOrder(r)'
  <2>1. Same(r, {"next", "running", "issued"})
    BY <1>1 DEF Same
  <2>2. delivered' \in Nat /\ delivered <= delivered' /\ delivered' <= Len(proc[r].issued)
    BY <1>1, <1>2 DEF ProgramOK, RankInOrder
  <2> QED
    BY <1>1, <1>2, <2>1, <2>2, RankStays
<1> QED
  BY <1>1, <1>2, <1>3, <1>4 DEF InOrder, Shaped

\* No job: no group, no ranks.
LEMMA NothingInOrder ==
  ASSUME group = Nothing, jobs = <<>>, proc = <<>>, delivered = 0
  PROVE  InOrder
<1>1. Members = {}
  BY DEF Members, Nothing, RanksOf
<1>2. ProgramOK
  BY DEF ProgramOK, GroupIsSound
<1>3. Shaped
  BY <1>1 DEF Shaped
<1> QED
  BY <1>1, <1>2, <1>3 DEF InOrder

\* Without a group, all is in order.
LEMMA NothingInOrderNext ==
  ASSUME group' = Nothing, jobs' = <<>>, proc' = <<>>, delivered' = 0
  PROVE  InOrder'
<1>1. Members' = {}
  BY DEF Members, Nothing, RanksOf
<1>2. ProgramOK'
  BY DEF ProgramOK, GroupIsSound
<1>3. Shaped'
  BY <1>1 DEF Shaped
<1> QED
  BY <1>1, <1>2, <1>3 DEF InOrder

\* Every step keeps the exchanges in order.
LEMMA StepsInOrder ==
  ASSUME InOrder, GroupIsSound', [CheckpointNext]_checkpointVars
  PROVE  InOrder'
<1>1. CASE Start
  <2>1. /\ group = Nothing /\ UNCHANGED <<how, jobs, delivered>>
        /\ proc' = [r \in Members' |-> Fresh(group', r, 0)]
    BY <1>1 DEF Start, FullyShard, Members
  <2>2. jobs = <<>> /\ delivered = 0
    BY <2>1 DEF InOrder, ProgramOK
  <2> QED
    BY <2>1, <2>2, FreshInOrder
<1>2. CASE Train
  <2>1. CASE Begin
    BY <2>1, BeginsInOrder
  <2>2. ASSUME NEW r \in Members, HostStep(r) PROVE InOrder'
    BY <2>2, HostStepsInOrder
  <2>3. CASE Deliver
    BY <2>3, DeliversInOrder
  <2>4. ASSUME NEW limit \in Limits, LimitWorkspaces(0, limit) PROVE InOrder'
    <3>1. jobs # <<>>
      BY <2>4 DEF LimitWorkspaces
    <3>2. SoundGroup(group)
      BY <3>1 DEF InOrder, ProgramOK, GroupIsSound
    <3>3. 0 \in Members
      BY <3>2, GroupTyped DEF Members
    <3> QED
      BY <2>4, <3>3, LimitsInOrder
  <2> QED
    BY <1>2, <2>1, <2>2, <2>3, <2>4 DEF Train
<1>3. CASE Step
  <2>1. /\ group' = group /\ jobs' = <<>> /\ delivered' = 0 /\ Members' = Members
        /\ proc' = [r \in Members |-> Fresh(group, r, version + 1)]
    BY <1>3 DEF Step, End, Members
  <2> DEFINE v == version + 1
  <2> HIDE DEF v
  <2>2. proc' = [r \in Members' |-> Fresh(group', r, v)]
    BY <2>1 DEF v
  <2>3. GroupIsSound'
    OBVIOUS
  <2> QED
    BY <2>1, <2>2, <2>3, FreshInOrder
<1>4. CASE SaveMetadata \/ (\E r \in Members : SavePayload(r)) \/ Publish
  BY <1>4, UnchangedInOrder DEF SaveMetadata, SavePayload, Publish, exchangeVars
<1>5. CASE \E allowReshard \in BOOLEAN : Load(allowReshard)
  BY <1>5, LoadsInOrder
<1>6. CASE Crash
  BY <1>6, NothingInOrderNext DEF Crash
<1>7. CASE UNCHANGED checkpointVars
  BY <1>7, UnchangedInOrder DEF checkpointVars, exchangeVars
<1> QED
  BY <1>1, <1>2, <1>3, <1>4, <1>5, <1>6, <1>7 DEF CheckpointNext

\* Ranks go through the exchanges of their program along one course.
LEMMA ProgramsInOrder == CheckpointSpec /\ []GroupIsSound => []InOrder
<1>1. CheckpointInit => InOrder
  BY NothingInOrder DEF CheckpointInit, ExchangeInit
<1>2. InOrder /\ GroupIsSound' /\ [CheckpointNext]_checkpointVars => InOrder'
  BY StepsInOrder
<1> QED
  BY <1>1, <1>2, PTL DEF CheckpointSpec

\* Two places along one course agree as far as the nearer.
LEMMA InOrderIssuesTheSame ==
  ASSUME InOrder
  PROVE  RanksIssueTheSameCollectives
<1> SUFFICES ASSUME NEW q \in Members, NEW r \in Members,
                    NEW k \in DOMAIN proc[q].issued \cap DOMAIN proc[r].issued
             PROVE  proc[q].issued[k] = proc[r].issued[k]
  BY DEF RanksIssueTheSameCollectives
<1>1. ProgramOK /\ RankInOrder(q) /\ RankInOrder(r)
  BY DEF InOrder
<1>2. /\ proc[q].issued = Course[Begun(q)] /\ Begun(q) \in 0 .. Len(jobs)
      /\ proc[r].issued = Course[Begun(r)] /\ Begun(r) \in 0 .. Len(jobs)
      /\ Len(jobs) \in Nat
      /\ proc[q].issued \in Seq(OpSet) /\ proc[r].issued \in Seq(OpSet)
  BY <1>1, RankNumbers DEF RankInOrder
<1>3. k \in 1 .. Len(Course[Begun(q)]) /\ k \in 1 .. Len(Course[Begun(r)])
  BY <1>2
<1> DEFINE a == Begun(q)
           b == Begun(r)
<1>4. a <= b \/ b <= a
  BY <1>2
<1> HIDE DEF a, b
<1>5. Course[a][k] = Course[b][k]
  BY <1>1, <1>2, <1>3, <1>4, CourseRuns DEF a, b
<1> QED
  BY <1>2, <1>5 DEF a, b

\* RanksIssueTheSameCollectives: whatever strategy, backend and layout, whichever
\* parameters the ranks' backwards used, the collectives two ranks have issued
\* are the same as far as both have come (start_all_gather_full_params,
\* start_reduce_grad_bucket_to_local_shard and the per-parameter reduces).
THEOREM RanksAgreeOnCollectives ==
  CheckpointSpec /\ []GroupIsSound => []RanksIssueTheSameCollectives
<1>1. InOrder => RanksIssueTheSameCollectives
  BY InOrderIssuesTheSame
<1> QED
  BY <1>1, ProgramsInOrder, PTL

\* The rank furthest behind can go on, or the process group can.
LEMMA InOrderNoneWaits ==
  ASSUME InOrder
  PROVE  NoRankWaitsForever
<1> SUFFICES ASSUME jobs # <<>>,
                    ~(\A r \in Members : ~proc[r].running /\ proc[r].next > Len(jobs)),
                    \A r \in Members : ~(~proc[r].running /\ proc[r].next <= Len(jobs)),
                    \A r \in Members : ~(proc[r].running /\ Waited(r))
             PROVE  \A r \in Members : /\ Len(proc[r].issued) > delivered
                                       /\ proc[r].issued[delivered + 1] = proc[0].issued[delivered + 1]
  BY DEF NoRankWaitsForever
<1>1. ProgramOK /\ delivered \in Nat /\ 0 \in Members /\ \A r \in Members : RankInOrder(r)
  <2>1. SoundGroup(group)
    BY DEF InOrder, ProgramOK, GroupIsSound
  <2> QED
    BY <2>1, GroupTyped DEF InOrder, ProgramOK, Members
<1>2. ASSUME NEW r \in Members
      PROVE  \/ ~proc[r].running /\ proc[r].next = Len(jobs) + 1
             \/ proc[r].running /\ Len(proc[r].issued) > delivered
  <2>1. /\ proc[r].next \in 1 .. Len(jobs) + 1 /\ Len(jobs) \in Nat /\ proc[r].running \in BOOLEAN
        /\ Len(proc[r].issued) \in Nat
    BY <1>1, RankNumbers DEF RankInOrder
  <2>2. CASE proc[r].running
    BY <1>1, <2>1, <2>2 DEF Waited
  <2>3. CASE ~proc[r].running
    BY <2>1, <2>3
  <2> QED
    BY <2>2, <2>3
<1>3. PICK q \in Members : proc[q].running \/ ~(proc[q].next > Len(jobs))
  OBVIOUS
<1>4. proc[q].running /\ Len(proc[q].issued) > delivered
  <2>1. Len(jobs) \in Nat
    BY <1>1, CourseJoins DEF CourseJoined
  <2> QED
    BY <1>2, <1>3, <2>1
<1>5. ASSUME NEW r \in Members
      PROVE  Len(proc[r].issued) > delivered
  <2> SUFFICES ASSUME ~proc[r].running, proc[r].next = Len(jobs) + 1 PROVE FALSE
    BY <1>2
  <2>1. Len(Course[(Len(jobs) + 1) - 1]) <= delivered
    BY <1>1 DEF RankInOrder
  <2>2. /\ Len(jobs) \in Nat /\ Begun(q) \in 0 .. Len(jobs) /\ proc[q].issued = Course[Begun(q)]
    BY <1>1, RankNumbers DEF RankInOrder
  <2>3. (Len(jobs) + 1) - 1 = Len(jobs) /\ Begun(q) <= Len(jobs) /\ Len(jobs) \in 0 .. Len(jobs)
    BY <2>2
  <2>4. Len(Course[Begun(q)]) <= Len(Course[Len(jobs)])
    BY <1>1, <2>2, <2>3, CourseRuns
  <2>5. Len(Course[Begun(q)]) \in Nat /\ Len(Course[Len(jobs)]) \in Nat
    BY <1>1, <2>2, <2>3, CourseRuns
  <2> QED
    BY <1>1, <1>4, <2>1, <2>2, <2>3, <2>4, <2>5
<1>6. ASSUME NEW r \in Members
      PROVE  proc[r].issued[delivered + 1] = proc[0].issued[delivered + 1]
  <2>1. RanksIssueTheSameCollectives
    BY InOrderIssuesTheSame
  <2>2. /\ proc[r].issued \in Seq(OpSet) /\ Len(proc[r].issued) > delivered
        /\ proc[0].issued \in Seq(OpSet) /\ Len(proc[0].issued) > delivered
    BY <1>1, <1>5, RankNumbers
  <2>3. delivered + 1 \in DOMAIN proc[r].issued \cap DOMAIN proc[0].issued
    BY <1>1, <2>2
  <2> QED
    BY <1>1, <2>1, <2>3 DEF RanksIssueTheSameCollectives
<1> QED
  BY <1>5, <1>6

\* NoRankWaitsForever: until every rank has finished the program, one of them
\* can start or finish an exchange or the process group can run a collective.
THEOREM ExchangesCannotDeadlock ==
  CheckpointSpec /\ []GroupIsSound => []NoRankWaitsForever
<1>1. InOrder => NoRankWaitsForever
  BY InOrderNoneWaits
<1> QED
  BY <1>1, ProgramsInOrder, PTL

-----------------------------------------------------------------------------
(* Workspaces *)


\* The two definitions of finite sets and of their sizes agree.
LEMMA SameNotions ==
  \A S : (IsFiniteSet(S) <=> Finite!IsFiniteSet(S)) /\ Cardinality(S) = Finite!Cardinality(S)
<1>1. \A S : IsFiniteSet(S) <=> Finite!IsFiniteSet(S)
  BY DEF IsFiniteSet, Finite!IsFiniteSet
<1>2. \A S : Cardinality(S) = Finite!Cardinality(S)
  BY DEF Cardinality, Finite!Cardinality
<1> QED
  BY <1>1, <1>2

\* Facts about finite sets, in the definitions the model uses.
LEMMA FiniteFacts ==
  /\ \A x : IsFiniteSet({x})
  /\ \A S, T : IsFiniteSet(S) /\ IsFiniteSet(T) => IsFiniteSet(S \cup T)
  /\ \A S, T : IsFiniteSet(S) /\ T \in SUBSET S => Cardinality(T) <= Cardinality(S)
  /\ \A S : IsFiniteSet(S) => Cardinality(S) \in Nat
  /\ \A n \in Nat : IsFiniteSet(1 .. n) /\ Cardinality(1 .. n) = n
<1>1. \A x : Finite!IsFiniteSet({x})
  BY Finite!FS_Singleton
<1>2. \A S, T : Finite!IsFiniteSet(S) /\ Finite!IsFiniteSet(T) => Finite!IsFiniteSet(S \cup T)
  BY Finite!FS_Union
<1>3. \A S, T : Finite!IsFiniteSet(S) /\ T \in SUBSET S => Finite!Cardinality(T) <= Finite!Cardinality(S)
  BY Finite!FS_Subset
<1>4. \A S : Finite!IsFiniteSet(S) => Finite!Cardinality(S) \in Nat
  BY Finite!FS_CardinalityType
<1>5. ASSUME NEW n \in Nat
      PROVE  Finite!IsFiniteSet(1 .. n) /\ Finite!Cardinality(1 .. n) = n
  <2>1. 1 \in Int /\ n \in Int
    OBVIOUS
  <2>2. Finite!IsFiniteSet(1 .. n) /\ Finite!Cardinality(1 .. n) = IF 1 > n THEN 0 ELSE n - 1 + 1
    BY <2>1, Finite!FS_Interval
  <2> QED
    BY <2>2
<1> QED
  BY <1>1, <1>2, <1>3, <1>4, <1>5, SameNotions

\* The keys of a cache: how the workspace is used, and its size.
Keys == {"compact", "any"} \X Nat

\* A workspace of the list.
Entry == [tensor : Nat, key : Keys, busy : BOOLEAN]
\* A workspace kept under its key.
KeptEntry == [tensor : Nat, busy : BOOLEAN]

\* The tensors of the shared entries are each other's and none of the kept.
CacheOK(cache) ==
  /\ DOMAIN cache = {"entries", "kept", "limit"}
  /\ cache.entries \in Seq(Entry)
  /\ cache.kept \in [DOMAIN cache.kept -> KeptEntry]
  /\ DOMAIN cache.kept \subseteq Keys
  /\ IsFiniteSet(DOMAIN cache.kept)
  /\ cache.limit \in Nat
  /\ \A i, j \in DOMAIN cache.entries : cache.entries[i].tensor = cache.entries[j].tensor => i = j

\* No workspace is in use.
Free(cache) ==
  /\ \A i \in DOMAIN cache.entries : ~cache.entries[i].busy
  /\ \A key \in DOMAIN cache.kept : ~cache.kept[key].busy

\* The workspace in use is the one of the lease.
HeldBy(cache, lease) ==
  IF lease.kept
  THEN /\ lease.key \in DOMAIN cache.kept /\ cache.kept[lease.key].tensor = lease.tensor
       /\ \A key \in DOMAIN cache.kept : cache.kept[key].busy <=> key = lease.key
       /\ \A i \in DOMAIN cache.entries : ~cache.entries[i].busy
  ELSE /\ \E i \in DOMAIN cache.entries : cache.entries[i].tensor = lease.tensor
       /\ \A i \in DOMAIN cache.entries : cache.entries[i].busy <=> cache.entries[i].tensor = lease.tensor
       /\ \A key \in DOMAIN cache.kept : ~cache.kept[key].busy

\* A subset of a finite set is finite.
LEMMA SubsetFinite ==
  \A S, T : IsFiniteSet(S) /\ T \in SUBSET S => IsFiniteSet(T)
<1>1. \A S, T : Finite!IsFiniteSet(S) /\ T \in SUBSET S => Finite!IsFiniteSet(T)
  BY Finite!FS_Subset
<1> QED
  BY <1>1, SameNotions

\* The values of a function on a finite set are finitely many.
LEMMA FiniteValues ==
  ASSUME NEW f, IsFiniteSet(DOMAIN f)
  PROVE  IsFiniteSet({f[x] : x \in DOMAIN f})
<1> DEFINE T == {f[x] : x \in DOMAIN f}
           g == [x \in DOMAIN f |-> f[x]]
<1>1. g \in Finite!Surjection(DOMAIN f, T)
  BY DEF Finite!Surjection
<1>2. Finite!IsFiniteSet(DOMAIN f)
  BY SameNotions
<1> HIDE DEF g, T
<1>3. Finite!IsFiniteSet(T)
  BY <1>1, <1>2, Finite!FS_Surjection
<1> QED
  BY <1>3, SameNotions DEF T

\* There is always a tensor that no workspace of the cache is made of.
LEMMA NewTensor ==
  ASSUME NEW cache, CacheOK(cache)
  PROVE  /\ Cardinality(Tensors(cache)) \in Nat
         /\ \E t \in 1 .. Cardinality(Tensors(cache)) + 1 : t \notin Tensors(cache)
<1> DEFINE T == Tensors(cache)
           e == [i \in DOMAIN cache.entries |-> cache.entries[i].tensor]
           k == [key \in DOMAIN cache.kept |-> cache.kept[key].tensor]
<1>1. IsFiniteSet(DOMAIN e) /\ IsFiniteSet(DOMAIN k)
  <2>1. Len(cache.entries) \in Nat /\ DOMAIN cache.entries = 1 .. Len(cache.entries)
    BY DEF CacheOK
  <2>2. IsFiniteSet(DOMAIN cache.entries)
    BY <2>1, FiniteFacts
  <2> QED
    BY <2>2 DEF CacheOK
<1>2. T = {e[i] : i \in DOMAIN e} \cup {k[key] : key \in DOMAIN k}
  BY DEF Tensors
<1> HIDE DEF e, k, T
<1>3. IsFiniteSet({e[i] : i \in DOMAIN e}) /\ IsFiniteSet({k[key] : key \in DOMAIN k})
  BY <1>1, FiniteValues
<1>4. IsFiniteSet(T)
  BY <1>2, <1>3, FiniteFacts
<1>5. Cardinality(T) \in Nat
  BY <1>4, FiniteFacts
<1>6. ASSUME 1 .. Cardinality(T) + 1 \subseteq T PROVE FALSE
  <2>1. Cardinality(1 .. Cardinality(T) + 1) <= Cardinality(T)
    BY <1>4, <1>6, FiniteFacts
  <2>2. Cardinality(1 .. Cardinality(T) + 1) = Cardinality(T) + 1
    <3>1. Cardinality(T) + 1 \in Nat
      BY <1>5
    <3> QED
      BY <3>1, FiniteFacts
  <2> QED
    BY <1>5, <2>1, <2>2
<1>7. \E t \in 1 .. Cardinality(T) + 1 : t \notin T
  BY <1>6
<1> QED
  BY <1>5, <1>7 DEF T

\* The workspaces of a cache.
LEMMA EntriesTyped ==
  ASSUME NEW cache, CacheOK(cache)
  PROVE  /\ Len(cache.entries) \in Nat /\ DOMAIN cache.entries = 1 .. Len(cache.entries)
         /\ \A i \in DOMAIN cache.entries : cache.entries[i] \in Entry
<1> DEFINE A == Entry
<1>1. cache.entries \in Seq(A)
  BY DEF CacheOK
<1> HIDE DEF A
<1>2. /\ Len(cache.entries) \in Nat /\ DOMAIN cache.entries = 1 .. Len(cache.entries)
      /\ \A i \in DOMAIN cache.entries : cache.entries[i] \in A
  BY <1>1
<1> QED
  BY <1>2 DEF A

\* The first of some places is one of them.
LEMMA FirstIs ==
  ASSUME NEW P \in SUBSET Nat, P # {}
  PROVE  First(P) \in P
  BY LeastNumber DEF First

\* The three ways an operation changes a cache.
Marking(cache, i, b) == [cache EXCEPT !.entries[i].busy = b]
\* The cache with those of its workspaces at the places in P.
Choosing(cache, P) == [cache EXCEPT !.entries = Selected(cache.entries, P)]
\* The cache with one more workspace kept.
Keeping(cache, key, tensor) ==
  [cache EXCEPT !.kept = With(cache.kept, key, [tensor |-> tensor, busy |-> TRUE])]

\* What they leave alone.
Marks(cache, i, b, marked) ==
  /\ CacheOK(marked)
  /\ marked.kept = cache.kept
  /\ marked.limit = cache.limit
  /\ DOMAIN marked.entries = DOMAIN cache.entries
  /\ \A j \in DOMAIN cache.entries :
       /\ marked.entries[j].tensor = cache.entries[j].tensor
       /\ marked.entries[j].key = cache.entries[j].key
       /\ marked.entries[j].busy = IF j = i THEN b ELSE cache.entries[j].busy

\* What is true of the cache with the workspaces at the places in P.
Chooses(cache, P, some) ==
  /\ CacheOK(some)
  /\ some.kept = cache.kept
  /\ some.limit = cache.limit
  /\ \A j \in DOMAIN some.entries : \E i \in DOMAIN cache.entries :
       i \in P /\ some.entries[j] = cache.entries[i]
  /\ \A i \in DOMAIN cache.entries : i \in P =>
       \E j \in DOMAIN some.entries : some.entries[j] = cache.entries[i]

\* What is true of the cache with one more workspace kept.
Keeps(cache, key, tensor, kept) ==
  /\ CacheOK(kept)
  /\ kept.entries = cache.entries
  /\ DOMAIN kept.kept = DOMAIN cache.kept \cup {key}
  /\ kept.kept[key].tensor = tensor /\ kept.kept[key].busy = TRUE
  /\ \A x \in DOMAIN cache.kept : x # key => kept.kept[x] = cache.kept[x]

\* Marking an entry.
LEMMA MarkedEntry ==
  ASSUME NEW cache, CacheOK(cache), NEW i \in DOMAIN cache.entries, NEW b \in BOOLEAN
  PROVE  Marks(cache, i, b, Marking(cache, i, b))
<1> DEFINE s == cache.entries
           x == [s[i] EXCEPT !.busy = b]
           t == [s EXCEPT ![i] = x]
           marked == Marking(cache, i, b)
<1>1. /\ Len(s) \in Nat /\ DOMAIN s = 1 .. Len(s)
      /\ \A j \in DOMAIN s : s[j] \in Entry
  BY EntriesTyped
<1>2. x \in Entry /\ x.tensor = s[i].tensor /\ x.key = s[i].key /\ x.busy = b
  BY <1>1 DEF Entry
<1>3. DOMAIN cache = {"entries", "kept", "limit"}
  BY DEF CacheOK
<1>4. /\ DOMAIN marked = {"entries", "kept", "limit"}
      /\ marked.entries = t /\ marked.kept = cache.kept /\ marked.limit = cache.limit
  BY <1>3 DEF Marking
<1> HIDE DEF x, marked
<1>5. \A j \in DOMAIN s : t[j] = IF j = i THEN x ELSE s[j]
  OBVIOUS
<1>6. DOMAIN t = DOMAIN s
  OBVIOUS
<1> HIDE DEF t
<1>7. \A j \in DOMAIN s : t[j] \in Entry
  BY <1>1, <1>2, <1>5
<1>8. t \in Seq(Entry)
  <2> DEFINE A == Entry
  <2>1. t = [j \in 1 .. Len(s) |-> t[j]]
    BY <1>1, <1>5, <1>6 DEF t
  <2> HIDE DEF A
  <2>2. \A j \in 1 .. Len(s) : t[j] \in A
    BY <1>1, <1>7 DEF A
  <2>3. t \in Seq(A)
    BY <1>1, <2>1, <2>2
  <2> QED
    BY <2>3 DEF A
<1>9. \A j \in DOMAIN s : t[j].tensor = s[j].tensor /\ t[j].key = s[j].key
                           /\ t[j].busy = IF j = i THEN b ELSE s[j].busy
  BY <1>2, <1>5
<1>10. \A j, k \in DOMAIN t : t[j].tensor = t[k].tensor => j = k
  BY <1>6, <1>9 DEF CacheOK
<1>11. CacheOK(marked)
  <2> HIDE DEF t
  <2>1. DOMAIN cache.kept \subseteq Keys /\ cache.kept \in [DOMAIN cache.kept -> KeptEntry]
        /\ IsFiniteSet(DOMAIN cache.kept) /\ cache.limit \in Nat
    BY DEF CacheOK
  <2> QED
    BY <1>4, <1>8, <1>10, <2>1 DEF CacheOK
<1> QED
  BY <1>4, <1>6, <1>9, <1>11 DEF Marks, marked

\* Keeping the entries at some places.
LEMMA SelectedEntries ==
  ASSUME NEW cache, CacheOK(cache), NEW P
  PROVE  Chooses(cache, P, Choosing(cache, P))
<1> DEFINE s == cache.entries
           t == Selected(s, P)
           A == Entry
           some == Choosing(cache, P)
<1>1. s \in Seq(A) /\ Len(s) \in Nat /\ DOMAIN s = 1 .. Len(s)
  BY EntriesTyped DEF CacheOK
<1> HIDE DEF A
<1>2. t \in Seq(A) /\ \E at : Picks(t, s, P, at)
  BY <1>1, SelectedPicks
<1>3. PICK at : Picks(t, s, P, at)
  BY <1>2
<1>4. Len(t) \in Nat /\ DOMAIN t = 1 .. Len(t)
  BY <1>2
<1>5. DOMAIN cache = {"entries", "kept", "limit"}
  BY DEF CacheOK
<1> HIDE DEF t
<1>6. /\ DOMAIN some = {"entries", "kept", "limit"}
      /\ some.entries = t /\ some.kept = cache.kept /\ some.limit = cache.limit
  BY <1>5 DEF Choosing, t
<1> HIDE DEF some
<1>7. \A j \in DOMAIN t : at[j] \in DOMAIN s /\ at[j] \in P /\ t[j] = s[at[j]]
  BY <1>1, <1>3, <1>4 DEF Picks
<1>8. \A i \in DOMAIN s : i \in P => \E j \in DOMAIN t : t[j] = s[i]
  BY <1>1, <1>3, <1>4, <1>7 DEF Picks
<1>9. ASSUME NEW j \in DOMAIN t, NEW k \in DOMAIN t, t[j].tensor = t[k].tensor
      PROVE  j = k
  <2>1. at[j] = at[k]
    BY <1>7, <1>9 DEF CacheOK
  <2>2. ~(j < k) /\ ~(k < j)
    <3>1. \A a, b \in 1 .. Len(t) : a < b => at[a] < at[b]
      BY <1>3 DEF Picks
    <3>2. at[j] \in Nat /\ at[k] \in Nat
      BY <1>1, <1>7
    <3> QED
      BY <1>4, <2>1, <3>1, <3>2
  <2> QED
    BY <1>4, <2>2
<1>10. CacheOK(some)
  BY <1>2, <1>6, <1>9 DEF CacheOK, A
<1> QED
  BY <1>6, <1>7, <1>8, <1>10 DEF Chooses, some

\* Changing what the cache keeps for a key.
LEMMA KeptWith ==
  ASSUME NEW cache, CacheOK(cache), NEW key \in Keys, NEW tensor \in Nat
  PROVE  Keeps(cache, key, tensor, Keeping(cache, key, tensor))
<1> DEFINE v == [tensor |-> tensor, busy |-> TRUE]
           f == With(cache.kept, key, v)
           kept == Keeping(cache, key, tensor)
<1>1. v \in KeptEntry /\ v.tensor = tensor /\ v.busy = TRUE
  BY DEF KeptEntry
<1> HIDE DEF v
<1>2. /\ DOMAIN f = DOMAIN cache.kept \cup {key}
      /\ f = [x \in DOMAIN f |-> f[x]]
      /\ f[key] = v
      /\ \A x \in DOMAIN cache.kept : x # key => f[x] = cache.kept[x]
  BY DEF With
<1> HIDE DEF f
<1>3. \A x \in DOMAIN f : f[x] \in KeptEntry
  BY <1>1, <1>2 DEF CacheOK
<1>4. f \in [DOMAIN f -> KeptEntry]
  BY <1>2, <1>3
<1>5. IsFiniteSet(DOMAIN f)
  <2>1. IsFiniteSet({key})
    BY FiniteFacts
  <2> QED
    BY <1>2, <2>1, FiniteFacts DEF CacheOK
<1>6. /\ DOMAIN kept = {"entries", "kept", "limit"}
      /\ kept.entries = cache.entries /\ kept.kept = f /\ kept.limit = cache.limit
  BY DEF CacheOK, Keeping, f, v
<1> HIDE DEF kept
<1>7. CacheOK(kept)
  BY <1>2, <1>4, <1>5, <1>6 DEF CacheOK
<1> QED
  BY <1>1, <1>2, <1>6, <1>7 DEF Keeps, kept

\* What an acquire gives is in use, and nothing else is.
LEMMA AcquiresShared ==
  ASSUME NEW cache, CacheOK(cache), Free(cache), NEW key \in Keys, NEW new \in Nat,
         new \notin Tensors(cache)
  PROVE  LET got == AcquireShared(cache, key, new)
         IN  CacheOK(got.cache) /\ HeldBy(got.cache, got.lease)
<1> DEFINE s == cache.entries
           got == AcquireShared(cache, key, new)
<1>1. /\ Len(s) \in Nat /\ DOMAIN s = 1 .. Len(s) /\ \A j \in DOMAIN s : s[j] \in Entry
  BY EntriesTyped
<1>2. CASE Idle(cache, key) # {}
  <2> DEFINE i == First(Idle(cache, key))
             marked == [cache EXCEPT !.entries[i].busy = TRUE]
             lease == [tensor |-> s[i].tensor, key |-> key, kept |-> FALSE]
  <2>1. Idle(cache, key) \in SUBSET Nat /\ Idle(cache, key) \subseteq DOMAIN s
    BY <1>1 DEF Idle
  <2>2. i \in DOMAIN s
    BY <1>2, <2>1, FirstIs
  <2>3. got = [cache |-> marked, lease |-> lease]
    BY <1>2 DEF AcquireShared
  <2> HIDE DEF i
  <2>4. /\ CacheOK(marked)
        /\ marked.kept = cache.kept
        /\ DOMAIN marked.entries = DOMAIN s
        /\ \A j \in DOMAIN s :
             /\ marked.entries[j].tensor = s[j].tensor
             /\ marked.entries[j].busy = IF j = i THEN TRUE ELSE s[j].busy
    <3>1. Marks(cache, i, TRUE, marked)
      BY <2>2, MarkedEntry DEF Marking
    <3> HIDE DEF marked
    <3> QED
      BY <3>1 DEF Marks
  <2> HIDE DEF marked
  <2>5. ASSUME NEW j \in DOMAIN s
        PROVE  marked.entries[j].busy <=> marked.entries[j].tensor = s[i].tensor
    <3>1. j = i <=> s[j].tensor = s[i].tensor
      BY <2>2 DEF CacheOK
    <3>2. ~s[j].busy
      BY DEF Free
    <3> QED
      BY <2>4, <3>1, <3>2
  <2>6. \A k \in DOMAIN marked.kept : ~marked.kept[k].busy
    BY <2>4 DEF Free
  <2>7. marked.entries[i].tensor = s[i].tensor
    BY <2>2, <2>4
  <2>8. lease.kept = FALSE /\ lease.tensor = s[i].tensor
    OBVIOUS
  <2> HIDE DEF lease
  <2>9. HeldBy(marked, lease)
    BY <2>2, <2>4, <2>5, <2>6, <2>7, <2>8 DEF HeldBy
  <2> QED
    BY <2>3, <2>4, <2>9
<1>3. CASE Idle(cache, key) = {}
  <2> DEFINE x == [tensor |-> new, key |-> key, busy |-> TRUE]
             t == Append(s, x)
             more == [cache EXCEPT !.entries = t]
             lease == [tensor |-> new, key |-> key, kept |-> FALSE]
             n == Len(s) + 1
  <2>1. got = [cache |-> more, lease |-> lease]
    BY <1>3 DEF AcquireShared
  <2>2. x \in Entry /\ x.tensor = new /\ x.busy = TRUE
    BY DEF Entry
  <2> HIDE DEF x
  <2>3. /\ t \in Seq(Entry) /\ DOMAIN t = 1 .. n /\ t[n] = x
        /\ \A j \in 1 .. n : j # n => j \in DOMAIN s /\ t[j] = s[j]
    <3> DEFINE A == Entry
    <3>1. s \in Seq(A)
      BY DEF CacheOK
    <3> HIDE DEF A
    <3>2. x \in A
      BY <2>2 DEF A
    <3>3. t \in Seq(A) /\ Len(t) = Len(s) + 1 /\ t[Len(s) + 1] = x /\ \A j \in 1 .. Len(s) : t[j] = s[j]
      BY <3>1, <3>2
    <3>4. DOMAIN t = 1 .. n
      BY <1>1, <3>3
    <3>5. \A j \in 1 .. n : j # n => j \in 1 .. Len(s)
      BY <1>1
    <3> QED
      BY <1>1, <3>3, <3>4, <3>5 DEF A
  <2>4. n \in DOMAIN t
    BY <1>1, <2>3
  <2>5. /\ DOMAIN more = {"entries", "kept", "limit"}
        /\ more.entries = t /\ more.kept = cache.kept /\ more.limit = cache.limit
    BY DEF CacheOK
  <2> HIDE DEF more, t, n
  <2>6. \A j \in DOMAIN t : j # n => t[j].tensor # new /\ ~t[j].busy
    BY <2>3 DEF Tensors, Free
  <2>7. ASSUME NEW j \in DOMAIN t, NEW k \in DOMAIN t, t[j].tensor = t[k].tensor
        PROVE  j = k
    <3>1. CASE j = n \/ k = n
      BY <2>2, <2>3, <2>6, <2>7, <3>1
    <3>2. CASE j # n /\ k # n
      <4>1. j \in DOMAIN s /\ k \in DOMAIN s /\ s[j].tensor = s[k].tensor
        BY <2>3, <2>7, <3>2
      <4> QED
        BY <4>1 DEF CacheOK
    <3> QED
      BY <3>1, <3>2
  <2>8. CacheOK(more)
    BY <2>3, <2>5, <2>7 DEF CacheOK
  <2>9. \A j \in DOMAIN t : t[j].busy <=> t[j].tensor = new
    BY <2>2, <2>3, <2>6
  <2>10. \A k \in DOMAIN more.kept : ~more.kept[k].busy
    BY <2>5 DEF Free
  <2>11. lease.kept = FALSE /\ lease.tensor = new
    OBVIOUS
  <2>12. t[n].tensor = new
    BY <2>2, <2>3
  <2> HIDE DEF lease
  <2>13. HeldBy(more, lease)
    BY <2>4, <2>5, <2>9, <2>10, <2>11, <2>12 DEF HeldBy
  <2> QED
    BY <2>1, <2>8, <2>13
<1> QED
  BY <1>2, <1>3

\* A workspace acquired under its key is in use, and the only one.
LEMMA AcquiresKept ==
  ASSUME NEW cache, CacheOK(cache), Free(cache), NEW key \in Keys, NEW new \in Nat,
         new \notin Tensors(cache)
  PROVE  LET got == AcquireKept(cache, key, new)
         IN  CacheOK(got.cache) /\ HeldBy(got.cache, got.lease)
<1> DEFINE got == AcquireKept(cache, key, new)
           tensor == IF key \in DOMAIN cache.kept THEN cache.kept[key].tensor ELSE new
           kept == [cache EXCEPT !.kept = With(cache.kept, key, [tensor |-> tensor, busy |-> TRUE])]
           lease == [tensor |-> tensor, key |-> key, kept |-> TRUE]
<1>1. got = [cache |-> kept, lease |-> lease]
  BY DEF AcquireKept, Free
<1>2. tensor \in Nat
  <2>1. CASE key \in DOMAIN cache.kept
    <3>1. cache.kept[key] \in KeptEntry
      BY <2>1 DEF CacheOK
    <3> QED
      BY <2>1, <3>1 DEF KeptEntry
  <2>2. CASE key \notin DOMAIN cache.kept
    BY <2>2
  <2> QED
    BY <2>1, <2>2
<1> HIDE DEF tensor
<1>30. Keeps(cache, key, tensor, kept)
  BY <1>2, KeptWith DEF Keeping
<1> HIDE DEF kept
<1>3. /\ CacheOK(kept)
      /\ kept.entries = cache.entries
      /\ DOMAIN kept.kept = DOMAIN cache.kept \cup {key}
      /\ kept.kept[key].tensor = tensor /\ kept.kept[key].busy = TRUE
      /\ \A x \in DOMAIN cache.kept : x # key => kept.kept[x] = cache.kept[x]
  BY <1>30 DEF Keeps
<1>4. lease.kept = TRUE /\ lease.key = key /\ lease.tensor = tensor
  OBVIOUS
<1> HIDE DEF lease
<1>5. \A x \in DOMAIN kept.kept : kept.kept[x].busy <=> x = key
  BY <1>3 DEF Free
<1>6. \A i \in DOMAIN kept.entries : ~kept.entries[i].busy
  BY <1>3 DEF Free
<1>7. HeldBy(kept, lease)
  BY <1>3, <1>4, <1>5, <1>6 DEF HeldBy
<1> QED
  BY <1>1, <1>3, <1>7

\* A trimmed cache has lost idle workspaces only.
TrimsIdle(cache, trimmed) ==
  /\ CacheOK(trimmed)
  /\ trimmed.kept = cache.kept
  /\ trimmed.limit = cache.limit
  /\ \A j \in DOMAIN trimmed.entries : \E i \in DOMAIN cache.entries :
       trimmed.entries[j] = cache.entries[i]
  /\ \A i \in DOMAIN cache.entries : cache.entries[i].busy =>
       \E j \in DOMAIN trimmed.entries : trimmed.entries[j] = cache.entries[i]

\* Trimming removes idle entries only.
LEMMA Trims ==
  ASSUME NEW cache, CacheOK(cache), NEW keys
  PROVE  TrimsIdle(cache, Trim(cache, keys))
<1> DEFINE stays(i) == \A key \in keys : i \in Idle(cache, key) =>
                         Cardinality({j \in Idle(cache, key) : j > i}) < cache.limit
           P == {i \in DOMAIN cache.entries : stays(i)}
<1>1. Trim(cache, keys) = Choosing(cache, P)
  BY DEF Trim, Choosing
<1>2. \A i \in DOMAIN cache.entries : cache.entries[i].busy => i \in P
  BY DEF Idle
<1> HIDE DEF P
<1>3. Chooses(cache, P, Choosing(cache, P))
  BY SelectedEntries
<1> DEFINE trimmed == Trim(cache, keys)
<1>4. Chooses(cache, P, trimmed)
  BY <1>1, <1>3
<1> HIDE DEF trimmed
<1>5. TrimsIdle(cache, trimmed)
  BY <1>2, <1>4 DEF Chooses, TrimsIdle
<1> QED
  BY <1>5 DEF trimmed

\* A workspace in use can be given back, and then none is.
LEMMA Releases ==
  ASSUME NEW cache, CacheOK(cache), NEW lease, HeldBy(cache, lease)
  PROVE  /\ Release(cache, lease) # {}
         /\ \A after \in Release(cache, lease) : CacheOK(after) /\ Free(after)
<1>1. CASE lease.kept
  <2> DEFINE key == lease.key
  <2>1. /\ key \in DOMAIN cache.kept /\ cache.kept[key].tensor = lease.tensor
        /\ \A x \in DOMAIN cache.kept : cache.kept[x].busy <=> x = key
        /\ \A i \in DOMAIN cache.entries : ~cache.entries[i].busy
    BY <1>1 DEF HeldBy
  <2>2. Release(cache, lease) =
          IF cache.limit = 0
          THEN {[cache EXCEPT !.kept = [x \in DOMAIN cache.kept \ {key} |-> cache.kept[x]]]}
          ELSE {[cache EXCEPT !.kept[key].busy = FALSE]}
    BY <1>1, <2>1 DEF Release, ReleaseKept
  <2> HIDE DEF key
  <2>3. CASE cache.limit = 0
    <3> DEFINE f == [x \in DOMAIN cache.kept \ {key} |-> cache.kept[x]]
               after == [cache EXCEPT !.kept = f]
    <3>1. /\ DOMAIN f = DOMAIN cache.kept \ {key}
          /\ f \in [DOMAIN f -> KeptEntry]
          /\ \A x \in DOMAIN f : ~f[x].busy
      BY <2>1 DEF CacheOK
    <3>2. /\ DOMAIN after = {"entries", "kept", "limit"}
          /\ after.entries = cache.entries /\ after.kept = f /\ after.limit = cache.limit
      BY DEF CacheOK
    <3> HIDE DEF f, after
    <3>3. IsFiniteSet(DOMAIN f)
      <4>1. DOMAIN f \in SUBSET DOMAIN cache.kept /\ IsFiniteSet(DOMAIN cache.kept)
        BY <3>1 DEF CacheOK
      <4> QED
        BY <4>1, SubsetFinite
    <3>4. CacheOK(after) /\ Free(after)
      BY <2>1, <3>1, <3>2, <3>3 DEF CacheOK, Free
    <3> QED
      BY <2>2, <2>3, <3>4 DEF after, f
  <2>4. CASE cache.limit # 0
    <3> DEFINE f == [cache.kept EXCEPT ![key] = [cache.kept[key] EXCEPT !.busy = FALSE]]
               after == [cache EXCEPT !.kept[key].busy = FALSE]
    <3>1. cache.kept[key] \in KeptEntry
      BY <2>1 DEF CacheOK
    <3>2. [cache.kept[key] EXCEPT !.busy = FALSE] \in KeptEntry /\ [cache.kept[key] EXCEPT !.busy = FALSE].busy = FALSE
      BY <3>1 DEF KeptEntry
    <3>3. /\ DOMAIN after = {"entries", "kept", "limit"}
          /\ after.entries = cache.entries /\ after.kept = f /\ after.limit = cache.limit
      BY DEF CacheOK
    <3>4. /\ DOMAIN f = DOMAIN cache.kept
          /\ f[key] = [cache.kept[key] EXCEPT !.busy = FALSE]
          /\ \A x \in DOMAIN f : x # key => f[x] = cache.kept[x]
          /\ f = [x \in DOMAIN f |-> f[x]]
      BY <2>1
    <3> HIDE DEF f, after
    <3>5. \A x \in DOMAIN f : f[x] \in KeptEntry
      BY <3>2, <3>4 DEF CacheOK
    <3>6. f \in [DOMAIN f -> KeptEntry]
      BY <3>4, <3>5
    <3>7. \A x \in DOMAIN f : ~f[x].busy
      BY <2>1, <3>2, <3>4
    <3>8. CacheOK(after) /\ Free(after)
      BY <2>1, <3>3, <3>4, <3>6, <3>7 DEF CacheOK, Free
    <3> QED
      BY <2>2, <2>4, <3>8 DEF after
  <2> QED
    BY <2>3, <2>4
<1>2. CASE ~lease.kept
  <2> DEFINE H == Holding(cache, lease.tensor)
             i == First(H)
             s == cache.entries
  <2>1. /\ \E j \in DOMAIN s : s[j].tensor = lease.tensor
        /\ \A j \in DOMAIN s : s[j].busy <=> s[j].tensor = lease.tensor
        /\ \A x \in DOMAIN cache.kept : ~cache.kept[x].busy
    BY <1>2 DEF HeldBy
  <2>2. H # {} /\ H \in SUBSET Nat
    BY <2>1, EntriesTyped DEF Holding
  <2>3. i \in H
    BY <2>2, FirstIs
  <2>4. i \in DOMAIN s /\ s[i].tensor = lease.tensor
    BY <2>3 DEF Holding
  <2>5. Release(cache, lease) =
          IF cache.limit = 0 THEN {[cache EXCEPT !.entries = Selected(s, DOMAIN s \ {i})]}
          ELSE {Trim([cache EXCEPT !.entries[i].busy = FALSE], {lease.key})}
    BY <1>2, <2>2 DEF Release, ReleaseShared
  <2> HIDE DEF i, H
  <2>6. \A j \in DOMAIN s : s[j].busy => j = i
    BY <2>1, <2>4 DEF CacheOK
  <2>7. CASE cache.limit = 0
    <3> DEFINE after == [cache EXCEPT !.entries = Selected(s, DOMAIN s \ {i})]
    <3>1. /\ CacheOK(after)
          /\ after.kept = cache.kept
          /\ \A j \in DOMAIN after.entries : \E k \in DOMAIN s :
               k \in DOMAIN s \ {i} /\ after.entries[j] = s[k]
      <4>1. Chooses(cache, DOMAIN s \ {i}, after)
        BY SelectedEntries DEF Choosing
      <4> HIDE DEF after
      <4> QED
        BY <4>1 DEF Chooses
    <3> HIDE DEF after
    <3>2. Free(after)
      BY <2>1, <2>6, <3>1 DEF Free
    <3> QED
      BY <2>5, <2>7, <3>1, <3>2 DEF after
  <2>8. CASE cache.limit # 0
    <3> DEFINE marked == [cache EXCEPT !.entries[i].busy = FALSE]
               after == Trim(marked, {lease.key})
    <3>1. /\ CacheOK(marked)
          /\ marked.kept = cache.kept
          /\ DOMAIN marked.entries = DOMAIN s
          /\ \A j \in DOMAIN s : marked.entries[j].busy = IF j = i THEN FALSE ELSE s[j].busy
      <4>1. Marks(cache, i, FALSE, marked)
        BY <2>4, MarkedEntry DEF Marking
      <4> HIDE DEF marked
      <4> QED
        BY <4>1 DEF Marks
    <3>2. \A j \in DOMAIN marked.entries : ~marked.entries[j].busy
      BY <2>6, <3>1
    <3> HIDE DEF marked
    <3>3. /\ CacheOK(after)
          /\ after.kept = marked.kept
          /\ \A j \in DOMAIN after.entries : \E k \in DOMAIN marked.entries : after.entries[j] = marked.entries[k]
      <4>1. TrimsIdle(marked, after)
        BY <3>1, Trims
      <4> HIDE DEF after
      <4> QED
        BY <4>1 DEF TrimsIdle
    <3> HIDE DEF after
    <3>4. Free(after)
      BY <2>1, <3>1, <3>2, <3>3 DEF Free
    <3> QED
      BY <2>5, <2>8, <3>3, <3>4 DEF after, marked
  <2> QED
    BY <2>7, <2>8
<1> QED
  BY <1>1, <1>2

\* Another limit takes no workspace that is in use.
LEMMA SetsLimit ==
  ASSUME NEW cache, CacheOK(cache), NEW limit \in Nat
  PROVE  LET after == SetLimit(cache, limit)
         IN  /\ CacheOK(after)
             /\ Free(cache) => Free(after)
             /\ \A lease : HeldBy(cache, lease) => HeldBy(after, lease)
<1> DEFINE keys == {cache.entries[i].key : i \in DOMAIN cache.entries}
           limited == [cache EXCEPT !.limit = limit]
           trimmed == Trim(limited, keys)
           busy == {key \in DOMAIN cache.kept : cache.kept[key].busy}
           f == [key \in busy |-> trimmed.kept[key]]
           after == SetLimit(cache, limit)
<1>1. /\ DOMAIN limited = {"entries", "kept", "limit"}
      /\ limited.entries = cache.entries /\ limited.kept = cache.kept /\ limited.limit = limit
  BY DEF CacheOK
<1>2. after = IF limit = 0 THEN [trimmed EXCEPT !.kept = f] ELSE trimmed
  BY DEF SetLimit
<1> HIDE DEF limited, keys
<1>3. CacheOK(limited)
  BY <1>1 DEF CacheOK
<1>4. /\ CacheOK(trimmed)
      /\ trimmed.kept = cache.kept
      /\ \A j \in DOMAIN trimmed.entries : \E i \in DOMAIN cache.entries :
           trimmed.entries[j] = cache.entries[i]
      /\ \A i \in DOMAIN cache.entries : cache.entries[i].busy =>
           \E j \in DOMAIN trimmed.entries : trimmed.entries[j] = cache.entries[i]
  <2>1. TrimsIdle(limited, trimmed)
    BY <1>3, Trims
  <2> HIDE DEF trimmed
  <2> QED
    BY <1>1, <2>1 DEF TrimsIdle
<1> HIDE DEF trimmed
<1>5. /\ DOMAIN f = busy /\ busy \subseteq DOMAIN cache.kept
      /\ \A x \in busy : f[x] = cache.kept[x]
      /\ f \in [DOMAIN f -> KeptEntry]
  BY <1>4 DEF CacheOK
<1>6. IsFiniteSet(DOMAIN f)
  BY <1>5, SubsetFinite DEF CacheOK
<1>7. \A x \in DOMAIN cache.kept : x \in busy <=> cache.kept[x].busy
  OBVIOUS
<1> HIDE DEF f, busy
<1>8. /\ CacheOK(after)
      /\ after.entries = trimmed.entries
      /\ DOMAIN after.kept \subseteq DOMAIN cache.kept
      /\ \A x \in DOMAIN after.kept : after.kept[x] = cache.kept[x]
      /\ \A x \in DOMAIN cache.kept : cache.kept[x].busy => x \in DOMAIN after.kept
  <2>1. CASE limit = 0
    <3> DEFINE b == [trimmed EXCEPT !.kept = f]
    <3>1. /\ DOMAIN b = {"entries", "kept", "limit"}
          /\ b.entries = trimmed.entries /\ b.kept = f /\ b.limit = trimmed.limit
      BY <1>4 DEF CacheOK
    <3> HIDE DEF b
    <3>2. CacheOK(b)
      BY <1>4, <1>5, <1>6, <3>1 DEF CacheOK
    <3>3. after = b
      BY <1>2, <2>1 DEF b
    <3> HIDE DEF after
    <3> QED
      BY <1>5, <1>7, <3>1, <3>2, <3>3
  <2>2. CASE limit # 0
    BY <1>2, <1>4, <2>2
  <2> QED
    BY <2>1, <2>2
<1> HIDE DEF after
<1>9. ASSUME Free(cache) PROVE Free(after)
  BY <1>4, <1>8, <1>9 DEF Free
<1>10. ASSUME NEW lease, HeldBy(cache, lease) PROVE HeldBy(after, lease)
  <2>1. CASE lease.kept
    <3>1. /\ lease.key \in DOMAIN cache.kept /\ cache.kept[lease.key].tensor = lease.tensor
          /\ \A key \in DOMAIN cache.kept : cache.kept[key].busy <=> key = lease.key
          /\ \A i \in DOMAIN cache.entries : ~cache.entries[i].busy
      BY <1>10, <2>1 DEF HeldBy
    <3>2. lease.key \in DOMAIN after.kept /\ after.kept[lease.key].tensor = lease.tensor
      BY <1>8, <3>1
    <3>3. \A key \in DOMAIN after.kept : after.kept[key].busy <=> key = lease.key
      BY <1>8, <3>1
    <3>4. \A i \in DOMAIN after.entries : ~after.entries[i].busy
      BY <1>4, <1>8, <3>1
    <3> QED
      BY <2>1, <3>2, <3>3, <3>4 DEF HeldBy
  <2>2. CASE ~lease.kept
    <3>1. /\ \E i \in DOMAIN cache.entries : cache.entries[i].tensor = lease.tensor
          /\ \A i \in DOMAIN cache.entries : cache.entries[i].busy <=> cache.entries[i].tensor = lease.tensor
          /\ \A key \in DOMAIN cache.kept : ~cache.kept[key].busy
      BY <1>10, <2>2 DEF HeldBy
    <3>2. \E i \in DOMAIN after.entries : after.entries[i].tensor = lease.tensor
      BY <1>4, <1>8, <3>1
    <3>3. \A i \in DOMAIN after.entries : after.entries[i].busy <=> after.entries[i].tensor = lease.tensor
      BY <1>4, <1>8, <3>1
    <3>4. \A key \in DOMAIN after.kept : ~after.kept[key].busy
      BY <1>8, <3>1
    <3> QED
      BY <2>2, <3>2, <3>3, <3>4 DEF HeldBy
  <2> QED
    BY <2>1, <2>2
<1> QED
  BY <1>8, <1>9, <1>10 DEF after

-----------------------------------------------------------------------------
(* Leases *)

\* The workspace of a rank is in use exactly while it runs a reduce that leased it.
WorkspaceOK(r) ==
  LET p == proc[r]
  IN  /\ CacheOK(p.cache)
      /\ \/ p.lease = <<>> /\ Free(p.cache)
         \/ /\ p.lease = <<p.lease[1]>> /\ HeldBy(p.cache, p.lease[1])
            /\ p.running /\ jobs[p.next].kind = "reduce"

\* The workspaces of every rank are as its leases say.
WorkspacesOK == \A r \in Members : WorkspaceOK(r)

\* A new cache is in order, with nothing in use.
LEMMA NewCacheOK == CacheOK(EmptyCache(1)) /\ Free(EmptyCache(1))
<1> DEFINE c == EmptyCache(1)
<1>1. /\ DOMAIN c = {"entries", "kept", "limit"}
      /\ c.entries = <<>> /\ c.kept = <<>> /\ c.limit = 1
  BY DEF EmptyCache
<1> HIDE DEF c
<1>2. DOMAIN c.kept = {} /\ DOMAIN c.entries = {}
  BY <1>1
<1>3. c.entries \in Seq(Entry)
  BY <1>1
<1>4. c.kept \in [DOMAIN c.kept -> KeptEntry]
  <2> DEFINE f == [x \in {} |-> x]
  <2>1. f = <<>>
    OBVIOUS
  <2>2. f \in [{} -> KeptEntry]
    OBVIOUS
  <2> QED
    BY <1>1, <1>2, <2>1, <2>2
<1>5. IsFiniteSet(DOMAIN c.kept)
  <2>1. DOMAIN c.kept = {}
    BY <1>2
  <2>2. Finite!IsFiniteSet({})
    BY Finite!FS_EmptySet
  <2> QED
    BY <2>1, <2>2, SameNotions
<1>6. CacheOK(c)
  BY <1>1, <1>2, <1>3, <1>4, <1>5 DEF CacheOK
<1>7. Free(c)
  BY <1>2 DEF Free
<1> QED
  BY <1>6, <1>7 DEF c

\* A reduce that leases a workspace has the only one in use.
LEMMA Acquires ==
  ASSUME SoundGroup(group), NEW r, CacheOK(proc[r].cache), Free(proc[r].cache),
         NEW compact \in BOOLEAN
  PROVE  LET got == Acquired(r, compact)
         IN  CacheOK(got.cache) /\ HeldBy(got.cache, got.lease)
<1> DEFINE cache == proc[r].cache
           size == PackedSize(group, compact)
           new == CHOOSE t \in 1 .. Cardinality(Tensors(cache)) + 1 : t \notin Tensors(cache)
           got == Acquired(r, compact)
           key == IF compact /\ cache.limit > 0 THEN <<"compact", size>> ELSE <<"any", size>>
<1>1. size \in Nat
  <2>1. group.n \in Nat /\ group.layout.total \in Nat
    BY GroupTyped
  <2>2. MaxSize(group) \in Nat
    BY MaxSizeIs
  <2>3. group.n * MaxSize(group) \in Nat
    BY <2>1, <2>2
  <2> QED
    BY <2>1, <2>3 DEF PackedSize
<1>2. CacheOK(cache) /\ Free(cache)
  OBVIOUS
<1> HIDE DEF size
<1>3. got = IF compact /\ cache.limit > 0 THEN AcquireKept(cache, key, new) ELSE AcquireShared(cache, key, new)
  BY DEF Acquired, size
<1>4. key \in Keys
  BY <1>1 DEF Keys
<1> HIDE DEF cache, key
<1>5. new \in Nat /\ new \notin Tensors(cache)
  <2> DEFINE c == Cardinality(Tensors(cache))
  <2>1. c \in Nat /\ \E t \in 1 .. c + 1 : t \notin Tensors(cache)
    BY <1>2, NewTensor
  <2> HIDE DEF c
  <2>2. \A t \in 1 .. c + 1 : t \in Nat
    BY <2>1
  <2>3. new = CHOOSE t \in 1 .. c + 1 : t \notin Tensors(cache)
    BY DEF c
  <2> HIDE DEF new
  <2>4. new \in 1 .. c + 1 /\ new \notin Tensors(cache)
    BY <2>1, <2>3
  <2> QED
    BY <2>2, <2>4
<1> HIDE DEF new, got
<1>6. CASE compact /\ cache.limit > 0
  <2> DEFINE g == AcquireKept(cache, key, new)
  <2>1. CacheOK(g.cache) /\ HeldBy(g.cache, g.lease)
    BY <1>2, <1>4, <1>5, AcquiresKept
  <2>2. got = g
    BY <1>3, <1>6
  <2> HIDE DEF g
  <2> QED
    BY <2>1, <2>2 DEF got
<1>7. CASE ~(compact /\ cache.limit > 0)
  <2> DEFINE g == AcquireShared(cache, key, new)
  <2>1. CacheOK(g.cache) /\ HeldBy(g.cache, g.lease)
    BY <1>2, <1>4, <1>5, AcquiresShared
  <2>2. got = g
    BY <1>3, <1>7
  <2> HIDE DEF g
  <2> QED
    BY <2>1, <2>2 DEF got
<1> QED
  BY <1>6, <1>7

\* A step that leaves cache, lease and place of a rank alone keeps this.
LEMMA WorkspaceStays ==
  ASSUME NEW r, WorkspaceOK(r), Same(r, {"cache", "lease", "running", "next"}), jobs' = jobs
  PROVE  WorkspaceOK(r)'
  BY DEF WorkspaceOK, Same

\* As above, for a rank with no lease.
LEMMA FreeStays ==
  ASSUME NEW r, CacheOK(proc[r].cache), Free(proc[r].cache), proc[r].lease = <<>>,
         Same(r, {"cache", "lease"})
  PROVE  WorkspaceOK(r)'
  BY DEF WorkspaceOK, Same

\* A workspace is given back to the cache it came from.
LEMMA GivenBack ==
  ASSUME NEW r, NEW cache, NEW lease, CacheOK(cache), HeldBy(cache, lease),
         proc'[r].cache \in Release(cache, lease), proc'[r].lease = <<>>
  PROVE  WorkspaceOK(r)'
<1>1. CacheOK(proc'[r].cache) /\ Free(proc'[r].cache)
  BY Releases
<1> QED
  BY <1>1 DEF WorkspaceOK

\* Starting and finishing exchanges keeps it.
LEMMA HostStepsKeepWorkspaces ==
  ASSUME InOrder, WorkspacesOK, NEW r \in Members, HostStep(r)
  PROVE  WorkspaceOK(r)'
<1>0. /\ ProgramOK /\ RankInOrder(r) /\ Shaped /\ WorkspaceOK(r)
      /\ OnlyRank(r) /\ jobs' = jobs
  BY HostStepsInOrder DEF InOrder, WorkspacesOK, OnlyRank
<1> DEFINE p == proc[r]
<1>1. CASE StartGather(r)
  <2>1. ~p.running
    BY <1>1 DEF StartGather, ToStart
  <2>2. Same(r, {"cache", "lease"})
    BY <1>0, <1>1, StartGatherDoes DEF Same, Fields
  <2> QED
    BY <1>0, <2>1, <2>2, FreeStays DEF WorkspaceOK
<1>2. CASE FinishGather(r)
  <2>1. jobs[p.next].kind = "gather"
    BY <1>2 DEF FinishGather, Job
  <2>2. Same(r, {"cache", "lease"})
    BY <1>0, <1>2, FinishGatherDoes DEF Same, Fields
  <2> QED
    BY <1>0, <2>1, <2>2, FreeStays DEF WorkspaceOK
<1>3. CASE StartReduce(r)
  <2>1. ~p.running /\ jobs[p.next].kind = "reduce" /\ p.next <= Len(jobs)
    BY <1>3 DEF StartReduce, ToStart, Job
  <2>2. p.next \in DOMAIN jobs
    BY <1>0, <2>1, CourseJoins DEF RankInOrder, CourseJoined
  <2>3. how.reduce \in Reducers /\ SoundGroup(group)
    BY <1>0, <2>2, JobTyped DEF ProgramOK, GroupIsSound
  <2>4. Leases(r) /\ proc'[r].running = TRUE /\ proc'[r].next = p.next
    BY <1>0, <1>3, <2>3, StartReduceDoes DEF Same
  <2>5. CacheOK(p.cache) /\ Free(p.cache) /\ p.lease = <<>>
    BY <1>0, <2>1 DEF WorkspaceOK
  <2> DEFINE compact == Compact(group, UsedBy(r))
             got == Acquired(r, compact)
  <2>6. compact \in BOOLEAN
    BY DEF Compact
  <2> HIDE DEF compact
  <2>7. CacheOK(got.cache) /\ HeldBy(got.cache, got.lease)
    BY <2>3, <2>5, <2>6, Acquires
  <2>8. \/ Same(r, {"cache", "lease"})
        \/ proc'[r].lease = p.lease /\ proc'[r].cache \in Release(got.cache, got.lease)
        \/ proc'[r].lease = <<got.lease>> /\ proc'[r].cache = got.cache
    BY <2>4 DEF Leases, compact
  <2> DEFINE cache == got.cache
             lease == got.lease
  <2>9. CacheOK(cache) /\ HeldBy(cache, lease)
    BY <2>7
  <2>10. \/ Same(r, {"cache", "lease"})
         \/ proc'[r].lease = p.lease /\ proc'[r].cache \in Release(cache, lease)
         \/ proc'[r].lease = <<lease>> /\ proc'[r].cache = cache
    BY <2>8
  <2> HIDE DEF cache, lease, got
  <2>11. CASE Same(r, {"cache", "lease"})
    BY <2>5, <2>11, FreeStays
  <2>12. CASE proc'[r].lease = p.lease /\ proc'[r].cache \in Release(cache, lease)
    BY <2>5, <2>9, <2>12, GivenBack
  <2>13. CASE proc'[r].lease = <<lease>> /\ proc'[r].cache = cache
    <3>1. proc'[r].lease[1] = lease
      BY <2>13
    <3>2. CacheOK(proc'[r].cache) /\ HeldBy(proc'[r].cache, proc'[r].lease[1])
      BY <2>9, <2>13, <3>1
    <3>3. proc'[r].running /\ jobs'[proc'[r].next].kind = "reduce"
      BY <1>0, <2>1, <2>4
    <3>4. proc'[r].lease = <<proc'[r].lease[1]>>
      BY <2>13
    <3> QED
      BY <3>2, <3>3, <3>4 DEF WorkspaceOK
  <2> QED
    BY <2>10, <2>11, <2>12, <2>13
<1>4. CASE FinishReduce(r)
  <2>1. /\ proc'[r].cache \in IF p.lease = <<>> THEN {p.cache} ELSE Release(p.cache, p.lease[1])
        /\ proc'[r].lease = <<>>
    BY <1>0, <1>4, FinishReduceDoes
  <2>2. CASE p.lease = <<>> /\ Free(p.cache)
    <3>1. Same(r, {"cache", "lease"})
      BY <2>1, <2>2 DEF Same
    <3> QED
      BY <1>0, <2>2, <3>1, FreeStays DEF WorkspaceOK
  <2>3. CASE p.lease = <<p.lease[1]>> /\ HeldBy(p.cache, p.lease[1])
    <3> DEFINE cache == p.cache
               lease == p.lease[1]
    <3>1. p.lease # <<>>
      BY <2>3
    <3>2. CacheOK(cache) /\ HeldBy(cache, lease) /\ proc'[r].cache \in Release(cache, lease)
      BY <1>0, <2>1, <2>3, <3>1 DEF WorkspaceOK
    <3> HIDE DEF cache, lease
    <3> QED
      BY <2>1, <3>2, GivenBack
  <2> QED
    BY <1>0, <2>2, <2>3 DEF WorkspaceOK
<1> QED
  BY <1>1, <1>2, <1>3, <1>4 DEF HostStep

\* Fresh ranks have new caches.
LEMMA FreshWorkspaces ==
  ASSUME NEW v, proc' = [r \in Members' |-> Fresh(group', r, v)]
  PROVE  WorkspacesOK'
<1>1. ASSUME NEW r \in Members'
      PROVE  WorkspaceOK(r)'
  <2>1. proc'[r] = Fresh(group', r, v)
    OBVIOUS
  <2>2. proc'[r].cache = EmptyCache(1) /\ proc'[r].lease = <<>>
    BY <2>1, FreshIs
  <2>3. CacheOK(proc'[r].cache) /\ Free(proc'[r].cache)
    BY <2>2, NewCacheOK
  <2> QED
    BY <2>2, <2>3 DEF WorkspaceOK
<1> QED
  BY <1>1 DEF WorkspacesOK

\* A new limit drops idle workspaces only.
LEMMA LimitsKeepWorkspaces ==
  ASSUME InOrder, WorkspacesOK, NEW r \in Members, NEW limit \in Limits, LimitWorkspaces(r, limit)
  PROVE  WorkspaceOK(r)'
<1> DEFINE cache == proc[r].cache
           after == SetLimit(cache, limit)
<1>1. OnlyRank(r) /\ proc'[r].cache = after /\ Same(r, Fields \ {"cache"}) /\ jobs' = jobs
  BY LimitWorkspacesDoes DEF InOrder, OnlyRank
<1>2. WorkspaceOK(r)
  BY DEF WorkspacesOK
<1>3. /\ proc'[r].lease = proc[r].lease /\ proc'[r].running = proc[r].running
      /\ proc'[r].next = proc[r].next
  BY <1>1 DEF Same, Fields
<1>4. limit \in Nat
  BY LimitsAssumption
<1>5. CacheOK(cache)
  BY <1>2 DEF WorkspaceOK
<1>6. /\ CacheOK(after)
      /\ Free(cache) => Free(after)
      /\ \A lease : HeldBy(cache, lease) => HeldBy(after, lease)
  <2> HIDE DEF cache
  <2> QED
    BY <1>4, <1>5, SetsLimit
<1> HIDE DEF after
<1> QED
  BY <1>1, <1>2, <1>3, <1>6 DEF WorkspaceOK

\* Every step keeps the workspaces as the leases say.
LEMMA StepsKeepWorkspaces ==
  ASSUME InOrder, WorkspacesOK, [CheckpointNext]_checkpointVars
  PROVE  WorkspacesOK'
<1>0. ProgramOK /\ Shaped /\ \A r \in Members : RankInOrder(r) /\ WorkspaceOK(r)
  BY DEF InOrder, WorkspacesOK
<1>1. ASSUME NEW r \in Members, OnlyRank(r), WorkspaceOK(r)'
      PROVE  WorkspacesOK'
  <2>1. ASSUME NEW q \in Members, q # r PROVE WorkspaceOK(q)'
    <3>1. Same(q, {"cache", "lease", "running", "next"}) /\ jobs' = jobs
      BY <1>1, <2>1 DEF OnlyRank, Same
    <3> QED
      BY <1>0, <3>1, WorkspaceStays
  <2>2. Members' = Members
    BY <1>1 DEF OnlyRank, Members
  <2> QED
    BY <1>1, <2>1, <2>2 DEF WorkspacesOK
<1>2. CASE Start
  <2>1. proc' = [r \in Members' |-> Fresh(group', r, 0)]
    BY <1>2 DEF Start, FullyShard, Members
  <2> QED
    BY <2>1, FreshWorkspaces
<1>3. CASE Train
  <2>1. CASE Begin
    <3>1. jobs = <<>> /\ UNCHANGED proc /\ Members' = Members
      BY <2>1 DEF Begin, Members
    <3>2. ASSUME NEW r \in Members PROVE WorkspaceOK(r)'
      <4>1. ~proc[r].running
        BY <1>0, <3>1 DEF RankInOrder
      <4>2. CacheOK(proc[r].cache) /\ Free(proc[r].cache) /\ proc[r].lease = <<>>
        BY <1>0, <4>1 DEF WorkspaceOK
      <4>3. Same(r, {"cache", "lease"})
        BY <3>1 DEF Same
      <4> QED
        BY <4>2, <4>3, FreeStays
    <3> QED
      BY <3>1, <3>2 DEF WorkspacesOK
  <2>2. ASSUME NEW r \in Members, HostStep(r) PROVE WorkspacesOK'
    BY <1>1, <2>2, HostStepsKeepWorkspaces, HostStepsInOrder
  <2>3. CASE Deliver
    <3>1. /\ \A r \in Members : Same(r, Fields \ {"full", "wire", "mem"})
          /\ UNCHANGED <<group, jobs>> /\ Members' = Members
      BY <2>3, DeliverDoes DEF Members
    <3>2. ASSUME NEW r \in Members PROVE WorkspaceOK(r)'
      <4>1. Same(r, {"cache", "lease", "running", "next"})
        BY <3>1 DEF Same, Fields
      <4> QED
        BY <1>0, <3>1, <4>1, WorkspaceStays
    <3> QED
      BY <3>1, <3>2 DEF WorkspacesOK
  <2>4. ASSUME NEW limit \in Limits, LimitWorkspaces(0, limit) PROVE WorkspacesOK'
    <3>1. jobs # <<>>
      BY <2>4 DEF LimitWorkspaces
    <3>2. SoundGroup(group)
      BY <1>0, <3>1 DEF ProgramOK, GroupIsSound
    <3>3. 0 \in Members
      BY <3>2, GroupTyped DEF Members
    <3> QED
      BY <1>1, <2>4, <3>3, LimitsInOrder, LimitsKeepWorkspaces
  <2> QED
    BY <1>3, <2>1, <2>2, <2>3, <2>4 DEF Train
<1>4. CASE Step
  <2> DEFINE v == version + 1
  <2>1. proc' = [r \in Members' |-> Fresh(group', r, v)]
    BY <1>4 DEF Step, End, Members
  <2> HIDE DEF v
  <2> QED
    BY <2>1, FreshWorkspaces
<1>5. CASE \/ SaveMetadata \/ (\E r \in Members : SavePayload(r)) \/ Publish
           \/ UNCHANGED checkpointVars
  <2>1. UNCHANGED <<group, proc, jobs>> /\ Members' = Members
    BY <1>5 DEF SaveMetadata, SavePayload, Publish, checkpointVars, Members
  <2> QED
    BY <2>1 DEF WorkspacesOK, WorkspaceOK
<1>6. CASE \E allowReshard \in BOOLEAN : Load(allowReshard)
  <2>1. /\ UNCHANGED jobs /\ Members' = Members
        /\ \A r \in Members : Same(r, Fields \ {"shard"})
    BY <1>0, <1>6, LoadDoes
  <2>2. ASSUME NEW r \in Members PROVE WorkspaceOK(r)'
    <3>1. Same(r, {"cache", "lease", "running", "next"})
      BY <2>1 DEF Same, Fields
    <3> QED
      BY <1>0, <2>1, <3>1, WorkspaceStays
  <2> QED
    BY <2>1, <2>2 DEF WorkspacesOK
<1>7. CASE Crash
  <2>1. Members' = {}
    BY <1>7 DEF Crash, Members, Nothing, RanksOf
  <2> QED
    BY <2>1 DEF WorkspacesOK
<1> QED
  BY <1>2, <1>3, <1>4, <1>5, <1>6, <1>7 DEF CheckpointNext

\* LeasedWorkspacesAreReturned: whatever limits were set meanwhile, the workspace
\* a reduce packed into can be given back when the reduce is done, and outside
\* reduces none is in use (ElasticParamBuffer.acquire_rank_chunk_workspace,
\* MatrixWorkspaceCache.set_max_cached_per_key and release).
THEOREM WorkspacesComeBack ==
  CheckpointSpec /\ []GroupIsSound => []LeasedWorkspacesAreReturned
<1>1. CheckpointInit => WorkspacesOK
  <2> SUFFICES ASSUME CheckpointInit PROVE WorkspacesOK
    OBVIOUS
  <2>1. Members = {}
    BY DEF CheckpointInit, ExchangeInit, Members, Nothing, RanksOf
  <2> QED
    BY <2>1 DEF WorkspacesOK
<1>2. InOrder /\ WorkspacesOK /\ [CheckpointNext]_checkpointVars => WorkspacesOK'
  BY StepsKeepWorkspaces
<1>3. WorkspacesOK => LeasedWorkspacesAreReturned
  <2> SUFFICES ASSUME WorkspacesOK, NEW r \in Members
               PROVE  LET cache == proc[r].cache IN
                      IF proc[r].lease # <<>> THEN Release(cache, proc[r].lease[1]) # {}
                      ELSE /\ \A k \in DOMAIN cache.entries : ~cache.entries[k].busy
                           /\ \A key \in DOMAIN cache.kept : ~cache.kept[key].busy
    BY DEF LeasedWorkspacesAreReturned
  <2>1. WorkspaceOK(r)
    BY DEF WorkspacesOK
  <2>2. CASE proc[r].lease = <<>> /\ Free(proc[r].cache)
    BY <2>2 DEF Free
  <2>3. CASE proc[r].lease = <<proc[r].lease[1]>> /\ HeldBy(proc[r].cache, proc[r].lease[1])
    <3> DEFINE cache == proc[r].cache
               lease == proc[r].lease[1]
    <3>1. CacheOK(cache) /\ HeldBy(cache, lease) /\ proc[r].lease # <<>>
      BY <2>1, <2>3 DEF WorkspaceOK
    <3> HIDE DEF cache, lease
    <3>2. Release(cache, lease) # {}
      BY <3>1, Releases
    <3> QED
      BY <3>1, <3>2 DEF cache, lease
  <2> QED
    BY <2>1, <2>2, <2>3 DEF WorkspaceOK
<1> QED
  BY <1>1, <1>2, <1>3, ProgramsInOrder, PTL DEF CheckpointSpec

-----------------------------------------------------------------------------
(* Where elements lie *)

\* Which rank keeps an element, in which segment and at which place of its shard.
LiesAt(g, i, r, k) ==
  /\ r \in RanksOf(g.n)
  /\ k \in DOMAIN g.layout.ranks[r]
  /\ SegmentsWith(g.layout.ranks[r], i) = {k}
  /\ \A q \in RanksOf(g.n) \ {r} : SegmentsWith(g.layout.ranks[q], i) = {}
  /\ Keeper(g, i) = r
  /\ Place(g, i) = g.layout.ranks[r][k].local + i - g.layout.ranks[r][k].start
  /\ g.layout.ranks[r][k].start <= i /\ i < g.layout.ranks[r][k].end

\* Every element is kept somewhere.
LEMMA ElementLies ==
  ASSUME NEW g, SoundGroup(g), NEW i \in 0 .. g.layout.total - 1
  PROVE  \E r, k : LiesAt(g, i, r, k)
<1> DEFINE segs == g.layout.ranks
<1>0. WellPlaced(g)
  BY DEF SoundGroup
<1>1. PICK r \in RanksOf(g.n) :
        /\ \E k \in DOMAIN segs[r] : SegmentsWith(segs[r], i) = {k}
        /\ \A q \in RanksOf(g.n) \ {r} : SegmentsWith(segs[q], i) = {}
  BY <1>0 DEF WellPlaced
<1>2. PICK k \in DOMAIN segs[r] : SegmentsWith(segs[r], i) = {k}
  BY <1>1
<1>3. segs[r][k].start <= i /\ i < segs[r][k].end
  BY <1>2 DEF SegmentsWith
<1>4. /\ g.keeper[i] = CHOOSE q \in RanksOf(g.n) : SegmentsWith(segs[q], i) # {}
      /\ g.place[i] = PlaceIn(segs[g.keeper[i]], i)
  BY <1>0 DEF WellPlaced
<1>5. g.keeper[i] = r
  BY <1>1, <1>2, <1>4
<1>6. PlaceIn(segs[r], i) = segs[r][k].local + i - segs[r][k].start
  <2> DEFINE s == segs[r]
  <2> HIDE DEF s
  <2>1. SegmentsWith(s, i) = {k}
    BY <1>2 DEF s
  <2>2. (CHOOSE m \in SegmentsWith(s, i) : TRUE) = k
    BY <2>1
  <2>3. PlaceIn(s, i) = s[k].local + i - s[k].start
    BY <2>2 DEF PlaceIn
  <2> QED
    BY <2>3 DEF s
<1> QED
  BY <1>1, <1>2, <1>3, <1>4, <1>5, <1>6 DEF LiesAt, Keeper, Place

\* What a segment of a rank covers lies there.
LEMMA ElementOf ==
  ASSUME NEW g, SoundGroup(g), NEW r \in RanksOf(g.n), NEW k \in DOMAIN g.layout.ranks[r],
         NEW i \in Int, g.layout.ranks[r][k].start <= i, i < g.layout.ranks[r][k].end
  PROVE  i \in 0 .. g.layout.total - 1 /\ LiesAt(g, i, r, k)
<1> DEFINE s == g.layout.ranks[r]
           total == g.layout.total
<1>1. total \in Nat /\ s \in Seq(Segments(total))
  BY GroupTyped
<1>2. i \in 0 .. total - 1
  <2> HIDE DEF s, total
  <2> DEFINE A == Segments(total)
  <2>1. \A x \in A : x.start \in 0 .. total /\ x.end \in 0 .. total
    BY DEF Segments
  <2> HIDE DEF A
  <2>2. s[k] \in A
    BY <1>1 DEF s, A
  <2>3. s[k].start \in 0 .. total /\ s[k].end \in 0 .. total
    BY <2>1, <2>2
  <2>4. s[k].start <= i /\ i < s[k].end
    BY DEF s
  <2> QED
    BY <1>1, <2>3, <2>4
<1>3. PICK q, m : LiesAt(g, i, q, m)
  BY <1>2, ElementLies
<1>4. k \in SegmentsWith(s, i)
  BY DEF SegmentsWith
<1>5. q = r /\ m = k
  BY <1>3, <1>4 DEF LiesAt
<1> QED
  BY <1>2, <1>3, <1>5

\* The segments of a shard lie one after the other.
LEMMA PackedGrows ==
  ASSUME NEW total \in Nat, NEW segs \in Seq(Segments(total)), NotEmpty(segs), LocallyPacked(segs)
  PROVE  \A b \in DOMAIN segs : \A a \in DOMAIN segs :
           a < b => LocalEnd(segs[a]) <= segs[b].local
<1> DEFINE A == Segments(total)
<1>1. \A x \in A : /\ x.start \in Nat /\ x.end \in Nat /\ x.local \in Nat
                   /\ LocalEnd(x) = x.local + (x.end - x.start)
  BY DEF Segments, LocalEnd, Size
<1> HIDE DEF A
<1>2. segs \in Seq(A)
  BY DEF A
<1>3. /\ Len(segs) \in Nat /\ DOMAIN segs = 1 .. Len(segs)
      /\ \A a \in DOMAIN segs : segs[a] \in A
  BY <1>2
<1>4. \A a \in DOMAIN segs : /\ segs[a].start \in Nat /\ segs[a].end \in Nat /\ segs[a].local \in Nat
                             /\ segs[a].start < segs[a].end
                             /\ LocalEnd(segs[a]) = segs[a].local + (segs[a].end - segs[a].start)
  BY <1>1, <1>3 DEF NotEmpty
<1>5. \A a \in DOMAIN segs : a # 1 => segs[a].local = LocalEnd(segs[a - 1])
  BY DEF LocallyPacked
<1> DEFINE S == {b \in Nat : \A a \in DOMAIN segs : a < b /\ b <= Len(segs) => LocalEnd(segs[a]) <= segs[b].local}
<1>6. 0 \in S
  BY <1>3
<1>7. ASSUME NEW b \in 1 .. Len(segs), b - 1 \in S
      PROVE  b \in S
  <2> SUFFICES ASSUME NEW a \in DOMAIN segs, a < b, b <= Len(segs)
               PROVE  LocalEnd(segs[a]) <= segs[b].local
    OBVIOUS
  <2>1. b # 1 /\ b \in DOMAIN segs /\ b - 1 \in DOMAIN segs /\ a \in Nat
    BY <1>3
  <2>2. segs[b].local = LocalEnd(segs[b - 1])
    BY <1>5, <2>1
  <2>3. CASE a = b - 1
    <3>1. LocalEnd(segs[a]) \in Int
      BY <1>4
    <3> QED
      BY <2>2, <2>3, <3>1
  <2>4. CASE a # b - 1
    <3>1. a < b - 1 /\ b - 1 <= Len(segs)
      BY <2>1, <2>4, <1>3
    <3>2. LocalEnd(segs[a]) <= segs[b - 1].local
      BY <1>7, <3>1
    <3> DEFINE x == LocalEnd(segs[a])
               y == segs[b - 1].local
               z == LocalEnd(segs[b - 1])
    <3>3. x \in Int /\ y \in Int /\ z \in Int /\ y <= z
      <4> DEFINE c == segs[b - 1]
      <4>1. /\ c.start \in Nat /\ c.end \in Nat /\ c.local \in Nat /\ c.start < c.end
            /\ LocalEnd(c) = c.local + (c.end - c.start)
        BY <1>4, <2>1
      <4>2. x \in Int
        BY <1>4
      <4> HIDE DEF c
      <4>3. c.local \in Int /\ LocalEnd(c) \in Int /\ c.local <= LocalEnd(c)
        BY <4>1
      <4> QED
        BY <4>2, <4>3 DEF c
    <3> HIDE DEF x, y, z
    <3>4. x <= y
      BY <3>2 DEF x, y
    <3>5. x <= z
      BY <3>3, <3>4
    <3> QED
      BY <2>2, <3>5 DEF x, z
  <2> QED
    BY <2>3, <2>4
<1> HIDE DEF S
<1>8. 0 .. Len(segs) \subseteq S
  BY <1>3, <1>6, <1>7, BoundedInduction
<1> QED
  BY <1>3, <1>8 DEF S

\* What the segments of a rank of a sound group are.
LEMMA RankSegments ==
  ASSUME NEW g, SoundGroup(g), NEW r \in RanksOf(g.n)
  PROVE  LET s == g.layout.ranks[r]
         IN  /\ Len(s) \in Nat /\ DOMAIN s = 1 .. Len(s)
             /\ \A k \in DOMAIN s :
                  /\ s[k].start \in Nat /\ s[k].end \in Nat /\ s[k].local \in Nat
                  /\ s[k].start < s[k].end
                  /\ s[k].end <= g.layout.total
                  /\ LocalEnd(s[k]) = s[k].local + (s[k].end - s[k].start)
             /\ \A a, b \in DOMAIN s : a < b => LocalEnd(s[a]) <= s[b].local
             /\ g.sizes[r] \in Nat
             /\ g.sizes[r] = IF s = <<>> THEN 0 ELSE LocalEnd(s[Len(s)])
             /\ \A k \in DOMAIN s : LocalEnd(s[k]) <= g.sizes[r]
<1> DEFINE s == g.layout.ranks[r]
           total == g.layout.total
           A == Segments(total)
           size == g.sizes[r]
<1>1. total \in Nat /\ s \in Seq(A) /\ NotEmpty(s) /\ size \in Nat
  BY GroupTyped
<1>2. LocallyPacked(s) /\ size = IF s = <<>> THEN 0 ELSE LocalEnd(s[Len(s)])
  BY DEF SoundGroup, WellPlaced, WellSized
<1> HIDE DEF s, total, size
<1>3. \A a, b \in DOMAIN s : a < b => LocalEnd(s[a]) <= s[b].local
  BY <1>1, <1>2, PackedGrows
<1>4. \A x \in A : /\ x.start \in Nat /\ x.end \in Nat /\ x.local \in Nat /\ x.end <= total
                   /\ LocalEnd(x) = x.local + (x.end - x.start)
  BY <1>1 DEF Segments, LocalEnd, Size
<1> HIDE DEF A
<1>5. /\ Len(s) \in Nat /\ DOMAIN s = 1 .. Len(s)
      /\ \A k \in DOMAIN s : s[k] \in A
  BY <1>1
<1>6. \A k \in DOMAIN s :
         /\ s[k].start \in Nat /\ s[k].end \in Nat /\ s[k].local \in Nat
         /\ s[k].start < s[k].end
         /\ s[k].end <= total
         /\ LocalEnd(s[k]) = s[k].local + (s[k].end - s[k].start)
  BY <1>1, <1>4, <1>5 DEF NotEmpty
<1>7. ASSUME NEW k \in DOMAIN s
      PROVE  LocalEnd(s[k]) <= size
  <2>1. s # <<>> /\ Len(s) \in DOMAIN s
    BY <1>5
  <2>2. size = LocalEnd(s[Len(s)])
    BY <1>2, <2>1
  <2> DEFINE x == LocalEnd(s[k])
             y == s[Len(s)].local
             z == LocalEnd(s[Len(s)])
  <2>3. CASE k = Len(s)
    <3>1. x \in Int
      BY <1>6
    <3> QED
      BY <2>2, <2>3, <3>1
  <2>4. CASE k # Len(s)
    <3>1. k < Len(s)
      BY <1>5, <2>4
    <3>2. x <= y
      BY <1>3, <2>1, <3>1
    <3>3. x \in Int /\ y \in Int /\ z \in Int /\ y <= z
      BY <1>6, <2>1
    <3> HIDE DEF x, y, z
    <3>4. x <= z
      BY <3>2, <3>3
    <3> QED
      BY <2>2, <3>4 DEF x, z
  <2> QED
    BY <2>3, <2>4
<1> QED
  BY <1>1, <1>2, <1>3, <1>5, <1>6, <1>7 DEF s, total, size

\* An element lies within the shard of its rank.
LEMMA PlaceInShard ==
  ASSUME NEW g, SoundGroup(g), NEW i \in 0 .. g.layout.total - 1
  PROVE  /\ Keeper(g, i) \in RanksOf(g.n)
         /\ Place(g, i) \in Nat /\ Place(g, i) < g.sizes[Keeper(g, i)]
<1>1. PICK r, k : LiesAt(g, i, r, k)
  BY ElementLies
<1> DEFINE s == g.layout.ranks[r]
           size == g.sizes[r]
           at == Place(g, i)
<1>2. r \in RanksOf(g.n) /\ Keeper(g, i) = r /\ k \in DOMAIN s
  BY <1>1 DEF LiesAt
<1>3. /\ s[k].start \in Nat /\ s[k].end \in Nat /\ s[k].local \in Nat
      /\ LocalEnd(s[k]) = s[k].local + (s[k].end - s[k].start)
      /\ LocalEnd(s[k]) <= size /\ size \in Nat
  BY <1>2, RankSegments
<1>4. at = s[k].local + i - s[k].start /\ s[k].start <= i /\ i < s[k].end
  BY <1>1 DEF LiesAt
<1>5. i \in Nat
  BY GroupTyped
<1> HIDE DEF s, size, at
<1>6. at \in Nat /\ at < size
  <2> DEFINE a == s[k].start
             b == s[k].end
             l == s[k].local
             e == LocalEnd(s[k])
  <2>1. a \in Nat /\ b \in Nat /\ l \in Nat /\ e = l + (b - a) /\ e <= size /\ size \in Nat
        /\ at = l + i - a /\ a <= i /\ i < b /\ i \in Nat
    BY <1>3, <1>4, <1>5
  <2> HIDE DEF a, b, l, e
  <2> QED
    BY <2>1
<1> QED
  BY <1>2, <1>6 DEF at, size

\* No two elements are kept at one place.
LEMMA SamePlace ==
  ASSUME NEW g, SoundGroup(g),
         NEW i \in 0 .. g.layout.total - 1, NEW j \in 0 .. g.layout.total - 1,
         Keeper(g, i) = Keeper(g, j), Place(g, i) = Place(g, j)
  PROVE  i = j
<1>1. PICK r, k : LiesAt(g, i, r, k)
  BY ElementLies
<1>2. PICK q, m : LiesAt(g, j, q, m)
  BY ElementLies
<1> DEFINE s == g.layout.ranks[r]
           at == Place(g, i)
<1>3. r \in RanksOf(g.n) /\ k \in DOMAIN s /\ m \in DOMAIN s
  BY <1>1, <1>2 DEF LiesAt
<1>4. /\ \A x \in DOMAIN s :
           /\ s[x].start \in Nat /\ s[x].end \in Nat /\ s[x].local \in Nat
           /\ LocalEnd(s[x]) = s[x].local + (s[x].end - s[x].start)
      /\ \A a, b \in DOMAIN s : a < b => LocalEnd(s[a]) <= s[b].local
      /\ DOMAIN s = 1 .. Len(s)
  BY <1>3, RankSegments
<1>5. /\ at = s[k].local + i - s[k].start /\ s[k].start <= i /\ i < s[k].end
      /\ at = s[m].local + j - s[m].start /\ s[m].start <= j /\ j < s[m].end
  BY <1>1, <1>2 DEF LiesAt
<1>6. i \in Int /\ j \in Int /\ k \in Int /\ m \in Int
  BY <1>3, <1>4
<1> HIDE DEF s, at
<1> DEFINE a == s[k].start
           b == s[k].end
           l == s[k].local
           c == s[m].start
           d == s[m].end
           o == s[m].local
<1>7. /\ a \in Nat /\ b \in Nat /\ l \in Nat /\ c \in Nat /\ d \in Nat /\ o \in Nat
      /\ at = l + i - a /\ a <= i /\ i < b /\ at = o + j - c /\ c <= j /\ j < d
  BY <1>3, <1>4, <1>5
<1>8. (k < m => l + (b - a) <= o) /\ (m < k => o + (d - c) <= l)
  BY <1>3, <1>4
<1>9. k = m => a = c /\ l = o
  OBVIOUS
<1> HIDE DEF a, b, c, d, l, o
<1> QED
  BY <1>6, <1>7, <1>8, <1>9

\* Where an element lies in the packed buffer.
PackedAt(g, i) == PackedOffset(g.sizes, Keeper(g, i)) + Place(g, i)

\* Places in the packed buffer are places of it, and no two elements share one.
LEMMA PackedAtUnique ==
  ASSUME NEW g, SoundGroup(g)
  PROVE  /\ \A i \in 0 .. g.layout.total - 1 : PackedAt(g, i) \in 0 .. g.layout.total - 1
         /\ \A i, j \in 0 .. g.layout.total - 1 : PackedAt(g, i) = PackedAt(g, j) => i = j
<1> DEFINE n == g.n
           sizes == g.sizes
           total == g.layout.total
           O(r) == PackedOffset(sizes, r)
<1>1. n \in Nat /\ sizes \in [0 .. n - 1 -> Nat] /\ RanksOf(n) = 0 .. n - 1 /\ total \in Nat
  BY GroupTyped
<1>2. PackedOffset(sizes, n) = total
  BY DEF SoundGroup, WellSized
<1>3. \A i \in 0 .. total - 1 : /\ Keeper(g, i) \in 0 .. n - 1
                                /\ Place(g, i) \in Nat /\ Place(g, i) < sizes[Keeper(g, i)]
  BY <1>1, PlaceInShard
<1> HIDE DEF n, sizes, total
<1>4. /\ \A r \in 0 .. n : O(r) \in Nat
      /\ \A r \in 0 .. n - 1 : O(r + 1) = O(r) + sizes[r]
  BY <1>1, PackedOffsets
<1>5. \A q, r \in 0 .. n : q <= r => O(q) <= O(r)
  BY <1>1, PackedOffsetsGrow
<1> DEFINE P(i) == PackedAt(g, i)
<1>6. ASSUME NEW i \in 0 .. total - 1
      PROVE  /\ P(i) \in 0 .. total - 1 /\ P(i) \in Nat
             /\ O(Keeper(g, i)) <= P(i) /\ P(i) < O(Keeper(g, i) + 1)
             /\ Keeper(g, i) \in 0 .. n - 1
  <2> DEFINE r == Keeper(g, i)
             at == Place(g, i)
             size == sizes[r]
             a == O(r)
             b == O(r + 1)
  <2>1. r \in 0 .. n - 1 /\ at \in Nat /\ at < size /\ size \in Nat
    BY <1>1, <1>3
  <2>2. r \in 0 .. n /\ r + 1 \in 0 .. n /\ n \in 0 .. n /\ r + 1 <= n
    <3> HIDE DEF r
    <3> QED
      BY <1>1, <2>1
  <2>3. a \in Nat /\ b = a + size /\ b <= total
    BY <1>2, <1>4, <1>5, <2>1, <2>2
  <2>4. P(i) = a + at
    BY DEF PackedAt, sizes
  <2> HIDE DEF P
  <2>5. P(i) \in 0 .. total - 1 /\ a <= P(i) /\ P(i) < b
    <3> HIDE DEF a, b, at, size
    <3> QED
      BY <1>1, <2>1, <2>3, <2>4
  <2> QED
    BY <2>1, <2>5
<1>7. ASSUME NEW i \in 0 .. total - 1, NEW j \in 0 .. total - 1, P(i) = P(j)
      PROVE  i = j
  <2> DEFINE q == Keeper(g, i)
             r == Keeper(g, j)
             x == P(i)
  <2>1. /\ q \in 0 .. n - 1 /\ r \in 0 .. n - 1 /\ x \in Nat
        /\ PackedOffset(sizes, q) <= x /\ x < PackedOffset(sizes, q + 1)
        /\ PackedOffset(sizes, r) <= x /\ x < PackedOffset(sizes, r + 1)
    BY <1>6, <1>7
  <2>2. q = r
    <3> HIDE DEF q, r, x
    <3> QED
      BY <1>1, <2>1, PackedPlaceUnique
  <2>3. Place(g, i) = Place(g, j)
    <3> DEFINE a == O(q)
               s == Place(g, i)
               t == Place(g, j)
    <3>1. a + s = a + t
      BY <1>7, <2>2 DEF PackedAt, sizes
    <3>2. a \in Nat /\ s \in Nat /\ t \in Nat
      <4>1. q \in 0 .. n
        <5> HIDE DEF q
        <5> QED
          BY <1>1, <2>1
      <4> QED
        BY <1>3, <1>4, <4>1
    <3> HIDE DEF a, s, t
    <3>3. s = t
      BY <3>1, <3>2
    <3> QED
      BY <3>3 DEF s, t
  <2>4. Keeper(g, i) = Keeper(g, j)
    BY <2>2
  <2> QED
    BY <1>7, <2>3, <2>4, SamePlace DEF total
<1> QED
  BY <1>6, <1>7 DEF total

\* The packed buffer has each element at its place.
LEMMA PackPlaces ==
  ASSUME NEW g, SoundGroup(g), NEW full, DOMAIN full = 0 .. g.layout.total - 1,
         NEW i \in 0 .. g.layout.total - 1
  PROVE  Pack(g, full)[PackedAt(g, i)] = full[i]
<1> DEFINE E == 0 .. g.layout.total - 1
           at == PackedAt(g, i)
<1>1. at \in E /\ \A j \in E : PackedAt(g, j) = at => j = i
  BY PackedAtUnique
<1>2. Pack(g, full) = [k \in E |-> full[CHOOSE j \in E : PackedAt(g, j) = k]]
  BY DEF Pack, PackedAt
<1>3. PackedAt(g, i) = at /\ i \in E
  OBVIOUS
<1> HIDE DEF E, at
<1>4. (CHOOSE j \in E : PackedAt(g, j) = at) = i
  BY <1>1, <1>3
<1>5. Pack(g, full)[at] = full[i]
  BY <1>1, <1>2, <1>4
<1> QED
  BY <1>5 DEF at

\* The shard of the rank that keeps an element has it at its place.
LEMMA ShardHolds ==
  ASSUME NEW g, SoundGroup(g), NEW full, DOMAIN full = 0 .. g.layout.total - 1,
         NEW i \in 0 .. g.layout.total - 1
  PROVE  LocalShard(g, full, Keeper(g, i))[Place(g, i)] = full[i]
<1> DEFINE r == Keeper(g, i)
           at == Place(g, i)
           size == g.sizes[r]
           from == PackedOffset(g.sizes, r)
           packed == Pack(g, full)
<1>1. at \in Nat /\ at < size /\ size \in Nat
  <2>1. r \in RanksOf(g.n) /\ at \in Nat /\ at < size
    BY PlaceInShard
  <2>2. g.sizes \in [RanksOf(g.n) -> Nat]
    BY GroupTyped
  <2> QED
    BY <2>1, <2>2
<1>2. packed[from + at] = full[i]
  BY PackPlaces DEF PackedAt
<1>3. LocalShard(g, full, r) = [k \in 0 .. size - 1 |-> packed[from + k]]
  BY DEF LocalShard, Slice
<1>4. LocalShard(g, full, r)[at] = packed[from + at]
  <2>1. at \in 0 .. size - 1
    <3> HIDE DEF at, size
    <3> QED
      BY <1>1
  <2> HIDE DEF at, size, from, packed
  <2> QED
    BY <1>3, <2>1
<1> QED
  BY <1>2, <1>4

\* Where the packed buffer begins and ends for the rank that keeps an element.
LEMMA RankAt ==
  ASSUME NEW g, SoundGroup(g), NEW i \in 0 .. g.layout.total - 1
  PROVE  /\ PackedAt(g, i) - PackedOffset(g.sizes, Keeper(g, i)) = Place(g, i)
         /\ PackedOffset(g.sizes, Keeper(g, i)) \in Nat
         /\ (CHOOSE q \in RanksOf(g.n) : /\ PackedOffset(g.sizes, q) <= PackedAt(g, i)
                                         /\ PackedAt(g, i) < PackedOffset(g.sizes, q + 1))
              = Keeper(g, i)
<1> DEFINE n == g.n
           sizes == g.sizes
           r == Keeper(g, i)
           at == Place(g, i)
           m == PackedAt(g, i)
           a == PackedOffset(sizes, r)
           b == PackedOffset(sizes, r + 1)
           size == sizes[r]
<1>1. n \in Nat /\ sizes \in [0 .. n - 1 -> Nat] /\ RanksOf(n) = 0 .. n - 1
  BY GroupTyped
<1>2. r \in 0 .. n - 1 /\ at \in Nat /\ at < size /\ size \in Nat
  BY <1>1, PlaceInShard
<1>3. m = a + at
  BY DEF PackedAt
<1> HIDE DEF n, sizes, r, at, m, size
<1>4. a \in Nat /\ b = a + size
  <2>1. r \in 0 .. n
    BY <1>1, <1>2
  <2>2. \A q \in 0 .. n : PackedOffset(sizes, q) \in Nat
    BY <1>1, PackedOffsets
  <2>3. \A q \in 0 .. n - 1 : PackedOffset(sizes, q + 1) = PackedOffset(sizes, q) + sizes[q]
    BY <1>1, PackedOffsets
  <2> QED
    BY <1>2, <2>1, <2>2, <2>3 DEF size
<1> HIDE DEF a, b
<1>5. a <= m /\ m < b /\ m - a = at /\ m \in Nat
  BY <1>2, <1>3, <1>4
<1>6. \A q \in 0 .. n - 1 :
         PackedOffset(sizes, q) <= m /\ m < PackedOffset(sizes, q + 1) => q = r
  BY <1>1, <1>2, <1>5, PackedPlaceUnique DEF a, b
<1>7. PackedOffset(sizes, r) <= m /\ m < PackedOffset(sizes, r + 1)
  BY <1>5 DEF a, b
<1>8. (CHOOSE q \in 0 .. n - 1 : PackedOffset(sizes, q) <= m /\ m < PackedOffset(sizes, q + 1)) = r
  BY <1>2, <1>6, <1>7
<1>9. (CHOOSE q \in RanksOf(n) : PackedOffset(sizes, q) <= m /\ m < PackedOffset(sizes, q + 1)) = r
  BY <1>1, <1>8
<1> QED
  BY <1>4, <1>5, <1>9 DEF n, sizes, m, a, r, at

\* Where each rank has one range, in rank order, the packed buffer is the full one.
LEMMA ChunksInPlace ==
  ASSUME NEW g, SoundGroup(g), RankChunks(g), NEW i \in 0 .. g.layout.total - 1
  PROVE  PackedAt(g, i) = i
<1>1. PICK r, k : LiesAt(g, i, r, k)
  BY ElementLies
<1> DEFINE s == g.layout.ranks[r]
           from == PackedOffset(g.sizes, r)
<1>2. r \in RanksOf(g.n) /\ k \in DOMAIN s /\ Keeper(g, i) = r
      /\ Place(g, i) = s[k].local + i - s[k].start
  BY <1>1 DEF LiesAt
<1>3. Len(s) \in Nat /\ DOMAIN s = 1 .. Len(s)
  BY <1>2, RankSegments
<1>4. s # <<>>
  BY <1>2, <1>3
<1>5. Len(s) = 1 /\ s[1].local = 0 /\ s[1].start = from
  BY <1>2, <1>4, GroupTyped DEF RankChunks
<1>6. k = 1
  BY <1>2, <1>3, <1>5
<1>7. from \in Nat
  BY <1>2, RankAt
<1>8. i \in Nat
  BY GroupTyped
<1> HIDE DEF s, from
<1>9. Place(g, i) = 0 + i - from
  BY <1>2, <1>5, <1>6
<1>10. PackedAt(g, i) = from + Place(g, i)
  BY <1>2 DEF PackedAt, from
<1> QED
  BY <1>7, <1>8, <1>9, <1>10

\* A layout the runtime shards as a matrix has one range for each rank.
LEMMA DirectIsChunks ==
  ASSUME NEW g, SoundGroup(g), Direct(g)
  PROVE  RankChunks(g)
<1> SUFFICES ASSUME NEW r \in DOMAIN g.sizes, g.layout.ranks[r] # <<>>
             PROVE  /\ Len(g.layout.ranks[r]) = 1 /\ g.layout.ranks[r][1].local = 0
                    /\ g.layout.ranks[r][1].start = PackedOffset(g.sizes, r)
  BY DEF RankChunks
<1> DEFINE s == g.layout.ranks[r]
           size == g.sizes[r]
<1>1. r \in RanksOf(g.n) /\ DOMAIN g.layout.ranks = RanksOf(g.n) /\ size \in Nat
  BY GroupTyped
<1>2. Blame(g.layout, r) = "none"
  BY <1>1 DEF Direct, MatrixShardCompatible
<1>3. ShardSizes(g.layout) = g.sizes
  BY DEF SoundGroup, WellSized
<1>4. size > 0
  <2>1. size = LocalEnd(s[Len(s)]) /\ Len(s) \in DOMAIN s
    <3>1. /\ Len(s) \in Nat /\ DOMAIN s = 1 .. Len(s)
          /\ size = IF s = <<>> THEN 0 ELSE LocalEnd(s[Len(s)])
      BY <1>1, RankSegments
    <3>2. Len(s) # 0
      <4>1. s \in Seq(Segments(g.layout.total))
        BY <1>1, GroupTyped
      <4> QED
        BY <4>1
    <3> QED
      BY <3>1, <3>2
  <2> DEFINE c == s[Len(s)]
  <2>2. /\ c.start \in Nat /\ c.end \in Nat /\ c.local \in Nat /\ c.start < c.end
        /\ LocalEnd(c) = c.local + (c.end - c.start)
    BY <1>1, <2>1, RankSegments
  <2>3. size = LocalEnd(c)
    BY <2>1
  <2> HIDE DEF c, size
  <2> QED
    BY <2>2, <2>3
<1>5. Blame(g.layout, r) =
        CASE size = 0 -> IF s = <<>> THEN "none" ELSE "empty_shard"
          [] size > 0 /\ Len(s) # 1 -> "out_of_order"
          [] size > 0 /\ Len(s) = 1 /\ s[1].local # 0 -> "local_start"
          [] size > 0 /\ Len(s) = 1 /\ s[1].local = 0 ->
               IF s[1].start = PackedOffset(g.sizes, r) THEN "none" ELSE "out_of_order"
  BY <1>3 DEF Blame
<1> HIDE DEF size, s
<1>6. size # 0
  BY <1>1, <1>4
<1>7. Len(s) = 1
  BY <1>2, <1>4, <1>5, <1>6
<1>8. s[1].local = 0
  BY <1>2, <1>4, <1>5, <1>6, <1>7
<1>9. s[1].start = PackedOffset(g.sizes, r)
  BY <1>2, <1>4, <1>5, <1>6, <1>7, <1>8
<1> QED
  BY <1>7, <1>8, <1>9 DEF s

\* Equal shards begin at the multiples of their size.
LEMMA EqualOffsets ==
  ASSUME NEW n \in Nat, NEW sizes \in [0 .. n - 1 -> Nat], NEW size \in Nat,
         \A r \in 0 .. n - 1 : sizes[r] = size
  PROVE  \A r \in 0 .. n : PackedOffset(sizes, r) = r * size
<1> DEFINE S == {r \in Nat : r <= n => PackedOffset(sizes, r) = r * size}
<1>0. /\ PackedOffset(sizes, 0) = 0
      /\ \A r \in 0 .. n - 1 : PackedOffset(sizes, r + 1) = PackedOffset(sizes, r) + sizes[r]
  BY PackedOffsets
<1>1. 0 \in S
  BY <1>0
<1>2. ASSUME NEW r \in 1 .. n, r - 1 \in S
      PROVE  r \in S
  <2>1. r - 1 \in 0 .. n - 1 /\ (r - 1) + 1 = r /\ r \in Nat /\ r - 1 <= n
    OBVIOUS
  <2>2. PackedOffset(sizes, r) = PackedOffset(sizes, r - 1) + sizes[r - 1]
    BY <1>0, <2>1
  <2>3. PackedOffset(sizes, r) = (r - 1) * size + size
    BY <1>2, <2>1, <2>2
  <2>4. (r - 1) * size + size = r * size
    BY <2>1
  <2> QED
    BY <2>1, <2>3, <2>4
<1> HIDE DEF S
<1>3. 0 .. n \subseteq S
  BY <1>1, <1>2, BoundedInduction
<1> QED
  BY <1>3 DEF S

\* The row and column of an element of equal rows.
LEMMA Dividing ==
  ASSUME NEW r \in Nat, NEW size \in Nat, NEW at \in Nat, at < size
  PROVE  (r * size + at) \div size = r /\ (r * size + at) % size = at
<1> DEFINE x == r * size + at
<1>1. x \in Nat /\ size > 0
  OBVIOUS
<1> DEFINE q == x \div size
           m == x % size
<1>2. q \in Int /\ m \in 0 .. size - 1 /\ x = size * q + m
  BY <1>1
<1>3. CASE q = r
  <2>1. size * q = r * size
    BY <1>2, <1>3
  <2> QED
    BY <1>2, <1>3, <2>1
<1>4. CASE q > r
  <2>1. q - r >= 1
    BY <1>2, <1>4
  <2>2. size * (q - r) >= size
    BY <1>1, <1>2, <2>1
  <2>3. size * (q - r) = size * q - r * size
    BY <1>2
  <2> QED
    BY <1>1, <1>2, <2>2, <2>3
<1>5. CASE q < r
  <2>1. r - q >= 1
    BY <1>2, <1>5
  <2>2. size * (r - q) >= size
    BY <1>1, <1>2, <2>1
  <2>3. size * (r - q) = r * size - size * q
    BY <1>2
  <2> QED
    BY <1>1, <1>2, <2>2, <2>3
<1> QED
  BY <1>2, <1>3, <1>4, <1>5

-----------------------------------------------------------------------------
(* What ranks keep and send *)

\* Every rank has its own part of the parameters.
ShardsRight == \A q \in Members : proc[q].shard = LocalShard(group, Params(group, version), q)

\* The elements of the group's buffer.
Elements == 0 .. group.layout.total - 1

\* The parameters are a buffer of all elements.
LEMMA ParamsShape ==
  ASSUME NEW g, NEW v
  PROVE  DOMAIN Params(g, v) = 0 .. g.layout.total - 1
BY DEF Params

\* A buffer that has every element is the parameters.
LEMMA WholeWhen ==
  ASSUME NEW full, DOMAIN full = Elements,
         full = [i \in DOMAIN full |-> full[i]],
         \A i \in Elements : full[i] = Params(group, version)[i]
  PROVE  full = Params(group, version)
<1> DEFINE whole == Params(group, version)
<1>1. DOMAIN whole = Elements /\ whole = [i \in DOMAIN whole |-> whole[i]]
  BY DEF Params, Elements
<1> HIDE DEF whole
<1>2. \A i \in Elements : full[i] = whole[i]
  BY DEF whole
<1>3. full = whole
  BY <1>1, <1>2
<1> QED
  BY <1>3 DEF whole

\* What is at its place in the shard of its rank.
LEMMA KeptElement ==
  ASSUME SoundGroup(group), NEW i \in Elements
  PROVE  LocalShard(group, Params(group, version), Keeper(group, i))[Place(group, i)]
           = Params(group, version)[i]
<1> DEFINE g == group
           whole == Params(group, version)
<1>1. DOMAIN whole = 0 .. g.layout.total - 1
  BY ParamsShape
<1>2. SoundGroup(g) /\ i \in 0 .. g.layout.total - 1
  BY DEF Elements
<1> HIDE DEF g, whole
<1>3. LocalShard(g, whole, Keeper(g, i))[Place(g, i)] = whole[i]
  BY <1>1, <1>2, ShardHolds
<1> QED
  BY <1>3 DEF g, whole

\* Every element is kept by a rank.
LEMMA KeeperIsMember ==
  ASSUME SoundGroup(group), NEW i \in Elements
  PROVE  Keeper(group, i) \in Members
<1> DEFINE g == group
<1>1. SoundGroup(g) /\ i \in 0 .. g.layout.total - 1
  BY DEF Elements
<1> HIDE DEF g
<1>2. Keeper(g, i) \in RanksOf(g.n)
  BY <1>1, PlaceInShard
<1> QED
  BY <1>2 DEF g, Members

\* The rank that keeps an element has its value, at the place the layout says.
LEMMA KeptInShard ==
  ASSUME SoundGroup(group), ShardsRight, NEW i \in Elements
  PROVE  proc[Keeper(group, i)].shard[Place(group, i)] = Params(group, version)[i]
BY KeptElement, KeeperIsMember DEF ShardsRight

\* Segments sent from every rank make up all parameters.
LEMMA SegmentsSentWhole ==
  ASSUME SoundGroup(group), ShardsRight, NEW full, DOMAIN full = Elements
  PROVE  SegmentsSent(full) = Params(group, version)
<1> DEFINE sent == SegmentsSent(full)
<1>1. /\ DOMAIN sent = Elements
      /\ sent = [i \in DOMAIN sent |-> sent[i]]
      /\ \A i \in Elements : sent[i] = proc[Keeper(group, i)].shard[Place(group, i)]
  BY DEF SegmentsSent, ShardOf
<1> HIDE DEF sent
<1>2. \A i \in Elements : sent[i] = Params(group, version)[i]
  BY <1>1, KeptInShard
<1>3. sent = Params(group, version)
  BY <1>1, <1>2, WholeWhen
<1> QED
  BY <1>3 DEF sent

\* The element of the packed shards that lies in the shard of its rank.
LEMMA KeptInPacked ==
  ASSUME SoundGroup(group), NEW i \in Elements, NEW m, m = PackedAt(group, i)
  PROVE  LET q == CHOOSE q \in Members : PackedOffset(group.sizes, q) <= m
                                         /\ m < PackedOffset(group.sizes, q + 1)
         IN  q = Keeper(group, i) /\ m - PackedOffset(group.sizes, q) = Place(group, i)
<1> DEFINE g == group
<1>1. SoundGroup(g) /\ i \in 0 .. g.layout.total - 1
  BY DEF Elements
<1> HIDE DEF g
<1>2. /\ PackedAt(g, i) - PackedOffset(g.sizes, Keeper(g, i)) = Place(g, i)
      /\ (CHOOSE q \in RanksOf(g.n) : /\ PackedOffset(g.sizes, q) <= PackedAt(g, i)
                                      /\ PackedAt(g, i) < PackedOffset(g.sizes, q + 1))
           = Keeper(g, i)
  BY <1>1, RankAt
<1> QED
  BY <1>2 DEF g, Members

\* Contiguous shards sent from every rank make up all parameters.
LEMMA ChunksSentWhole ==
  ASSUME SoundGroup(group), ShardsRight, RankChunks(group), NEW full, DOMAIN full = Elements
  PROVE  ChunksSent(full) = Params(group, version)
<1> DEFINE sent == ChunksSent(full)
           Q(i) == CHOOSE q \in Members : PackedOffset(group.sizes, q) <= i
                                          /\ i < PackedOffset(group.sizes, q + 1)
<1>1. /\ DOMAIN sent = Elements
      /\ sent = [i \in DOMAIN sent |-> sent[i]]
      /\ \A i \in Elements : sent[i] = proc[Q(i)].shard[i - PackedOffset(group.sizes, Q(i))]
  BY DEF ChunksSent, ShardOf
<1>2. ASSUME NEW i \in Elements
      PROVE  Q(i) = Keeper(group, i) /\ i - PackedOffset(group.sizes, Q(i)) = Place(group, i)
  <2> DEFINE g == group
  <2>1. SoundGroup(g) /\ RankChunks(g) /\ i \in 0 .. g.layout.total - 1
    BY DEF Elements
  <2> HIDE DEF g
  <2>2. i = PackedAt(g, i)
    BY <2>1, ChunksInPlace
  <2>3. i = PackedAt(group, i)
    BY <2>2 DEF g
  <2> QED
    BY <2>3, KeptInPacked
<1> HIDE DEF sent, Q
<1>3. \A i \in Elements : sent[i] = Params(group, version)[i]
  BY <1>1, <1>2, KeptInShard
<1>4. sent = Params(group, version)
  BY <1>1, <1>3, WholeWhen
<1> QED
  BY <1>4 DEF sent

\* Equal rows, unpacked, make up all parameters.
LEMMA EqualRowsWhole ==
  ASSUME SoundGroup(group), ShardsRight, Direct(group), NEW full, DOMAIN full = Elements
  PROVE  EqualRows(full) = Params(group, version)
<1> DEFINE rows == EqualRows(full)
           size == group.sizes[0]
<1>1. /\ DOMAIN rows = Elements
      /\ rows = [i \in DOMAIN rows |-> rows[i]]
      /\ \A i \in Elements : rows[i] = proc[i \div size].shard[i % size]
  BY DEF EqualRows, ShardOf
<1>2. ASSUME NEW i \in Elements
      PROVE  i \div size = Keeper(group, i) /\ i % size = Place(group, i)
  <2> DEFINE g == group
             n == g.n
             sizes == g.sizes
             r == Keeper(g, i)
             at == Place(g, i)
  <2>1. SoundGroup(g) /\ Direct(g) /\ i \in 0 .. g.layout.total - 1 /\ size = g.sizes[0]
    BY DEF Elements
  <2> HIDE DEF g
  <2>2. RankChunks(g)
    BY <2>1, DirectIsChunks
  <2>3. PackedAt(g, i) = i
    BY <2>1, <2>2, ChunksInPlace
  <2>4. n \in Nat /\ sizes \in [0 .. n - 1 -> Nat] /\ RanksOf(n) = 0 .. n - 1 /\ 0 \in 0 .. n - 1
        /\ DOMAIN sizes = RanksOf(n)
    BY <2>1, GroupTyped
  <2>5. r \in 0 .. n - 1 /\ at \in Nat /\ at < sizes[r]
    BY <2>1, <2>4, PlaceInShard
  <2>6. size \in Nat /\ \A q \in 0 .. n - 1 : sizes[q] = size
    BY <2>1, <2>4 DEF Direct
  <2>7. i = PackedOffset(sizes, r) + at
    BY <2>3 DEF PackedAt
  <2> HIDE DEF n, sizes, r, at, size
  <2>8. PackedOffset(sizes, r) = r * size
    <3>1. r \in 0 .. n
      BY <2>4, <2>5
    <3>2. \A q \in 0 .. n : PackedOffset(sizes, q) = q * size
      BY <2>4, <2>6, EqualOffsets
    <3> QED
      BY <3>1, <3>2
  <2>9. r \in Nat /\ at < size
    BY <2>4, <2>5, <2>6
  <2>10. (r * size + at) \div size = r /\ (r * size + at) % size = at
    BY <2>5, <2>6, <2>9, Dividing
  <2> QED
    BY <2>7, <2>8, <2>10 DEF r, at, g
<1> HIDE DEF rows, size
<1>3. \A i \in Elements : rows[i] = Params(group, version)[i]
  BY <1>1, <1>2, KeptInShard
<1>4. rows = Params(group, version)
  BY <1>1, <1>3, WholeWhen
<1> QED
  BY <1>4 DEF rows

\* What a rank copies of its own shard.
LEMMA CopiedSegments ==
  ASSUME SoundGroup(group), ShardsRight, NEW r \in Members, NEW full, DOMAIN full = Elements
  PROVE  LET copied == CopySegments(group, full, proc[r].shard, r)
         IN  /\ DOMAIN copied = Elements
             /\ \A i \in Elements :
                  copied[i] = IF Keeper(group, i) = r THEN Params(group, version)[i] ELSE full[i]
<1> DEFINE copied == CopySegments(group, full, proc[r].shard, r)
           segs == group.layout.ranks[r]
<1>1. /\ DOMAIN copied = Elements
      /\ \A i \in Elements :
           copied[i] = IF SegmentsWith(segs, i) # {} THEN proc[r].shard[PlaceIn(segs, i)]
                       ELSE full[i]
  BY DEF CopySegments
<1>2. ASSUME NEW i \in Elements
      PROVE  /\ SegmentsWith(segs, i) # {} <=> Keeper(group, i) = r
             /\ Keeper(group, i) = r => PlaceIn(segs, i) = Place(group, i)
  <2> DEFINE g == group
  <2>1. SoundGroup(g) /\ i \in 0 .. g.layout.total - 1 /\ r \in RanksOf(g.n)
    BY DEF Elements, Members
  <2>2. segs = g.layout.ranks[r]
    OBVIOUS
  <2>3. g.place[i] = PlaceIn(g.layout.ranks[g.keeper[i]], i)
    BY <2>1 DEF SoundGroup, WellPlaced
  <2> HIDE DEF g, segs
  <2>4. PICK q, k : LiesAt(g, i, q, k)
    BY <2>1, ElementLies
  <2>5. SegmentsWith(segs, i) # {} <=> Keeper(g, i) = r
    BY <2>1, <2>2, <2>4 DEF LiesAt
  <2>6. Keeper(g, i) = r => PlaceIn(segs, i) = Place(g, i)
    BY <2>2, <2>3 DEF Keeper, Place
  <2> QED
    BY <2>5, <2>6 DEF g
<1> HIDE DEF copied, segs
<1>3. \A i \in Elements :
        copied[i] = IF Keeper(group, i) = r THEN Params(group, version)[i] ELSE full[i]
  BY <1>1, <1>2, KeptInShard
<1> QED
  BY <1>1, <1>3 DEF copied

\* One rank has all parameters in its shard.
LEMMA CopyIsWhole ==
  ASSUME SoundGroup(group), ShardsRight, group.n = 1, NEW r \in Members
  PROVE  [i \in Elements |-> proc[r].shard[i]] = Params(group, version)
<1> DEFINE copied == [i \in Elements |-> proc[r].shard[i]]
<1>1. r = 0 /\ RankChunks(group)
  BY DEF Members, RanksOf, SoundGroup, WellSized
<1>2. ASSUME NEW i \in Elements
      PROVE  Keeper(group, i) = r /\ Place(group, i) = i
  <2> DEFINE g == group
  <2>1. SoundGroup(g) /\ RankChunks(g) /\ i \in 0 .. g.layout.total - 1 /\ g.n = 1
    BY <1>1 DEF Elements
  <2> HIDE DEF g
  <2>2. PackedAt(g, i) = i /\ Keeper(g, i) \in RanksOf(g.n) /\ Place(g, i) \in Nat
    BY <2>1, ChunksInPlace, PlaceInShard
  <2>3. Keeper(g, i) = 0
    BY <2>1, <2>2 DEF RanksOf
  <2>4. PackedOffset(g.sizes, 0) = 0
    <3> DEFINE n == g.n
               sizes == g.sizes
    <3>1. n \in Nat /\ sizes \in [0 .. n - 1 -> Nat]
      BY <2>1, GroupTyped
    <3> HIDE DEF n, sizes
    <3>2. PackedOffset(sizes, 0) = 0
      BY <3>1, PackedOffsets
    <3> QED
      BY <3>2 DEF sizes
  <2>5. Place(g, i) = i
    BY <2>2, <2>3, <2>4 DEF PackedAt
  <2> QED
    BY <1>1, <2>3, <2>5 DEF g
<1>3. /\ DOMAIN copied = Elements
      /\ copied = [i \in DOMAIN copied |-> copied[i]]
      /\ \A i \in Elements : copied[i] = proc[r].shard[i]
  OBVIOUS
<1> HIDE DEF copied
<1>4. \A i \in Elements : copied[i] = Params(group, version)[i]
  BY <1>2, <1>3, KeptInShard
<1>5. copied = Params(group, version)
  BY <1>3, <1>4, WholeWhen
<1> QED
  BY <1>5 DEF copied

\* Whatever the ranks were sent aside is unpacked to its place.
LEMMA UnpackedWhole ==
  ASSUME SoundGroup(group), NEW wire, NEW packed,
         \A q \in Members : wire[q] = LocalShard(group, Params(group, version), q),
         packed = [i \in Elements |->
                     LET q == CHOOSE q \in Members : PackedOffset(group.sizes, q) <= i
                                                    /\ i < PackedOffset(group.sizes, q + 1)
                     IN  wire[q][i - PackedOffset(group.sizes, q)]]
  PROVE  /\ Unpack(group, packed) = Params(group, version)
         /\ [i \in Elements |-> wire[Keeper(group, i)][Place(group, i)]] = Params(group, version)
<1> DEFINE unpacked == Unpack(group, packed)
           aside == [i \in Elements |-> wire[Keeper(group, i)][Place(group, i)]]
           Q(m) == CHOOSE q \in Members : PackedOffset(group.sizes, q) <= m
                                          /\ m < PackedOffset(group.sizes, q + 1)
<1>1. /\ DOMAIN unpacked = Elements
      /\ unpacked = [i \in DOMAIN unpacked |-> unpacked[i]]
      /\ \A i \in Elements : unpacked[i] = packed[PackedAt(group, i)]
  BY DEF Unpack, PackedAt
<1>2. /\ DOMAIN aside = Elements
      /\ aside = [i \in DOMAIN aside |-> aside[i]]
      /\ \A i \in Elements : aside[i] = wire[Keeper(group, i)][Place(group, i)]
  OBVIOUS
<1>3. ASSUME NEW i \in Elements
      PROVE  wire[Keeper(group, i)][Place(group, i)] = Params(group, version)[i]
  BY KeptElement, KeeperIsMember
<1>4. ASSUME NEW i \in Elements
      PROVE  packed[PackedAt(group, i)] = wire[Keeper(group, i)][Place(group, i)]
  <2> DEFINE m == PackedAt(group, i)
  <2>1. m \in Elements
    <3> DEFINE g == group
    <3>1. SoundGroup(g) /\ i \in 0 .. g.layout.total - 1
      BY DEF Elements
    <3> HIDE DEF g
    <3>2. PackedAt(g, i) \in 0 .. g.layout.total - 1
      BY <3>1, PackedAtUnique
    <3> QED
      BY <3>2 DEF g, Elements
  <2>2. m = PackedAt(group, i)
    OBVIOUS
  <2> HIDE DEF m
  <2>3. Q(m) = Keeper(group, i) /\ m - PackedOffset(group.sizes, Q(m)) = Place(group, i)
    BY <2>2, KeptInPacked
  <2>4. packed[m] = wire[Q(m)][m - PackedOffset(group.sizes, Q(m))]
    BY <2>1
  <2> HIDE DEF Q
  <2>5. packed[m] = wire[Keeper(group, i)][Place(group, i)]
    BY <2>3, <2>4
  <2> QED
    BY <2>2, <2>5
<1> HIDE DEF unpacked, aside
<1>5. \A i \in Elements : unpacked[i] = Params(group, version)[i]
  BY <1>1, <1>3, <1>4
<1>6. unpacked = Params(group, version)
  BY <1>1, <1>5, WholeWhen
<1>7. \A i \in Elements : aside[i] = Params(group, version)[i]
  BY <1>2, <1>3
<1>8. aside = Params(group, version)
  BY <1>2, <1>7, WholeWhen
<1> QED
  BY <1>6, <1>8 DEF unpacked, aside

\* The broadcasts: each has its range from the rank that keeps it, and together
\* they bring every element.
LEMMA BroadcastsAre ==
  ASSUME NEW g, SoundGroup(g)
  PROVE  /\ \A m \in 1 .. Len(Broadcasts(g)) :
              /\ Broadcasts(g)[m].kind = "broadcast"
              /\ \A i \in 0 .. g.layout.total - 1 :
                   Broadcasts(g)[m].start <= i /\ i < Broadcasts(g)[m].end
                     => Broadcasts(g)[m].root = Keeper(g, i)
         /\ \A i \in 0 .. g.layout.total - 1 :
              \E m \in 1 .. Len(Broadcasts(g)) :
                Broadcasts(g)[m].start <= i /\ i < Broadcasts(g)[m].end
<1> DEFINE b == RankBroadcasts(g)
           n == g.n
           all == Broadcasts(g)
           E == 0 .. g.layout.total - 1
<1>1. n \in Nat /\ RanksOf(n) = 0 .. n - 1 /\ all = Concat(b, n)
  BY GroupTyped, BroadcastsTyped
<1>2. \A r \in 0 .. n - 1 : b[r] \in Seq(OpSet)
  BY <1>1, RankBroadcastsTyped
<1>3. \A r \in 0 .. n - 1 :
        /\ Len(b[r]) = Len(Fused(g)[r])
        /\ DOMAIN Fused(g)[r] = 1 .. Len(b[r])
        /\ \A k \in 1 .. Len(b[r]) :
             /\ b[r][k].kind = "broadcast" /\ b[r][k].root = r
             /\ b[r][k].start = Fused(g)[r][k].start /\ b[r][k].end = Fused(g)[r][k].end
  <2> SUFFICES ASSUME NEW r \in 0 .. n - 1
               PROVE  /\ Len(b[r]) = Len(Fused(g)[r])
                      /\ DOMAIN Fused(g)[r] = 1 .. Len(b[r])
                      /\ \A k \in 1 .. Len(b[r]) :
                           /\ b[r][k].kind = "broadcast" /\ b[r][k].root = r
                           /\ b[r][k].start = Fused(g)[r][k].start /\ b[r][k].end = Fused(g)[r][k].end
    OBVIOUS
  <2>1. r \in RanksOf(g.n)
    BY <1>1
  <2>2. Len(b[r]) = Len(Fused(g)[r]) /\ Fused(g)[r] \in Seq(Segments(g.layout.total))
    BY <2>1, RankBroadcastsTyped, FusedTyped
  <2>3. b[r] = [k \in DOMAIN Fused(g)[r] |->
                  Op("broadcast", r, Fused(g)[r][k].start, Fused(g)[r][k].end)]
    BY <2>1 DEF RankBroadcasts
  <2>4. DOMAIN Fused(g)[r] = 1 .. Len(b[r])
    BY <2>2
  <2> QED
    BY <2>2, <2>3, <2>4 DEF Op
<1>4. ASSUME NEW i \in E, NEW r \in 0 .. n - 1
      PROVE  (\E k \in 1 .. Len(b[r]) : b[r][k].start <= i /\ i < b[r][k].end) <=> r = Keeper(g, i)
  <2>1. r \in RanksOf(g.n) /\ i \in Nat
    BY <1>1, GroupTyped
  <2>2. i \in Within(Fused(g)[r]) <=> i \in Within(g.layout.ranks[r])
    BY <2>1, FusedTyped
  <2> DEFINE f == Fused(g)[r]
             s == g.layout.ranks[r]
  <2>3. PICK q, k : LiesAt(g, i, q, k)
    BY ElementLies
  <2>4. (\E j \in DOMAIN s : s[j].start <= i /\ i < s[j].end) <=> r = Keeper(g, i)
    <3>1. SegmentsWith(s, i) # {} <=> r = Keeper(g, i)
      BY <2>1, <2>3 DEF LiesAt
    <3> QED
      BY <3>1 DEF SegmentsWith
  <2>5. \A j \in DOMAIN s : s[j].start \in Int /\ s[j].end \in Int
    <3>1. \A j \in DOMAIN s : s[j].start \in Nat /\ s[j].end \in Nat
      BY <2>1, RankSegments
    <3> QED
      BY <3>1
  <2>6. \A j \in DOMAIN f : f[j].start \in Int /\ f[j].end \in Int
    <3> DEFINE A == Segments(g.layout.total)
    <3>1. \A x \in A : x.start \in Int /\ x.end \in Int
      BY GroupTyped DEF Segments
    <3>2. f \in Seq(A)
      BY <2>1, FusedTyped
    <3> HIDE DEF A, f
    <3> QED
      BY <3>1, <3>2
  <2>7. i \in Within(s) <=> \E j \in DOMAIN s : s[j].start <= i /\ i < s[j].end
    <3> HIDE DEF s
    <3> QED
      BY <2>1, <2>5 DEF Within
  <2>8. i \in Within(f) <=> \E j \in DOMAIN f : f[j].start <= i /\ i < f[j].end
    <3> HIDE DEF f
    <3> QED
      BY <2>1, <2>6 DEF Within
  <2>9. (\E k2 \in 1 .. Len(b[r]) : b[r][k2].start <= i /\ i < b[r][k2].end)
           <=> \E j \in DOMAIN f : f[j].start <= i /\ i < f[j].end
    <3> HIDE DEF b
    <3> QED
      BY <1>3
  <2> QED
    BY <2>2, <2>4, <2>7, <2>8, <2>9
<1> HIDE DEF b, n, all
<1>5. PICK o : Holds(all, b, n, o)
  BY <1>1, <1>2, ConcatHolds
<1>6. \A m \in 1 .. Len(all) : \E r \in 0 .. n - 1 : \E k \in 1 .. Len(b[r]) : all[m] = b[r][k]
  <2> SUFFICES ASSUME NEW m \in 1 .. Len(all)
               PROVE  \E r \in 0 .. n - 1 : \E k \in 1 .. Len(b[r]) : all[m] = b[r][k]
    OBVIOUS
  <2>1. m \in 1 .. o[n] /\ m \in Nat
    BY <1>5 DEF Holds
  <2>2. PICK r \in 0 .. n - 1 : o[r] < m /\ m <= o[r + 1]
    BY <1>5, <2>1 DEF Holds
  <2>3. o[r] \in Nat /\ o[r + 1] = o[r] + Len(b[r]) /\ Len(b[r]) \in Nat
    BY <1>1, <1>2, <1>5, <2>2 DEF Holds
  <2>4. m - o[r] \in 1 .. Len(b[r]) /\ o[r] + (m - o[r]) = m
    BY <2>1, <2>2, <2>3
  <2>5. all[o[r] + (m - o[r])] = b[r][m - o[r]]
    BY <1>5, <2>2, <2>4 DEF Holds
  <2> QED
    BY <2>2, <2>4, <2>5
<1>7. ASSUME NEW m \in 1 .. Len(all)
      PROVE  /\ all[m].kind = "broadcast"
             /\ \A i \in E : all[m].start <= i /\ i < all[m].end => all[m].root = Keeper(g, i)
  <2>1. PICK r \in 0 .. n - 1 : \E k \in 1 .. Len(b[r]) : all[m] = b[r][k]
    BY <1>6
  <2>2. PICK k \in 1 .. Len(b[r]) : all[m] = b[r][k]
    BY <2>1
  <2> QED
    BY <1>3, <1>4, <2>2
<1>8. ASSUME NEW i \in E
      PROVE  \E m \in 1 .. Len(all) : all[m].start <= i /\ i < all[m].end
  <2> DEFINE r == Keeper(g, i)
  <2>1. r \in 0 .. n - 1
    BY <1>1, PlaceInShard DEF n
  <2> HIDE DEF r
  <2>2. PICK k \in 1 .. Len(b[r]) : b[r][k].start <= i /\ i < b[r][k].end
    BY <1>4, <2>1 DEF r
  <2>3. o[r] + k \in 1 .. o[n] /\ all[o[r] + k] = b[r][k] /\ Len(all) = o[n]
    BY <1>5, <2>1, <2>2 DEF Holds
  <2> QED
    BY <2>2, <2>3
<1> QED
  BY <1>7, <1>8 DEF all

\* The kinds of collectives that reduce.
ReduceKinds == {"reduce", "scatter_padded", "scatter_list", "scatter_full", "scatter_param", "sum_param"}

\* The collectives of a reduce are not those of a gather.
LEMMA ReduceOpsReduce ==
  ASSUME how.reduce \in Reducers, NEW used
  PROVE  \A m \in DOMAIN ReduceOpsFor(used) : ReduceOpsFor(used)[m].kind \in ReduceKinds
<1>1. \A kind : \A m \in DOMAIN One(kind) : One(kind)[m].kind = kind
  BY DEF One, Op
<1>2. \A compact : \A m \in DOMAIN OwnerReduces(group, compact) :
         OwnerReduces(group, compact)[m].kind = "reduce"
  BY DEF OwnerReduces, Op
<1>3. \A kind : \A m \in DOMAIN ParamOps(group, used, kind) : ParamOps(group, used, kind)[m].kind = kind
  BY DEF ParamOps, Op
<1>4. \A compact : \A m \in DOMAIN CustomReduces(group, compact) :
         CustomReduces(group, compact)[m].kind \in ReduceKinds
  BY <1>1, <1>2 DEF CustomReduces, ReduceKinds
<1>5. \A compact : \A m \in DOMAIN BucketOps(group, compact) :
         BucketOps(group, compact)[m].kind \in ReduceKinds
  BY <1>1, <1>2, <1>4 DEF BucketOps, ReduceKinds
<1> QED
  BY <1>1, <1>3, <1>5 DEF ReduceOpsFor, Reducers, ReduceKinds

-----------------------------------------------------------------------------
(* Gathers *)

\* Ranks run a collective of the same exchange, and the same one of it.
LEMMA DeliversNext ==
  ASSUME InOrder, Deliver
  PROVE  \E k \in 1 .. Len(jobs), m \in Nat :
           /\ m \in 1 .. Len(OpsFor(jobs[k], 0))
           /\ delivered + 1 = Len(Course[k - 1]) + m
           /\ \A r \in Members : /\ proc[r].running /\ proc[r].next = k
                                 /\ proc[r].issued[delivered + 1] = OpsFor(jobs[k], 0)[m]
<1>1. /\ ProgramOK /\ 0 \in Members /\ delivered \in Nat
      /\ \A r \in Members : RankInOrder(r) /\ Len(proc[r].issued) > delivered
  BY DeliverDoes DEF InOrder
<1>2. Len(jobs) \in Nat
  BY <1>1, CourseJoins DEF CourseJoined
<1>3. ASSUME NEW r \in Members
      PROVE  /\ proc[r].running /\ proc[r].next \in 1 .. Len(jobs)
             /\ proc[r].issued = Course[proc[r].next]
             /\ Len(Course[proc[r].next - 1]) <= delivered
             /\ delivered < Len(Course[proc[r].next])
  <2>1. /\ proc[r].next \in 1 .. Len(jobs) + 1 /\ proc[r].running \in BOOLEAN
        /\ proc[r].running => proc[r].next <= Len(jobs)
        /\ proc[r].issued = Course[Begun(r)]
        /\ Len(Course[proc[r].next - 1]) <= delivered
    BY <1>1 DEF RankInOrder
  <2>2. Len(proc[r].issued) \in Nat /\ Len(proc[r].issued) > delivered
    BY <1>1, RankNumbers
  <2>3. proc[r].running
    <3> SUFFICES ASSUME ~proc[r].running PROVE FALSE
      BY <2>1
    <3>1. Len(proc[r].issued) <= delivered
      BY <2>1 DEF Begun
    <3> QED
      BY <1>1, <2>2, <3>1
  <2>4. Begun(r) = proc[r].next
    BY <2>3 DEF Begun
  <2>5. proc[r].next \in 1 .. Len(jobs)
    BY <1>2, <2>1, <2>3
  <2>6. delivered < Len(Course[proc[r].next])
    BY <1>1, <2>1, <2>2, <2>4
  <2> QED
    BY <2>1, <2>3, <2>4, <2>5, <2>6
<1> DEFINE k == proc[0].next
<1>4. k \in 1 .. Len(jobs)
  BY <1>1, <1>3
<1>5. ASSUME NEW a \in 1 .. Len(jobs), NEW b \in 1 .. Len(jobs), a < b,
             Len(Course[b - 1]) <= delivered, delivered < Len(Course[a])
      PROVE  FALSE
  <2>1. a \in 0 .. Len(jobs) /\ b - 1 \in 0 .. Len(jobs) /\ a <= b - 1
    BY <1>2, <1>5
  <2>2. Len(Course[a]) <= Len(Course[b - 1]) /\ Len(Course[a]) \in Nat /\ Len(Course[b - 1]) \in Nat
    BY <1>1, <2>1, CourseRuns
  <2> QED
    BY <1>1, <1>5, <2>2
<1>6. ASSUME NEW r \in Members
      PROVE  proc[r].next = k
  <2> DEFINE j == proc[r].next
  <2>1. /\ j \in 1 .. Len(jobs) /\ Len(Course[j - 1]) <= delivered /\ delivered < Len(Course[j])
        /\ k \in 1 .. Len(jobs) /\ Len(Course[k - 1]) <= delivered /\ delivered < Len(Course[k])
    BY <1>1, <1>3
  <2> HIDE DEF j, k
  <2>2. ~(j < k) /\ ~(k < j)
    BY <1>5, <2>1
  <2>3. j = k
    BY <1>2, <2>1, <2>2
  <2> QED
    BY <2>3 DEF j
<1>7. /\ proc[0].issued = Course[k] /\ Len(Course[k - 1]) <= delivered
      /\ delivered < Len(Course[k])
  BY <1>1, <1>3
<1>8. ASSUME NEW r \in Members
      PROVE  proc[r].running /\ proc[r].issued = Course[k]
  BY <1>3, <1>6
<1> HIDE DEF k
<1> DEFINE ops == OpsFor(jobs[k], 0)
           from == Len(Course[k - 1])
           m == delivered + 1 - from
<1>9. /\ Course[k] = Course[k - 1] \o ops /\ Course[k - 1] \in Seq(OpSet) /\ from \in Nat
  BY <1>1, <1>4, CourseRuns
<1>10. ops \in Seq(OpSet)
  <2>1. k \in DOMAIN jobs
    BY <1>1, <1>4, CourseJoins DEF CourseJoined
  <2> QED
    BY <1>1, <2>1, OpsAgree
<1>11. Len(ops) \in Nat
  BY <1>10
<1>12. /\ Len(Course[k]) = from + Len(ops)
       /\ \A j \in 1 .. Len(ops) : Course[k][from + j] = ops[j]
  <2> DEFINE s == Course[k - 1]
             A == OpSet
  <2>1. s \in Seq(A) /\ ops \in Seq(A) /\ from = Len(s) /\ Course[k] = s \o ops
    BY <1>9, <1>10
  <2> HIDE DEF s, A, ops, from
  <2> QED
    BY <2>1
<1> HIDE DEF ops, from
<1>13. m \in 1 .. Len(ops) /\ from + m = delivered + 1
  BY <1>1, <1>7, <1>9, <1>11, <1>12 DEF from
<1>14. Course[k][delivered + 1] = ops[m]
  BY <1>12, <1>13
<1>15. m \in Nat
  BY <1>13
<1> HIDE DEF m
<1> QED
  BY <1>4, <1>6, <1>8, <1>13, <1>14, <1>15 DEF ops, from

\* How a group gathers.
Way == CHOOSE kind \in GatherKinds(group) : TRUE

\* What the group must look like for the way it gathers.
LEMMA WayIs ==
  ASSUME SoundGroup(group), how.impl \in Impls, GatherKinds(group) # {}
  PROVE  /\ \A kind \in GatherKinds(group) : kind = Way
         /\ Way \in GatherWays
         /\ Way = "copy" => group.n = 1
         /\ Way = "equal" => Direct(group)
         /\ Way = "chunks" => RankChunks(group)
<1>1. Way \in GatherKinds(group)
  BY DEF Way
<1>2. \A a, b \in GatherKinds(group) : a = b /\ a \in GatherWays
  BY OneWayToGather
<1>3. CustomGather(group) = "chunks" => RankChunks(group)
  <2>1. \A batched : SendRecvGather(group, batched) = "chunks" => RankChunks(group)
    BY DEF SendRecvGather, UnevenGather
  <2>2. UnevenGather(group) # "chunks"
    BY DEF UnevenGather
  <2>3. ResolvedImpl(group) \in Impls \ {"auto"}
    BY DEF ResolvedImpl, Impls
  <2> QED
    BY <2>1, <2>2, <2>3 DEF CustomGather, Impls
<1>4. CustomGather(group) \notin {"copy", "equal"}
  <2>1. \A batched : SendRecvGather(group, batched) \notin {"copy", "equal"}
    BY DEF SendRecvGather, UnevenGather
  <2>2. UnevenGather(group) \notin {"copy", "equal"}
    BY DEF UnevenGather
  <2>3. ResolvedImpl(group) \in Impls \ {"auto"}
    BY DEF ResolvedImpl, Impls
  <2> QED
    BY <2>1, <2>2, <2>3 DEF CustomGather, Impls
<1> HIDE DEF Way
<1>5. /\ Way = "copy" => group.n = 1
      /\ Way = "equal" => Direct(group)
      /\ Way = "chunks" => RankChunks(group)
  BY <1>1, <1>3, <1>4 DEF GatherKinds
<1> QED
  BY <1>1, <1>2, <1>5

\* The element is in one of the first broadcasts.
Covered(g, i, m) == \E j \in 1 .. m : Broadcasts(g)[j].start <= i /\ i < Broadcasts(g)[j].end

\* What a rank has of the parameters after some collectives of a gather: all of
\* them in the full buffer, or beside it, or what it keeps itself and what was
\* broadcast.
HasSofar(g, way, v, full, wire, r, m) ==
  /\ DOMAIN full = 0 .. g.layout.total - 1 /\ full = [i \in DOMAIN full |-> full[i]]
  /\ way = "copy" => full = Params(g, v)
  /\ way = "broadcast" =>
       \A i \in 0 .. g.layout.total - 1 :
         Keeper(g, i) = r \/ Covered(g, i, m) => full[i] = Params(g, v)[i]
  /\ way = "all_reduce" =>
       IF m = 0
       THEN \A i \in 0 .. g.layout.total - 1 :
              full[i] = IF Keeper(g, i) = r THEN Params(g, v)[i] ELSE {}
       ELSE full = Params(g, v)
  /\ way \in {"segments", "chunks", "equal"} /\ m > 0 => full = Params(g, v)
  /\ way \in {"padded", "uneven"} /\ m > 0 =>
       \A q \in RanksOf(g.n) : wire[q] = LocalShard(g, Params(g, v), q)

\* What a rank has after m collectives of the gather it is in.
Gathers(r, m) == HasSofar(group, Way, version, proc[r].full, proc[r].wire, r, m)

\* How a group gathers is settled.
WaySettled ==
  /\ SoundGroup(group) /\ Way \in GatherWays
  /\ Way = "copy" => group.n = 1
  /\ Way = "equal" => Direct(group)
  /\ Way = "chunks" => RankChunks(group)

\* A gather that has run none of its collectives has what it starts with.
LEMMA HoldingAtStart ==
  ASSUME WaySettled, ShardsRight, NEW r \in Members, NEW wire
  PROVE  HasSofar(group, Way, version, FullAtStart(r, Way), wire, r, 0)
<1> DEFINE full == FullAtStart(r, Way)
           k == group.layout.total
           g == group
<1>1. SoundGroup(group) /\ k \in Nat /\ Way \in GatherWays /\ Elements = 0 .. k - 1
  BY GroupTyped DEF WaySettled, Elements
<1>2. \A i : ~Covered(g, i, 0)
  BY DEF Covered
<1>3. CASE Way = "copy"
  <2>1. full = [i \in Elements |-> proc[r].shard[i]]
    BY <1>3 DEF FullAtStart, Elements
  <2>2. full = Params(group, version)
    BY <1>1, <1>3, <2>1, CopyIsWhole DEF WaySettled
  <2>3. DOMAIN full = 0 .. k - 1 /\ full = [i \in DOMAIN full |-> full[i]]
    BY <2>1 DEF Elements
  <2> HIDE DEF full
  <2> QED
    BY <1>3, <2>2, <2>3 DEF HasSofar, full
<1>4. CASE Way = "broadcast"
  <2> DEFINE before == Garbage(k)
  <2>1. DOMAIN before = Elements
    BY DEF Garbage, Elements
  <2>2. full = CopySegments(group, before, proc[r].shard, r)
    BY <1>4 DEF FullAtStart
  <2>3. full = [i \in DOMAIN full |-> full[i]]
    BY <2>2 DEF CopySegments
  <2> HIDE DEF before
  <2>4. /\ DOMAIN full = Elements
        /\ \A i \in Elements : full[i] = IF Keeper(group, i) = r THEN Params(group, version)[i] ELSE before[i]
    BY <1>1, <2>1, <2>2, CopiedSegments
  <2> HIDE DEF full
  <2> QED
    BY <1>2, <1>4, <2>3, <2>4 DEF HasSofar, Elements, full
<1>5. CASE Way = "all_reduce"
  <2> DEFINE before == Zeros(k)
  <2>1. DOMAIN before = Elements /\ \A i \in Elements : before[i] = {}
    BY DEF Zeros, Elements
  <2>2. full = CopySegments(group, before, proc[r].shard, r)
    BY <1>5 DEF FullAtStart
  <2>3. full = [i \in DOMAIN full |-> full[i]]
    BY <2>2 DEF CopySegments
  <2> HIDE DEF before
  <2>4. /\ DOMAIN full = Elements
        /\ \A i \in Elements : full[i] = IF Keeper(group, i) = r THEN Params(group, version)[i] ELSE before[i]
    BY <1>1, <2>1, <2>2, CopiedSegments
  <2> HIDE DEF full
  <2>5. \A i \in Elements : full[i] = IF Keeper(group, i) = r THEN Params(group, version)[i] ELSE {}
    BY <2>1, <2>4
  <2> QED
    BY <1>5, <2>3, <2>4, <2>5 DEF HasSofar, Elements, full
<1>6. CASE Way \notin {"copy", "broadcast", "all_reduce"}
  <2>1. full = Garbage(k)
    BY <1>6 DEF FullAtStart
  <2>2. DOMAIN full = 0 .. k - 1 /\ full = [i \in DOMAIN full |-> full[i]]
    BY <2>1 DEF Garbage
  <2> HIDE DEF full
  <2> QED
    BY <1>6, <2>2 DEF HasSofar, full
<1> QED
  BY <1>3, <1>4, <1>5, <1>6

\* When every collective of the gather has run, the rank has all parameters.
LEMMA HoldingAtEnd ==
  ASSUME WaySettled, NEW r \in Members, proc[r].kind = Way,
         Gathers(r, Len(GatherOps(group, Way)))
  PROVE  FullAtEnd(r) = Params(group, version)
<1> DEFINE full == proc[r].full
           wire == proc[r].wire
           whole == Params(group, version)
           n == Len(GatherOps(group, Way))
<1>1. SoundGroup(group) /\ Way \in GatherWays
  BY DEF WaySettled
<1>2. DOMAIN full = Elements /\ full = [i \in DOMAIN full |-> full[i]]
  BY DEF Gathers, HasSofar, Elements
<1>3. ASSUME Way \notin {"copy", "broadcast"}
      PROVE  n > 0
  <2>1. GatherOps(group, Way) = One(Way)
    BY <1>3 DEF GatherOps
  <2>2. Len(One(Way)) = 1
    BY DEF One
  <2> QED
    BY <2>1, <2>2
<1>4. CASE Way = "broadcast"
  <2>1. GatherOps(group, Way) = Broadcasts(group)
    BY <1>4 DEF GatherOps
  <2> DEFINE g == group
  <2>2. SoundGroup(g) /\ g = group
    BY <1>1
  <2> HIDE DEF g
  <2>3. \A i \in 0 .. g.layout.total - 1 : \E m \in 1 .. Len(Broadcasts(g)) :
           Broadcasts(g)[m].start <= i /\ i < Broadcasts(g)[m].end
    BY <2>2, BroadcastsAre
  <2>4. \A i \in Elements : Covered(group, i, n)
    BY <2>1, <2>2, <2>3 DEF Covered, Elements
  <2>5. \A i \in Elements : full[i] = whole[i]
    BY <1>4, <2>4 DEF Gathers, HasSofar, Elements
  <2> HIDE DEF full, whole
  <2>6. full = whole
    BY <1>1, <1>2, <2>5, WholeWhen DEF whole
  <2>7. FullAtEnd(r) = full
    BY <1>4 DEF FullAtEnd, full
  <2> QED
    BY <2>6, <2>7 DEF whole
<1>5. CASE Way \in {"padded", "uneven"}
  <2> DEFINE packed == [i \in Elements |->
                          LET q == CHOOSE q \in Members : PackedOffset(group.sizes, q) <= i
                                                         /\ i < PackedOffset(group.sizes, q + 1)
                          IN  wire[q][i - PackedOffset(group.sizes, q)]]
             aside == [i \in Elements |-> wire[Keeper(group, i)][Place(group, i)]]
  <2>1. n > 0
    BY <1>3, <1>5
  <2>2. \A q \in Members : wire[q] = LocalShard(group, Params(group, version), q)
    BY <1>5, <2>1 DEF Gathers, HasSofar, Members
  <2>3. FullAtEnd(r) = IF Way = "padded" THEN Unpack(group, packed) ELSE aside
    BY <1>5 DEF FullAtEnd, Elements
  <2> HIDE DEF wire
  <2>4. Unpack(group, packed) = Params(group, version) /\ aside = Params(group, version)
    BY <1>1, <2>2, UnpackedWhole
  <2> QED
    BY <2>3, <2>4
<1>6. CASE Way \in {"copy", "all_reduce", "segments", "chunks", "equal"}
  <2>1. full = whole
    BY <1>3, <1>6 DEF Gathers, HasSofar
  <2>2. FullAtEnd(r) = full
    BY <1>6 DEF FullAtEnd
  <2> QED
    BY <2>1, <2>2
<1> QED
  BY <1>1, <1>4, <1>5, <1>6 DEF GatherWays

\* The elements added up over the ranks: only one rank has each.
LEMMA AddedWhole ==
  ASSUME SoundGroup(group), NEW full, DOMAIN full = Elements,
         \A q \in Members : \A i \in Elements :
           proc[q].full[i] = IF Keeper(group, i) = q THEN Params(group, version)[i] ELSE {}
  PROVE  FullsAdded(full) = Params(group, version)
<1> DEFINE added == FullsAdded(full)
           whole == Params(group, version)
<1>1. /\ DOMAIN added = Elements
      /\ added = [i \in DOMAIN added |-> added[i]]
      /\ \A i \in Elements : added[i] = UNION {proc[q].full[i] : q \in Members}
  BY DEF FullsAdded, Sum
<1> HIDE DEF added
<1>2. ASSUME NEW i \in Elements
      PROVE  added[i] = whole[i]
  <2> DEFINE r == Keeper(group, i)
             value == whole[i]
             part == [q \in Members |-> proc[q].full[i]]
  <2>1. r \in Members
    BY KeeperIsMember
  <2>2. \A q \in Members : part[q] = IF r = q THEN value ELSE {}
    OBVIOUS
  <2>3. added[i] = UNION {part[q] : q \in Members}
    <3>1. {part[q] : q \in Members} = {proc[q].full[i] : q \in Members}
      OBVIOUS
    <3> QED
      BY <1>1, <3>1
  <2> HIDE DEF part, value, r
  <2>4. UNION {part[q] : q \in Members} = value
    <3>1. \A x : x \in UNION {part[q] : q \in Members} <=> \E q \in Members : x \in part[q]
      OBVIOUS
    <3>2. \A x : (\E q \in Members : x \in part[q]) <=> x \in value
      BY <2>1, <2>2
    <3> QED
      BY <3>1, <3>2
  <2> QED
    BY <2>3, <2>4 DEF value
<1>3. added = whole
  BY <1>1, <1>2, WholeWhen
<1> QED
  BY <1>3 DEF added

\* What the collectives of a gather do to a rank.
LEMMA GatherRan ==
  ASSUME Shaped, NEW r \in Members, NEW op
  PROVE  /\ op.kind = "broadcast" => Ran(op, r).full = BroadcastFrom(op, proc[r].full)
         /\ op.kind = "segments" => Ran(op, r).full = SegmentsSent(proc[r].full)
         /\ op.kind = "chunks" => Ran(op, r).full = ChunksSent(proc[r].full)
         /\ op.kind = "equal" => Ran(op, r).full = EqualRows(proc[r].full)
         /\ op.kind = "all_reduce" => Ran(op, r).full = FullsAdded(proc[r].full)
         /\ op.kind \in {"padded", "uneven"} =>
              Ran(op, r).full = proc[r].full /\ Ran(op, r).wire = ShardsAside
         /\ op.kind \in ReduceKinds => Ran(op, r).full = proc[r].full
<1>1. DOMAIN proc[r] = Fields
  BY DEF Shaped
<1> QED
  BY <1>1 DEF Ran, Fields, ReduceKinds

\* One more collective of a gather brings what it should.
LEMMA HoldingMore ==
  ASSUME WaySettled, ShardsRight, Shaped, NEW m \in Nat, m \in 1 .. Len(GatherOps(group, Way)),
         \A q \in Members : Gathers(q, m - 1),
         NEW op, op = GatherOps(group, Way)[m], NEW r \in Members
  PROVE  HasSofar(group, Way, version, Ran(op, r).full, Ran(op, r).wire, r, m)
<1> DEFINE full == proc[r].full
           after == Ran(op, r)
           whole == Params(group, version)
<1>1. SoundGroup(group) /\ Way \in GatherWays
  BY DEF WaySettled
<1>2. DOMAIN full = Elements /\ full = [i \in DOMAIN full |-> full[i]]
  BY DEF Gathers, HasSofar, Elements
<1>3. DOMAIN whole = Elements /\ whole = [i \in DOMAIN whole |-> whole[i]]
  BY DEF Params, Elements
<1>4. CASE Way = "broadcast"
  <2>1. op = Broadcasts(group)[m] /\ m \in 1 .. Len(Broadcasts(group))
    BY <1>4 DEF GatherOps
  <2> DEFINE g == group
  <2>2. SoundGroup(g) /\ g = group
    BY <1>1
  <2> HIDE DEF g
  <2>3. \A j \in 1 .. Len(Broadcasts(g)) :
          /\ Broadcasts(g)[j].kind = "broadcast"
          /\ \A i \in 0 .. g.layout.total - 1 :
               Broadcasts(g)[j].start <= i /\ i < Broadcasts(g)[j].end
                 => Broadcasts(g)[j].root = Keeper(g, i)
    BY <2>2, BroadcastsAre
  <2>4. /\ op.kind = "broadcast"
        /\ \A i \in Elements : op.start <= i /\ i < op.end => op.root = Keeper(group, i)
    BY <2>1, <2>2, <2>3 DEF Elements
  <2>5. after.full = BroadcastFrom(op, full)
    BY <2>4, GatherRan
  <2>6. /\ DOMAIN after.full = Elements
        /\ after.full = [i \in DOMAIN after.full |-> after.full[i]]
        /\ \A i \in Elements :
             after.full[i] = IF op.start <= i /\ i < op.end THEN proc[op.root].full[i] ELSE full[i]
    BY <1>2, <2>5 DEF BroadcastFrom
  <2>7. ASSUME NEW i \in Elements, Keeper(group, i) = r \/ Covered(group, i, m)
        PROVE  after.full[i] = whole[i]
    <3>1. CASE op.start <= i /\ i < op.end
      <4>1. op.root = Keeper(group, i) /\ op.root \in Members
        BY <2>4, <3>1, KeeperIsMember, <1>1
      <4>2. proc[op.root].full[i] = whole[i]
        BY <1>4, <4>1 DEF Gathers, HasSofar, Elements
      <4> QED
        BY <2>6, <3>1, <4>2
    <3>2. CASE ~(op.start <= i /\ i < op.end)
      <4>1. Covered(group, i, m) => Covered(group, i, m - 1)
        <5> SUFFICES ASSUME NEW j \in 1 .. m,
                            Broadcasts(group)[j].start <= i, i < Broadcasts(group)[j].end
                     PROVE  j \in 1 .. m - 1
          BY DEF Covered
        <5>1. j # m
          BY <2>1, <3>2
        <5> QED
          BY <5>1
      <4>2. full[i] = whole[i]
        BY <1>4, <2>7, <4>1 DEF Gathers, HasSofar, Elements
      <4> QED
        BY <2>6, <3>2, <4>2
    <3> QED
      BY <3>1, <3>2
  <2> QED
    BY <1>4, <2>6, <2>7 DEF HasSofar, Elements
<1>5. ASSUME Way \notin {"copy", "broadcast"}
      PROVE  op.kind = Way /\ m = 1
  <2>1. GatherOps(group, Way) = One(Way)
    BY <1>5 DEF GatherOps
  <2>2. Len(One(Way)) = 1 /\ One(Way)[1].kind = Way
    BY DEF One, Op
  <2> QED
    BY <2>1, <2>2
<1>6. CASE Way \in {"segments", "chunks", "equal"}
  <2>1. after.full = whole
    BY <1>1, <1>2, <1>5, <1>6, GatherRan, SegmentsSentWhole, ChunksSentWhole, EqualRowsWhole
       DEF WaySettled
  <2> QED
    BY <1>3, <1>6, <2>1 DEF HasSofar, Elements
<1>7. CASE Way = "all_reduce"
  <2>1. \A q \in Members : \A i \in Elements :
          proc[q].full[i] = IF Keeper(group, i) = q THEN Params(group, version)[i] ELSE {}
    <3>1. m - 1 = 0
      BY <1>5, <1>7
    <3>2. \A q \in Members : Gathers(q, 0)
      BY <3>1
    <3> QED
      BY <1>7, <3>2 DEF Gathers, HasSofar, Elements
  <2>2. FullsAdded(full) = whole
    BY <1>1, <1>2, <2>1, AddedWhole
  <2>3. after.full = whole
    BY <1>5, <1>7, <2>2, GatherRan
  <2> QED
    BY <1>3, <1>5, <1>7, <2>3 DEF HasSofar, Elements
<1>8. CASE Way \in {"padded", "uneven"}
  <2>1. after.full = full /\ after.wire = ShardsAside
    BY <1>5, <1>8, GatherRan
  <2>2. \A q \in RanksOf(group.n) : after.wire[q] = LocalShard(group, Params(group, version), q)
    BY <2>1 DEF ShardsAside, ShardOf, ShardsRight, Members
  <2> QED
    BY <1>2, <1>8, <2>1, <2>2 DEF HasSofar, Elements
<1>9. Way # "copy"
  BY DEF GatherOps
<1> QED
  BY <1>1, <1>4, <1>6, <1>7, <1>8, <1>9 DEF GatherWays

-----------------------------------------------------------------------------
(* Every gather is right *)

\* How many collectives of the exchange of a rank have run.
Done(r) == delivered - Len(Course[proc[r].next - 1])

\* A rank that gathers has got what was run of its gather; another has all
\* parameters or none.
GathersRight(r) ==
  IF proc[r].running /\ Job(r).kind = "gather"
  THEN proc[r].kind = Way /\ Gathers(r, Done(r))
  ELSE proc[r].full = <<>> \/ proc[r].full = Params(group, version)

\* A program with a gather has settled how it gathers.
LEMMA SettledFor ==
  ASSUME ProgramOK, NEW k \in DOMAIN jobs, jobs[k].kind = "gather"
  PROVE  /\ WaySettled
         /\ \A kind \in GatherKinds(group) : kind = Way
         /\ \A r : OpsFor(jobs[k], r) = GatherOps(group, Way)
<1>1. SoundGroup(group) /\ how.impl \in Impls /\ GatherKinds(group) # {}
  BY JobTyped
<1>2. \A r : OpsFor(jobs[k], r) = GatherOps(group, Way)
  BY DEF OpsFor, Way
<1> QED
  BY <1>1, <1>2, WayIs DEF WaySettled

\* How a group gathers stays while it and the configuration do.
LEMMA WayStays ==
  ASSUME how' = how, group' = group
  PROVE  Way' = Way
<1>1. GatherKinds(group)' = GatherKinds(group)
  BY GatherKindsStay
<1>2. Way' = CHOOSE kind \in GatherKinds(group)' : TRUE
  BY DEF Way
<1> QED
  BY <1>1, <1>2 DEF Way

\* A rank that does not move keeps what it has gathered.
LEMMA GatherStays ==
  ASSUME NEW r \in Members, GathersRight(r), UNCHANGED <<group, how, jobs, delivered, version>>,
         Same(r, {"full", "wire", "kind", "running", "next"})
  PROVE  GathersRight(r)'
<1>1. Way' = Way /\ Course' = Course
  BY WayStays, CourseStays
<1>2. /\ proc'[r].full = proc[r].full /\ proc'[r].wire = proc[r].wire
      /\ proc'[r].kind = proc[r].kind /\ proc'[r].running = proc[r].running
      /\ proc'[r].next = proc[r].next
  BY DEF Same
<1>3. Done(r)' = Done(r) /\ Job(r)' = Job(r)
  BY <1>1, <1>2 DEF Done, Job
<1>4. Gathers(r, Done(r)) => Gathers(r, Done(r))'
  BY <1>1, <1>2, <1>3 DEF Gathers
<1> QED
  BY <1>1, <1>2, <1>3, <1>4 DEF GathersRight

\* Starting a gather is right.
LEMMA StartsGather ==
  ASSUME InOrder, ShardsRight, NEW r \in Members, StartGather(r)
  PROVE  GathersRight(r)'
<1> DEFINE k == proc[r].next
<1>1. ProgramOK /\ Shaped /\ RankInOrder(r) /\ delivered \in Nat
  BY DEF InOrder, ProgramOK
<1>2. ~proc[r].running /\ k <= Len(jobs) /\ jobs[k].kind = "gather"
  BY <1>1 DEF StartGather, ToStart, Job
<1>3. k \in DOMAIN jobs
  BY <1>1, <1>2, CourseJoins DEF RankInOrder, CourseJoined
<1>4. WaySettled /\ \A kind \in GatherKinds(group) : kind = Way
  BY <1>1, <1>2, <1>3, SettledFor
<1>5. proc'[r].full = FullAtStart(r, Way) /\ proc'[r].kind = Way
  BY <1>1, <1>4, StartGatherDoes
<1>6. /\ OnlyRank(r) /\ proc'[r].running = TRUE /\ proc'[r].next = k
  BY <1>1, StartGatherDoes DEF Same, Fields
<1>7. /\ UNCHANGED <<group, how, jobs, delivered, version>> /\ Way' = Way /\ Course' = Course
  BY <1>6, WayStays, CourseStays DEF OnlyRank
<1>8. Done(r)' = 0
  <2>1. proc[r].issued = Course[k - 1]
    BY <1>1, <1>2 DEF RankInOrder, Begun
  <2>2. /\ Len(Course[k - 1]) \in Nat
        /\ Len(Course[k - 1]) <= delivered /\ delivered <= Len(Course[k - 1])
    BY <1>1, <2>1, RankNumbers DEF RankInOrder
  <2>3. delivered - Len(Course[k - 1]) = 0
    BY <1>1, <2>2
  <2> HIDE DEF k
  <2> QED
    BY <1>6, <1>7, <2>3 DEF Done
<1>9. HasSofar(group, Way, version, FullAtStart(r, Way), proc'[r].wire, r, 0)
  <2> DEFINE wire == proc'[r].wire
  <2> HIDE DEF wire
  <2>1. HasSofar(group, Way, version, FullAtStart(r, Way), wire, r, 0)
    BY <1>4, HoldingAtStart
  <2> QED
    BY <2>1 DEF wire
<1>10. Gathers(r, Done(r))'
  BY <1>5, <1>7, <1>8, <1>9 DEF Gathers
<1>11. proc'[r].running /\ Job(r)'.kind = "gather"
  BY <1>2, <1>6, <1>7 DEF Job
<1> QED
  BY <1>5, <1>7, <1>10, <1>11 DEF GathersRight

\* Finishing a gather leaves the whole parameters, unpacked.
LEMMA FinishesGather ==
  ASSUME InOrder, NEW r \in Members, GathersRight(r), FinishGather(r)
  PROVE  GathersRight(r)'
<1> DEFINE k == proc[r].next
<1>1. ProgramOK /\ Shaped /\ RankInOrder(r) /\ delivered \in Nat
  BY DEF InOrder, ProgramOK
<1>2. proc[r].running /\ jobs[k].kind = "gather" /\ Waited(r) /\ Job(r).kind = "gather"
  BY <1>1 DEF FinishGather, Running, Job
<1>3. k \in DOMAIN jobs /\ k \in 1 .. Len(jobs)
  BY <1>1, <1>2, CourseJoins DEF RankInOrder, CourseJoined
<1>4. WaySettled /\ OpsFor(jobs[k], 0) = GatherOps(group, Way)
  BY <1>1, <1>2, <1>3, SettledFor
<1>5. proc[r].kind = Way /\ Gathers(r, Done(r))
  BY <1>2 DEF GathersRight
<1>6. Done(r) = Len(GatherOps(group, Way))
  <2> DEFINE ops == GatherOps(group, Way)
             s == Course[k - 1]
             A == OpSet
  <2>1. Course[k] = s \o ops /\ s \in Seq(A)
    BY <1>1, <1>3, <1>4, CourseRuns
  <2>2. ops \in Seq(A)
    BY <1>4, GatherOpsTyped DEF WaySettled
  <2>3. proc[r].issued = Course[k]
    BY <1>1, <1>2 DEF RankInOrder, Begun
  <2>4. /\ delivered <= Len(Course[k]) /\ delivered >= Len(Course[k])
    BY <1>1, <1>2, <2>3 DEF RankInOrder, Waited
  <2>5. Done(r) = delivered - Len(s)
    BY DEF Done
  <2> HIDE DEF s, ops, A, k
  <2>6. Len(Course[k]) = Len(s) + Len(ops) /\ Len(s) \in Nat /\ Len(ops) \in Nat
    BY <2>1, <2>2
  <2>7. delivered - Len(s) = Len(ops)
    BY <1>1, <2>4, <2>6
  <2> QED
    BY <2>5, <2>7 DEF ops
<1>7. FullAtEnd(r) = Params(group, version)
  BY <1>4, <1>5, <1>6, HoldingAtEnd
<1>8. proc'[r].full = FullAtEnd(r) /\ proc'[r].running = FALSE /\ OnlyRank(r)
  BY <1>1, FinishGatherDoes
<1> QED
  BY <1>7, <1>8 DEF GathersRight, OnlyRank

\* Reduces leave the gathered parameters alone.
LEMMA ReducesLeaveGathered ==
  ASSUME InOrder, NEW r \in Members, GathersRight(r), StartReduce(r) \/ FinishReduce(r)
  PROVE  GathersRight(r)'
<1>1. ProgramOK /\ Shaped /\ RankInOrder(r)
  BY DEF InOrder
<1>2. CASE StartReduce(r)
  <2> DEFINE k == proc[r].next
  <2>1. ~proc[r].running /\ k <= Len(jobs) /\ jobs[k].kind = "reduce"
    BY <1>2 DEF StartReduce, ToStart, Job
  <2>2. k \in DOMAIN jobs
    BY <1>1, <2>1, CourseJoins DEF RankInOrder, CourseJoined
  <2>3. how.reduce \in Reducers
    BY <1>1, <2>2, JobTyped
  <2>4. OnlyRank(r) /\ proc'[r].next = k /\ proc'[r].full = proc[r].full
    BY <1>1, <1>2, <2>3, StartReduceDoes DEF Same
  <2>5. Job(r)'.kind = "reduce"
    BY <2>1, <2>4 DEF Job, OnlyRank
  <2> QED
    BY <2>1, <2>4, <2>5 DEF GathersRight, OnlyRank
<1>3. CASE FinishReduce(r)
  <2>1. Job(r).kind = "reduce"
    BY <1>3 DEF FinishReduce
  <2>2. OnlyRank(r) /\ proc'[r].running = FALSE /\ proc'[r].full = proc[r].full
    BY <1>1, <1>3, FinishReduceDoes DEF Same, Fields
  <2> QED
    BY <2>1, <2>2 DEF GathersRight, OnlyRank
<1> QED
  BY <1>2, <1>3

\* Every collective that runs brings each rank of the gather what it should.
LEMMA DeliversGathered ==
  ASSUME InOrder, ShardsRight, \A q \in Members : GathersRight(q), Deliver, NEW r \in Members
  PROVE  GathersRight(r)'
<1>1. /\ ProgramOK /\ Shaped /\ delivered \in Nat /\ delivered' = delivered + 1
      /\ UNCHANGED <<group, how, jobs, version>> /\ 0 \in Members
  BY DeliverDoes DEF InOrder
<1>2. PICK op \in OpSet : \A q \in Members :
        /\ proc[q].issued[delivered + 1] = op
        /\ proc'[q] = Ran(op, q)
        /\ Same(q, Fields \ {"full", "wire", "mem"})
  BY DeliverDoes
<1>3. PICK k \in 1 .. Len(jobs), m \in Nat :
        /\ m \in 1 .. Len(OpsFor(jobs[k], 0))
        /\ delivered + 1 = Len(Course[k - 1]) + m
        /\ \A q \in Members : /\ proc[q].running /\ proc[q].next = k
                              /\ proc[q].issued[delivered + 1] = OpsFor(jobs[k], 0)[m]
  BY DeliversNext
<1>4. k \in DOMAIN jobs
  BY <1>1, <1>3, CourseJoins DEF CourseJoined
<1>5. op = OpsFor(jobs[k], 0)[m]
  BY <1>1, <1>2, <1>3
<1>6. Way' = Way /\ Course' = Course
  BY <1>1, WayStays, CourseStays
<1>7. /\ proc'[r].running = proc[r].running /\ proc'[r].next = k /\ proc'[r].kind = proc[r].kind
      /\ proc'[r] = Ran(op, r) /\ proc[r].running
  BY <1>2, <1>3 DEF Same, Fields
<1>8. Len(Course[k - 1]) \in Nat
  <2>1. k - 1 \in 0 .. Len(jobs)
    BY <1>1, <1>3, CourseRuns
  <2> QED
    BY <1>1, <2>1, CourseRuns
<1>9. CASE jobs[k].kind = "gather"
  <2>1. WaySettled /\ OpsFor(jobs[k], 0) = GatherOps(group, Way)
    BY <1>1, <1>4, <1>9, SettledFor
  <2>2. \A q \in Members : proc[q].kind = Way /\ Gathers(q, Done(q))
    BY <1>3, <1>9 DEF GathersRight, Job
  <2>3. \A q \in Members : Done(q) = m - 1
    <3> DEFINE from == Len(Course[k - 1])
    <3>1. \A q \in Members : Done(q) = delivered - from
      BY <1>3 DEF Done
    <3> HIDE DEF from
    <3>2. delivered - from = m - 1
      BY <1>1, <1>3, <1>8 DEF from
    <3> QED
      BY <3>1, <3>2
  <2>4. HasSofar(group, Way, version, Ran(op, r).full, Ran(op, r).wire, r, m)
    BY <1>1, <1>3, <1>5, <2>1, <2>2, <2>3, HoldingMore
  <2>5. Done(r)' = m
    <3>1. Done(r)' = delivered' - Len(Course[k - 1])
      BY <1>6, <1>7 DEF Done
    <3> DEFINE from == Len(Course[k - 1])
    <3> HIDE DEF from
    <3>2. delivered' - from = m
      <4> DEFINE d == delivered'
      <4>1. from \in Nat /\ delivered + 1 = from + m /\ d = delivered + 1 /\ delivered \in Nat
        BY <1>1, <1>3, <1>8 DEF from
      <4> HIDE DEF d
      <4>2. d - from = m
        BY ONLY <4>1, <1>3
      <4> QED
        BY <4>2 DEF d
    <3> QED
      BY <3>1, <3>2 DEF from
  <2>6. Gathers(r, Done(r))'
    BY <1>1, <1>6, <1>7, <2>4, <2>5 DEF Gathers
  <2>7. proc'[r].kind = Way
    BY <1>7, <2>2
  <2>8. Job(r)'.kind = "gather" /\ proc'[r].running
    BY <1>1, <1>7, <1>9 DEF Job
  <2> QED
    BY <1>6, <2>6, <2>7, <2>8 DEF GathersRight
<1>10. CASE jobs[k].kind = "reduce"
  <2>1. how.reduce \in Reducers
    BY <1>1, <1>4, JobTyped
  <2> DEFINE used == UsedIn(jobs[k], 0)
  <2>2. op = ReduceOpsFor(used)[m] /\ m \in DOMAIN ReduceOpsFor(used)
    <3>1. OpsFor(jobs[k], 0) \in Seq(OpSet)
      BY <1>1, <1>4, OpsAgree
    <3>2. OpsFor(jobs[k], 0) = ReduceOpsFor(used)
      BY <1>10 DEF OpsFor
    <3> HIDE DEF used
    <3> QED
      BY <1>3, <1>5, <3>1, <3>2
  <2> HIDE DEF used
  <2>3. op.kind \in ReduceKinds
    BY <2>1, <2>2, ReduceOpsReduce
  <2>4. proc'[r].full = proc[r].full
    BY <1>1, <1>7, <2>3, GatherRan
  <2>5. Job(r).kind = "reduce" /\ Job(r)'.kind = "reduce"
    BY <1>1, <1>3, <1>7, <1>10 DEF Job
  <2> QED
    BY <1>1, <2>4, <2>5 DEF GathersRight
<1>11. jobs[k].kind \in {"gather", "reduce"}
  BY <1>1, <1>4, JobTyped
<1> QED
  BY <1>9, <1>10, <1>11

\* Every gather of a program is right, and its shards are the parameters'; what
\* is gathered and loaded never meet, as only what was started before the first
\* save trains.
GatherOK ==
  /\ \A r \in Members : GathersRight(r)
  /\ jobs = <<>> => \A r \in Members : proc[r].full = <<>>
  /\ jobs # <<>> => disk = NoCheckpoint
  /\ disk = NoCheckpoint /\ group # Nothing => ShardsRight

\* Fresh ranks have the shards of the parameters, and have gathered nothing.
LEMMA FreshGathers ==
  ASSUME jobs' = <<>>, NEW v, v = version',
         proc' = [r \in Members' |-> Fresh(group', r, v)]
  PROVE  GatherOK'
<1>1. ASSUME NEW r \in Members'
      PROVE  /\ proc'[r].full = <<>> /\ proc'[r].running = FALSE
             /\ proc'[r].shard = LocalShard(group', Params(group', v), r)
  <2> DEFINE g == group'
  <2>1. proc'[r] = Fresh(g, r, v)
    OBVIOUS
  <2> HIDE DEF g
  <2>2. /\ proc'[r].full = <<>> /\ proc'[r].running = FALSE
        /\ proc'[r].shard = LocalShard(g, Params(g, v), r)
    BY <2>1 DEF Fresh
  <2> QED
    BY <2>2 DEF g
<1> QED
  BY <1>1 DEF GatherOK, GathersRight, ShardsRight

\* Starting and finishing exchanges keeps the gathers right.
LEMMA HostStepsGather ==
  ASSUME InOrder, GatherOK, NEW r \in Members, HostStep(r), disk' = disk
  PROVE  GatherOK'
<1>1. /\ OnlyRank(r) /\ jobs # <<>>
  BY HostStepsInOrder
     DEF HostStep, StartGather, FinishGather, StartReduce, FinishReduce, ToStart, Running
<1>2. /\ UNCHANGED <<group, how, jobs, delivered, version>> /\ Members' = Members
      /\ Shaped /\ group # Nothing
  BY <1>1 DEF OnlyRank, Members, InOrder, ProgramOK
<1>3. ShardsRight
  BY <1>1, <1>2 DEF GatherOK
<1>4. GathersRight(r)'
  BY <1>3, StartsGather, FinishesGather, ReducesLeaveGathered DEF HostStep, GatherOK
<1>5. ASSUME NEW q \in Members \ {r}
      PROVE  GathersRight(q)'
  <2>1. Same(q, {"full", "wire", "kind", "running", "next"})
    BY <1>1 DEF OnlyRank, Same
  <2> QED
    BY <1>2, <2>1, GatherStays DEF GatherOK
<1>6. proc'[r].shard = proc[r].shard
  <2>1. how.reduce \in Reducers
    BY <1>1, HowsAssumption DEF InOrder, ProgramOK
  <2>2. CASE StartGather(r)
    BY <1>2, <2>2, StartGatherDoes DEF Same, Fields
  <2>3. CASE FinishGather(r)
    BY <1>2, <2>3, FinishGatherDoes DEF Same, Fields
  <2>4. CASE StartReduce(r)
    BY <1>2, <2>1, <2>4, StartReduceDoes DEF Same
  <2>5. CASE FinishReduce(r)
    BY <1>2, <2>5, FinishReduceDoes DEF Same, Fields
  <2> QED
    BY <2>2, <2>3, <2>4, <2>5 DEF HostStep
<1>7. ShardsRight'
  BY <1>1, <1>2, <1>3, <1>6 DEF ShardsRight, OnlyRank
<1> QED
  BY <1>1, <1>2, <1>4, <1>5, <1>7 DEF GatherOK

\* Running a collective keeps the gathers right.
LEMMA DeliverGathers ==
  ASSUME InOrder, GatherOK, Deliver, disk' = disk
  PROVE  GatherOK'
<1>1. /\ jobs # <<>> /\ UNCHANGED <<group, how, jobs, version>> /\ Members' = Members
      /\ group # Nothing
  BY DeliverDoes DEF Members, InOrder, ProgramOK
<1>2. \A r \in Members : Same(r, {"shard"})
  <2>1. \A r \in Members : Same(r, Fields \ {"full", "wire", "mem"})
    BY DeliverDoes
  <2> QED
    BY <2>1 DEF Same, Fields
<1>3. ShardsRight /\ \A r \in Members : GathersRight(r)
  BY <1>1 DEF GatherOK
<1>4. \A r \in Members : GathersRight(r)'
  BY <1>3, DeliversGathered
<1>5. ShardsRight'
  BY <1>1, <1>2, <1>3 DEF ShardsRight, Same
<1> QED
  BY <1>1, <1>4, <1>5 DEF GatherOK

\* A step that leaves the exchanges of every rank alone.
LEMMA AloneGathers ==
  ASSUME GatherOK, UNCHANGED <<group, how, jobs, delivered, version>>,
         \A r \in Members : Same(r, {"shard", "full", "wire", "kind", "running", "next"}),
         jobs # <<>> => disk' = disk, disk' = NoCheckpoint => disk = NoCheckpoint
  PROVE  GatherOK'
<1>1. Members' = Members
  BY DEF Members
<1>2. ASSUME NEW r \in Members
      PROVE  GathersRight(r)'
  <2>1. Same(r, {"full", "wire", "kind", "running", "next"})
    BY DEF Same
  <2> QED
    BY <2>1, GatherStays DEF GatherOK
<1>3. ShardsRight => ShardsRight'
  BY <1>1 DEF ShardsRight, Same
<1>4. \A r \in Members : proc'[r].full = proc[r].full
  BY DEF Same
<1> QED
  BY <1>1, <1>2, <1>3, <1>4 DEF GatherOK

\* Every step keeps the gathers right.
LEMMA StepsGather ==
  ASSUME InOrder, GatherOK, [CheckpointNext]_checkpointVars
  PROVE  GatherOK'
<1>0. Shaped /\ ProgramOK /\ \A r \in Members : RankInOrder(r)
  BY DEF InOrder
<1>1. CASE Start
  <2>1. /\ version' = 0 /\ jobs' = jobs /\ group = Nothing
        /\ proc' = [r \in Members' |-> Fresh(group', r, 0)]
    BY <1>1 DEF Start, FullyShard, Members
  <2>2. jobs = <<>>
    BY <1>0, <2>1 DEF ProgramOK
  <2> QED
    BY <2>1, <2>2, FreshGathers
<1>2. CASE Train
  <2>0. disk = NoCheckpoint /\ disk' = disk
    BY <1>2 DEF Train
  <2>1. CASE Begin
    <3>1. /\ group # Nothing /\ jobs = <<>> /\ UNCHANGED <<group, proc, version>>
          /\ Members' = Members
      BY <2>1 DEF Begin, Members
    <3>2. ShardsRight /\ \A r \in Members : proc[r].full = <<>>
      BY <2>0, <3>1 DEF GatherOK
    <3>3. \A r \in Members : proc[r].running = FALSE
      BY <1>0, <3>1 DEF RankInOrder
    <3>4. ShardsRight' /\ \A r \in Members : GathersRight(r)'
      BY <3>1, <3>2, <3>3 DEF ShardsRight, GathersRight
    <3> QED
      BY <2>0, <3>1, <3>2, <3>4 DEF GatherOK
  <2>2. ASSUME NEW r \in Members, HostStep(r) PROVE GatherOK'
    BY <2>0, <2>2, HostStepsGather
  <2>3. CASE Deliver
    BY <2>0, <2>3, DeliverGathers
  <2>4. ASSUME NEW limit \in Limits, LimitWorkspaces(0, limit) PROVE GatherOK'
    <3>1. jobs # <<>>
      BY <2>4 DEF LimitWorkspaces
    <3>2. SoundGroup(group)
      BY <1>0, <3>1 DEF ProgramOK, GroupIsSound
    <3>3. 0 \in Members
      BY <3>2, GroupTyped DEF Members
    <3>4. OnlyRank(0) /\ Same(0, Fields \ {"cache"})
      BY <1>0, <2>4, <3>3, LimitWorkspacesDoes
    <3>5. \A r \in Members : Same(r, {"shard", "full", "wire", "kind", "running", "next"})
      BY <3>4 DEF OnlyRank, Same, Fields
    <3>6. UNCHANGED <<group, how, jobs, delivered, version>>
      BY <3>4 DEF OnlyRank
    <3> QED
      BY <2>0, <3>5, <3>6, AloneGathers
  <2> QED
    BY <1>2, <2>1, <2>2, <2>3, <2>4 DEF Train
<1>3. CASE Step
  <2>1. /\ group' = group /\ jobs' = <<>> /\ Members' = Members /\ version' = version + 1
        /\ proc' = [r \in Members |-> Fresh(group, r, version + 1)]
    BY <1>3 DEF Step, End, Members
  <2> DEFINE v == version + 1
  <2> HIDE DEF v
  <2>2. proc' = [r \in Members' |-> Fresh(group', r, v)] /\ v = version'
    BY <2>1 DEF v
  <2> QED
    BY <2>1, <2>2, FreshGathers
<1>4. CASE SaveMetadata \/ (\E r \in Members : SavePayload(r)) \/ Publish
  <2>1. /\ UNCHANGED <<group, how, jobs, delivered, version, proc>>
    BY <1>4 DEF SaveMetadata, SavePayload, Publish
  <2>2. jobs # <<>> => disk' = disk
    <3>1. SaveMetadata => jobs = <<>>
      BY DEF SaveMetadata
    <3>2. (\E r \in Members : SavePayload(r)) \/ Publish => disk.meta # Nothing
      BY DEF SavePayload, Publish, Saving
    <3>3. jobs # <<>> => disk.meta = Nothing
      BY DEF GatherOK, NoCheckpoint
    <3> QED
      BY <1>4, <3>1, <3>2, <3>3
  <2>3. disk' = NoCheckpoint => disk = NoCheckpoint
    <3>1. CASE SaveMetadata
      BY <3>1 DEF SaveMetadata
    <3>2. CASE (\E r \in Members : SavePayload(r)) \/ Publish
      <4>1. disk.meta # Nothing
        BY <3>2 DEF SavePayload, Publish, Saving
      <4>2. CASE Publish
        <5>1. disk' = [disk EXCEPT !.published = TRUE]
          BY <4>2 DEF Publish
        <5> QED
          BY <4>1, <5>1 DEF NoCheckpoint
      <4>3. CASE \E r \in Members : SavePayload(r)
        <5>1. \E payload : disk' = [disk EXCEPT !.payload = payload]
          BY <4>3 DEF SavePayload
        <5> QED
          BY <4>1, <5>1 DEF NoCheckpoint
      <4> QED
        BY <3>2, <4>2, <4>3
    <3> QED
      BY <1>4, <3>1, <3>2
  <2>4. \A r \in Members : Same(r, {"shard", "full", "wire", "kind", "running", "next"})
    BY <2>1 DEF Same
  <2> QED
    BY <2>1, <2>2, <2>3, <2>4, AloneGathers
<1>5. CASE \E allowReshard \in BOOLEAN : Load(allowReshard)
  <2>1. PICK allowReshard \in BOOLEAN : Load(allowReshard)
    BY <1>5
  <2>2. /\ jobs = <<>> /\ jobs' = jobs /\ Members' = Members
        /\ \A r \in Members : Same(r, {"full", "running"})
    <3>1. \A r \in Members : Same(r, Fields \ {"shard"})
      BY <1>0, <2>1, LoadDoes
    <3> QED
      BY <1>0, <2>1, <3>1, LoadDoes DEF Same, Fields
  <2>3. disk' = disk /\ disk # NoCheckpoint
    BY <2>1 DEF Load, NoCheckpoint
  <2>4. \A r \in Members : proc'[r].full = <<>> /\ proc'[r].running = FALSE
    BY <1>0, <2>2 DEF GatherOK, Same, RankInOrder
  <2> QED
    BY <2>2, <2>3, <2>4 DEF GatherOK, GathersRight
<1>6. CASE Crash
  <2>1. group' = Nothing /\ jobs' = <<>> /\ Members' = {}
    BY <1>6 DEF Crash, Members, Nothing, RanksOf
  <2> QED
    BY <2>1 DEF GatherOK
<1>7. CASE UNCHANGED checkpointVars
  <2>1. UNCHANGED <<group, how, jobs, delivered, version, proc, disk>>
    BY <1>7 DEF checkpointVars
  <2>2. \A r \in Members : Same(r, {"shard", "full", "wire", "kind", "running", "next"})
    BY <2>1 DEF Same
  <2> QED
    BY <2>1, <2>2, AloneGathers
<1> QED
  BY <1>1, <1>2, <1>3, <1>4, <1>5, <1>6, <1>7 DEF CheckpointNext

\* Every gather of every program is right.
LEMMA ProgramsGather == CheckpointSpec /\ []GroupIsSound => [](InOrder /\ GatherOK)
<1>1. CheckpointInit => GatherOK
  <2> SUFFICES ASSUME CheckpointInit PROVE GatherOK
    OBVIOUS
  <2>1. group = Nothing /\ jobs = <<>> /\ Members = {}
    BY DEF CheckpointInit, ExchangeInit, Members, Nothing, RanksOf
  <2> QED
    BY <2>1 DEF GatherOK
<1>2. InOrder /\ GatherOK /\ [CheckpointNext]_checkpointVars => GatherOK'
  BY StepsGather
<1>3. CheckpointSpec /\ []GroupIsSound => []InOrder
  BY ProgramsInOrder
<1> QED
  BY <1>1, <1>2, <1>3, PTL DEF CheckpointSpec

\* GatheredParametersAreWhole: however the strategy, the backend, the
\* implementation and the layout make a group gather, a rank that has finished
\* has every element of every parameter, of this step and no other
\* (start_all_gather_full_params, finish_all_gather_full_params).
THEOREM GathersBringWholeParameters ==
  CheckpointSpec /\ []GroupIsSound => []GatheredParametersAreWhole
<1>1. GatherOK => GatheredParametersAreWhole
  BY DEF GatherOK, GathersRight, GatheredParametersAreWhole
<1> QED
  BY <1>1, ProgramsGather, PTL

-----------------------------------------------------------------------------
(* Sequences that lie in a buffer *)

\* A buffer has the sequences of s one after the other.
Lying(b, s, o) ==
  /\ Places(o, s)
  /\ DOMAIN b = 0 .. o[Len(s)] - 1 /\ b = [a \in DOMAIN b |-> b[a]]
  /\ \A k \in 1 .. Len(s) : \A j \in Nat :
       j < Len(s[k]) => o[k - 1] + j \in DOMAIN b /\ b[o[k - 1] + j] = s[k][j + 1]
  /\ \A a \in DOMAIN b : \E k \in 1 .. Len(s) : o[k - 1] <= a /\ a < o[k]

\* The parts of a flattened sequence lie in it one after the other.
LEMMA FlattenedLies ==
  ASSUME NEW A, NEW s \in Seq(Seq(A)), NEW all, all = Flattened(s),
         NEW b, b = [a \in 0 .. Len(all) - 1 |-> all[a + 1]]
  PROVE  \E o : Lying(b, s, o)
<1>0. PICK o : /\ Places(o, s)
               /\ Flattened(s) \in Seq(A)
               /\ Len(Flattened(s)) = o[Len(s)]
               /\ \A k \in 1 .. Len(s), i \in Nat \ {0} :
                    i <= Len(s[k]) =>
                      /\ o[k - 1] + i \in 1 .. o[Len(s)]
                      /\ Flattened(s)[o[k - 1] + i] = s[k][i]
               /\ \A j \in 1 .. o[Len(s)] :
                    \E k \in 1 .. Len(s) : o[k - 1] < j /\ j <= o[k]
  BY JoinPlaces
<1>1. /\ Places(o, s)
      /\ Len(all) = o[Len(s)]
      /\ \A k \in 1 .. Len(s), i \in Nat \ {0} :
           i <= Len(s[k]) =>
             /\ o[k - 1] + i \in 1 .. o[Len(s)]
             /\ all[o[k - 1] + i] = s[k][i]
      /\ \A j \in 1 .. o[Len(s)] : \E k \in 1 .. Len(s) : o[k - 1] < j /\ j <= o[k]
  BY <1>0
<1> DEFINE n == Len(s)
<1>2. n \in Nat /\ o \in [0 .. n -> Nat] /\ \A k \in 1 .. n : Len(s[k]) \in Nat
  BY <1>1 DEF Places
<1>3. DOMAIN b = 0 .. o[n] - 1 /\ b = [a \in DOMAIN b |-> b[a]]
      /\ \A a \in 0 .. o[n] - 1 : b[a] = all[a + 1]
  BY <1>1
<1> HIDE DEF n
<1>4. ASSUME NEW k \in 1 .. n, NEW j \in Nat, j < Len(s[k])
      PROVE  o[k - 1] + j \in DOMAIN b /\ b[o[k - 1] + j] = s[k][j + 1]
  <2>1. j + 1 \in Nat \ {0} /\ j + 1 <= Len(s[k]) /\ k - 1 \in 0 .. n
    BY <1>2, <1>4
  <2>2. /\ o[k - 1] + (j + 1) \in 1 .. o[n]
        /\ all[o[k - 1] + (j + 1)] = s[k][j + 1]
    BY <1>1, <2>1 DEF n
  <2>3. o[k - 1] \in Nat /\ o[n] \in Nat
    BY <1>2, <2>1
  <2>4. o[k - 1] + j \in 0 .. o[n] - 1 /\ o[k - 1] + (j + 1) = (o[k - 1] + j) + 1
    <3> DEFINE at == o[k - 1]
               end == o[n]
    <3>1. at \in Nat /\ end \in Nat /\ at + (j + 1) \in 1 .. end
      BY <2>2, <2>3
    <3> HIDE DEF at, end
    <3>2. at + j \in 0 .. end - 1 /\ at + (j + 1) = (at + j) + 1
      BY <3>1
    <3> QED
      BY <3>2 DEF at, end
  <2> QED
    BY <1>3, <2>2, <2>4
<1>5. ASSUME NEW a \in DOMAIN b
      PROVE  \E k \in 1 .. n : o[k - 1] <= a /\ a < o[k]
  <2>1. o[n] \in Nat /\ a \in 0 .. o[n] - 1
    BY <1>2, <1>3
  <2>2. a + 1 \in 1 .. o[n]
    BY <2>1
  <2>3. PICK k \in 1 .. n : o[k - 1] < a + 1 /\ a + 1 <= o[k]
    BY <1>1, <2>2 DEF n
  <2>4. o[k - 1] \in Nat /\ o[k] \in Nat
    BY <1>2
  <2>5. o[k - 1] <= a /\ a < o[k]
    BY <2>1, <2>3, <2>4
  <2> QED
    BY <2>5
<1>6. Lying(b, s, o)
  BY <1>1, <1>3, <1>4, <1>5 DEF Lying, n
<1> QED
  BY <1>6

\* A buffer that has, at the places of o, what the sequences of s have.
Fits(c, s, o) ==
  /\ Len(s) \in Nat /\ \A k \in 1 .. Len(s) : Len(s[k]) \in Nat
  /\ DOMAIN c = 0 .. o[Len(s)] - 1 /\ c = [a \in DOMAIN c |-> c[a]]
  /\ \A k \in 1 .. Len(s) : \A j \in Nat : j < Len(s[k]) => c[o[k - 1] + j] = s[k][j + 1]

\* It has nothing else.
LEMMA LyingIs ==
  ASSUME NEW s, NEW o, NEW b, NEW c, Lying(b, s, o), Fits(c, s, o)
  PROVE  b = c
<1>0. /\ Len(s) \in Nat /\ \A k \in 1 .. Len(s) : Len(s[k]) \in Nat
      /\ DOMAIN c = 0 .. o[Len(s)] - 1 /\ c = [a \in DOMAIN c |-> c[a]]
      /\ \A k \in 1 .. Len(s) : \A j \in Nat : j < Len(s[k]) => c[o[k - 1] + j] = s[k][j + 1]
  BY DEF Fits
<1> DEFINE n == Len(s)
<1>1. /\ o \in [0 .. n -> Nat] /\ \A k \in 1 .. n : o[k] = o[k - 1] + Len(s[k])
      /\ DOMAIN b = DOMAIN c /\ b = [a \in DOMAIN b |-> b[a]]
  BY <1>0 DEF Lying, Places
<1>2. ASSUME NEW a \in DOMAIN b
      PROVE  b[a] = c[a]
  <2>1. PICK k \in 1 .. n : o[k - 1] <= a /\ a < o[k]
    BY DEF Lying
  <2> DEFINE at == o[k - 1]
             j == a - at
             len == Len(s[k])
  <2>2. at \in Nat /\ a \in Nat /\ len \in Nat
    <3>1. k - 1 \in 0 .. n
      BY <1>0
    <3>2. a \in 0 .. o[Len(s)] - 1
      BY <1>0, <1>1
    <3> QED
      BY <1>0, <1>1, <3>1, <3>2
  <2>3. o[k] = at + len /\ at <= a /\ a < o[k]
    BY <1>1, <2>1
  <2> HIDE DEF at, len
  <2>4. j \in Nat /\ j < len /\ at + j = a
    BY <2>2, <2>3
  <2> HIDE DEF j
  <2>5. b[at + j] = s[k][j + 1] /\ c[at + j] = s[k][j + 1]
    BY <1>0, <2>4 DEF Lying, at, len
  <2> QED
    BY <2>4, <2>5
<1> QED
  BY <1>0, <1>1, <1>2

\* What Joined returns.
Pieces(buffer, segs) ==
  [k \in DOMAIN segs |-> [j \in 1 .. Size(segs[k]) |-> buffer[segs[k].start + j - 1]]]

\* The pieces of a joined buffer lie in it one after the other.
LEMMA JoinedLies ==
  ASSUME NEW buffer, NEW segs, Len(segs) \in Nat, DOMAIN segs = 1 .. Len(segs),
         \A k \in DOMAIN segs : segs[k].start \in Nat /\ segs[k].end \in Nat /\ segs[k].start < segs[k].end
  PROVE  LET s == Pieces(buffer, segs)
         IN  /\ Len(s) = Len(segs)
             /\ \A k \in 1 .. Len(segs) :
                  /\ Len(s[k]) = Size(segs[k]) /\ Len(s[k]) \in Nat
                  /\ \A j \in Nat : j < Size(segs[k]) => s[k][j + 1] = buffer[segs[k].start + j]
             /\ \E o : Lying(Joined(buffer, segs), s, o)
<1> DEFINE s == Pieces(buffer, segs)
           n == Len(segs)
           A == {buffer[x] : x \in Int}
           all == Flattened(s)
<1>1. /\ n \in Nat /\ DOMAIN segs = 1 .. n
      /\ \A k \in 1 .. n : segs[k].start \in Nat /\ Size(segs[k]) \in Nat
  BY DEF Size
<1>2. /\ DOMAIN s = 1 .. n /\ s = [k \in 1 .. n |-> s[k]]
      /\ \A k \in 1 .. n :
           s[k] = [j \in 1 .. Size(segs[k]) |-> buffer[segs[k].start + j - 1]]
  BY <1>1 DEF Pieces
<1>3. \A x \in Int : buffer[x] \in A
  OBVIOUS
<1> HIDE DEF A, s, n
<1>4. ASSUME NEW k \in 1 .. n
      PROVE  /\ s[k] \in Seq(A) /\ Len(s[k]) = Size(segs[k])
             /\ \A j \in Nat : j < Size(segs[k]) => s[k][j + 1] = buffer[segs[k].start + j]
  <2> DEFINE start == segs[k].start
             len == Size(segs[k])
             t == s[k]
  <2>1. start \in Nat /\ len \in Nat /\ t = [j \in 1 .. len |-> buffer[start + j - 1]]
    BY <1>1, <1>2
  <2> HIDE DEF start, len, t
  <2>2. \A j \in 1 .. len : buffer[start + j - 1] \in A
    <3>1. \A j \in 1 .. len : start + j - 1 \in Int
      BY <2>1
    <3> QED
      BY <1>3, <3>1
  <2>3. t \in Seq(A) /\ Len(t) = len
    BY <2>1, <2>2
  <2>4. ASSUME NEW j \in Nat, j < len PROVE t[j + 1] = buffer[start + j]
    <3>1. j + 1 \in 1 .. len /\ start + (j + 1) - 1 = start + j
      BY <2>1, <2>4
    <3> QED
      BY <2>1, <3>1
  <2> QED
    BY <2>3, <2>4 DEF start, len, t
<1>5. s \in Seq(Seq(A)) /\ Len(s) = n
  <2> DEFINE X == Seq(A)
  <2>1. \A k \in 1 .. n : s[k] \in X
    BY <1>4
  <2> HIDE DEF X
  <2>2. s \in Seq(X) /\ Len(s) = n
    BY <1>1, <1>2, <2>1
  <2> QED
    BY <2>2 DEF X
<1>6. Joined(buffer, segs) = [a \in 0 .. Len(all) - 1 |-> all[a + 1]]
  BY DEF Joined, Pieces, s
<1>7. \E o : Lying(Joined(buffer, segs), s, o)
  <2> DEFINE b == Joined(buffer, segs)
  <2>1. b = [a \in 0 .. Len(all) - 1 |-> all[a + 1]] /\ all = Flattened(s)
    BY <1>6
  <2> HIDE DEF b, all
  <2>2. \E o : Lying(b, s, o)
    BY <1>5, <2>1, FlattenedLies
  <2> QED
    BY <2>2 DEF b
<1> QED
  BY <1>1, <1>4, <1>5, <1>7 DEF s, n

\* The numbers below n are n.
LEMMA ZeroToCount ==
  \A n \in Nat : Cardinality(0 .. n - 1) = n
<1>1. ASSUME NEW n \in Nat
      PROVE  Finite!Cardinality(0 .. n - 1) = n
  <2>1. 0 \in Int /\ n - 1 \in Int
    OBVIOUS
  <2> DEFINE m == n - 1
  <2>2. Finite!Cardinality(0 .. m) = IF 0 > m THEN 0 ELSE m - 0 + 1
    BY <2>1, Finite!FS_Interval
  <2> HIDE DEF m
  <2>3. m = n - 1
    BY DEF m
  <2> QED
    BY <2>2, <2>3
<1> QED
  BY <1>1, SameNotions

\* The segments of a rank one after the other are its shard.
LEMMA JoinedShard ==
  ASSUME NEW g, SoundGroup(g), NEW r \in RanksOf(g.n), NEW full
  PROVE  /\ DOMAIN Joined(full, g.layout.ranks[r]) = 0 .. g.sizes[r] - 1
         /\ DOMAIN full = 0 .. g.layout.total - 1 =>
              Joined(full, g.layout.ranks[r]) = LocalShard(g, full, r)
<1> DEFINE segs == g.layout.ranks[r]
           n == Len(segs)
           s == Pieces(full, segs)
           size == g.sizes[r]
           b == Joined(full, segs)
           whole == LocalShard(g, full, r)
<1>1. /\ n \in Nat /\ DOMAIN segs = 1 .. n
      /\ \A k \in DOMAIN segs : /\ segs[k].start \in Nat /\ segs[k].end \in Nat /\ segs[k].local \in Nat
                                /\ segs[k].start < segs[k].end
      /\ size \in Nat
      /\ size = IF segs = <<>> THEN 0 ELSE LocalEnd(segs[n])
  BY RankSegments
<1>2. \A k \in DOMAIN segs : segs[k].local = IF k = 1 THEN 0 ELSE LocalEnd(segs[k - 1])
  BY DEF SoundGroup, WellPlaced, LocallyPacked
<1>3. whole = [k \in 0 .. size - 1 |-> whole[k]] /\ DOMAIN whole = 0 .. size - 1
  BY DEF LocalShard, Slice
<1>4. ASSUME DOMAIN full = 0 .. g.layout.total - 1, NEW k \in 1 .. n, NEW j \in Nat, j < Size(segs[k])
      PROVE  whole[segs[k].local + j] = full[segs[k].start + j]
  <2> DEFINE i == segs[k].start + j
  <2>1. i \in Int /\ segs[k].start <= i /\ i < segs[k].end /\ i - segs[k].start = j
    <3> DEFINE first == segs[k].start
               last == segs[k].end
    <3>1. first \in Nat /\ last \in Nat
      BY <1>1, <1>4
    <3>2. j < last - first
      BY <1>4 DEF Size
    <3> HIDE DEF first, last
    <3>3. first + j \in Int /\ first <= first + j /\ first + j < last /\ (first + j) - first = j
      BY <1>4, <3>1, <3>2
    <3> QED
      BY <3>3 DEF first, last
  <2>2. k \in DOMAIN g.layout.ranks[r] /\ g.layout.ranks[r][k].start <= i /\ i < g.layout.ranks[r][k].end
    BY <1>1, <2>1
  <2> HIDE DEF i
  <2>3. i \in 0 .. g.layout.total - 1 /\ LiesAt(g, i, r, k)
    BY <2>1, <2>2, ElementOf
  <2>4. Keeper(g, i) = r /\ Place(g, i) = segs[k].local + i - segs[k].start
    BY <2>3 DEF LiesAt
  <2>5. whole[Place(g, i)] = full[i]
    BY <1>4, <2>3, <2>4, ShardHolds
  <2>6. Place(g, i) = segs[k].local + j
    <3> DEFINE local == segs[k].local
               start == segs[k].start
    <3>1. local \in Nat /\ start \in Nat /\ i \in Int /\ i - start = j /\ Place(g, i) = local + i - start
      BY <1>1, <2>1, <2>4
    <3> HIDE DEF local, start
    <3> QED
      BY <3>1 DEF local
  <2> QED
    BY <2>5, <2>6 DEF i
<1> HIDE DEF segs, n, s, whole
<1>5. /\ Len(s) = n
      /\ \A k \in 1 .. n :
           /\ Len(s[k]) = Size(segs[k]) /\ Len(s[k]) \in Nat
           /\ \A j \in Nat : j < Size(segs[k]) => s[k][j + 1] = full[segs[k].start + j]
      /\ \E o : Lying(b, s, o)
  BY <1>1, JoinedLies DEF s, n
<1>6. PICK o : Lying(b, s, o)
  BY <1>5
<1>7. /\ o \in [0 .. n -> Nat] /\ o[0] = 0 /\ \A k \in 1 .. n : o[k] = o[k - 1] + Size(segs[k])
      /\ DOMAIN b = 0 .. o[n] - 1
  BY <1>5, <1>6 DEF Lying, Places
<1>8. \A k \in 0 .. n : o[k] = IF k = 0 THEN 0 ELSE LocalEnd(segs[k])
  <2> DEFINE S == {k \in Nat : k <= n => o[k] = IF k = 0 THEN 0 ELSE LocalEnd(segs[k])}
  <2>1. 0 \in S
    BY <1>7
  <2>2. ASSUME NEW k \in 1 .. n, k - 1 \in S
        PROVE  k \in S
    <3>1. k \in Nat /\ k - 1 <= n /\ k \in DOMAIN segs /\ k # 0
      BY <1>1
    <3>2. o[k - 1] = segs[k].local
      <4>1. CASE k = 1
        BY <1>2, <1>7, <3>1, <4>1
      <4>2. CASE k # 1
        <5>1. k - 1 # 0
          BY <4>2
        <5> QED
          BY <1>2, <2>2, <3>1, <4>2, <5>1
      <4> QED
        BY <4>1, <4>2
    <3>3. o[k] = LocalEnd(segs[k])
      BY <1>7, <3>2 DEF LocalEnd
    <3> QED
      BY <3>1, <3>3
  <2>3. 0 .. n \subseteq S
    <3> HIDE DEF S
    <3> QED
      BY <1>1, <2>1, <2>2, BoundedInduction
  <2> QED
    BY <2>3
<1>9. \A k \in 1 .. n : o[k - 1] = segs[k].local
  <2> SUFFICES ASSUME NEW k \in 1 .. n PROVE o[k - 1] = segs[k].local
    OBVIOUS
  <2>1. k - 1 \in 0 .. n /\ k \in DOMAIN segs
    BY <1>1
  <2> QED
    BY <1>2, <1>8, <2>1
<1>10. o[n] = size
  <2>1. n \in 0 .. n /\ (segs = <<>> <=> n = 0)
    BY <1>1
  <2> QED
    BY <1>1, <1>8, <2>1
<1>11. ASSUME DOMAIN full = 0 .. g.layout.total - 1
       PROVE  b = whole
  <2>1. /\ DOMAIN whole = 0 .. o[Len(s)] - 1 /\ whole = [a \in DOMAIN whole |-> whole[a]]
    BY <1>3, <1>5, <1>10
  <2>2. ASSUME NEW k \in 1 .. Len(s), NEW j \in Nat, j < Len(s[k])
        PROVE  whole[o[k - 1] + j] = s[k][j + 1]
    <3>1. k \in 1 .. n /\ j < Size(segs[k])
      BY <1>5, <2>2
    <3>2. whole[segs[k].local + j] = full[segs[k].start + j] /\ s[k][j + 1] = full[segs[k].start + j]
      BY <1>4, <1>5, <1>11, <3>1
    <3> QED
      BY <1>9, <3>1, <3>2
  <2>3. Len(s) \in Nat /\ \A k \in 1 .. Len(s) : Len(s[k]) \in Nat
    BY <1>1, <1>5
  <2>4. Fits(whole, s, o)
    BY <2>1, <2>2, <2>3 DEF Fits
  <2> HIDE DEF b
  <2> QED
    BY <1>6, <2>4, LyingIs
<1> QED
  BY <1>7, <1>10, <1>11 DEF segs, whole

\* A buffer that has the tensors of n ranks, of those lengths, in rank order.
HasInOrder(c, tensors, lens, n) ==
  /\ DOMAIN tensors = 0 .. n - 1 /\ \A q \in 0 .. n - 1 : DOMAIN tensors[q] = 0 .. lens[q] - 1
  /\ DOMAIN c = 0 .. PackedOffset(lens, n) - 1 /\ c = [a \in DOMAIN c |-> c[a]]
  /\ \A q \in 0 .. n - 1 : \A j \in Nat :
       j < lens[q] => c[PackedOffset(lens, q) + j] = tensors[q][j]

\* What InRankOrder returns.
LEMMA RankOrderIs ==
  ASSUME NEW n \in Nat, NEW tensors, NEW lens \in [0 .. n - 1 -> Nat], NEW c,
         HasInOrder(c, tensors, lens, n)
  PROVE  InRankOrder(tensors) = c
<1>0. /\ DOMAIN tensors = 0 .. n - 1 /\ \A q \in 0 .. n - 1 : DOMAIN tensors[q] = 0 .. lens[q] - 1
      /\ DOMAIN c = 0 .. PackedOffset(lens, n) - 1 /\ c = [a \in DOMAIN c |-> c[a]]
      /\ \A q \in 0 .. n - 1 : \A j \in Nat :
           j < lens[q] => c[PackedOffset(lens, q) + j] = tensors[q][j]
  BY DEF HasInOrder
<1> DEFINE inOrder(t) == [k \in 1 .. Length(t) |-> t[k - 1]]
           s == [i \in 1 .. n |-> inOrder(tensors[i - 1])]
           all == Flattened(s)
           b == InRankOrder(tensors)
           A == UNION {{tensors[q][x] : x \in Int} : q \in 0 .. n - 1}
           PO == [q \in 0 .. n |-> PackedOffset(lens, q)]
<1>1. Cardinality(DOMAIN tensors) = n
  BY <1>0, ZeroToCount
<1>2. b = [a \in 0 .. Len(all) - 1 |-> all[a + 1]]
  BY <1>1 DEF InRankOrder
<1>3. ASSUME NEW i \in 1 .. n
      PROVE  /\ i - 1 \in 0 .. n - 1
             /\ s[i] = [k \in 1 .. lens[i - 1] |-> tensors[i - 1][k - 1]]
  <2>1. i - 1 \in 0 .. n - 1
    OBVIOUS
  <2>2. Length(tensors[i - 1]) = lens[i - 1]
    <3>1. lens[i - 1] \in Nat /\ DOMAIN tensors[i - 1] = 0 .. lens[i - 1] - 1
      BY <1>0, <2>1
    <3> DEFINE m == lens[i - 1]
    <3>2. m \in Nat /\ DOMAIN tensors[i - 1] = 0 .. m - 1
      BY <3>1
    <3> HIDE DEF m
    <3>3. Length(tensors[i - 1]) = m
      BY <3>2, ZeroToCount DEF Length
    <3> QED
      BY <3>3 DEF m
  <2> QED
    BY <2>1, <2>2
<1>4. DOMAIN s = 1 .. n /\ s = [i \in 1 .. n |-> s[i]]
  OBVIOUS
<1>5. \A q \in 0 .. n - 1 : \A x \in Int : tensors[q][x] \in A
  OBVIOUS
<1> HIDE DEF A, s
<1>6. ASSUME NEW i \in 1 .. n
      PROVE  /\ s[i] \in Seq(A) /\ Len(s[i]) = lens[i - 1]
             /\ \A j \in Nat : j < lens[i - 1] => s[i][j + 1] = tensors[i - 1][j]
  <2> DEFINE len == lens[i - 1]
             t == tensors[i - 1]
             u == s[i]
  <2>1. len \in Nat /\ u = [k \in 1 .. len |-> t[k - 1]]
    BY <1>3
  <2>2. \A x \in Int : t[x] \in A
    BY <1>3, <1>5
  <2> HIDE DEF len, t, u
  <2>3. \A k \in 1 .. len : t[k - 1] \in A
    <3>1. \A k \in 1 .. len : k - 1 \in Int
      BY <2>1
    <3> QED
      BY <2>2, <3>1
  <2>4. u \in Seq(A) /\ Len(u) = len
    BY <2>1, <2>3
  <2>5. ASSUME NEW j \in Nat, j < len PROVE u[j + 1] = t[j]
    <3>1. j + 1 \in 1 .. len /\ (j + 1) - 1 = j
      BY <2>1, <2>5
    <3> QED
      BY <2>1, <3>1
  <2> QED
    BY <2>4, <2>5 DEF len, t, u
<1>7. s \in Seq(Seq(A)) /\ Len(s) = n
  <2> DEFINE X == Seq(A)
  <2>1. \A k \in 1 .. n : s[k] \in X
    BY <1>6
  <2> HIDE DEF X
  <2>2. s \in Seq(X) /\ Len(s) = n
    BY <1>4, <2>1
  <2> QED
    BY <2>2 DEF X
<1>8. PICK o : Lying(b, s, o)
  <2>1. b = [a \in 0 .. Len(all) - 1 |-> all[a + 1]] /\ all = Flattened(s)
    BY <1>2
  <2> HIDE DEF b, all
  <2> QED
    BY <1>7, <2>1, FlattenedLies
<1> HIDE DEF b, all
<1>9. /\ o \in [0 .. n -> Nat] /\ o[0] = 0 /\ \A k \in 1 .. n : o[k] = o[k - 1] + lens[k - 1]
  BY <1>6, <1>7, <1>8 DEF Lying, Places
<1>10. /\ PackedOffset(lens, 0) = 0
       /\ \A q \in 0 .. n - 1 : PackedOffset(lens, q + 1) = PackedOffset(lens, q) + lens[q]
  BY PackedOffsets
<1>11. \A k \in 0 .. n : o[k] = PackedOffset(lens, k)
  <2> DEFINE S == {k \in Nat : k <= n => o[k] = PackedOffset(lens, k)}
  <2>1. 0 \in S
    BY <1>9, <1>10
  <2>2. ASSUME NEW k \in 1 .. n, k - 1 \in S
        PROVE  k \in S
    <3>1. k - 1 \in 0 .. n - 1 /\ (k - 1) + 1 = k /\ k \in Nat /\ k - 1 <= n
      OBVIOUS
    <3>2. PackedOffset(lens, k) = PackedOffset(lens, k - 1) + lens[k - 1]
      BY <1>10, <3>1
    <3> QED
      BY <1>9, <2>2, <3>1, <3>2
  <2>3. 0 .. n \subseteq S
    <3> HIDE DEF S
    <3> QED
      BY <2>1, <2>2, BoundedInduction
  <2> QED
    BY <2>3
<1>12. DOMAIN c = 0 .. o[Len(s)] - 1
  <2>1. n \in 0 .. n
    OBVIOUS
  <2> QED
    BY <1>0, <1>7, <1>11, <2>1
<1>13. ASSUME NEW k \in 1 .. Len(s), NEW j \in Nat, j < Len(s[k])
       PROVE  c[o[k - 1] + j] = s[k][j + 1]
  <2>1. k \in 1 .. n /\ k - 1 \in 0 .. n - 1 /\ k - 1 \in 0 .. n /\ j < lens[k - 1]
    BY <1>3, <1>6, <1>7, <1>13
  <2>2. c[PackedOffset(lens, k - 1) + j] = tensors[k - 1][j] /\ s[k][j + 1] = tensors[k - 1][j]
    BY <1>0, <1>6, <2>1
  <2> QED
    BY <1>11, <2>1, <2>2
<1>14. Len(s) \in Nat /\ \A k \in 1 .. Len(s) : Len(s[k]) \in Nat
  <2> SUFFICES ASSUME NEW k \in 1 .. n PROVE Len(s[k]) \in Nat
    BY <1>7
  <2> QED
    BY <1>3, <1>6
<1>15. b = c
  <2>1. Fits(c, s, o)
    BY <1>0, <1>12, <1>13, <1>14 DEF Fits
  <2> QED
    BY <1>8, <2>1, LyingIs
<1> QED
  BY <1>15 DEF b

-----------------------------------------------------------------------------
(* What ranks have of a parameter *)

\* Nothing joined, and one segment joined.
LEMMA JoinedNone ==
  ASSUME NEW buffer
  PROVE  DOMAIN Joined(buffer, <<>>) = 0 .. -1
<1> DEFINE segs == <<>>
           s == Pieces(buffer, segs)
           b == Joined(buffer, segs)
<1>1. Len(segs) \in Nat /\ DOMAIN segs = 1 .. Len(segs) /\ DOMAIN segs = {} /\ Len(segs) = 0
  OBVIOUS
<1>2. Len(s) = 0 /\ \E o : Lying(b, s, o)
  <2> HIDE DEF segs, s
  <2>1. \A k \in DOMAIN segs : segs[k].start \in Nat /\ segs[k].end \in Nat /\ segs[k].start < segs[k].end
    BY <1>1
  <2>2. Len(s) = Len(segs) /\ \E o : Lying(b, s, o)
    BY <1>1, <2>1, JoinedLies DEF s, b
  <2> QED
    BY <1>1, <2>2
<1> HIDE DEF s, b
<1>3. DOMAIN b = 0 .. 0 - 1
  <2>1. PICK o : Lying(b, s, o)
    BY <1>2
  <2>2. o[0] = 0 /\ DOMAIN b = 0 .. o[0] - 1
    BY <1>2, <2>1 DEF Lying, Places
  <2> QED
    BY <2>2
<1> QED
  BY <1>3 DEF b

\* A buffer joined of one segment.
LEMMA JoinedOne ==
  ASSUME NEW buffer, NEW seg, seg.start \in Nat, seg.end \in Nat, seg.start < seg.end
  PROVE  Joined(buffer, <<seg>>) = [j \in 0 .. seg.end - seg.start - 1 |-> buffer[seg.start + j]]
<1> DEFINE segs == <<seg>>
           s == Pieces(buffer, segs)
           b == Joined(buffer, segs)
           start == seg.start
           size == seg.end - seg.start
           c == [j \in 0 .. size - 1 |-> buffer[start + j]]
<1>1. /\ Len(segs) \in Nat /\ DOMAIN segs = 1 .. Len(segs) /\ DOMAIN segs = {1} /\ Len(segs) = 1
      /\ segs[1] = seg
  OBVIOUS
<1>2. start \in Nat /\ size \in Nat
  OBVIOUS
<1> HIDE DEF segs, s, b
<1>3. /\ Len(s) = 1 /\ Len(s[1]) = size
      /\ \A j \in Nat : j < size => s[1][j + 1] = buffer[start + j]
      /\ \E o : Lying(b, s, o)
  <2>1. \A k \in DOMAIN segs : segs[k].start \in Nat /\ segs[k].end \in Nat /\ segs[k].start < segs[k].end
    BY <1>1
  <2>2. /\ Len(s) = Len(segs)
        /\ \A k \in 1 .. Len(segs) :
             /\ Len(s[k]) = Size(segs[k]) /\ Len(s[k]) \in Nat
             /\ \A j \in Nat : j < Size(segs[k]) => s[k][j + 1] = buffer[segs[k].start + j]
        /\ \E o : Lying(b, s, o)
    BY <1>1, <2>1, JoinedLies DEF s, b
  <2>3. 1 \in 1 .. Len(segs) /\ Size(segs[1]) = size /\ segs[1].start = start
    BY <1>1 DEF Size
  <2> QED
    BY <1>1, <2>2, <2>3
<1> HIDE DEF start, size
<1>4. PICK o : Lying(b, s, o)
  BY <1>3
<1>5. o[0] = 0 /\ o[1] = size
  <2>1. o[0] = 0 /\ o[1] = o[1 - 1] + Len(s[1])
    BY <1>3, <1>4 DEF Lying, Places
  <2> QED
    BY <1>2, <1>3, <2>1
<1>6. Fits(c, s, o)
  <2>1. Len(s) \in Nat /\ \A k \in 1 .. Len(s) : Len(s[k]) \in Nat
    BY <1>2, <1>3
  <2>2. DOMAIN c = 0 .. o[Len(s)] - 1 /\ c = [a \in DOMAIN c |-> c[a]]
    BY <1>3, <1>5
  <2>3. ASSUME NEW k \in 1 .. Len(s), NEW j \in Nat, j < Len(s[k])
        PROVE  c[o[k - 1] + j] = s[k][j + 1]
    <3>1. k = 1 /\ j < size /\ o[k - 1] + j = j /\ j \in 0 .. size - 1
      BY <1>2, <1>3, <1>5, <2>3
    <3> QED
      BY <1>3, <3>1
  <2> QED
    BY <2>1, <2>2, <2>3 DEF Fits
<1>7. b = c
  BY <1>4, <1>6, LyingIs
<1> QED
  BY <1>7 DEF b, segs, start, size

\* What a rank with at most one segment has of a parameter.
LEMMA OnNoRank ==
  ASSUME NEW p, NEW r
  PROVE  OnRank(<<>>, p, r) = <<>>
<1> DEFINE s == <<>>
           P == {k \in DOMAIN s : Overlaps(s[k], p)}
           t == Selected(s, P)
<1>1. s \in Seq({}) /\ Len(s) = 0
  OBVIOUS
<1>2. OnRank(s, p, r) = [i \in 1 .. Len(t) |-> Clip(t[i], p, r)]
  BY DEF OnRank
<1>3. Len(t) = 0
  <2> HIDE DEF s, P
  <2>1. t \in Seq({}) /\ \E at : Picks(t, s, P, at)
    BY <1>1, SelectedPicks
  <2>2. \A i \in 1 .. Len(t) : t[i] \in {}
    BY <2>1
  <2>3. Len(t) \in Nat
    BY <2>1
  <2> QED
    BY <2>2, <2>3
<1>4. OnRank(s, p, r) = <<>>
  BY <1>2, <1>3
<1> QED
  BY <1>4

\* A rank with one segment has at most one piece of a parameter.
LEMMA OnOneSegment ==
  ASSUME NEW seg, NEW p, NEW r
  PROVE  /\ Overlaps(seg, p) => OnRank(<<seg>>, p, r) = <<Clip(seg, p, r)>>
         /\ ~Overlaps(seg, p) => OnRank(<<seg>>, p, r) = <<>>
<1> DEFINE s == <<seg>>
           P == {k \in DOMAIN s : Overlaps(s[k], p)}
           t == Selected(s, P)
<1>1. s \in Seq({seg}) /\ Len(s) = 1 /\ s[1] = seg /\ DOMAIN s = {1}
  OBVIOUS
<1>2. OnRank(s, p, r) = [i \in 1 .. Len(t) |-> Clip(t[i], p, r)]
  BY DEF OnRank
<1>3. (Overlaps(seg, p) => P = {1}) /\ (~Overlaps(seg, p) => P = {})
  BY <1>1
<1> HIDE DEF s, P
<1>4. t \in Seq({seg}) /\ \E at : Picks(t, s, P, at)
  BY <1>1, SelectedPicks
<1> HIDE DEF t
<1>5. PICK at : Picks(t, s, P, at)
  BY <1>4
<1>6. /\ at \in [1 .. Len(t) -> {1}] /\ Len(t) \in Nat
      /\ \A j \in 1 .. Len(t) : at[j] \in P /\ t[j] = s[at[j]]
      /\ \A j, k \in 1 .. Len(t) : j < k => at[j] < at[k]
      /\ 1 \in P => \E j \in 1 .. Len(t) : at[j] = 1
  <2>1. 1 .. Len(s) = {1}
    BY <1>1
  <2> QED
    BY <1>4, <1>5, <2>1 DEF Picks
<1>7. Len(t) <= 1
  <2> SUFFICES ASSUME Len(t) > 1 PROVE FALSE
    BY <1>6
  <2>1. 1 \in 1 .. Len(t) /\ 2 \in 1 .. Len(t)
    BY <1>6
  <2>2. at[1] = 1 /\ at[2] = 1
    BY <1>6, <2>1
  <2>3. at[1] < at[2]
    BY <1>6, <2>1
  <2> QED
    BY <2>2, <2>3
<1>8. CASE Overlaps(seg, p)
  <2>1. PICK j \in 1 .. Len(t) : at[j] = 1
    BY <1>3, <1>6, <1>8
  <2>2. Len(t) = 1 /\ t[1] = seg
    BY <1>1, <1>6, <1>7, <2>1
  <2>3. OnRank(s, p, r) = <<Clip(seg, p, r)>>
    BY <1>2, <2>2
  <2> QED
    BY <1>8, <2>3 DEF s
<1>9. CASE ~Overlaps(seg, p)
  <2>1. 1 .. Len(t) = {}
    BY <1>3, <1>6, <1>9
  <2>2. OnRank(s, p, r) = <<>>
    BY <1>2, <1>6, <2>1
  <2> QED
    BY <1>9, <2>2 DEF s
<1> QED
  BY <1>8, <1>9

\* A place of the flat buffer, moved to the nearest one of a range.
Nearest(a, start, end) == IF a < start THEN start ELSE IF a > end THEN end ELSE a

\* A tensor that has what a range of the buffer has.
IsRange(piece, buffer, lo, hi) ==
  DOMAIN piece = 0 .. (hi - lo) - 1 /\ \A j \in Nat : j < hi - lo => piece[j] = buffer[lo + j]

\* What a rank of one range of the flat buffer has of a parameter.
LEMMA PartOfOne ==
  ASSUME NEW buffer, NEW seg, NEW p, NEW r,
         seg.start \in Nat, seg.end \in Nat, seg.start < seg.end,
         p.start \in Nat, p.end \in Nat, p.start < p.end
  PROVE  IsRange(Joined(buffer, OnRank(<<seg>>, p, r)), buffer,
                 Nearest(seg.start, p.start, p.end), Nearest(seg.end, p.start, p.end))
<1> DEFINE a == seg.start
           b == seg.end
           x == p.start
           y == p.end
           lo == Nearest(a, x, y)
           hi == Nearest(b, x, y)
           piece == Joined(buffer, OnRank(<<seg>>, p, r))
<1>1. a \in Nat /\ b \in Nat /\ a < b /\ x \in Nat /\ y \in Nat /\ x < y
  OBVIOUS
<1>2. CASE Overlaps(seg, p)
  <2> DEFINE c == Clip(seg, p, r)
  <2>1. piece = Joined(buffer, <<c>>)
    BY <1>2, OnOneSegment
  <2>2. c.start = AtLeast(a, x) /\ c.end = AtMost(b, y)
    BY DEF Clip
  <2>3. AtLeast(a, x) < AtMost(b, y)
    BY <1>2 DEF Overlaps
  <2> HIDE DEF a, b, x, y, c
  <2>4. c.start = lo /\ c.end = hi /\ lo \in Nat /\ hi \in Nat /\ lo < hi
    BY <1>1, <2>2, <2>3 DEF AtLeast, AtMost, Nearest
  <2> HIDE DEF lo, hi
  <2>5. Joined(buffer, <<c>>) = [j \in 0 .. c.end - c.start - 1 |-> buffer[c.start + j]]
    BY <2>4, JoinedOne
  <2>6. piece = [j \in 0 .. hi - lo - 1 |-> buffer[lo + j]]
    BY <2>1, <2>4, <2>5
  <2>7. \A j \in Nat : j < hi - lo => j \in 0 .. hi - lo - 1
    BY <2>4
  <2> HIDE DEF piece
  <2>8. DOMAIN piece = 0 .. (hi - lo) - 1 /\ \A j \in Nat : j < hi - lo => piece[j] = buffer[lo + j]
    BY <2>6, <2>7
  <2> QED
    BY <2>8 DEF IsRange, piece, lo, hi, a, b, x, y
<1>3. CASE ~Overlaps(seg, p)
  <2>1. piece = Joined(buffer, <<>>)
    BY <1>3, OnOneSegment
  <2>2. ~(AtLeast(a, x) < AtMost(b, y))
    BY <1>3 DEF Overlaps
  <2> HIDE DEF a, b, x, y, piece
  <2>3. lo = hi /\ lo \in Nat
    BY <1>1, <2>2 DEF AtLeast, AtMost, Nearest
  <2> HIDE DEF lo, hi
  <2>4. DOMAIN piece = 0 .. -1
    BY <2>1, JoinedNone
  <2>5. DOMAIN piece = 0 .. (hi - lo) - 1 /\ \A j \in Nat : j < hi - lo => piece[j] = buffer[lo + j]
    BY <2>3, <2>4
  <2> QED
    BY <2>5 DEF IsRange, piece, lo, hi, a, b, x, y
<1> QED
  BY <1>2, <1>3

\* What a rank has of a parameter where each has one range, in rank order.
LEMMA PartOfChunk ==
  ASSUME NEW g, SoundGroup(g), RankChunks(g), NEW r \in RanksOf(g.n), NEW buffer, NEW p,
         p.start \in Nat, p.end \in Nat, p.start < p.end
  PROVE  IsRange(Joined(buffer, OnRank(g.layout.ranks[r], p, r)), buffer,
                 Nearest(PackedOffset(g.sizes, r), p.start, p.end),
                 Nearest(PackedOffset(g.sizes, r + 1), p.start, p.end))
<1> DEFINE s == g.layout.ranks[r]
           a == PackedOffset(g.sizes, r)
           b == PackedOffset(g.sizes, r + 1)
           size == g.sizes[r]
           x == p.start
           y == p.end
           lo == Nearest(a, x, y)
           hi == Nearest(b, x, y)
           piece == Joined(buffer, OnRank(s, p, r))
<1>1. a \in Nat /\ b = a + size /\ size \in Nat
  <2> DEFINE n == g.n
             sizes == g.sizes
  <2>1. n \in Nat /\ sizes \in [0 .. n - 1 -> Nat] /\ r \in 0 .. n - 1 /\ r \in 0 .. n
    BY GroupTyped
  <2> HIDE DEF n, sizes
  <2>2. /\ PackedOffset(sizes, r) \in Nat
        /\ PackedOffset(sizes, r + 1) = PackedOffset(sizes, r) + sizes[r]
        /\ sizes[r] \in Nat
    BY <2>1, PackedOffsets
  <2> QED
    BY <2>2 DEF sizes
<1>2. /\ Len(s) \in Nat /\ DOMAIN s = 1 .. Len(s)
      /\ \A k \in DOMAIN s :
           /\ s[k].start \in Nat /\ s[k].end \in Nat /\ s[k].start < s[k].end
           /\ LocalEnd(s[k]) = s[k].local + (s[k].end - s[k].start)
      /\ size = IF s = <<>> THEN 0 ELSE LocalEnd(s[Len(s)])
  BY RankSegments
<1>3. s # <<>> => Len(s) = 1 /\ s[1].local = 0 /\ s[1].start = a
  BY GroupTyped DEF RankChunks
<1>4. x \in Nat /\ y \in Nat /\ x < y
  OBVIOUS
<1> HIDE DEF s, a, b, size
<1>5. CASE s = <<>>
  <2>1. piece = Joined(buffer, <<>>)
    BY <1>5, OnNoRank
  <2>2. size = 0 /\ a = b
    BY <1>1, <1>2, <1>5
  <2>3. lo = hi /\ lo \in Nat
    <3> HIDE DEF x, y
    <3> QED
      BY <1>1, <1>4, <2>2 DEF Nearest
  <2> HIDE DEF lo, hi, piece
  <2>4. DOMAIN piece = 0 .. -1
    BY <2>1, JoinedNone
  <2>5. DOMAIN piece = 0 .. (hi - lo) - 1 /\ \A j \in Nat : j < hi - lo => piece[j] = buffer[lo + j]
    BY <2>3, <2>4
  <2> QED
    BY <2>5 DEF IsRange, piece, lo, hi, s, a, b, x, y
<1>6. CASE s # <<>>
  <2> DEFINE seg == s[1]
  <2>1. s = <<seg>>
    <3> DEFINE A == Segments(g.layout.total)
    <3>1. s \in Seq(A)
      BY GroupTyped DEF s
    <3> HIDE DEF A
    <3>2. s = [k \in 1 .. Len(s) |-> s[k]]
      BY <3>1
    <3> QED
      BY <1>3, <1>6, <3>2
  <2>2. /\ seg.start = a /\ seg.local = 0 /\ seg.start \in Nat /\ seg.end \in Nat /\ seg.start < seg.end
        /\ size = LocalEnd(seg) /\ LocalEnd(seg) = seg.local + (seg.end - seg.start)
    <3>1. 1 \in DOMAIN s
      BY <1>2, <1>3, <1>6
    <3> QED
      BY <1>2, <1>3, <1>6, <3>1
  <2>3. seg.end = b
    <3> DEFINE start == seg.start
               end == seg.end
    <3>1. start = a /\ size = 0 + (end - start) /\ start \in Nat /\ end \in Nat
      BY <2>2
    <3> HIDE DEF start, end
    <3>2. end = b
      BY <1>1, <3>1
    <3> QED
      BY <3>2 DEF end
  <2> HIDE DEF seg
  <2>4. IsRange(Joined(buffer, OnRank(<<seg>>, p, r)), buffer,
                Nearest(seg.start, p.start, p.end), Nearest(seg.end, p.start, p.end))
    BY <2>2, PartOfOne
  <2> QED
    BY <2>1, <2>2, <2>3, <2>4 DEF piece, lo, hi, s, a, b, x, y
<1> QED
  BY <1>5, <1>6

\* The lengths of the parts of a range that ranks of those sizes have.
AreParts(lens, sizes, start, end, n) ==
  lens = [q \in 0 .. n - 1 |-> Nearest(PackedOffset(sizes, q + 1), start, end)
                                 - Nearest(PackedOffset(sizes, q), start, end)]

\* The sizes of the parts of a parameter that n consecutive ranks have.
PartsFrom(lens, sizes, start, end, n) ==
  /\ lens \in [0 .. n - 1 -> Nat]
  /\ \A q \in 0 .. n : PackedOffset(lens, q) = Nearest(PackedOffset(sizes, q), start, end) - start

\* The offsets of those parts when they lie one after the other.
LEMMA PartsPacked ==
  ASSUME NEW n \in Nat, NEW sizes \in [0 .. n - 1 -> Nat], NEW start \in Nat, NEW end \in Nat, start <= end,
         NEW lens, AreParts(lens, sizes, start, end, n)
  PROVE  PartsFrom(lens, sizes, start, end, n)
<1> DEFINE O(q) == PackedOffset(sizes, q)
           W(q) == Nearest(O(q), start, end)
<1>1. /\ O(0) = 0 /\ \A q \in 0 .. n : O(q) \in Nat
      /\ \A q \in 0 .. n - 1 : O(q + 1) = O(q) + sizes[q]
  BY PackedOffsets
<1>2. \A q \in 0 .. n - 1 : q + 1 \in 0 .. n /\ q \in 0 .. n /\ sizes[q] \in Nat
  OBVIOUS
<1> HIDE DEF O
<1>3. \A q \in 0 .. n : W(q) \in Nat /\ start <= W(q)
  BY <1>1 DEF Nearest
<1>4. \A q \in 0 .. n - 1 : W(q) <= W(q + 1)
  <2> SUFFICES ASSUME NEW q \in 0 .. n - 1 PROVE W(q) <= W(q + 1)
    OBVIOUS
  <2> DEFINE u == O(q)
             v == O(q + 1)
             w == sizes[q]
  <2>1. u \in Nat /\ w \in Nat /\ v = u + w
    BY <1>1, <1>2
  <2> HIDE DEF u, v, w
  <2>2. Nearest(u, start, end) <= Nearest(v, start, end)
    BY <2>1 DEF Nearest
  <2> QED
    BY <2>2 DEF u, v
<1>5. W(0) = start
  BY <1>1 DEF Nearest
<1> HIDE DEF W
<1>6. lens = [q \in 0 .. n - 1 |-> W(q + 1) - W(q)]
  BY DEF AreParts, W, O
<1>7. lens \in [0 .. n - 1 -> Nat]
  <2>1. \A q \in 0 .. n - 1 : W(q + 1) - W(q) \in Nat
    BY <1>2, <1>3, <1>4
  <2> QED
    BY <1>6, <2>1
<1>8. /\ PackedOffset(lens, 0) = 0
      /\ \A q \in 0 .. n - 1 : PackedOffset(lens, q + 1) = PackedOffset(lens, q) + lens[q]
  BY <1>7, PackedOffsets
<1> DEFINE S == {q \in Nat : q <= n => PackedOffset(lens, q) = W(q) - start}
<1>9. 0 \in S
  BY <1>5, <1>8
<1>10. ASSUME NEW k \in 1 .. n, k - 1 \in S
       PROVE  k \in S
  <2>1. k - 1 \in 0 .. n - 1 /\ (k - 1) + 1 = k /\ k \in Nat /\ k - 1 <= n
    OBVIOUS
  <2> DEFINE q == k - 1
             a == PackedOffset(lens, q)
             b == PackedOffset(lens, k)
             u == W(q)
             v == W(k)
  <2>2. a = u - start /\ b = a + (v - u) /\ u \in Nat /\ v \in Nat
    <3>1. lens[q] = W(q + 1) - W(q)
      BY <1>6, <2>1
    <3>2. PackedOffset(lens, q + 1) = PackedOffset(lens, q) + lens[q]
      BY <1>8, <2>1
    <3> QED
      BY <1>2, <1>3, <1>10, <2>1, <3>1, <3>2
  <2> HIDE DEF a, b, u, v
  <2>3. b = v - start
    BY <2>2
  <2> QED
    BY <2>1, <2>3 DEF b, v
<1>11. 0 .. n \subseteq S
  <2> HIDE DEF S
  <2> QED
    BY <1>9, <1>10, BoundedInduction
<1>12. \A q \in 0 .. n : PackedOffset(lens, q) = W(q) - start
  BY <1>11
<1> QED
  BY <1>7, <1>12 DEF PartsFrom, W, O

\* The shards of ranks that have one range each, in rank order, are the full
\* buffer.
LEMMA ChunksJoin ==
  ASSUME NEW g, SoundGroup(g), RankChunks(g), NEW full, DOMAIN full = 0 .. g.layout.total - 1,
         full = [i \in DOMAIN full |-> full[i]],
         NEW shards, DOMAIN shards = RanksOf(g.n), \A q \in RanksOf(g.n) : shards[q] = LocalShard(g, full, q)
  PROVE  InRankOrder(shards) = full
<1> DEFINE n == g.n
           sizes == g.sizes
           total == g.layout.total
           packed == Pack(g, full)
<1>1. /\ n \in Nat /\ sizes \in [0 .. n - 1 -> Nat] /\ RanksOf(n) = 0 .. n - 1 /\ total \in Nat
      /\ PackedOffset(sizes, n) = total
  BY GroupTyped DEF SoundGroup, WellSized
<1>2. ASSUME NEW i \in 0 .. total - 1
      PROVE  packed[i] = full[i]
  <2>1. PackedAt(g, i) = i
    BY ChunksInPlace
  <2>2. packed[PackedAt(g, i)] = full[i]
    BY PackPlaces
  <2> QED
    BY <2>1, <2>2
<1>3. \A q \in 0 .. n - 1 : shards[q] = [j \in 0 .. sizes[q] - 1 |-> packed[PackedOffset(sizes, q) + j]]
  BY <1>1 DEF LocalShard, Slice
<1>4. DOMAIN full = 0 .. total - 1 /\ DOMAIN shards = 0 .. n - 1
  BY <1>1
<1> HIDE DEF n, sizes, total, packed
<1>5. /\ \A q \in 0 .. n : PackedOffset(sizes, q) \in Nat
      /\ \A q \in 0 .. n - 1 : PackedOffset(sizes, q + 1) = PackedOffset(sizes, q) + sizes[q]
      /\ \A q, r \in 0 .. n : q <= r => PackedOffset(sizes, q) <= PackedOffset(sizes, r)
  BY <1>1, PackedOffsets, PackedOffsetsGrow
<1>6. ASSUME NEW q \in 0 .. n - 1, NEW j \in Nat, j < sizes[q]
      PROVE  full[PackedOffset(sizes, q) + j] = shards[q][j]
  <2> DEFINE a == PackedOffset(sizes, q)
             b == PackedOffset(sizes, q + 1)
             size == sizes[q]
  <2>1. q \in 0 .. n /\ q + 1 \in 0 .. n /\ n \in 0 .. n /\ q + 1 <= n /\ size \in Nat
    BY <1>1
  <2>2. a \in Nat /\ b = a + size /\ b <= total
    BY <1>1, <1>5, <2>1
  <2>3. shards[q] = [k \in 0 .. size - 1 |-> packed[a + k]]
    BY <1>3
  <2>4. j < size
    BY <1>6
  <2> HIDE DEF a, b, size
  <2>5. a + j \in 0 .. total - 1 /\ j \in 0 .. size - 1
    BY <1>1, <2>1, <2>2, <2>4
  <2>6. full[a + j] = shards[q][j]
    BY <1>2, <2>3, <2>5
  <2> QED
    BY <2>6 DEF a
<1>7. \A q \in 0 .. n - 1 : DOMAIN shards[q] = 0 .. sizes[q] - 1
  BY <1>3
<1>8. DOMAIN full = 0 .. PackedOffset(sizes, n) - 1
  BY <1>1, <1>4
<1>9. InRankOrder(shards) = full
  <2>1. HasInOrder(full, shards, sizes, n)
    BY <1>1, <1>4, <1>6, <1>7, <1>8 DEF HasInOrder
  <2> QED
    BY <1>1, <2>1, RankOrderIs
<1> QED
  BY <1>9

\* What a buffer has of a parameter, and what each rank of a group has of that.
Own(p, buffer) == [x \in 0 .. Size(p) - 1 |-> buffer[p.start + x]]

\* Every rank's part of one parameter, cut from the full buffer.
KeptOf(tensors, g, p, full) ==
  /\ DOMAIN tensors = RanksOf(g.n)
  /\ \A q \in RanksOf(g.n) : tensors[q] = Joined(full, OnRank(g.layout.ranks[q], p, q))

\* The optimizer's tensors of a parameter, in rank order, are the parameter's.
LEMMA MomentsJoin ==
  ASSUME NEW g, SoundGroup(g), RankChunks(g), NEW full,
         NEW p, p.start \in Nat, p.end \in Nat, p.start < p.end, p.end <= g.layout.total,
         NEW tensors, KeptOf(tensors, g, p, full)
  PROVE  InRankOrder(tensors) = Own(p, full)
<1> DEFINE n == g.n
           sizes == g.sizes
           total == g.layout.total
           start == p.start
           end == p.end
           W(q) == Nearest(PackedOffset(sizes, q), start, end)
           lens == [q \in 0 .. n - 1 |-> Nearest(PackedOffset(sizes, q + 1), start, end)
                                          - Nearest(PackedOffset(sizes, q), start, end)]
           c == [x \in 0 .. (end - start) - 1 |-> full[start + x]]
<1>1. /\ n \in Nat /\ sizes \in [0 .. n - 1 -> Nat] /\ RanksOf(n) = 0 .. n - 1 /\ total \in Nat
      /\ PackedOffset(sizes, n) = total
      /\ start \in Nat /\ end \in Nat /\ start < end /\ end <= total
  BY GroupTyped DEF SoundGroup, WellSized
<1>2. DOMAIN tensors = 0 .. n - 1
  BY <1>1 DEF KeptOf
<1>3. \A q \in 0 .. n - 1 : IsRange(tensors[q], full, W(q), W(q + 1))
  <2> SUFFICES ASSUME NEW q \in 0 .. n - 1 PROVE IsRange(tensors[q], full, W(q), W(q + 1))
    OBVIOUS
  <2>1. q \in RanksOf(g.n)
    BY <1>1
  <2>2. IsRange(Joined(full, OnRank(g.layout.ranks[q], p, q)), full,
                Nearest(PackedOffset(g.sizes, q), p.start, p.end),
                Nearest(PackedOffset(g.sizes, q + 1), p.start, p.end))
    BY <2>1, PartOfChunk
  <2> QED
    BY <2>1, <2>2 DEF KeptOf
<1> HIDE DEF n, sizes, total, start, end
<1>4. /\ lens \in [0 .. n - 1 -> Nat]
      /\ \A q \in 0 .. n : PackedOffset(lens, q) = W(q) - start
  <2> DEFINE ls == lens
  <2>1. /\ n \in Nat /\ sizes \in [0 .. n - 1 -> Nat] /\ start \in Nat /\ end \in Nat
        /\ start <= end /\ AreParts(ls, sizes, start, end, n)
    BY <1>1 DEF AreParts
  <2> HIDE DEF ls
  <2>2. PartsFrom(ls, sizes, start, end, n)
    BY <2>1, PartsPacked
  <2> QED
    BY <2>2 DEF PartsFrom, ls
<1>5. \A q \in 0 .. n - 1 : lens[q] = W(q + 1) - W(q)
  OBVIOUS
<1>6. \A q \in 0 .. n : PackedOffset(sizes, q) \in Nat
  BY <1>1, PackedOffsets
<1>7. \A q \in 0 .. n : W(q) \in Nat
  BY <1>1, <1>6 DEF Nearest
<1>8. W(n) = end
  BY <1>1 DEF Nearest
<1> HIDE DEF W, lens
<1>9. DOMAIN c = 0 .. PackedOffset(lens, n) - 1
  <2>1. n \in 0 .. n
    BY <1>1
  <2>2. PackedOffset(lens, n) = end - start
    BY <1>4, <1>8, <2>1
  <2> QED
    BY <2>2
<1>10. ASSUME NEW q \in 0 .. n - 1
       PROVE  /\ DOMAIN tensors[q] = 0 .. lens[q] - 1
              /\ \A j \in Nat : j < lens[q] => tensors[q][j] = full[W(q) + j]
  BY <1>3, <1>5 DEF IsRange
<1>11. ASSUME NEW q \in 0 .. n - 1, NEW j \in Nat, j < lens[q]
       PROVE  c[PackedOffset(lens, q) + j] = tensors[q][j]
  <2> DEFINE u == W(q)
             v == W(q + 1)
             at == PackedOffset(lens, q)
             len == lens[q]
             at2 == PackedOffset(lens, q + 1)
             last == PackedOffset(lens, n)
  <2>1. q \in 0 .. n /\ q + 1 \in 0 .. n /\ n \in 0 .. n /\ q + 1 <= n
    BY <1>1
  <2>2. u \in Nat /\ v \in Nat /\ at = u - start /\ at2 = v - start /\ len = v - u /\ last = end - start
    BY <1>4, <1>5, <1>7, <1>8, <2>1
  <2>3. at \in Nat /\ at2 <= last
    BY <1>1, <1>4, <2>1, PackedOffsets, PackedOffsetsGrow
  <2>4. j < len
    BY <1>11
  <2>5. tensors[q][j] = full[u + j]
    BY <1>10, <1>11
  <2> HIDE DEF u, v, at, len, at2, last
  <2>6. at + j \in 0 .. (end - start) - 1 /\ start + (at + j) = u + j
    BY <1>1, <2>2, <2>3, <2>4
  <2>7. c[at + j] = full[u + j]
    BY <2>6
  <2> QED
    BY <2>5, <2>7 DEF at
<1>12. c = [a \in DOMAIN c |-> c[a]]
  OBVIOUS
<1>13. InRankOrder(tensors) = c
  <2> HIDE DEF c
  <2>1. HasInOrder(c, tensors, lens, n)
    BY <1>1, <1>2, <1>9, <1>10, <1>11, <1>12 DEF HasInOrder
  <2> QED
    BY <1>1, <1>4, <2>1, RankOrderIs
<1> QED
  BY <1>13 DEF Own, Size, start, end

\* Segments from the start of a parameter on.
Moved(segs, p) ==
  [k \in DOMAIN segs |-> Seg(segs[k].start - p.start, segs[k].end - p.start, segs[k].local)]

\* What is joined of a parameter's own tensor.
LEMMA JoinedWithin ==
  ASSUME NEW buffer, NEW total \in Nat, NEW p, p.start \in Nat, p.end \in Nat,
         NEW segs \in Seq(ClippedTo(p, total))
  PROVE  Joined(Own(p, buffer), Moved(segs, p)) = Joined(buffer, segs)
<1> DEFINE own == Own(p, buffer)
           moved == Moved(segs, p)
           A == ClippedTo(p, total)
<1>1. \A c \in A : c.start \in Nat /\ c.end \in Nat /\ p.start <= c.start /\ c.start < c.end /\ c.end <= p.end
  BY DEF ClippedTo
<1>2. \A k \in DOMAIN segs : segs[k] \in A
  <2> HIDE DEF A
  <2>1. segs \in Seq(A)
    BY DEF A
  <2> QED
    BY <2>1
<1> HIDE DEF A
<1>3. DOMAIN moved = DOMAIN segs
  BY DEF Moved
<1>4. ASSUME NEW k \in DOMAIN segs
      PROVE  [j \in 1 .. Size(moved[k]) |-> own[moved[k].start + j - 1]]
               = [j \in 1 .. Size(segs[k]) |-> buffer[segs[k].start + j - 1]]
  <2> DEFINE a == segs[k].start
             b == segs[k].end
             x == p.start
             y == p.end
             m == moved[k]
  <2>1. a \in Nat /\ b \in Nat /\ x \in Nat /\ y \in Nat /\ x <= a /\ a < b /\ b <= y
    BY <1>1, <1>2
  <2>2. m.start = a - x /\ m.end = b - x
    BY DEF Moved, Seg
  <2>3. Size(m) = m.end - m.start /\ Size(segs[k]) = b - a
    BY DEF Size
  <2>4. own = [i \in 0 .. (y - x) - 1 |-> buffer[x + i]]
    BY DEF Own, Size
  <2> HIDE DEF a, b, x, y, m, own
  <2>5. Size(m) = b - a
    BY <2>1, <2>2, <2>3
  <2>6. ASSUME NEW j \in 1 .. b - a
        PROVE  own[m.start + j - 1] = buffer[a + j - 1]
    <3>1. m.start + j - 1 \in 0 .. (y - x) - 1 /\ x + (m.start + j - 1) = a + j - 1
      BY <2>1, <2>2
    <3> QED
      BY <2>4, <3>1
  <2>7. [j \in 1 .. Size(m) |-> own[m.start + j - 1]] = [j \in 1 .. Size(segs[k]) |-> buffer[a + j - 1]]
    BY <2>3, <2>5, <2>6
  <2> QED
    BY <2>7 DEF m, a
<1> HIDE DEF moved, own
<1>5. Pieces(own, moved) = Pieces(buffer, segs)
  BY <1>3, <1>4 DEF Pieces
<1>6. Joined(own, moved) = Joined(buffer, segs)
  BY <1>5 DEF Joined, Pieces
<1> QED
  BY <1>6 DEF own, moved

\* Groups with the same layout keep every element at the same place.
LEMMA SameLayouts ==
  ASSUME NEW a, NEW b, SoundGroup(a), SoundGroup(b),
         a.n = b.n, a.params = b.params, a.sizes = b.sizes, a.layout = b.layout
  PROVE  \A v : /\ Params(a, v) = Params(b, v)
                /\ \A r : LocalShard(a, Params(a, v), r) = LocalShard(b, Params(b, v), r)
                /\ Moments(a, v) = Moments(b, v)
<1>1. a.keeper = b.keeper /\ a.place = b.place
  BY DEF SoundGroup, WellPlaced
<1>2. \A f : Pack(a, f) = Pack(b, f)
  BY <1>1 DEF Pack, Keeper, Place
<1>3. ASSUME NEW v
      PROVE  Params(a, v) = Params(b, v)
  BY DEF Params
<1>4. ASSUME NEW v, NEW r
      PROVE  LocalShard(a, Params(a, v), r) = LocalShard(b, Params(b, v), r)
  BY <1>2, <1>3 DEF LocalShard
<1>5. ASSUME NEW v
      PROVE  Moments(a, v) = Moments(b, v)
  <2>1. ParamNames(a) = ParamNames(b) /\ \A fqn : ParamNamed(a, fqn) = ParamNamed(b, fqn)
    BY DEF ParamNames, ParamNamed
  <2> DEFINE P == Params(a, v)
  <2>2. Params(b, v) = P
    BY <1>3
  <2> HIDE DEF P
  <2> QED
    BY <2>1, <2>2 DEF Moments, P
<1> QED
  BY <1>3, <1>4, <1>5

\* A parameter of a group, by its name.
LEMMA NamedTyped ==
  ASSUME NEW g, SoundGroup(g), NEW fqn \in ParamNames(g)
  PROVE  LET p == ParamNamed(g, fqn)
         IN  /\ p.start \in 0 .. g.layout.total /\ p.end \in 0 .. g.layout.total
             /\ p.start \in Nat /\ p.end \in Nat /\ p.start < p.end /\ p.end <= g.layout.total
<1> DEFINE i == CHOOSE i \in DOMAIN g.params : g.params[i].fqn = fqn
<1>1. i \in DOMAIN g.params
  BY DEF ParamNames
<1>2. ParamNamed(g, fqn) = g.params[i]
  BY DEF ParamNamed
<1> HIDE DEF i
<1> DEFINE a == g.params[i].start
           b == g.params[i].end
           total == g.layout.total
<1>3. total \in Nat /\ a \in 0 .. total /\ b \in 0 .. total /\ a < b
  BY <1>1, GroupTyped
<1> HIDE DEF a, b, total
<1>4. a \in Nat /\ b \in Nat /\ b <= total
  BY <1>3
<1> QED
  BY <1>2, <1>3, <1>4 DEF a, b, total

\* What a rank of another group takes of the optimizer's tensors.
LEMMA MomentTaken ==
  ASSUME NEW m, SoundGroup(m), RankChunks(m), NEW g, SoundGroup(g), m.params = g.params,
         m.layout.total = g.layout.total, NEW r \in RanksOf(g.n), NEW fqn \in ParamNames(g), NEW full,
         NEW tensors, KeptOf(tensors, m, ParamNamed(m, fqn), full),
         NEW segs, segs = OnRank(g.layout.ranks[r], ParamNamed(g, fqn), r)
  PROVE  /\ Length(InRankOrder(tensors)) = Size(ParamNamed(g, fqn))
         /\ Joined(InRankOrder(tensors), Moved(segs, ParamNamed(g, fqn))) = Joined(full, segs)
<1> DEFINE p == ParamNamed(g, fqn)
           total == g.layout.total
           own == Own(p, full)
<1>1. /\ p.start \in 0 .. total /\ p.end \in 0 .. total
      /\ p.start \in Nat /\ p.end \in Nat /\ p.start < p.end /\ p.end <= m.layout.total
  BY NamedTyped
<1>2. ParamNamed(m, fqn) = p
  BY DEF ParamNamed
<1>3. total \in Nat /\ g.layout.ranks[r] \in Seq(Segments(total)) /\ r \in Nat
  BY GroupTyped
<1> HIDE DEF p
<1>4. InRankOrder(tensors) = own
  <2>1. KeptOf(tensors, m, p, full)
    BY <1>2
  <2> QED
    BY <1>1, <2>1, MomentsJoin
<1>5. Length(own) = Size(p)
  <2> DEFINE size == Size(p)
  <2>1. size \in Nat
    BY <1>1 DEF Size
  <2> HIDE DEF size
  <2>2. DOMAIN own = 0 .. size - 1
    BY DEF size, Own
  <2>3. Cardinality(0 .. size - 1) = size
    BY <2>1, ZeroToCount
  <2> QED
    BY <2>2, <2>3 DEF Length, size
<1>6. segs \in Seq(ClippedTo(p, total))
  <2> DEFINE s == g.layout.ranks[r]
  <2> HIDE DEF s, total
  <2>1. OnRank(s, p, r) \in Seq(ClippedTo(p, total))
    BY <1>1, <1>3, OnRankClips DEF s
  <2> QED
    BY <2>1 DEF s, p
<1>7. Joined(own, Moved(segs, p)) = Joined(full, segs)
  <2> HIDE DEF total
  <2> QED
    BY <1>1, <1>3, <1>6, JoinedWithin
<1> QED
  BY <1>4, <1>5, <1>7 DEF p

-----------------------------------------------------------------------------
(* Every load restores what was saved *)

\* The group has what was saved.
Restored ==
  /\ version = disk.version
  /\ \A r \in Members : proc[r].shard = LocalShard(group, Params(group, version), r)
  /\ moments = Moments(group, version)

\* What a rank of a group has at a version.
SavedBy(g, v, r) == [shard |-> LocalShard(g, Params(g, v), r), moments |-> Moments(g, v)[r]]

\* A checkpoint has what its ranks had, and is published when all have saved.
SavedOK ==
  /\ DOMAIN disk = {"meta", "payload", "published", "version"}
  /\ disk.meta = Nothing => disk = NoCheckpoint
  /\ disk.meta # Nothing => SoundGroup(disk.meta)
  /\ \A q \in DOMAIN disk.payload : disk.payload[q] = SavedBy(disk.meta, disk.version, q)
  /\ disk.published => disk.meta # Nothing /\ DOMAIN disk.payload = RanksOf(disk.meta.n)

\* A program that saves has what its checkpoint is to have; one that was
\* loaded has what the checkpoint has.
ProgramHas ==
  /\ group # Nothing /\ ~disk.published => ShardsRight /\ (version > 0 => moments = Moments(group, version))
  /\ Saving => group = disk.meta /\ version = disk.version
  /\ loaded # "no" => group # Nothing /\ disk.published
  /\ LoadedStateIsTheSaved

\* A load into the layout that was saved restores every rank's shard.
LEMMA LoadsSame ==
  ASSUME SavedOK, Shaped, GroupIsSound, group # Nothing, disk.published, LoadSameLayout,
         group' = group, disk' = disk, version' = disk.version
  PROVE  Restored'
<1> DEFINE g == group
           m == disk.meta
           v == disk.version
           payload == disk.payload
<1>1. /\ SoundGroup(g) /\ SoundGroup(m) /\ DOMAIN payload = RanksOf(m.n)
      /\ \A q \in RanksOf(m.n) : payload[q] = SavedBy(m, v, q)
  BY DEF SavedOK, GroupIsSound
<1>2. m.n = g.n /\ m.params = g.params /\ m.sizes = g.sizes /\ m.layout = g.layout
  BY DEF LoadSameLayout, SameLayout
<1>3. /\ proc' = [r \in Members |-> [proc[r] EXCEPT !.shard = payload[r].shard]]
      /\ moments' = [r \in Members |-> payload[r].moments]
  BY DEF LoadSameLayout
<1>4. \A r \in Members : "shard" \in DOMAIN proc[r]
  BY DEF Shaped, Fields
<1>5. Members' = Members /\ Members = RanksOf(m.n) /\ g' = g
  BY <1>2 DEF Members
<1>6. version' = v /\ v = disk'.version
  OBVIOUS
<1> HIDE DEF g, m, v, payload
<1>7. /\ \A r : LocalShard(m, Params(m, v), r) = LocalShard(g, Params(g, v), r)
      /\ Moments(m, v) = Moments(g, v)
  BY <1>1, <1>2, SameLayouts
<1>8. ASSUME NEW r \in Members
      PROVE  proc'[r].shard = LocalShard(g, Params(g, v), r)
  <2>1. proc'[r].shard = payload[r].shard
    BY <1>3, <1>4
  <2>2. payload[r].shard = LocalShard(m, Params(m, v), r)
    BY <1>1, <1>5 DEF SavedBy
  <2> QED
    BY <1>7, <2>1, <2>2
<1>9. moments' = Moments(g, v)
  <2>1. \A r \in Members : payload[r].moments = Moments(m, v)[r]
    BY <1>1, <1>5 DEF SavedBy
  <2>2. Members = DOMAIN m.sizes
    BY <1>1, <1>5, GroupTyped
  <2>3. Moments(m, v) = [r \in Members |-> Moments(m, v)[r]]
    BY <2>2 DEF Moments
  <2>4. moments' = [r \in Members |-> Moments(m, v)[r]]
    BY <1>3, <2>1
  <2> QED
    BY <1>7, <2>3, <2>4
<1>10. g = group'
  BY DEF g
<1> QED
  BY <1>5, <1>6, <1>8, <1>9, <1>10 DEF Restored

\* A load into another layout restores every rank's shard.
LEMMA LoadsResharded ==
  ASSUME SavedOK, Shaped, GroupIsSound, group # Nothing, disk.published, LoadResharded,
         group' = group, disk' = disk, version' = disk.version,
         ModelMatches, RankChunks(disk.meta)
  PROVE  Restored'
<1> DEFINE g == group
           m == disk.meta
           v == disk.version
           payload == disk.payload
           P == Params(m, v)
           shards == [q \in RanksOf(m.n) |-> payload[q].shard]
           T(fqn) == [q \in RanksOf(m.n) |-> payload[q].moments[fqn]]
<1>1. /\ SoundGroup(g) /\ SoundGroup(m) /\ DOMAIN payload = RanksOf(m.n) /\ RankChunks(m)
      /\ \A q \in RanksOf(m.n) : payload[q] = SavedBy(m, v, q)
  BY DEF SavedOK, GroupIsSound
<1>2. m.params = g.params /\ m.layout.total = g.layout.total
  BY DEF LoadResharded, ModelMatches
<1>3. /\ proc' = [r \in Members |-> [proc[r] EXCEPT !.shard = TargetShard(InRankOrder(shards), r)]]
      /\ moments' = [r \in Members |->
                       [fqn \in ParamNames(g) |->
                          TargetMoment(InRankOrder(T(fqn)), payload[0].moments[fqn], ParamNamed(g, fqn), r)]]
  BY DEF LoadResharded
<1>4. \A r \in Members : "shard" \in DOMAIN proc[r]
  BY DEF Shaped, Fields
<1>5. Members' = Members /\ Members = RanksOf(g.n) /\ g' = g
  BY DEF Members
<1>6. version' = v /\ v = disk'.version
  OBVIOUS
<1>7. \A full, r : TargetShard(full, r) = Joined(full, g.layout.ranks[r])
  BY DEF TargetShard
<1>8. \A full, first, p, r :
         TargetMoment(full, first, p, r) =
           IF Length(full) = Size(p) THEN Joined(full, Moved(OnRank(g.layout.ranks[r], p, r), p)) ELSE first
  BY DEF TargetMoment, Moved
<1>9. DOMAIN P = 0 .. m.layout.total - 1 /\ P = [i \in DOMAIN P |-> P[i]]
  BY DEF Params
<1>10. Params(g, v) = P
  BY <1>2 DEF Params
<1> HIDE DEF g, m, v, payload, P
<1>11. \A q \in RanksOf(m.n) : /\ payload[q].shard = LocalShard(m, P, q)
                               /\ payload[q].moments = Moments(m, v)[q]
  BY <1>1 DEF SavedBy, P
<1>12. InRankOrder(shards) = P
  <2> DEFINE s == shards
  <2>1. DOMAIN s = RanksOf(m.n) /\ \A q \in RanksOf(m.n) : s[q] = LocalShard(m, P, q)
    BY <1>11
  <2> HIDE DEF s
  <2>2. InRankOrder(s) = P
    BY <1>1, <1>9, <2>1, ChunksJoin
  <2> QED
    BY <2>2 DEF s
<1>13. ASSUME NEW r \in Members
       PROVE  proc'[r].shard = LocalShard(g, Params(g, v), r)
  <2>1. proc'[r].shard = Joined(P, g.layout.ranks[r])
    BY <1>3, <1>4, <1>7, <1>12
  <2>2. DOMAIN P = 0 .. g.layout.total - 1 /\ r \in RanksOf(g.n)
    BY <1>2, <1>5, <1>9
  <2>3. Joined(P, g.layout.ranks[r]) = LocalShard(g, P, r)
    BY <1>1, <2>2, JoinedShard
  <2> QED
    BY <1>10, <2>1, <2>3
<1>14. ASSUME NEW r \in Members, NEW fqn \in ParamNames(g)
       PROVE  TargetMoment(InRankOrder(T(fqn)), payload[0].moments[fqn], ParamNamed(g, fqn), r)
                = Joined(P, OnRank(g.layout.ranks[r], ParamNamed(g, fqn), r))
  <2> DEFINE p == ParamNamed(g, fqn)
             t == T(fqn)
             segs == OnRank(g.layout.ranks[r], ParamNamed(g, fqn), r)
  <2>1. fqn \in ParamNames(m) /\ ParamNamed(m, fqn) = p
    BY <1>2 DEF ParamNames, ParamNamed
  <2>2. ASSUME NEW q \in RanksOf(m.n)
        PROVE  t[q] = Joined(P, OnRank(m.layout.ranks[q], ParamNamed(m, fqn), q))
    <3>1. t[q] = Moments(m, v)[q][fqn]
      BY <1>11
    <3>2. q \in DOMAIN m.sizes
      BY <1>1, GroupTyped
    <3> QED
      BY <2>1, <3>1, <3>2 DEF Moments, P
  <2>3. KeptOf(t, m, ParamNamed(m, fqn), P)
    BY <2>2 DEF KeptOf
  <2>4. r \in RanksOf(g.n)
    BY <1>5
  <2> HIDE DEF t, segs
  <2>5. segs = OnRank(g.layout.ranks[r], ParamNamed(g, fqn), r)
    BY DEF segs
  <2>6. /\ Length(InRankOrder(t)) = Size(ParamNamed(g, fqn))
        /\ Joined(InRankOrder(t), Moved(segs, ParamNamed(g, fqn))) = Joined(P, segs)
    BY <1>1, <1>2, <2>3, <2>4, <2>5, MomentTaken
  <2>7. TargetMoment(InRankOrder(t), payload[0].moments[fqn], p, r) = Joined(P, segs)
    BY <1>8, <2>5, <2>6
  <2> QED
    BY <2>7 DEF t, segs
<1>15. moments' = Moments(g, v)
  <2>1. Members = DOMAIN g.sizes
    BY <1>1, <1>5, GroupTyped
  <2>2. moments' = [r \in Members |->
                      [fqn \in ParamNames(g) |-> Joined(P, OnRank(g.layout.ranks[r], ParamNamed(g, fqn), r))]]
    BY <1>3, <1>14
  <2> QED
    BY <1>10, <2>1, <2>2 DEF Moments
<1>16. g = group'
  BY DEF g
<1> QED
  BY <1>5, <1>6, <1>13, <1>15, <1>16 DEF Restored

\* Training leaves the group, its version, the optimizer and the checkpoint.
LEMMA TrainLeaves ==
  ASSUME InOrder, Train
  PROVE  UNCHANGED <<group, version, moments, disk, loaded>> /\ disk = NoCheckpoint
<1>0. UNCHANGED <<moments, disk, loaded>> /\ disk = NoCheckpoint
  BY DEF Train
<1>1. CASE Begin
  BY <1>0, <1>1 DEF Begin
<1>2. ASSUME NEW r \in Members, HostStep(r) PROVE UNCHANGED <<group, version>>
  <2>1. OnlyRank(r)
    BY <1>2, HostStepsInOrder
  <2> QED
    BY <2>1 DEF OnlyRank
<1>3. CASE Deliver
  BY <1>0, <1>3, DeliverDoes DEF InOrder, ProgramOK
<1>4. ASSUME NEW limit \in Limits, LimitWorkspaces(0, limit) PROVE UNCHANGED <<group, version>>
  BY <1>4 DEF LimitWorkspaces
<1> QED
  BY <1>0, <1>1, <1>2, <1>3, <1>4 DEF Train

\* What a step that changes neither the group nor the checkpoint leaves.
LEMMA LeavesSaved ==
  ASSUME SavedOK, disk' = disk
  PROVE  SavedOK'
BY DEF SavedOK, NoCheckpoint, Nothing

\* A rank saves what it has.
LEMMA SavesPayload ==
  ASSUME InOrder, SavedOK, ProgramHas, NEW r \in Members, SavePayload(r)
  PROVE  SavedOK'
<1> DEFINE saved == [shard |-> proc[r].shard, moments |-> moments[r]]
           payload == disk.payload
           m == disk.meta
           v == disk.version
<1>1. /\ Saving /\ disk' = [disk EXCEPT !.payload = With(payload, r, saved)]
  BY DEF SavePayload
<1>2. /\ group # Nothing /\ ~disk.published /\ version > 0 /\ m # Nothing
      /\ group = m /\ version = v
  BY <1>1 DEF Saving, ProgramHas
<1>3. saved = SavedBy(m, v, r)
  <2>1. proc[r].shard = LocalShard(group, Params(group, version), r) /\ moments = Moments(group, version)
    BY <1>2 DEF ProgramHas, ShardsRight
  <2> QED
    BY <1>2, <2>1 DEF SavedBy
<1>4. /\ DOMAIN disk = {"meta", "payload", "published", "version"}
      /\ SoundGroup(m)
      /\ \A q \in DOMAIN payload : payload[q] = SavedBy(m, v, q)
  BY <1>2 DEF SavedOK
<1> HIDE DEF saved
<1> DEFINE more == With(payload, r, saved)
<1>5. \A q \in DOMAIN more : more[q] = SavedBy(m, v, q)
  BY <1>3, <1>4 DEF With
<1> HIDE DEF more, payload
<1>6. /\ DOMAIN disk' = DOMAIN disk /\ disk'.meta = m /\ disk'.version = v
      /\ disk'.published = disk.published /\ disk'.payload = more
  BY <1>1, <1>4 DEF more
<1> HIDE DEF m, v
<1>7. m # Nothing /\ ~disk.published
  BY <1>2
<1>8. disk'.meta # Nothing
  BY <1>6, <1>7 DEF Nothing
<1> QED
  BY <1>4, <1>5, <1>6, <1>7, <1>8 DEF SavedOK

\* Every step keeps the checkpoint, and what a program has of it, right.
LEMMA StepsSave ==
  ASSUME InOrder, GatherOK, GatherOK', SavedOK, ProgramHas, [CheckpointNext]_checkpointVars
  PROVE  SavedOK' /\ ProgramHas'
<1>0. Shaped /\ GroupIsSound
  BY DEF InOrder, ProgramOK
<1>1. CASE Start
  <2>1. /\ version' = 0 /\ group = Nothing /\ UNCHANGED <<moments, disk, loaded>>
        /\ proc' = [r \in Members' |-> Fresh(group', r, 0)]
    BY <1>1 DEF Start, FullyShard, Members
  <2>2. loaded' = "no"
    BY <2>1 DEF ProgramHas
  <2>3. ShardsRight'
    <3> SUFFICES ASSUME NEW r \in Members'
                 PROVE  proc'[r].shard = LocalShard(group', Params(group', version'), r)
      BY DEF ShardsRight
    <3> DEFINE g == group'
    <3>1. proc'[r] = Fresh(g, r, 0)
      BY <2>1
    <3> HIDE DEF g
    <3>2. proc'[r].shard = LocalShard(g, Params(g, 0), r)
      BY <3>1 DEF Fresh
    <3> QED
      BY <2>1, <3>2 DEF g
  <2>4. ~Saving' /\ ~(version' > 0)
    BY <2>1 DEF Saving
  <2>5. SavedOK'
    BY <2>1, LeavesSaved
  <2> QED
    BY <2>2, <2>3, <2>4, <2>5 DEF ProgramHas, LoadedStateIsTheSaved
<1>2. CASE Train
  <2>1. UNCHANGED <<group, version, moments, disk, loaded>> /\ disk = NoCheckpoint
    BY <1>2, TrainLeaves DEF InOrder
  <2>2. loaded' = "no" /\ ~Saving'
    BY <2>1 DEF ProgramHas, NoCheckpoint, Saving, Nothing
  <2>3. group' # Nothing => ShardsRight'
    BY <2>1 DEF GatherOK, NoCheckpoint, Nothing
  <2>4. SavedOK'
    BY <2>1, LeavesSaved
  <2>5. group' # Nothing /\ version' > 0 => moments' = Moments(group', version')
    BY <2>1 DEF ProgramHas, NoCheckpoint, Nothing
  <2> QED
    BY <2>2, <2>3, <2>4, <2>5 DEF ProgramHas, LoadedStateIsTheSaved
<1>3. CASE Step
  <2>1. /\ jobs # <<>> /\ group' = group /\ version' = version + 1 /\ UNCHANGED <<disk, loaded>>
        /\ moments' = Moments(group, version + 1)
    BY <1>3 DEF Step, End
  <2>2. disk = NoCheckpoint
    BY <2>1 DEF GatherOK
  <2>3. loaded' = "no" /\ ~Saving'
    BY <2>1, <2>2 DEF ProgramHas, NoCheckpoint, Saving, Nothing
  <2>4. group' # Nothing => ShardsRight'
    BY <2>1, <2>2 DEF GatherOK, NoCheckpoint, Nothing
  <2>5. SavedOK'
    BY <2>1, LeavesSaved
  <2>6. moments' = Moments(group', version')
    BY <2>1
  <2> QED
    BY <2>3, <2>4, <2>5, <2>6 DEF ProgramHas, LoadedStateIsTheSaved
<1>4. CASE SaveMetadata
  <2>1. /\ group # Nothing /\ disk = NoCheckpoint
        /\ disk' = [disk EXCEPT !.meta = group, !.version = version]
        /\ UNCHANGED <<group, proc, version, moments, loaded>>
    BY <1>4 DEF SaveMetadata
  <2>2. /\ DOMAIN disk' = {"meta", "payload", "published", "version"}
        /\ disk'.meta = group /\ disk'.version = version /\ disk'.payload = <<>> /\ disk'.published = FALSE
    BY <2>1 DEF NoCheckpoint
  <2>3. SoundGroup(group)
    BY <1>0, <2>1 DEF GroupIsSound
  <2>4. SavedOK'
    <3>1. disk'.meta # Nothing
      BY <2>1, <2>2
    <3>2. DOMAIN disk'.payload = {}
      BY <2>2
    <3>3. SoundGroup(disk'.meta)
      BY <2>2, <2>3
    <3> QED
      BY <2>2, <3>1, <3>2, <3>3 DEF SavedOK, Nothing
  <2>5. loaded' = "no" /\ ShardsRight /\ (version > 0 => moments = Moments(group, version))
    BY <2>1 DEF ProgramHas, NoCheckpoint
  <2>6. ShardsRight' /\ (version' > 0 => moments' = Moments(group', version'))
    BY <2>1, <2>5 DEF ShardsRight, Members
  <2>7. group' = disk'.meta /\ version' = disk'.version
    BY <2>1, <2>2
  <2> QED
    BY <2>4, <2>5, <2>6, <2>7 DEF ProgramHas, LoadedStateIsTheSaved
<1>5. ASSUME NEW r \in Members, SavePayload(r) PROVE SavedOK' /\ ProgramHas'
  <2>1. /\ Saving /\ UNCHANGED <<group, proc, version, moments, loaded>>
        /\ \E payload : disk' = [disk EXCEPT !.payload = payload]
    BY <1>5 DEF SavePayload
  <2>2. /\ disk'.meta = disk.meta /\ disk'.version = disk.version /\ disk'.published = disk.published
        /\ ~disk.published /\ group # Nothing
    BY <2>1 DEF SavedOK, Saving
  <2>3. loaded' = "no"
    BY <2>1, <2>2 DEF ProgramHas
  <2>4. ShardsRight' /\ (version' > 0 => moments' = Moments(group', version'))
    BY <2>1, <2>2 DEF ProgramHas, ShardsRight, Members
  <2>5. group' = disk'.meta /\ version' = disk'.version
    BY <2>1, <2>2 DEF ProgramHas
  <2> QED
    BY <1>5, <2>3, <2>4, <2>5, SavesPayload DEF ProgramHas, LoadedStateIsTheSaved
<1>6. CASE Publish
  <2>1. /\ Saving /\ DOMAIN disk.payload = Members /\ disk' = [disk EXCEPT !.published = TRUE]
        /\ UNCHANGED <<group, version, moments, loaded>>
    BY <1>6 DEF Publish
  <2>2. /\ ~disk.published /\ disk.meta # Nothing /\ group = disk.meta
    BY <2>1 DEF Saving, ProgramHas
  <2>3. /\ DOMAIN disk' = DOMAIN disk /\ disk'.meta = disk.meta /\ disk'.version = disk.version
        /\ disk'.published = TRUE /\ disk'.payload = disk.payload
    BY <2>1 DEF SavedOK
  <2>4. DOMAIN disk.payload = RanksOf(disk.meta.n)
    BY <2>1, <2>2 DEF Members
  <2>5. SavedOK'
    <3>1. SoundGroup(disk.meta) /\ DOMAIN disk = {"meta", "payload", "published", "version"}
          /\ \A q \in DOMAIN disk.payload : disk.payload[q] = SavedBy(disk.meta, disk.version, q)
      BY <2>2 DEF SavedOK
    <3> DEFINE m == disk.meta
               v == disk.version
               payload == disk.payload
    <3>2. /\ m # Nothing /\ SoundGroup(m) /\ DOMAIN payload = RanksOf(m.n)
          /\ \A q \in DOMAIN payload : payload[q] = SavedBy(m, v, q)
      BY <2>2, <2>4, <3>1
    <3>3. /\ DOMAIN disk' = {"meta", "payload", "published", "version"}
          /\ disk'.meta = m /\ disk'.version = v /\ disk'.payload = payload
      BY <2>3, <3>1
    <3> HIDE DEF m, v, payload
    <3> QED
      BY <3>2, <3>3 DEF SavedOK, Nothing
  <2>6. loaded' = "no"
    BY <2>1, <2>2 DEF ProgramHas
  <2>7. ~Saving'
    BY <2>3 DEF Saving
  <2> QED
    BY <2>3, <2>5, <2>6, <2>7 DEF ProgramHas, LoadedStateIsTheSaved
<1>7. ASSUME NEW allowReshard \in BOOLEAN, Load(allowReshard) PROVE SavedOK' /\ ProgramHas'
  <2>1. /\ group # Nothing /\ disk.published /\ group' = group /\ disk' = disk /\ version' = disk.version
        /\ LoadSameLayout \/ LoadResharded
    BY <1>7 DEF Load
  <2>2. SavedOK'
    BY <2>1, LeavesSaved
  <2>3. disk'.published /\ group' # Nothing
    BY <2>1 DEF Nothing
  <2>4. ~Saving'
    BY <2>3 DEF Saving
  <2>5. LoadedStateIsTheSaved'
    <3>1. CASE LoadSameLayout
      <4>1. Restored'
        BY <1>0, <2>1, <3>1, LoadsSame
      <4> QED
        BY <4>1 DEF LoadedStateIsTheSaved, Restored
    <3>2. CASE LoadResharded
      <4>1. loaded' = "reshard"
        BY <3>2 DEF LoadResharded
      <4>2. ModelMatches' /\ RankChunks(disk.meta)' => ModelMatches /\ RankChunks(disk.meta)
        BY <2>1 DEF ModelMatches, RankChunks
      <4>3. ModelMatches /\ RankChunks(disk.meta) => Restored'
        BY <1>0, <2>1, <3>2, LoadsResharded
      <4> QED
        BY <4>1, <4>2, <4>3 DEF LoadedStateIsTheSaved, Restored
    <3> QED
      BY <2>1, <3>1, <3>2
  <2> QED
    BY <2>2, <2>3, <2>4, <2>5 DEF ProgramHas
<1>8. CASE Crash
  <2>1. /\ group' = Nothing /\ loaded' = "no"
        /\ disk' = IF disk.published THEN disk ELSE [disk EXCEPT !.payload = <<>>]
    BY <1>8 DEF Crash
  <2>2. ~Saving'
    BY <2>1 DEF Saving, Nothing
  <2>3. SavedOK'
    <3>1. CASE disk.published
      BY <2>1, <3>1, LeavesSaved
    <3>2. CASE ~disk.published
      <4>1. DOMAIN disk = {"meta", "payload", "published", "version"}
        BY DEF SavedOK
      <4>2. /\ DOMAIN disk' = DOMAIN disk /\ disk'.meta = disk.meta /\ disk'.version = disk.version
            /\ disk'.published = disk.published /\ disk'.payload = <<>>
        BY <2>1, <3>2, <4>1
      <4>3. DOMAIN disk'.payload = {}
        BY <4>2
      <4>4. disk = NoCheckpoint => disk' = NoCheckpoint
        <5> SUFFICES ASSUME disk = NoCheckpoint PROVE disk' = NoCheckpoint
          OBVIOUS
        <5>1. disk' = [NoCheckpoint EXCEPT !.payload = <<>>]
          BY <2>1, <3>2
        <5>2. [NoCheckpoint EXCEPT !.payload = <<>>] = NoCheckpoint
          <6>1. NoCheckpoint = [x \in {"meta", "payload", "published", "version"} |-> NoCheckpoint[x]]
            BY DEF NoCheckpoint
          <6>2. NoCheckpoint.payload = <<>>
            BY DEF NoCheckpoint
          <6> DEFINE none == NoCheckpoint
                     empty == <<>>
          <6>3. /\ none = [x \in {"meta", "payload", "published", "version"} |-> none[x]]
                /\ none.payload = empty
            BY <6>1, <6>2
          <6> HIDE DEF none, empty
          <6>4. [none EXCEPT !.payload = empty] = none
            BY <6>3
          <6> QED
            BY <6>4 DEF none, empty
        <5> QED
          BY <5>1, <5>2
      <4>5. disk'.meta = Nothing => disk' = NoCheckpoint
        BY <4>2, <4>4 DEF SavedOK
      <4>6. disk'.meta # Nothing => SoundGroup(disk'.meta)
        BY <4>2 DEF SavedOK
      <4> QED
        BY <3>2, <4>1, <4>2, <4>3, <4>5, <4>6 DEF SavedOK, Nothing, NoCheckpoint
    <3> QED
      BY <3>1, <3>2
  <2> QED
    BY <2>1, <2>2, <2>3 DEF ProgramHas, LoadedStateIsTheSaved, Nothing
<1>9. CASE UNCHANGED checkpointVars
  <2>1. UNCHANGED <<group, proc, version, moments, disk, loaded>>
    BY <1>9 DEF checkpointVars
  <2>2. SavedOK'
    BY <2>1, LeavesSaved
  <2>3. Members' = Members
    BY <2>1 DEF Members
  <2>4. ShardsRight => ShardsRight'
    BY <2>1, <2>3 DEF ShardsRight
  <2>5. LoadedStateIsTheSaved'
    BY <2>1, <2>3 DEF ProgramHas, LoadedStateIsTheSaved, ModelMatches
  <2> QED
    BY <2>1, <2>2, <2>4, <2>5 DEF ProgramHas, Saving, Nothing
<1> QED
  BY <1>1, <1>2, <1>3, <1>4, <1>5, <1>6, <1>7, <1>8, <1>9 DEF CheckpointNext

\* LoadedStateIsTheSaved: a group whose parameters were loaded has what was
\* saved, and its optimizer's state with it, whatever crashed in between,
\* however many ranks saved it and load it, and wherever they keep it; resharded
\* if each rank that saved had one range, in rank order (load_matrix_dcp).
THEOREM LoadsRestoreWhatWasSaved ==
  CheckpointSpec /\ []GroupIsSound => []LoadedStateIsTheSaved
<1>1. CheckpointInit => SavedOK /\ ProgramHas
  BY DEF CheckpointInit, ExchangeInit, SavedOK, ProgramHas, NoCheckpoint, Nothing, Saving,
         LoadedStateIsTheSaved
<1>2. InOrder /\ GatherOK /\ GatherOK' /\ SavedOK /\ ProgramHas /\ [CheckpointNext]_checkpointVars
        => SavedOK' /\ ProgramHas'
  BY StepsSave
<1>3. ProgramHas => LoadedStateIsTheSaved
  BY DEF ProgramHas
<1> QED
  BY <1>1, <1>2, <1>3, ProgramsGather, PTL DEF CheckpointSpec
=============================================================================
