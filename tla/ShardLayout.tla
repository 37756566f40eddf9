------------------------------ MODULE ShardLayout ------------------------------
(***************************************************************************)
(* The layout of one communication group: which rank keeps which part of   *)
(* the group's flat buffer, and where in its local shard                   *)
(* (matrix_fsdp/core/layout.py, core/placement.py, core/managed_param.py,  *)
(* planning/layout_validator.py and the reorder of runtime/fsdp_unit.py).  *)
(*                                                                         *)
(* A segment is a record of a range [start, end) of the flat buffer and    *)
(* the offset local of the shard it is kept at.  A parameter is its range  *)
(* of the flat buffer with a name, a shape and a shard hint.  A layout     *)
(* gives each rank a sequence of segments, and each parameter the          *)
(* sequence of its segments with the rank each is on.                      *)
(*                                                                         *)
(* An operation that raises ValueError is the empty set, one that returns  *)
(* is the set of its result.                                               *)
(*                                                                         *)
(* An operator marked `Slip' is a defect a change could introduce in the   *)
(* one that follows it; the specification uses none of them.               *)
(***************************************************************************)
EXTENDS Containers, FiniteSets

LOCAL INSTANCE TLC
LOCAL INSTANCE SequencesExt

CONSTANT None   \* an absent hint field

AtLeast(a, b) == IF a > b THEN a ELSE b
AtMost(a, b) == IF a < b THEN a ELSE b

RanksOf(n) == 0 .. n - 1

\* The elements of a sequence of sequences by rank, in rank order.
Concat(byRank, n) == Flattened([i \in 1 .. n |-> byRank[i - 1]])

SumOf(f, s) == FoldLeft(LAMBDA sum, x : sum + f[x], 0, s)

-----------------------------------------------------------------------------
(* Segments and shards *)

Seg(start, end, local) == [start |-> start, end |-> end, local |-> local]
Size(seg) == seg.end - seg.start
LocalEnd(seg) == seg.local + Size(seg)

\* intersects, and the range two segments share (empty if they do not).
Overlaps(a, b) == AtLeast(a.start, b.start) < AtMost(a.end, b.end)

\* The part of a rank's segment that belongs to the parameter.
Clip(seg, p, r) ==
  LET start == AtLeast(seg.start, p.start)
  IN  [start |-> start, end |-> AtMost(seg.end, p.end),
       local |-> seg.local + start - seg.start, rank |-> r]

Sizes(segs) == FoldLeft(LAMBDA sum, seg : sum + Size(seg), 0, segs)

\* The segments one after the other in the shard that holds them.
Packed(ranges) ==
  FoldLeft(LAMBDA segs, x : Append(segs, Seg(x.start, x.end, Sizes(segs))), <<>>, ranges)

WorldSize(layout) == Cardinality(DOMAIN layout.ranks)

ShardSizes(layout) == [r \in DOMAIN layout.ranks |-> Sizes(layout.ranks[r])]

\* Where a rank's shard begins when the shards lie one after the other.
PackedOffset(sizes, r) ==
  LET offset[q \in 0 .. r] == IF q = 0 THEN 0 ELSE offset[q - 1] + sizes[q - 1]
  IN  offset[r]

Numel(params) == Sizes(params)

-----------------------------------------------------------------------------
(* Parameters *)

NoHint == [split |-> None, block |-> <<>>, expert |-> FALSE, group |-> None, owner |-> None]

Rows(p) == p.shape[1]
Cols(p) == p.shape[2]
IsMatrix(p) == Len(p.shape) = 2

ShapeNumel(shape) == FoldLeft(LAMBDA n, d : n * d, 1, shape)

\* validate_param_shard_hint, for the fields that planning and loading read.
HintAccepted(shape, hint) ==
  /\ hint.owner # None => hint.owner >= 0
  /\ hint.expert => hint.group # None
  /\ \A i \in DOMAIN hint.block : hint.block[i] > 0
  /\ hint.split \in {None, "parameter", "matrix_owner"} => hint.block = <<>>
  /\ hint.split = "matrix_owner" => Len(shape) = 2
  /\ hint.split = "block" =>
       Len(hint.block) = 1 /\ ShapeNumel(shape) % hint.block[1] = 0
  /\ hint.split = "row_block" =>
       /\ Len(shape) = 2
       /\ Len(hint.block) \in {1, 2}
       /\ Len(hint.block) = 2 => hint.block[2] = shape[2]
       /\ shape[1] % hint.block[1] = 0

\* ManagedParamRegistry.from_module: the parameters one after the other in
\* the flat buffer, in module order.
FromModule(specs) ==
  IF \A i \in DOMAIN specs : HintAccepted(specs[i].shape, specs[i].hint)
  THEN {FoldLeft(
          LAMBDA params, x :
            Append(params,
              [fqn |-> x.fqn, shape |-> x.shape, hint |-> x.hint,
               start |-> Numel(params), end |-> Numel(params) + ShapeNumel(x.shape)]),
          <<>>, specs)}
  ELSE {}

-----------------------------------------------------------------------------
(* Layouts *)

ParamLayout(p, segs) == [fqn |-> p.fqn, start |-> p.start, end |-> p.end, segs |-> segs]

Layout(total, ranks, paramLayouts) ==
  [total |-> total, ranks |-> ranks, params |-> paramLayouts]

OnRank(segs, p, r) ==
  LET here == Selected(segs, {k \in DOMAIN segs : Overlaps(segs[k], p)})
  IN  [i \in 1 .. Len(here) |-> Clip(here[i], p, r)]

\* MatrixGroupLayout.from_shard_plan and _param_segments_from_rank_segments:
\* the segments of each parameter are those of the ranks, clipped to it.
FromRankSegments(params, ranks) ==
  Layout(Numel(params), ranks,
    [i \in 1 .. Len(params) |->
       ParamLayout(params[i],
         Concat([r \in DOMAIN ranks |-> OnRank(ranks[r], params[i], r)],
                Cardinality(DOMAIN ranks)))])

\* rank_segments_for_param, owner_ranks
SegsOnRank(paramLayout, r) == SelectSeq(paramLayout.segs, LAMBDA seg : seg.rank = r)
OwnerRanks(paramLayout) == {paramLayout.segs[i].rank : i \in DOMAIN paramLayout.segs}

-----------------------------------------------------------------------------
(* explain_matrix_shard_compatibility: one segment per rank, in rank order *)

\* What the check finds wrong with a rank, the ranks before it being right.
Blame(layout, r) ==
  LET segs == layout.ranks[r]
      sizes == ShardSizes(layout)
  IN  CASE sizes[r] = 0 -> IF segs = <<>> THEN "none" ELSE "empty_shard"
        [] sizes[r] > 0 /\ Len(segs) # 1 -> "out_of_order"
        [] sizes[r] > 0 /\ Len(segs) = 1 /\ segs[1].local # 0 -> "local_start"
        [] sizes[r] > 0 /\ Len(segs) = 1 /\ segs[1].local = 0 ->
             IF segs[1].start = PackedOffset(sizes, r) THEN "none" ELSE "out_of_order"

MatrixShardCompatible(layout) ==
  /\ layout.total > 0
  /\ \A r \in DOMAIN layout.ranks : Blame(layout, r) = "none"
  /\ PackedOffset(ShardSizes(layout), WorldSize(layout)) = layout.total

RequiresFlatReorder(layout) ==
  \E r \in DOMAIN layout.ranks :
    /\ Blame(layout, r) = "out_of_order"
    /\ \A q \in RanksOf(r) : Blame(layout, q) = "none"

-----------------------------------------------------------------------------
(* validate_group_layout *)

SegmentRangeOK(seg, total) == 0 <= seg.start /\ seg.start < seg.end /\ seg.end <= total

ByRange(a, b) == a.start < b.start \/ (a.start = b.start /\ a.end < b.end)

\* _validate_global_coverage: sorted, each range begins where the one before
\* it ended, the last one ends at the end.
Covers(ranges, start, end) ==
  LET sorted == SortSeq(ranges, ByRange)
      reached == [i \in 0 .. Len(sorted) |-> IF i = 0 THEN start ELSE sorted[i].end]
  IN  /\ \A i \in DOMAIN sorted : sorted[i].start = reached[i - 1]
      /\ reached[Len(sorted)] = end

GroupShapeOK(layout, params, n) ==
  /\ layout.total = Numel(params)
  /\ DOMAIN layout.ranks = RanksOf(n)
  /\ [i \in DOMAIN layout.params |-> layout.params[i].fqn] =
       [i \in DOMAIN params |-> params[i].fqn]

\* Each segment begins in the shard where the one before it ended.
LocallyPacked(segs) ==
  \A i \in DOMAIN segs : segs[i].local = IF i = 1 THEN 0 ELSE LocalEnd(segs[i - 1])

RankSegmentsOK(layout) ==
  /\ \A r \in DOMAIN layout.ranks :
       /\ LocallyPacked(layout.ranks[r])
       /\ \A i \in DOMAIN layout.ranks[r] :
            SegmentRangeOK(layout.ranks[r][i], layout.total)
  /\ Covers(Concat(layout.ranks, WorldSize(layout)), 0, layout.total)

ParamSegmentsOK(layout, params) ==
  \A i \in DOMAIN layout.params :
    LET pl == layout.params[i] IN
    /\ pl.start = params[i].start /\ pl.end = params[i].end
    /\ \A k \in DOMAIN pl.segs :
         LET seg == pl.segs[k] IN
         /\ seg.rank \in DOMAIN layout.ranks
         /\ SegmentRangeOK(seg, layout.total)
         /\ pl.start <= seg.start /\ seg.end <= pl.end
         /\ 0 <= seg.local /\ LocalEnd(seg) <= Sizes(layout.ranks[seg.rank])
    /\ Covers(pl.segs, pl.start, pl.end)

\* _validate_param_segments_match_rank_segments
ParamSegmentsMatchRanks(layout) ==
  \A i \in DOMAIN layout.params : \A k \in DOMAIN layout.params[i].segs :
    LET seg == layout.params[i].segs[k] IN
    \E j \in DOMAIN layout.ranks[seg.rank] :
      LET whole == layout.ranks[seg.rank][j] IN
      /\ whole.start <= seg.start /\ seg.end <= whole.end
      /\ seg.local = whole.local + seg.start - whole.start

Aligned(pl, units) ==
  \A k \in DOMAIN pl.segs :
    /\ (pl.segs[k].start - pl.start) % units = 0
    /\ (pl.segs[k].end - pl.start) % units = 0

\* The parameters of one group of experts share their owner.
ExpertGroup(p) == IF p.hint.group # None THEN p.hint.group ELSE p.fqn

HintConstraintsOK(layout, params) ==
  /\ \A i \in DOMAIN params :
       LET hint == params[i].hint
           pl == layout.params[i]
       IN  /\ hint.split \in {"parameter", "matrix_owner"} \/ hint.expert => Len(pl.segs) = 1
           /\ hint.split = "block" /\ hint.block # <<>> => Aligned(pl, hint.block[1])
           /\ hint.split = "row_block" /\ hint.block # <<>> =>
                Aligned(pl, hint.block[1] * Cols(params[i]))
  /\ \A i, j \in DOMAIN params :
       params[i].hint.expert /\ params[j].hint.expert
         /\ ExpertGroup(params[i]) = ExpertGroup(params[j])
       => layout.params[i].segs[1].rank = layout.params[j].segs[1].rank

ValidGroupLayout(layout, params, n) ==
  /\ GroupShapeOK(layout, params, n)
  /\ RankSegmentsOK(layout)
  /\ ParamSegmentsOK(layout, params)
  /\ ParamSegmentsMatchRanks(layout)
  /\ HintConstraintsOK(layout, params)

-----------------------------------------------------------------------------
(* Which layouts the runtime executes, and how *)

ParamsIn(seg, params) == {i \in DOMAIN params : Overlaps(seg, params[i])}

\* Each segment is of one parameter, no rank has two of one parameter:
\* _can_use_segment_runtime_plan, and what the validator asks besides.
SegmentsExposeParams(layout, params) ==
  \A r \in DOMAIN layout.ranks :
    LET segs == layout.ranks[r] IN
    /\ LocallyPacked(segs)
    /\ \A i \in DOMAIN segs : Cardinality(ParamsIn(segs[i], params)) = 1
    /\ \A i, j \in DOMAIN segs :
         ParamsIn(segs[i], params) = ParamsIn(segs[j], params) => i = j

CanUseSegmentRuntime(layout, params) ==
  /\ \E i \in DOMAIN layout.params : Len(layout.params[i].segs) > 1
  /\ PackedOffset(ShardSizes(layout), WorldSize(layout)) = layout.total
  /\ SegmentsExposeParams(layout, params)

WholeParams(layout, params) ==
  \A i \in DOMAIN params :
    /\ Len(layout.params[i].segs) = 1
    /\ layout.params[i].segs[1].start = params[i].start
    /\ layout.params[i].segs[1].end = params[i].end

\* explain_runtime_layout_compatibility under a runtime_layout_policy; a
\* layout that does not validate has no mode.
RuntimeModes(layout, params, n, policy) ==
  IF ~ValidGroupLayout(layout, params, n) THEN {}
  ELSE IF MatrixShardCompatible(layout) THEN {"matrix_shard"}
  ELSE IF CanUseSegmentRuntime(layout, params)
       THEN IF policy = "matrix_shard_only" THEN {} ELSE {"segment_runtime"}
  ELSE IF policy = "auto" /\ RequiresFlatReorder(layout) /\ WholeParams(layout, params)
       THEN {"flat_reorder"}
  ELSE {}

\* The parameters a rank owns whole, in the order of its shard.
OwnedInOrder(layout, params, r) ==
  LET owned == {i \in DOMAIN params : layout.params[i].segs[1].rank = r}
  IN  SetToSortSeq(owned, LAMBDA i, j :
                            layout.params[i].segs[1].local < layout.params[j].segs[1].local)

\* _reorder_whole_param_layout_for_matrix_shard: the flat buffer is laid out
\* anew, the parameters of rank 0 first, so that each rank's is one segment.
ReorderedParams(layout, params) ==
  LET order == Concat([r \in DOMAIN layout.ranks |-> OwnedInOrder(layout, params, r)],
                      WorldSize(layout))
  IN  FoldLeft(LAMBDA done, i :
                 Append(done, [params[i] EXCEPT !.start = Numel(done),
                                                !.end = Numel(done) + Size(params[i])]),
               <<>>, order)

\* Slip: the parameters keep the offsets they had.
ReorderedLayoutAtOldOffsets(layout, params) ==
  LET sizes == ShardSizes(layout)
  IN  FromRankSegments(params,
        [r \in DOMAIN layout.ranks |->
           IF sizes[r] = 0 THEN <<>>
           ELSE <<Seg(PackedOffset(sizes, r), PackedOffset(sizes, r + 1), 0)>>])

ReorderedLayout(layout, params) ==
  LET sizes == ShardSizes(layout)
      ranks == [r \in DOMAIN layout.ranks |->
                  IF sizes[r] = 0 THEN <<>>
                  ELSE <<Seg(PackedOffset(sizes, r), PackedOffset(sizes, r + 1), 0)>>]
  IN  FromRankSegments(ReorderedParams(layout, params), ranks)

\* _prepare_runtime_layout and the check of MatrixFlatBuffer.__init__: what
\* the runtime is built from, or nothing when construction raises.
Prepare(layout, params, n, policy) ==
  UNION {
    LET reorder == mode = "flat_reorder"
        runtime == IF reorder THEN ReorderedLayout(layout, params) ELSE layout
        managed == IF reorder THEN ReorderedParams(layout, params) ELSE params
    IN  IF MatrixShardCompatible(runtime) \/ SegmentsExposeParams(runtime, managed)
        THEN {[mode |-> mode, layout |-> runtime, params |-> managed]}
        ELSE {} :
    mode \in RuntimeModes(layout, params, n, policy)}

-----------------------------------------------------------------------------
(* MatrixShard: a tensor split over the ranks in proportion to local_units *)

Divides(d, n) == n % d = 0

\* shard_sizes_to_matrix_local_units: the sizes divided by their gcd.
LocalUnits(sizes) ==
  LET positive == {sizes[r] : r \in DOMAIN sizes} \ {0}
      common == {d \in 1 .. AtLeast(1, CHOOSE m \in positive : \A s \in positive : m <= s) :
                   \A s \in positive : Divides(d, s)}
      gcd == CHOOSE d \in common : \A e \in common : e <= d
  IN  [r \in DOMAIN sizes |-> sizes[r] \div gcd]

\* shard_lengths, shard_range: raises when the total is not a multiple.
ShardLengths(units, total) ==
  LET whole == PackedOffset(units, Cardinality(DOMAIN units))
  IN  IF Divides(whole, total) THEN {[r \in DOMAIN units |-> units[r] * (total \div whole)]}
      ELSE {}

\* param_shard_sizes: how much of a parameter each rank has.
ParamShardSizes(layout, p) ==
  [r \in DOMAIN layout.ranks |-> Sizes(OnRank(layout.ranks[r], p, r))]
=============================================================================
