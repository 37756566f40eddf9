------------------------------ MODULE ShardPlanner ------------------------------
(***************************************************************************)
(* The planners: from the parameters of a communication group and the      *)
(* number of ranks to a layout (matrix_fsdp/planning/planner.py).          *)
(*                                                                         *)
(* A planner is the set of the layout it returns, or the empty set when it *)
(* raises ValueError.  Whole-parameter planners assign owners and place    *)
(* each parameter after those its rank has; block planners cut the ordered *)
(* parameters at block boundaries near the even split.                     *)
(***************************************************************************)
EXTENDS ShardLayout

LOCAL INSTANCE TLC
LOCAL INSTANCE SequencesExt

\* _ordered_params
LargerFirst(p, q) == Size(p) > Size(q) \/ (Size(p) = Size(q) /\ p.start < q.start)

Ordered(params, policy) ==
  IF policy = "largest_first" THEN SortSeq(params, LargerFirst)
  ELSE IF policy = "offset" THEN SortSeq(params, LAMBDA p, q : p.start < q.start)
  ELSE params

\* contiguous_even_plan: the first ranks take the remainder; a rank whose
\* share is empty still gets a segment.
EvenSizes(total, n) ==
  [r \in RanksOf(n) |-> (total \div n) + IF r < total % n THEN 1 ELSE 0]

ContiguousEvenPlan(params, n) ==
  LET sizes == EvenSizes(Numel(params), n)
  IN  {FromRankSegments(params,
         [r \in RanksOf(n) |->
            <<Seg(PackedOffset(sizes, r), PackedOffset(sizes, r + 1), 0)>>])}

-----------------------------------------------------------------------------
(* Whole-parameter owners *)

\* An assignment is a sequence of parameters with their owners.
Given(p, r) == [param |-> p, rank |-> r]
GivenAll(ps, r) == [i \in DOMAIN ps |-> Given(ps[i], r)]

Shares(assigned, r) ==
  LET own == SelectSeq(assigned, LAMBDA a : a.rank = r)
  IN  Packed([i \in DOMAIN own |-> own[i].param])

\* _merge_adjacent_layout_segments
Merging(done, seg) ==
  IF done # <<>> /\ done[Len(done)].end = seg.start /\ LocalEnd(done[Len(done)]) = seg.local
  THEN [done EXCEPT ![Len(done)].end = seg.end]
  ELSE Append(done, seg)

MergeAdjacent(segs) ==
  LET merged[k \in 0 .. Len(segs)] == IF k = 0 THEN <<>> ELSE Merging(merged[k - 1], segs[k])
  IN  merged[Len(segs)]

\* _whole_param_owner_layout
OwnerLayout(params, n, assigned, merge) ==
  LET shares == [r \in RanksOf(n) |-> Shares(assigned, r)]
      place(p) ==
        LET r == assigned[CHOOSE i \in DOMAIN assigned : assigned[i].param = p].rank
            seg == shares[r][CHOOSE i \in DOMAIN shares[r] : shares[r][i].start = p.start]
        IN  [start |-> p.start, end |-> p.end, local |-> seg.local, rank |-> r]
  IN  Layout(Numel(params),
             [r \in RanksOf(n) |-> IF merge THEN MergeAdjacent(shares[r]) ELSE shares[r]],
             [i \in DOMAIN params |-> ParamLayout(params[i], <<place(params[i])>>)])

\* Slip: the last rank is never chosen.
LightestButLast(load) ==
  CHOOSE r \in DOMAIN load :
    /\ r + 1 \in DOMAIN load \/ Cardinality(DOMAIN load) = 1
    /\ \A q \in DOMAIN load :
         q + 1 \in DOMAIN load => load[r] < load[q] \/ (load[r] = load[q] /\ r <= q)

Lightest(load) ==
  CHOOSE r \in DOMAIN load :
    \A q \in DOMAIN load : load[r] < load[q] \/ (load[r] = load[q] /\ r <= q)

NoLoad(n) == [r \in RanksOf(n) |-> 0]

\* parameter_boundary_plan: each parameter to the rank with the least so far.
ParameterBoundaryPlan(params, n, policy) ==
  LET step(acc, p) ==
        LET r == Lightest(acc.load)
        IN  [load |-> [acc.load EXCEPT ![r] = @ + Size(p)],
             given |-> Append(acc.given, Given(p, r))]
      done == FoldLeft(step, [load |-> NoLoad(n), given |-> <<>>], Ordered(params, policy))
  IN  {OwnerLayout(params, n, done.given, FALSE)}

Matrices(params) == SelectSeq(params, IsMatrix)
TailParams(params) == SelectSeq(params, LAMBDA p : ~IsMatrix(p))

\* ordered_matrix_owner_tail_plan: matrices round robin, the rest on the
\* rank after the last matrix.
OrderedMatrixOwnerTailPlan(params, n) ==
  LET matrices == Matrices(params)
      assigned == [i \in DOMAIN matrices |-> Given(matrices[i], (i - 1) % n)]
                    \o GivenAll(TailParams(params), AtMost(Len(matrices), n - 1))
  IN  {OwnerLayout(params, n, assigned, FALSE)}

\* A role is the parameters that go to one owner together; of equal roles
\* the one with the smaller place comes first.
Role(ps, place) == [units |-> Sizes(ps), place |-> place, params |-> ps]

HeavierFirst(a, b) == a.units > b.units \/ (a.units = b.units /\ a.place < b.place)

RolesOf(params, base) ==
  LET matrices == Matrices(params)
      tail == TailParams(params)
  IN  [i \in DOMAIN matrices |-> Role(<<matrices[i]>>, base + i)]
        \o IF tail = <<>> THEN <<>> ELSE <<Role(tail, base + Len(matrices) + 1)>>

\* _fixed_owner_rank: the owner the hints name; hints that differ or name no
\* rank raise.
HintedOwners(ps) == {ps[i].hint.owner : i \in DOMAIN ps} \ {None}

OwnersAgree(ps, n) ==
  HintedOwners(ps) = {} \/ \E r \in RanksOf(n) : HintedOwners(ps) = {r}

Fixed(role, hinted) == hinted /\ HintedOwners(role.params) # {}

\* A role to its hinted owner, if hints count, or else to the lightest rank.
Assign(acc, role, hinted) ==
  LET r == IF Fixed(role, hinted) THEN CHOOSE o \in HintedOwners(role.params) : TRUE
           ELSE Lightest(acc.load)
  IN  [load |-> [acc.load EXCEPT ![r] = @ + role.units], owner |-> Append(acc.owner, r)]

AssignAll(roles, load, hinted) ==
  FoldLeft(LAMBDA acc, role : Assign(acc, role, hinted), [load |-> load, owner |-> <<>>], roles).owner

Placed(roles, owner) ==
  Flattened([i \in DOMAIN roles |-> GivenAll(roles[i].params, owner[i])])

\* load_balanced_matrix_owner_tail_plan; initial_rank_units is load.
LoadBalancedPlan(params, n, load, merge) ==
  LET roles == SortSeq(RolesOf(params, 0), HeavierFirst)
  IN  {OwnerLayout(params, n, Placed(roles, AssignAll(roles, load, FALSE)), merge)}

\* load_balanced_matrix_owner_tail_group_plans: the owners of all groups'
\* roles are decided together, each group has a layout of its own.  Groups
\* have at most MaxRoles roles.
MaxRoles == 100

LoadBalancedGroupPlans(groups, n, load, merge) ==
  LET tagged(g) == LET roles == RolesOf(groups[g], g * MaxRoles)
                   IN  [i \in DOMAIN roles |-> roles[i] @@ [group |-> g]]
      roles == SortSeq(Flattened([g \in DOMAIN groups |-> tagged(g)]), HeavierFirst)
      owner == AssignAll(roles, load, TRUE)
      given(g) ==
        Flattened([i \in DOMAIN roles |->
          IF roles[i].group = g THEN GivenAll(roles[i].params, owner[i]) ELSE <<>>])
  IN  IF \A i \in DOMAIN roles : OwnersAgree(roles[i].params, n)
      THEN {[g \in DOMAIN groups |-> OwnerLayout(groups[g], n, given(g), merge)]}
      ELSE {}

\* expert_owner_tail_plan: groups of experts first, the heaviest first, then
\* the other parameters one by one.
IsExpert(p) == p.hint.expert \/ p.hint.group # None

ExpertRoles(params) ==
  LET experts == SelectSeq(params, IsExpert)
      groups == {ExpertGroup(experts[i]) : i \in DOMAIN experts}
      role(g) == LET ps == SelectSeq(experts, LAMBDA p : ExpertGroup(p) = g)
                 IN  Role(ps, CHOOSE s \in {ps[i].start : i \in DOMAIN ps} :
                                \A i \in DOMAIN ps : s <= ps[i].start)
  IN  SetToSortSeq({role(g) : g \in groups}, HeavierFirst)

ExpertOwnerTailPlan(params, n, load, policy, merge) ==
  LET dense == Ordered(SelectSeq(params, LAMBDA p : ~IsExpert(p)), policy)
      roles == ExpertRoles(params) \o [i \in DOMAIN dense |-> Role(<<dense[i]>>, i)]
  IN  IF \A i \in DOMAIN roles : OwnersAgree(roles[i].params, n)
      THEN {OwnerLayout(params, n, Placed(roles, AssignAll(roles, load, TRUE)), merge)}
      ELSE {}

-----------------------------------------------------------------------------
(* Splitting parameters *)

\* fsdp2_chunk_plan: every rank has the same share of every parameter.
Fsdp2ChunkPlan(params, n, policy) ==
  LET ordered == Ordered(params, policy)
      chunk(p, r) == [start |-> p.start + r * (Size(p) \div n),
                      end |-> p.start + (r + 1) * (Size(p) \div n)]
  IN  IF \A i \in DOMAIN params : Size(params[i]) % n = 0
      THEN {FromRankSegments(params,
              [r \in RanksOf(n) |-> Packed([i \in DOMAIN ordered |-> chunk(ordered[i], r)])])}
      ELSE {}

\* A block is a range of a parameter; cuts of every `units' elements, the
\* last one possibly shorter.
Cut(p, units) ==
  [i \in 1 .. (Size(p) + units - 1) \div units |->
     [start |-> p.start + (i - 1) * units, end |-> AtMost(p.start + i * units, p.end)]]

Whole(p) == <<[start |-> p.start, end |-> p.end]>>

\* uniform_block_builder, matrix_row_block_builder: blocks the hint prescribes
\* must divide the parameter.
CutEvenly(p, units) == IF Size(p) % units = 0 THEN {Cut(p, units)} ELSE {}

HintedBlock(p) == p.hint.block[1]

\* Default sizes: target_block_units or all of it, row_block_units or all rows.
DefaultBlock(p, target) == IF target = None THEN AtLeast(1, Size(p)) ELSE target
DefaultRows(params) ==
  [p \in ToSet(params) |-> IF IsMatrix(p) THEN AtLeast(1, Rows(p)) ELSE 1]

\* hint_aware_block_builder: the blocks of one parameter.
HintedBlocks(p, granularity, blockUnits, rows) ==
  LET hint == p.hint
      split == IF hint.split = None THEN granularity ELSE hint.split
  IN  CASE split \in {"parameter", "matrix_owner"} -> {Whole(p)}
        [] split = "block" /\ hint.split = "block" -> CutEvenly(p, HintedBlock(p))
        [] split = "block" /\ hint.split = None -> {Cut(p, DefaultBlock(p, blockUnits))}
        [] split = "row_block" /\ hint.split = "row_block" ->
             IF IsMatrix(p) THEN CutEvenly(p, HintedBlock(p) * Cols(p)) ELSE {}
        [] split = "row_block" /\ hint.split = None ->
             {IF IsMatrix(p) THEN Cut(p, rows[p] * Cols(p)) ELSE Whole(p)}

\* validate_param_blocks: the blocks tile their parameter.
BlocksOK(p, blocks) ==
  /\ \A i \in DOMAIN blocks : blocks[i].start < blocks[i].end
  /\ Covers(blocks, p.start, p.end)

Distance(a, b) == IF a < b THEN b - a ELSE a - b

\* round(total * k / n): the nearest integer, ties to the even one.
RoundedShare(total, k, n) ==
  LET below == (total * k) \div n
      twice == 2 * ((total * k) % n)
  IN  IF twice > n \/ (twice = n /\ below % 2 = 1) THEN below + 1 ELSE below

\* One rank's blocks: it takes blocks until it reaches its target, or until
\* the next would bring it further from the target than it is; the first it
\* takes in any case.
TakeBlocks(blocks, first, assigned, target) ==
  LET reached[i \in first - 1 .. Len(blocks)] ==
        IF i = first - 1 THEN assigned ELSE reached[i - 1] + Size(blocks[i])
      stops(i) ==
        \/ i = Len(blocks)
        \/ /\ i >= first
           /\ \/ reached[i] >= target
              \/ Distance(reached[i + 1], target) > Distance(reached[i], target)
      last == CHOOSE i \in first - 1 .. Len(blocks) :
                stops(i) /\ \A j \in first - 1 .. i - 1 : ~stops(j)
  IN  [next |-> last + 1, assigned |-> reached[last]]

\* _split_blocks_across_ranks: the last rank takes what is left.
SplitBlocks(blocks, total, n) ==
  FoldLeft(LAMBDA acc, k :
             LET taken == IF k = n THEN [next |-> Len(blocks) + 1, assigned |-> total]
                          ELSE TakeBlocks(blocks, acc.next, acc.assigned, RoundedShare(total, k, n))
             IN  [next |-> taken.next, assigned |-> taken.assigned,
                  groups |-> Append(acc.groups, SubSeq(blocks, acc.next, taken.next - 1))],
           [next |-> 1, assigned |-> 0, groups |-> <<>>], [k \in 1 .. n |-> k]).groups

\* _coalesce_blocks and _rank_segments_from_block_groups
BlockSegments(blocks) == MergeAdjacent(Packed(blocks))

\* ordered_group_plan, with hinted_ordered_group_plan's block builder; a
\* granularity of "parameter" and no hints is its default builder.
HintedOrderedGroupPlan(params, n, granularity, blockUnits, rows, policy) ==
  LET ordered == Ordered(params, policy)
      cuts == [i \in DOMAIN ordered |-> HintedBlocks(ordered[i], granularity, blockUnits, rows)]
      blocks == Flattened([i \in DOMAIN ordered |-> CHOOSE b \in cuts[i] : TRUE])
      groups == SplitBlocks(blocks, Numel(params), n)
  IN  IF /\ \A i \in DOMAIN ordered : cuts[i] # {}
         /\ \A i \in DOMAIN ordered : \A b \in cuts[i] : BlocksOK(ordered[i], b)
      THEN {FromRankSegments(params, [r \in RanksOf(n) |-> BlockSegments(groups[r + 1])])}
      ELSE {}

-----------------------------------------------------------------------------
(* rotate_layout_ranks: a unit's owners moved on by some ranks *)

\* The parameters' segments that meet a rank's segment, with all of their range.
MeetingSegs(layout, seg) ==
  [i \in DOMAIN layout.params |->
     SelectSeq(layout.params[i].segs, LAMBDA ps : Overlaps(ps, seg))]

ByPlace(a, b) == a.rank < b.rank \/ (a.rank = b.rank /\ a.local < b.local)

RotateLayoutRanks(layout, offset) ==
  LET n == WorldSize(layout)
      ranks == [r \in DOMAIN layout.ranks |-> Packed(layout.ranks[(r - offset) % n])]
      moved(i, r, k) ==
        LET seg == ranks[r][k]
            met == MeetingSegs(layout, seg)[i]
        IN  [m \in DOMAIN met |->
               [met[m] EXCEPT !.rank = r, !.local = seg.local + met[m].start - seg.start]]
      segs(i) == Flattened([r \in 1 .. n |->
                   Flattened([k \in DOMAIN ranks[r - 1] |-> moved(i, r - 1, k)])])
  IN  IF offset % n = 0 THEN layout
      ELSE Layout(layout.total, ranks,
             [i \in DOMAIN layout.params |->
                [layout.params[i] EXCEPT !.segs = SortSeq(segs(i), ByPlace)]])

-----------------------------------------------------------------------------
(* The planners by name, with the options they are used with here *)

BlockOptions ==
  [ordered |-> [granularity |-> "parameter", units |-> None, rows |-> None],
   blocks  |-> [granularity |-> "block", units |-> 2, rows |-> None],
   rows    |-> [granularity |-> "row_block", units |-> 2, rows |-> 1]]

Plan(planner, params, n) ==
  CASE planner = "even" -> ContiguousEvenPlan(params, n)
    [] planner = "boundary" -> ParameterBoundaryPlan(params, n, "default")
    [] planner = "boundary_largest" -> ParameterBoundaryPlan(params, n, "largest_first")
    [] planner = "owner_tail" -> OrderedMatrixOwnerTailPlan(params, n)
    [] planner = "load_balanced" -> LoadBalancedPlan(params, n, NoLoad(n), TRUE)
    [] planner = "expert" -> ExpertOwnerTailPlan(params, n, NoLoad(n), "largest_first", TRUE)
    [] planner = "chunk" -> Fsdp2ChunkPlan(params, n, "default")
    [] planner \in DOMAIN BlockOptions ->
         LET o == BlockOptions[planner]
         IN  HintedOrderedGroupPlan(params, n, o.granularity, o.units,
               IF o.rows = None THEN DefaultRows(params) ELSE [p \in ToSet(params) |-> o.rows], "default")
=============================================================================
