------------------------------ MODULE AutoPlanner ------------------------------
(***************************************************************************)
(* Automatic planning (matrix_fsdp/planning/auto_planner.py, with the      *)
(* report and the costs of layout_report.py and planner_eval.py): the      *)
(* candidate layouts of a group, what each costs under a policy, and the   *)
(* planners of several groups, which remember the load they have given to  *)
(* each rank.                                                              *)
(*                                                                         *)
(* A weight or a cost is a pair of a whole number and millionths, so costs *)
(* are exact where the code adds floats.  The weight of padding (no        *)
(* candidate pads) and those of optimizer types (no hint here names one)   *)
(* are left out; parameters have four bytes per element.                   *)
(***************************************************************************)
EXTENDS ShardPlanner

LOCAL INSTANCE TLC
LOCAL INSTANCE FiniteSetsExt
LOCAL INSTANCE SequencesExt

-----------------------------------------------------------------------------
(* Policies *)

Balanced ==
  [runtime_flat_reorder |-> <<0, 10000>>, collective |-> <<1, 0>>, max_rank_unit |-> <<1, 0>>,
   split_param_unit |-> <<0, 1000>>, rank_segment |-> <<0, 250000>>,
   max_rank_segment |-> <<0, 250000>>, fragmented_rank_segment |-> <<0, 500000>>,
   fragmented_rank_unit |-> <<0, 1000>>, split_param_segment |-> <<0, 250000>>,
   imbalance_unit |-> <<0, 50000>>, memory_imbalance_byte |-> <<0, 10>>,
   total_comm_byte |-> <<0, 1>>]

MinComm ==
  [collective |-> <<4, 0>>, max_rank_unit |-> <<0, 100000>>, split_param |-> <<8, 0>>,
   split_param_unit |-> <<0, 10000>>, rank_segment |-> <<4, 0>>, max_rank_segment |-> <<2, 0>>,
   fragmented_rank_segment |-> <<8, 0>>, fragmented_rank_unit |-> <<0, 10000>>,
   param_segment |-> <<1, 0>>, split_param_segment |-> <<2, 0>>, max_param_segment |-> <<1, 0>>,
   total_comm_unit |-> <<0, 10000>>, max_rank_comm_unit |-> <<0, 20000>>]

MaxBalance ==
  [collective |-> <<0, 500000>>, max_rank_unit |-> <<4, 0>>, split_param_unit |-> <<0, 500>>,
   rank_segment |-> <<0, 100000>>, fragmented_rank_segment |-> <<0, 250000>>,
   fragmented_rank_unit |-> <<0, 500>>, imbalance_unit |-> <<1, 0>>]

\* Slip: splitting is as cheap as for the balanced policy.
MuonFullMatrixSplitting ==
  [collective |-> <<1, 0>>, max_rank_unit |-> <<0, 500000>>, split_param |-> <<0, 0>>,
   split_param_unit |-> <<0, 1000>>, rank_segment |-> <<0, 250000>>]

MuonFullMatrix ==
  [collective |-> <<1, 0>>, max_rank_unit |-> <<0, 500000>>, split_param |-> <<100000, 0>>,
   split_param_unit |-> <<10, 0>>, rank_segment |-> <<1, 0>>, max_rank_segment |-> <<1, 0>>,
   fragmented_rank_segment |-> <<2, 0>>, param_segment |-> <<10, 0>>,
   split_param_segment |-> <<20, 0>>, max_param_segment |-> <<10, 0>>]

ZeroCopyFriendly ==
  [runtime_flat_reorder |-> <<256, 0>>, collective |-> <<1, 0>>, max_rank_unit |-> <<1, 0>>,
   split_param_unit |-> <<0, 1000>>, rank_segment |-> <<0, 250000>>,
   max_rank_segment |-> <<0, 250000>>, fragmented_rank_segment |-> <<0, 500000>>,
   fragmented_rank_unit |-> <<0, 1000>>, split_param_segment |-> <<0, 250000>>,
   total_comm_unit |-> <<0, 1000>>, max_rank_comm_unit |-> <<0, 1000>>,
   imbalance_unit |-> <<0, 50000>>]

MuonZeroCopy ==
  [runtime_flat_reorder |-> <<256, 0>>, collective |-> <<1, 0>>, max_rank_unit |-> <<1, 0>>,
   split_param |-> <<100000, 0>>, split_param_unit |-> <<10, 0>>, rank_segment |-> <<0, 500000>>,
   max_rank_segment |-> <<0, 500000>>, fragmented_rank_segment |-> <<1, 0>>,
   fragmented_rank_unit |-> <<0, 1000>>, param_segment |-> <<10, 0>>,
   split_param_segment |-> <<20, 0>>, max_param_segment |-> <<10, 0>>,
   total_comm_unit |-> <<0, 1000>>, max_rank_comm_unit |-> <<0, 1000>>,
   imbalance_unit |-> <<0, 250000>>, parameter_block |-> <<0, 1000>>,
   matrix_owner_matrix |-> <<0, 100>>, matrix_owner_tail_param |-> <<0, 100>>,
   max_rank_memory_byte |-> <<0, 10>>, memory_imbalance_byte |-> <<0, 20>>,
   total_comm_byte |-> <<0, 1>>, max_rank_comm_byte |-> <<0, 2>>]

\* The weight of the padding ratio is per millionth of it.
MuonShardAware ==
  [collective |-> <<1, 0>>, max_rank_unit |-> <<1, 0>>, split_param |-> <<100000, 0>>,
   split_param_unit |-> <<10, 0>>, rank_segment |-> <<1, 0>>, max_rank_segment |-> <<1, 0>>,
   fragmented_rank_segment |-> <<2, 0>>, fragmented_rank_unit |-> <<0, 1000>>,
   param_segment |-> <<10, 0>>, split_param_segment |-> <<20, 0>>, max_param_segment |-> <<10, 0>>,
   imbalance_unit |-> <<0, 500000>>, parameter_block |-> <<0, 1000>>,
   matrix_owner_matrix |-> <<0, 100>>, matrix_owner_tail_param |-> <<0, 100>>,
   max_rank_memory_byte |-> <<0, 20>>, memory_imbalance_byte |-> <<0, 50>>,
   total_comm_byte |-> <<0, 1>>, max_rank_comm_byte |-> <<0, 2>>, comm_imbalance_byte |-> <<0, 1>>,
   workspace_preferred_unit |-> <<0, 1>>, workspace_padding_unit |-> <<0, 5>>,
   workspace_padding_ratio |-> <<0, 10>>]

Debug ==
  [collective |-> <<1, 0>>, max_rank_unit |-> <<1, 0>>, split_param |-> <<1, 0>>,
   split_param_unit |-> <<0, 10000>>, rank_segment |-> <<1, 0>>, max_rank_segment |-> <<1, 0>>,
   fragmented_rank_segment |-> <<1, 0>>, fragmented_rank_unit |-> <<0, 10000>>,
   param_segment |-> <<1, 0>>, split_param_segment |-> <<1, 0>>, max_param_segment |-> <<1, 0>>,
   total_comm_unit |-> <<0, 10000>>, max_rank_comm_unit |-> <<0, 10000>>,
   imbalance_unit |-> <<0, 100000>>, block |-> <<0, 10000>>]

\* _POLICIES
Policies ==
  [balanced |-> Balanced, min_comm |-> MinComm, max_balance |-> MaxBalance,
   muon_full_matrix |-> MuonFullMatrix, zero_copy_friendly |-> ZeroCopyFriendly,
   muon_zero_copy |-> MuonZeroCopy, muon_shard_aware |-> MuonShardAware, debug |-> Debug]

-----------------------------------------------------------------------------
(* Candidates, in the order of their names *)

\* A candidate has its layout, or none if its planner raises; the number of
\* blocks it is reported with, and how many of them are whole parameters,
\* matrices of an owner and other parameters of an owner.
Candidate(plans, blocks, whole, matrices, tail) ==
  [plans |-> plans, blocks |-> blocks, whole |-> whole, matrices |-> matrices, tail |-> tail]

\* _target_block_units and target_row_block_units
TargetUnits(params, n) == AtLeast(1, (Numel(params) + 2 * n - 1) \div (2 * n))
TargetRows(p, target) == IF IsMatrix(p) THEN AtLeast(1, target \div Cols(p)) ELSE 1

StaysWhole(p, granularity) ==
  LET split == IF p.hint.split = None THEN granularity ELSE p.hint.split
  IN  split \in {"parameter", "matrix_owner"} \/ (split = "row_block" /\ ~IsMatrix(p))

\* hint_aware_block_builder in ordered_group_plan; a builder that raises for
\* a parameter raises when the candidates are made.
BlockCandidate(params, n, granularity) ==
  LET target == TargetUnits(params, n)
      rows == [p \in ToSet(params) |-> TargetRows(p, target)]
      cuts(p) == HintedBlocks(p, granularity, target, rows)
      count == [i \in DOMAIN params |-> Len(CHOOSE b \in cuts(params[i]) : TRUE)]
  IN  IF \E i \in DOMAIN params : cuts(params[i]) = {} THEN Candidate({}, 0, 0, 0, 0)
      ELSE Candidate(HintedOrderedGroupPlan(params, n, granularity, target, rows, "default"),
                     SumOf(count, [i \in DOMAIN params |-> i]),
                     Len(SelectSeq(params, LAMBDA p : StaysWhole(p, granularity))), 0, 0)

OwnerCandidate(params, plans) ==
  Candidate(plans, Len(params), 0, Len(Matrices(params)), Len(TailParams(params)))

\* _has_explicit_shard_hints
Hinted(params) == \E i \in DOMAIN params : params[i].hint # NoHint

\* default_auto_group_planner_candidates: their names in the order of strings,
\* by which equals are chosen.
Names(params, policy) ==
  IF \E i \in DOMAIN params : IsExpert(params[i]) THEN <<"expert_owner_tail">>
  ELSE (IF Hinted(params) THEN <<"hinted_mixed">> ELSE <<>>)
    \o (IF policy \in {"muon_shard_aware", "muon_zero_copy"} /\ Matrices(params) # <<>>
        THEN <<"matrix_owner_tail", "matrix_owner_tail_role_greedy">> ELSE <<>>)
    \o <<"matrix_row_block", "ordered_block", "whole_param">>

Granularity == [hinted_mixed |-> "parameter", matrix_row_block |-> "row_block", ordered_block |-> "block"]

CandidateNamed(name, params, n) ==
  CASE name = "expert_owner_tail" ->
         Candidate(ExpertOwnerTailPlan(params, n, NoLoad(n), "largest_first", TRUE), Len(params), 0, 0, 0)
    [] name = "matrix_owner_tail" -> OwnerCandidate(params, OrderedMatrixOwnerTailPlan(params, n))
    [] name = "matrix_owner_tail_role_greedy" ->
         OwnerCandidate(params, LoadBalancedPlan(params, n, NoLoad(n), FALSE))
    [] name = "whole_param" ->
         Candidate(ParameterBoundaryPlan(params, n, "default"), Len(params), Len(params), 0, 0)
    [] name \in DOMAIN Granularity -> BlockCandidate(params, n, Granularity[name])

Candidates(params, n, names) == [i \in DOMAIN names |-> CandidateNamed(names[i], params, n)]

-----------------------------------------------------------------------------
(* What a layout costs *)

Spread(f) == Max({f[x] : x \in DOMAIN f}) - Min({f[x] : x \in DOMAIN f})
Most(f) == Max({f[x] : x \in DOMAIN f})
Total(f) == FoldSet(LAMBDA x, sum : sum + f[x], 0, DOMAIN f)

\* _workspace_preferred_numel
Workspace(layout) ==
  LET n == WorldSize(layout)
  IN  IF n <= 1 THEN layout.total ELSE n * Most(ShardSizes(layout))

\* report_group_layout
Report(layout) ==
  LET n == WorldSize(layout)
      sizes == ShardSizes(layout)
      rankSegs == [r \in DOMAIN layout.ranks |-> Len(layout.ranks[r])]
      paramSegs == [i \in DOMAIN layout.params |-> Len(layout.params[i].segs)]
      split == {i \in DOMAIN paramSegs : paramSegs[i] > 1}
      broken == {r \in DOMAIN rankSegs : rankSegs[r] > 1}
  IN  [collective |-> IF Total(rankSegs) = 0 THEN 0 ELSE 2,
       max_rank_unit |-> Most(sizes),
       imbalance_unit |-> Spread(sizes),
       split_param |-> Cardinality(split),
       split_param_unit |-> Total([i \in split |-> Size(layout.params[i])]),
       split_param_segment |-> Total([i \in split |-> paramSegs[i] - 1]),
       param_segment |-> Total(paramSegs),
       max_param_segment |-> Most(paramSegs),
       rank_segment |-> Total(rankSegs),
       max_rank_segment |-> Most(rankSegs),
       fragmented_rank_segment |-> Total([r \in broken |-> rankSegs[r] - 1]),
       fragmented_rank_unit |-> Total([r \in broken |-> sizes[r]]),
       total_comm_unit |-> layout.total * n,
       max_rank_comm_unit |-> Most(sizes) * n]

\* estimate_layout_resources: a rank keeps a parameter and its gradient, and
\* gathers and reduces what it does not have.
Resources(layout) ==
  LET sizes == ShardSizes(layout)
      memory == [r \in DOMAIN sizes |-> 8 * sizes[r]]
      comm == [r \in DOMAIN sizes |-> 8 * (layout.total - sizes[r])]
      waste == AtLeast(0, Workspace(layout) - layout.total)
  IN  [max_rank_memory_byte |-> Most(memory),
       memory_imbalance_byte |-> Spread(memory),
       total_comm_byte |-> Total(comm),
       max_rank_comm_byte |-> Most(comm),
       comm_imbalance_byte |-> Spread(comm),
       workspace_preferred_unit |-> Workspace(layout),
       workspace_padding_unit |-> waste,
       workspace_padding_ratio |-> (waste * 1000000) \div layout.total]

\* estimate_layout_cost_breakdown
Terms(layout, candidate, modes) ==
  Report(layout) @@ Resources(layout)
    @@ [runtime_flat_reorder |-> IF "flat_reorder" \in modes THEN 1 ELSE 0,
        block |-> candidate.blocks,
        parameter_block |-> candidate.whole,
        matrix_owner_matrix |-> candidate.matrices,
        matrix_owner_tail_param |-> candidate.tail]

Cost(weights, terms) ==
  LET millionths == Total([t \in DOMAIN weights |-> weights[t][2] * terms[t]])
  IN  <<Total([t \in DOMAIN weights |-> weights[t][1] * terms[t]]) + millionths \div 1000000,
        millionths % 1000000>>

\* evaluate_layout: nothing when the candidate raises or its layout does not
\* validate.
Evaluations(candidate, index, params, n, policy) ==
  LET modes(plan) == RuntimeModes(plan, params, n, "auto")
  IN  {[layout |-> plan, index |-> index, runs |-> modes(plan) # {},
        cost |-> Cost(Policies[policy], Terms(plan, candidate, modes(plan)))] :
         plan \in {p \in candidate.plans : ValidGroupLayout(p, params, n)}}

AllEvaluations(candidates, params, n, policy) ==
  [c \in DOMAIN candidates |-> Evaluations(candidates[c], c, params, n, policy)]

Cheaper(a, b) == a[1] < b[1] \/ (a[1] = b[1] /\ a[2] < b[2])

\* Layouts the runtime can execute first, then the cheaper, then by name.
Preferred(a, b) ==
  \/ a.runs /\ ~b.runs
  \/ /\ a.runs = b.runs
     /\ Cheaper(a.cost, b.cost) \/ (a.cost = b.cost /\ a.index < b.index)

\* select_best_group_planner: a candidate that raises makes it raise.
Best(evaluations) ==
  IF \E c \in DOMAIN evaluations : evaluations[c] = {} THEN {}
  ELSE LET all == UNION {evaluations[c] : c \in DOMAIN evaluations}
       IN  {e.layout : e \in {a \in all : \A b \in all \ {a} : Preferred(a, b)}}

AutoPlan(params, n, policy) ==
  Best(AllEvaluations(Candidates(params, n, Names(params, policy)), params, n, policy))

-----------------------------------------------------------------------------
(* Planners that plan the groups of a model one after the other *)

\* _rotated_shard_sizes, added to what the ranks have.
LoadIfRotated(load, sizes, offset) ==
  [r \in DOMAIN load |-> load[r] + sizes[(r - offset) % Cardinality(DOMAIN load)]]

\* The score of a rotation.  The loads of all rotations have the same sum, so
\* the squares of the loads order them as those of the deviations do.
NoWorse(a, b) ==
  LET squares(f) == Total([x \in DOMAIN f |-> f[x] * f[x]])
  IN  \/ Spread(a) < Spread(b)
      \/ Spread(a) = Spread(b) /\ Most(a) < Most(b)
      \/ Spread(a) = Spread(b) /\ Most(a) = Most(b) /\ squares(a) <= squares(b)

\* _select_rotation_offset: of equal rotations the first, but sums of the same
\* squares in another order may round differently when the mean is a fraction.
RotationOffset(layout, load, index, strategy) ==
  LET n == WorldSize(layout)
      next(offset) == LoadIfRotated(load, ShardSizes(layout), offset)
      best == {o \in RanksOf(n) : \A p \in RanksOf(n) : NoWorse(next(o), next(p))}
      exact == n <= 2 \/ Total(next(0)) % n = 0
  IN  IF strategy = "off" THEN {0}
      ELSE IF strategy = "round_robin" THEN {index % n}
      ELSE IF exact THEN {Min(best)} ELSE best

\* _rotate_layout_or_evaluation
Rotated(plans, load, index, strategy) ==
  UNION {{RotateLayoutRanks(plan, o) : o \in RotationOffset(plan, load, index, strategy)} :
         plan \in plans}

Strategy(planner) ==
  IF planner = "round_robin" THEN planner
  ELSE IF planner \in {"muon_shard_aware", "owner_tail_rotated"} THEN "greedy_balance"
  ELSE "off"

\* What make_muon_shard_aware_group_planner and its helper
\* _build_role_greedy_muon_owner_plans plan for a group before they rotate it,
\* and the planners without a memory.
BasePlans(planner, params, n, load) ==
  CASE planner = "role_greedy" -> LoadBalancedPlan(params, n, load, TRUE)
    [] planner = "owner_tail_rotated" -> OrderedMatrixOwnerTailPlan(params, n)
    [] planner = "round_robin" \/ planner \in DOMAIN Policies ->
         AutoPlan(params, n, IF planner = "round_robin" THEN "muon_shard_aware" ELSE planner)
    [] OTHER -> Plan(planner, params, n)

\* The plans of the group at an index, with the load of those before it.
NextPlans(planner, params, n, load, index) ==
  Rotated(BasePlans(planner, params, n, load), load, index, Strategy(planner))

\* Each group in turn; nothing once a group has raised.
InTurn(groups, n, planner) ==
  LET after(done, plan) ==
        [load |-> [r \in RanksOf(n) |-> done.load[r] + ShardSizes(plan)[r]],
         plans |-> Append(done.plans, plan)]
      next(all, params) ==
        UNION {{after(done, plan) :
                  plan \in NextPlans(planner, params, n, done.load, Len(done.plans))} :
               done \in all}
  IN  {done.plans :
         done \in FoldLeft(next, {[load |-> NoLoad(n), plans |-> <<>>]}, groups)}

\* make_scoped_muon_shard_aware_group_planner
ScopeGreedy(groups, n) == LoadBalancedGroupPlans(groups, n, NoLoad(n), TRUE)

\* _owner_plan_stats
PlanLoad(plans, n) == [r \in RanksOf(n) |-> Total([g \in DOMAIN plans |-> ShardSizes(plans[g])[r]])]
Workspaces(plans) == [g \in DOMAIN plans |-> Workspace(plans[g])]

\* _select_cost_aware_owner_plans: max_workspace_ratio is 1.35, the padding at
\* most three times the parameters.
WorthIt(scope, role, n) ==
  /\ \/ Spread(PlanLoad(scope, n)) < Spread(PlanLoad(role, n))
     \/ Most(PlanLoad(scope, n)) < Most(PlanLoad(role, n))
  /\ 100 * Most(Workspaces(scope)) <= 135 * Most(Workspaces(role))
  /\ 100 * Total(Workspaces(scope)) <= 135 * Total(Workspaces(role))
  /\ \A g \in DOMAIN scope : Workspace(scope[g]) - scope[g].total <= 3 * scope[g].total

\* make_cost_aware_muon_shard_aware_group_planner
CostAware(scopes, roles, n) ==
  {IF WorthIt(scope, role, n) THEN scope ELSE role : scope \in scopes, role \in roles}

\* The planners by name; _resolve_auto_group_planner and fully_shard choose
\* among them.
Chosen(planner, scopes, online, n) ==
  CASE planner = "scope_greedy" -> scopes
    [] planner = "cost_aware" -> CostAware(scopes, online, n)
    [] OTHER -> online

GroupPlans(planner, groups, n) ==
  Chosen(planner, ScopeGreedy(groups, n),
         InTurn(groups, n, IF planner = "cost_aware" THEN "role_greedy" ELSE planner), n)
================================================================================
