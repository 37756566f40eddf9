---------------------------- MODULE ShardCheckpoint ----------------------------
(***************************************************************************)
(* Checkpoints of a communication group: saving its shards, crashing,      *)
(* starting again with other ranks or another layout, and loading          *)
(* (matrix_fsdp/checkpoint/state_dict.py and _dcp_utils.py).               *)
(*                                                                         *)
(* Torch's distributed checkpoint is external: each rank writes its own    *)
(* tensors, and the coordinator publishes them when all have; what was not *)
(* published cannot be read.  A checkpoint has a directory of its own.     *)
(***************************************************************************)
EXTENDS ShardExchange

VARIABLES
  moments,       \* the optimizer's state of each rank: a tensor per parameter
  disk,          \* the checkpoint
  loaded         \* how the parameters of the group were loaded

checkpointVars == <<group, how, jobs, proc, delivered, version, moments, disk, loaded>>

NoCheckpoint ==
  [meta |-> Nothing, payload |-> <<>>, published |-> FALSE, version |-> 0]

FqnsOf(g) == [i \in DOMAIN g.params |-> g.params[i].fqn]
ParamNames(g) == {g.params[i].fqn : i \in DOMAIN g.params}
ParamNamed(g, fqn) == g.params[CHOOSE i \in DOMAIN g.params : g.params[i].fqn = fqn]

\* What lies behind the segments of a shard, one after the other.
Joined(buffer, segs) ==
  LET pieces == [k \in DOMAIN segs |->
                   [j \in 1 .. Size(segs[k]) |-> buffer[segs[k].start + j - 1]]]
      all == Flattened(pieces)
  IN  [k \in 0 .. Len(all) - 1 |-> all[k + 1]]

\* The optimizer's state follows the local part of each parameter.
Moments(g, v) ==
  [r \in DOMAIN g.sizes |->
     [fqn \in ParamNames(g) |-> Joined(Params(g, v), OnRank(g.layout.ranks[r], ParamNamed(g, fqn), r))]]

-----------------------------------------------------------------------------
(* Saving *)

\* save_matrix_dcp and _save_dcp_metadata: all ranks give their metadata, and
\* rank 0 writes it before any tensor is saved.
SaveMetadata ==
  /\ group # Nothing /\ jobs = <<>> /\ version > 0
  /\ disk = NoCheckpoint
  /\ disk' = [disk EXCEPT !.meta = group, !.version = version]
  /\ UNCHANGED <<group, how, jobs, proc, delivered, version, moments, loaded>>

Saving == disk.meta # Nothing /\ ~disk.published /\ group # Nothing /\ version > 0

\* dcp.save on one rank: its shard and its optimizer's tensors.
SavePayload(r) ==
  /\ Saving /\ r \notin DOMAIN disk.payload
  /\ disk' = [disk EXCEPT !.payload =
                With(@, r, [shard |-> proc[r].shard, moments |-> moments[r]])]
  /\ UNCHANGED <<group, how, jobs, proc, delivered, version, moments, loaded>>

Publish ==
  /\ Saving /\ DOMAIN disk.payload = Members
  /\ disk' = [disk EXCEPT !.published = TRUE]
  /\ UNCHANGED <<group, how, jobs, proc, delivered, version, moments, loaded>>

-----------------------------------------------------------------------------
(* Loading *)

\* _metadata_requires_reshard; a rank the checkpoint does not have always does.
RequiresReshard(meta, r) ==
  \/ r \notin DOMAIN meta.sizes
  \/ meta.n # group.n
  \/ meta.sizes # group.sizes
  \/ FqnsOf(meta) # FqnsOf(group)

\* _validate_same_layout_unit
SameLayout(meta) ==
  /\ meta.n = group.n /\ meta.params = group.params
  /\ meta.sizes = group.sizes
  /\ meta.layout = group.layout /\ meta.planned = group.planned

\* _load_unit_state_dict and _load_optimizer_from_dcp_plan
LoadSameLayout ==
  /\ \A r \in Members : ~RequiresReshard(disk.meta, r)
  /\ SameLayout(disk.meta)
  /\ proc' = [r \in Members |-> [proc[r] EXCEPT !.shard = disk.payload[r].shard]]
  /\ moments' = [r \in Members |-> disk.payload[r].moments]
  /\ loaded' = "same"

\* torch.cat of what the source ranks saved, in rank order.
InRankOrder(tensors) ==
  LET inOrder(t) == [k \in 1 .. Length(t) |-> t[k - 1]]
      all == Flattened([i \in 1 .. Cardinality(DOMAIN tensors) |-> inOrder(tensors[i - 1])])
  IN  [k \in 0 .. Len(all) - 1 |-> all[k + 1]]

\* Slip: each rank takes the next range of the joined shards.
TargetRange(full, r) == Slice(full, PackedOffset(group.sizes, r), group.sizes[r])

\* _target_local_shard_from_full
TargetShard(full, r) == Joined(full, group.layout.ranks[r])

\* _load_optimizer_component_from_reshard_plan: a tensor that does not make up
\* the parameter is taken from the first rank that has one.
TargetMoment(full, first, p, r) ==
  LET segs == OnRank(group.layout.ranks[r], p, r)
  IN  IF Length(full) = Size(p)
      THEN Joined(full, [k \in DOMAIN segs |->
                           Seg(segs[k].start - p.start, segs[k].end - p.start, segs[k].local)])
      ELSE first

\* _load_matrix_dcp_resharded, with _source_world_size and
\* _validate_reshard_unit_metadata.
LoadResharded ==
  LET meta == disk.meta
      shards == [q \in RanksOf(meta.n) |-> disk.payload[q].shard]
      moment(fqn) == InRankOrder([q \in RanksOf(meta.n) |-> disk.payload[q].moments[fqn]])
  IN  /\ \A r \in Members : RequiresReshard(meta, r)
      /\ FqnsOf(meta) = FqnsOf(group)
      /\ meta.layout.total = group.layout.total
      /\ proc' = [r \in Members |->
                    [proc[r] EXCEPT !.shard = TargetShard(InRankOrder(shards), r)]]
      /\ moments' = [r \in Members |->
                       [fqn \in ParamNames(group) |->
                          TargetMoment(moment(fqn), disk.payload[0].moments[fqn],
                                       ParamNamed(group, fqn), r)]]
      /\ loaded' = "reshard"

\* load_matrix_dcp on every rank of a program that has just built its group.
Load(allowReshard) ==
  /\ group # Nothing /\ jobs = <<>> /\ version = 0
  /\ disk.published
  /\ LoadSameLayout \/ (allowReshard /\ LoadResharded)
  /\ version' = disk.version
  /\ UNCHANGED <<group, how, jobs, delivered, disk>>

-----------------------------------------------------------------------------
(* The job that trains, saves, crashes and starts again *)

CheckpointInit == ExchangeInit /\ moments = <<>> /\ disk = NoCheckpoint /\ loaded = "no"

Start == FullyShard /\ UNCHANGED <<moments, disk, loaded>>

\* Bound: only what was started before the first save trains.
Train ==
  /\ disk = NoCheckpoint
  /\ \/ Begin
     \/ \E r \in Members : HostStep(r)
     \/ Deliver
     \/ \E limit \in Limits : LimitWorkspaces(0, limit)
  /\ UNCHANGED <<moments, disk, loaded>>

\* The optimizer's first step makes its state.
Step ==
  /\ End
  /\ moments' = Moments(group, version + 1)
  /\ UNCHANGED <<disk, loaded>>

\* The job dies; what was not published is lost.
Crash ==
  /\ group # Nothing
  /\ group' = Nothing /\ how' = Nothing /\ jobs' = <<>> /\ proc' = <<>>
  /\ delivered' = 0 /\ version' = 0 /\ moments' = <<>> /\ loaded' = "no"
  /\ disk' = IF disk.published THEN disk ELSE [disk EXCEPT !.payload = <<>>]

CheckpointNext ==
  \/ Start
  \/ Train
  \/ Step
  \/ SaveMetadata
  \/ \E r \in Members : SavePayload(r)
  \/ Publish
  \/ \E allowReshard \in BOOLEAN : Load(allowReshard)
  \/ Crash

CheckpointSpec == CheckpointInit /\ [][CheckpointNext]_checkpointVars

-----------------------------------------------------------------------------
(* What must hold *)

\* docs/tutorial.md:203 "Use this only when model FQNs and tensor shapes match."
ModelMatches == disk.meta.params = group.params

\* A group whose parameters were loaded has what was saved, each element where
\* its own layout keeps it, and the optimizer's state with it, whatever number
\* of ranks and layout it was saved from (load_matrix_dcp).  Shards joined in
\* rank order are the flat buffer only when each was one range of it: see
\* ReshardedLoadRestoresParameters for the others.
LoadedStateIsTheSaved ==
  loaded = "same" \/ (loaded = "reshard" /\ ModelMatches /\ RankChunks(disk.meta)) =>
    /\ version = disk.version
    /\ \A r \in Members : proc[r].shard = LocalShard(group, Params(group, version), r)
    /\ moments = Moments(group, version)

\* docs/tutorial.md:189 "`allow_reshard=True` can load compatible checkpoints
\* into a different sharding layout": the parameters are the saved ones.
ReshardedLoadRestoresParameters ==
  loaded = "reshard" /\ ModelMatches =>
    \A r \in Members : proc[r].shard = LocalShard(group, Params(group, version), r)
=============================================================================
