----------------------------- MODULE ShardExchange -----------------------------
(***************************************************************************)
(* The exchanges of one communication group: each rank gathers the full    *)
(* parameters from the shards of all, and reduces the gradients of all to  *)
(* its own shard (matrix_fsdp/runtime/flat_buffer.py, grad_bucket.py,      *)
(* collectives.py, elastic_param_buffer.py and                             *)
(* kernels/custom_collectives.py).                                         *)
(*                                                                         *)
(* Each rank runs its own host program.  Starting an exchange packs what   *)
(* the rank contributes and issues the collectives of the strategy in      *)
(* order; finishing it waits for them and unpacks.  The process group is   *)
(* external: it runs the k-th collective when every rank has issued its    *)
(* k-th and they are the same, and never otherwise.                        *)
(*                                                                         *)
(* A value is the set of what was added up in it: {} is zero, the element  *)
(* k of a parameter after v optimizer steps is {<<fqn, k, v>>}, what rank  *)
(* q contributes to its gradient is {<<fqn, k, q>>}.  A buffer is a        *)
(* function from its positions, beginning with 0, to values.               *)
(***************************************************************************)
EXTENDS AutoPlanner, CommWorkspace

LOCAL INSTANCE TLC
LOCAL INSTANCE SequencesExt

CONSTANTS
  Wraps,         \* models: sequences of modules, one group each, and a module
                 \* is a sequence of parameters with shapes and hints
  Counts,        \* numbers of ranks
  Planners,      \* names of planners
  Hows,          \* the configurations of the exchanges
  Works(_),      \* the sequences of exchanges of a program on some ranks
  Limits,        \* limits of the workspace cache
  MaxVersion     \* bound: how many programs train one after the other

Uses == {"all", "first", "none"}

JobsOn(n) == [kind : {"gather"}] \cup [kind : {"reduce"}, used : [RanksOf(n) -> Uses]]

\* resolve_custom_allgatherv_impl; the strategies of the reduces.
Impls ==
  {"auto", "native_group_broadcast", "native_sendrecv", "rma_put_signal", "uneven_all_gather",
   "all_reduce", "broadcast"}
Reducers == {"flat", "per_param", "per_param_allreduce", "bucket_reduce_scatter"}

ASSUME CountsAssumption == Counts \subseteq Nat \ {0}
ASSUME HowsAssumption == \A h \in Hows : h.impl \in Impls /\ h.reduce \in Reducers
ASSUME WorksAssumption == \A n \in Counts : Works(n) \subseteq Seq(JobsOn(n))
ASSUME LimitsAssumption == Limits \subseteq Nat
ASSUME MaxVersionAssumption == MaxVersion \in Nat

VARIABLES
  group,         \* what the flat buffers are built from, or Nothing
  how,           \* the configuration: strategy, backend, implementation, flags
  jobs,          \* the exchanges every rank makes, in order
  proc,          \* the state of each rank
  delivered,     \* how many collectives the process group has run
  version        \* how many optimizer steps the parameters have had

exchangeVars == <<group, how, jobs, proc, delivered, version>>

Nothing == [n |-> 0]

Members == RanksOf(group.n)

Stale == {<<"stale", 0, 0>>}

Zeros(k) == [i \in 0 .. k - 1 |-> {}]
Garbage(k) == [i \in 0 .. k - 1 |-> Stale]
Length(buffer) == Cardinality(DOMAIN buffer)

-----------------------------------------------------------------------------
(* The flat buffer of a group *)

\* The parameter an element of the flat buffer belongs to.
ParamOf(params, i) == CHOOSE j \in DOMAIN params : params[j].start <= i /\ i < params[j].end

\* shard_sizes: the lengths of the MatrixShard made from the plan's sizes.
RuntimeSizes(layout) ==
  CHOOSE sizes \in ShardLengths(LocalUnits(ShardSizes(layout)), layout.total) : TRUE

SegmentsWith(segs, i) == {k \in DOMAIN segs : segs[k].start <= i /\ i < segs[k].end}
PlaceIn(segs, i) ==
  LET seg == segs[CHOOSE k \in SegmentsWith(segs, i) : TRUE] IN seg.local + i - seg.start

\* The flat buffer and, for each element, the rank and the place in its shard
\* where it is kept.
Built(n, planned, prepared) ==
  LET layout == prepared.layout
      keeper == [i \in 0 .. layout.total - 1 |->
                   CHOOSE r \in RanksOf(n) : SegmentsWith(layout.ranks[r], i) # {}]
  IN  [n |-> n, mode |-> prepared.mode, planned |-> planned, layout |-> layout, 
       sizes |-> RuntimeSizes(layout),
       params |-> [i \in DOMAIN prepared.params |->
                     LET p == prepared.params[i]
                     IN  [fqn |-> p.fqn, start |-> p.start, end |-> p.end]],
       keeper |-> keeper,
       place |-> [i \in DOMAIN keeper |-> PlaceIn(layout.ranks[keeper[i]], i)]]

Keeper(g, i) == g.keeper[i]
Place(g, i) == g.place[i]

MaxSize(g) == CHOOSE m \in {g.sizes[r] : r \in DOMAIN g.sizes} :
                \A r \in DOMAIN g.sizes : g.sizes[r] <= m

\* _pack_full_tensor_by_rank_segments and _unpack_rank_shards_to_full_tensor;
\* the shards lie one after the other in rank order.
Pack(g, full) ==
  [k \in DOMAIN full |->
     full[CHOOSE i \in DOMAIN full : PackedOffset(g.sizes, Keeper(g, i)) + Place(g, i) = k]]

Unpack(g, packed) ==
  [i \in DOMAIN packed |-> packed[PackedOffset(g.sizes, Keeper(g, i)) + Place(g, i)]]

Slice(buffer, from, size) == [k \in 0 .. size - 1 |-> buffer[from + k]]

\* _init_local_shard and _local_range
LocalShard(g, full, r) == Slice(Pack(g, full), PackedOffset(g.sizes, r), g.sizes[r])

\* _copy_local_rank_segments: the segments of a shard into the full buffer.
CopySegments(g, full, shard, r) ==
  [i \in DOMAIN full |->
     IF SegmentsWith(g.layout.ranks[r], i) # {}
     THEN shard[PlaceIn(g.layout.ranks[r], i)] ELSE full[i]]

Params(g, v) ==
  [i \in 0 .. g.layout.total - 1 |->
     LET p == g.params[ParamOf(g.params, i)] IN {<<p.fqn, i - p.start, v>>}]

\* The gradients of a rank whose backward used some of the parameters.
Grads(g, used, q) ==
  [i \in 0 .. g.layout.total - 1 |->
     LET j == ParamOf(g.params, i)
     IN  IF j \in used THEN {<<g.params[j].fqn, i - g.params[j].start, q>>} ELSE {}]

-----------------------------------------------------------------------------
(* Which collectives an exchange issues *)

\* coalesce_rank_segments
Fused(g) == [r \in DOMAIN g.sizes |-> MergeAdjacent(g.layout.ranks[r])]

\* Slip: shards of the same size are taken to be in rank order.
DirectWhenEqual(g) == \A r \in DOMAIN g.sizes : g.sizes[r] = g.sizes[0]

\* _can_direct_rank_order_collectives
Direct(g) == MatrixShardCompatible(g.layout) /\ \A r \in DOMAIN g.sizes : g.sizes[r] = g.sizes[0]

\* _can_owner_broadcast_full_params: each parameter is whole on one rank.
WholeOwners(g) ==
  /\ PackedOffset(g.sizes, g.n) = g.layout.total
  /\ \A i \in DOMAIN g.params :
       LET parts == Concat([r \in DOMAIN g.sizes |-> OnRank(g.layout.ranks[r], g.params[i], r)], g.n)
       IN  Len(parts) = 1 /\ Size(parts[1]) = Size(g.params[i])

\* _should_use_owner_segment_collectives
OwnerSegments(g) ==
  /\ WholeOwners(g)
  /\ \/ how.strategy = "owner_broadcast"
     \/ how.strategy # "matrix_all_gather" /\ how.backend \in {"owner_broadcast", "custom"}

\* _rank_chunk_shard_sizes: each rank's shard is one range, in rank order.
RankChunks(g) ==
  \A r \in DOMAIN g.sizes :
    LET segs == g.layout.ranks[r] IN
    segs # <<>> => Len(segs) = 1 /\ segs[1].local = 0 /\ segs[1].start = PackedOffset(g.sizes, r)

\* all_gather_uneven_rank_segments_1d_into_async: only NCCL gathers shards of
\* different sizes, and none of them may be empty.
UnevenGather(g) ==
  IF "nccl" \in how.flags /\ \A r \in DOMAIN g.sizes : g.sizes[r] > 0
  THEN "uneven" ELSE "broadcast"

\* _native_sendrecv_or_uneven_fallback, and the branch for native_sendrecv
\* that also tries torch's batched sends.
SendRecvGather(g, batched) ==
  IF /\ RankChunks(g) /\ "chunk_path" \in how.flags
     /\ "native" \in how.flags \/ (batched /\ "torch_batch" \in how.flags)
  THEN "chunks"
  ELSE IF {"segment_p2p", "native"} \subseteq how.flags THEN "segments"
  ELSE UnevenGather(g)

\* resolve_custom_allgatherv_impl
ResolvedImpl(g) ==
  IF how.impl # "auto" THEN how.impl
  ELSE IF {"auto_chunks", "chunk_path"} \subseteq how.flags /\ RankChunks(g)
  THEN "native_sendrecv" ELSE "uneven_all_gather"

\* custom_all_gatherv_rank_segments_1d_into_async
CustomGather(g) ==
  LET impl == ResolvedImpl(g)
  IN  CASE impl = "native_group_broadcast" ->
             IF "native" \in how.flags THEN "segments" ELSE UnevenGather(g)
        [] impl = "native_sendrecv" -> SendRecvGather(g, TRUE)
        [] impl = "rma_put_signal" ->
             IF RankChunks(g) /\ "experimental" \in how.flags THEN "chunks"
             ELSE SendRecvGather(g, FALSE)
        [] impl = "uneven_all_gather" -> UnevenGather(g)
        [] impl = "all_reduce" -> "all_reduce"
        [] impl = "broadcast" -> "broadcast"

\* start_all_gather_full_params: how the full parameters are gathered, or
\* nothing when the strategy does not fit the layout and the call raises.
GatherKinds(g) ==
  IF g.n = 1 THEN {"copy"}
  ELSE IF how.strategy = "equal_all_gather" /\ ~Direct(g) THEN {}
  ELSE IF how.strategy # "matrix_all_gather" /\ Direct(g) THEN {"equal"}
  ELSE IF how.strategy = "owner_broadcast" /\ ~WholeOwners(g) THEN {}
  ELSE IF OwnerSegments(g)
       THEN {IF how.backend = "custom" THEN CustomGather(g) ELSE "broadcast"}
  ELSE {"padded"}

Op(kind, root, start, end) == [kind |-> kind, root |-> root, start |-> start, end |-> end]
One(kind) == <<Op(kind, 0, 0, 0)>>

\* broadcast_rank_segments_1d_into_async: each fused segment from its owner.
Broadcasts(g) ==
  Concat([r \in DOMAIN g.sizes |->
            LET segs == Fused(g)[r]
            IN  [k \in DOMAIN segs |-> Op("broadcast", r, segs[k].start, segs[k].end)]], g.n)

GatherOps(g, kind) ==
  IF kind = "copy" THEN <<>> ELSE IF kind = "broadcast" THEN Broadcasts(g) ELSE One(kind)

\* reduce_owner_rank_chunks_1d_async: each rank's chunk to its owner, where
\* the chunks lie one after the other or each in a row of the largest size.
ChunkStart(g, r, compact) == IF compact THEN PackedOffset(g.sizes, r) ELSE r * MaxSize(g)

OwnerReduces(g, compact) ==
  LET owners == Selected([i \in 1 .. g.n |-> i - 1], {i \in 1 .. g.n : g.sizes[i - 1] > 0})
  IN  [i \in DOMAIN owners |->
         LET start == ChunkStart(g, owners[i], compact)
         IN  Op("reduce", owners[i], start, start + g.sizes[owners[i]])]

\* custom_reduce_scatterv_owner_rank_chunks_1d_async and
\* reduce_scatter_uneven_rank_chunks_1d_async
CustomReduces(g, compact) ==
  IF /\ \/ how.reduceImpl = "uneven_reduce_scatter"
        \/ how.reduceImpl = "native_reduce" /\ "native" \notin how.flags
     /\ compact /\ "nccl" \in how.flags
     /\ (\A r \in DOMAIN g.sizes : g.sizes[r] > 0) \/ "zero_size" \in how.flags
  THEN One("scatter_list") ELSE OwnerReduces(g, compact)

\* start_reduce_grad_bucket_to_local_shard
BucketOps(g, compact) ==
  IF OwnerSegments(g)
  THEN IF how.backend = "custom" THEN CustomReduces(g, compact) ELSE OwnerReduces(g, compact)
  ELSE One("scatter_padded")

\* Reducing parameter by parameter, in the order backward reaches them.
ParamOps(g, used, kind) ==
  LET backward == [i \in 1 .. Len(g.params) |-> Len(g.params) + 1 - i]
      reached == Selected(backward, {i \in DOMAIN backward : backward[i] \in used})
  IN  [i \in DOMAIN reached |-> Op(kind, reached[i], 0, 0)]

-----------------------------------------------------------------------------
(* What a rank packs *)

\* Slip: a workspace keeps what its last use left in it.
Uncleared(buffer) == buffer

\* packed.zero_()
Cleared(buffer) == [k \in DOMAIN buffer |-> {}]

\* _compute_packed_grad_offset_for_param: where the packed buffer has the
\* whole parameter in one piece, if it has.
Parts(g, p) == Concat([r \in DOMAIN g.sizes |-> OnRank(g.layout.ranks[r], p, r)], g.n)

PackedPlaces(g, p, compact) ==
  LET parts == Parts(g, p)
      start(k) == ChunkStart(g, parts[k].rank, compact) + parts[k].local
  IN  IF /\ parts # <<>>
         /\ parts[1].start = p.start /\ parts[Len(parts)].end = p.end
         /\ \A k \in 2 .. Len(parts) :
              parts[k].start = parts[k - 1].end /\ start(k) = start(k - 1) + Size(parts[k - 1])
      THEN {start(1)} ELSE {}

InOnePiece(g, compact) == \A i \in DOMAIN g.params : PackedPlaces(g, g.params[i], compact) # {}

\* _can_prepare_zero_copy_grad_bucket, _can_use_compact_owner_grad_bucket,
\* _can_copy_bucket_to_compact_owner_rank_chunks
ZeroCopy(g) == "zero_copy" \in how.flags /\ InOnePiece(g, FALSE)

CompactPiece(g, used) == \A i \in used : PackedPlaces(g, g.params[i], TRUE) # {}

Compact(g, used) ==
  g.n > 1 /\ OwnerSegments(g) /\ CompactPiece(g, IF ZeroCopy(g) THEN DOMAIN g.params ELSE used)

\* The used parameters' gradients, each in its piece of the packed buffer:
\* _fill_compact_owner_reduce_scatter_input, and what backward leaves in the
\* views of prepare_grad_bucket.
InPieces(g, used, q, compact, before) ==
  LET at(i) == CHOOSE o \in PackedPlaces(g, g.params[i], compact) : TRUE
      within(k) == {i \in used : at(i) <= k /\ k < at(i) + Size(g.params[i])}
  IN  [k \in DOMAIN before |->
         Cleared(before)[k]
           \cup UNION {{<<g.params[i].fqn, k - at(i), q>>} : i \in within(k)}]

\* _can_use_flat_cat_fast_path
FlatContiguous(g, used) ==
  /\ used = DOMAIN g.params
  /\ \A r \in DOMAIN g.sizes : g.sizes[r] = g.sizes[0] /\ Len(g.layout.ranks[r]) = 1
  /\ RankChunks(g)

\* _can_use_chunk_cat_fast_path and _chunk_cat_param_grads: every rank has one
\* chunk of each parameter, rounded up.
ChunkOf(p, n) == (Size(p) + n - 1) \div n

ChunkPlace(g, i) ==
  LET before == [j \in 1 .. i - 1 |-> ChunkOf(g.params[j], g.n)]
  IN  FoldLeft(LAMBDA sum, c : sum + c, 0, before)

Chunked(g, used) ==
  /\ used = DOMAIN g.params
  /\ \A r \in DOMAIN g.sizes :
       /\ g.sizes[r] = ChunkPlace(g, Len(g.params) + 1)
       /\ g.layout.ranks[r] =
            SelectSeq([i \in 1 .. Len(g.params) |->
                         LET p == g.params[i]
                             start == p.start + r * ChunkOf(p, g.n)
                         IN  Seg(start, AtMost(p.end, start + ChunkOf(p, g.n)), ChunkPlace(g, i))],
                      LAMBDA seg : seg.start < seg.end)

ChunkCat(g, grads, packed) ==
  [k \in DOMAIN packed |->
     LET r == k \div MaxSize(g)
         col == k % MaxSize(g)
         i == CHOOSE j \in DOMAIN g.params :
                ChunkPlace(g, j) <= col /\ col < ChunkPlace(g, j) + ChunkOf(g.params[j], g.n)
         e == g.params[i].start + r * ChunkOf(g.params[i], g.n) + col - ChunkPlace(g, i)
     IN  IF e < g.params[i].end THEN grads[e] ELSE {}]

\* _copy_param_grad_to_rank_chunks, for every parameter with a gradient.
SegmentCopy(g, used, grads, packed) ==
  [k \in DOMAIN packed |->
     LET r == k \div MaxSize(g)
         here == {i \in DOMAIN grads : Keeper(g, i) = r /\ Place(g, i) = k % MaxSize(g)
                                        /\ ParamOf(g.params, i) \in used}
     IN  IF here = {} THEN Cleared(packed)[k] ELSE grads[CHOOSE i \in here : TRUE]]

\* fill_reduce_scatter_input with its automatic backend.
Filled(g, used, q, before) ==
  LET grads == Grads(g, used, q)
  IN  IF FlatContiguous(g, used) THEN [k \in DOMAIN before |-> grads[k]]
      ELSE IF Chunked(g, used) THEN ChunkCat(g, grads, before)
      ELSE SegmentCopy(g, used, grads, before)

PackedSize(g, compact) == IF compact THEN g.layout.total ELSE g.n * MaxSize(g)

-----------------------------------------------------------------------------
(* What the process group does with a collective *)

Sum(values) == UNION values

Summed(from, size, op(_)) == [k \in 0 .. size - 1 |-> Sum({op(q)[from + k] : q \in Members})]

ShardOf(r) == proc[r].shard
PackedBy(q) == proc[q].mem[proc[q].tensor]
UsedIn(job, q) ==
  CASE job.used[q] = "all" -> DOMAIN group.params
    [] job.used[q] = "first" -> {1}
    [] job.used[q] = "none" -> {}
UsedBy(q) == UsedIn(jobs[proc[q].next], q)
ParamGrad(q, i) == Slice(Grads(group, UsedBy(q), q), group.params[i].start, Size(group.params[i]))

\* reduce_full_grads_to_local_shard: what a rank scatters.
FullGrads(q) ==
  LET grads == Grads(group, UsedBy(q), q)
  IN  IF Direct(group) THEN grads ELSE Pack(group, grads)

\* broadcast: the range of the root, in everyone's full buffer.
BroadcastFrom(op, full) ==
  [i \in DOMAIN full |->
     IF op.start <= i /\ i < op.end THEN proc[op.root].full[i] ELSE full[i]]

\* _try_native_sendrecv_rank_segments, _try_native_group_broadcast_rank_segments:
\* every segment straight to its place.
SegmentsSent(full) == [i \in DOMAIN full |-> ShardOf(Keeper(group, i))[Place(group, i)]]

\* _try_torch_batch_sendrecv_rank_chunks: the shards one after the other.
ChunksSent(full) ==
  [i \in DOMAIN full |->
     LET q == CHOOSE q \in Members : PackedOffset(group.sizes, q) <= i
                                     /\ i < PackedOffset(group.sizes, q + 1)
     IN  ShardOf(q)[i - PackedOffset(group.sizes, q)]]

\* all_gather_equal_1d_into_async: the shards in rows of one size.
EqualRows(full) == [i \in DOMAIN full |-> ShardOf(i \div group.sizes[0])[i % group.sizes[0]]]

\* all_gather_matrix_1d_into_async, padded, and the uneven all_gather: the
\* shards of all ranks beside the full buffer.
ShardsAside == [q \in Members |-> ShardOf(q)]

\* _all_reduce_rank_segments_1d_into_async
FullsAdded(full) == [i \in DOMAIN full |-> Sum({proc[q].full[i] : q \in Members})]

\* reduce to the owner; the chunk is undefined on the other ranks.
ReducedAtRoot(op, r, buffer) ==
  [i \in DOMAIN buffer |->
     IF i < op.start \/ op.end <= i THEN buffer[i]
     ELSE IF r = op.root THEN Sum({PackedBy(q)[i] : q \in Members}) ELSE Stale]

\* reduce_scatter_padded_rank_chunks_1d_async, reduce_scatter_uneven_rank_chunks_
\* 1d_async and reduce_scatter_matrix_1d
PaddedRow(r) == Summed(r * MaxSize(group), MaxSize(group), PackedBy)
UnevenChunk(r) == Summed(PackedOffset(group.sizes, r), group.sizes[r], PackedBy)
FullGradChunk(r) == Summed(PackedOffset(group.sizes, r), group.sizes[r], FullGrads)

\* The same of one parameter, and all_reduce_full_grad of it.
ParamChunk(i, r) ==
  LET sizes == ParamShardSizes(group.layout, group.params[i])
      grad(q) == ParamGrad(q, i)
  IN  Summed(PackedOffset(sizes, r), sizes[r], grad)

ParamSummed(i) == LET grad(q) == ParamGrad(q, i) IN Summed(0, Size(group.params[i]), grad)

\* The state of a rank after the collective.
Ran(op, r) ==
  LET p == proc[r]
  IN  CASE op.kind = "broadcast" -> [p EXCEPT !.full = BroadcastFrom(op, @)]
        [] op.kind = "segments" -> [p EXCEPT !.full = SegmentsSent(@)]
        [] op.kind = "chunks" -> [p EXCEPT !.full = ChunksSent(@)]
        [] op.kind = "equal" -> [p EXCEPT !.full = EqualRows(@)]
        [] op.kind \in {"padded", "uneven"} -> [p EXCEPT !.wire = ShardsAside]
        [] op.kind = "all_reduce" -> [p EXCEPT !.full = FullsAdded(@)]
        [] op.kind = "reduce" -> [p EXCEPT !.mem[p.tensor] = ReducedAtRoot(op, r, @)]
        [] op.kind = "scatter_padded" -> [p EXCEPT !.wire = PaddedRow(r)]
        [] op.kind = "scatter_list" -> [p EXCEPT !.wire = UnevenChunk(r)]
        [] op.kind = "scatter_full" -> [p EXCEPT !.wire = FullGradChunk(r)]
        [] op.kind = "scatter_param" -> [p EXCEPT !.wire = With(@, op.root, ParamChunk(op.root, r))]
        [] op.kind = "sum_param" -> [p EXCEPT !.wire = With(@, op.root, ParamSummed(op.root))]

\* The next collective: every rank has issued one, and it is the same.
Deliver ==
  /\ jobs # <<>>
  /\ \A r \in Members : Len(proc[r].issued) > delivered
  /\ \E op \in {proc[0].issued[delivered + 1]} :
       /\ \A r \in Members : proc[r].issued[delivered + 1] = op
       /\ proc' = [r \in Members |-> Ran(op, r)]
  /\ delivered' = delivered + 1
  /\ UNCHANGED <<group, how, jobs, version>>

-----------------------------------------------------------------------------
(* Gathering *)

Running(r) == jobs # <<>> /\ proc[r].running
Job(r) == jobs[proc[r].next]
ToStart(r, kind) ==
  jobs # <<>> /\ ~proc[r].running /\ proc[r].next <= Len(jobs) /\ Job(r).kind = kind

\* start_all_gather_full_params.  The full buffer may hold another unit's
\* parameters; what the rank keeps itself is copied at once where the
\* collective does not bring it.
StartGather(r) ==
  /\ ToStart(r, "gather")
  /\ \E kind \in GatherKinds(group) :
       LET shard == proc[r].shard
           k == group.layout.total
           full == CASE kind = "copy" -> [i \in 0 .. k - 1 |-> shard[i]]
                     [] kind = "broadcast" -> CopySegments(group, Garbage(k), shard, r)
                     [] kind = "all_reduce" -> CopySegments(group, Zeros(k), shard, r)
                     [] OTHER -> Garbage(k)
       IN  proc' = [proc EXCEPT ![r].running = TRUE, ![r].full = full, ![r].kind = kind,
                                ![r].issued = @ \o GatherOps(group, kind)]
  /\ UNCHANGED <<group, how, jobs, delivered, version>>

\* Slip: a rank waits for a collective it has not issued.
WaitedForOneMore(r) == delivered > Len(proc[r].issued)

Waited(r) == delivered >= Len(proc[r].issued)

\* finish_all_gather_full_params: what was gathered aside goes to its place.
FinishGather(r) ==
  /\ Running(r) /\ Job(r).kind = "gather" /\ Waited(r)
  /\ LET k == group.layout.total
         wire == proc[r].wire
         packed == [i \in 0 .. k - 1 |->
                      LET q == CHOOSE q \in Members : PackedOffset(group.sizes, q) <= i
                                                     /\ i < PackedOffset(group.sizes, q + 1)
                      IN  wire[q][i - PackedOffset(group.sizes, q)]]
         full == CASE proc[r].kind = "padded" -> Unpack(group, packed)
                   [] proc[r].kind = "uneven" ->
                        [i \in 0 .. k - 1 |-> wire[Keeper(group, i)][Place(group, i)]]
                   [] OTHER -> proc[r].full
     IN  proc' = [proc EXCEPT ![r].running = FALSE, ![r].full = full, ![r].wire = <<>>,
                              ![r].next = @ + 1]
  /\ UNCHANGED <<group, how, jobs, delivered, version>>

-----------------------------------------------------------------------------
(* Reducing *)

\* acquire_rank_chunk_workspace, _comm_workspace().acquire
Acquired(r, compact) ==
  LET cache == proc[r].cache
      size == PackedSize(group, compact)
      new == CHOOSE t \in 1 .. Cardinality(Tensors(cache)) + 1 : t \notin Tensors(cache)
  IN  IF compact /\ cache.limit > 0 THEN AcquireKept(cache, <<"compact", size>>, new)
      ELSE AcquireShared(cache, <<"any", size>>, new)

\* What the tensor holds when it is acquired.
Before(r, got, compact) ==
  IF got.lease.tensor \in Tensors(proc[r].cache) THEN proc[r].mem[got.lease.tensor]
  ELSE Garbage(PackedSize(group, compact))

Reducing(p, ops) ==
  [p EXCEPT !.running = TRUE, !.issued = @ \o ops,
            !.kind = IF ops = <<>> THEN "none" ELSE ops[1].kind]

\* The bucket backward left in the prepared storage.
Prepared(r, used, compact, ops) ==
  {[Reducing(proc[r], ops) EXCEPT !.tensor = 0, !.kind = IF ops = <<>> THEN "copied" ELSE @,
      !.mem = With(@, 0, InPieces(group, used, r, compact, Zeros(PackedSize(group, compact))))]}

\* A bucket packed into a workspace; one rank copies its own and gives the
\* workspace back at once.
Packing(r, packed, got, ops) ==
  LET started == [Reducing(proc[r], ops) EXCEPT !.tensor = got.lease.tensor,
                    !.mem = With(@, got.lease.tensor, packed)]
  IN  IF group.n = 1
      THEN {[started EXCEPT !.kind = "copied", !.cache = cache] :
              cache \in Release(got.cache, got.lease)}
      ELSE {[started EXCEPT !.cache = got.cache, !.lease = <<got.lease>>]}

PackedInto(r, used, compact, before) ==
  IF compact THEN InPieces(group, used, r, TRUE, before) ELSE Filled(group, used, r, before)

Bucket(r, used, compact, got, ops) ==
  IF ZeroCopy(group) THEN Prepared(r, used, compact, ops)
  ELSE IF used = {} THEN {Reducing(proc[r], <<>>)}
  ELSE Packing(r, PackedInto(r, used, compact, Before(r, got, compact)), got, ops)

BucketAs(r, used, compact) ==
  Bucket(r, used, compact, Acquired(r, compact),
         IF group.n = 1 THEN <<>> ELSE BucketOps(group, compact))

\* start_reduce_grad_bucket_to_local_shard
StartBucket(r) == BucketAs(r, UsedBy(r), Compact(group, UsedBy(r)))

\* Slip: each rank reduces its parameters in an order of its own.
ReduceOpsInOwnOrder(r) ==
  CASE how.reduce = "flat" -> One("scatter_full")
    [] how.reduce = "per_param" -> ParamOps(group, UsedBy(r), "scatter_param")
    [] how.reduce = "per_param_allreduce" ->
         LET ops == ParamOps(group, UsedBy(r), "sum_param") IN IF r = 0 THEN ops ELSE Reverse(ops)

ReduceOps(r) ==
  CASE how.reduce = "flat" -> One("scatter_full")
    [] how.reduce = "per_param" -> ParamOps(group, UsedBy(r), "scatter_param")
    [] how.reduce = "per_param_allreduce" -> ParamOps(group, UsedBy(r), "sum_param")

StartReduce(r) ==
  /\ ToStart(r, "reduce")
  /\ \E started \in IF how.reduce = "bucket_reduce_scatter" THEN StartBucket(r)
                     ELSE {Reducing(proc[r], ReduceOps(r))} :
       proc' = [proc EXCEPT ![r] = started]
  /\ UNCHANGED <<group, how, jobs, delivered, version>>

\* The part of a reduced parameter that goes to the accumulator of the rank.
ViewOf(r, i) == OnRank(group.layout.ranks[r], group.params[i], r)[1]

Accumulated(r) ==
  LET p == proc[r]
      placed(i, k) == /\ OnRank(group.layout.ranks[r], group.params[i], r) # <<>>
                      /\ ViewOf(r, i).local <= k /\ k < LocalEnd(ViewOf(r, i))
      skipped(i) == IF p.kind = "sum_param" THEN ViewOf(r, i).start - group.params[i].start ELSE 0
  IN  [k \in 0 .. group.sizes[r] - 1 |->
         Sum({p.wire[i][skipped(i) + k - ViewOf(r, i).local] : i \in {i \in UsedBy(r) : placed(i, k)}})]

Reduced(r) ==
  LET p == proc[r]
      size == group.sizes[r]
  IN  CASE p.kind = "none" -> Zeros(size)
        [] p.kind = "copied" -> Slice(p.mem[p.tensor], 0, size)
        [] p.kind = "reduce" ->
             Slice(p.mem[p.tensor], ChunkStart(group, r, Compact(group, UsedBy(r))), size)
        [] p.kind \in {"scatter_padded", "scatter_list", "scatter_full"} -> Slice(p.wire, 0, size)
        [] p.kind \in {"scatter_param", "sum_param"} -> Accumulated(r)

\* wait of the handle, and of the one that gives the workspace back after it.
FinishReduce(r) ==
  /\ Running(r) /\ Job(r).kind = "reduce" /\ Waited(r)
  /\ \E cache \in IF proc[r].lease = <<>> THEN {proc[r].cache}
                   ELSE Release(proc[r].cache, proc[r].lease[1]) :
       proc' = [proc EXCEPT ![r].running = FALSE, ![r].result = Append(@, Reduced(r)),
                            ![r].wire = <<>>, ![r].cache = cache, ![r].lease = <<>>,
                            ![r].next = @ + 1]
  /\ UNCHANGED <<group, how, jobs, delivered, version>>

\* set_elastic_workspace_cache_limit: the unit is given to another scheduler.
LimitWorkspaces(r, limit) ==
  /\ jobs # <<>>
  /\ proc[r].cache.limit # limit
  /\ proc' = [proc EXCEPT ![r].cache = SetLimit(@, limit)]
  /\ UNCHANGED <<group, how, jobs, delivered, version>>

-----------------------------------------------------------------------------
(* The program that has the group *)

\* Slip: the first exchange is counted from zero.
FreshFromZero(g, r, v) ==
  [shard |-> LocalShard(g, Params(g, v), r), full |-> <<>>, wire |-> <<>>, result |-> <<>>,
   cache |-> EmptyCache(1), mem |-> <<>>, lease |-> <<>>, tensor |-> 0,
   issued |-> <<>>, kind |-> "none", running |-> FALSE, next |-> 0]

Fresh(g, r, v) ==
  [shard |-> LocalShard(g, Params(g, v), r), full |-> <<>>, wire |-> <<>>, result |-> <<>>,
   cache |-> EmptyCache(1), mem |-> <<>>, lease |-> <<>>, tensor |-> 0,
   issued |-> <<>>, kind |-> "none", running |-> FALSE, next |-> 1]

ExchangeInit ==
  /\ group = Nothing /\ how = Nothing /\ jobs = <<>> /\ proc = <<>> /\ delivered = 0 /\ version = 0

\* fully_shard of the modules of a model in turn: each layout as the runtime
\* prepares it; the group is the last one.  A planner or a layout that is
\* refused raises, and there is no group.
GroupsOf(wrap) ==
  IF \A g \in DOMAIN wrap : FromModule(wrap[g]) # {}
  THEN {[g \in DOMAIN wrap |-> CHOOSE params \in FromModule(wrap[g]) : TRUE]}
  ELSE {}

Sharded(planner, groups, n) ==
  UNION {
    LET prepared(g) == Prepare(plans[g], groups[g], n, "auto")
        last == Len(groups)
    IN  IF \A g \in DOMAIN groups : prepared(g) # {}
        THEN {Built(n, plans[last], runtime) : runtime \in prepared(last)}
        ELSE {} :
    plans \in GroupPlans(planner, groups, n)}

Planned == UNION {GroupsOf(wrap) : wrap \in Wraps}

ShardedGroups ==
  UNION {Sharded(planner, groups, n) : planner \in Planners, groups \in Planned, n \in Counts}

FullyShard ==
  /\ group = Nothing
  /\ \E g \in ShardedGroups :
       /\ group' = g
       /\ proc' = [r \in RanksOf(g.n) |-> Fresh(g, r, 0)]
  /\ version' = 0
  /\ UNCHANGED <<how, jobs, delivered>>

\* Ranks run the same program.  A strategy that reduces each parameter needs
\* them to use the same ones, and one bucket that none or all use some.
SameProgram(h, used) ==
  \/ h.reduce = "flat"
  \/ \A q, r \in Members : used[q] = used[r]
  \/ h.reduce = "bucket_reduce_scatter" /\ \A q \in Members : used[q] # "none"

\* A training program: how it was configured and the exchanges it makes.  One
\* whose strategy refuses the layout raises at its first gather.
Begin ==
  /\ group # Nothing /\ jobs = <<>> /\ version < MaxVersion
  /\ UNCHANGED <<group, proc, version>>
  /\ \E h \in Hows, work \in Works(group.n) :
       /\ \A k \in DOMAIN work : work[k].kind = "reduce" => SameProgram(h, work[k].used)
       /\ how' = h /\ jobs' = work
       /\ (\E k \in DOMAIN work : work[k].kind = "gather") => GatherKinds(group)' # {}
  /\ delivered' = 0

\* The optimizer steps on the shards and the program ends; what it gathered
\* and reduced is dropped.
End ==
  /\ jobs # <<>>
  /\ \A r \in Members : ~proc[r].running /\ proc[r].next > Len(jobs)
  /\ how' = Nothing /\ jobs' = <<>> /\ delivered' = 0
  /\ version' = version + 1
  /\ proc' = [r \in Members |-> Fresh(group, r, version + 1)]
  /\ UNCHANGED group

HostStep(r) == StartGather(r) \/ FinishGather(r) \/ StartReduce(r) \/ FinishReduce(r)

\* Bound: only rank 0 is given other limits; the caches of ranks do not meet.
ExchangeNext ==
  \/ FullyShard
  \/ Begin
  \/ \E r \in Members : HostStep(r)
  \/ Deliver
  \/ End
  \/ \E limit \in Limits : LimitWorkspaces(0, limit)

-----------------------------------------------------------------------------
(* What must hold *)

\* What the exchanges need of a group, whichever planner laid it out: typed and
\* packed segments, every element of the flat buffer in one of them, shards as
\* long as the segments in them, and parameters one after the other.
WellPlaced(g) ==
  LET total == g.layout.total
      segs == g.layout.ranks
  IN  /\ total \in Nat
      /\ DOMAIN segs = RanksOf(g.n)
      /\ \A r \in RanksOf(g.n) :
           /\ segs[r] \in Seq([start : 0 .. total, end : 0 .. total, local : 0 .. total])
           /\ \A k \in DOMAIN segs[r] : segs[r][k].start < segs[r][k].end
           /\ LocallyPacked(segs[r])
      /\ \A i \in 0 .. total - 1 :
           \E r \in RanksOf(g.n) :
             /\ \E k \in DOMAIN segs[r] : SegmentsWith(segs[r], i) = {k}
             /\ \A q \in RanksOf(g.n) \ {r} : SegmentsWith(segs[q], i) = {}
      /\ g.keeper = [i \in 0 .. total - 1 |->
                       CHOOSE r \in RanksOf(g.n) : SegmentsWith(segs[r], i) # {}]
      /\ g.place = [i \in 0 .. total - 1 |-> PlaceIn(segs[g.keeper[i]], i)]

WellSized(g) ==
  LET segs == g.layout.ranks
  IN  /\ g.sizes \in [RanksOf(g.n) -> Nat]
      /\ g.sizes = ShardSizes(g.layout)
      /\ \A r \in RanksOf(g.n) :
           g.sizes[r] = IF segs[r] = <<>> THEN 0 ELSE LocalEnd(segs[r][Len(segs[r])])
      /\ PackedOffset(g.sizes, g.n) = g.layout.total
      /\ g.n = 1 => RankChunks(g)

WellNamed(g) ==
  /\ g.params \in Seq([fqn : {g.params[i].fqn : i \in DOMAIN g.params},
                       start : 0 .. g.layout.total, end : 0 .. g.layout.total])
  /\ g.params # <<>>
  /\ \A i \in DOMAIN g.params :
       /\ g.params[i].start < g.params[i].end
       /\ g.params[i].start = IF i = 1 THEN 0 ELSE g.params[i - 1].end
  /\ g.params[Len(g.params)].end = g.layout.total

SoundGroup(g) == g.n \in Counts /\ WellPlaced(g) /\ WellSized(g) /\ WellNamed(g)

GroupIsSound == group = Nothing \/ SoundGroup(group)

Reduces == SelectSeq(jobs, LAMBDA job : job.kind = "reduce")

ExchangeTypeOK ==
  /\ GroupIsSound
  /\ DOMAIN proc = Members
  /\ how = Nothing \/ how \in Hows
  /\ delivered \in Nat /\ version \in 0 .. MaxVersion
  /\ \A r \in Members :
       /\ Length(proc[r].shard) = group.sizes[r]
       /\ proc[r].next \in 1 .. Len(jobs) + 1
       /\ proc[r].running \in BOOLEAN
       /\ Len(proc[r].issued) >= delivered
       /\ Len(proc[r].lease) <= 1

\* Every element of every parameter is kept in one place of one shard: what
\* the optimizer sees of the parameter, the segments of the rank and the
\* length of its shard agree.  Planning, rotating, reordering and the
\* fallbacks of the runtime (planner.py, fsdp_unit.py) must all keep it so.
EveryElementIsKeptOnce ==
  \A i \in 1 .. (IF group = Nothing THEN 0 ELSE Len(group.params)) :
    LET p == group.params[i]
        segs == group.layout.params[i].segs
        keeps(e) == {k \in DOMAIN segs : segs[k].start <= e /\ e < segs[k].end}
    IN  \A e \in p.start .. p.end - 1 :
          /\ Cardinality(keeps(e)) = 1
          /\ \A k \in keeps(e) :
               LET seg == segs[k]
                   at == seg.local + e - seg.start
               IN  /\ at < group.sizes[seg.rank]
                   /\ LocalShard(group, Params(group, 0), seg.rank)[at] = Params(group, 0)[e]

\* Balanced owners: no rank has more than one role above what any other has,
\* over all groups of a model, planned in turn or together
\* (parameter_boundary_plan, load_balanced_matrix_owner_tail_plan,
\* load_balanced_matrix_owner_tail_group_plans, _select_cost_aware_owner_plans).  Owners the hints name are
\* not balanced.
WithinOneRole(layouts, roles, n) ==
  LET load(r) == SumOf([g \in DOMAIN layouts |-> ShardSizes(layouts[g])[r]], [g \in DOMAIN layouts |-> g])
  IN  \A q, r \in RanksOf(n) : \E i \in DOMAIN roles : load(q) - load(r) <= roles[i].units

Unhinted(params) == HintedOwners(params) = {}

GroupedRoles(groups) == Flattened([g \in DOMAIN groups |-> RolesOf(groups[g], 0)])

BalancedPlans ==
  \A n \in Counts, groups \in Planned :
    /\ \A g \in DOMAIN groups, policy \in {"default", "largest_first"} :
         \A plan \in ParameterBoundaryPlan(groups[g], n, policy) :
           WithinOneRole(<<plan>>, [i \in DOMAIN groups[g] |-> Role(<<groups[g][i]>>, i)], n)
    /\ \A planner \in {"role_greedy"}
                        \cup IF \A g \in DOMAIN groups : Unhinted(groups[g])
                               THEN {"scope_greedy", "cost_aware"} ELSE {} :
         \A plans \in GroupPlans(planner, groups, n) :
           WithinOneRole(plans, GroupedRoles(groups), n)

BalancedOwnersDifferByOneRole == group = Nothing => BalancedPlans

\* The planners for an optimizer that needs whole matrices split none, however
\* their hints allow it, and what they plan can be built: no weight, tie or
\* layout the runtime refuses makes a candidate that splits the best of a
\* muon policy (default_auto_group_planner_candidates, compare_group_planners,
\* _rotate_layout_or_evaluation, explain_runtime_layout_compatibility).
MuonPlanners ==
  {"muon_full_matrix", "muon_zero_copy", "muon_shard_aware", "round_robin",
   "owner_tail_rotated", "role_greedy", "scope_greedy", "cost_aware"}

WholeMuonPlans ==
  \A n \in Counts, groups \in Planned, planner \in MuonPlanners :
    \A plans \in GroupPlans(planner, groups, n) : \A g \in DOMAIN groups :
      /\ WholeParams(plans[g], groups[g])
      /\ Prepare(plans[g], groups[g], n, "auto") # {}

MuonPlansKeepParametersWhole == group = Nothing => WholeMuonPlans

\* Every rank that has gathered has all parameters, however the strategy, the
\* backend and the layout made it gather them (start_all_gather_full_params).
GatheredParametersAreWhole ==
  \A r \in Members :
    jobs # <<>> /\ ~proc[r].running /\ proc[r].full # <<>> => proc[r].full = Params(group, version)

\* Every element of a reduced shard is the sum of what all ranks whose
\* backward used the parameter contributed to it, and nothing an earlier use
\* of the workspace left there (start_reduce_grad_bucket_to_local_shard and the
\* strategies that reduce each parameter).
SummedElements(r, job) ==
  LET kept(i, at) == {s \in {group.layout.params[i].segs[k] : k \in DOMAIN group.layout.params[i].segs} :
                        s.rank = r /\ s.local <= at /\ at < LocalEnd(s)}
  IN  [at \in 0 .. group.sizes[r] - 1 |->
         UNION {{<<group.params[i].fqn, s.start + at - s.local - group.params[i].start, q>> :
                   s \in kept(i, at), q \in {q \in Members : i \in UsedIn(job, q)}} :
                i \in DOMAIN group.params}]

ReducedShardsSumTheirElements ==
  \A r \in Members : \A k \in DOMAIN proc[r].result :
    proc[r].result[k] = SummedElements(r, Reduces[k])

\* Ranks issue the same collectives in the same order, so that none waits for
\* one the others do not enter.
RanksIssueTheSameCollectives ==
  \A q, r \in Members : \A k \in DOMAIN proc[q].issued \cap DOMAIN proc[r].issued :
    proc[q].issued[k] = proc[r].issued[k]

\* A leased workspace can be given back whatever limits were set meanwhile, and
\* one that is not leased is free for the next (MatrixWorkspaceCache,
\* ElasticParamBuffer).
LeasedWorkspacesAreReturned ==
  \A r \in Members :
    LET cache == proc[r].cache IN
    IF proc[r].lease # <<>> THEN Release(cache, proc[r].lease[1]) # {}
    ELSE /\ \A k \in DOMAIN cache.entries : ~cache.entries[k].busy
         /\ \A key \in DOMAIN cache.kept : ~cache.kept[key].busy

\* No rank waits forever: while the program runs, a rank can go on with its
\* exchanges or the process group can run the next collective.
NoRankWaitsForever ==
  jobs # <<>> =>
    \/ \A r \in Members : ~proc[r].running /\ proc[r].next > Len(jobs)
    \/ \E r \in Members : ~proc[r].running /\ proc[r].next <= Len(jobs)
    \/ \E r \in Members : proc[r].running /\ Waited(r)
    \/ \A r \in Members : /\ Len(proc[r].issued) > delivered
                          /\ proc[r].issued[delivered + 1] = proc[0].issued[delivered + 1]

ExchangeSpec == ExchangeInit /\ [][ExchangeNext]_exchangeVars
=============================================================================
