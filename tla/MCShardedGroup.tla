---------------------------- MODULE MCShardedGroup ----------------------------
(***************************************************************************)
(* Communication groups of one to three ranks: modules small enough to     *)
(* enumerate, with and without hints, every planner, the gathers and       *)
(* reduces of every backend, and a crash between any two steps.            *)
(***************************************************************************)
EXTENDS ShardCheckpoint

Hint(split, block) == [NoHint EXCEPT !.split = split, !.block = block]
OwnerHint(r) == [NoHint EXCEPT !.owner = r]
ExpertHint(name) == [NoHint EXCEPT !.expert = TRUE, !.group = name, !.split = "parameter"]
Matrix(fqn, rows, cols, hint) == [fqn |-> fqn, shape |-> <<rows, cols>>, hint |-> hint]
Vector(fqn, size, hint) == [fqn |-> fqn, shape |-> <<size>>, hint |-> hint]

MCModels ==
  {<<Matrix("a", 2, 2, NoHint), Vector("b", 3, NoHint)>>,
   <<Matrix("a", 4, 1, Hint("row_block", <<2>>)), Vector("b", 2, NoHint)>>,
   <<Vector("b", 1, NoHint), Vector("a", 3, OwnerHint(1))>>,
   <<Matrix("a", 2, 1, ExpertHint("e1")), Vector("b", 2, NoHint)>>,
   <<Vector("a", 4, NoHint), Matrix("b", 2, 2, Hint("block", <<2>>)), Vector("c", 1, NoHint)>>}

\* Each module alone, and pairs planned by the same planner.
MCWraps ==
  {<<m>> : m \in MCModels}
    \cup {<<<<Matrix("a", 2, 2, NoHint), Matrix("b", 1, 3, NoHint)>>, m>> : m \in MCModels}

How(strategy, backend, impl, reduce, reduceImpl, flags) ==
  [strategy |-> strategy, backend |-> backend, impl |-> impl, reduce |-> reduce,
   reduceImpl |-> reduceImpl, flags |-> flags]

Bucketed(strategy, backend, impl, reduceImpl, flags) ==
  How(strategy, backend, impl, "bucket_reduce_scatter", reduceImpl, flags)

MCHows ==
  {Bucketed("auto", "matrix", "auto", "reduce", {}),
   Bucketed("auto", "matrix", "auto", "reduce", {"zero_copy"}),
   How("matrix_all_gather", "matrix", "auto", "flat", "reduce", {}),
   How("equal_all_gather", "matrix", "auto", "per_param", "reduce", {}),
   How("auto", "matrix", "auto", "per_param_allreduce", "reduce", {}),
   Bucketed("owner_broadcast", "owner_broadcast", "auto", "reduce", {"zero_copy"}),
   Bucketed("auto", "custom", "native_group_broadcast", "native_reduce", {"native"}),
   Bucketed("auto", "custom", "native_sendrecv", "native_reduce",
            {"segment_p2p", "native", "chunk_path"}),
   Bucketed("auto", "custom", "auto", "uneven_reduce_scatter",
            {"auto_chunks", "chunk_path", "torch_batch", "nccl"}),
   Bucketed("auto", "custom", "rma_put_signal", "native_reduce",
            {"experimental", "nccl", "zero_size"}),
   Bucketed("auto", "custom", "uneven_all_gather", "reduce", {"nccl"}),
   Bucketed("auto", "custom", "all_reduce", "reduce", {"zero_copy"})}

Gather == [kind |-> "gather"]
ReduceOf(used) == [kind |-> "reduce", used |-> used]
Everywhere(n, use) == [r \in RanksOf(n) |-> use]

\* A gather and two reduces, the second with fewer gradients in a workspace
\* the first has used; ranks that use different parameters; and no gradients.
MCWorks(n) ==
  {<<Gather, ReduceOf(Everywhere(n, "all")), ReduceOf(Everywhere(n, "first"))>>,
   <<ReduceOf([r \in RanksOf(n) |-> IF r = 0 THEN "first" ELSE "all"])>>,
   <<ReduceOf(Everywhere(n, "none"))>>}
===============================================================================
