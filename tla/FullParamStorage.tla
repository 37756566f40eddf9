--------------------------- MODULE FullParamStorage ---------------------------
(***************************************************************************)
(* Which storage holds whose full parameters during one forward and        *)
(* backward pass (matrix_fsdp/runtime/flat_buffer.py with fsdp_unit.py).   *)
(*                                                                         *)
(* The forward leaves tensors saved for backward that are views of the     *)
(* unit's full buffer.  The saved-tensor hooks of a unit pack a view of    *)
(* its buffer as a handle, and unpack it as a view of the buffer the unit  *)
(* has when the backward asks for it; any other view keeps the storage it  *)
(* was taken from, and the unit must have its parameters in that very      *)
(* storage again before the backward reads it.                             *)
(*                                                                         *)
(* Units run forward in index order and backward in reverse; one unit      *)
(* ahead may be gathered early (forward_prefetch, backward_prefetch).  The *)
(* forward of a root unit encloses the others', its backward too, and its  *)
(* hooks are called for the tensors of a unit without hooks of its own.    *)
(* Whether a unit reshards after its forward, and whether it has hooks, is *)
(* an option of the unit; every unit shrinks after its backward.           *)
(*                                                                         *)
(* An operator marked `Slip' is a defect a change could introduce in the   *)
(* one that follows it; the specification uses none of them.               *)
(***************************************************************************)
EXTENDS FullParamBufferPool

CONSTANTS
  UnitCount,        \* the units are 1 .. UnitCount
  Root,             \* the unit that encloses the others, or Nobody
  UnitKey,          \* the pool key of each unit's full buffer
  Reshard,          \* the units with reshard_after_forward
  Hooked,           \* the units with use_saved_tensor_hooks
  Prefetch,         \* forward_prefetch and backward_prefetch
  NoBuffer,         \* full_buffer is None
  Nobody            \* content of a storage nobody's parameters are in

Units == 1 .. UnitCount

ASSUME UnitCountPositive == UnitCount \in Nat \ {0}
ASSUME UnitKeysTyped == UnitKey \in [Units -> Keys]
ASSUME OptionsTyped ==
  Reshard \in SUBSET Units /\ Hooked \in SUBSET Units /\ Prefetch \in BOOLEAN
ASSUME NoBufferOutside ==
  /\ NoBuffer \notin Buffers /\ Nobody \notin Units
  /\ Units \cap (Buffers \cup {NoBuffer}) = {}
ASSUME RootTyped == Root = Nobody \/ (Root = 1 /\ UnitCount > 1)

VARIABLES
  buf,      \* full_buffer of each unit
  content,  \* whose full parameters each storage holds
  saved,    \* the storage the unit's saved tensors are views of, or the unit
            \* whose hooks packed them (_SavedFullParamView)
  phase,    \* where each unit is in its forward and backward
  pass,     \* "forward", "closing" when only the root is left, "backward"
  at        \* the unit that computes next

storageVars == <<cached, pending, held, busy, buf, content, saved, phase, pass, at>>

StorageInit ==
  /\ PoolInit
  /\ buf = [u \in Units |-> NoBuffer]
  /\ content = [b \in Buffers |-> Nobody]
  /\ saved = [u \in Units |-> NoBuffer]
  /\ phase = [u \in Units |-> "sharded"]
  /\ pass = "forward"
  /\ at = 1

-----------------------------------------------------------------------------
\* start_all_gather_full_params: a unit that resharded with shrink_storage
\* still has its tensor, whose storage is resized in place and is the same
\* again; any other takes a buffer from the pool.
Gather(u) ==
  \/ /\ buf[u] # NoBuffer
     /\ content' = [content EXCEPT ![buf[u]] = u]
     /\ busy' = IF Cuda THEN busy \cup {buf[u]} ELSE busy
     /\ UNCHANGED <<cached, pending, held, buf>>
  \/ /\ buf[u] = NoBuffer
     /\ Acquire(UnitKey[u])
     /\ \E b \in held' \ held :
          /\ buf' = [buf EXCEPT ![u] = b]
          /\ content' = [content EXCEPT ![b] = u]

\* A unit is gathered when it is its turn, or once the unit before it has its
\* own parameters (the schedulers' prefetch runs after wait_unshard).
Due(u, ahead) ==
  \/ u = at
  \/ Prefetch /\ ahead /\ phase[at] \in {"gathered", "computed"}

\* Only units that reshard have an output hook to prefetch from and a place in
\* the post-forward order to be found at; the root's place is the last.
LastRecordedBefore(u) ==
  /\ at \in Reshard \ {Root}
  /\ u < at /\ \A v \in Reshard : ~(u < v /\ v < at)

AfterRootHook(u) ==
  /\ Root \in Reshard /\ phase[Root] = "gathered"
  /\ \A v \in Reshard : v <= u

GatherForward(u) ==
  /\ pass = "forward"
  /\ phase[u] = "sharded"
  /\ Due(u, u = at + 1)
  /\ Gather(u)
  /\ phase' = [phase EXCEPT ![u] = "gathered"]
  /\ UNCHANGED <<saved, pass, at>>

\* Autograd calls the output hook of the root before the others'.
RootHookCalled == Root # Nobody => phase[Root] # "resharded"

GatherBackward(u) ==
  /\ pass = "backward"
  /\ phase[u] = "resharded"
  /\ \/ u = Root
     \/ Due(u, LastRecordedBefore(u)) /\ RootHookCalled
     \/ Prefetch /\ AfterRootHook(u)
  /\ Gather(u)
  /\ phase' = [phase EXCEPT ![u] = "gathered"]
  /\ UNCHANGED <<saved, pass, at>>

\* The saved-tensor hooks on top while u computes: entered for the forward of
\* a unit that reshards, torch calls the innermost.
HooksOver(u) ==
  IF u \in Reshard \cap Hooked THEN u
  ELSE IF Root \in Reshard \cap Hooked THEN Root ELSE Nobody

\* Slip: the storage of the tensor is not compared.
PackAnyTensor(u) == IF HooksOver(u) # Nobody THEN HooksOver(u) ELSE buf[u]

\* _pack_saved_tensor of those hooks, for a parameter view of u
Pack(u) ==
  LET h == HooksOver(u)
  IN  IF h # Nobody /\ buf[h] = buf[u] THEN h ELSE buf[u]

\* The unit's kernels read the gathered parameters; autograd saves views.
ComputeForward(u) ==
  /\ pass = "forward" /\ u = at
  /\ phase[u] = "gathered"
  /\ phase' = [phase EXCEPT ![u] = "computed"]
  /\ saved' = [saved EXCEPT ![u] = Pack(u)]
  /\ busy' = IF Cuda THEN busy \cup {buf[u]} ELSE busy
  /\ UNCHANGED <<cached, pending, held, buf, content, pass, at>>

ComputeBackward(u) ==
  /\ pass = "backward" /\ u = at /\ RootHookCalled
  /\ phase[u] = "gathered"
  /\ phase' = [phase EXCEPT ![u] = "computed"]
  /\ busy' = IF Cuda THEN busy \cup {buf[u]} ELSE busy
  /\ UNCHANGED <<cached, pending, held, buf, content, saved, pass, at>>

-----------------------------------------------------------------------------
CanCacheBuffer(b) ==
  /\ MaxCachedPerKey # 0
  /\ \E keep \in Drains : HasRoom(b, keep)

\* clear_full_params with shrink_storage: into the pool when the pool has
\* room, otherwise the storage is freed and, with keep_shrunk_tensor, the
\* empty tensor stays with the unit.
Shrink(u, keepTensor) ==
  \/ /\ CanCacheBuffer(buf[u])
     /\ Release(buf[u])
     /\ buf' = [buf EXCEPT ![u] = NoBuffer]
     /\ UNCHANGED content
  \/ /\ ~CanCacheBuffer(buf[u])
     /\ IF MaxCachedPerKey = 0
          THEN UNCHANGED <<cached, pending>>
          ELSE /\ \E keep \in Drains : cached' = cached \cup keep
               /\ pending' = StillPending
     /\ content' = [content EXCEPT ![buf[u]] = Nobody]
     /\ IF keepTensor
          THEN UNCHANGED <<held, buf>>
          ELSE /\ held' = held \ {buf[u]}
               /\ buf' = [buf EXCEPT ![u] = NoBuffer]
     /\ UNCHANGED busy

\* Slip: the unit keeps the tensor it gave back to the pool.
ReleaseFullKeepingTensor(u) == Release(buf[u]) /\ UNCHANGED <<buf, content>>

\* Without shrink_storage the buffer is released, whatever room there is.
ReleaseFull(u) ==
  /\ Release(buf[u])
  /\ buf' = [buf EXCEPT ![u] = NoBuffer]
  /\ UNCHANGED content

\* The root computes, then calls the others.
EnterChildren ==
  /\ pass = "forward" /\ at = Root
  /\ phase[Root] = "computed"
  /\ at' = at + 1
  /\ UNCHANGED <<cached, pending, held, busy, buf, content, saved, phase, pass>>

LeavesForward(u) ==
  /\ phase[u] = "computed"
  /\ \/ pass = "forward" /\ u = at /\ u # Root
     \/ pass = "closing" /\ u = Root

ForwardMovesOn ==
  IF pass = "forward" /\ at < UnitCount
    THEN at' = at + 1 /\ pass' = pass
    ELSE /\ at' = at
         /\ pass' = IF pass = "forward" /\ Root # Nobody THEN "closing" ELSE "backward"

\* _post_forward of a unit that stays gathered for its backward
KeepAfterForward(u) ==
  /\ LeavesForward(u) /\ u \notin Reshard
  /\ phase' = [phase EXCEPT ![u] = "gathered"]
  /\ ForwardMovesOn
  /\ UNCHANGED <<cached, pending, held, busy, buf, content, saved>>

\* reshard_after_forward shrinks unless the saved-tensor hooks are in use.
ReshardAfterForward(u) ==
  /\ LeavesForward(u) /\ u \in Reshard
  /\ IF u \in Hooked THEN ReleaseFull(u) ELSE Shrink(u, TRUE)
  /\ phase' = [phase EXCEPT ![u] = "resharded"]
  /\ ForwardMovesOn
  /\ UNCHANGED saved

\* Slip: the units are walked one too far.
ReshardAfterBackwardPastFirst(u) ==
  /\ pass = "backward" /\ u = at
  /\ phase[u] = "computed"
  /\ Shrink(u, FALSE)
  /\ phase' = [phase EXCEPT ![u] = "sharded"]
  /\ saved' = [saved EXCEPT ![u] = NoBuffer]
  /\ pass' = pass /\ at' = at - 1

\* reshard_before_reduce_grad: the backward of the unit is over, autograd
\* drops its saved tensors.
ReshardAfterBackward(u) ==
  /\ pass = "backward" /\ u = at
  /\ phase[u] = "computed"
  /\ Shrink(u, FALSE)
  /\ phase' = [phase EXCEPT ![u] = "sharded"]
  /\ saved' = [saved EXCEPT ![u] = NoBuffer]
  /\ IF u = 1
       THEN pass' = "forward" /\ at' = at
       ELSE pass' = pass /\ at' = at - 1

GpuCompletes ==
  /\ \E b \in Buffers : EventCompletes(b)
  /\ UNCHANGED <<buf, content, saved, phase, pass, at>>

StorageNext ==
  \/ \E u \in Units :
       \/ GatherForward(u) \/ ComputeForward(u)
       \/ KeepAfterForward(u) \/ ReshardAfterForward(u)
       \/ GatherBackward(u) \/ ComputeBackward(u) \/ ReshardAfterBackward(u)
  \/ EnterChildren
  \/ GpuCompletes

StorageSpec == StorageInit /\ [][StorageNext]_storageVars

-----------------------------------------------------------------------------
StorageTypeOK ==
  /\ PoolTypeOK
  /\ buf \in [Units -> Buffers \cup {NoBuffer}]
  /\ content \in [Buffers -> Units \cup {Nobody}]
  /\ saved \in [Units -> Buffers \cup {NoBuffer} \cup Units]
  /\ phase \in [Units -> {"sharded", "gathered", "computed", "resharded"}]
  /\ pass \in {"forward", "closing", "backward"}
  /\ at \in Units

\* The storage the backward of a unit reads a saved parameter view from: for a
\* handle, _unpack_saved_tensor makes a view of the buffer its unit has by then.
SavedStorage(u) == IF saved[u] \in Units THEN buf[saved[u]] ELSE saved[u]

\* Once a unit is gathered for its backward, the parameter views its forward
\* saved (_pack_saved_tensor) read that unit's full parameters: not those of a
\* unit whose gather reused the storage, not those of the unit whose hooks saw
\* them, and not a storage that was freed.
SavedViewsReadOwnParameters ==
  \A u \in Units :
    pass = "backward" /\ phase[u] \in {"gathered", "computed"}
      => SavedStorage(u) # NoBuffer /\ content[SavedStorage(u)] = u

\* The parameters a unit computes with are its own: no later gather of
\* another unit lands in the buffer of a unit that is still unsharded.
UnshardedUnitsKeepTheirParameters ==
  \A u \in Units :
    phase[u] \in {"gathered", "computed"} => content[buf[u]] = u
=============================================================================
