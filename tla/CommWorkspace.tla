----------------------------- MODULE CommWorkspace -----------------------------
(***************************************************************************)
(* The workspaces of one flat buffer: the tensors its gradients are packed *)
(* into before they are reduced (matrix_fsdp/runtime/workspace_cache.py    *)
(* and the rank-chunk workspaces of runtime/elastic_param_buffer.py).      *)
(*                                                                         *)
(* A cache is a record:                                                    *)
(*   entries  the entries of _entries, a sequence of [tensor, key, busy];  *)
(*            those of one key are the list the dictionary has for it      *)
(*   kept     _persistent_rank_chunk_workspaces: key -> [tensor, busy]     *)
(*   limit    max_cached_per_key                                           *)
(* A key stands for a device, a dtype and a size; a tensor for its         *)
(* identity.  A lease is [tensor, key, kept].                              *)
(***************************************************************************)
EXTENDS Containers, FiniteSets

EmptyCache(limit) == [entries |-> <<>>, kept |-> <<>>, limit |-> limit]

Tensors(cache) ==
  {cache.entries[i].tensor : i \in DOMAIN cache.entries}
    \cup {cache.kept[key].tensor : key \in DOMAIN cache.kept}

Idle(cache, key) ==
  {i \in DOMAIN cache.entries : cache.entries[i].key = key /\ ~cache.entries[i].busy}

First(places) == CHOOSE i \in places : \A j \in places : i <= j

\* CommWorkspaceCache.acquire: the first idle entry of the key, or a new one.
AcquireShared(cache, key, new) ==
  IF Idle(cache, key) # {}
  THEN LET i == First(Idle(cache, key))
       IN  [cache |-> [cache EXCEPT !.entries[i].busy = TRUE],
            lease |-> [tensor |-> cache.entries[i].tensor, key |-> key, kept |-> FALSE]]
  ELSE [cache |-> [cache EXCEPT !.entries = Append(@, [tensor |-> new, key |-> key, busy |-> TRUE])],
        lease |-> [tensor |-> new, key |-> key, kept |-> FALSE]]

\* acquire_persistent_rank_chunk_workspace: the key's own tensor, made on
\* first use; while it is in use, a tensor of the shared entries.
AcquireKept(cache, key, new) ==
  LET lease(tensor) == [tensor |-> tensor, key |-> key, kept |-> TRUE]
      keep(tensor) == [cache EXCEPT !.kept = With(@, key, [tensor |-> tensor, busy |-> TRUE])]
  IN  IF key \notin DOMAIN cache.kept THEN [cache |-> keep(new), lease |-> lease(new)]
      ELSE IF cache.kept[key].busy THEN AcquireShared(cache, key, new)
      ELSE [cache |-> keep(cache.kept[key].tensor), lease |-> lease(cache.kept[key].tensor)]

\* Slip: the entries in use are trimmed with the idle ones.
TrimAny(cache, keys) ==
  LET all(key) == {i \in DOMAIN cache.entries : cache.entries[i].key = key}
      stays(i) == \A key \in keys : i \in all(key) =>
                    Cardinality({j \in all(key) : j > i}) < cache.limit
  IN  [cache EXCEPT !.entries = Selected(@, {i \in DOMAIN @ : stays(i)})]

\* _trim_idle_entries, for some keys: the oldest idle entries of a key beyond
\* the limit go.
Trim(cache, keys) ==
  LET stays(i) == \A key \in keys : i \in Idle(cache, key) =>
                    Cardinality({j \in Idle(cache, key) : j > i}) < cache.limit
  IN  [cache EXCEPT !.entries = Selected(@, {i \in DOMAIN @ : stays(i)})]

Holding(cache, tensor) ==
  {i \in DOMAIN cache.entries : cache.entries[i].tensor = tensor}

\* release of a lease of the shared entries; a tensor that is no entry raises.
ReleaseShared(cache, lease) ==
  IF Holding(cache, lease.tensor) = {} THEN {}
  ELSE LET i == First(Holding(cache, lease.tensor))
       IN  IF cache.limit = 0 THEN {[cache EXCEPT !.entries = Selected(@, DOMAIN @ \ {i})]}
           ELSE {Trim([cache EXCEPT !.entries[i].busy = FALSE], {lease.key})}

\* release_persistent_rank_chunk_workspace
ReleaseKept(cache, lease) ==
  IF lease.key \notin DOMAIN cache.kept THEN {}
  ELSE IF cache.kept[lease.key].tensor # lease.tensor THEN {}
  ELSE IF cache.limit = 0
       THEN {[cache EXCEPT !.kept = [key \in DOMAIN @ \ {lease.key} |-> @[key]]]}
  ELSE {[cache EXCEPT !.kept[lease.key].busy = FALSE]}

Release(cache, lease) ==
  IF lease.kept THEN ReleaseKept(cache, lease) ELSE ReleaseShared(cache, lease)

\* set_max_cached_per_key, which trims every key, and the idle rank-chunk
\* workspaces that a limit of zero clears.
SetLimit(cache, limit) ==
  LET keys == {cache.entries[i].key : i \in DOMAIN cache.entries}
      trimmed == Trim([cache EXCEPT !.limit = limit], keys)
      busy == {key \in DOMAIN cache.kept : cache.kept[key].busy}
  IN  IF limit = 0 THEN [trimmed EXCEPT !.kept = [key \in busy |-> @[key]]] ELSE trimmed
=============================================================================
