------------------------ MODULE MCOwnerOrderedPrefetch ------------------------
(* Bounded instances: UnitCount + 1 stands for a limit of None.              *)
EXTENDS OwnerOrderedPrefetch

CONSTANTS r1, r2

NoLimit == UnitCount + 1

\* The limits of one policy, as forward, backward, pending, active and cached:
\* the defaults, a memory cap that leaves no buffer in the pool, no reduce left
\* pending, no limit at all, and a pool that keeps a buffer.
Limits ==
  {<<1, 1, 1, NoLimit, 0>>, <<1, 2, 1, 2, 0>>, <<2, 1, 0, NoLimit, 0>>,
   <<NoLimit, NoLimit, NoLimit, NoLimit, 0>>, <<1, 1, 2, 2 * NoLimit, 1>>}

\* Every timing, one communicator or three, and each way to treat a prefetch
\* while a reduce is pending: issue it, leave it, or wait for the reduce.
MCPolicies ==
  {[forward |-> l[1], backward |-> l[2], pending |-> l[3], active |-> l[4],
    cached |-> l[5], timing |-> t, overlap |-> o = "on", waits |-> o = "wait",
    lanes |-> n, passes |-> p] :
     l \in Limits, t \in {"pre_backward", "post_reshard"},
     o \in {"on", "off", "wait"}, n \in BOOLEAN, p \in {1, 2}}

\* A cap of two buffers, and a pool that keeps one.
CappedPolicies ==
  [forward : {1}, backward : {1}, pending : {1}, active : {2}, cached : {1},
   timing : {"pre_backward"}, overlap : {FALSE}, waits : {FALSE},
   lanes : {FALSE}, passes : {1}]
=============================================================================
