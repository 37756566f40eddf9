--------------------------- MODULE OwnerOrderProofs ---------------------------
(***************************************************************************)
(* The owner-ordered prefetch queues implement CollectiveOrder, for any    *)
(* number of ranks and units, when no policy lets a decision depend on     *)
(* what a rank's GPU has finished.                                         *)
(*                                                                         *)
(* The argument is that a rank is then a sequential program: what it does  *)
(* next is a function of its own state (After, Entering), and what it      *)
(* waits for decides when, never what.  All ranks start in the same state, *)
(* so that they are at different places of one and the same run (Course),  *)
(* and their queues are parts of the same sequence of collectives.         *)
(***************************************************************************)
EXTENDS OwnerPrefetchProofs

\* Either the pool keeps nothing, or the memory cap is beyond what full buffers
\* and the pool can reach together.
Predictable ==
  \A p \in Policies : p.cached = 0 \/ UnitCount + p.cached < p.active

-----------------------------------------------------------------------------
(* The program of a rank, without its waits *)

RoomIn(h) ==
  Cardinality({u \in Units : h.unit[u] \in {"inflight", "full"}}) + 1 <= policy.active

FillsForward(h, u) ==
  /\ h.next.forward \in u + 1 .. UnitCount
  /\ Cardinality(h.ahead.forward) < policy.forward
  /\ RoomIn(h)
  /\ h.unit[h.next.forward] = "sharded"

Precedes(h, k, u) == \E i \in k + 1 .. Len(h.order) : h.order[i] = u

CursorIn(h, u) ==
  IF h.next.backward = Unset /\ Precedes(h, 1, u) THEN Len(h.order) - 1
                                                  ELSE h.next.backward

TriesBackward(h, u) ==
  /\ h.next.backward > 0 /\ Precedes(h, h.next.backward, u)
  /\ Cardinality(h.ahead.backward) < policy.backward
  /\ RoomIn(h)

FillsBackward(h, u) ==
  /\ TriesBackward(h, u)
  /\ h.pending # <<>> => policy.overlap
  /\ h.unit[h.order[h.next.backward]] = "resharded"

WaitsInWindow(h, u) ==
  TriesBackward(h, u) /\ h.pending # <<>> /\ ~policy.overlap /\ policy.waits

Landing(h, u) ==
  {v \in Units \ {u} : h.unit[v] = "inflight" /\ v \in h.ahead.forward \cup h.ahead.backward}

Waited(h) ==
  Cardinality({i \in DOMAIN h.pending : i <= Len(h.pending) - policy.pending + 1})

\* The turns a rank takes, by where it is.
BeforeForward(h, u) ==
  [h EXCEPT !.at = <<"wait_forward", u>>, !.unit[u] = InFlightFrom(@, "sharded"),
            !.ahead.forward = @ \ {u}, !.ahead.backward = @ \ {u}]

InForward(h, u) ==
  [h EXCEPT !.at = IF In(u, h.order) THEN <<"post_forward", u>> ELSE <<"fill_before", u>>,
            !.unit[u] = "full"]

AfterForward(h, u) ==
  [h EXCEPT !.at = <<"fill_after", u>>, !.unit[u] = "resharded", !.order = Append(@, u)]

FillForward(h, u) ==
  IF FillsForward(h, u)
    THEN [h EXCEPT !.unit[h.next.forward] = "inflight",
                   !.ahead.forward = @ \cup {h.next.forward},
                   !.next.forward = @ + 1, !.issued = TRUE]
    ELSE [h EXCEPT !.at = IF h.at[1] = "fill_before" THEN <<"post_forward", u>>
                          ELSE IF u < UnitCount THEN <<"pre_forward", u + 1>>
                          ELSE <<"pre_backward", UnitCount>>]

BeforeBackward(h, u) ==
  [h EXCEPT !.at = <<"wait_backward", u>>, !.unit[u] = InFlightFrom(@, "resharded")]

InBackward(h, u) ==
  LET pre == policy.timing = "pre_backward"
  IN  [h EXCEPT !.at = IF pre THEN <<"fill_backward", u>> ELSE <<"post_backward", u>>,
                !.unit[u] = "full",
                !.ahead.backward = @ \ {u},
                !.next.backward = IF pre THEN CursorIn(h, u) ELSE @]

FillBackward(h, u) ==
  IF FillsBackward(h, u)
    THEN [h EXCEPT !.unit[h.order[h.next.backward]] = "inflight",
                   !.ahead.backward = @ \cup {h.order[h.next.backward]},
                   !.next.backward = @ - 1, !.issued = TRUE]
  ELSE IF WaitsInWindow(h, u) THEN [h EXCEPT !.pending = <<>>]
  ELSE [h EXCEPT !.at = IF h.at[1] = "fill_backward" THEN <<"post_backward", u>>
                                                     ELSE AfterBackward(u)]

Resharded(h, u) == [h EXCEPT !.at = <<"reduce", u>>, !.unit[u] = "sharded"]

Reducing(h, u) ==
  [h EXCEPT !.at = <<"reduced", u>>,
            !.unit = [v \in Units |-> IF v \in Landing(h, u) THEN "full" ELSE @[v]],
            !.pending = Append(SubSeq(@, Waited(h) + 1, Len(@)), u)]

AfterReduce(h, u) ==
  LET post == policy.timing = "post_reshard"
  IN  [h EXCEPT !.at = IF post THEN <<"fill_reshard", u>> ELSE AfterBackward(u),
                !.pending = IF WaitsForAll(u) THEN <<>> ELSE @,
                !.next.backward = IF post THEN CursorIn(h, u) ELSE @]

AfterPass(h) ==
  IF h.pass < policy.passes THEN [h EXCEPT !.at = <<"pre_forward", 1>>, !.pass = @ + 1]
  ELSE IF h.issued
    THEN [h EXCEPT !.at = <<"barrier", 0>>, !.issued = FALSE, !.pending = <<>>]
  ELSE Finished([h EXCEPT !.pending = <<>>])

After(h) ==
  LET u == h.at[2]
  IN  CASE h.at[1] = "pre_forward" -> BeforeForward(h, u)
        [] h.at[1] = "wait_forward" -> InForward(h, u)
        [] h.at[1] = "post_forward" -> AfterForward(h, u)
        [] h.at[1] \in {"fill_before", "fill_after"} -> FillForward(h, u)
        [] h.at[1] = "pre_backward" -> BeforeBackward(h, u)
        [] h.at[1] = "wait_backward" -> InBackward(h, u)
        [] h.at[1] \in {"fill_backward", "fill_reshard"} -> FillBackward(h, u)
        [] h.at[1] = "post_backward" -> Resharded(h, u)
        [] h.at[1] = "reduce" -> Reducing(h, u)
        [] h.at[1] = "reduced" -> AfterReduce(h, u)
        [] h.at[1] = "end" -> AfterPass(h)
        [] h.at[1] = "barrier" -> Finished(h)

\* The collective the turn enters, if any.
Entering(h) ==
  LET u == h.at[2]
  IN  CASE h.at[1] = "pre_forward" ->
             IF h.unit[u] = "sharded" THEN {<<"gather", u>>} ELSE {}
        [] h.at[1] \in {"fill_before", "fill_after"} ->
             IF FillsForward(h, u) THEN {<<"gather", h.next.forward>>} ELSE {}
        [] h.at[1] = "pre_backward" ->
             IF h.unit[u] = "resharded" THEN {<<"gather", u>>} ELSE {}
        [] h.at[1] \in {"fill_backward", "fill_reshard"} ->
             IF FillsBackward(h, u) THEN {<<"gather", h.order[h.next.backward]>>} ELSE {}
        [] h.at[1] = "reduce" -> {<<"reduce", u>>}
        [] h.at[1] = "end" ->
             IF ~(h.pass < policy.passes) /\ h.issued THEN {<<"barrier", 0>>} ELSE {}
        [] OTHER -> {}

Turn(r) ==
  /\ policy' = policy
  /\ host' = [host EXCEPT ![r] = After(host[r])]
  /\ \/ Entering(host[r]) = {} /\ queue' = queue
     \/ \E op \in Operations : Entering(host[r]) = {op} /\ Enters(r, op)

-----------------------------------------------------------------------------
(* Room for a prefetch does not depend on the GPU's progress *)

LEMMA ActiveUnits ==
  ASSUME NEW h
  PROVE  /\ Cardinality({v \in Units : h.unit[v] \in {"inflight", "full"}}) \in Nat
         /\ Cardinality({v \in Units : h.unit[v] \in {"inflight", "full"}}) <= UnitCount
<1> DEFINE active == {v \in Units : h.unit[v] \in {"inflight", "full"}}
<1>1. IsFiniteSet(Units) /\ Cardinality(Units) = UnitCount
  BY FS_Interval, UnitCountAssumption DEF Units
<1>2. active \subseteq Units
  OBVIOUS
<1>3. IsFiniteSet(active) /\ Cardinality(active) <= Cardinality(Units)
  BY <1>1, <1>2, FS_Subset
<1>4. Cardinality(active) \in Nat
  BY <1>3, FS_CardinalityType
<1> QED
  BY <1>1, <1>3, <1>4

LEMMA RoomIsLocal ==
  ASSUME Predictable, TypeInv, NEW r \in Ranks
  PROVE  HasRoom(r) <=> RoomIn(host[r])
<1> DEFINE n == Cardinality({v \in Units : host[r].unit[v] \in {"inflight", "full"}})
<1>1. n \in Nat /\ n <= UnitCount /\ UnitCount \in Nat
  BY ActiveUnits, UnitCountAssumption
<1>2. /\ pool[r].draining \in Nat /\ pool[r].idle \in Nat
      /\ pool[r].draining + pool[r].idle <= policy.cached
  BY DEF TypeInv, PoolInv
<1>3. policy.cached \in Nat /\ policy.active \in Nat
      /\ (policy.cached = 0 \/ UnitCount + policy.cached < policy.active)
  BY PolicyTyped DEF Predictable, TypeInv, PrefetchInv, Typed, Policy
<1>4. HasRoom(r) = (n + pool[r].draining + 1 <= policy.active)
  BY DEF HasRoom
<1>5. RoomIn(host[r]) = (n + 1 <= policy.active)
  BY DEF RoomIn
<1> HIDE DEF n
<1> QED
  BY <1>1, <1>2, <1>3, <1>4, <1>5

LEMMA DecisionsAreLocal ==
  ASSUME Predictable, TypeInv, NEW r \in Ranks, NEW u
  PROVE  /\ MayPrefetchForward(r, u) <=> FillsForward(host[r], u)
         /\ MayPrefetchBackward(r, u) <=> FillsBackward(host[r], u)
         /\ MustWaitForReduces(r, u) <=> WaitsInWindow(host[r], u)
         /\ Cursor(r, u) = CursorIn(host[r], u)
<1>1. HasRoom(r) <=> RoomIn(host[r])
  BY RoomIsLocal
<1>2. \A k : RanBefore(r, k, u) <=> Precedes(host[r], k, u)
  BY DEF RanBefore, Precedes
<1>3. MayPrefetchForward(r, u) <=> FillsForward(host[r], u)
  BY <1>1 DEF MayPrefetchForward, FillsForward
<1>4. MayTryBackward(r, u) <=> TriesBackward(host[r], u)
  BY <1>1, <1>2 DEF MayTryBackward, TriesBackward
<1>5. Cursor(r, u) = CursorIn(host[r], u)
  BY <1>2 DEF Cursor, CursorIn
<1> QED
  BY <1>3, <1>4, <1>5 DEF MayPrefetchBackward, FillsBackward, MustWaitForReduces,
                          WaitsInWindow, Pending

-----------------------------------------------------------------------------
(* Every step of a rank is the turn its own state calls for *)

LEMMA TurnShape ==
  ASSUME NEW r \in Ranks, policy' = policy,
         host' = [host EXCEPT ![r] = After(host[r])],
         \/ Entering(host[r]) = {} /\ queue' = queue
         \/ \E op \in Operations : Entering(host[r]) = {op} /\ Enters(r, op)
  PROVE  Turn(r)
BY DEF Turn

LEMMA ForwardTurns ==
  ASSUME Predictable, TypeInv, NEW r \in Ranks, NEW u \in Units,
         \/ PreForward(r, u) \/ WaitForward(r, u) \/ PostForward(r, u)
         \/ PrefetchForward(r, u) \/ LeaveForwardWindow(r, u)
  PROVE  Turn(r)
<1>1. host \in [Ranks -> Hosts] /\ host[r] \in Hosts
  BY DEF TypeInv, PrefetchInv, Typed
<1>2. \A w \in Units : <<"gather", w>> \in Operations
  BY DEF Operations
<1>3. MayPrefetchForward(r, u) <=> FillsForward(host[r], u)
  BY DecisionsAreLocal
<1>4. CASE PreForward(r, u)
  <2>1. host[r].at = <<"pre_forward", u>>
    BY <1>4 DEF PreForward, At
  <2>2. After(host[r]) = BeforeForward(host[r], u)
        /\ Entering(host[r]) = IF host[r].unit[u] = "sharded" THEN {<<"gather", u>>} ELSE {}
    BY <2>1 DEF After, Entering
  <2>3. host' = [host EXCEPT ![r] = BeforeForward(host[r], u)] /\ policy' = policy
    BY <1>1, <1>4 DEF PreForward, BeforeForward
  <2> QED
    BY <1>2, <1>4, <2>2, <2>3, TurnShape DEF PreForward, Unshard, Gather
<1>5. CASE WaitForward(r, u)
  <2>1. host[r].at = <<"wait_forward", u>>
    BY <1>5 DEF WaitForward, At
  <2>2. After(host[r]) = InForward(host[r], u) /\ Entering(host[r]) = {}
    BY <2>1 DEF After, Entering
  <2>3. host' = [host EXCEPT ![r] = InForward(host[r], u)]
    BY <1>1, <1>5 DEF WaitForward, InForward
  <2> QED
    BY <1>5, <2>2, <2>3, TurnShape DEF WaitForward
<1>6. CASE PostForward(r, u)
  <2>1. host[r].at = <<"post_forward", u>>
    BY <1>6 DEF PostForward, At
  <2>2. After(host[r]) = AfterForward(host[r], u) /\ Entering(host[r]) = {}
    BY <2>1 DEF After, Entering
  <2>3. host' = [host EXCEPT ![r] = AfterForward(host[r], u)]
    BY <1>1, <1>6 DEF PostForward, AfterForward
  <2> QED
    BY <1>6, <2>2, <2>3, TurnShape DEF PostForward
<1>7. ASSUME At(r, "fill_before", u) \/ At(r, "fill_after", u)
      PROVE  /\ After(host[r]) = FillForward(host[r], u)
             /\ Entering(host[r]) = IF FillsForward(host[r], u)
                                      THEN {<<"gather", host[r].next.forward>>} ELSE {}
  BY <1>7 DEF At, After, Entering
<1>8. CASE PrefetchForward(r, u)
  <2>1. FillsForward(host[r], u) /\ host[r].next.forward \in Units
    BY <1>1, <1>3, <1>8 DEF PrefetchForward, MayPrefetchForward, Units
  <2>2. host' = [host EXCEPT ![r] = FillForward(host[r], u)]
    BY <1>1, <1>8, <2>1 DEF PrefetchForward, FillForward
  <2>3. /\ Enters(r, <<"gather", host[r].next.forward>>) /\ policy' = policy
        /\ At(r, "fill_before", u) \/ At(r, "fill_after", u)
    BY <1>8 DEF PrefetchForward, Gather
  <2> QED
    BY <1>2, <1>7, <2>1, <2>2, <2>3, TurnShape
<1>9. CASE LeaveForwardWindow(r, u)
  <2>1. ~FillsForward(host[r], u) /\ policy' = policy /\ queue' = queue
    BY <1>3, <1>9 DEF LeaveForwardWindow
  <2>2. At(r, "fill_before", u) \/ At(r, "fill_after", u)
    BY <1>9 DEF LeaveForwardWindow
  <2>3. host' = [host EXCEPT ![r] = FillForward(host[r], u)]
    BY <1>1, <1>9, <2>1 DEF LeaveForwardWindow, FillForward, At
  <2> QED
    BY <1>7, <2>1, <2>2, <2>3, TurnShape
<1> QED
  BY <1>4, <1>5, <1>6, <1>8, <1>9

LEMMA BackwardTurns ==
  ASSUME Predictable, TypeInv, NEW r \in Ranks, NEW u \in Units,
         \/ PreBackward(r, u) \/ WaitBackward(r, u) \/ PostBackward(r, u)
         \/ StartReduce(r, u) \/ EndReduce(r, u)
  PROVE  Turn(r)
<1>1. host \in [Ranks -> Hosts] /\ host[r] \in Hosts
  BY DEF TypeInv, PrefetchInv, Typed
<1>2. \A w \in Units : <<"gather", w>> \in Operations /\ <<"reduce", w>> \in Operations
  BY DEF Operations
<1>3. Cursor(r, u) = CursorIn(host[r], u)
  BY DecisionsAreLocal
<1>4. CASE PreBackward(r, u)
  <2>1. host[r].at = <<"pre_backward", u>>
    BY <1>4 DEF PreBackward, At
  <2>2. After(host[r]) = BeforeBackward(host[r], u)
        /\ Entering(host[r]) = IF host[r].unit[u] = "resharded" THEN {<<"gather", u>>} ELSE {}
    BY <2>1 DEF After, Entering
  <2>3. host' = [host EXCEPT ![r] = BeforeBackward(host[r], u)] /\ policy' = policy
    BY <1>1, <1>4 DEF PreBackward, BeforeBackward
  <2> QED
    BY <1>2, <1>4, <2>2, <2>3, TurnShape DEF PreBackward, Unshard, Gather
<1>5. CASE WaitBackward(r, u)
  <2>1. host[r].at = <<"wait_backward", u>>
    BY <1>5 DEF WaitBackward, At
  <2>2. After(host[r]) = InBackward(host[r], u) /\ Entering(host[r]) = {}
    BY <2>1 DEF After, Entering
  <2>3. host' = [host EXCEPT ![r] = InBackward(host[r], u)]
    BY <1>1, <1>3, <1>5 DEF WaitBackward, InBackward
  <2> QED
    BY <1>5, <2>2, <2>3, TurnShape DEF WaitBackward
<1>6. CASE PostBackward(r, u)
  <2>1. host[r].at = <<"post_backward", u>>
    BY <1>6 DEF PostBackward, At
  <2>2. After(host[r]) = Resharded(host[r], u) /\ Entering(host[r]) = {}
    BY <2>1 DEF After, Entering
  <2>3. host' = [host EXCEPT ![r] = Resharded(host[r], u)]
    BY <1>1, <1>6 DEF PostBackward, Resharded
  <2> QED
    BY <1>6, <2>2, <2>3, TurnShape DEF PostBackward
<1>7. CASE StartReduce(r, u)
  <2>1. host[r].at = <<"reduce", u>>
    BY <1>7 DEF StartReduce, At
  <2>2. After(host[r]) = Reducing(host[r], u) /\ Entering(host[r]) = {<<"reduce", u>>}
    BY <2>1 DEF After, Entering
  <2>3. PrefetchesInFlight(r, u) = Landing(host[r], u)
        /\ Cardinality(Oldest(r)) = Waited(host[r])
    BY DEF PrefetchesInFlight, Landing, Oldest, Waited
  <2>4. host' = [host EXCEPT ![r] = Reducing(host[r], u)]
    BY <1>1, <1>7, <2>3 DEF StartReduce, Reducing
  <2> QED
    BY <1>2, <1>7, <2>2, <2>4, TurnShape DEF StartReduce
<1>8. CASE EndReduce(r, u)
  <2>1. host[r].at = <<"reduced", u>>
    BY <1>8 DEF EndReduce, At
  <2>2. After(host[r]) = AfterReduce(host[r], u) /\ Entering(host[r]) = {}
    BY <2>1 DEF After, Entering
  <2>3. host' = [host EXCEPT ![r] = AfterReduce(host[r], u)]
    BY <1>1, <1>3, <1>8, ZenonT(60) DEF EndReduce, AfterReduce
  <2> QED
    BY <1>8, <2>2, <2>3, TurnShape DEF EndReduce
<1> QED
  BY <1>4, <1>5, <1>6, <1>7, <1>8

LEMMA BackwardWindowTurns ==
  ASSUME Predictable, TypeInv, NEW r \in Ranks, NEW u \in Units,
         \/ PrefetchBackward(r, u) \/ WaitForReduces(r, u) \/ LeaveBackwardWindow(r, u)
  PROVE  Turn(r)
<1>1. host \in [Ranks -> Hosts] /\ host[r] \in Hosts
  BY DEF TypeInv, PrefetchInv, Typed
<1>2. /\ MayPrefetchBackward(r, u) <=> FillsBackward(host[r], u)
      /\ MustWaitForReduces(r, u) <=> WaitsInWindow(host[r], u)
  BY DecisionsAreLocal
<1>3. InBackwardWindow(r, u)
  BY DEF PrefetchBackward, WaitForReduces, LeaveBackwardWindow
<1>4. /\ After(host[r]) = FillBackward(host[r], u)
      /\ Entering(host[r]) = IF FillsBackward(host[r], u)
                               THEN {<<"gather", host[r].order[host[r].next.backward]>>} ELSE {}
  BY <1>3 DEF InBackwardWindow, At, After, Entering
<1>5. CASE PrefetchBackward(r, u)
  <2>1. FillsBackward(host[r], u)
    BY <1>2, <1>5 DEF PrefetchBackward
  <2>2. host' = [host EXCEPT ![r] = FillBackward(host[r], u)] /\ policy' = policy
    BY <1>1, <1>5, <2>1 DEF PrefetchBackward, FillBackward
  <2>3. Enters(r, <<"gather", host[r].order[host[r].next.backward]>>)
    BY <1>5 DEF PrefetchBackward, Gather
  <2>4. host[r].next.backward \in 1 .. Len(host[r].order)
    <3>1. host[r].next.backward \in Unset .. Len(host[r].order)
      BY CountsTyped DEF TypeInv, PrefetchInv
    <3>2. host[r].next.backward > 0
      BY <1>5 DEF PrefetchBackward, MayPrefetchBackward, MayTryBackward
    <3> QED
      BY <3>1, <3>2 DEF Unset
  <2>5. host[r].order[host[r].next.backward] \in Units
    BY <1>1, <2>4 DEF Hosts
  <2>6. <<"gather", host[r].order[host[r].next.backward]>> \in Operations
    BY <2>5 DEF Operations
  <2> QED
    BY <1>4, <2>1, <2>2, <2>3, <2>6, TurnShape
<1>6. CASE WaitForReduces(r, u)
  <2>1. WaitsInWindow(host[r], u) /\ ~FillsBackward(host[r], u)
    BY <1>2, <1>6 DEF WaitForReduces, WaitsInWindow, FillsBackward
  <2>2. host' = [host EXCEPT ![r] = FillBackward(host[r], u)]
    BY <1>1, <1>6, <2>1 DEF WaitForReduces, FillBackward
  <2> QED
    BY <1>4, <1>6, <2>1, <2>2, TurnShape DEF WaitForReduces
<1>7. CASE LeaveBackwardWindow(r, u)
  <2>1. ~WaitsInWindow(host[r], u) /\ ~FillsBackward(host[r], u)
    BY <1>2, <1>7 DEF LeaveBackwardWindow
  <2>2. host' = [host EXCEPT ![r] = FillBackward(host[r], u)]
    BY <1>1, <1>7, <2>1 DEF LeaveBackwardWindow, FillBackward, At
  <2> QED
    BY <1>4, <1>7, <2>1, <2>2, TurnShape DEF LeaveBackwardWindow
<1> QED
  BY <1>5, <1>6, <1>7

LEMMA PassTurns ==
  ASSUME Predictable, TypeInv, NEW r \in Ranks,
         NextPass(r) \/ Finish(r) \/ LeaveBarrier(r)
  PROVE  Turn(r)
<1>1. host \in [Ranks -> Hosts] /\ host[r] \in Hosts
  BY DEF TypeInv, PrefetchInv, Typed
<1>2. <<"barrier", 0>> \in Operations
  BY DEF Operations
<1>3. host[r].pass \in Nat /\ policy.passes \in Nat
  BY <1>1, PolicyTyped DEF Hosts, TypeInv, PrefetchInv, Policy
<1>4. CASE NextPass(r)
  <2>1. host[r].at = <<"end", 1>> /\ host[r].pass < policy.passes
    BY <1>4 DEF NextPass, At
  <2>2. After(host[r]) = AfterPass(host[r]) /\ Entering(host[r]) = {}
    BY <2>1 DEF After, Entering
  <2>3. host' = [host EXCEPT ![r] = AfterPass(host[r])]
    BY <1>1, <1>4, <2>1 DEF NextPass, AfterPass
  <2> QED
    BY <1>4, <2>2, <2>3, TurnShape DEF NextPass
<1>5. CASE Finish(r)
  <2>1. host[r].at = <<"end", 1>> /\ ~(host[r].pass < policy.passes) /\ policy' = policy
    BY <1>3, <1>5 DEF Finish, At
  <2>2. /\ After(host[r]) = AfterPass(host[r])
        /\ Entering(host[r]) = IF host[r].issued THEN {<<"barrier", 0>>} ELSE {}
    BY <2>1 DEF After, Entering
  <2>3. CASE host[r].issued
    <3>1. host' = [host EXCEPT ![r] = AfterPass(host[r])] /\ Enters(r, <<"barrier", 0>>)
      BY <1>1, <1>5, <2>1, <2>3 DEF Finish, AfterPass
    <3> QED
      BY <1>2, <2>1, <2>2, <2>3, <3>1, TurnShape
  <2>4. CASE ~host[r].issued
    <3>1. host' = [host EXCEPT ![r] = AfterPass(host[r])] /\ queue' = queue
      BY <1>1, <1>5, <2>1, <2>4 DEF Finish, AfterPass
    <3> QED
      BY <2>1, <2>2, <2>4, <3>1, TurnShape
  <2> QED
    BY <2>3, <2>4
<1>6. CASE LeaveBarrier(r)
  <2>1. host[r].at = <<"barrier", 0>>
    BY <1>6 DEF LeaveBarrier, At
  <2>2. After(host[r]) = Finished(host[r]) /\ Entering(host[r]) = {}
    BY <2>1 DEF After, Entering
  <2> QED
    BY <1>6, <2>2, TurnShape DEF LeaveBarrier
<1> QED
  BY <1>4, <1>5, <1>6

LEMMA HostStepIsTurn ==
  ASSUME Predictable, TypeInv, NEW r \in Ranks, HostStep(r)
  PROVE  Turn(r)
BY ForwardTurns, BackwardTurns, BackwardWindowTurns, PassTurns DEF HostStep

-----------------------------------------------------------------------------
(* All ranks are on one run of that program *)

\* From c, where so many collectives have been entered on each lane, the turn
\* to d: what it enters is the next entry of the lane's log.
Follows(log, c, d) ==
  /\ d.host = After(c.host)
  /\ \/ Entering(c.host) = {} /\ d.entered = c.entered
     \/ \E op \in Operations :
          /\ Entering(c.host) = {op}
          /\ d.entered = [c.entered EXCEPT ![Lane(op)] = @ + 1]
          /\ log[Lane(op)][c.entered[Lane(op)] + 1] = op

\* The first n turns, and what they entered.
Course(log, run, n) ==
  /\ log \in [Lanes -> [Nat -> Operations]]
  /\ run \in [Nat -> [host : Hosts, entered : [Lanes -> Nat]]]
  /\ n \in Nat
  /\ \A k \in Nat : k < n => Follows(log, run[k], run[k + 1])
  /\ \A k \in Nat, l \in Lanes : k <= n => run[k].entered[l] <= run[n].entered[l]

\* Rank r has taken k turns, ran[l] collectives of lane l have run, and what is
\* queued are the ones between.
Placed(log, run, ran, k, r) ==
  /\ host[r] = run[k].host
  /\ \A l \in Lanes :
       /\ run[k].entered[l] = ran[l] + Len(queue[r][l])
       /\ \A i \in 1 .. Len(queue[r][l]) : queue[r][l][i] = log[l][ran[l] + i]

OnCourse(log, run, n, at, ran) ==
  /\ Course(log, run, n)
  /\ at \in [Ranks -> Nat] /\ ran \in [Lanes -> Nat]
  /\ \A r \in Ranks : at[r] <= n /\ Placed(log, run, ran, at[r], r)
  /\ \E r \in Ranks : at[r] = n

CourseInv == \E log, run, n, at, ran : OnCourse(log, run, n, at, ran)

LEMMA ProgramIsFixed ==
  ASSUME policy' = policy, NEW h
  PROVE  After(h)' = After(h) /\ Entering(h)' = Entering(h)
<1>1. \A u : /\ FillForward(h, u)' = FillForward(h, u)
             /\ FillsForward(h, u)' = FillsForward(h, u)
             /\ FillBackward(h, u)' = FillBackward(h, u)
             /\ FillsBackward(h, u)' = FillsBackward(h, u)
  BY DEF FillForward, FillsForward, RoomIn, FillBackward, FillsBackward,
         TriesBackward, WaitsInWindow
<1>2. \A u : /\ InBackward(h, u)' = InBackward(h, u)
             /\ Reducing(h, u)' = Reducing(h, u)
             /\ AfterReduce(h, u)' = AfterReduce(h, u)
  BY DEF InBackward, Reducing, Waited, AfterReduce, WaitsForAll
<1>3. AfterPass(h)' = AfterPass(h)
  BY DEF AfterPass
<1> QED
  BY <1>1, <1>2, <1>3 DEF After, Entering

LEMMA FollowsIsFixed ==
  ASSUME policy' = policy, NEW log, NEW c, NEW d
  PROVE  Follows(log, c, d)' <=> Follows(log, c, d)
<1>1. /\ After(c.host)' = After(c.host) /\ Entering(c.host)' = Entering(c.host)
  BY ProgramIsFixed
<1>2. \A op : Lane(op)' = Lane(op)
  BY DEF Lane
<1> QED
  BY <1>1, <1>2 DEF Follows

LEMMA CourseIsFixed ==
  ASSUME policy' = policy, NEW log, NEW run, NEW n
  PROVE  Course(log, run, n)' <=> Course(log, run, n)
BY FollowsIsFixed DEF Course

LEMMA InitCourse == Init => CourseInv
<1> SUFFICES ASSUME Init PROVE CourseInv
  OBVIOUS
<1> DEFINE log == [l \in Lanes |-> [i \in Nat |-> <<"barrier", 0>>]]
           run == [k \in Nat |-> [host |-> Host, entered |-> [l \in Lanes |-> 0]]]
           at == [r \in Ranks |-> 0]
           ran == [l \in Lanes |-> 0]
<1>1. Host \in Hosts
  BY InitPrefetchInv, RanksAssumption DEF Init, PrefetchInv, Typed
<1>2. log \in [Lanes -> [Nat -> Operations]]
  BY DEF Operations
<1>3. run \in [Nat -> [host : Hosts, entered : [Lanes -> Nat]]]
  BY <1>1
<1>4. \A r \in Ranks : host[r] = Host /\ \A l \in Lanes : queue[r][l] = <<>>
  BY DEF Init
<1>5. \A k \in Nat : run[k].host = Host /\ \A l \in Lanes : run[k].entered[l] = 0
  OBVIOUS
<1>6. /\ at \in [Ranks -> Nat] /\ ran \in [Lanes -> Nat]
      /\ \A r \in Ranks : at[r] = 0 /\ \A l \in Lanes : ran[l] = 0
  OBVIOUS
<1> HIDE DEF log, run, at, ran
<1>7. \A k \in Nat : ~(k < 0)
  OBVIOUS
<1>8. Course(log, run, 0)
  BY <1>2, <1>3, <1>5, <1>7 DEF Course
<1>9. \A r \in Ranks : Placed(log, run, ran, at[r], r)
  BY <1>4, <1>5, <1>6 DEF Placed
<1>10. OnCourse(log, run, 0, at, ran)
  BY <1>6, <1>8, <1>9, RanksAssumption DEF OnCourse
<1> QED
  BY <1>10 DEF CourseInv

LEMMA OneMore ==
  ASSUME NEW a \in Nat, NEW b \in Nat
  PROVE  a + (b + 1) = (a + b) + 1
OBVIOUS

\* The rank that takes its turn is one turn further on the same run.
LEMMA TurnAdvances ==
  ASSUME Typed, NEW r \in Ranks, Turn(r),
         NEW log, NEW run, NEW k \in Nat, NEW ran \in [Lanes -> Nat],
         run[k] \in [host : Hosts, entered : [Lanes -> Nat]],
         Placed(log, run, ran, k, r), Follows(log, run[k], run[k + 1])
  PROVE  Placed(log, run, ran, k + 1, r)'
<1>1. host \in [Ranks -> Hosts] /\ host[r] = run[k].host
  BY DEF Typed, Placed
<1>2. host'[r] = run[k + 1].host
  BY <1>1 DEF Turn, Follows
<1>3. CASE Entering(host[r]) = {}
  <2>1. queue' = queue /\ run[k + 1].entered = run[k].entered
    BY <1>1, <1>3 DEF Turn, Follows
  <2> QED
    BY <1>2, <2>1 DEF Placed
<1>4. ASSUME NEW op \in Operations, Entering(host[r]) = {op}
      PROVE  Placed(log, run, ran, k + 1, r)'
  <2> DEFINE lane == Lane(op)
             q == queue[r][lane]
  <2>1. Enters(r, op)
    BY <1>4 DEF Turn
  <2>2. /\ run[k + 1].entered = [run[k].entered EXCEPT ![lane] = @ + 1]
        /\ log[lane][run[k].entered[lane] + 1] = op
    BY <1>1, <1>4 DEF Follows
  <2>3. lane \in Lanes /\ q \in Seq(Operations)
    BY LaneTyped DEF Typed
  <2>4. /\ queue'[r][lane] = Append(q, op)
        /\ \A l \in Lanes \ {lane} : queue'[r][l] = queue[r][l]
    BY <2>1, <2>3 DEF Typed, Enters
  <2>5. /\ Len(queue'[r][lane]) = Len(q) + 1
        /\ queue'[r][lane][Len(q) + 1] = op
        /\ \A i \in 1 .. Len(q) : queue'[r][lane][i] = q[i]
    BY <2>3, <2>4
  <2>6. Len(q) \in Nat /\ ran[lane] \in Nat
    BY <2>3
  <2>7. run[k].entered[lane] = ran[lane] + Len(q)
    BY <2>3 DEF Placed
  <2>8. /\ run[k + 1].entered[lane] = run[k].entered[lane] + 1
        /\ \A l \in Lanes \ {lane} : run[k + 1].entered[l] = run[k].entered[l]
    BY <2>2, <2>3
  <2>9. ASSUME NEW l \in Lanes, l # lane
        PROVE  /\ run[k + 1].entered[l] = ran[l] + Len(queue'[r][l])
               /\ \A i \in 1 .. Len(queue'[r][l]) : queue'[r][l][i] = log[l][ran[l] + i]
    BY <2>4, <2>8, <2>9 DEF Placed
  <2>10. \A i \in 1 .. Len(q) : q[i] = log[lane][ran[lane] + i]
    BY <2>3 DEF Placed
  <2> HIDE DEF lane, q
  <2>11. run[k + 1].entered[lane] = ran[lane] + Len(queue'[r][lane])
    <3>1. ran[lane] + (Len(q) + 1) = (ran[lane] + Len(q)) + 1
      BY <2>6, OneMore
    <3> QED
      BY <2>5, <2>7, <2>8, <3>1
  <2>12. ASSUME NEW i \in 1 .. Len(queue'[r][lane])
         PROVE  queue'[r][lane][i] = log[lane][ran[lane] + i]
    <3>1. CASE i = Len(q) + 1
      <4>1. ran[lane] + i = run[k].entered[lane] + 1
        BY <2>6, <2>7, <3>1, OneMore
      <4> QED
        BY <2>2, <2>5, <3>1, <4>1
    <3>2. CASE i # Len(q) + 1
      <4>1. i \in 1 .. Len(q)
        BY <2>5, <2>6, <3>2
      <4> QED
        BY <2>5, <2>10, <4>1
    <3> QED
      BY <3>1, <3>2
  <2> QED
    BY <1>2, <2>9, <2>11, <2>12 DEF Placed
<1> QED
  BY <1>3, <1>4 DEF Turn

LEMMA OthersStay ==
  ASSUME Typed, NEW r \in Ranks, Turn(r), NEW s \in Ranks \ {r},
         NEW log, NEW run, NEW k, NEW ran, Placed(log, run, ran, k, s)
  PROVE  Placed(log, run, ran, k, s)'
<1>1. host'[s] = host[s]
  BY DEF Turn, Typed
<1>2. queue'[s] = queue[s]
  BY DEF Turn, Enters, Typed
<1> QED
  BY <1>1, <1>2 DEF Placed

-----------------------------------------------------------------------------
(* A rank at the end of the run makes it longer *)

LEMMA LongerRun ==
  ASSUME NEW log, NEW run, NEW n, Course(log, run, n),
         After(run[n].host) \in Hosts, Entering(run[n].host) = {}
  PROVE  \E run2 : /\ Course(log, run2, n + 1)
                   /\ \A k \in Nat : k <= n => run2[k] = run[k]
<1> DEFINE d == [host |-> After(run[n].host), entered |-> run[n].entered]
           run2 == [run EXCEPT ![n + 1] = d]
<1>1. /\ log \in [Lanes -> [Nat -> Operations]]
      /\ run \in [Nat -> [host : Hosts, entered : [Lanes -> Nat]]]
      /\ n \in Nat /\ n + 1 \in Nat
  BY DEF Course
<1>2. /\ d \in [host : Hosts, entered : [Lanes -> Nat]]
      /\ d.host = After(run[n].host) /\ d.entered = run[n].entered
  BY <1>1
<1> HIDE DEF d
<1>3. /\ run2 \in [Nat -> [host : Hosts, entered : [Lanes -> Nat]]]
      /\ run2[n + 1] = d
      /\ \A k \in Nat : k # n + 1 => run2[k] = run[k]
  BY <1>1, <1>2
<1> HIDE DEF run2
<1>4. \A k \in Nat : k <= n => run2[k] = run[k]
  BY <1>1, <1>3
<1>5. Follows(log, run2[n], run2[n + 1])
  BY <1>1, <1>2, <1>3, <1>4 DEF Follows
<1>6. ASSUME NEW k \in Nat, k < n + 1
      PROVE  Follows(log, run2[k], run2[k + 1])
  <2>1. CASE k < n
    <3>1. run2[k] = run[k] /\ run2[k + 1] = run[k + 1]
      BY <1>1, <1>4, <2>1
    <3> QED
      BY <2>1, <3>1 DEF Course
  <2>2. CASE ~(k < n)
    <3>1. k = n
      BY <1>1, <1>6, <2>2
    <3> QED
      BY <1>5, <3>1
  <2> QED
    BY <2>1, <2>2
<1>7. ASSUME NEW k \in Nat, NEW l \in Lanes, k <= n + 1
      PROVE  run2[k].entered[l] <= run2[n + 1].entered[l]
  <2>1. CASE k <= n
    BY <1>2, <1>3, <1>4, <2>1 DEF Course
  <2>2. CASE ~(k <= n)
    <3>1. k = n + 1 /\ run2[k].entered[l] \in Nat
      BY <1>1, <1>3, <1>7, <2>2
    <3> QED
      BY <3>1
  <2> QED
    BY <2>1, <2>2
<1>8. Course(log, run2, n + 1)
  BY <1>1, <1>3, <1>6, <1>7 DEF Course
<1> QED
  BY <1>4, <1>8

LEMMA LongerLog ==
  ASSUME NEW log, NEW run, NEW n, Course(log, run, n),
         After(run[n].host) \in Hosts, NEW op \in Operations,
         Entering(run[n].host) = {op}
  PROVE  \E log2, run2 :
           /\ Course(log2, run2, n + 1)
           /\ \A k \in Nat : k <= n => run2[k] = run[k]
           /\ \A l \in Lanes, i \in Nat : i <= run[n].entered[l] => log2[l][i] = log[l][i]
<1> DEFINE lane == Lane(op)
           m == run[n].entered[lane]
           d == [host |-> After(run[n].host), entered |-> [run[n].entered EXCEPT ![lane] = @ + 1]]
           run2 == [run EXCEPT ![n + 1] = d]
           log2 == [log EXCEPT ![lane][m + 1] = op]
<1>1. /\ log \in [Lanes -> [Nat -> Operations]]
      /\ run \in [Nat -> [host : Hosts, entered : [Lanes -> Nat]]]
      /\ n \in Nat /\ n + 1 \in Nat
  BY DEF Course
<1>2. lane \in Lanes
  BY LaneTyped
<1> HIDE DEF lane
<1>3. m \in Nat /\ \A l \in Lanes : run[n].entered[l] \in Nat
  BY <1>1, <1>2
<1>4. /\ d \in [host : Hosts, entered : [Lanes -> Nat]]
      /\ d.host = After(run[n].host)
      /\ d.entered = [run[n].entered EXCEPT ![lane] = @ + 1]
      /\ d.entered[lane] = m + 1
      /\ \A l \in Lanes : l # lane => d.entered[l] = run[n].entered[l]
  BY <1>1, <1>2
<1> HIDE DEF d
<1>5. /\ log2 \in [Lanes -> [Nat -> Operations]]
      /\ log2[lane][m + 1] = op
      /\ \A l \in Lanes, i \in Nat : ~(l = lane /\ i = m + 1) => log2[l][i] = log[l][i]
  BY <1>1, <1>2, <1>3
<1>6. /\ run2 \in [Nat -> [host : Hosts, entered : [Lanes -> Nat]]]
      /\ run2[n + 1] = d
      /\ \A k \in Nat : k # n + 1 => run2[k] = run[k]
  BY <1>1, <1>4
<1> HIDE DEF run2, log2
<1>7. \A k \in Nat : k <= n => run2[k] = run[k]
  BY <1>1, <1>6
<1>8. \A l \in Lanes, i \in Nat : i <= run[n].entered[l] => log2[l][i] = log[l][i]
  BY <1>3, <1>5
<1>9. Follows(log2, run2[n], run2[n + 1])
  <2>1. run2[n] = run[n] /\ run2[n + 1] = d
    BY <1>1, <1>6, <1>7
  <2>2. /\ d.entered = [run[n].entered EXCEPT ![Lane(op)] = @ + 1]
        /\ log2[Lane(op)][run[n].entered[Lane(op)] + 1] = op
    BY <1>4, <1>5 DEF lane
  <2>3. run2[n + 1].host = After(run2[n].host) /\ Entering(run2[n].host) = {op}
    BY <1>4, <2>1
  <2> QED
    BY <2>1, <2>2, <2>3 DEF Follows
<1>10. ASSUME NEW k \in Nat, k < n + 1
       PROVE  Follows(log2, run2[k], run2[k + 1])
  <2>1. CASE k < n
    <3>1. run2[k] = run[k] /\ run2[k + 1] = run[k + 1] /\ k + 1 <= n
      BY <1>1, <1>7, <2>1
    <3>2. Follows(log, run[k], run[k + 1])
      BY <2>1 DEF Course
    <3>3. ASSUME NEW o \in Operations,
                 run[k + 1].entered = [run[k].entered EXCEPT ![Lane(o)] = @ + 1]
          PROVE  log2[Lane(o)][run[k].entered[Lane(o)] + 1]
                   = log[Lane(o)][run[k].entered[Lane(o)] + 1]
      <4>1. Lane(o) \in Lanes /\ run[k].entered \in [Lanes -> Nat]
        BY <1>1, LaneTyped
      <4>2. run[k + 1].entered[Lane(o)] = run[k].entered[Lane(o)] + 1
        BY <3>3, <4>1
      <4>3. run[k + 1].entered[Lane(o)] <= run[n].entered[Lane(o)]
        BY <3>1, <4>1 DEF Course
      <4> QED
        BY <1>8, <4>1, <4>2, <4>3
    <3> QED
      BY <3>1, <3>2, <3>3 DEF Follows
  <2>2. CASE ~(k < n)
    <3>1. k = n
      BY <1>1, <1>10, <2>2
    <3> QED
      BY <1>9, <3>1
  <2> QED
    BY <2>1, <2>2
<1>11. ASSUME NEW k \in Nat, NEW l \in Lanes, k <= n + 1
       PROVE  run2[k].entered[l] <= run2[n + 1].entered[l]
  <2>1. CASE k <= n
    <3>1. run2[k].entered[l] <= run[n].entered[l] /\ run2[k].entered[l] \in Nat
      BY <1>1, <1>7, <2>1 DEF Course
    <3>2. run[n].entered[l] <= d.entered[l]
      BY <1>3, <1>4
    <3> QED
      BY <1>3, <1>4, <1>6, <3>1, <3>2
  <2>2. CASE ~(k <= n)
    <3>1. k = n + 1 /\ run2[k].entered[l] \in Nat
      BY <1>1, <1>6, <1>11, <2>2
    <3> QED
      BY <3>1
  <2> QED
    BY <2>1, <2>2
<1>12. Course(log2, run2, n + 1)
  BY <1>1, <1>5, <1>6, <1>10, <1>11 DEF Course
<1> QED
  BY <1>7, <1>8, <1>12

\* The longer run and log have every rank where it was.
LEMMA LongerKeepsPlaces ==
  ASSUME NEW log, NEW run, NEW n, Course(log, run, n),
         NEW log2, NEW run2,
         \A k \in Nat : k <= n => run2[k] = run[k],
         \A l \in Lanes, i \in Nat : i <= run[n].entered[l] => log2[l][i] = log[l][i],
         Typed, NEW ran \in [Lanes -> Nat], NEW k \in Nat, k <= n,
         NEW r \in Ranks, Placed(log, run, ran, k, r)
  PROVE  Placed(log2, run2, ran, k, r)
<1>1. run2[k] = run[k]
  OBVIOUS
<1>2. ASSUME NEW l \in Lanes, NEW i \in 1 .. Len(queue[r][l])
      PROVE  queue[r][l][i] = log2[l][ran[l] + i]
  <2>1. Len(queue[r][l]) \in Nat /\ ran[l] \in Nat
    BY DEF Typed
  <2>2. run[k].entered[l] = ran[l] + Len(queue[r][l])
    BY DEF Placed
  <2>3. run[k].entered[l] <= run[n].entered[l] /\ run[n].entered[l] \in Nat
    BY DEF Course
  <2>4. ran[l] + i \in Nat /\ ran[l] + i <= run[n].entered[l]
    BY <2>1, <2>2, <2>3
  <2> QED
    BY <2>4 DEF Placed
<1> QED
  BY <1>1, <1>2 DEF Placed

\* A rank behind the end of the run takes a turn that another took before.
LEMMA TurnBehind ==
  ASSUME Typed, NEW r \in Ranks, Turn(r),
         NEW log, NEW run, NEW n, NEW at, NEW ran,
         Course(log, run, n),
         at \in [Ranks -> Nat], ran \in [Lanes -> Nat],
         \A s \in Ranks : at[s] <= n /\ Placed(log, run, ran, at[s], s),
         at[r] < n, at[r] + 1 = n \/ \E s \in Ranks \ {r} : at[s] = n
  PROVE  OnCourse(log, run, n, [at EXCEPT ![r] = @ + 1], ran)'
<1> DEFINE to == [at EXCEPT ![r] = @ + 1]
<1>1. /\ n \in Nat /\ at[r] \in Nat
      /\ run[at[r]] \in [host : Hosts, entered : [Lanes -> Nat]]
      /\ Follows(log, run[at[r]], run[at[r] + 1])
  BY DEF Course
<1>2. /\ to \in [Ranks -> Nat] /\ to[r] = at[r] + 1
      /\ \A s \in Ranks \ {r} : to[s] = at[s]
  OBVIOUS
<1> HIDE DEF to
<1>3. Placed(log, run, ran, to[r], r)'
  BY <1>1, <1>2, TurnAdvances
<1>4. \A s \in Ranks \ {r} : Placed(log, run, ran, to[s], s)'
  BY <1>2, OthersStay
<1>5. \A s \in Ranks : to[s] <= n
  BY <1>1, <1>2
<1>6. Course(log, run, n)'
  BY CourseIsFixed DEF Turn
<1>7. OnCourse(log, run, n, to, ran)'
  BY <1>2, <1>3, <1>4, <1>5, <1>6 DEF OnCourse
<1> QED
  BY <1>7 DEF to

LEMMA TurnKeepsCourse ==
  ASSUME CourseInv, Typed, Typed', NEW r \in Ranks, Turn(r)
  PROVE  CourseInv'
<1>1. PICK log, run, n, at, ran : OnCourse(log, run, n, at, ran)
  BY DEF CourseInv
<1>2. /\ Course(log, run, n)
      /\ at \in [Ranks -> Nat] /\ ran \in [Lanes -> Nat]
      /\ \A s \in Ranks : at[s] <= n /\ Placed(log, run, ran, at[s], s)
      /\ \E s \in Ranks : at[s] = n
      /\ n \in Nat /\ at[r] \in Nat
  BY <1>1 DEF OnCourse, Course
<1>3. CASE at[r] < n
  <2>1. \E s \in Ranks \ {r} : at[s] = n
    BY <1>2, <1>3
  <2>2. OnCourse(log, run, n, [at EXCEPT ![r] = @ + 1], ran)'
    BY <1>2, <1>3, <2>1, TurnBehind
  <2> QED
    BY <2>2 DEF CourseInv
<1>4. CASE ~(at[r] < n)
  <2>1. at[r] = n
    BY <1>2, <1>4
  <2>2. run[n].host = host[r]
    BY <1>2, <2>1 DEF Placed
  <2>3. After(run[n].host) \in Hosts
    <3>1. host'[r] = After(host[r]) /\ host'[r] \in Hosts
      BY DEF Typed, Turn
    <3> QED
      BY <2>2, <3>1
  <2>4. \E log2, run2 :
          /\ Course(log2, run2, n + 1)
          /\ \A k \in Nat : k <= n => run2[k] = run[k]
          /\ \A l \in Lanes, i \in Nat : i <= run[n].entered[l] => log2[l][i] = log[l][i]
    <3>1. CASE Entering(run[n].host) = {}
      BY <1>2, <2>3, <3>1, LongerRun
    <3>2. ASSUME NEW op \in Operations, Entering(run[n].host) = {op}
          PROVE  \E log2, run2 :
                   /\ Course(log2, run2, n + 1)
                   /\ \A k \in Nat : k <= n => run2[k] = run[k]
                   /\ \A l \in Lanes, i \in Nat :
                        i <= run[n].entered[l] => log2[l][i] = log[l][i]
      BY <1>2, <2>3, <3>2, LongerLog
    <3> QED
      BY <2>2, <3>1, <3>2 DEF Turn
  <2>5. PICK log2, run2 :
          /\ Course(log2, run2, n + 1)
          /\ \A k \in Nat : k <= n => run2[k] = run[k]
          /\ \A l \in Lanes, i \in Nat : i <= run[n].entered[l] => log2[l][i] = log[l][i]
    BY <2>4
  <2>6. ASSUME NEW s \in Ranks
        PROVE  at[s] <= n + 1 /\ Placed(log2, run2, ran, at[s], s)
    <3>1. at[s] \in Nat /\ at[s] <= n /\ Placed(log, run, ran, at[s], s)
      BY <1>2
    <3>2. Placed(log2, run2, ran, at[s], s)
      BY <1>2, <2>5, <3>1, LongerKeepsPlaces
    <3> QED
      BY <1>2, <3>1, <3>2
  <2>7. OnCourse(log2, run2, n + 1, [at EXCEPT ![r] = @ + 1], ran)'
    <3>1. at[r] < n + 1 /\ at[r] + 1 = n + 1
      BY <1>2, <2>1
    <3> QED
      BY <1>2, <2>5, <2>6, <3>1, TurnBehind
  <2> QED
    BY <2>7 DEF CourseInv
<1> QED
  BY <1>3, <1>4

\* A collective that runs is the first one queued of every rank.
LEMMA DeliverKeepsCourse ==
  ASSUME CourseInv, Typed, NEW l \in Lanes, Deliver(l)
  PROVE  CourseInv'
<1>1. PICK log, run, n, at, ran : OnCourse(log, run, n, at, ran)
  BY DEF CourseInv
<1>2. /\ Course(log, run, n)
      /\ at \in [Ranks -> Nat] /\ ran \in [Lanes -> Nat]
      /\ \A s \in Ranks : at[s] <= n /\ Placed(log, run, ran, at[s], s)
      /\ \E s \in Ranks : at[s] = n
  BY <1>1 DEF OnCourse, Course
<1> DEFINE ran2 == [ran EXCEPT ![l] = @ + 1]
<1>3. /\ ran2 \in [Lanes -> Nat] /\ ran2[l] = ran[l] + 1
      /\ \A k \in Lanes \ {l} : ran2[k] = ran[k]
  BY <1>2
<1> HIDE DEF ran2
<1>4. ASSUME NEW r \in Ranks
      PROVE  Placed(log, run, ran2, at[r], r)'
  <2>1. host'[r] = run[at[r]].host
    BY <1>2 DEF Placed, Deliver
  <2>2. ASSUME NEW k \in Lanes, k # l
        PROVE  /\ run[at[r]].entered[k] = ran2[k] + Len(queue'[r][k])
               /\ \A i \in 1 .. Len(queue'[r][k]) : queue'[r][k][i] = log[k][ran2[k] + i]
    <3>1. queue'[r][k] = queue[r][k]
      BY <2>2 DEF Deliver, Typed
    <3> QED
      BY <1>2, <1>3, <2>2, <3>1 DEF Placed
  <2> DEFINE q == queue[r][l]
  <2>3. q \in Seq(Operations) /\ q # <<>> /\ queue'[r][l] = Tail(q)
    BY DEF Deliver, Typed
  <2>4. Len(q) \in Nat /\ Len(q) >= 1 /\ Len(Tail(q)) = Len(q) - 1
        /\ \A i \in 1 .. Len(q) - 1 : Tail(q)[i] = q[i + 1]
    BY <2>3
  <2>5. /\ run[at[r]].entered[l] = ran[l] + Len(q)
        /\ \A i \in 1 .. Len(q) : q[i] = log[l][ran[l] + i]
    BY <1>2 DEF Placed
  <2>6. ran[l] \in Nat
    BY <1>2
  <2> HIDE DEF q
  <2>7. Len(queue'[r][l]) = Len(q) - 1
    BY <2>3, <2>4
  <2>8. ran[l] + Len(q) = ran2[l] + (Len(q) - 1)
    BY <1>3, <2>4, <2>6
  <2>9. ASSUME NEW i \in 1 .. Len(q) - 1
        PROVE  queue'[r][l][i] = log[l][ran2[l] + i]
    <3>1. queue'[r][l][i] = q[i + 1] /\ i + 1 \in 1 .. Len(q)
      BY <2>3, <2>4
    <3>2. ran[l] + (i + 1) = ran2[l] + i
      BY <1>3, <2>4, <2>6
    <3> QED
      BY <2>5, <3>1, <3>2
  <2> QED
    BY <2>1, <2>2, <2>5, <2>7, <2>8, <2>9 DEF Placed
<1>5. Course(log, run, n)'
  BY <1>2, CourseIsFixed DEF Deliver
<1>6. OnCourse(log, run, n, at, ran2)'
  BY <1>2, <1>3, <1>4, <1>5 DEF OnCourse
<1> QED
  BY <1>6 DEF CourseInv

LEMMA StillCourse ==
  ASSUME CourseInv, policy' = policy, host' = host, queue' = queue
  PROVE  CourseInv'
<1>1. PICK log, run, n, at, ran : OnCourse(log, run, n, at, ran)
  BY DEF CourseInv
<1>2. Course(log, run, n)'
  BY <1>1, CourseIsFixed DEF OnCourse
<1>3. OnCourse(log, run, n, at, ran)'
  BY <1>1, <1>2 DEF OnCourse, Placed
<1> QED
  BY <1>3 DEF CourseInv

LEMMA NextKeepsCourse ==
  ASSUME Predictable
  PROVE  TypeInv /\ CourseInv /\ [Next]_vars => CourseInv'
<1> SUFFICES ASSUME TypeInv, CourseInv, [Next]_vars PROVE CourseInv'
  OBVIOUS
<1>1. Typed /\ Typed'
  BY NextKeepsTypeInv DEF TypeInv, PrefetchInv
<1>2. ASSUME NEW r \in Ranks, HostStep(r)
      PROVE  CourseInv'
  BY <1>1, <1>2, HostStepIsTurn, TurnKeepsCourse
<1>3. ASSUME NEW l \in Lanes, Deliver(l)
      PROVE  CourseInv'
  BY <1>1, <1>3, DeliverKeepsCourse
<1>4. ASSUME (\E r \in Ranks : GpuDone(r)) \/ UNCHANGED vars
      PROVE  CourseInv'
  BY <1>4, StillCourse DEF GpuDone, vars
<1> QED
  BY <1>2, <1>3, <1>4 DEF Next

-----------------------------------------------------------------------------
(* The ranks' queues are beginnings of one sequence *)

AgreeOn(q) ==
  \A r, s \in Ranks, l \in Lanes : \A i \in DOMAIN q[r][l] \cap DOMAIN q[s][l] :
    q[r][l][i] = q[s][l][i]

Longest(q, l, f) == f \in Ranks /\ \A s \in Ranks : Len(q[s][l]) <= Len(q[f][l])

Ordered(q) == AgreeOn(q) /\ \A l \in Lanes : \E f \in Ranks : Longest(q, l, f)

LEMMA SeqEqual ==
  ASSUME NEW S, NEW a \in Seq(S), NEW b \in Seq(S), Len(a) = Len(b),
         \A i \in 1 .. Len(b) : a[i] = b[i]
  PROVE  a = b
OBVIOUS

LEMMA CourseOrders ==
  ASSUME CourseInv, Typed
  PROVE  Ordered(queue)
<1>1. PICK log, run, n, at, ran : OnCourse(log, run, n, at, ran)
  BY DEF CourseInv
<1>2. AgreeOn(queue)
  <2> SUFFICES ASSUME NEW r \in Ranks, NEW s \in Ranks, NEW l \in Lanes,
                      NEW i \in DOMAIN queue[r][l] \cap DOMAIN queue[s][l]
               PROVE  queue[r][l][i] = queue[s][l][i]
    BY DEF AgreeOn
  <2>1. i \in 1 .. Len(queue[r][l]) /\ i \in 1 .. Len(queue[s][l])
    BY DEF Typed
  <2> QED
    BY <1>1, <2>1 DEF OnCourse, Placed
<1>3. PICK f \in Ranks : at[f] = n
  BY <1>1 DEF OnCourse
<1>4. ASSUME NEW l \in Lanes, NEW s \in Ranks
      PROVE  Len(queue[s][l]) <= Len(queue[f][l])
  <2>1. /\ run[at[s]].entered[l] <= run[at[f]].entered[l]
        /\ run[at[s]].entered[l] = ran[l] + Len(queue[s][l])
        /\ run[at[f]].entered[l] = ran[l] + Len(queue[f][l])
    BY <1>1, <1>3 DEF OnCourse, Course, Placed
  <2>2. ran[l] \in Nat /\ Len(queue[s][l]) \in Nat /\ Len(queue[f][l]) \in Nat
    BY <1>1 DEF OnCourse, Typed
  <2> QED
    BY <2>1, <2>2
<1> QED
  BY <1>2, <1>4 DEF Ordered, Longest

Queues == [Ranks -> [Lanes -> Seq(Operations)]]

\* Any of the longest queues is what the ranks have agreed on.
LEMMA AnyLongest ==
  ASSUME NEW q \in Queues, AgreeOn(q), NEW l \in Lanes, NEW f, Longest(q, l, f)
  PROVE  q[CHOOSE r \in Ranks : \A s \in Ranks : Len(q[s][l]) <= Len(q[r][l])][l] = q[f][l]
<1> DEFINE g == CHOOSE r \in Ranks : \A s \in Ranks : Len(q[s][l]) <= Len(q[r][l])
<1>1. g \in Ranks /\ \A s \in Ranks : Len(q[s][l]) <= Len(q[g][l])
  BY DEF Longest
<1> HIDE DEF g
<1>2. /\ f \in Ranks /\ Len(q[g][l]) \in Nat /\ Len(q[f][l]) \in Nat
      /\ q[g][l] \in Seq(Operations) /\ q[f][l] \in Seq(Operations)
  BY <1>1 DEF Longest, Queues
<1>3. Len(q[g][l]) <= Len(q[f][l]) /\ Len(q[f][l]) <= Len(q[g][l])
  BY <1>1, <1>2 DEF Longest
<1>4. Len(q[g][l]) = Len(q[f][l])
  BY <1>2, <1>3
<1>5. \A i \in 1 .. Len(q[f][l]) : q[g][l][i] = q[f][l][i]
  BY <1>1, <1>2, <1>4 DEF AgreeOn
<1>6. q[g][l] = q[f][l]
  BY <1>2, <1>4, <1>5, SeqEqual
<1> QED
  BY <1>6 DEF g

-----------------------------------------------------------------------------
(* Refinement *)

Agreed == [l \in Lanes |-> queue[Furthest(l)][l]]
EnteredBy == [r \in Ranks |-> [l \in Lanes |-> Len(queue[r][l])]]

LEMMA AgreedIs ==
  ASSUME Typed, Ordered(queue), NEW l \in Lanes, NEW f, Longest(queue, l, f)
  PROVE  Agreed[l] = queue[f][l]
BY AnyLongest DEF Agreed, Furthest, Ordered, Typed, Queues

LEMMA AgreedIsNext ==
  ASSUME Typed', Ordered(queue'), NEW l \in Lanes, NEW f, Longest(queue', l, f)
  PROVE  Agreed'[l] = queue'[f][l]
<1>1. queue' \in Queues /\ AgreeOn(queue')
  BY DEF Typed, Ordered, Queues
<1> QED
  BY <1>1, AnyLongest DEF Agreed, Furthest

\* Entering a collective is Enter of the abstract order: the rank decides what
\* comes next if it is ahead of the others, and follows them if it is not.
LEMMA EntersEnter ==
  ASSUME Typed, Typed', Ordered(queue), Ordered(queue'),
         NEW r \in Ranks, NEW op \in Operations, Enters(r, op)
  PROVE  /\ IF EnteredBy[r][Lane(op)] < Len(Agreed[Lane(op)])
               THEN Agreed[Lane(op)][EnteredBy[r][Lane(op)] + 1] = op /\ Agreed' = Agreed
               ELSE Agreed' = [Agreed EXCEPT ![Lane(op)] = Append(@, op)]
         /\ EnteredBy' = [EnteredBy EXCEPT ![r][Lane(op)] = @ + 1]
<1> DEFINE lane == Lane(op)
           q == queue[r][lane]
<1>1. lane \in Lanes
  BY LaneTyped
<1>2. queue' = [queue EXCEPT ![r][lane] = Append(@, op)]
  BY DEF Enters
<1> HIDE DEF lane
<1>3. /\ q \in Seq(Operations) /\ Len(q) \in Nat
      /\ queue'[r][lane] = Append(q, op)
      /\ \A s \in Ranks, l \in Lanes : s # r \/ l # lane => queue'[s][l] = queue[s][l]
  BY <1>1, <1>2 DEF Typed
<1>4. /\ Len(queue'[r][lane]) = Len(q) + 1 /\ queue'[r][lane][Len(q) + 1] = op
  BY <1>3
<1>5. \A s \in Ranks, l \in Lanes : Len(queue[s][l]) \in Nat /\ Len(queue'[s][l]) \in Nat
  BY DEF Typed
<1>6. EnteredBy' = [EnteredBy EXCEPT ![r][lane] = @ + 1]
  <2>1. \A s \in Ranks, l \in Lanes :
          EnteredBy'[s][l] = IF s = r /\ l = lane THEN EnteredBy[s][l] + 1 ELSE EnteredBy[s][l]
    <3>1. \A s \in Ranks, l \in Lanes :
            EnteredBy[s][l] = Len(queue[s][l]) /\ EnteredBy'[s][l] = Len(queue'[s][l])
      BY DEF EnteredBy
    <3> QED
      BY <1>1, <1>3, <1>4, <3>1
  <2>2. /\ EnteredBy = [s \in Ranks |-> [l \in Lanes |-> EnteredBy[s][l]]]
        /\ EnteredBy' = [s \in Ranks |-> [l \in Lanes |-> EnteredBy'[s][l]]]
    BY DEF EnteredBy
  <2> DEFINE to == [EnteredBy EXCEPT ![r][lane] = @ + 1]
  <2>3. /\ DOMAIN to = Ranks
        /\ \A s \in Ranks : /\ DOMAIN to[s] = Lanes
                             /\ to[s] = [l \in Lanes |-> EnteredBy'[s][l]]
    BY <1>1, <2>1, <2>2
  <2> QED
    BY <2>2, <2>3
<1>7. \A l \in Lanes : l # lane => Agreed'[l] = Agreed[l]
  <2> SUFFICES ASSUME NEW l \in Lanes, l # lane
               PROVE  Agreed'[l] = Agreed[l]
    OBVIOUS
  <2>1. PICK f : Longest(queue, l, f)
    BY DEF Ordered
  <2>2. Longest(queue', l, f)
    BY <1>3, <2>1 DEF Longest
  <2>3. Agreed[l] = queue[f][l] /\ Agreed'[l] = queue'[f][l]
    BY <2>1, <2>2, AgreedIs, AgreedIsNext
  <2> QED
    BY <1>3, <2>1, <2>3 DEF Longest
<1>8. EnteredBy[r][lane] = Len(q)
  BY <1>1 DEF EnteredBy
<1>9. DOMAIN Agreed = Lanes /\ DOMAIN Agreed' = Lanes
      /\ Agreed = [l \in Lanes |-> Agreed[l]] /\ Agreed' = [l \in Lanes |-> Agreed'[l]]
  BY DEF Agreed
<1>10. PICK f : Longest(queue, lane, f)
  BY <1>1 DEF Ordered
<1>11. f \in Ranks /\ \A s \in Ranks : Len(queue[s][lane]) <= Len(queue[f][lane])
  BY <1>10 DEF Longest
<1>12. Agreed[lane] = queue[f][lane]
  BY <1>1, <1>10, AgreedIs
<1> HIDE DEF q
<1>13. CASE Len(q) < Len(queue[f][lane])
  <2>1. f # r
    BY <1>1, <1>5, <1>13 DEF q
  <2>2. queue'[f][lane] = queue[f][lane]
    BY <1>1, <1>3, <1>11, <2>1
  <2>3. Longest(queue', lane, f)
    <3>1. Len(queue'[r][lane]) <= Len(queue'[f][lane])
      BY <1>1, <1>3, <1>4, <1>5, <1>11, <1>13, <2>2
    <3>2. \A s \in Ranks \ {r} : queue'[s][lane] = queue[s][lane]
      BY <1>1, <1>3
    <3> QED
      BY <1>11, <2>2, <3>1, <3>2 DEF Longest
  <2>4. Agreed'[lane] = Agreed[lane]
    BY <1>1, <1>12, <2>2, <2>3, AgreedIsNext
  <2>5. Agreed' = Agreed
    BY <1>7, <1>9, <2>4
  <2>6. Agreed[lane][Len(q) + 1] = op
    <3>1. Len(q) + 1 \in 1 .. Len(queue'[r][lane]) /\ Len(q) + 1 \in 1 .. Len(queue'[f][lane])
      BY <1>1, <1>3, <1>4, <1>5, <1>11, <1>13, <2>2
    <3>2. Len(q) + 1 \in DOMAIN queue'[r][lane] \cap DOMAIN queue'[f][lane]
      BY <1>1, <1>11, <3>1 DEF Typed
    <3>3. queue'[r][lane][Len(q) + 1] = queue'[f][lane][Len(q) + 1]
      BY <1>1, <1>11, <3>2 DEF Ordered, AgreeOn
    <3> QED
      BY <1>4, <1>12, <2>2, <3>3
  <2> QED
    BY <1>6, <1>8, <1>12, <1>13, <2>5, <2>6 DEF lane
<1>14. CASE ~(Len(q) < Len(queue[f][lane]))
  <2>1. Len(q) = Len(queue[f][lane])
    BY <1>1, <1>3, <1>5, <1>11, <1>14 DEF q
  <2>2. Longest(queue, lane, r)
    BY <1>11, <2>1 DEF Longest, q
  <2>3. Longest(queue', lane, r)
    <3>1. ASSUME NEW s \in Ranks \ {r} PROVE Len(queue'[s][lane]) <= Len(queue'[r][lane])
      <4>1. queue'[s][lane] = queue[s][lane] /\ Len(queue[s][lane]) <= Len(q)
        BY <1>1, <1>3, <2>2 DEF Longest, q
      <4> QED
        BY <1>1, <1>3, <1>4, <1>5, <4>1
    <3>2. Len(queue'[r][lane]) <= Len(queue'[r][lane])
      BY <1>1, <1>5
    <3> QED
      BY <3>1, <3>2 DEF Longest
  <2>4. Agreed[lane] = q /\ Agreed'[lane] = Append(q, op)
    BY <1>1, <1>3, <2>2, <2>3, AgreedIs, AgreedIsNext DEF q
  <2>5. Agreed' = [Agreed EXCEPT ![lane] = Append(@, op)]
    BY <1>1, <1>7, <1>9, <2>4
  <2> QED
    BY <1>6, <1>8, <1>12, <1>14, <2>5 DEF lane
<1> QED
  BY <1>13, <1>14

LEMMA TailOneLess ==
  ASSUME NEW S, NEW q \in Seq(S), q # <<>>
  PROVE  Len(q) \in Nat /\ Len(q) > 0 /\ Len(Tail(q)) = Len(q) - 1
OBVIOUS

\* A collective that every rank has entered, and that runs, is Run.
LEMMA DeliverRuns ==
  ASSUME Typed, Typed', Ordered(queue), Ordered(queue'), NEW l \in Lanes, Deliver(l)
  PROVE  /\ \A r \in Ranks : EnteredBy[r][l] > 0
         /\ Agreed' = [Agreed EXCEPT ![l] = Tail(@)]
         /\ EnteredBy' = [r \in Ranks |-> [EnteredBy[r] EXCEPT ![l] = @ - 1]]
<1>1. /\ \A r \in Ranks : queue[r][l] # <<>> /\ queue'[r][l] = Tail(queue[r][l])
      /\ \A r \in Ranks, k \in Lanes : k # l => queue'[r][k] = queue[r][k]
  BY DEF Deliver, Typed
<1>2. \A r \in Ranks : /\ Len(queue[r][l]) \in Nat /\ Len(queue[r][l]) > 0
                       /\ Len(queue'[r][l]) = Len(queue[r][l]) - 1
  <2> SUFFICES ASSUME NEW r \in Ranks
               PROVE  /\ Len(queue[r][l]) \in Nat /\ Len(queue[r][l]) > 0
                      /\ Len(queue'[r][l]) = Len(queue[r][l]) - 1
    OBVIOUS
  <2>1. queue[r][l] \in Seq(Operations)
    BY DEF Typed
  <2> QED
    BY <1>1, <2>1, TailOneLess
<1>3. EnteredBy' = [r \in Ranks |-> [EnteredBy[r] EXCEPT ![l] = @ - 1]]
  <2>1. \A s \in Ranks, k \in Lanes :
          EnteredBy'[s][k] = IF k = l THEN EnteredBy[s][k] - 1 ELSE EnteredBy[s][k]
    <3>1. \A s \in Ranks, k \in Lanes :
            EnteredBy[s][k] = Len(queue[s][k]) /\ EnteredBy'[s][k] = Len(queue'[s][k])
      BY DEF EnteredBy
    <3> QED
      BY <1>1, <1>2, <3>1
  <2> QED
    BY <2>1 DEF EnteredBy
<1>4. Agreed' = [Agreed EXCEPT ![l] = Tail(@)]
  <2>1. ASSUME NEW k \in Lanes
        PROVE  Agreed'[k] = IF k = l THEN Tail(Agreed[k]) ELSE Agreed[k]
    <3>1. PICK f : Longest(queue, k, f)
      BY DEF Ordered
    <3>2. Longest(queue', k, f)
      <4>1. CASE k = l
        <5>1. \A s \in Ranks : Len(queue'[s][k]) = Len(queue[s][k]) - 1
                               /\ Len(queue[s][k]) \in Nat
          BY <1>2, <4>1
        <5>2. f \in Ranks /\ \A s \in Ranks : Len(queue[s][k]) <= Len(queue[f][k])
          BY <3>1 DEF Longest
        <5>3. ASSUME NEW s \in Ranks PROVE Len(queue'[s][k]) <= Len(queue'[f][k])
          BY <5>1, <5>2
        <5> QED
          BY <5>2, <5>3 DEF Longest
      <4>2. CASE k # l
        BY <1>1, <3>1, <4>2 DEF Longest
      <4> QED
        BY <4>1, <4>2
    <3>3. Agreed[k] = queue[f][k] /\ Agreed'[k] = queue'[f][k]
      BY <3>1, <3>2, AgreedIs, AgreedIsNext
    <3> QED
      BY <1>1, <3>1, <3>3 DEF Longest
  <2>2. Agreed = [k \in Lanes |-> Agreed[k]] /\ Agreed' = [k \in Lanes |-> Agreed'[k]]
    BY DEF Agreed
  <2> QED
    BY <2>1, <2>2
<1> QED
  BY <1>2, <1>3, <1>4 DEF EnteredBy

\* Only a turn and a delivery touch the queues.
OrderedQueues == Ordered(queue)

LEMMA TurnImplements ==
  ASSUME Typed, Typed', OrderedQueues, OrderedQueues', NEW r \in Ranks, Turn(r)
  PROVE  Agreement!OrderNext \/ UNCHANGED Agreement!orderVars
<1>1. CASE queue' = queue
  BY <1>1 DEF Agreement!orderVars, Furthest
<1>2. ASSUME NEW op \in Operations, Enters(r, op)
      PROVE  Agreement!OrderNext
  <2>1. PICK l \in Lanes : l = Lane(op)
    BY LaneTyped
  <2>2. Agreement!Enter(r, l, op)
    BY <1>2, <2>1, EntersEnter DEF OrderedQueues, Agreement!Enter, Agreed, EnteredBy
  <2> QED
    BY <2>1, <2>2 DEF Agreement!OrderNext
<1> QED
  BY <1>1, <1>2 DEF Turn

LEMMA NextImplements ==
  ASSUME Predictable, TypeInv, TypeInv', OrderedQueues, OrderedQueues', [Next]_vars
  PROVE  [Agreement!OrderNext]_(Agreement!orderVars)
<1>1. Typed /\ Typed'
  BY DEF TypeInv, PrefetchInv
<1>2. ASSUME NEW r \in Ranks, HostStep(r)
      PROVE  Agreement!OrderNext \/ UNCHANGED Agreement!orderVars
  BY <1>1, <1>2, HostStepIsTurn, TurnImplements
<1>3. ASSUME NEW l \in Lanes, Deliver(l)
      PROVE  Agreement!OrderNext
  <2>1. Agreement!Run(l)
    BY <1>1, <1>3, DeliverRuns DEF OrderedQueues, Agreement!Run, Agreed, EnteredBy
  <2> QED
    BY <2>1 DEF Agreement!OrderNext
<1>4. ASSUME queue' = queue
      PROVE  UNCHANGED Agreement!orderVars
  BY <1>4 DEF Agreement!orderVars, Furthest
<1> QED
  BY <1>2, <1>3, <1>4 DEF Next, GpuDone, vars

LEMMA InitImplements == Init => Agreement!OrderInit
<1> SUFFICES ASSUME Init PROVE Agreement!OrderInit
  OBVIOUS
<1>1. \A r \in Ranks, l \in Lanes : queue[r][l] = <<>>
  BY DEF Init
<1>2. \A l \in Lanes : Furthest(l) \in Ranks
  BY <1>1, RanksAssumption DEF Furthest
<1> QED
  BY <1>1, <1>2 DEF Agreement!OrderInit

-----------------------------------------------------------------------------
(* The theorems *)

LEMMA Courses ==
  ASSUME Predictable
  PROVE  Spec => [](TypeInv /\ OrderedQueues)
<1>1. Init => TypeInv /\ CourseInv
  BY InitTypeInv, InitCourse
<1>2. TypeInv /\ CourseInv /\ [Next]_vars => TypeInv' /\ CourseInv'
  BY NextKeepsTypeInv, NextKeepsCourse
<1>3. TypeInv /\ CourseInv => TypeInv /\ OrderedQueues
  BY CourseOrders DEF OrderedQueues, TypeInv, PrefetchInv
<1> QED
  BY <1>1, <1>2, <1>3, PTL DEF Spec

\* When no decision depends on the GPU's progress, two ranks never have
\* different collectives at the same place of a communicator's queue, whatever
\* one runs ahead of the other: the ordered queues "avoid rank-order deadlocks
\* in custom owner collectives" (scheduler.py).
THEOREM OwnerRanksAgree ==
  ASSUME Predictable
  PROVE  Spec => []RanksAgreeOnOrder
<1>1. OrderedQueues => RanksAgreeOnOrder
  BY DEF OrderedQueues, Ordered, AgreeOn, RanksAgreeOnOrder
<1> QED
  BY <1>1, Courses, PTL

\* The same, step by step: what a rank enters is what the furthest rank entered
\* there, or the next of all; a collective that runs is the first entered of
\* every rank.  So the queues of scheduler.py are an implementation of an order
\* the ranks agree on without a word about it.
THEOREM OwnerQueuesImplementOrder ==
  ASSUME Predictable
  PROVE  Spec => ImplementsCollectiveOrder
<1>1. Init => Agreement!OrderInit
  BY InitImplements
<1>2. TypeInv /\ OrderedQueues /\ TypeInv' /\ OrderedQueues' /\ [Next]_vars
        => [Agreement!OrderNext]_(Agreement!orderVars)
  BY NextImplements
<1> QED
  BY <1>1, <1>2, Courses, PTL DEF Spec, ImplementsCollectiveOrder, Agreement!OrderSafety
=============================================================================
