-------------------------- MODULE OwnerPrefetchProofs --------------------------
(***************************************************************************)
(* Unless the policy allows it, no gather entered ahead of its use is in   *)
(* flight together with a reduce, for any number of ranks and units and    *)
(* any policy; and the queues' types.                                      *)
(*                                                                         *)
(* The argument is local to a rank: the other ranks and the network only   *)
(* take collectives away from its queue.  A queued reduce is one the rank  *)
(* has still to wait for, a queued gather is of a unit "inflight"; a unit  *)
(* gathered ahead is not gathered again before it has been used, and no    *)
(* reduce is pending in the forward.                                       *)
(***************************************************************************)
EXTENDS OwnerOrderedPrefetch, FiniteSetTheorems, TLAPS

ForwardSteps ==
  {"pre_forward", "wait_forward", "fill_before", "post_forward", "fill_after"}

BackwardSteps ==
  {"pre_backward", "wait_backward", "fill_backward", "post_backward", "reduce",
   "reduced", "fill_reshard"}

Places ==
  ((ForwardSteps \cup BackwardSteps) \X Units) \cup {<<"end", 1>>, <<"barrier", 0>>}

States == {"sharded", "inflight", "full", "resharded"}

Hosts ==
  [at : Places, unit : [Units -> States],
   ahead : [forward : SUBSET Units, backward : SUBSET Units],
   order : Seq(Units), next : [forward : Int, backward : Int],
   issued : BOOLEAN, pending : Seq(Units), pass : Nat]

Typed ==
  /\ policy \in Policies
  /\ host \in [Ranks -> Hosts]
  /\ queue \in [Ranks -> [Lanes -> Seq(Operations)]]

Ahead(h) == h.ahead.forward \cup h.ahead.backward

\* No reduce is pending where the last one of the pass has been waited for.
QuietPlace(at) ==
  \/ at[1] \in ForwardSteps \cup {"end", "barrier"}
  \/ at = <<"fill_reshard", 1>>

\* What holds of the units of a rank at the place it has come to.
PlaceOK(h) ==
  /\ QuietPlace(h.at) => h.pending = <<>>
  /\ h.at[1] \in {"fill_before", "post_forward", "fill_backward", "post_backward"}
       => h.unit[h.at[2]] = "full"
  /\ h.at[1] = "reduce" => h.unit[h.at[2]] = "sharded"
  /\ h.at[1] \in {"wait_forward", "fill_before", "post_forward", "fill_backward",
                  "post_backward"} => h.at[2] \notin Ahead(h)
  /\ \A v \in h.ahead.forward :
       /\ h.at[1] \in ForwardSteps
       /\ v > h.at[2] \/ h.at = <<"pre_forward", v>>
  /\ \A v \in Ahead(h) : h.unit[v] \in {"inflight", "full"}

\* What is queued of a rank agrees with what its scheduler knows.
QueueOK(r) ==
  /\ \A v \in Units : Queued(r, <<"reduce", v>>) => In(v, host[r].pending)
  /\ \A v \in Units : Queued(r, <<"gather", v>>) => host[r].unit[v] = "inflight"
  /\ policy.overlap \/
     \A v \in Ahead(host[r]), w \in Units :
       ~(Queued(r, <<"gather", v>>) /\ Queued(r, <<"reduce", w>>))

RankOK(r) == PlaceOK(host[r]) /\ QueueOK(r)

PrefetchInv == Typed /\ \A r \in Ranks : RankOK(r)

-----------------------------------------------------------------------------
(* The collectives a rank has entered *)

LEMMA LaneTyped ==
  ASSUME NEW op \in Operations
  PROVE  Lane(op) \in Lanes
BY DEF Operations, Lane, Lanes

\* Entering a collective queues it and nothing else.
LEMMA EntersQueues ==
  ASSUME Typed, NEW r \in Ranks, NEW op \in Operations, Enters(r, op),
         policy' = policy
  PROVE  /\ queue' \in [Ranks -> [Lanes -> Seq(Operations)]]
         /\ \A s \in Ranks, o \in Operations :
              Queued(s, o)' => Queued(s, o) \/ (s = r /\ o = op)
<1>1. queue' \in [Ranks -> [Lanes -> Seq(Operations)]]
  BY LaneTyped DEF Typed, Enters
<1>2. ASSUME NEW s \in Ranks, NEW o \in Operations, Queued(s, o)'
      PROVE  Queued(s, o) \/ (s = r /\ o = op)
  <2>1. Lane(o)' = Lane(o) /\ Lane(o) \in Lanes /\ Lane(op) \in Lanes
    BY LaneTyped DEF Lane
  <2>2. PICK i \in DOMAIN queue'[s][Lane(o)] : queue'[s][Lane(o)][i] = o
    BY <1>2, <2>1 DEF Queued, In
  <2>3. CASE s = r /\ Lane(o) = Lane(op)
    <3>1. queue'[s][Lane(o)] = Append(queue[r][Lane(op)], op)
      BY <2>1, <2>3 DEF Typed, Enters
    <3>2. queue[r][Lane(op)] \in Seq(Operations)
      BY <2>1 DEF Typed
    <3>3. CASE i = Len(queue[r][Lane(op)]) + 1
      BY <2>2, <2>3, <3>1, <3>2, <3>3
    <3>4. CASE i \in 1 .. Len(queue[r][Lane(op)])
      <4>1. queue[s][Lane(o)][i] = o /\ i \in DOMAIN queue[s][Lane(o)]
        BY <2>2, <2>3, <3>1, <3>2, <3>4
      <4> QED
        BY <4>1 DEF Queued, In
    <3> QED
      BY <2>2, <3>1, <3>2, <3>3, <3>4
  <2>4. CASE ~(s = r /\ Lane(o) = Lane(op))
    <3>1. queue'[s][Lane(o)] = queue[s][Lane(o)]
      BY <2>1, <2>4 DEF Typed, Enters
    <3> QED
      BY <2>2, <3>1 DEF Queued, In
  <2> QED
    BY <2>3, <2>4
<1> QED
  BY <1>1, <1>2

\* A collective that runs leaves the queues of all ranks.
LEMMA DeliverQueues ==
  ASSUME Typed, NEW l \in Lanes, Deliver(l)
  PROVE  /\ queue' \in [Ranks -> [Lanes -> Seq(Operations)]]
         /\ \A s \in Ranks, o \in Operations : Queued(s, o)' => Queued(s, o)
<1>1. ASSUME NEW s \in Ranks, NEW k \in Lanes
      PROVE  /\ queue'[s][k] \in Seq(Operations)
             /\ \A i \in DOMAIN queue'[s][k] :
                  \E j \in DOMAIN queue[s][k] : queue[s][k][j] = queue'[s][k][i]
  <2>1. queue[s][k] \in Seq(Operations)
    BY DEF Typed
  <2>2. CASE k = l
    <3>1. queue'[s][k] = Tail(queue[s][k]) /\ queue[s][k] # <<>>
      BY <2>2 DEF Typed, Deliver
    <3>2. queue'[s][k] \in Seq(Operations) /\ Len(queue'[s][k]) = Len(queue[s][k]) - 1
      BY <2>1, <3>1
    <3>3. \A i \in DOMAIN queue'[s][k] :
            i + 1 \in DOMAIN queue[s][k] /\ queue'[s][k][i] = queue[s][k][i + 1]
      BY <2>1, <3>1, <3>2
    <3> QED
      BY <3>2, <3>3
  <2>3. CASE k # l
    <3>1. queue'[s][k] = queue[s][k]
      BY <2>3 DEF Typed, Deliver
    <3> QED
      BY <2>1, <3>1
  <2> QED
    BY <2>2, <2>3
<1>2. queue' \in [Ranks -> [Lanes -> Seq(Operations)]]
  <2>1. DOMAIN queue' = Ranks /\ \A s \in Ranks : DOMAIN queue'[s] = Lanes
    BY DEF Typed, Deliver
  <2>2. queue' = [s \in Ranks |-> queue'[s]]
        /\ \A s \in Ranks : queue'[s] = [k \in Lanes |-> queue'[s][k]]
    BY <2>1 DEF Deliver, Typed
  <2> QED
    BY <1>1, <2>2
<1>3. ASSUME NEW s \in Ranks, NEW o \in Operations, Queued(s, o)'
      PROVE  Queued(s, o)
  <2>1. Lane(o)' = Lane(o) /\ Lane(o) \in Lanes
    BY LaneTyped DEF Lane, Deliver
  <2> QED
    BY <1>1, <1>3, <2>1 DEF Queued, In
<1> QED
  BY <1>2, <1>3

-----------------------------------------------------------------------------
(* Steps of a rank, by what they do to its queue *)

\* A rank that does nothing itself stays as it was.
LEMMA OtherRanksKeep ==
  ASSUME NEW s \in Ranks, RankOK(s), host'[s] = host[s], policy' = policy,
         \A o \in Operations : Queued(s, o)' => Queued(s, o),
         host[s] \in Hosts
  PROVE  RankOK(s)'
<1>1. PlaceOK(host[s])'
  BY DEF RankOK, PlaceOK, QuietPlace, Ahead
<1>2. \A v \in Units : <<"gather", v>> \in Operations /\ <<"reduce", v>> \in Operations
  BY DEF Operations
<1>3. Ahead(host[s]) \subseteq Units
  BY DEF Ahead, Hosts
<1>4. QueueOK(s)'
  BY <1>2, <1>3 DEF RankOK, QueueOK, Ahead, In
<1> QED
  BY <1>1, <1>4 DEF RankOK

\* A step of one rank keeps the invariant if it leaves that rank as it should be.
LEMMA RankStep ==
  ASSUME PrefetchInv, policy' = policy, NEW r \in Ranks, NEW h \in Hosts,
         host' = [host EXCEPT ![r] = h],
         queue' \in [Ranks -> [Lanes -> Seq(Operations)]],
         \A s \in Ranks \ {r}, o \in Operations : Queued(s, o)' => Queued(s, o),
         PlaceOK(h), QueueOK(r)'
  PROVE  PrefetchInv'
<1>1. Typed'
  BY DEF PrefetchInv, Typed
<1>2. host'[r] = h
  BY DEF PrefetchInv, Typed
<1>3. PlaceOK(host[r])'
  BY <1>2 DEF PlaceOK, QuietPlace, Ahead
<1>4. ASSUME NEW s \in Ranks \ {r}
      PROVE  RankOK(s)'
  <2>1. host'[s] = host[s] /\ host[s] \in Hosts
    BY DEF PrefetchInv, Typed
  <2> QED
    BY <2>1, OtherRanksKeep DEF PrefetchInv
<1> QED
  BY <1>1, <1>3, <1>4 DEF PrefetchInv, RankOK

\* A step that gathers v: v is inflight then, and ahead of its use only where
\* nothing is pending or the policy does not mind.
LEMMA GatherStep ==
  ASSUME PrefetchInv, policy' = policy, NEW r \in Ranks, NEW h \in Hosts,
         host' = [host EXCEPT ![r] = h],
         NEW v \in Units, Gather(r, v), PlaceOK(h),
         h.unit = [host[r].unit EXCEPT ![v] = "inflight"],
         h.pending = host[r].pending,
         Ahead(h) \subseteq Ahead(host[r]) \cup {v},
         v \notin Ahead(h) \/ policy.overlap \/ host[r].pending = <<>>
  PROVE  PrefetchInv'
<1>1. \A w \in Units : <<"gather", w>> \in Operations /\ <<"reduce", w>> \in Operations
  BY DEF Operations
<1>2. Typed
  BY DEF PrefetchInv
<1>3. Enters(r, <<"gather", v>>)
  BY DEF Gather
<1>4. /\ queue' \in [Ranks -> [Lanes -> Seq(Operations)]]
      /\ \A s \in Ranks, o \in Operations :
           Queued(s, o)' => Queued(s, o) \/ (s = r /\ o = <<"gather", v>>)
  BY <1>1, <1>2, <1>3, EntersQueues
<1>5. host'[r] = h /\ host[r] \in Hosts
  BY <1>2 DEF Typed
<1>6. \A w \in Units : Queued(r, <<"reduce", w>>)' => Queued(r, <<"reduce", w>>)
  BY <1>1, <1>4
<1>7. \A w \in Units : Queued(r, <<"gather", w>>)' => Queued(r, <<"gather", w>>) \/ w = v
  BY <1>1, <1>4
<1>8. QueueOK(r)
  BY DEF PrefetchInv, RankOK
<1>9. \A w \in Units : Queued(r, <<"reduce", w>>)' => In(w, host[r].pending)
  BY <1>6, <1>8 DEF QueueOK
<1>10. \A w \in Units : Queued(r, <<"gather", w>>)' => h.unit[w] = "inflight"
  BY <1>5, <1>7, <1>8 DEF QueueOK, Hosts
<1>11. policy.overlap \/ \A a \in Ahead(h), w \in Units :
         ~(Queued(r, <<"gather", a>>)' /\ Queued(r, <<"reduce", w>>)')
  <2> SUFFICES ASSUME ~policy.overlap, NEW a \in Ahead(h), NEW w \in Units,
                      Queued(r, <<"gather", a>>)', Queued(r, <<"reduce", w>>)'
               PROVE  FALSE
    OBVIOUS
  <2>1. Queued(r, <<"reduce", w>>) /\ In(w, host[r].pending)
    BY <1>6, <1>9
  <2>2. host[r].pending # <<>>
    BY <2>1 DEF In
  <2>3. a \in Ahead(host[r]) /\ a # v
    BY <2>2
  <2>4. a \in Units
    BY <1>5, <2>3 DEF Ahead, Hosts
  <2> QED
    BY <1>7, <1>8, <2>1, <2>3, <2>4 DEF QueueOK
<1>12. QueueOK(r)'
  BY <1>5, <1>9, <1>10, <1>11 DEF QueueOK, Ahead, In
<1> QED
  BY <1>4, <1>12, RankStep

\* A step that leaves the queue alone.
LEMMA QuietStep ==
  ASSUME PrefetchInv, policy' = policy, queue' = queue,
         NEW r \in Ranks, NEW h \in Hosts,
         host' = [host EXCEPT ![r] = h], PlaceOK(h),
         Ahead(h) \subseteq Ahead(host[r]),
         \A v \in Units : Queued(r, <<"gather", v>>) => h.unit[v] = "inflight",
         h.pending = host[r].pending \/ \A v \in Units : Reduced(r, v)
  PROVE  PrefetchInv'
<1>1. host'[r] = h
  BY DEF PrefetchInv, Typed
<1>2. \A s \in Ranks, o \in Operations : Queued(s, o)' <=> Queued(s, o)
  BY DEF Queued, In, Lane
<1>3. QueueOK(r)
  BY DEF PrefetchInv, RankOK
<1>4. \A v \in Units : <<"gather", v>> \in Operations /\ <<"reduce", v>> \in Operations
  BY DEF Operations
<1>5. Ahead(h) \subseteq Units
  BY DEF Ahead, Hosts
<1>6. QueueOK(r)'
  BY <1>1, <1>2, <1>3, <1>4, <1>5 DEF QueueOK, Ahead, In, Reduced
<1> QED
  BY <1>2, <1>6, RankStep DEF PrefetchInv, Typed

-----------------------------------------------------------------------------
(* Forward *)

LEMMA PreForwardKeeps ==
  ASSUME PrefetchInv, NEW r \in Ranks, NEW u \in Units, PreForward(r, u)
  PROVE  PrefetchInv'
<1> DEFINE h == [host[r] EXCEPT !.at = <<"wait_forward", u>>,
                                !.unit[u] = InFlightFrom(@, "sharded"),
                                !.ahead.forward = @ \ {u},
                                !.ahead.backward = @ \ {u}]
<1>1. host[r] \in Hosts /\ PlaceOK(host[r]) /\ QueueOK(r) /\ host[r].at = <<"pre_forward", u>>
  BY DEF PrefetchInv, Typed, RankOK, PreForward, At
<1>2. host' = [host EXCEPT ![r] = h] /\ policy' = policy
  BY DEF PreForward, PrefetchInv, Typed
<1>3. h \in Hosts
  BY <1>1 DEF Hosts, Places, ForwardSteps, InFlightFrom, States
<1>4. /\ h.at = <<"wait_forward", u>>
      /\ h.unit = [host[r].unit EXCEPT ![u] = InFlightFrom(@, "sharded")]
      /\ h.pending = host[r].pending
      /\ h.ahead.forward = host[r].ahead.forward \ {u}
      /\ h.ahead.backward = host[r].ahead.backward \ {u}
  BY <1>1 DEF Hosts
<1> HIDE DEF h
<1>5. host[r].pending = <<>>
  BY <1>1 DEF PlaceOK, QuietPlace, ForwardSteps
<1>6. PlaceOK(h)
  BY <1>1, <1>3, <1>4, <1>5 DEF PlaceOK, QuietPlace, Ahead, ForwardSteps, Hosts
<1>7. Ahead(h) = Ahead(host[r]) \ {u}
  BY <1>4 DEF Ahead
<1>8. CASE host[r].unit[u] = "sharded"
  <2>1. Gather(r, u)
    BY <1>8 DEF PreForward, Unshard
  <2>2. h.unit = [host[r].unit EXCEPT ![u] = "inflight"]
    BY <1>1, <1>4, <1>8 DEF InFlightFrom, Hosts
  <2> QED
    BY <1>2, <1>3, <1>4, <1>6, <1>7, <2>1, <2>2, GatherStep
<1>9. CASE host[r].unit[u] # "sharded"
  <2>1. queue' = queue
    BY <1>9 DEF PreForward, Unshard
  <2>2. h.unit = host[r].unit
    BY <1>1, <1>4, <1>9 DEF InFlightFrom, Hosts
  <2> QED
    BY <1>1, <1>2, <1>3, <1>4, <1>6, <1>7, <2>1, <2>2, QuietStep DEF QueueOK
<1> QED
  BY <1>8, <1>9

LEMMA WaitForwardKeeps ==
  ASSUME PrefetchInv, NEW r \in Ranks, NEW u \in Units, WaitForward(r, u)
  PROVE  PrefetchInv'
<1> DEFINE h == [host[r] EXCEPT
                   !.at = IF In(u, host[r].order) THEN <<"post_forward", u>>
                                                  ELSE <<"fill_before", u>>,
                   !.unit[u] = "full"]
<1>1. host[r] \in Hosts /\ PlaceOK(host[r]) /\ QueueOK(r) /\ host[r].at = <<"wait_forward", u>>
  BY DEF PrefetchInv, Typed, RankOK, WaitForward, At
<1>2. host' = [host EXCEPT ![r] = h] /\ policy' = policy /\ queue' = queue
  BY DEF WaitForward, PrefetchInv, Typed
<1>3. h \in Hosts
  BY <1>1 DEF Hosts, Places, ForwardSteps, States
<1>4. /\ h.at \in {<<"post_forward", u>>, <<"fill_before", u>>}
      /\ h.unit = [host[r].unit EXCEPT ![u] = "full"]
      /\ h.pending = host[r].pending
      /\ h.ahead = host[r].ahead
  BY <1>1 DEF Hosts
<1> HIDE DEF h
<1>5. PlaceOK(h)
  BY <1>1, <1>3, <1>4 DEF PlaceOK, QuietPlace, Ahead, ForwardSteps, Hosts
<1>6. \A v \in Units : Queued(r, <<"gather", v>>) => h.unit[v] = "inflight"
  BY <1>1, <1>4 DEF QueueOK, WaitForward, Gathered, Hosts
<1> QED
  BY <1>2, <1>3, <1>4, <1>5, <1>6, QuietStep DEF Ahead

LEMMA PostForwardKeeps ==
  ASSUME PrefetchInv, NEW r \in Ranks, NEW u \in Units, PostForward(r, u)
  PROVE  PrefetchInv'
<1> DEFINE h == [host[r] EXCEPT !.at = <<"fill_after", u>>,
                                !.unit[u] = "resharded",
                                !.order = Append(@, u)]
<1>1. host[r] \in Hosts /\ PlaceOK(host[r]) /\ QueueOK(r) /\ host[r].at = <<"post_forward", u>>
  BY DEF PrefetchInv, Typed, RankOK, PostForward, At
<1>2. host' = [host EXCEPT ![r] = h] /\ policy' = policy /\ queue' = queue
  BY DEF PostForward, PrefetchInv, Typed
<1>3. h \in Hosts
  <2>1. host[r].order \in Seq(Units) /\ Append(host[r].order, u) \in Seq(Units)
    BY <1>1 DEF Hosts
  <2>2. <<"fill_after", u>> \in Places
    BY DEF Places, ForwardSteps
  <2> QED
    BY <1>1, <2>1, <2>2 DEF Hosts, States
<1>4. /\ h.at = <<"fill_after", u>>
      /\ h.unit = [host[r].unit EXCEPT ![u] = "resharded"]
      /\ h.pending = host[r].pending
      /\ h.ahead = host[r].ahead
  BY <1>1 DEF Hosts
<1> HIDE DEF h
<1>5. PlaceOK(h)
  BY <1>1, <1>3, <1>4 DEF PlaceOK, QuietPlace, Ahead, ForwardSteps, Hosts
<1>6. host[r].unit[u] = "full"
  BY <1>1 DEF PlaceOK
<1>7. \A v \in Units : Queued(r, <<"gather", v>>) => h.unit[v] = "inflight"
  BY <1>1, <1>4, <1>6 DEF QueueOK, Hosts
<1> QED
  BY <1>2, <1>3, <1>4, <1>5, <1>7, QuietStep DEF Ahead

LEMMA PrefetchForwardKeeps ==
  ASSUME PrefetchInv, NEW r \in Ranks, NEW u \in Units, PrefetchForward(r, u)
  PROVE  PrefetchInv'
<1> DEFINE next == host[r].next.forward
           h == [host[r] EXCEPT !.unit[next] = "inflight",
                                !.ahead.forward = @ \cup {next},
                                !.next.forward = @ + 1,
                                !.issued = TRUE]
<1>1. /\ host[r] \in Hosts /\ PlaceOK(host[r]) /\ QueueOK(r)
      /\ host[r].at \in {<<"fill_before", u>>, <<"fill_after", u>>}
  BY DEF PrefetchInv, Typed, RankOK, PrefetchForward, At
<1>2. next \in Units /\ next > u /\ host[r].unit[next] = "sharded"
  BY UnitCountAssumption DEF PrefetchForward, MayPrefetchForward, Units
<1>3. host' = [host EXCEPT ![r] = h] /\ policy' = policy /\ Gather(r, next)
  BY DEF PrefetchForward, PrefetchInv, Typed
<1>4. h \in Hosts
  <2>1. [host[r].unit EXCEPT ![next] = "inflight"] \in [Units -> States]
    BY <1>1 DEF Hosts, States
  <2>2. [host[r].ahead EXCEPT !.forward = @ \cup {next}]
          \in [forward : SUBSET Units, backward : SUBSET Units]
    BY <1>1, <1>2 DEF Hosts
  <2>3. [host[r].next EXCEPT !.forward = @ + 1] \in [forward : Int, backward : Int]
    BY <1>1 DEF Hosts
  <2> QED
    BY <1>1, <2>1, <2>2, <2>3 DEF Hosts
<1>5. /\ h.at = host[r].at
      /\ h.unit = [host[r].unit EXCEPT ![next] = "inflight"]
      /\ h.pending = host[r].pending
      /\ h.ahead.forward = host[r].ahead.forward \cup {next}
      /\ h.ahead.backward = host[r].ahead.backward
  BY <1>1 DEF Hosts
<1> HIDE DEF h, next
<1>6. host[r].pending = <<>>
  BY <1>1 DEF PlaceOK, QuietPlace, ForwardSteps
<1>7. PlaceOK(h)
  <2>1. Ahead(h) = Ahead(host[r]) \cup {next}
    BY <1>5 DEF Ahead
  <2>2. h.unit[next] = "inflight" /\ \A v \in Units \ {next} : h.unit[v] = host[r].unit[v]
    BY <1>1, <1>2, <1>5 DEF Hosts
  <2>3. \A v \in Ahead(h) : h.unit[v] \in {"inflight", "full"}
    <3>1. Ahead(host[r]) \subseteq Units
      BY <1>1 DEF Ahead, Hosts
    <3> QED
      BY <1>1, <2>1, <2>2, <3>1 DEF PlaceOK
  <2>4. u # next /\ u \in Units
    BY <1>2 DEF Units
  <2>5. \A v \in h.ahead.forward :
          h.at[1] \in ForwardSteps /\ (v > h.at[2] \/ h.at = <<"pre_forward", v>>)
    BY <1>1, <1>2, <1>5 DEF PlaceOK, ForwardSteps
  <2> QED
    BY <1>1, <1>5, <1>6, <2>1, <2>2, <2>3, <2>4, <2>5 DEF PlaceOK
<1> QED
  BY <1>2, <1>3, <1>4, <1>5, <1>6, <1>7, GatherStep DEF Ahead

LEMMA LeaveForwardWindowKeeps ==
  ASSUME PrefetchInv, NEW r \in Ranks, NEW u \in Units, LeaveForwardWindow(r, u)
  PROVE  PrefetchInv'
<1>1. PICK p \in {<<"post_forward", u>>, <<"pre_forward", u + 1>>,
                  <<"pre_backward", UnitCount>>} :
        /\ host' = [host EXCEPT ![r].at = p]
        /\ p = <<"post_forward", u>> => At(r, "fill_before", u)
        /\ p # <<"post_forward", u>> => At(r, "fill_after", u)
        /\ p = <<"pre_forward", u + 1>> => u < UnitCount
        /\ p = <<"pre_backward", UnitCount>> => u = UnitCount
  BY UnitCountAssumption DEF LeaveForwardWindow, Units
<1> DEFINE h == [host[r] EXCEPT !.at = p]
<1>2. host[r] \in Hosts /\ PlaceOK(host[r]) /\ QueueOK(r)
  BY DEF PrefetchInv, Typed, RankOK
<1>3. host' = [host EXCEPT ![r] = h] /\ policy' = policy /\ queue' = queue
  BY <1>1 DEF LeaveForwardWindow, PrefetchInv, Typed
<1>4. p \in Places
  BY <1>1, UnitCountAssumption DEF Places, ForwardSteps, BackwardSteps, Units
<1>5. h \in Hosts
  BY <1>2, <1>4 DEF Hosts
<1>6. /\ h.at = p /\ h.unit = host[r].unit /\ h.pending = host[r].pending
      /\ h.ahead = host[r].ahead
  BY <1>2 DEF Hosts
<1> HIDE DEF h
<1>7. PlaceOK(h)
  <2>1. CASE p = <<"post_forward", u>>
    BY <1>1, <1>2, <1>6, <2>1 DEF PlaceOK, QuietPlace, Ahead, ForwardSteps, At
  <2>2. CASE p = <<"pre_forward", u + 1>>
    BY <1>1, <1>2, <1>6, <2>2 DEF PlaceOK, QuietPlace, Ahead, ForwardSteps, At, Hosts, Units
  <2>3. CASE p = <<"pre_backward", UnitCount>>
    <3>1. host[r].ahead.forward = {}
      BY <1>1, <1>2, <2>3, UnitCountAssumption DEF PlaceOK, ForwardSteps, At, Hosts, Units
    <3> QED
      BY <1>1, <1>2, <1>6, <2>3, <3>1 DEF PlaceOK, QuietPlace, Ahead, ForwardSteps, At
  <2> QED
    BY <2>1, <2>2, <2>3
<1> QED
  BY <1>2, <1>3, <1>5, <1>6, <1>7, QuietStep DEF Ahead, QueueOK

-----------------------------------------------------------------------------
(* Backward *)

LEMMA PreBackwardKeeps ==
  ASSUME PrefetchInv, NEW r \in Ranks, NEW u \in Units, PreBackward(r, u)
  PROVE  PrefetchInv'
<1> DEFINE h == [host[r] EXCEPT !.at = <<"wait_backward", u>>,
                                !.unit[u] = InFlightFrom(@, "resharded")]
<1>1. host[r] \in Hosts /\ PlaceOK(host[r]) /\ QueueOK(r) /\ host[r].at = <<"pre_backward", u>>
  BY DEF PrefetchInv, Typed, RankOK, PreBackward, At
<1>2. host' = [host EXCEPT ![r] = h] /\ policy' = policy
  BY DEF PreBackward, PrefetchInv, Typed
<1>3. h \in Hosts
  BY <1>1 DEF Hosts, Places, BackwardSteps, InFlightFrom, States
<1>4. /\ h.at = <<"wait_backward", u>>
      /\ h.unit = [host[r].unit EXCEPT ![u] = InFlightFrom(@, "resharded")]
      /\ h.pending = host[r].pending
      /\ h.ahead = host[r].ahead
  BY <1>1 DEF Hosts
<1> HIDE DEF h
<1>5. PlaceOK(h)
  BY <1>1, <1>3, <1>4 DEF PlaceOK, QuietPlace, Ahead, ForwardSteps, Hosts, InFlightFrom
<1>6. CASE host[r].unit[u] = "resharded"
  <2>1. Gather(r, u)
    BY <1>6 DEF PreBackward, Unshard
  <2>2. h.unit = [host[r].unit EXCEPT ![u] = "inflight"]
    BY <1>1, <1>4, <1>6 DEF InFlightFrom, Hosts
  <2>3. u \notin Ahead(host[r])
    BY <1>1, <1>6 DEF PlaceOK
  <2> QED
    BY <1>2, <1>3, <1>4, <1>5, <2>1, <2>2, <2>3, GatherStep DEF Ahead
<1>7. CASE host[r].unit[u] # "resharded"
  <2>1. queue' = queue
    BY <1>7 DEF PreBackward, Unshard
  <2>2. h.unit = host[r].unit
    BY <1>1, <1>4, <1>7 DEF InFlightFrom, Hosts
  <2> QED
    BY <1>1, <1>2, <1>3, <1>4, <1>5, <2>1, <2>2, QuietStep DEF QueueOK, Ahead
<1> QED
  BY <1>6, <1>7

LEMMA CursorTyped ==
  ASSUME NEW r \in Ranks, NEW u \in Units, host[r] \in Hosts
  PROVE  Cursor(r, u) \in Int
BY DEF Cursor, Hosts

LEMMA WaitBackwardKeeps ==
  ASSUME PrefetchInv, NEW r \in Ranks, NEW u \in Units, WaitBackward(r, u)
  PROVE  PrefetchInv'
<1>1. host[r] \in Hosts /\ PlaceOK(host[r]) /\ QueueOK(r) /\ host[r].at = <<"wait_backward", u>>
  BY DEF PrefetchInv, Typed, RankOK, WaitBackward, At
<1>2. PICK place \in {<<"fill_backward", u>>, <<"post_backward", u>>}, next \in Int :
        host' = [host EXCEPT ![r].at = place,
                             ![r].unit[u] = "full",
                             ![r].ahead.backward = @ \ {u},
                             ![r].next.backward = next]
  <2>1. Cursor(r, u) \in Int /\ host[r].next.backward \in Int
    BY <1>1, CursorTyped DEF Hosts
  <2>2. CASE policy.timing = "pre_backward"
    BY <2>1, <2>2 DEF WaitBackward
  <2>3. CASE policy.timing # "pre_backward"
    BY <1>1, <2>1, <2>3 DEF WaitBackward, PrefetchInv, Typed
  <2> QED
    BY <2>2, <2>3
<1> DEFINE h == [host[r] EXCEPT !.at = place,
                                !.unit[u] = "full",
                                !.ahead.backward = @ \ {u},
                                !.next.backward = next]
<1>3. host' = [host EXCEPT ![r] = h] /\ policy' = policy /\ queue' = queue
  <2>1. host \in [Ranks -> Hosts]
    BY DEF PrefetchInv, Typed
  <2>2. host' = [host EXCEPT ![r] = h]
    BY <1>2, <2>1
  <2> QED
    BY <2>2 DEF WaitBackward
<1>4. h \in Hosts
  <2>1. place \in Places
    BY DEF Places, BackwardSteps
  <2>2. [host[r].unit EXCEPT ![u] = "full"] \in [Units -> States]
    BY <1>1 DEF Hosts, States
  <2>3. [host[r].ahead EXCEPT !.backward = @ \ {u}]
          \in [forward : SUBSET Units, backward : SUBSET Units]
    BY <1>1 DEF Hosts
  <2>4. [host[r].next EXCEPT !.backward = next] \in [forward : Int, backward : Int]
    BY <1>1 DEF Hosts
  <2> QED
    BY <1>1, <2>1, <2>2, <2>3, <2>4 DEF Hosts
<1>5. /\ h.at = place
      /\ h.unit = [host[r].unit EXCEPT ![u] = "full"]
      /\ h.pending = host[r].pending
      /\ h.ahead.forward = host[r].ahead.forward
      /\ h.ahead.backward = host[r].ahead.backward \ {u}
  BY <1>1 DEF Hosts
<1> HIDE DEF h
<1>6. host[r].ahead.forward = {}
  BY <1>1 DEF PlaceOK, ForwardSteps
<1>7. Ahead(h) = Ahead(host[r]) \ {u} /\ Ahead(host[r]) \subseteq Units
  BY <1>1, <1>5, <1>6 DEF Ahead, Hosts
<1>8. PlaceOK(h)
  <2>1. h.unit[u] = "full" /\ \A v \in Units \ {u} : h.unit[v] = host[r].unit[v]
    BY <1>1, <1>5 DEF Hosts
  <2>2. h.at[2] = u /\ h.at[1] \in {"fill_backward", "post_backward"} /\ ~QuietPlace(h.at)
    BY <1>5 DEF QuietPlace, ForwardSteps
  <2> QED
    BY <1>1, <1>5, <1>6, <1>7, <2>1, <2>2 DEF PlaceOK
<1>9. \A v \in Units : Queued(r, <<"gather", v>>) => h.unit[v] = "inflight"
  BY <1>1, <1>5 DEF QueueOK, WaitBackward, Gathered, Hosts
<1> QED
  BY <1>3, <1>4, <1>5, <1>7, <1>8, <1>9, QuietStep

LEMMA PrefetchBackwardKeeps ==
  ASSUME PrefetchInv, NEW r \in Ranks, NEW u \in Units, PrefetchBackward(r, u)
  PROVE  PrefetchInv'
<1> DEFINE next == host[r].order[host[r].next.backward]
           h == [host[r] EXCEPT !.unit[next] = "inflight",
                                !.ahead.backward = @ \cup {next},
                                !.next.backward = @ - 1,
                                !.issued = TRUE]
<1>1. /\ host[r] \in Hosts /\ PlaceOK(host[r]) /\ QueueOK(r)
      /\ host[r].at \in {<<"fill_backward", u>>, <<"fill_reshard", u>>}
  BY DEF PrefetchInv, Typed, RankOK, PrefetchBackward, InBackwardWindow, At
<1>2. host[r].unit[next] = "resharded" /\ (policy.overlap \/ host[r].pending = <<>>)
  BY DEF PrefetchBackward, MayPrefetchBackward, Pending
<1>3. next \in Units
  <2>1. host[r].next.backward \in 1 .. Len(host[r].order)
    BY <1>1 DEF PrefetchBackward, MayPrefetchBackward, MayTryBackward, RanBefore, Hosts
  <2> QED
    BY <1>1, <2>1 DEF Hosts
<1>4. host' = [host EXCEPT ![r] = h] /\ policy' = policy /\ Gather(r, next)
  BY DEF PrefetchBackward, PrefetchInv, Typed
<1>5. h \in Hosts
  <2>1. [host[r].unit EXCEPT ![next] = "inflight"] \in [Units -> States]
    BY <1>1 DEF Hosts, States
  <2>2. [host[r].ahead EXCEPT !.backward = @ \cup {next}]
          \in [forward : SUBSET Units, backward : SUBSET Units]
    BY <1>1, <1>3 DEF Hosts
  <2>3. [host[r].next EXCEPT !.backward = @ - 1] \in [forward : Int, backward : Int]
    BY <1>1 DEF Hosts
  <2> QED
    BY <1>1, <2>1, <2>2, <2>3 DEF Hosts
<1>6. /\ h.at = host[r].at
      /\ h.unit = [host[r].unit EXCEPT ![next] = "inflight"]
      /\ h.pending = host[r].pending
      /\ h.ahead.forward = host[r].ahead.forward
      /\ h.ahead.backward = host[r].ahead.backward \cup {next}
  BY <1>1 DEF Hosts
<1> HIDE DEF h, next
<1>7. Ahead(h) = Ahead(host[r]) \cup {next} /\ Ahead(host[r]) \subseteq Units
  BY <1>1, <1>6 DEF Ahead, Hosts
<1>8. h.unit[next] = "inflight" /\ \A v \in Units \ {next} : h.unit[v] = host[r].unit[v]
  BY <1>1, <1>3, <1>6 DEF Hosts
<1>9. PlaceOK(h)
  <2>1. CASE host[r].at = <<"fill_backward", u>>
    BY <1>1, <1>2, <1>6, <1>7, <1>8, <2>1 DEF PlaceOK
  <2>2. CASE host[r].at = <<"fill_reshard", u>>
    BY <1>1, <1>2, <1>6, <1>7, <1>8, <2>2 DEF PlaceOK
  <2> QED
    BY <1>1, <2>1, <2>2
<1> QED
  BY <1>2, <1>3, <1>4, <1>5, <1>6, <1>7, <1>9, GatherStep

LEMMA WaitForReducesKeeps ==
  ASSUME PrefetchInv, NEW r \in Ranks, NEW u \in Units, WaitForReduces(r, u)
  PROVE  PrefetchInv'
<1> DEFINE h == [host[r] EXCEPT !.pending = <<>>]
<1>1. host[r] \in Hosts /\ PlaceOK(host[r]) /\ QueueOK(r)
  BY DEF PrefetchInv, Typed, RankOK
<1>2. /\ host' = [host EXCEPT ![r] = h] /\ policy' = policy /\ queue' = queue
      /\ \A v \in Units : Reduced(r, v)
  BY DEF WaitForReduces, PrefetchInv, Typed
<1>3. h \in Hosts
  <2>1. <<>> \in Seq(Units)
    OBVIOUS
  <2> QED
    BY <1>1, <2>1 DEF Hosts
<1>4. /\ h.at = host[r].at /\ h.unit = host[r].unit /\ h.ahead = host[r].ahead
      /\ h.pending = <<>>
  BY <1>1 DEF Hosts
<1> HIDE DEF h
<1>5. PlaceOK(h)
  BY <1>1, <1>4 DEF PlaceOK, Ahead
<1> QED
  BY <1>1, <1>2, <1>3, <1>4, <1>5, QuietStep DEF Ahead, QueueOK

\* A step that only goes on to another place, where nothing new is asked.
LEMMA MoveStep ==
  ASSUME PrefetchInv, policy' = policy, queue' = queue, NEW r \in Ranks,
         NEW h \in Hosts, host' = [host EXCEPT ![r] = h], PlaceOK(h),
         h.unit = host[r].unit, Ahead(h) \subseteq Ahead(host[r]),
         h.pending = host[r].pending \/ \A v \in Units : Reduced(r, v)
  PROVE  PrefetchInv'
<1>1. QueueOK(r)
  BY DEF PrefetchInv, RankOK
<1> QED
  BY <1>1, QuietStep DEF QueueOK

\* After the backward of a unit comes that of the unit before, or the end.
LEMMA AfterBackwardPlace ==
  ASSUME NEW u \in Units
  PROVE  /\ AfterBackward(u) \in Places
         /\ AfterBackward(u)[1] \in {"pre_backward", "end"}
         /\ QuietPlace(AfterBackward(u)) => u = 1
BY UnitCountAssumption DEF AfterBackward, Places, BackwardSteps, QuietPlace,
                           ForwardSteps, Units

LEMMA LeaveBackwardWindowKeeps ==
  ASSUME PrefetchInv, NEW r \in Ranks, NEW u \in Units, LeaveBackwardWindow(r, u)
  PROVE  PrefetchInv'
<1>1. PICK p \in {<<"post_backward", u>>, AfterBackward(u)} :
        /\ host' = [host EXCEPT ![r].at = p]
        /\ \/ p = <<"post_backward", u>> /\ host[r].at = <<"fill_backward", u>>
           \/ p = AfterBackward(u) /\ host[r].at = <<"fill_reshard", u>>
  BY DEF LeaveBackwardWindow, At
<1> DEFINE h == [host[r] EXCEPT !.at = p]
<1>2. host[r] \in Hosts /\ PlaceOK(host[r]) /\ QueueOK(r)
  BY DEF PrefetchInv, Typed, RankOK
<1>3. host' = [host EXCEPT ![r] = h] /\ policy' = policy /\ queue' = queue
  BY <1>1 DEF LeaveBackwardWindow, PrefetchInv, Typed
<1>4. h \in Hosts
  <2>1. p \in Places
    BY <1>1, AfterBackwardPlace DEF Places, BackwardSteps
  <2> QED
    BY <1>2, <2>1 DEF Hosts
<1>5. /\ h.at = p /\ h.unit = host[r].unit /\ h.pending = host[r].pending
      /\ h.ahead = host[r].ahead
  BY <1>2 DEF Hosts
<1> HIDE DEF h
<1>6. host[r].ahead.forward = {}
  BY <1>1, <1>2 DEF PlaceOK, ForwardSteps
<1>7. CASE p = <<"post_backward", u>> /\ host[r].at = <<"fill_backward", u>>
  <2>1. PlaceOK(h)
    BY <1>2, <1>5, <1>6, <1>7 DEF PlaceOK, Ahead, QuietPlace, ForwardSteps
  <2> QED
    BY <1>3, <1>4, <1>5, <2>1, MoveStep DEF Ahead
<1>8. CASE p = AfterBackward(u) /\ host[r].at = <<"fill_reshard", u>>
  <2>1. PlaceOK(h)
    BY <1>2, <1>5, <1>6, <1>8, AfterBackwardPlace DEF PlaceOK, Ahead, QuietPlace
  <2> QED
    BY <1>3, <1>4, <1>5, <2>1, MoveStep DEF Ahead
<1> QED
  BY <1>1, <1>7, <1>8

LEMMA PostBackwardKeeps ==
  ASSUME PrefetchInv, NEW r \in Ranks, NEW u \in Units, PostBackward(r, u)
  PROVE  PrefetchInv'
<1> DEFINE h == [host[r] EXCEPT !.at = <<"reduce", u>>, !.unit[u] = "sharded"]
<1>1. host[r] \in Hosts /\ PlaceOK(host[r]) /\ QueueOK(r) /\ host[r].at = <<"post_backward", u>>
  BY DEF PrefetchInv, Typed, RankOK, PostBackward, At
<1>2. host' = [host EXCEPT ![r] = h] /\ policy' = policy /\ queue' = queue
  BY DEF PostBackward, PrefetchInv, Typed
<1>3. h \in Hosts
  BY <1>1 DEF Hosts, Places, BackwardSteps, States
<1>4. /\ h.at = <<"reduce", u>>
      /\ h.unit = [host[r].unit EXCEPT ![u] = "sharded"]
      /\ h.pending = host[r].pending
      /\ h.ahead = host[r].ahead
  BY <1>1 DEF Hosts
<1> HIDE DEF h
<1>5. host[r].unit[u] = "full" /\ u \notin Ahead(host[r]) /\ host[r].ahead.forward = {}
  BY <1>1 DEF PlaceOK, ForwardSteps
<1>6. PlaceOK(h)
  BY <1>1, <1>3, <1>4, <1>5 DEF PlaceOK, QuietPlace, Ahead, ForwardSteps, Hosts
<1>7. \A v \in Units : Queued(r, <<"gather", v>>) => h.unit[v] = "inflight"
  BY <1>1, <1>4, <1>5 DEF QueueOK, Hosts
<1> QED
  BY <1>2, <1>3, <1>4, <1>6, <1>7, QuietStep DEF Ahead

\* The reduces before_backward_reduce waits for are the first ones of the list.
LEMMA OldestComeFirst ==
  ASSUME NEW r \in Ranks, host[r] \in Hosts, policy.pending \in Nat
  PROVE  /\ Cardinality(Oldest(r)) \in 0 .. Len(host[r].pending)
         /\ \A i \in 1 .. Cardinality(Oldest(r)) : i \in Oldest(r)
<1> DEFINE n == Len(host[r].pending)
           excess == n - policy.pending + 1
<1>1. n \in Nat /\ DOMAIN host[r].pending = 1 .. n
  BY DEF Hosts
<1>2. Oldest(r) = {i \in 1 .. n : i <= excess}
  BY <1>1 DEF Oldest
<1>3. CASE excess <= 0
  <2>1. Oldest(r) = {}
    BY <1>1, <1>2, <1>3
  <2> QED
    BY <1>1, <2>1, FS_EmptySet
<1>4. CASE excess \in 1 .. n
  <2>1. Oldest(r) = 1 .. excess
    BY <1>1, <1>2, <1>4
  <2> HIDE DEF excess
  <2>2. Cardinality(1 .. excess) = excess
    BY <1>1, <1>4, FS_Interval
  <2> QED
    BY <1>1, <1>4, <2>1, <2>2
<1>5. CASE excess > n
  <2>1. Oldest(r) = 1 .. n
    BY <1>1, <1>2, <1>5
  <2>2. Cardinality(1 .. n) = n
    BY <1>1, FS_Interval
  <2> QED
    BY <1>1, <2>1, <2>2
<1> QED
  BY <1>1, <1>3, <1>4, <1>5

LEMMA StartReduceKeeps ==
  ASSUME PrefetchInv, NEW r \in Ranks, NEW u \in Units, StartReduce(r, u)
  PROVE  PrefetchInv'
<1> DEFINE unit == [v \in Units |-> IF v \in PrefetchesInFlight(r, u) THEN "full"
                                                        ELSE host[r].unit[v]]
           waited == Cardinality(Oldest(r))
           rest == SubSeq(host[r].pending, waited + 1, Len(host[r].pending))
           h == [host[r] EXCEPT !.at = <<"reduced", u>>, !.unit = unit,
                                !.pending = Append(rest, u)]
<1>1. host[r] \in Hosts /\ PlaceOK(host[r]) /\ QueueOK(r) /\ host[r].at = <<"reduce", u>>
  BY DEF PrefetchInv, Typed, RankOK, StartReduce, At
<1>2. host' = [host EXCEPT ![r] = h] /\ policy' = policy /\ Enters(r, <<"reduce", u>>)
  BY DEF StartReduce, PrefetchInv, Typed
<1>3. unit \in [Units -> States]
  BY <1>1 DEF Hosts, States
<1>4. /\ waited \in 0 .. Len(host[r].pending)
      /\ \A i \in 1 .. waited : Reduced(r, host[r].pending[i])
  <2>1. policy.pending \in Nat
    BY PoliciesAssumption DEF Policy, PrefetchInv, Typed
  <2> QED
    BY <1>1, <2>1, OldestComeFirst DEF StartReduce
<1>5. /\ rest \in Seq(Units)
      /\ Append(rest, u) \in Seq(Units)
      /\ In(u, Append(rest, u))
      /\ \A i \in waited + 1 .. Len(host[r].pending) :
           In(host[r].pending[i], Append(rest, u))
  <2> HIDE DEF waited
  <2>1. host[r].pending \in Seq(Units)
    BY <1>1 DEF Hosts
  <2>2. rest \in Seq(Units) /\ Len(rest) = Len(host[r].pending) - waited
        /\ \A j \in 1 .. Len(rest) : rest[j] = host[r].pending[waited + j]
    BY <1>4, <2>1
  <2> HIDE DEF rest
  <2>3. /\ Append(rest, u) \in Seq(Units)
        /\ DOMAIN Append(rest, u) = 1 .. Len(rest) + 1
        /\ Append(rest, u)[Len(rest) + 1] = u
        /\ \A j \in 1 .. Len(rest) : Append(rest, u)[j] = rest[j]
    BY <2>2
  <2>4. In(u, Append(rest, u))
    BY <2>2, <2>3 DEF In
  <2>5. ASSUME NEW i \in waited + 1 .. Len(host[r].pending)
        PROVE  In(host[r].pending[i], Append(rest, u))
    <3>1. i - waited \in 1 .. Len(rest) /\ rest[i - waited] = host[r].pending[i]
      BY <1>4, <2>1, <2>2
    <3> QED
      BY <2>2, <2>3, <3>1 DEF In
  <2> QED
    BY <2>2, <2>3, <2>4, <2>5
<1> HIDE DEF unit, waited, rest
<1>6. h \in Hosts
  <2>1. <<"reduced", u>> \in Places
    BY DEF Places, BackwardSteps
  <2> QED
    BY <1>1, <1>3, <1>5, <2>1 DEF Hosts
<1>7. /\ h.at = <<"reduced", u>> /\ h.unit = unit /\ h.pending = Append(rest, u)
      /\ h.ahead = host[r].ahead
  BY <1>1 DEF Hosts
<1> HIDE DEF h
<1>8. Ahead(h) = Ahead(host[r]) /\ Ahead(h) \subseteq Units
  BY <1>1, <1>7 DEF Ahead, Hosts
<1>9. PlaceOK(h)
  <2>1. host[r].ahead.forward = {}
    BY <1>1 DEF PlaceOK, ForwardSteps
  <2>2. \A v \in Ahead(h) : h.unit[v] \in {"inflight", "full"}
    BY <1>1, <1>7, <1>8 DEF PlaceOK, unit
  <2> QED
    BY <1>7, <2>1, <2>2 DEF PlaceOK, QuietPlace, ForwardSteps
<1>10. \A w \in Units : <<"gather", w>> \in Operations /\ <<"reduce", w>> \in Operations
  BY DEF Operations
<1>11. /\ queue' \in [Ranks -> [Lanes -> Seq(Operations)]]
       /\ \A s \in Ranks, o \in Operations :
            Queued(s, o)' => Queued(s, o) \/ (s = r /\ o = <<"reduce", u>>)
  BY <1>2, <1>10, EntersQueues DEF PrefetchInv
<1>12. \A w \in Units : Queued(r, <<"reduce", w>>)' => In(w, h.pending)
  <2> SUFFICES ASSUME NEW w \in Units, Queued(r, <<"reduce", w>>)', w # u
               PROVE  In(w, h.pending)
    BY <1>5, <1>7
  <2>1. Queued(r, <<"reduce", w>>)
    BY <1>10, <1>11
  <2>2. PICK i \in DOMAIN host[r].pending : host[r].pending[i] = w
    BY <1>1, <2>1 DEF QueueOK, In
  <2>3. i \in waited + 1 .. Len(host[r].pending)
    BY <1>1, <1>4, <2>1, <2>2 DEF Reduced, Hosts
  <2> QED
    BY <1>5, <1>7, <2>2, <2>3
\* Every gather still queued is of a unit that nothing gathered ahead.
<1>13. \A w \in Units : Queued(r, <<"gather", w>>)' =>
         h.unit[w] = "inflight" /\ w \notin Ahead(h)
  <2> SUFFICES ASSUME NEW w \in Units, Queued(r, <<"gather", w>>)'
               PROVE  h.unit[w] = "inflight" /\ w \notin Ahead(h)
    OBVIOUS
  <2>1. Queued(r, <<"gather", w>>) /\ host[r].unit[w] = "inflight"
    BY <1>1, <1>10, <1>11 DEF QueueOK
  <2>2. w # u
    BY <1>1, <2>1 DEF PlaceOK
  <2>3. w \notin PrefetchesInFlight(r, u)
    BY <2>1 DEF StartReduce, Gathered
  <2> QED
    BY <1>7, <1>8, <2>1, <2>2, <2>3 DEF PrefetchesInFlight, unit, Ahead
<1>14. QueueOK(r)'
  <2>1. host'[r] = h
    BY <1>2 DEF PrefetchInv, Typed
  <2> QED
    BY <1>8, <1>12, <1>13, <2>1 DEF QueueOK, Ahead, In
<1> QED
  BY <1>2, <1>6, <1>9, <1>11, <1>14, RankStep

LEMMA EndReduceKeeps ==
  ASSUME PrefetchInv, NEW r \in Ranks, NEW u \in Units, EndReduce(r, u)
  PROVE  PrefetchInv'
<1>1. host[r] \in Hosts /\ PlaceOK(host[r]) /\ QueueOK(r) /\ host[r].at = <<"reduced", u>>
  BY DEF PrefetchInv, Typed, RankOK, EndReduce, At
<1> DEFINE pending == IF WaitsForAll(u) THEN <<>> ELSE host[r].pending
<1>2. PICK place \in {<<"fill_reshard", u>>, AfterBackward(u)}, next \in Int :
        host' = [host EXCEPT ![r].at = place,
                             ![r].pending = pending,
                             ![r].next.backward = next]
  <2>1. Cursor(r, u) \in Int /\ host[r].next.backward \in Int
    BY <1>1, CursorTyped DEF Hosts
  <2>2. CASE policy.timing = "post_reshard"
    BY <2>1, <2>2 DEF EndReduce
  <2>3. CASE policy.timing # "post_reshard"
    BY <1>1, <2>1, <2>3 DEF EndReduce, PrefetchInv, Typed
  <2> QED
    BY <2>2, <2>3
<1>3. pending \in Seq(Units)
  BY <1>1 DEF Hosts
<1>4. u = 1 => pending = <<>>
  BY DEF WaitsForAll
<1>5. pending = host[r].pending \/ \A v \in Units : Reduced(r, v)
  BY DEF EndReduce
<1> HIDE DEF pending
<1> DEFINE h == [host[r] EXCEPT !.at = place, !.pending = pending,
                                !.next.backward = next]
<1>6. host' = [host EXCEPT ![r] = h] /\ policy' = policy /\ queue' = queue
  <2>1. host \in [Ranks -> Hosts]
    BY DEF PrefetchInv, Typed
  <2>2. host' = [host EXCEPT ![r] = h]
    BY <1>2, <2>1
  <2> QED
    BY <2>2 DEF EndReduce
<1>7. h \in Hosts
  <2>1. place \in Places
    BY AfterBackwardPlace DEF Places, BackwardSteps
  <2>2. [host[r].next EXCEPT !.backward = next] \in [forward : Int, backward : Int]
    BY <1>1 DEF Hosts
  <2> QED
    BY <1>1, <1>3, <2>1, <2>2 DEF Hosts
<1>8. h.at = place /\ h.unit = host[r].unit /\ h.pending = pending /\ h.ahead = host[r].ahead
  BY <1>1 DEF Hosts
<1> HIDE DEF h
<1>9. host[r].ahead.forward = {}
  BY <1>1 DEF PlaceOK, ForwardSteps
<1>10. PlaceOK(h)
  <2>1. place[1] \in {"fill_reshard", "pre_backward", "end"}
        /\ (QuietPlace(place) => u = 1)
    BY AfterBackwardPlace DEF QuietPlace, ForwardSteps
  <2> QED
    BY <1>1, <1>4, <1>8, <1>9, <2>1 DEF PlaceOK, Ahead
<1> QED
  BY <1>5, <1>6, <1>7, <1>8, <1>10, MoveStep DEF Ahead

-----------------------------------------------------------------------------
(* Between passes *)

LEMMA NextPassKeeps ==
  ASSUME PrefetchInv, NEW r \in Ranks, NextPass(r)
  PROVE  PrefetchInv'
<1> DEFINE h == [host[r] EXCEPT !.at = <<"pre_forward", 1>>, !.pass = @ + 1]
<1>1. host[r] \in Hosts /\ PlaceOK(host[r]) /\ QueueOK(r) /\ host[r].at = <<"end", 1>>
  BY DEF PrefetchInv, Typed, RankOK, NextPass, At
<1>2. host' = [host EXCEPT ![r] = h] /\ policy' = policy /\ queue' = queue
  BY DEF NextPass, PrefetchInv, Typed
<1>3. h \in Hosts
  <2>1. <<"pre_forward", 1>> \in Places
    BY UnitCountAssumption DEF Places, ForwardSteps, Units
  <2>2. host[r].pass + 1 \in Nat
    BY <1>1 DEF Hosts
  <2> QED
    BY <1>1, <2>1, <2>2 DEF Hosts
<1>4. /\ h.at = <<"pre_forward", 1>> /\ h.unit = host[r].unit
      /\ h.pending = host[r].pending /\ h.ahead = host[r].ahead
  BY <1>1 DEF Hosts
<1> HIDE DEF h
<1>5. host[r].ahead.forward = {} /\ host[r].pending = <<>>
  BY <1>1 DEF PlaceOK, QuietPlace, ForwardSteps
<1>6. PlaceOK(h)
  BY <1>1, <1>4, <1>5 DEF PlaceOK, Ahead
<1> QED
  BY <1>2, <1>3, <1>4, <1>6, MoveStep DEF Ahead

\* What a step leaves: the units as they are, nothing ahead, nothing pending.
LEMMA FinishedOK ==
  ASSUME NEW h \in Hosts, h.pending = <<>>
  PROVE  /\ Finished(h) \in Hosts /\ PlaceOK(Finished(h))
         /\ Finished(h).unit = h.unit /\ Ahead(Finished(h)) = {}
         /\ Finished(h).pending = <<>>
<1>1. <<"pre_forward", 1>> \in Places
  BY UnitCountAssumption DEF Places, ForwardSteps, Units
<1>2. <<>> \in Seq(Units)
  OBVIOUS
<1>3. Finished(h) = [Host EXCEPT !.unit = h.unit, !.pending = <<>>]
  BY DEF Finished
<1>4. Finished(h) \in Hosts
  <2>1. Host.next \in [forward : Int, backward : Int]
        /\ Host.ahead \in [forward : SUBSET Units, backward : SUBSET Units]
    BY DEF Host, Unset
  <2>2. h.unit \in [Units -> States]
    BY DEF Hosts
  <2>3. Finished(h) = [at |-> <<"pre_forward", 1>>, unit |-> h.unit,
                       ahead |-> Host.ahead, order |-> <<>>, next |-> Host.next,
                       issued |-> FALSE, pending |-> <<>>, pass |-> 1]
    BY <1>3 DEF Host
  <2> QED
    BY <1>1, <1>2, <2>1, <2>2, <2>3 DEF Hosts
<1>5. /\ Finished(h).at = <<"pre_forward", 1>> /\ Finished(h).unit = h.unit
      /\ Finished(h).pending = <<>>
      /\ Finished(h).ahead.forward = {} /\ Finished(h).ahead.backward = {}
  BY <1>3 DEF Host
<1>6. Ahead(Finished(h)) = {}
  BY <1>5 DEF Ahead
<1> QED
  BY <1>4, <1>5, <1>6 DEF PlaceOK

LEMMA FinishKeeps ==
  ASSUME PrefetchInv, NEW r \in Ranks, Finish(r)
  PROVE  PrefetchInv'
<1>1. host[r] \in Hosts /\ PlaceOK(host[r]) /\ QueueOK(r) /\ host[r].at = <<"end", 1>>
  BY DEF PrefetchInv, Typed, RankOK, Finish, At
<1>2. \A v \in Units : Reduced(r, v)
  BY DEF Finish
<1>3. host[r].pending = <<>> /\ host[r].ahead.forward = {}
  BY <1>1 DEF PlaceOK, QuietPlace, ForwardSteps
<1>4. CASE host[r].issued
  <2> DEFINE h == [host[r] EXCEPT !.at = <<"barrier", 0>>, !.issued = FALSE,
                                  !.pending = <<>>]
  <2>1. /\ host' = [host EXCEPT ![r] = h] /\ policy' = policy
        /\ Enters(r, <<"barrier", 0>>)
    BY <1>4 DEF Finish, PrefetchInv, Typed
  <2>2. h \in Hosts
    BY <1>1, <1>3 DEF Hosts, Places
  <2>3. /\ h.at = <<"barrier", 0>> /\ h.unit = host[r].unit
        /\ h.pending = host[r].pending /\ h.ahead = host[r].ahead
    BY <1>1, <1>3 DEF Hosts
  <2> HIDE DEF h
  <2>4. PlaceOK(h)
    BY <1>1, <1>3, <2>3 DEF PlaceOK, Ahead
  <2>5. <<"barrier", 0>> \in Operations
        /\ \A v \in Units : /\ <<"gather", v>> \in Operations
                            /\ <<"reduce", v>> \in Operations
                            /\ <<"gather", v>> # <<"barrier", 0>>
                            /\ <<"reduce", v>> # <<"barrier", 0>>
    BY DEF Operations
  <2>6. /\ queue' \in [Ranks -> [Lanes -> Seq(Operations)]]
        /\ \A s \in Ranks, o \in Operations :
             Queued(s, o)' => Queued(s, o) \/ (s = r /\ o = <<"barrier", 0>>)
    BY <2>1, <2>5, EntersQueues DEF PrefetchInv
  <2>7. host'[r] = h /\ Ahead(h) \subseteq Units /\ Ahead(h) = Ahead(host[r])
    BY <1>1, <2>1, <2>3 DEF PrefetchInv, Typed, Ahead, Hosts
  <2>8. \A v \in Units : /\ Queued(r, <<"gather", v>>)' => Queued(r, <<"gather", v>>)
                         /\ Queued(r, <<"reduce", v>>)' => Queued(r, <<"reduce", v>>)
    BY <2>5, <2>6
  <2>9. QueueOK(r)'
    <3>1. \A v \in Units : Queued(r, <<"reduce", v>>)' => In(v, h.pending)
      BY <1>1, <2>3, <2>8 DEF QueueOK
    <3>2. \A v \in Units : Queued(r, <<"gather", v>>)' => h.unit[v] = "inflight"
      BY <1>1, <2>3, <2>8 DEF QueueOK
    <3>3. policy.overlap \/ \A v \in Ahead(h), w \in Units :
            ~(Queued(r, <<"gather", v>>)' /\ Queued(r, <<"reduce", w>>)')
      BY <1>1, <2>7, <2>8 DEF QueueOK
    <3> QED
      BY <2>1, <2>7, <3>1, <3>2, <3>3 DEF QueueOK, Ahead, In
  <2> QED
    BY <2>1, <2>2, <2>4, <2>6, <2>9, RankStep
<1>5. CASE ~host[r].issued
  <2>1. [host[r] EXCEPT !.pending = <<>>] = host[r]
    BY <1>1, <1>3 DEF Hosts
  <2>2. /\ host' = [host EXCEPT ![r] = Finished(host[r])]
        /\ policy' = policy /\ queue' = queue
    BY <1>5, <2>1 DEF Finish
  <2> QED
    BY <1>1, <1>3, <2>2, FinishedOK, MoveStep
<1> QED
  BY <1>4, <1>5

LEMMA LeaveBarrierKeeps ==
  ASSUME PrefetchInv, NEW r \in Ranks, LeaveBarrier(r)
  PROVE  PrefetchInv'
<1>1. host[r] \in Hosts /\ PlaceOK(host[r]) /\ host[r].at = <<"barrier", 0>>
  BY DEF PrefetchInv, Typed, RankOK, LeaveBarrier, At
<1>2. host[r].pending = <<>>
  BY <1>1 DEF PlaceOK, QuietPlace
<1>3. /\ host' = [host EXCEPT ![r] = Finished(host[r])]
      /\ policy' = policy /\ queue' = queue
  BY DEF LeaveBarrier
<1> QED
  BY <1>1, <1>2, <1>3, FinishedOK, MoveStep

-----------------------------------------------------------------------------
(* Every step *)

LEMMA HostStepKeeps ==
  ASSUME PrefetchInv, NEW r \in Ranks, HostStep(r)
  PROVE  PrefetchInv'
<1>1. ASSUME NEW u \in Units,
             \/ PreForward(r, u) \/ WaitForward(r, u) \/ PostForward(r, u)
             \/ PrefetchForward(r, u) \/ LeaveForwardWindow(r, u)
      PROVE  PrefetchInv'
  BY <1>1, PreForwardKeeps, WaitForwardKeeps, PostForwardKeeps,
     PrefetchForwardKeeps, LeaveForwardWindowKeeps
<1>2. ASSUME NEW u \in Units,
             \/ PreBackward(r, u) \/ WaitBackward(r, u) \/ PostBackward(r, u)
             \/ PrefetchBackward(r, u) \/ WaitForReduces(r, u)
             \/ LeaveBackwardWindow(r, u)
             \/ StartReduce(r, u) \/ EndReduce(r, u)
      PROVE  PrefetchInv'
  BY <1>2, PreBackwardKeeps, WaitBackwardKeeps, PostBackwardKeeps,
     PrefetchBackwardKeeps, WaitForReducesKeeps, LeaveBackwardWindowKeeps,
     StartReduceKeeps, EndReduceKeeps
<1>3. CASE NextPass(r) \/ Finish(r) \/ LeaveBarrier(r)
  BY <1>3, NextPassKeeps, FinishKeeps, LeaveBarrierKeeps
<1> QED
  BY <1>1, <1>2, <1>3 DEF HostStep

\* Nothing but the queues changes, and they only lose collectives.
LEMMA ShrinkingQueuesKeep ==
  ASSUME PrefetchInv, policy' = policy, host' = host,
         queue' \in [Ranks -> [Lanes -> Seq(Operations)]],
         \A s \in Ranks, o \in Operations : Queued(s, o)' => Queued(s, o)
  PROVE  PrefetchInv'
<1>1. Typed'
  BY DEF PrefetchInv, Typed
<1>2. ASSUME NEW s \in Ranks
      PROVE  RankOK(s)'
  <2>1. host[s] \in Hosts /\ RankOK(s)
    BY DEF PrefetchInv, Typed
  <2> QED
    BY <2>1, OtherRanksKeep
<1> QED
  BY <1>1, <1>2 DEF PrefetchInv

LEMMA NextKeepsPrefetchInv == PrefetchInv /\ [Next]_vars => PrefetchInv'
<1> SUFFICES ASSUME PrefetchInv, [Next]_vars PROVE PrefetchInv'
  OBVIOUS
<1>1. ASSUME NEW r \in Ranks, HostStep(r)
      PROVE  PrefetchInv'
  BY <1>1, HostStepKeeps
<1>2. ASSUME queue' = queue, host' = host, policy' = policy
      PROVE  PrefetchInv'
  <2>1. \A s \in Ranks, o \in Operations : Queued(s, o)' => Queued(s, o)
    BY <1>2 DEF Queued, In, Lane
  <2> QED
    BY <1>2, <2>1, ShrinkingQueuesKeep DEF PrefetchInv, Typed
<1>3. ASSUME NEW r \in Ranks, GpuDone(r)
      PROVE  PrefetchInv'
  BY <1>2, <1>3 DEF GpuDone
<1>4. ASSUME NEW l \in Lanes, Deliver(l)
      PROVE  PrefetchInv'
  BY <1>4, DeliverQueues, ShrinkingQueuesKeep DEF PrefetchInv, Deliver
<1>5. CASE UNCHANGED vars
  BY <1>2, <1>5 DEF vars
<1> QED
  BY <1>1, <1>3, <1>4, <1>5 DEF Next

LEMMA InitPrefetchInv == Init => PrefetchInv
<1> SUFFICES ASSUME Init PROVE PrefetchInv
  OBVIOUS
<1>1. <<"pre_forward", 1>> \in Places /\ <<>> \in Seq(Units) /\ <<>> \in Seq(Operations)
  BY UnitCountAssumption DEF Places, ForwardSteps, Units
<1>2. Host \in Hosts
  BY <1>1 DEF Host, Hosts, States, Unset
<1>3. Typed
  BY <1>1, <1>2 DEF Init, Typed
<1>4. PlaceOK(Host)
  BY DEF PlaceOK, Host, Ahead
<1>5. ASSUME NEW r \in Ranks
      PROVE  RankOK(r)
  <2>1. \A o \in Operations : ~Queued(r, o)
    BY LaneTyped DEF Init, Queued, In
  <2>2. \A v \in Units : <<"gather", v>> \in Operations /\ <<"reduce", v>> \in Operations
    BY DEF Operations
  <2>3. host[r] = Host /\ Ahead(Host) = {}
    BY DEF Init, Host, Ahead
  <2> QED
    BY <1>4, <2>1, <2>2, <2>3 DEF RankOK, QueueOK
<1> QED
  BY <1>3, <1>5 DEF PrefetchInv

-----------------------------------------------------------------------------
(* The theorem *)

\* Whatever the policy, the number of units and of ranks: a gather entered
\* ahead of its use and a reduce are both in flight on a rank only if the
\* policy says they may be.  The window of scheduler.py holds back while a
\* reduce is pending, and _wait_inflight_ordered_owner_prefetches_before_reduce
\* waits for the gathers; no other step enters a gather of a unit ahead.
THEOREM OwnerPrefetchesNeverOverlap == Spec => []PrefetchesNeverOverlapReduces
<1>1. PrefetchInv => PrefetchesNeverOverlapReduces
  <2> SUFFICES ASSUME PrefetchInv, ~policy.overlap, NEW r \in Ranks,
                      NEW u \in Ahead(host[r]), ~Gathered(r, u),
                      NEW w \in Units
               PROVE  Reduced(r, w)
    BY DEF PrefetchesNeverOverlapReduces, Ahead
  <2> QED
    BY DEF PrefetchInv, RankOK, QueueOK, Gathered, Reduced
<1> QED
  BY <1>1, InitPrefetchInv, NextKeepsPrefetchInv, PTL DEF Spec

-----------------------------------------------------------------------------
(* Type correctness: the cursors stay inside the lists they point into,    *)
(* the recorded order ends, the pool keeps its limit.                      *)
(*                                                                         *)
(* What is not inductive by itself is the length of the recorded order: it *)
(* is, with the units the pass has still to run forward, at most one entry *)
(* per unit and pass.                                                      *)

\* The units this pass has still to run forward.
ToRun(at) ==
  IF at[1] \in ForwardSteps \ {"fill_after"} THEN UnitCount - at[2] + 1
  ELSE IF at[1] = "fill_after" THEN UnitCount - at[2]
  ELSE 0

CountsOK(h) ==
  /\ h.pass \in 1 .. policy.passes
  /\ Len(h.order) + ToRun(h.at) <= UnitCount * h.pass
  /\ h.next.forward \in 2 .. UnitCount + 1
  /\ h.next.backward \in Unset .. Len(h.order)

CountsInv == \A r \in Ranks : CountsOK(host[r])

PoolInv ==
  /\ pool \in [Ranks -> [draining : Nat, idle : Nat]]
  /\ \A r \in Ranks : pool[r].draining + pool[r].idle <= policy.cached

TypeInv == PrefetchInv /\ CountsInv /\ PoolInv

-----------------------------------------------------------------------------
(* The pool *)

LEMMA PolicyTyped ==
  ASSUME Typed
  PROVE  policy \in Policy
BY PoliciesAssumption DEF Typed

LEMMA GatherKeepsPool ==
  ASSUME Typed, PoolInv, NEW r \in Ranks, NEW u, Gather(r, u), policy' = policy
  PROVE  PoolInv'
<1>1. pool' = [pool EXCEPT ![r].idle = IF @ > 0 THEN @ - 1 ELSE 0]
  BY DEF Gather
<1>2. \A s \in Ranks : pool[s].draining \in Nat /\ pool[s].idle \in Nat
  BY DEF PoolInv
<1>3. pool' \in [Ranks -> [draining : Nat, idle : Nat]]
  BY <1>1, <1>2 DEF PoolInv
<1>4. ASSUME NEW s \in Ranks
      PROVE  pool'[s].draining + pool'[s].idle <= policy.cached
  <2>1. policy.cached \in Nat /\ pool[s].draining + pool[s].idle <= policy.cached
    BY PolicyTyped DEF Policy, PoolInv
  <2>2. pool'[s].draining = pool[s].draining
        /\ pool'[s].idle \in Nat /\ pool'[s].idle <= pool[s].idle
    BY <1>1, <1>2 DEF PoolInv
  <2> QED
    BY <1>2, <2>1, <2>2
<1> QED
  BY <1>3, <1>4 DEF PoolInv

LEMMA ReleaseKeepsPool ==
  ASSUME Typed, PoolInv, NEW r \in Ranks, Release(r), policy' = policy
  PROVE  PoolInv'
<1>1. policy.cached \in Nat
  BY PolicyTyped DEF Policy
<1>2. \A s \in Ranks : pool[s].draining \in Nat /\ pool[s].idle \in Nat
  BY DEF PoolInv
<1>3. CASE pool[r].draining + pool[r].idle < policy.cached
  <2>1. pool' = [pool EXCEPT ![r].draining = @ + 1]
    BY <1>3 DEF Release
  <2> QED
    BY <1>1, <1>2, <1>3, <2>1 DEF PoolInv
<1>4. CASE ~(pool[r].draining + pool[r].idle < policy.cached)
  BY <1>4 DEF Release, PoolInv
<1> QED
  BY <1>3, <1>4

LEMMA GpuDoneKeepsPool ==
  ASSUME PoolInv, NEW r \in Ranks, GpuDone(r)
  PROVE  PoolInv'
<1>1. /\ pool[r].draining > 0 /\ policy' = policy
      /\ pool' = [pool EXCEPT ![r].draining = @ - 1, ![r].idle = @ + 1]
  BY DEF GpuDone
<1>2. \A s \in Ranks : pool[s].draining \in Nat /\ pool[s].idle \in Nat
  BY DEF PoolInv
<1> QED
  BY <1>1, <1>2 DEF PoolInv

LEMMA HostStepKeepsPool ==
  ASSUME Typed, PoolInv, NEW r \in Ranks, HostStep(r)
  PROVE  PoolInv'
<1>1. policy' = policy
  BY DEF HostStep, PreForward, WaitForward, PostForward, PrefetchForward,
         LeaveForwardWindow, PreBackward, WaitBackward, PostBackward,
         PrefetchBackward, WaitForReduces, LeaveBackwardWindow, StartReduce,
         EndReduce, NextPass, Finish, LeaveBarrier
<1>2. ASSUME pool' = pool PROVE PoolInv'
  BY <1>1, <1>2 DEF PoolInv
<1>3. ASSUME NEW u \in Units, PreForward(r, u) \/ PreBackward(r, u)
      PROVE  PoolInv'
  BY <1>1, <1>2, <1>3, GatherKeepsPool DEF PreForward, PreBackward, Unshard
<1>4. ASSUME NEW u \in Units, PrefetchForward(r, u)
      PROVE  PoolInv'
  BY <1>1, <1>4, GatherKeepsPool DEF PrefetchForward
<1>5. ASSUME NEW u \in Units, PrefetchBackward(r, u)
      PROVE  PoolInv'
  BY <1>1, <1>5, GatherKeepsPool DEF PrefetchBackward
<1>6. ASSUME NEW u \in Units, PostForward(r, u) \/ PostBackward(r, u)
      PROVE  PoolInv'
  BY <1>1, <1>6, ReleaseKeepsPool DEF PostForward, PostBackward
<1>7. ASSUME NEW u \in Units,
             \/ WaitForward(r, u) \/ LeaveForwardWindow(r, u) \/ WaitBackward(r, u)
             \/ WaitForReduces(r, u) \/ LeaveBackwardWindow(r, u)
             \/ StartReduce(r, u) \/ EndReduce(r, u)
      PROVE  PoolInv'
  BY <1>2, <1>7 DEF WaitForward, LeaveForwardWindow, WaitBackward, WaitForReduces,
                    LeaveBackwardWindow, StartReduce, EndReduce
<1>8. CASE NextPass(r) \/ Finish(r) \/ LeaveBarrier(r)
  BY <1>2, <1>8 DEF NextPass, Finish, LeaveBarrier
<1> QED
  BY <1>3, <1>4, <1>5, <1>6, <1>7, <1>8 DEF HostStep

-----------------------------------------------------------------------------
(* The counters of a rank *)

\* A rank that keeps its counts, in a step that is that rank's own.
LEMMA CountsStep ==
  ASSUME CountsInv, policy' = policy, NEW r \in Ranks,
         \A s \in Ranks \ {r} : host'[s] = host[s],
         CountsOK(host'[r])
  PROVE  CountsInv'
BY DEF CountsInv, CountsOK, ToRun

\* What a step does to the counters of its rank, and to nobody else's: it ends
\* at a place with no more to run, in the same pass, its cursors in range.
Moves(r) ==
  /\ policy' = policy
  /\ \A s \in Ranks \ {r} : host'[s] = host[s]
  /\ host'[r].pass = host[r].pass
  /\ ToRun(host'[r].at) \in Nat
  /\ Len(host'[r].order) \in Nat
  /\ Len(host'[r].order) + ToRun(host'[r].at) <= Len(host[r].order) + ToRun(host[r].at)
  /\ host'[r].next.forward \in 2 .. UnitCount + 1
  /\ host'[r].next.backward \in Unset .. Len(host'[r].order)

LEMMA ToRunTyped ==
  ASSUME NEW at \in Places
  PROVE  ToRun(at) \in Nat
BY UnitCountAssumption DEF ToRun, Places, ForwardSteps, BackwardSteps, Units

LEMMA MovesKeepCounts ==
  ASSUME Typed, CountsInv, NEW r \in Ranks, Moves(r)
  PROVE  CountsInv'
<1>1. host[r] \in Hosts /\ host[r].order \in Seq(Units) /\ host[r].pass \in Nat
  BY DEF Typed, Hosts
<1>2. ToRun(host[r].at) \in Nat
  BY <1>1, ToRunTyped DEF Hosts
<1>3. CountsOK(host[r])
  BY DEF CountsInv
<1>4. UnitCount * host[r].pass \in Int
  BY <1>1, UnitCountAssumption
<1>5. Len(host'[r].order) + ToRun(host'[r].at) <= UnitCount * host'[r].pass
  BY <1>1, <1>2, <1>3, <1>4 DEF CountsOK, Moves
<1>6. CountsOK(host'[r])
  BY <1>3, <1>5 DEF CountsOK, Moves
<1> QED
  BY <1>6, CountsStep DEF Moves

LEMMA CountsTyped ==
  ASSUME Typed, CountsInv, NEW r \in Ranks
  PROVE  /\ host \in [Ranks -> Hosts] /\ host[r] \in Hosts
         /\ Len(host[r].order) \in Nat
         /\ host[r].next.forward \in 2 .. UnitCount + 1
         /\ host[r].next.backward \in Unset .. Len(host[r].order)
<1>1. host \in [Ranks -> Hosts] /\ host[r] \in Hosts
  BY DEF Typed
<1>2. host[r].order \in Seq(Units)
  BY <1>1 DEF Hosts
<1> QED
  BY <1>1, <1>2 DEF CountsInv, CountsOK

LEMMA ForwardMoves ==
  ASSUME Typed, CountsInv, NEW r \in Ranks, NEW u \in Units,
         \/ PreForward(r, u) \/ WaitForward(r, u) \/ PostForward(r, u)
         \/ PrefetchForward(r, u) \/ LeaveForwardWindow(r, u)
  PROVE  Moves(r)
<1> USE DEF Moves
<1>1. /\ host \in [Ranks -> Hosts] /\ host[r] \in Hosts
      /\ Len(host[r].order) \in Nat
      /\ host[r].next.forward \in 2 .. UnitCount + 1
      /\ host[r].next.backward \in Unset .. Len(host[r].order)
      /\ u \in 1 .. UnitCount /\ UnitCount \in Nat
  BY CountsTyped, UnitCountAssumption DEF Units
<1>2. CASE PreForward(r, u)
  <2>1. host[r].at = <<"pre_forward", u>> /\ host'[r].at = <<"wait_forward", u>>
    BY <1>1, <1>2 DEF PreForward, At, Hosts
  <2>2. /\ host'[r].pass = host[r].pass /\ host'[r].order = host[r].order
        /\ host'[r].next = host[r].next /\ policy' = policy
        /\ \A s \in Ranks \ {r} : host'[s] = host[s]
    BY <1>1, <1>2 DEF PreForward, Hosts
  <2> QED
    BY <1>1, <2>1, <2>2 DEF ToRun, ForwardSteps
<1>3. CASE WaitForward(r, u)
  <2>1. /\ host[r].at = <<"wait_forward", u>>
        /\ host'[r].at \in {<<"post_forward", u>>, <<"fill_before", u>>}
    BY <1>1, <1>3 DEF WaitForward, At, Hosts
  <2>2. /\ host'[r].pass = host[r].pass /\ host'[r].order = host[r].order
        /\ host'[r].next = host[r].next /\ policy' = policy
        /\ \A s \in Ranks \ {r} : host'[s] = host[s]
    BY <1>1, <1>3 DEF WaitForward, Hosts
  <2>3. ToRun(host[r].at) = UnitCount - u + 1 /\ ToRun(host'[r].at) = UnitCount - u + 1
    BY <2>1 DEF ToRun, ForwardSteps
  <2> QED
    BY <1>1, <2>2, <2>3
<1>4. CASE PostForward(r, u)
  <2>1. host[r].at = <<"post_forward", u>> /\ host'[r].at = <<"fill_after", u>>
    BY <1>1, <1>4 DEF PostForward, At, Hosts
  <2>2. /\ host'[r].pass = host[r].pass /\ host'[r].order = Append(host[r].order, u)
        /\ host'[r].next = host[r].next /\ policy' = policy
        /\ \A s \in Ranks \ {r} : host'[s] = host[s]
    BY <1>1, <1>4 DEF PostForward, Hosts
  <2>3. Len(host'[r].order) = Len(host[r].order) + 1
    BY <1>1, <2>2 DEF Hosts
  <2>4. ToRun(host[r].at) = UnitCount - u + 1 /\ ToRun(host'[r].at) = UnitCount - u
    BY <2>1 DEF ToRun, ForwardSteps
  <2>5. host'[r].next.backward \in Unset .. Len(host'[r].order)
        /\ host'[r].next.forward \in 2 .. UnitCount + 1
    <3>1. host'[r].next = host[r].next
      BY <2>2
    <3> QED
      BY <1>1, <2>3, <3>1 DEF Unset
  <2>6. /\ ToRun(host'[r].at) \in Nat /\ Len(host'[r].order) \in Nat
        /\ Len(host'[r].order) + ToRun(host'[r].at) <= Len(host[r].order) + ToRun(host[r].at)
    <3>1. UnitCount - u \in Nat
      BY <1>1
    <3>2. Len(host[r].order) \in Nat
      BY <1>1
    <3>3. Len(host'[r].order) \in Nat
      BY <2>3, <3>2
    <3> QED
      BY <2>3, <2>4, <3>1, <3>2, <3>3
  <2>7. /\ host'[r].pass = host[r].pass /\ policy' = policy
        /\ \A s \in Ranks \ {r} : host'[s] = host[s]
    BY <2>2
  <2> QED
    BY <2>5, <2>6, <2>7
<1>5. CASE PrefetchForward(r, u)
  <2>1. /\ host'[r].pass = host[r].pass /\ host'[r].order = host[r].order
        /\ host'[r].at = host[r].at
        /\ host'[r].next.forward = host[r].next.forward + 1
        /\ host'[r].next.backward = host[r].next.backward /\ policy' = policy
        /\ \A s \in Ranks \ {r} : host'[s] = host[s]
    BY <1>1, <1>5 DEF PrefetchForward, Hosts
  <2>2. host[r].next.forward <= UnitCount
    BY <1>1, <1>5 DEF PrefetchForward, MayPrefetchForward
  <2>3. ToRun(host[r].at) \in Nat
    BY <1>1, ToRunTyped DEF Hosts
  <2> QED
    BY <1>1, <2>1, <2>2, <2>3
<1>6. CASE LeaveForwardWindow(r, u)
  <2>1. /\ host'[r].pass = host[r].pass /\ host'[r].order = host[r].order
        /\ host'[r].next = host[r].next /\ policy' = policy
        /\ \A s \in Ranks \ {r} : host'[s] = host[s]
    BY <1>1, <1>6 DEF LeaveForwardWindow, Hosts
  <2>2. CASE At(r, "fill_before", u) /\ host'[r].at = <<"post_forward", u>>
    BY <1>1, <2>1, <2>2 DEF At, ToRun, ForwardSteps
  <2>3. CASE At(r, "fill_after", u) /\ u < UnitCount /\ host'[r].at = <<"pre_forward", u + 1>>
    BY <1>1, <2>1, <2>3 DEF At, ToRun, ForwardSteps
  <2>4. CASE At(r, "fill_after", u) /\ host'[r].at = <<"pre_backward", UnitCount>>
    BY <1>1, <2>1, <2>4 DEF At, ToRun, ForwardSteps
  <2> QED
    BY <1>1, <1>6, <2>2, <2>3, <2>4 DEF LeaveForwardWindow, Hosts
<1> QED
  BY <1>2, <1>3, <1>4, <1>5, <1>6

\* The backward cursor points at an entry of the recorded order, or nowhere.
LEMMA CursorInOrder ==
  ASSUME NEW r \in Ranks, NEW u \in Units, Len(host[r].order) \in Nat,
         host[r].next.backward \in Unset .. Len(host[r].order)
  PROVE  Cursor(r, u) \in Unset .. Len(host[r].order)
<1>1. CASE RanBefore(r, 1, u)
  <2>1. Len(host[r].order) >= 2
    BY <1>1 DEF RanBefore
  <2> QED
    BY <2>1 DEF Cursor, Unset
<1>2. CASE ~RanBefore(r, 1, u)
  BY <1>2 DEF Cursor
<1> QED
  BY <1>1, <1>2

\* In the backward nothing is left to run forward, and nothing is recorded.
LEMMA BackwardMoves ==
  ASSUME Typed, CountsInv, NEW r \in Ranks, NEW u \in Units,
         \/ PreBackward(r, u) \/ WaitBackward(r, u) \/ PostBackward(r, u)
         \/ PrefetchBackward(r, u) \/ WaitForReduces(r, u)
         \/ LeaveBackwardWindow(r, u)
         \/ StartReduce(r, u) \/ EndReduce(r, u)
  PROVE  Moves(r)
<1>1. /\ host \in [Ranks -> Hosts] /\ host[r] \in Hosts
      /\ Len(host[r].order) \in Nat
      /\ host[r].next.forward \in 2 .. UnitCount + 1
      /\ host[r].next.backward \in Unset .. Len(host[r].order)
  BY CountsTyped
<1> DEFINE Back(at) == at[1] \in BackwardSteps \cup {"end"}
<1>2. ASSUME NEW at, Back(at)
      PROVE  ToRun(at) = 0
  BY <1>2 DEF ToRun, ForwardSteps, BackwardSteps
<1>3. SUFFICES /\ policy' = policy
               /\ \A s \in Ranks \ {r} : host'[s] = host[s]
               /\ host'[r].pass = host[r].pass /\ host'[r].order = host[r].order
               /\ Back(host[r].at) /\ Back(host'[r].at)
               /\ host'[r].next.forward = host[r].next.forward
               /\ host'[r].next.backward \in Unset .. Len(host[r].order)
  <2>1. ToRun(host[r].at) = 0 /\ ToRun(host'[r].at) = 0
    BY <1>2, <1>3
  <2> QED
    BY <1>1, <1>3, <2>1 DEF Moves
<1>4. AfterBackward(u)[1] \in {"pre_backward", "end"}
  BY DEF AfterBackward
<1>5. Cursor(r, u) \in Unset .. Len(host[r].order)
  BY <1>1, CursorInOrder
<1>6. CASE PreBackward(r, u)
  BY <1>1, <1>6 DEF PreBackward, At, Hosts, BackwardSteps
<1>7. CASE WaitBackward(r, u)
  BY <1>1, <1>5, <1>7 DEF WaitBackward, At, Hosts, BackwardSteps
<1>8. CASE PostBackward(r, u)
  BY <1>1, <1>8 DEF PostBackward, At, Hosts, BackwardSteps
<1>9. CASE PrefetchBackward(r, u)
  <2>1. Back(host[r].at) /\ host'[r].at = host[r].at
    BY <1>1, <1>9 DEF PrefetchBackward, InBackwardWindow, At, Hosts, BackwardSteps
  <2>2. /\ host'[r].pass = host[r].pass /\ host'[r].order = host[r].order
        /\ host'[r].next.forward = host[r].next.forward
        /\ host'[r].next.backward = host[r].next.backward - 1
        /\ policy' = policy /\ \A s \in Ranks \ {r} : host'[s] = host[s]
    BY <1>1, <1>9 DEF PrefetchBackward, Hosts
  <2>3. host[r].next.backward > 0
    BY <1>9 DEF PrefetchBackward, MayPrefetchBackward, MayTryBackward
  <2>4. host'[r].next.backward \in Unset .. Len(host[r].order)
    BY <1>1, <2>2, <2>3 DEF Unset
  <2> QED
    BY <2>1, <2>2, <2>4
<1>10. CASE WaitForReduces(r, u)
  BY <1>1, <1>10 DEF WaitForReduces, InBackwardWindow, At, Hosts, BackwardSteps
<1>11. CASE LeaveBackwardWindow(r, u)
  <2>1. PICK place \in {<<"post_backward", u>>, AfterBackward(u)} :
          host' = [host EXCEPT ![r].at = place]
    BY <1>11 DEF LeaveBackwardWindow
  <2>2. Back(host[r].at) /\ Back(place) /\ policy' = policy
    BY <1>4, <1>11 DEF LeaveBackwardWindow, InBackwardWindow, At, BackwardSteps
  <2> QED
    BY <1>1, <2>1, <2>2 DEF Hosts
<1>12. CASE StartReduce(r, u)
  <2>1. PICK unit, pending :
          host' = [host EXCEPT ![r].at = <<"reduced", u>>, ![r].unit = unit,
                               ![r].pending = pending]
    BY <1>12 DEF StartReduce
  <2>2. host[r].at = <<"reduce", u>> /\ policy' = policy
    BY <1>12 DEF StartReduce, At
  <2> QED
    BY <1>1, <2>1, <2>2 DEF Hosts, BackwardSteps
<1>13. CASE EndReduce(r, u)
  BY <1>1, <1>4, <1>5, <1>13 DEF EndReduce, At, Hosts, BackwardSteps
<1> QED
  BY <1>6, <1>7, <1>8, <1>9, <1>10, <1>11, <1>12, <1>13

\* A new pass may record each unit once more.
LEMMA NextPassKeepsCounts ==
  ASSUME Typed, CountsInv, NEW r \in Ranks, NextPass(r)
  PROVE  CountsInv'
<1>1. /\ host \in [Ranks -> Hosts] /\ host[r] \in Hosts
      /\ Len(host[r].order) \in Nat
      /\ host[r].next.forward \in 2 .. UnitCount + 1
      /\ host[r].next.backward \in Unset .. Len(host[r].order)
  BY CountsTyped
<1>2. /\ host[r].at = <<"end", 1>> /\ host'[r].at = <<"pre_forward", 1>>
      /\ host'[r].pass = host[r].pass + 1 /\ host[r].pass < policy.passes
      /\ host'[r].order = host[r].order /\ host'[r].next = host[r].next
      /\ policy' = policy /\ \A s \in Ranks \ {r} : host'[s] = host[s]
  BY <1>1 DEF NextPass, At, Hosts
<1>3. ToRun(host[r].at) = 0 /\ ToRun(host'[r].at) = UnitCount
  BY <1>2, UnitCountAssumption DEF ToRun, ForwardSteps
<1>4. host[r].pass \in Nat /\ policy.passes \in Nat
  BY <1>1, PolicyTyped DEF Hosts, Policy
<1>5. UnitCount * (host[r].pass + 1) = UnitCount * host[r].pass + UnitCount
  BY <1>4, UnitCountAssumption
<1>6. Len(host[r].order) <= UnitCount * host[r].pass /\ host[r].pass \in 1 .. policy.passes
  BY <1>1, <1>3 DEF CountsInv, CountsOK
<1>7. UnitCount * host[r].pass \in Nat /\ UnitCount \in Nat
  BY <1>4, UnitCountAssumption
<1>8. Len(host'[r].order) + ToRun(host'[r].at) <= UnitCount * host'[r].pass
  <2>1. UnitCount * host'[r].pass = UnitCount * host[r].pass + UnitCount
    BY <1>2, <1>5
  <2>2. Len(host'[r].order) = Len(host[r].order)
    BY <1>2
  <2> QED
    BY <1>1, <1>3, <1>6, <1>7, <2>1, <2>2
<1>9. host'[r].pass \in 1 .. policy.passes
  BY <1>2, <1>4, <1>6
<1>10. CountsOK(host'[r])
  BY <1>1, <1>2, <1>8, <1>9 DEF CountsOK
<1> QED
  BY <1>2, <1>10, CountsStep

\* finish_backward_iteration starts over: nothing recorded, the first pass.
LEMMA FinishedCounts ==
  ASSUME Typed, NEW h
  PROVE  CountsOK(Finished(h))
<1>1. /\ Finished(h).pass = 1 /\ Finished(h).order = <<>>
      /\ Finished(h).at = <<"pre_forward", 1>>
      /\ Finished(h).next.forward = 2 /\ Finished(h).next.backward = Unset
  BY DEF Finished, Host
<1>2. ToRun(Finished(h).at) = UnitCount
  BY <1>1, UnitCountAssumption DEF ToRun, ForwardSteps
<1>3. policy.passes \in Nat \ {0}
  BY PolicyTyped DEF Policy
<1> QED
  BY <1>1, <1>2, <1>3, UnitCountAssumption DEF CountsOK, Unset

LEMMA FinishKeepsCounts ==
  ASSUME Typed, CountsInv, NEW r \in Ranks, Finish(r) \/ LeaveBarrier(r)
  PROVE  CountsInv'
<1>1. host \in [Ranks -> Hosts] /\ host[r] \in Hosts /\ Len(host[r].order) \in Nat
      /\ host[r].next.forward \in 2 .. UnitCount + 1
      /\ host[r].next.backward \in Unset .. Len(host[r].order)
  BY CountsTyped
<1>2. policy' = policy
  BY DEF Finish, LeaveBarrier
<1>3. CASE \E h : host' = [host EXCEPT ![r] = Finished(h)]
  <2>1. PICK h : host' = [host EXCEPT ![r] = Finished(h)]
    BY <1>3
  <2>2. host'[r] = Finished(h) /\ \A s \in Ranks \ {r} : host'[s] = host[s]
    BY <1>1, <2>1
  <2> QED
    BY <1>2, <2>2, FinishedCounts, CountsStep
<1>4. CASE Finish(r) /\ host[r].issued
  <2>1. /\ host[r].at = <<"end", 1>> /\ host'[r].at = <<"barrier", 0>>
        /\ host'[r].pass = host[r].pass /\ host'[r].order = host[r].order
        /\ host'[r].next = host[r].next
        /\ \A s \in Ranks \ {r} : host'[s] = host[s]
    BY <1>1, <1>4 DEF Finish, At, Hosts
  <2>2. ToRun(host[r].at) = 0 /\ ToRun(host'[r].at) = 0
    BY <2>1 DEF ToRun, ForwardSteps
  <2> QED
    BY <1>1, <1>2, <2>1, <2>2, MovesKeepCounts DEF Moves
<1> QED
  BY <1>3, <1>4 DEF Finish, LeaveBarrier

-----------------------------------------------------------------------------
(* The theorem *)

LEMMA NextKeepsTypeInv == TypeInv /\ [Next]_vars => TypeInv'
<1> SUFFICES ASSUME TypeInv, [Next]_vars PROVE TypeInv'
  OBVIOUS
<1>1. PrefetchInv' /\ Typed /\ CountsInv /\ PoolInv
  BY NextKeepsPrefetchInv DEF TypeInv, PrefetchInv
<1>2. ASSUME NEW r \in Ranks, HostStep(r)
      PROVE  CountsInv' /\ PoolInv'
  <2>1. PoolInv'
    BY <1>1, <1>2, HostStepKeepsPool
  <2>2. ASSUME NEW u \in Units,
               \/ PreForward(r, u) \/ WaitForward(r, u) \/ PostForward(r, u)
               \/ PrefetchForward(r, u) \/ LeaveForwardWindow(r, u)
        PROVE  CountsInv'
    BY <1>1, <2>2, ForwardMoves, MovesKeepCounts
  <2>3. ASSUME NEW u \in Units,
               \/ PreBackward(r, u) \/ WaitBackward(r, u) \/ PostBackward(r, u)
               \/ PrefetchBackward(r, u) \/ WaitForReduces(r, u)
               \/ LeaveBackwardWindow(r, u)
               \/ StartReduce(r, u) \/ EndReduce(r, u)
        PROVE  CountsInv'
    BY <1>1, <2>3, BackwardMoves, MovesKeepCounts
  <2>4. CASE NextPass(r) \/ Finish(r) \/ LeaveBarrier(r)
    BY <1>1, <2>1, <2>4, NextPassKeepsCounts, FinishKeepsCounts
  <2> QED
    BY <1>2, <2>1, <2>2, <2>3, <2>4 DEF HostStep
<1>3. ASSUME host' = host, policy' = policy
      PROVE  CountsInv'
  BY <1>1, <1>3 DEF CountsInv, CountsOK, ToRun
<1>4. ASSUME NEW r \in Ranks, GpuDone(r)
      PROVE  CountsInv' /\ PoolInv'
  BY <1>1, <1>3, <1>4, GpuDoneKeepsPool DEF GpuDone
<1>5. ASSUME \/ UNCHANGED vars
             \/ \E l \in Lanes : Deliver(l)
      PROVE  CountsInv' /\ PoolInv'
  BY <1>1, <1>3, <1>5 DEF Deliver, vars, PoolInv
<1> QED
  BY <1>1, <1>2, <1>4, <1>5 DEF TypeInv, Next

LEMMA InitTypeInv == Init => TypeInv
<1> SUFFICES ASSUME Init PROVE TypeInv
  OBVIOUS
<1>1. PrefetchInv /\ Typed
  BY InitPrefetchInv DEF PrefetchInv
<1>2. policy.passes \in Nat \ {0} /\ policy.cached \in Nat
  BY <1>1, PolicyTyped DEF Policy
<1>3. ToRun(Host.at) = UnitCount
  BY UnitCountAssumption DEF ToRun, ForwardSteps, Host
<1>4. CountsOK(Host)
  BY <1>2, <1>3, UnitCountAssumption DEF CountsOK, Host, Unset
<1>5. PoolInv
  BY <1>2 DEF Init, PoolInv
<1> QED
  BY <1>1, <1>4, <1>5 DEF Init, TypeInv, CountsInv

LEMMA ProductGrows ==
  ASSUME NEW a \in Nat, NEW b \in Nat, NEW c \in Nat, b <= c
  PROVE  a * b <= a * c
<1>1. c - b \in Nat /\ c = b + (c - b)
  OBVIOUS
<1>2. a * c = a * b + a * (c - b)
  BY <1>1
<1>3. a * (c - b) \in Nat
  BY <1>1
<1> QED
  BY <1>2, <1>3

\* Whatever the ranks, units and policy, the cursors of the ordered queues are
\* None or in the list they point into, the post-forward order has at most one
\* entry per unit and pass until finish_backward_iteration clears it, and the
\* buffer pool keeps no more than max_cached_full_param_buffers_per_key.
THEOREM OwnerPrefetchTyped == Spec => []TypeOK
<1>1. TypeInv => TypeOK
  <2> SUFFICES ASSUME TypeInv, NEW r \in Ranks
               PROVE  /\ policy \in Policies
                      /\ host[r].unit \in [Units -> {"sharded", "inflight", "full", "resharded"}]
                      /\ host[r].ahead.forward \subseteq Units
                      /\ host[r].ahead.backward \subseteq Units
                      /\ Len(host[r].order) <= UnitCount * policy.passes
                      /\ host[r].next.forward \in 2 .. UnitCount + 1
                      /\ host[r].next.backward \in Unset .. Len(host[r].order)
                      /\ host[r].issued \in BOOLEAN
                      /\ \A i \in DOMAIN host[r].pending : host[r].pending[i] \in Units
                      /\ host[r].pass \in 1 .. policy.passes
                      /\ pool[r].draining \in Nat /\ pool[r].idle \in Nat
                      /\ pool[r].draining + pool[r].idle <= policy.cached
                      /\ \A l \in Lanes : \A i \in DOMAIN queue[r][l] :
                           queue[r][l][i] \in Operations
    BY RanksAssumption DEF TypeOK
  <2>1. Typed /\ CountsInv /\ PoolInv
    BY DEF TypeInv, PrefetchInv
  <2>2. host[r] \in Hosts /\ CountsOK(host[r]) /\ Len(host[r].order) \in Nat
        /\ policy.passes \in Nat
    BY <2>1, CountsTyped, PolicyTyped DEF CountsInv, Policy
  <2>3. Len(host[r].order) <= UnitCount * policy.passes
    <3>1. host[r].at \in Places /\ host[r].pass \in Nat /\ host[r].pass <= policy.passes
          /\ UnitCount \in Nat
      BY <2>2, UnitCountAssumption DEF Hosts, CountsOK
    <3>2. ToRun(host[r].at) \in Nat
      BY <3>1, ToRunTyped
    <3>3. UnitCount * host[r].pass <= UnitCount * policy.passes
      BY <2>2, <3>1, ProductGrows
    <3>4. UnitCount * host[r].pass \in Nat /\ UnitCount * policy.passes \in Nat
      BY <2>2, <3>1
    <3>5. Len(host[r].order) <= UnitCount * host[r].pass
      BY <2>2, <3>2, <3>4 DEF CountsOK
    <3> QED
      BY <2>2, <3>3, <3>4, <3>5
  <2>4. \A l \in Lanes : queue[r][l] \in Seq(Operations)
    BY <2>1 DEF Typed
  <2>5. /\ host[r].unit \in [Units -> States] /\ host[r].pending \in Seq(Units)
        /\ host[r].ahead \in [forward : SUBSET Units, backward : SUBSET Units]
        /\ host[r].issued \in BOOLEAN
    BY <2>2 DEF Hosts
  <2> QED
    BY <2>1, <2>2, <2>3, <2>4, <2>5 DEF Typed, CountsOK, PoolInv, States
<1> QED
  BY <1>1, InitTypeInv, NextKeepsTypeInv, PTL DEF Spec
=============================================================================
