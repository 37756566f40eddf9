------------------------------ MODULE TrainingLoop ------------------------------
(***************************************************************************)
(* One rank under a training loop: what torch and the caller may do to the *)
(* runtime of ParamGroupRuntime, in every order they may do it.            *)
(*                                                                         *)
(*   forward          the modules of Forwards call their pre- and          *)
(*                    post-forward hooks, nested modules inside their      *)
(*                    parent                                               *)
(*   backward         the output hooks of the units reached, in reverse;   *)
(*                    autograd runs its nodes latest first, so the         *)
(*                    parameters of a unit are accumulated, in any order,  *)
(*                    before the output hook of the unit before it; those  *)
(*                    of the root, which encloses the others, before,      *)
(*                    between and after theirs                             *)
(*   no_sync          entered and left around passes, possibly nested      *)
(*   step, zero_grad  of the wrapped optimizer                             *)
(*                                                                         *)
(* How far callers stray from the plain loop is given by constants, so     *)
(* that each run says under which use its properties hold.  An error of    *)
(* the runtime ends the behaviour: the state it leaves is not relied on.   *)
(***************************************************************************)
EXTENDS ParamGroupRuntime

CONSTANTS
  Root,               \* the unit whose forward encloses the others', or None
  Forwards,           \* sequences of <<"pre", u>> and <<"post", u>>
  DeferredForwards,   \* more of them, run only inside no_sync
  Reaches,            \* the parameters a backward gives a gradient, per unit
  Scopes,             \* sets of units a no_sync context is opened for
  MaxContexts,        \* no_sync contexts open at a time (a bound)
  ContextUse,         \* "any", or "one_pass": a context encloses one pass
  EvalForwards,       \* forwards without gradients happen between passes
  SyncedAccumulation, \* another pass may follow one that reduced
  StepAfterDeferred,  \* step may follow a pass whose reduce was deferred
  Abandon,            \* zero_grad may drop passes that were not stepped
  ZeroModes           \* the set_to_none arguments of zero_grad

ASSUME ForwardsAssumption ==
  Forwards \cup DeferredForwards \subseteq Seq({"pre", "post"} \X Units)
\* A forward runs a module once at most, between its two hooks.
ASSUME HooksAssumption ==
  \A program \in Forwards \cup DeferredForwards :
    \A i, j \in 1 .. Len(program) :
      /\ program[i] = program[j] => i = j
      /\ program[i] = <<"pre", program[j][2]>> /\ program[j][1] = "post" => i < j
      /\ program[j][1] = "post" =>
           \E k \in 1 .. Len(program) : program[k] = <<"pre", program[j][2]>>
      /\ program[j][1] = "pre" =>
           \E k \in 1 .. Len(program) : program[k] = <<"post", program[j][2]>>
ASSUME MaxContextsAssumption == MaxContexts \in Nat
ASSUME RootAssumption == Root \in Units \cup {None}
ASSUME ScopesAssumption == Scopes \subseteq SUBSET Units
ASSUME ReachesAssumption == Reaches \subseteq [Units -> SUBSET Params]
ASSUME UseAssumption ==
  /\ ContextUse \in {"any", "one_pass"}
  /\ EvalForwards \in BOOLEAN
  /\ SyncedAccumulation \in BOOLEAN
  /\ StepAfterDeferred \in BOOLEAN
  /\ Abandon \in BOOLEAN
  /\ ZeroModes \subseteq BOOLEAN

VARIABLES
  rt,        \* the runtime state
  phase,     \* where the loop is
  grad,      \* torch.is_grad_enabled() in the forward
  events,    \* module hooks the forward has still to call
  back,      \* units whose output hook a backward has still to call
  reach,     \* parameters the running backward gives a gradient
  need,      \* those of them autograd has still to accumulate
  micro,     \* backward passes since zero_grad
  contexts,  \* the open no_sync contexts, outermost first: the units they
             \* were opened for, and the passes before them
  unsynced,  \* units whose last backward was deferred
  reduced,   \* units whose last backward was complete and reduced
  cursor     \* the unit the step preparation comes to next

vars == <<rt, phase, grad, events, back, reach, need, micro, contexts,
          unsynced, reduced, cursor>>

NoParams == [u \in Units |-> {}]

Init ==
  /\ rt = InitRuntime
  /\ phase = "idle"
  /\ grad = FALSE
  /\ events = <<>> /\ back = <<>>
  /\ reach = NoParams /\ need = NoParams
  /\ micro = 0
  /\ contexts = <<>>
  /\ unsynced = {} /\ reduced = {}
  /\ cursor = 1

\* A handler that raises leaves the error; otherwise its state is the next.
Apply(s) == rt' = IF s.err = None THEN s ELSE [rt EXCEPT !.err = s.err]

Running == rt.err = None

InNoSync == \E u \in Units : rt.grp[u].depth > 0

-----------------------------------------------------------------------------
(* Forward *)

FreshContexts ==
  ContextUse = "one_pass" =>
    \A i \in 1 .. Len(contexts) : contexts[i].since = micro

\* Without synchronous accumulation a pass that reduced is the last before step.
AnotherPass == SyncedAccumulation \/ reduced = {}

CanTrain ==
  /\ Running
  /\ phase = "idle"
  /\ micro < IF InNoSync THEN MicroCount - 1 ELSE MicroCount
  /\ AnotherPass
  /\ FreshContexts

\* A forward that keeps no graph, between the passes or after the step.
CanEvaluate ==
  /\ Running
  /\ EvalForwards
  /\ phase = "stepped" \/ (phase = "idle" /\ reduced = {})
  /\ FreshContexts

BeginForward(program, gradEnabled) ==
  /\ IF gradEnabled THEN CanTrain ELSE CanEvaluate
  /\ program \in Forwards \/ InNoSync
  /\ phase' = IF phase = "idle" THEN "forward" ELSE "eval"
  /\ grad' = gradEnabled
  /\ events' = program
  /\ UNCHANGED <<rt, back, reach, need, micro, contexts, unsynced, reduced, cursor>>

CallPreForward ==
  /\ Running
  /\ events # <<>> /\ Head(events)[1] = "pre"
  /\ Apply(PreForward(rt, Head(events)[2], grad))
  /\ events' = Tail(events)
  /\ UNCHANGED <<phase, grad, back, reach, need, micro, contexts, unsynced,
                 reduced, cursor>>

CallPostForward ==
  /\ Running
  /\ events # <<>> /\ Head(events)[1] = "post"
  /\ Apply(PostForward(rt, Head(events)[2], grad))
  /\ events' = Tail(events)
  /\ back' = IF grad THEN <<Head(events)[2]>> \o back ELSE back
  /\ phase' = CASE Tail(events) # <<>> -> phase
                [] Tail(events) = <<>> /\ grad -> "forwarded"
                [] Tail(events) = <<>> /\ ~grad ->
                     IF phase = "eval" THEN "stepped" ELSE "idle"
  /\ UNCHANGED <<grad, reach, need, micro, contexts, unsynced, reduced, cursor>>

-----------------------------------------------------------------------------
(* Backward *)

\* The backward reaches units of this forward only.
Ran(u) == \E i \in 1 .. Len(back) : back[i] = u

BeginBackward(r) ==
  /\ Running
  /\ phase = "forwarded"
  /\ phase' = "backward"
  /\ reach' = [u \in Units |-> IF Ran(u) THEN r[u] ELSE {}]
  /\ micro' = micro + 1
  /\ UNCHANGED <<rt, grad, events, back, need, contexts, unsynced, reduced, cursor>>

\* Autograd passes over the units it does not reach.
FirstReached(i) ==
  /\ reach[back[i]] # {}
  /\ \A j \in 1 .. i - 1 : reach[back[j]] = {}

\* Only the outputs of units that reshard carry a hook.
CallPreBackward ==
  /\ Running
  /\ phase = "backward"
  /\ \A u \in Units \ {Root} : need[u] = {}
  /\ \E i \in 1 .. Len(back) :
       LET u == back[i]
           deferred == rt.grp[u].depth > 0
       IN  /\ FirstReached(i)
           /\ Apply(IF u \in Reshard THEN PreBackwardUnshard(rt, u) ELSE rt)
           /\ need' = [need EXCEPT ![u] = reach[u]]
           /\ unsynced' = IF deferred THEN unsynced \cup {u} ELSE unsynced \ {u}
           /\ reduced' = IF ~deferred /\ reach[u] = Params THEN reduced \cup {u}
                                                          ELSE reduced \ {u}
           /\ back' = SubSeq(back, i + 1, Len(back))
  /\ UNCHANGED <<phase, grad, events, reach, micro, contexts, cursor>>

CallAccumulateGrad(u, p) ==
  /\ Running
  /\ p \in need[u]
  /\ u = Root => \A v \in Units \ {Root} : need[v] = {}
  /\ Apply(AccumulateGrad(rt, u, p, micro))
  /\ need' = [need EXCEPT ![u] = @ \ {p}]
  /\ UNCHANGED <<phase, grad, events, back, reach, micro, contexts, unsynced,
                 reduced, cursor>>

EndBackward ==
  /\ Running
  /\ phase = "backward" /\ need = NoParams
  /\ \A i \in 1 .. Len(back) : reach[back[i]] = {}
  /\ phase' = "idle"
  /\ back' = <<>>
  /\ reach' = NoParams
  /\ UNCHANGED <<rt, grad, events, need, micro, contexts, unsynced,
                 reduced, cursor>>

-----------------------------------------------------------------------------
(* no_sync.  The last pass the bound allows is never deferred, so that a   *)
(* pass that reduces can follow every deferred one.                         *)

\* A context may enclose a backward without its forward, or the reverse,
\* unless every context encloses one pass.
Between ==
  \/ phase = "idle"
  \/ phase = "forwarded" /\ ContextUse = "any"

\* Contexts are opened for the optimizer's or for one group's units.
CallEnterNoSync(scope) ==
  /\ Running /\ Between
  /\ micro + 1 < MicroCount
  /\ Len(contexts) < MaxContexts
  /\ ContextUse = "one_pass" => AnotherPass /\ FreshContexts
  /\ Apply([rt EXCEPT !.grp =
       [u \in Units |-> IF u \in scope THEN EnterNoSync(@[u]) ELSE @[u]]])
  /\ contexts' = Append(contexts, [scope |-> scope, since |-> micro])
  /\ UNCHANGED <<phase, grad, events, back, reach, need, micro, unsynced,
                 reduced, cursor>>

CanLeave ==
  /\ Running /\ Between
  /\ contexts # <<>>
  /\ ContextUse = "one_pass" => contexts[Len(contexts)].since < micro

CallExitNoSync ==
  /\ CanLeave
  /\ Apply(ExitNoSyncOf(rt, contexts[Len(contexts)].scope))
  /\ contexts' = SubSeq(contexts, 1, Len(contexts) - 1)
  /\ UNCHANGED <<phase, grad, events, back, reach, need, micro, unsynced,
                 reduced, cursor>>

-----------------------------------------------------------------------------
(* Optimizer *)

\* step: wait for every reduce, prepare the units in order, then check them.
CanStep ==
  /\ Running
  /\ phase = "idle" /\ micro > 0
  /\ ~InNoSync
  /\ StepAfterDeferred \/ unsynced = {}

BeginStep ==
  /\ CanStep
  /\ Apply(WaitAllPending(rt))
  /\ phase' = "stepping"
  /\ cursor' = 1
  /\ UNCHANGED <<grad, events, back, reach, need, micro, contexts, unsynced, reduced>>

PrepareNextUnit ==
  /\ Running
  /\ phase = "stepping" /\ cursor <= UnitCount
  /\ Apply(PrepareStepUnit(rt, cursor))
  /\ cursor' = cursor + 1
  /\ UNCHANGED <<phase, grad, events, back, reach, need, micro, contexts,
                 unsynced, reduced>>

\* The inner optimizer's step, not reached when the preparation raises, sees
\* the gradients as this action leaves them.
EndStep ==
  /\ Running
  /\ phase = "stepping" /\ cursor = UnitCount + 1
  /\ Apply(FinishStepPreparation(rt))
  /\ phase' = IF OptimizerReadyError(rt) = None THEN "stepped" ELSE phase
  /\ cursor' = 1
  /\ UNCHANGED <<grad, events, back, reach, need, micro, contexts, unsynced, reduced>>

CallZeroGrad(setToNone) ==
  /\ Running
  /\ phase = "stepped" \/ (phase = "idle" /\ micro > 0 /\ Abandon)
  /\ ~InNoSync
  /\ Apply(ZeroGrad(rt, setToNone))
  /\ phase' = "idle"
  /\ micro' = 0
  /\ unsynced' = {} /\ reduced' = {}
  /\ UNCHANGED <<grad, events, back, reach, need, contexts, cursor>>

-----------------------------------------------------------------------------
Programs == Forwards \cup DeferredForwards

Next ==
  \/ \E program \in Programs, g \in BOOLEAN : BeginForward(program, g)
  \/ CallPreForward \/ CallPostForward
  \/ \E r \in Reaches : BeginBackward(r)
  \/ CallPreBackward
  \/ \E u \in Units, p \in Params : CallAccumulateGrad(u, p)
  \/ EndBackward
  \/ \E scope \in Scopes : CallEnterNoSync(scope)
  \/ CallExitNoSync
  \/ BeginStep \/ PrepareNextUnit \/ EndStep
  \/ \E setToNone \in ZeroModes : CallZeroGrad(setToNone)

Spec == Init /\ [][Next]_vars

\* torch finishes the pass it is in and the wrapper the step it is in; the
\* caller goes on training: one that again and again could run a pass, leave a
\* context or step, does.  Busy, CanTrain, CanLeave and CanStep are the guards
\* of the actions; TLC is spared the ENABLED of the handlers' updates.
Busy == Running /\ phase \notin {"idle", "stepped"}

Continue ==
  \/ CallPreForward \/ CallPostForward
  \/ \E r \in Reaches : BeginBackward(r)
  \/ CallPreBackward
  \/ \E u \in Units, p \in Params : CallAccumulateGrad(u, p)
  \/ EndBackward
  \/ PrepareNextUnit \/ EndStep

Train == \E program \in Programs : BeginForward(program, TRUE)

FairSpec ==
  /\ Spec
  /\ []<>~Busy \/ []<><<Continue>>_vars
  /\ <>[]~CanTrain \/ []<><<Train>>_vars
  /\ <>[]~CanLeave \/ []<><<CallExitNoSync>>_vars
  /\ <>[]~CanStep \/ []<><<BeginStep>>_vars

-----------------------------------------------------------------------------
TypeOK ==
  /\ rt.grp \in [Units -> Group]
  /\ rt.queue \in [Units -> 0 .. UnitCount]
  /\ rt.fwdIds \subseteq Units /\ rt.bwdIds \subseteq Units
  /\ rt.deferred \in Units \cup {None}
  /\ phase \in {"idle", "forward", "forwarded", "backward", "stepping",
                "stepped", "eval"}
  /\ grad \in BOOLEAN
  /\ reach \in [Units -> SUBSET Params] /\ need \in [Units -> SUBSET Params]
  /\ micro \in 0 .. MicroCount
  /\ Len(contexts) <= MaxContexts
  /\ cursor \in 1 .. UnitCount + 1

\* No legal use raises: the lifecycle assertions of _validate_lifecycle_invariants,
\* finalize_backward and assert_optimizer_ready hold in every order of events.
RunsWithoutError == rt.err = None

\* "a pending backward reduce can only exist after full parameters have been
\* resharded" (_validate_lifecycle_invariants): no gather starts on a group
\* whose reduce is still in flight, so that this assertion never fires.
NoGatherOverPendingReduce == rt.err # "reduce_while_not_resharded"

\* A gather is in flight only for an unsharded group, a reduce only for a
\* sharded one: what _validate_lifecycle_invariants asserts after a transition
\* holds at every other moment too.
LifecycleConsistent ==
  \A u \in Units :
    /\ rt.grp[u].inflight => rt.grp[u].state = "UNSHARDED"
    /\ rt.grp[u].reduce # "none" => rt.grp[u].state = "SHARDED"

\* A gather in flight ends by being waited for, which leaves the group
\* unsharded, or with the step that gives up, after waiting, one no gradient
\* came for: the handlers that drop the unshard handle (_finish_backward_common
\* and _reshard_after_deferred_no_sync_backward) never drop one still in flight,
\* into a storage they have just released.
GathersAreWaitedFor ==
  [][ \A u \in Units :
        rt.grp[u].inflight /\ ~rt'.grp[u].inflight =>
          \/ rt'.grp[u].state = "UNSHARDED"
          \/ phase = "stepping" /\ ~HasGrad(rt.grp[u]) ]_vars

\* Units left out of a pass inside no_sync: no handler raises but the exit of
\* no_sync, and that only for a unit with deferred gradients whose gather,
\* started ahead, is still in flight.
OnlyLeavingNoSyncRaises ==
  [][ rt'.err # rt.err =>
        /\ Len(contexts') < Len(contexts)
        /\ \E u \in Units : rt.grp[u].inflight /\ rt.grp[u].defer ]_vars

\* A group has all its parameters for as long as its forward or its backward
\* computes, whatever other groups gather, reshard and reduce meanwhile.
InForward(u) ==
  /\ \E i \in 1 .. Len(events) : events[i] = <<"post", u>>
  /\ ~ \E i \in 1 .. Len(events) : events[i] = <<"pre", u>>

ParametersGatheredWhenUsed ==
  \A u \in Units :
    InForward(u) \/ need[u] # {} =>
      rt.grp[u].state = "UNSHARDED" /\ ~rt.grp[u].inflight

\* The scheduler knows every reduce left in flight, each in a place of its own
\* in the order they started, and never leaves more of them behind than
\* max_pending_backward_reduces.
InFlightReduces == {u \in Units : rt.grp[u].reduce # "none"}

ReducesTracked ==
  /\ \A u \in InFlightReduces :
       rt.queue[u] > 0 /\ \A v \in Units \ {u} : rt.queue[v] # rt.queue[u]
  /\ Cardinality(InFlightReduces) <= MaxPendingReduces

\* The lookahead budgets bound the groups gathered ahead of their use.
PrefetchWithinBudget ==
  /\ Cardinality({u \in Units : rt.grp[u].fwd}) <= MaxForwardPrefetch
  /\ Cardinality({u \in Units : rt.grp[u].bwd}) <= MaxBackwardPrefetch

\* A prefetch does not take the unsharded groups past the memory cap; only a
\* group that needs its parameters now may.
PrefetchKeepsMemoryCap ==
  [][ (\E u \in Units : ~rt.grp[u].inflight /\ rt'.grp[u].inflight)
        => ActiveBuffers(rt') <= MaxActive ]_vars

\* After a backward that reduced, no fully used group keeps its full
\* parameters: memory is back to the sharded state between passes.
ReducedGroupsReshard ==
  phase = "idle" /\ Finalize => \A u \in reduced : rt.grp[u].state = "SHARDED"

\* Whatever is in flight ends: a gather started ahead is used or given up,
\* also when the forward it was meant for leaves the group out, every reduce is
\* waited for, and the loop comes to a moment when nothing is in flight.
InFlight == \E u \in Units : rt.grp[u].inflight \/ rt.grp[u].reduce # "none"

CommunicationEnds == InFlight ~> ~InFlight

-----------------------------------------------------------------------------
(* What a slot's gradient is, wherever the runtime has put it *)

Slots == {s \in Units \X Params : s[2] \in Owned[s[1]]}

InStore(g, t, p) == IF g.store[t] = None THEN Zero ELSE g.store[t][p]

HeldBy(g, p) ==
  Plus(Plus(Plus(InStore(g, "own", p), InStore(g, "full", p)),
            Plus(InStore(g, "bucket", p), InStore(g, "local", p))), g.reduced[p])

Held == [s \in Slots |-> HeldBy(rt.grp[s[1]], s[2])]

Stepped == phase \in {"stepped", "eval"}

Seen == IF Stepped THEN [s \in Slots |-> GradOf(rt.grp[s[1]], s[2])] ELSE None

Promise == INSTANCE GradientAccumulation
             WITH Passes <- Micros, Nothing <- None, acc <- Held, seen <- Seen

\* Gradients are counted once and none is lost on the way from autograd to the
\* optimizer: through views, buckets, reduces in flight and local shards.
AccumulatesGradients == Promise!AccSpec

\* A gather started ahead for a unit the forward then left out does not stop
\* the step: discard_unconsumed_prefetch gives it up before the optimizer's
\* assertion ("cannot run with an in-flight MatrixFSDP all-gather") is made.
UnusedPrefetchNeverFailsStep == rt.err # "step_with_gather_in_flight"
=============================================================================
