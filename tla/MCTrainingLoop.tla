----------------------------- MODULE MCTrainingLoop -----------------------------
(* Bounded instances of the training loop.  Units are in scheduler order; the *)
(* last unit may be a root whose forward encloses the others'.               *)
EXTENDS TrainingLoop

CONSTANTS p1, p2

MCParams == {p1, p2}

\* The first unit's parameters are all here, the second's in part, and this
\* rank owns nothing of a third.
MCOwned ==
  [u \in Units |-> CASE u = 1 -> Params [] u = 2 -> {p1} [] OTHER -> {}]

Pair(u) == <<<<"pre", u>>, <<"post", u>>>>
Chain == IF UnitCount = 2 THEN Pair(1) \o Pair(2) ELSE Pair(1) \o Pair(2) \o Pair(3)
SkipLast == IF UnitCount = 2 THEN Pair(1) ELSE Pair(1) \o Pair(2)
Nested == IF UnitCount = 2 THEN <<<<"pre", 2>>>> \o Pair(1) \o <<<<"post", 2>>>>
          ELSE <<<<"pre", 3>>>> \o Pair(1) \o Pair(2) \o <<<<"post", 3>>>>

\* The root and the first of the units it encloses.
NestedFirst == IF UnitCount = 2 THEN <<<<"pre", 2>>, <<"post", 2>>>>
               ELSE <<<<"pre", 3>>>> \o Pair(1) \o <<<<"post", 3>>>>

NoPrograms == {}
Chains == {Chain}
NestedOnly == {Nested}
NestedFirstOnly == {NestedFirst}
ChainOrSkip == {Chain, SkipLast}

Everything == [u \in Units |-> Params]
FullReach == {Everything}
\* A backward may give only one parameter of the first unit a gradient.
FirstPartly == {Everything, [Everything EXCEPT ![1] = {p1}]}
AllUnits == {Units}
AllReshard == Units
AllButLast == Units \ {UnitCount}
FirstReshards == {1}
=============================================================================
