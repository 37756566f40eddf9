---------------------------- MODULE CollectiveOrder ----------------------------
(***************************************************************************)
(* What ranks promise each other about collectives: on every communicator  *)
(* (a lane) they enter the same operations in the same order, and an       *)
(* operation runs when every rank has entered it.  How a rank decides what *)
(* to enter next, and what it waits for, is left open.                     *)
(***************************************************************************)
EXTENDS Naturals, Sequences

CONSTANTS Ranks, Lanes, Operations

VARIABLES
  agreed,   \* per lane, the operations a rank has entered and that have not run
  entered   \* how many of them each rank has entered

orderVars == <<agreed, entered>>

OrderInit ==
  /\ agreed = [l \in Lanes |-> <<>>]
  /\ entered = [r \in Ranks |-> [l \in Lanes |-> 0]]

\* The first rank to get there decides; the others enter the same operation.
Enter(r, l, op) ==
  /\ IF entered[r][l] < Len(agreed[l])
       THEN agreed[l][entered[r][l] + 1] = op /\ agreed' = agreed
       ELSE agreed' = [agreed EXCEPT ![l] = Append(@, op)]
  /\ entered' = [entered EXCEPT ![r][l] = @ + 1]

Run(l) ==
  /\ \A r \in Ranks : entered[r][l] > 0
  /\ agreed' = [agreed EXCEPT ![l] = Tail(@)]
  /\ entered' = [r \in Ranks |-> [entered[r] EXCEPT ![l] = @ - 1]]

OrderNext ==
  \/ \E r \in Ranks, l \in Lanes, op \in Operations : Enter(r, l, op)
  \/ \E l \in Lanes : Run(l)

OrderSafety == OrderInit /\ [][OrderNext]_orderVars

\* A collective that every rank has entered runs.
Completion == \A l \in Lanes : WF_orderVars(Run(l))

OrderSpec == OrderSafety /\ Completion
=============================================================================
