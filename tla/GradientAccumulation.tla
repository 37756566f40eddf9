-------------------------- MODULE GradientAccumulation --------------------------
(***************************************************************************)
(* What the runtime promises a training loop about gradients, whatever it  *)
(* does with buffers, reduces and prefetches: each contribution of each    *)
(* backward pass is counted once and is still there when the optimizer     *)
(* steps; the optimizer sees all of it and nothing else; zero_grad starts  *)
(* over.                                                                   *)
(***************************************************************************)
EXTENDS Naturals

CONSTANTS
  Slots,   \* the parameters of the units that have a local view
  Passes,  \* backward passes between two zero_grad
  Nothing  \* what the optimizer has been given before it steps

VARIABLES
  acc,     \* contributions of each pass to the gradient of each slot
  seen     \* the gradients the optimizer was given

NoGrads == [s \in Slots |-> [m \in Passes |-> 0]]

AccInit == acc = NoGrads /\ seen = Nothing

\* A pass contributes to a parameter at most once.
Contribute(s, m) ==
  /\ seen = Nothing
  /\ acc[s][m] = 0
  /\ acc' = [acc EXCEPT ![s][m] = 1]
  /\ UNCHANGED seen

StepOptimizer ==
  /\ seen' = acc
  /\ UNCHANGED acc

StartOver == acc' = NoGrads /\ seen' = Nothing

AccNext ==
  \/ \E s \in Slots, m \in Passes : Contribute(s, m)
  \/ StepOptimizer
  \/ StartOver

AccSpec == AccInit /\ [][AccNext]_<<acc, seen>>
=============================================================================
