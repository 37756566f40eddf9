------------------------ MODULE MCFullParamBufferPool ------------------------
(* Three buffers compete for the two slots of one key; one buffer has a key  *)
(* of its own, so that the capacity is seen to be counted per key.           *)
EXTENDS FullParamBufferPool, TLC

CONSTANTS b1, b2, b3, b4, k1, k2

MCBuffers == {b1, b2, b3, b4}
MCKeys == {k1, k2}
MCKeyOf == [b \in MCBuffers |-> IF b = b4 THEN k2 ELSE k1]
PoolSymmetry == Permutations({b1, b2, b3})
=============================================================================
