------------------------- MODULE MCFullParamStorage -------------------------
(* Units of equal size share a pool key, as repeated blocks do.              *)
EXTENDS FullParamStorage, TLC

CONSTANTS b1, b2, b3, b4, b5, k1

MCBuffers == {b1, b2, b3, b4, b5}
MCKeys == {k1}
MCKeyOf == [b \in MCBuffers |-> k1]
MCUnitKey == [u \in 1 .. UnitCount |-> k1]

\* The third unit has no hooks and stays gathered over the others' reshards.
MCReshard == {1, 2, 4}
MCEveryUnit == 1 .. UnitCount
MCNoUnit == {}

BufferSymmetry == Permutations(MCBuffers)
=============================================================================
