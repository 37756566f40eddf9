------------------------------- MODULE Containers -------------------------------
(***************************************************************************)
(* The sequences and functions the specifications of a group are built     *)
(* from, without operators as parameters, so that what is proved of them   *)
(* follows from their definitions.                                         *)
(***************************************************************************)
EXTENDS Integers, Sequences

\* The function f with the value v at x.
With(f, x, v) == [y \in DOMAIN f \cup {x} |-> IF y = x THEN v ELSE f[y]]

\* The sequences of s one after the other.
Flattened(s) ==
  LET joined[k \in 0 .. Len(s)] == IF k = 0 THEN <<>> ELSE joined[k - 1] \o s[k]
  IN  joined[Len(s)]

\* The elements of s at some of its places, in order.
Selected(s, places) ==
  Flattened([i \in DOMAIN s |-> IF i \in places THEN <<s[i]>> ELSE <<>>])
=============================================================================
