--------------------------- MODULE MCAHostsCache ---------------------------
(***************************************************************************)
(* Instances of AHostsCache for TLC.  Answers are told apart by name; two  *)
(* of them have the same length.                                           *)
(***************************************************************************)
EXTENDS AHostsCache, TLC

CONSTANTS a1, a2, b1

MCSize == [v \in Value |-> IF v = b1 THEN 2 ELSE 1]
MCSymmetry == Permutations(Key) \cup Permutations({a1, a2}) \cup Permutations(Address)
=============================================================================
