--------------------------- MODULE MCStateStorage ---------------------------
(* A small instance of StateStorage for TLC. *)
EXTENDS StateStorage, TLC

CONSTANTS s1, s2, a, b

MCSessions == {s1, s2}
MCValues == {a, b}
Symmetry == Permutations(MCSessions) \cup Permutations(MCValues)
=============================================================================
