------------------------- MODULE MCObjectPlacement -------------------------
(* ObjectPlacement on small constants for TLC.                              *)
EXTENDS ObjectPlacement, TLC

CONSTANTS p1, p2, p3, i1, i2, i3

MCPlaces == {p1, p2, p3}
MCIds == {i1, i2, i3}

\* Places and identifiers are only compared.
PlacementSymmetry == Permutations(MCPlaces) \cup Permutations(MCIds)
=============================================================================
