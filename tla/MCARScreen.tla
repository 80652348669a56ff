---------------------------- MODULE MCARScreen ----------------------------
(* ARScreen on small constants for TLC.                                     *)
EXTENDS ARScreen, TLC

CONSTANTS a1, a2

MCAnchorIds == {a1, a2}

\* Anchors are only compared, so their names may be swapped.
AnchorSymmetry == Permutations(MCAnchorIds)
=============================================================================
