------------------------- MODULE MCStatusMessages -------------------------
(* StatusMessages on small constants for TLC.                               *)
EXTENDS StatusMessages, TLC

CONSTANTS l1, l2

MCLimitedStates == {l1, l2}

\* Limited states are only compared.
StateSymmetry == Permutations(MCLimitedStates)
=============================================================================
