--------------------------- MODULE MCFirestoreGet ---------------------------
(* Two gets: the second is made before, while or after the first is         *)
(* answered, and its listen before or after the first one's is ended.       *)
EXTENDS FirestoreGet, TLC

CONSTANTS g1, g2

TwoGets == {g1, g2}
=============================================================================
