--------------------------- MODULE MCCellImages ---------------------------
(* CellImages with one reused cell for three rows, two sharing a picture.    *)
EXTENDS CellImages

CONSTANTS f1, f2, f3, u1, u2, c1

MCFurnitures == {f1, f2, f3}
MCUrls == {u1, u2}
MCImageUrl == [f \in MCFurnitures |-> IF f = f3 THEN u2 ELSE u1]
MCCells == {c1}
=============================================================================
