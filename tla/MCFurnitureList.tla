-------------------------- MODULE MCFurnitureList --------------------------
(* FurnitureList on three documents.  The first is edited twice, the second *)
(* time in its id; the second is malformed; the third has an id of the      *)
(* first.                                                                   *)
EXTENDS FurnitureList

MCDocumentOf == <<1, 1, 1, 2, 3>>
MCFieldId    == <<7, 7, 9, 0, 7>>
=============================================================================
