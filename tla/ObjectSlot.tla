---------------------------- MODULE ObjectSlot ----------------------------
(* What an AR screen promises about the one piece of furniture it can show: *)
(* the slot is filled by a load that nothing interrupts while the screen is *)
(* open, it is emptied only when no load is under way, and a closed screen  *)
(* never fills it again.  ARScreen implements this specification.           *)

VARIABLES open,  \* the screen is on display
          slot   \* "empty", "loading" or "occupied"

svars == <<open, slot>>

SlotTypeOK == open \in BOOLEAN /\ slot \in {"empty", "loading", "occupied"}

Init == open = TRUE /\ slot = "empty"

Add    == open /\ slot = "empty"    /\ slot' = "loading"  /\ UNCHANGED open
Finish == open /\ slot = "loading"  /\ slot' = "occupied" /\ UNCHANGED open
Remove == open /\ slot = "occupied" /\ slot' = "empty"    /\ UNCHANGED open
Close  == open /\ ~open' /\ slot' = "empty"

Next == Add \/ Finish \/ Remove \/ Close

Spec == Init /\ [][Next]_svars /\ WF_svars(Finish)
=============================================================================
