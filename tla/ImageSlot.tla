----------------------------- MODULE ImageSlot -----------------------------
(* What a DownloadingImageView promises the screen it is on: it shows no    *)
(* picture, or the one of the furniture the screen names beside it.         *)
CONSTANTS Url, None

VARIABLES
  wanted,   \* the picture of the furniture named on screen, None without one
  shown     \* the picture on display, None when there is none

svars == <<wanted, shown>>

Init == wanted = None /\ shown = None

\* The screen names a furniture: its picture is at hand, or comes later.
Name(u) == wanted' = u /\ shown' \in {None, u}

Show == wanted # None /\ shown' = wanted /\ wanted' = wanted

Next == Show \/ \E u \in Url \cup {None} : Name(u)

Spec == Init /\ [][Next]_svars
=============================================================================
