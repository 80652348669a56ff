---------------------------- MODULE CellImages ----------------------------
(* The pictures of the furniture list: each is a DownloadingImageView, in a *)
(* reused FurnitureTableViewCell or on the details screen.  URLSession      *)
(* answers in any order; each answer is handed to the main queue.           *)
(* An operator named X_Fault is the operator X with one mistake in it.      *)
EXTENDS Integers, FiniteSets

CONSTANTS Furnitures,     \* the rows of the list
          Urls,
          ImageUrl,       \* imageUrl of each furniture
          Cells,          \* the cells UIKit reuses
          Details,        \* the view on the details screen
          None,
          MaxDownloads    \* bound: downloads under way for one view

ASSUME ConstantsAssumption ==
  /\ ImageUrl \in [Furnitures -> Urls]
  /\ None \notin Furnitures \cup Urls
  /\ Details \notin Cells
  /\ MaxDownloads \in Nat

Views == Cells \cup {Details}

VARIABLES
  furniture,        \* what each view's screen names, None before any
  imageUrlString,   \* by view, None for nil
  image,            \* by view: the picture, told by its url, None for nil
  downloads,        \* by view and url: URLSession tasks under way
  blocks            \* by view and url: blocks waiting in the main queue

vars == <<furniture, imageUrlString, image, downloads, blocks>>

TypeOK ==
  /\ furniture \in [Views -> Furnitures \cup {None}]
  /\ imageUrlString \in [Views -> Urls \cup {None}]
  /\ image \in [Views -> Urls \cup {None}]
  /\ downloads \in [Views -> [Urls -> 0..MaxDownloads]]
  /\ blocks \in [Views -> [Urls -> 0..MaxDownloads]]

Nothing == [u \in Urls |-> 0]

Init ==
  /\ furniture = [v \in Views |-> None]
  /\ imageUrlString = [v \in Views |-> None]
  /\ image = [v \in Views |-> None]
  /\ downloads = [v \in Views |-> Nothing]
  /\ blocks = [v \in Views |-> Nothing]

-----------------------------------------------------------------------------
(* DownloadingImageView.                                                    *)

\* loadImage, without a placeholder as everywhere.
LoadImage_KeepsUrl(v, u) ==
  /\ downloads[v][u] + blocks[v][u] < MaxDownloads
  /\ image' = [image EXCEPT ![v] = None]
  /\ downloads' = [downloads EXCEPT ![v][u] = @ + 1]
  /\ UNCHANGED imageUrlString
LoadImage(v, u) ==
  /\ downloads[v][u] + blocks[v][u] < MaxDownloads
  /\ imageUrlString' = [imageUrlString EXCEPT ![v] = u]
  /\ image' = [image EXCEPT ![v] = None]
  /\ downloads' = [downloads EXCEPT ![v][u] = @ + 1]

\* The completion handler of downloadImageData, with a picture.
DataArrives_StaysUnderWay(v, u) ==
  /\ downloads[v][u] > 0
  /\ blocks' = [blocks EXCEPT ![v][u] = @ + 1]
  /\ UNCHANGED <<furniture, imageUrlString, image, downloads>>
DataArrives(v, u) ==
  /\ downloads[v][u] > 0
  /\ downloads' = [downloads EXCEPT ![v][u] = @ - 1]
  /\ blocks' = [blocks EXCEPT ![v][u] = @ + 1]
  /\ UNCHANGED <<furniture, imageUrlString, image>>

\* The same without data, or with data that is no picture.
DownloadFails(v, u) ==
  /\ downloads[v][u] > 0
  /\ downloads' = [downloads EXCEPT ![v][u] = @ - 1]
  /\ UNCHANGED <<furniture, imageUrlString, image, blocks>>

\* The block that handler dispatches.
ImageBlock_NoCheck(v, u) ==
  /\ blocks[v][u] > 0
  /\ blocks' = [blocks EXCEPT ![v][u] = @ - 1]
  /\ image' = [image EXCEPT ![v] = u]
  /\ UNCHANGED <<furniture, imageUrlString, downloads>>
ImageBlock(v, u) ==
  /\ blocks[v][u] > 0
  /\ blocks' = [blocks EXCEPT ![v][u] = @ - 1]
  /\ image' = IF imageUrlString[v] = u THEN [image EXCEPT ![v] = u] ELSE image
  /\ UNCHANGED <<furniture, imageUrlString, downloads>>

-----------------------------------------------------------------------------
(* The screens.                                                             *)

\* cellForRowAt: a cell comes into sight, used before or not.
ConfigureCell(c, f) ==
  /\ furniture' = [furniture EXCEPT ![c] = f]
  /\ LoadImage(c, ImageUrl[f])
  /\ UNCHANGED blocks

\* didSelectRowAt and fillInfo: the details screen takes over the picture of
\* the cell, or loads its own when the cell has none.
OpenDetails(c) ==
  /\ furniture[Details] = None /\ furniture[c] # None
  /\ furniture' = [furniture EXCEPT ![Details] = furniture[c]]
  /\ IF image[c] = None
     THEN LoadImage(Details, ImageUrl[furniture[c]])
     ELSE /\ image' = [image EXCEPT ![Details] = image[c]]
          /\ UNCHANGED <<imageUrlString, downloads>>
  /\ UNCHANGED blocks

\* The user goes back: the screen is freed, and its downloads, which hold it
\* weakly, come to nothing.
CloseDetails ==
  /\ furniture[Details] # None
  /\ furniture' = [furniture EXCEPT ![Details] = None]
  /\ imageUrlString' = [imageUrlString EXCEPT ![Details] = None]
  /\ image' = [image EXCEPT ![Details] = None]
  /\ downloads' = [downloads EXCEPT ![Details] = Nothing]
  /\ blocks' = [blocks EXCEPT ![Details] = Nothing]

Next ==
  \/ \E v \in Views, u \in Urls : DataArrives(v, u) \/ DownloadFails(v, u) \/ ImageBlock(v, u)
  \/ \E c \in Cells : OpenDetails(c) \/ \E f \in Furnitures : ConfigureCell(c, f)
  \/ CloseDetails

\* The main queue runs every block.
Fairness == \A v \in Views, u \in Urls : WF_vars(ImageBlock(v, u))

Spec == Init /\ [][Next]_vars /\ Fairness

-----------------------------------------------------------------------------
(* Properties.                                                              *)

Wanted(v) == IF furniture[v] = None THEN None ELSE ImageUrl[furniture[v]]

Slot(v) == INSTANCE ImageSlot
  WITH Url <- Urls, None <- None, wanted <- Wanted(v), shown <- image[v]

\* Reused or not, loading its picture or taking it over, with old downloads
\* still coming in: no view ever shows the picture of another furniture than
\* the one named beside it.
ImplementsImageSlot ==
  /\ \A v \in Views : Slot(v)!Init
  /\ [][\A v \in Views : [Slot(v)!Next]_(Slot(v)!svars)]_vars

\* A picture that was downloaded for what a view still names gets shown: the
\* check against late answers drops no answer that is wanted.
ImageArrives ==
  \A v \in Views, u \in Urls :
    (blocks[v][u] > 0 /\ Wanted(v) = u) ~> (image[v] = u \/ Wanted(v) # u)
=============================================================================
