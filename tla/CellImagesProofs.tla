------------------------- MODULE CellImagesProofs -------------------------
(* Proofs about CellImages for any number of rows, cells, pictures and      *)
(* downloads: its types, and that each view implements ImageSlot.           *)
EXTENDS CellImages, TLAPS

-----------------------------------------------------------------------------
(* Types.                                                                   *)

\* TypeOK bounds the downloads and the blocks of a view; its inductive form
\* bounds what LoadImage's guard bounds, their sum.
TypeInv ==
  /\ furniture \in [Views -> Furnitures \cup {None}]
  /\ imageUrlString \in [Views -> Urls \cup {None}]
  /\ image \in [Views -> Urls \cup {None}]
  /\ downloads \in [Views -> [Urls -> Nat]]
  /\ blocks \in [Views -> [Urls -> Nat]]
  /\ \A v \in Views, u \in Urls : downloads[v][u] + blocks[v][u] <= MaxDownloads

\* At first nothing is shown, wanted or under way.
LEMMA TypeInit == Init => TypeInv
  BY ConstantsAssumption DEF Init, TypeInv, Nothing

\* One more download keeps the types and the bound.
LEMMA LoadImageType ==
  ASSUME TypeInv, NEW v \in Views, NEW u \in Urls, LoadImage(v, u),
         furniture' \in [Views -> Furnitures \cup {None}], UNCHANGED blocks
  PROVE  TypeInv'
<1>1. downloads' \in [Views -> [Urls -> Nat]]
  BY DEF TypeInv, LoadImage
<1>2. ASSUME NEW w \in Views, NEW x \in Urls
      PROVE  downloads'[w][x] + blocks'[w][x] <= MaxDownloads
  <2>1. downloads'[w][x] = IF w = v /\ x = u THEN downloads[w][x] + 1 ELSE downloads[w][x]
    BY DEF TypeInv, LoadImage
  <2>2. downloads[w][x] \in Nat /\ blocks[w][x] \in Nat
    BY DEF TypeInv
  <2> QED
    BY <2>1, <2>2, ConstantsAssumption DEF TypeInv, LoadImage
<1> QED
  BY <1>1, <1>2 DEF TypeInv, LoadImage

\* A download that ends, or a block that runs, makes room; an answer with a
\* picture only moves from one count to the other.
LEMMA CountsType ==
  ASSUME TypeInv, NEW v \in Views, NEW u \in Urls,
         DataArrives(v, u) \/ DownloadFails(v, u) \/ ImageBlock(v, u)
  PROVE  TypeInv'
<1>1. /\ downloads[v][u] \in Nat /\ blocks[v][u] \in Nat
      /\ downloads[v][u] + blocks[v][u] <= MaxDownloads
  BY DEF TypeInv
<1>2. CASE DataArrives(v, u)
  <2>1. /\ downloads' \in [Views -> [Urls -> Nat]]
        /\ blocks' \in [Views -> [Urls -> Nat]]
    BY <1>1, <1>2 DEF TypeInv, DataArrives
  <2>2. ASSUME NEW w \in Views, NEW x \in Urls
        PROVE  downloads'[w][x] + blocks'[w][x] <= MaxDownloads
    <3>1. /\ downloads'[w][x] = IF w = v /\ x = u THEN downloads[w][x] - 1 ELSE downloads[w][x]
          /\ blocks'[w][x] = IF w = v /\ x = u THEN blocks[w][x] + 1 ELSE blocks[w][x]
      BY <1>2 DEF TypeInv, DataArrives
    <3> QED
      BY <3>1, <1>1 DEF TypeInv
  <2> QED
    BY <1>2, <2>1, <2>2 DEF TypeInv, DataArrives
<1>3. CASE DownloadFails(v, u)
  <2>1. downloads' \in [Views -> [Urls -> Nat]]
    BY <1>1, <1>3 DEF TypeInv, DownloadFails
  <2>2. ASSUME NEW w \in Views, NEW x \in Urls
        PROVE  downloads'[w][x] + blocks'[w][x] <= MaxDownloads
    <3>1. downloads'[w][x] = IF w = v /\ x = u THEN downloads[w][x] - 1 ELSE downloads[w][x]
      BY <1>3 DEF TypeInv, DownloadFails
    <3>2. downloads[w][x] \in Nat /\ blocks[w][x] \in Nat
      BY DEF TypeInv
    <3> QED
      BY <1>3, <3>1, <3>2, ConstantsAssumption DEF TypeInv, DownloadFails
  <2> QED
    BY <1>3, <2>1, <2>2 DEF TypeInv, DownloadFails
<1>4. CASE ImageBlock(v, u)
  <2>1. blocks' \in [Views -> [Urls -> Nat]]
    BY <1>1, <1>4 DEF TypeInv, ImageBlock
  <2>2. ASSUME NEW w \in Views, NEW x \in Urls
        PROVE  downloads'[w][x] + blocks'[w][x] <= MaxDownloads
    <3>1. blocks'[w][x] = IF w = v /\ x = u THEN blocks[w][x] - 1 ELSE blocks[w][x]
      BY <1>4 DEF TypeInv, ImageBlock
    <3>2. downloads[w][x] \in Nat /\ blocks[w][x] \in Nat
      BY DEF TypeInv
    <3> QED
      BY <1>4, <3>1, <3>2, ConstantsAssumption DEF TypeInv, ImageBlock
  <2> QED
    BY <1>4, <2>1, <2>2 DEF TypeInv, ImageBlock
<1> QED
  BY <1>2, <1>3, <1>4

\* Every step keeps the types.
LEMMA TypeNext == TypeInv /\ [Next]_vars => TypeInv'
<1> SUFFICES ASSUME TypeInv, [Next]_vars PROVE TypeInv'
  OBVIOUS
<1>1. ASSUME NEW c \in Cells, NEW f \in Furnitures, ConfigureCell(c, f)
      PROVE  TypeInv'
  <2>1. c \in Views /\ ImageUrl[f] \in Urls
    BY ConstantsAssumption DEF Views
  <2>2. furniture' \in [Views -> Furnitures \cup {None}]
    BY <1>1, <2>1 DEF TypeInv, ConfigureCell
  <2> QED
    BY <1>1, <2>1, <2>2, LoadImageType DEF ConfigureCell
<1>2. ASSUME NEW c \in Cells, OpenDetails(c)
      PROVE  TypeInv'
  <2>1. c \in Views /\ Details \in Views /\ furniture[c] \in Furnitures
    BY <1>2 DEF Views, TypeInv, OpenDetails
  <2>2. furniture' \in [Views -> Furnitures \cup {None}]
    BY <1>2, <2>1 DEF TypeInv, OpenDetails
  <2>3. CASE image[c] = None
    <3>1. ImageUrl[furniture[c]] \in Urls
      BY <2>1, ConstantsAssumption
    <3> QED
      BY <1>2, <2>1, <2>2, <2>3, <3>1, LoadImageType DEF OpenDetails
  <2>4. CASE image[c] # None
    BY <1>2, <2>1, <2>2, <2>4 DEF TypeInv, OpenDetails
  <2> QED
    BY <2>3, <2>4
<1>3. CASE CloseDetails
  <2>1. Details \in Views /\ Nothing \in [Urls -> Nat]
    BY DEF Views, Nothing
  <2>2. /\ downloads' \in [Views -> [Urls -> Nat]]
        /\ blocks' \in [Views -> [Urls -> Nat]]
    BY <1>3, <2>1 DEF TypeInv, CloseDetails
  <2>3. ASSUME NEW w \in Views, NEW x \in Urls
        PROVE  downloads'[w][x] + blocks'[w][x] <= MaxDownloads
    <3>1. CASE w = Details
      <4>1. downloads'[w][x] = 0 /\ blocks'[w][x] = 0
        BY <1>3, <2>1, <3>1 DEF TypeInv, CloseDetails, Nothing
      <4> QED
        BY <4>1, ConstantsAssumption
    <3>2. CASE w # Details
      BY <1>3, <3>2 DEF TypeInv, CloseDetails
    <3> QED
      BY <3>1, <3>2
  <2> QED
    BY <1>3, <2>1, <2>2, <2>3 DEF TypeInv, CloseDetails
<1>4. CASE UNCHANGED vars
  BY <1>4 DEF TypeInv, vars
<1> QED
  BY <1>1, <1>2, <1>3, <1>4, CountsType DEF Next

\* The pictures' state keeps its types, however many downloads are under way.
THEOREM TypeCorrect == Spec => []TypeOK
<1>1. TypeInv => TypeOK
  <2> SUFFICES ASSUME TypeInv PROVE TypeOK
    OBVIOUS
  <2>1. ASSUME NEW v \in Views, NEW u \in Urls
        PROVE  downloads[v][u] \in 0..MaxDownloads /\ blocks[v][u] \in 0..MaxDownloads
    BY ConstantsAssumption DEF TypeInv
  <2> QED
    BY <2>1 DEF TypeInv, TypeOK
<1> QED
  BY <1>1, TypeInit, TypeNext, PTL DEF Spec

-----------------------------------------------------------------------------
(* The refinement.                                                          *)

\* Picture and remembered url are those of the furniture named, or none.  The
\* second conjunct is what makes the check of ImageBlock enough: without it a
\* late answer could match a url nobody wants any more.
SlotInv ==
  \A v \in Views : /\ image[v] \in {None, Wanted(v)}
                   /\ imageUrlString[v] \in {None, Wanted(v)}

\* Views that name nothing show nothing.
LEMMA SlotInvInit == Init => SlotInv
  BY DEF Init, SlotInv

\* What is wanted is a picture, or nothing.
LEMMA WantedType ==
  ASSUME TypeInv, NEW v \in Views
  PROVE  Wanted(v) \in Urls \cup {None}
  BY ConstantsAssumption DEF TypeInv, Wanted

\* A step that leaves a view alone leaves its slot alone.
LEMMA Frame ==
  ASSUME NEW v \in Views, furniture'[v] = furniture[v], image'[v] = image[v]
  PROVE  [Slot(v)!Next]_(Slot(v)!svars)
  BY DEF Slot!Next, Slot!svars, Wanted

\* A view that names furniture f with its picture or none is a Name step.
LEMMA Named ==
  ASSUME NEW v \in Views, NEW f \in Furnitures, furniture'[v] = f,
         image'[v] \in {None, ImageUrl[f]}
  PROVE  [Slot(v)!Next]_(Slot(v)!svars)
<1>1. Wanted(v)' = ImageUrl[f] /\ ImageUrl[f] \in Urls
  BY ConstantsAssumption DEF Wanted
<1> QED
  BY <1>1 DEF Slot!Next, Slot!Name

\* Every step is a step of each view's slot, or none, and keeps its picture and
\* its url those of what it names.
LEMMA SlotNext ==
  ASSUME TypeInv, SlotInv, [Next]_vars, NEW v \in Views
  PROVE  /\ [Slot(v)!Next]_(Slot(v)!svars)
         /\ image'[v] \in {None, Wanted(v)'}
         /\ imageUrlString'[v] \in {None, Wanted(v)'}
<1> DEFINE Goal == /\ [Slot(v)!Next]_(Slot(v)!svars)
                   /\ image'[v] \in {None, Wanted(v)'}
                   /\ imageUrlString'[v] \in {None, Wanted(v)'}
<1>i. image[v] \in {None, Wanted(v)} /\ imageUrlString[v] \in {None, Wanted(v)}
  BY DEF SlotInv
<1>k. ASSUME furniture'[v] = furniture[v], image'[v] = image[v],
             imageUrlString'[v] = imageUrlString[v]
      PROVE  Goal
  BY <1>i, <1>k, Frame DEF Wanted
<1>1. ASSUME NEW w \in Views, NEW u \in Urls, DataArrives(w, u) \/ DownloadFails(w, u)
      PROVE  Goal
  BY <1>1, <1>k DEF DataArrives, DownloadFails
<1>2. ASSUME NEW w \in Views, NEW u \in Urls, ImageBlock(w, u)
      PROVE  Goal
  <2>1. CASE w = v /\ imageUrlString[v] = u
    <3>1. Wanted(v) = u /\ u # None
      BY <1>i, <2>1, ConstantsAssumption
    <3>2. image'[v] = u /\ Wanted(v)' = Wanted(v) /\ UNCHANGED imageUrlString
      BY <1>2, <2>1 DEF ImageBlock, TypeInv, Wanted
    <3>3. Slot(v)!Show
      BY <3>1, <3>2 DEF Slot!Show
    <3> QED
      BY <1>i, <3>1, <3>2, <3>3 DEF Slot!Next
  <2>2. CASE ~(w = v /\ imageUrlString[v] = u)
    BY <1>2, <1>k, <2>2 DEF ImageBlock, TypeInv
  <2> QED
    BY <2>1, <2>2
<1>3. ASSUME NEW c \in Cells, NEW f \in Furnitures, ConfigureCell(c, f)
      PROVE  Goal
  <2>1. CASE c = v
    <3>1. /\ furniture'[v] = f /\ image'[v] = None
          /\ imageUrlString'[v] = ImageUrl[f]
      BY <1>3, <2>1 DEF ConfigureCell, LoadImage, TypeInv
    <3>2. Wanted(v)' = ImageUrl[f]
      BY <3>1, ConstantsAssumption DEF Wanted
    <3> QED
      BY <3>1, <3>2, Named
  <2>2. CASE c # v
    BY <1>3, <1>k, <2>2 DEF ConfigureCell, LoadImage, TypeInv
  <2> QED
    BY <2>1, <2>2
<1>4. ASSUME NEW c \in Cells, OpenDetails(c)
      PROVE  Goal
  <2> DEFINE f == furniture[c]
  <2>1. c \in Views /\ f \in Furnitures
    BY <1>4 DEF OpenDetails, TypeInv, Views
  <2>2. image[c] \in {None, ImageUrl[f]}
    BY <2>1, ConstantsAssumption DEF SlotInv, Wanted
  <2>3. CASE v = Details
    <3>1. /\ furniture'[v] = f
          /\ image'[v] \in {None, ImageUrl[f]}
      BY <1>4, <2>2, <2>3 DEF OpenDetails, LoadImage, TypeInv
    <3>2. Wanted(v)' = ImageUrl[f]
      BY <2>1, <3>1, ConstantsAssumption DEF Wanted
    <3>3. furniture[v] = None
      BY <1>4, <2>3 DEF OpenDetails
    <3>4. imageUrlString[v] = None
      BY <1>i, <3>3 DEF Wanted
    <3>5. imageUrlString'[v] \in {None, ImageUrl[f]}
      BY <1>4, <2>3, <3>4 DEF OpenDetails, LoadImage, TypeInv
    <3> QED
      BY <2>1, <3>1, <3>2, <3>5, Named
  <2>4. CASE v # Details
    BY <1>4, <1>k, <2>4 DEF OpenDetails, LoadImage, TypeInv
  <2> QED
    BY <2>3, <2>4
<1>5. CASE CloseDetails
  <2>1. CASE v = Details
    <3>1. furniture'[v] = None /\ image'[v] = None /\ imageUrlString'[v] = None
      BY <1>5, <2>1 DEF CloseDetails, TypeInv
    <3>2. Wanted(v)' = None
      BY <3>1 DEF Wanted
    <3> QED
      BY <3>1, <3>2 DEF Slot!Next, Slot!Name
  <2>2. CASE v # Details
    BY <1>5, <1>k, <2>2 DEF CloseDetails, TypeInv
  <2> QED
    BY <2>1, <2>2
<1>6. CASE UNCHANGED vars
  BY <1>6, <1>k DEF vars
<1> QED
  BY <1>1, <1>2, <1>3, <1>4, <1>5, <1>6 DEF Next

\* No view ever shows the picture of another furniture than the one named
\* beside it, and each keeps its picture until it names something again.
THEOREM ViewsImplementImageSlot == Spec => ImplementsImageSlot
<1> DEFINE SlotStep == \A v \in Views : [Slot(v)!Next]_(Slot(v)!svars)
<1>1. Init => \A v \in Views : Slot(v)!Init
  BY DEF Init, Slot!Init, Wanted
<1>2. TypeInv /\ SlotInv /\ [Next]_vars => SlotInv' /\ [SlotStep]_vars
  BY SlotNext DEF SlotInv
<1> QED
  BY <1>1, <1>2, TypeInit, TypeNext, SlotInvInit, PTL DEF Spec, ImplementsImageSlot

-----------------------------------------------------------------------------
(* The safety half of ImageArrives: what is wanted is never dropped.        *)

\* A view that names a furniture and shows no picture remembers the url of the
\* picture it lacks (loadImage sets both; only the details screen takes a
\* picture over without its url, and then it has the picture).
LacksAndRemembers ==
  \A v \in Views : furniture[v] # None /\ image[v] = None => imageUrlString[v] = Wanted(v)

\* The block of an answered download that a view wants, before it and after it,
\* leaves the picture on display: the check against late answers, and a picture
\* taken over from a cell, never cost a view its own (downloadImageData).
WantedIsShown ==
  [][\A v \in Views, u \in Urls :
       blocks'[v][u] < blocks[v][u] /\ Wanted(v) = u /\ Wanted(v)' = u => image'[v] = u]_vars

\* Views that name nothing lack nothing.
LEMMA RemembersInit == Init => LacksAndRemembers
  BY DEF Init, LacksAndRemembers

\* A view that is left alone goes on remembering.
LEMMA RemembersFrame ==
  ASSUME LacksAndRemembers, NEW v \in Views, furniture'[v] = furniture[v],
         image'[v] = image[v], imageUrlString'[v] = imageUrlString[v]
  PROVE  furniture'[v] # None /\ image'[v] = None => imageUrlString'[v] = Wanted(v)'
  BY DEF LacksAndRemembers, Wanted

\* Every step leaves a view with its picture or with the url of it.
LEMMA RemembersNext ==
  ASSUME TypeInv, SlotInv, LacksAndRemembers, [Next]_vars, NEW v \in Views
  PROVE  furniture'[v] # None /\ image'[v] = None => imageUrlString'[v] = Wanted(v)'
<1> DEFINE Goal == furniture'[v] # None /\ image'[v] = None => imageUrlString'[v] = Wanted(v)'
<1>1. ASSUME NEW w \in Views, NEW u \in Urls,
             DataArrives(w, u) \/ DownloadFails(w, u)
      PROVE  Goal
  BY <1>1, RemembersFrame DEF DataArrives, DownloadFails
<1>2. ASSUME NEW w \in Views, NEW u \in Urls, ImageBlock(w, u)
      PROVE  Goal
  <2>1. CASE w = v /\ imageUrlString[v] = u
    <3>1. image'[v] = u /\ u # None
      BY <1>2, <2>1, ConstantsAssumption DEF ImageBlock, TypeInv
    <3> QED
      BY <3>1
  <2>2. CASE ~(w = v /\ imageUrlString[v] = u)
    BY <1>2, <2>2, RemembersFrame DEF ImageBlock, TypeInv
  <2> QED
    BY <2>1, <2>2
<1>3. ASSUME NEW c \in Cells, NEW f \in Furnitures, ConfigureCell(c, f)
      PROVE  Goal
  <2>1. CASE c = v
    <3>1. furniture'[v] = f /\ imageUrlString'[v] = ImageUrl[f]
      BY <1>3, <2>1 DEF ConfigureCell, LoadImage, TypeInv
    <3> QED
      BY <3>1 DEF Wanted
  <2>2. CASE c # v
    BY <1>3, <2>2, RemembersFrame DEF ConfigureCell, LoadImage, TypeInv
  <2> QED
    BY <2>1, <2>2
<1>4. ASSUME NEW c \in Cells, OpenDetails(c)
      PROVE  Goal
  <2>1. CASE v = Details /\ image[c] = None
    <3>1. furniture'[v] = furniture[c] /\ imageUrlString'[v] = ImageUrl[furniture[c]]
      BY <1>4, <2>1 DEF OpenDetails, LoadImage, TypeInv
    <3>2. furniture[c] # None
      BY <1>4 DEF OpenDetails
    <3> QED
      BY <3>1, <3>2 DEF Wanted
  <2>2. CASE v = Details /\ image[c] # None
    <3>1. image'[v] = image[c]
      BY <1>4, <2>2 DEF OpenDetails, TypeInv
    <3> QED
      BY <2>2, <3>1
  <2>3. CASE v # Details
    BY <1>4, <2>3, RemembersFrame DEF OpenDetails, LoadImage, TypeInv
  <2> QED
    BY <2>1, <2>2, <2>3
<1>5. CASE CloseDetails
  <2>1. CASE v = Details
    BY <1>5, <2>1 DEF CloseDetails, TypeInv
  <2>2. CASE v # Details
    BY <1>5, <2>2, RemembersFrame DEF CloseDetails, TypeInv
  <2> QED
    BY <2>1, <2>2
<1>6. CASE UNCHANGED vars
  BY <1>6, RemembersFrame DEF vars
<1> QED
  BY <1>1, <1>2, <1>3, <1>4, <1>5, <1>6 DEF Next

\* A count of blocks goes down when the block runs, or with the closed screen.
LEMMA WantedNext ==
  ASSUME TypeInv, SlotInv, LacksAndRemembers, [Next]_vars, NEW v \in Views, NEW u \in Urls,
         blocks'[v][u] < blocks[v][u], Wanted(v) = u, Wanted(v)' = u
  PROVE  image'[v] = u
<1>0. /\ u # None /\ furniture[v] # None /\ furniture'[v] # None
      /\ blocks[v][u] \in Nat
  BY ConstantsAssumption DEF Wanted, TypeInv
<1>1. CASE ImageBlock(v, u)
  <2>1. image'[v] = IF imageUrlString[v] = u THEN u ELSE image[v]
    BY <1>1 DEF ImageBlock, TypeInv
  <2>2. image[v] \in {None, u} /\ (image[v] = None => imageUrlString[v] = u)
    BY <1>0 DEF SlotInv, LacksAndRemembers
  <2> QED
    BY <2>1, <2>2
<1>2. ASSUME NEW w \in Views, NEW x \in Urls, ImageBlock(w, x), ~(w = v /\ x = u)
      PROVE  FALSE
  <2>1. blocks'[v][u] = blocks[v][u]
    BY <1>2 DEF ImageBlock, TypeInv
  <2> QED
    BY <1>0, <2>1
<1>3. ASSUME NEW w \in Views, NEW x \in Urls, DataArrives(w, x)
      PROVE  FALSE
  <2>1. blocks'[v][u] = blocks[v][u] \/ blocks'[v][u] = blocks[v][u] + 1
    BY <1>3 DEF DataArrives, TypeInv
  <2> QED
    BY <1>0, <2>1
<1>4. ASSUME blocks' = blocks
      PROVE  FALSE
  BY <1>0, <1>4
<1>5. CASE CloseDetails
  <2>1. CASE v = Details
    <3>1. furniture'[v] = None
      BY <1>5, <2>1 DEF CloseDetails, TypeInv
    <3> QED
      BY <1>0, <3>1
  <2>2. CASE v # Details
    <3>1. blocks'[v][u] = blocks[v][u]
      BY <1>5, <2>2 DEF CloseDetails, TypeInv
    <3> QED
      BY <1>0, <3>1
  <2> QED
    BY <2>1, <2>2
<1> QED
  BY <1>1, <1>2, <1>3, <1>4, <1>5
     DEF Next, vars, DownloadFails, OpenDetails, ConfigureCell

\* No answer that is wanted is dropped, whatever cells are reused and whatever
\* pictures are taken over meanwhile: with the fairness of the main queue this
\* is why ImageArrives holds.
THEOREM WantedNeverDropped == Spec => []LacksAndRemembers /\ WantedIsShown
<1> DEFINE Shown == \A v \in Views, u \in Urls :
       blocks'[v][u] < blocks[v][u] /\ Wanted(v) = u /\ Wanted(v)' = u => image'[v] = u
<1>1. TypeInv /\ SlotInv /\ [Next]_vars => SlotInv'
  BY SlotNext DEF SlotInv
<1>2. TypeInv /\ SlotInv /\ LacksAndRemembers /\ [Next]_vars => LacksAndRemembers'
  BY RemembersNext DEF LacksAndRemembers
<1>3. TypeInv /\ SlotInv /\ LacksAndRemembers /\ [Next]_vars => [Shown]_vars
  BY WantedNext
<1> QED
  BY <1>1, <1>2, <1>3, TypeInit, TypeNext, SlotInvInit, RemembersInit, PTL
     DEF Spec, WantedIsShown
=============================================================================
