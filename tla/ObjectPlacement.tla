-------------------------- MODULE ObjectPlacement --------------------------
(* Where the furniture of an open AR screen is: its own position, that of   *)
(* the anchor it refers to, the positions that tracked raycasts and the     *)
(* session report, and the blocks of updateQueue that copy one to another,  *)
(* while the user adds, removes and pans it.  Rotation, pinch, visibility   *)
(* and locks are in ARScreen; they move nothing.                            *)
(*                                                                          *)
(* An operator named X_Fault is X with a bug the code could have had; no    *)
(* specification uses it, PROJECT.json lists the property that catches it.  *)
EXTENDS Naturals, Sequences

CONSTANTS Places,     \* positions in the world
          NoPlace,    \* no raycast query, no initial result
          Ids,        \* identifiers of the app's ARAnchors
          NoId,       \* object.anchor = nil
          MaxQueue    \* bound: blocks waiting in updateQueue

ASSUME ConstantsAssumption ==
  /\ NoPlace \notin Places
  /\ NoId \notin Ids
  /\ MaxQueue \in Nat \ {0}

VARIABLES
  listed,              \* virtualObjectLoader.loadedObjects holds the object
  load,                \* the load under way: its content is owed, then placed
  initial,             \* mostRecentInitialPlacementResult, set with raycastQuery
  pos,                 \* simdWorldTransform
  inScene,             \* parent is not nil
  raycast,             \* object.raycast is tracked
  orphan,              \* so is one that was overwritten without being stopped
  shouldUpdateAnchor,
  anchor,              \* object.anchor: identifier and place
  session,             \* identifiers of the anchors the session holds
  queue,               \* blocks of updateQueue, oldest first
  gesture,             \* "none", or a pan that tracks the object
  adrift               \* history: moved last by a pan that was cancelled, or by
                       \* a placement whose tracked raycast was refused

casts == <<raycast, orphan>>
vars == <<listed, load, initial, pos, inScene, casts, shouldUpdateAnchor,
          anchor, session, queue, gesture, adrift>>

Anchors == [id : Ids, place : Places] \cup {[id |-> NoId, place |-> NoPlace]}

\* Blocks of didUpdate, of setVirtualObject3DPosition and of setDown.  A block
\* of setDown is recorded with the place where the object was put down.
Blocks == [kind : {"moved"}, id : Ids, place : Places]
            \cup [kind : {"anchor", "drop"}, id : {NoId}, place : Places]

TypeOK ==
  /\ listed \in BOOLEAN /\ load \in {"none", "loading", "preparing"}
  /\ initial \in Places \cup {NoPlace} /\ pos \in Places
  /\ inScene \in BOOLEAN /\ raycast \in BOOLEAN /\ orphan \in BOOLEAN
  /\ shouldUpdateAnchor \in BOOLEAN
  /\ anchor \in Anchors /\ session \subseteq Ids
  /\ queue \in Seq(Blocks) /\ Len(queue) <= MaxQueue
  /\ gesture \in {"none", "pan", "panning"} /\ adrift \in BOOLEAN

Init ==
  /\ listed = FALSE /\ load = "none"
  /\ initial = NoPlace /\ pos \in Places
  /\ inScene = FALSE /\ raycast = FALSE /\ orphan = FALSE
  /\ shouldUpdateAnchor = FALSE
  /\ anchor = [id |-> NoId, place |-> NoPlace] /\ session = {}
  /\ queue = <<>> /\ gesture = "none" /\ adrift = FALSE

-----------------------------------------------------------------------------
(* Adding, placing and removing.                                            *)

\* updateQueue.async { ... }
Async(b) == Len(queue) < MaxQueue /\ queue' = Append(queue, b)
AnchorBlock(kind, p) == [kind |-> kind, id |-> NoId, place |-> p]

\* addVirtualObject: updateObjectAvailability casts a ray from the centre.
AddTapped ==
  /\ ~listed /\ load = "none"
  /\ initial' \in Places \cup {NoPlace}
  /\ listed' = TRUE /\ load' = "loading"
  /\ UNCHANGED <<pos, inScene, casts, shouldUpdateAnchor, anchor, session, queue,
                 gesture, adrift>>

\* Background queue: object.load(), then isLoading = false.
LoadContent ==
  /\ load = "loading" /\ load' = "preparing"
  /\ UNCHANGED <<listed, initial, pos, inScene, casts, shouldUpdateAnchor, anchor,
                 session, queue, gesture, adrift>>

\* removeAllVirtualObjects reaches what loadedObjects lists; object.anchor stays.
RemoveAllVirtualObjects ==
  /\ listed' = FALSE
  /\ raycast' = (raycast /\ ~listed)
  /\ inScene' = (inScene /\ ~listed)

\* addVirtualObject, the button being a close button.
RemoveTapped ==
  /\ listed /\ load = "none"
  /\ RemoveAllVirtualObjects
  /\ UNCHANGED <<load, initial, pos, orphan, shouldUpdateAnchor, anchor, session,
                 queue, gesture, adrift>>

\* placeVirtualObject past its guard: the object moves to the initial result,
\* and a new tracked raycast, or nil, takes the place of the old one, which
\* ARKit may go on tracking.
Place_NoQueryCheck ==
  /\ load = "preparing" /\ load' = "none"
  /\ pos' = initial
  /\ raycast' \in BOOLEAN /\ orphan' \in {orphan, orphan \/ raycast}
  /\ adrift' = ~raycast'
  /\ UNCHANGED <<listed, initial, inScene, shouldUpdateAnchor, anchor, session,
                 queue, gesture>>
Place ==
  /\ initial # NoPlace
  /\ load = "preparing" /\ load' = "none"
  /\ pos' = initial
  /\ raycast' \in BOOLEAN /\ orphan' \in {orphan, orphan \/ raycast}
  /\ adrift' = ~raycast'
  /\ UNCHANGED <<listed, initial, inScene, shouldUpdateAnchor, anchor, session,
                 queue, gesture>>

\* placeVirtualObject when there is no query, or the focus square is
\* initializing: the anchor leaves the session.
GiveUpPlacing ==
  /\ load = "preparing" /\ load' = "none"
  /\ RemoveAllVirtualObjects
  /\ session' = session \ {anchor.id}
  /\ UNCHANGED <<initial, pos, orphan, shouldUpdateAnchor, anchor, queue, gesture, adrift>>

\* The error alert's restart: resetTracking removes the session's anchors.
ErrorAlertRestart ==
  /\ session' = {}
  /\ UNCHANGED <<listed, load, initial, pos, inScene, casts, shouldUpdateAnchor,
                 anchor, queue, gesture, adrift>>

\* restartExperience, which waits for isLoading: the object goes as well.
RestartExperience ==
  /\ load # "loading"
  /\ RemoveAllVirtualObjects
  /\ session' = {}
  /\ UNCHANGED <<load, initial, pos, orphan, shouldUpdateAnchor, anchor, queue,
                 gesture, adrift>>

-----------------------------------------------------------------------------
(* What ARKit reports, and updateQueue.                                     *)

\* The handler of a tracked raycast: setVirtualObject3DPosition.
RaycastUpdate ==
  /\ raycast \/ orphan
  /\ pos' \in Places
  /\ inScene' = TRUE /\ shouldUpdateAnchor' = FALSE
  /\ IF ~inScene \/ shouldUpdateAnchor
     THEN Async(AnchorBlock("anchor", pos')) ELSE UNCHANGED queue
  /\ UNCHANGED <<listed, load, initial, casts, anchor, session, gesture, adrift>>

\* renderer(didUpdate:): the session has refined an anchor of the app's.
AnchorMoved ==
  /\ \E i \in session, p \in Places : Async([kind |-> "moved", id |-> i, place |-> p])
  /\ UNCHANGED <<listed, load, initial, pos, inScene, casts, shouldUpdateAnchor,
                 anchor, session, gesture, adrift>>

\* addOrUpdateAnchor at the object's place, with an identifier never used.
NewIds == Ids \ (session \cup {anchor.id} \cup {queue[i].id : i \in 1..Len(queue)})

AddOrUpdateAnchor ==
  \E new \in NewIds :
    /\ anchor' = [id |-> new, place |-> pos]
    /\ session' = (session \ {anchor.id}) \cup {new}

RunAnchorBlock ==
  /\ queue # <<>> /\ Head(queue).kind # "moved"
  /\ queue' = Tail(queue)
  /\ AddOrUpdateAnchor
  /\ UNCHANGED <<listed, load, initial, pos, inScene, casts, shouldUpdateAnchor,
                 gesture, adrift>>

\* didUpdate's block: the object that lists this anchor follows it.
FollowAnchor_OnlyNode(b) == pos' = b.place /\ UNCHANGED anchor
FollowAnchor(b) == pos' = b.place /\ anchor' = [id |-> b.id, place |-> b.place]

RunMovedBlock ==
  /\ queue # <<>> /\ Head(queue).kind = "moved"
  /\ queue' = Tail(queue)
  /\ IF listed /\ anchor.id = Head(queue).id
     THEN FollowAnchor(Head(queue)) ELSE UNCHANGED <<pos, anchor>>
  /\ UNCHANGED <<listed, load, initial, inScene, casts, shouldUpdateAnchor, session,
                 gesture, adrift>>

-----------------------------------------------------------------------------
(* The pan.                                                                 *)

\* .began on the object: a node in the scene with its content loaded.
PanBegan ==
  /\ gesture = "none" /\ inScene /\ listed /\ load # "loading"
  /\ gesture' = "pan"
  /\ UNCHANGED <<listed, load, initial, pos, inScene, casts, shouldUpdateAnchor,
                 anchor, session, queue, adrift>>

\* touchesMoved sets isThresholdExceeded, and .changed translates the object:
\* its raycast stops and a one-time raycast may find it a place.
PanChanged ==
  /\ gesture # "none" /\ gesture' = "panning"
  /\ raycast' = FALSE
  /\ pos' \in Places
  /\ UNCHANGED <<listed, load, initial, inScene, orphan, shouldUpdateAnchor, anchor,
                 session, queue, adrift>>

\* setDown: a new tracked raycast, or else an anchor at the current position.
SetDown_NoAnchor ==
  \/ raycast' = TRUE /\ shouldUpdateAnchor' = TRUE /\ UNCHANGED queue
  \/ raycast' = FALSE /\ shouldUpdateAnchor' = FALSE /\ UNCHANGED queue
SetDown_LeavesFlag ==
  /\ shouldUpdateAnchor' = TRUE
  /\ \/ raycast' = TRUE /\ UNCHANGED queue
     \/ raycast' = FALSE /\ Async(AnchorBlock("drop", pos))
SetDown ==
  \/ raycast' = TRUE /\ shouldUpdateAnchor' = TRUE /\ UNCHANGED queue
  \/ /\ raycast' = FALSE /\ shouldUpdateAnchor' = FALSE
     /\ Async(AnchorBlock("drop", pos))

\* didPan .ended.
PanEnded ==
  /\ gesture # "none" /\ gesture' = "none"
  /\ SetDown
  /\ adrift' = FALSE
  /\ UNCHANGED <<listed, load, initial, pos, inScene, orphan, anchor, session>>

\* didPan .cancelled or .failed: the object stays where it was dragged.
PanCancelled ==
  /\ gesture # "none" /\ gesture' = "none"
  /\ adrift' = (adrift \/ gesture = "panning")
  /\ UNCHANGED <<listed, load, initial, pos, inScene, casts, shouldUpdateAnchor,
                 anchor, session, queue>>

-----------------------------------------------------------------------------
Next == \/ AddTapped \/ LoadContent \/ RemoveTapped \/ Place \/ GiveUpPlacing
        \/ ErrorAlertRestart \/ RestartExperience
        \/ RaycastUpdate \/ AnchorMoved \/ RunAnchorBlock \/ RunMovedBlock
        \/ PanBegan \/ PanChanged \/ PanEnded \/ PanCancelled

Spec == Init /\ [][Next]_vars

-----------------------------------------------------------------------------
(* Properties.                                                              *)

AnchorOwed == \E i \in 1..Len(queue) : queue[i].kind # "moved"
\* Block k is the last that will anchor the object.
LastOwed(k) == /\ queue[k].kind # "moved"
               /\ \A i \in 1..Len(queue) : i > k => queue[i].kind = "moved"

\* Nothing tracks or drags the object in the scene.  Two exceptions are named: a
\* cancelled pan, and a placement at the initial result without a tracked raycast.
Settled == inScene /\ gesture = "none" /\ ~raycast /\ ~orphan /\ ~adrift

\* After any order of drags, drops, removals, raycasts and anchor updates, a settled
\* object is where its anchor is; or what will anchor it last is its drop, and by
\* then it is where it was dropped, or where its anchor has moved to
\* (setVirtualObject3DPosition, setDown, didUpdate).
RestsOnAnchor ==
  Settled =>
    /\ ~AnchorOwed => anchor.id # NoId /\ pos = anchor.place
    /\ \A k \in 1..Len(queue) : LastOwed(k) =>
         queue[k].kind = "drop" /\ pos \in {queue[k].place, anchor.place}

\* A put-down object whose anchor is still to be renewed has the raycast that
\* will renew it: no drop leaves the flag for a later, unrelated raycast.
PendingAnchorHasSource ==
  shouldUpdateAnchor /\ inScene /\ gesture = "none" /\ ~adrift => raycast \/ orphan

-----------------------------------------------------------------------------
(* What a comment of the code says, and the code breaks.                    *)

\* setDown: "If the tracked raycast did not succeed, simply update the anchor to
\* the object's current position": the block of the last drop anchors an object
\* that nothing has touched since at the place where it was put down.
DropKept ==
  [][ /\ queue # <<>> /\ queue' = Tail(queue) /\ Head(queue).kind = "drop"
      /\ gesture = "none" /\ ~raycast /\ ~orphan /\ ~adrift /\ listed
      /\ \A i \in 2..Len(queue) : queue[i].kind = "moved"
      => anchor'.place = Head(queue).place ]_vars
=============================================================================
