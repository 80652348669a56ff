----------------------------- MODULE ARScreen -----------------------------
(* One ARViewController from the end of viewDidAppear, the first AR screen  *)
(* of the process, with the furniture that virtualObjectId selects: the     *)
(* loader and its background queue, the add button, the restart lock, the   *)
(* coaching overlay, the tracked raycasts, the serial updateQueue, the      *)
(* session's anchors and the gestures.  Positions are left to other         *)
(* modules: an anchor here is only an identity.                             *)
(*                                                                          *)
(* An operator named X_Fault is X with a bug the code could have had; no    *)
(* specification uses it, PROJECT.json lists the property that catches it.  *)
EXTENDS Naturals, Sequences

CONSTANTS AnchorIds,     \* identities of the ARAnchors the app creates
          NoAnchor,      \* object.anchor = nil
          Gestures,      \* the kinds of gesture the user makes
          MaxQueue,      \* bound: blocks waiting in updateQueue
          MaxCooldowns   \* bound: 5 s restart timers running at once

ASSUME ConstantsAssumption ==
  /\ NoAnchor \notin AnchorIds
  /\ Gestures \subseteq {"pan", "twist"}
  /\ MaxQueue \in Nat \ {0}
  /\ MaxCooldowns \in Nat \ {0}

VARIABLES
  shown,               \* the screen is on display (until viewWillDisappear)
  loadedObjects,       \* virtualObjectLoader.loadedObjects.count
  isLoading,           \* virtualObjectLoader.isLoading
  pipeline,            \* loads under way, by the step each waits for
  isRestartAvailable,
  cooldowns,           \* asyncAfter(5 s) blocks of restartExperience
  button,              \* addVirtualObjectButton
  coaching,            \* the coaching overlay is active
  controlsHidden,      \* upperControlsView.isHidden
  object,              \* the VirtualObject
  sessionAnchors,      \* the object anchors the ARSession holds
  queue,               \* blocks of updateQueue, oldest first
  focus,               \* focusSquare.state
  tracking,            \* the camera's tracking state, or "interrupted"
  gesture,             \* the gesture under way, "panning" past its threshold
  trackedObject        \* virtualObjectInteraction.trackedObject is not nil

loader  == <<loadedObjects, isLoading, pipeline>>
restart == <<isRestartAvailable, cooldowns>>
overlay == <<coaching, controlsHidden>>
async   == <<queue, focus>>
input   == <<gesture, trackedObject>>
vars == <<shown, loader, restart, button, overlay, object, sessionAnchors,
          async, tracking, input>>

Stages == {"queued", "loaded", "preparing"}
Blocks == {"detecting", "initializing", "anchor"}

\* content: the reference node's children are loaded.  inScene: parent is not
\* nil.  raycast: object.raycast is a raycast still tracked.  orphan: a raycast
\* of the object that was overwritten without being stopped is still tracked.
Objects == [content : BOOLEAN, inScene : BOOLEAN, hidden : BOOLEAN,
            query : BOOLEAN, raycast : BOOLEAN, orphan : BOOLEAN,
            shouldUpdateAnchor : BOOLEAN, anchor : AnchorIds \cup {NoAnchor}]
Buttons == [enabled : BOOLEAN, hidden : BOOLEAN, image : {"add", "ring", "close"}]

TypeOK ==
  /\ shown \in BOOLEAN
  /\ loadedObjects \in Nat
  /\ isLoading \in BOOLEAN
  /\ pipeline \in [Stages -> Nat]
  /\ isRestartAvailable \in BOOLEAN
  /\ cooldowns \in 0..MaxCooldowns
  /\ button \in Buttons
  /\ coaching \in BOOLEAN /\ controlsHidden \in BOOLEAN
  /\ object \in Objects
  /\ sessionAnchors \subseteq AnchorIds
  /\ queue \in Seq(Blocks) /\ Len(queue) <= MaxQueue
  /\ focus \in {"initializing", "detecting"}
  /\ tracking \in {"limited", "normal", "interrupted"}
  /\ gesture \in {"none", "pan", "panning", "twist"}
  /\ trackedObject \in BOOLEAN

Init ==
  /\ shown = TRUE
  /\ loadedObjects = 0 /\ isLoading = FALSE
  /\ pipeline = [s \in Stages |-> 0]
  /\ isRestartAvailable = TRUE /\ cooldowns = 0
  /\ button = [enabled |-> TRUE, hidden |-> FALSE, image |-> "add"]
  /\ coaching = FALSE /\ controlsHidden = FALSE
  /\ object = [content |-> FALSE, inScene |-> FALSE, hidden |-> FALSE,
               query |-> FALSE, raycast |-> FALSE, orphan |-> FALSE,
               shouldUpdateAnchor |-> FALSE, anchor |-> NoAnchor]
  /\ sessionAnchors = {}
  /\ queue = <<>> /\ focus = "initializing"
  /\ tracking = "limited"
  /\ gesture = "none" /\ trackedObject = FALSE

-----------------------------------------------------------------------------
(* Helpers shared by the handlers.                                          *)

InFlight == pipeline["queued"] + pipeline["loaded"] + pipeline["preparing"]

\* updateQueue.async { ... }
Async(b) == Len(queue) < MaxQueue /\ queue' = Append(queue, b)

\* What removeAllVirtualObjects leaves of the object; object.anchor stays.
Removed ==
  IF loadedObjects > 0
  THEN [object EXCEPT !.raycast = FALSE, !.inScene = FALSE, !.content = FALSE]
  ELSE object

RemoveAllVirtualObjects_NoIndexCheck == loadedObjects' = loadedObjects - 1 /\ object' = Removed
RemoveAllVirtualObjects == loadedObjects' = 0 /\ object' = Removed

\* session.run(.resetTracking, .removeExistingAnchors) and the add image.
\* Tracked raycasts go on: .stopTrackedRaycasts is not among the options.
ResetTracking == sessionAnchors' = {} /\ button' = [button EXCEPT !.image = "add"]

\* The ring image and both locks, the close image and their release.
DisplayObjectLoadingUI_StaysEnabled ==
  /\ button' = [button EXCEPT !.image = "ring"]
  /\ isRestartAvailable' = FALSE
DisplayObjectLoadingUI ==
  /\ button' = [button EXCEPT !.enabled = FALSE, !.image = "ring"]
  /\ isRestartAvailable' = FALSE

HideObjectLoadingUI_OnlyWhenPlaceable ==
  /\ button' = [button EXCEPT !.enabled = object.query, !.image = "close"]
  /\ isRestartAvailable' = TRUE
HideObjectLoadingUI_ForgetsRestart ==
  /\ button' = [button EXCEPT !.enabled = TRUE, !.image = "close"]
  /\ UNCHANGED isRestartAvailable
HideObjectLoadingUI ==
  /\ button' = [button EXCEPT !.enabled = TRUE, !.image = "close"]
  /\ isRestartAvailable' = TRUE

\* addOrUpdateAnchor: a fresh anchor takes the place of the old one.
AddOrUpdateAnchor_KeepsOld ==
  \E new \in AnchorIds \ (sessionAnchors \cup {object.anchor}) :
    /\ object' = [object EXCEPT !.anchor = new]
    /\ sessionAnchors' = sessionAnchors \cup {new}
AddOrUpdateAnchor ==
  \E new \in AnchorIds \ (sessionAnchors \cup {object.anchor}) :
    /\ object' = [object EXCEPT !.anchor = new]
    /\ sessionAnchors' = (sessionAnchors \ {object.anchor}) \cup {new}

-----------------------------------------------------------------------------
(* The add button and the loader.                                           *)

TapAddButton == shown /\ button.enabled /\ ~button.hidden

\* addVirtualObject with an object loaded: the button is a close button.
RemoveTapped ==
  /\ TapAddButton /\ loadedObjects > 0
  /\ RemoveAllVirtualObjects
  /\ button' = [button EXCEPT !.image = "add"]
  /\ UNCHANGED <<shown, isLoading, pipeline, restart, overlay, sessionAnchors,
                 async, tracking, input>>

\* addVirtualObject with none: updateObjectAvailability may find a raycast
\* query or not, then the load goes to a background queue and
\* displayObjectLoadingUI locks the button and the restart.
AddTapped ==
  /\ TapAddButton /\ loadedObjects = 0
  /\ \E query \in BOOLEAN : object' = [object EXCEPT !.query = query]
  /\ isLoading' = TRUE
  /\ loadedObjects' = loadedObjects + 1
  /\ pipeline' = [pipeline EXCEPT !["queued"] = @ + 1]
  /\ DisplayObjectLoadingUI
  /\ UNCHANGED <<shown, cooldowns, overlay, sessionAnchors, async, tracking, input>>

\* Background queue: object.load().
LoadContent ==
  /\ pipeline["queued"] > 0
  /\ pipeline' = [pipeline EXCEPT !["queued"] = @ - 1, !["loaded"] = @ + 1]
  /\ object' = [object EXCEPT !.content = TRUE]
  /\ UNCHANGED <<shown, loadedObjects, isLoading, restart, button, overlay,
                 sessionAnchors, async, tracking, input>>

\* Background queue: isLoading = false, then the handler prepares the scene.
FinishLoading ==
  /\ pipeline["loaded"] > 0
  /\ pipeline' = [pipeline EXCEPT !["loaded"] = @ - 1, !["preparing"] = @ + 1]
  /\ isLoading' = FALSE
  /\ UNCHANGED <<shown, loadedObjects, restart, button, overlay, object,
                 sessionAnchors, async, tracking, input>>

\* placeVirtualObject past its guard.  ARKit may refuse the tracked raycast,
\* and may go on tracking one whose only reference is overwritten here.
Place_LeavesHidden ==
  /\ \E live \in BOOLEAN : object' = [object EXCEPT !.raycast = live]
  /\ UNCHANGED <<loadedObjects, sessionAnchors>>
Place ==
  /\ \E live \in BOOLEAN, orphan \in {object.orphan, object.orphan \/ object.raycast} :
       object' = [object EXCEPT !.raycast = live, !.orphan = orphan, !.hidden = FALSE]
  /\ UNCHANGED <<loadedObjects, sessionAnchors>>

\* placeVirtualObject when its guard fails: the anchor leaves the session.
GiveUpPlacing ==
  /\ RemoveAllVirtualObjects
  /\ sessionAnchors' = sessionAnchors \ {object.anchor}

\* Main queue, when prepare has completed: hideObjectLoadingUI, then
\* placeVirtualObject.
PlaceLoaded ==
  /\ pipeline["preparing"] > 0
  /\ pipeline' = [pipeline EXCEPT !["preparing"] = @ - 1]
  /\ HideObjectLoadingUI
  /\ IF focus # "initializing" /\ object.query THEN Place ELSE GiveUpPlacing
  /\ UNCHANGED <<shown, isLoading, cooldowns, overlay, async, tracking, input>>

-----------------------------------------------------------------------------
(* Restarting and closing.                                                  *)

\* The guard of restartExperience.
MayRestart_IgnoresLoader == isRestartAvailable
MayRestart == isRestartAvailable /\ ~isLoading

\* coachingOverlayViewDidRequestSessionReset -> restartExperience.
RestartExperience ==
  /\ shown /\ coaching
  /\ MayRestart
  /\ cooldowns < MaxCooldowns
  /\ isRestartAvailable' = FALSE
  /\ cooldowns' = cooldowns + 1
  /\ RemoveAllVirtualObjects
  /\ ResetTracking
  /\ UNCHANGED <<shown, isLoading, pipeline, overlay, async, tracking, input>>

\* The asyncAfter block of restartExperience.
CooldownFires ==
  /\ cooldowns > 0
  /\ cooldowns' = cooldowns - 1
  /\ isRestartAvailable' = TRUE
  /\ controlsHidden' = FALSE
  /\ UNCHANGED <<shown, loader, button, coaching, object, sessionAnchors,
                 async, tracking, input>>

\* The action of the alert that session(_:didFailWithError:) presents.
ErrorAlertRestart ==
  /\ shown
  /\ ResetTracking
  /\ UNCHANGED <<shown, loader, restart, overlay, object, async, tracking, input>>

\* The button of the status view dismisses the screen: prepareForClose.
CloseTapped ==
  /\ shown /\ ~controlsHidden
  /\ shown' = FALSE
  /\ RemoveAllVirtualObjects
  /\ trackedObject' = FALSE
  /\ UNCHANGED <<isLoading, pipeline, restart, button, overlay, sessionAnchors,
                 async, tracking, gesture>>

-----------------------------------------------------------------------------
(* Callbacks of ARKit and SceneKit.                                         *)

CoachingWillActivate ==
  /\ shown /\ ~coaching
  /\ coaching' = TRUE /\ controlsHidden' = TRUE
  /\ button' = [button EXCEPT !.hidden = TRUE]
  /\ UNCHANGED <<shown, loader, restart, object, sessionAnchors, async, tracking, input>>

CoachingDidDeactivate ==
  /\ shown /\ coaching
  /\ coaching' = FALSE /\ controlsHidden' = FALSE
  /\ button' = [button EXCEPT !.hidden = FALSE]
  /\ UNCHANGED <<shown, loader, restart, object, sessionAnchors, async, tracking, input>>

\* updateFocusSquare when tracking is good and the centre ray hits something.
\* A paused session renders no frames.
FrameDetecting ==
  /\ shown /\ tracking = "normal"
  /\ Async("detecting")
  /\ button' = [button EXCEPT !.hidden = @ /\ coaching]
  /\ UNCHANGED <<shown, loader, restart, overlay, object, sessionAnchors, focus,
                 tracking, input>>

\* updateFocusSquare otherwise.
FrameInitializing ==
  /\ shown
  /\ Async("initializing")
  /\ button' = [button EXCEPT !.hidden = @ \/ button.image # "close"]
  /\ UNCHANGED <<shown, loader, restart, overlay, object, sessionAnchors, focus,
                 tracking, input>>

\* A node that enters the scene, or was put down, gets a new anchor.
NeedsAnchor_OnlyFlag == object.shouldUpdateAnchor
NeedsAnchor == ~object.inScene \/ object.shouldUpdateAnchor

\* The handler of a tracked raycast: setVirtualObject3DPosition.  A paused
\* session sends no results.
RaycastUpdate ==
  /\ shown /\ tracking # "interrupted"
  /\ object.raycast \/ object.orphan
  /\ object' = [object EXCEPT !.inScene = TRUE, !.shouldUpdateAnchor = FALSE]
  /\ IF NeedsAnchor THEN Async("anchor") ELSE UNCHANGED queue
  /\ UNCHANGED <<shown, loader, restart, button, overlay, sessionAnchors, focus,
                 tracking, input>>

\* updateQueue runs its oldest block; an anchor block is addOrUpdateAnchor.
RunUpdateQueue ==
  /\ queue # <<>>
  /\ queue' = Tail(queue)
  /\ \/ /\ Head(queue) \in {"detecting", "initializing"}
        /\ focus' = Head(queue)
        /\ UNCHANGED <<object, sessionAnchors>>
     \/ /\ Head(queue) = "anchor"
        /\ AddOrUpdateAnchor
        /\ UNCHANGED focus
  /\ UNCHANGED <<shown, loader, restart, button, overlay, tracking, input>>

\* showVirtualContent and hideVirtualContent reach loadedObjects only.
SetHidden(h) == object' = [object EXCEPT !.hidden = IF loadedObjects > 0 THEN h ELSE @]

TrackingChanges(to) ==
  /\ shown
  /\ tracking' = to
  /\ UNCHANGED <<shown, loader, restart, button, overlay, sessionAnchors, async, input>>

\* cameraDidChangeTrackingState, sessionWasInterrupted and its end; a camera
\* that returns from an interruption is limited before it is normal.
TrackingNormal     == tracking = "limited" /\ TrackingChanges("normal") /\ SetHidden(FALSE)
TrackingLimited    == tracking = "normal" /\ TrackingChanges("limited") /\ UNCHANGED object
SessionInterrupted == tracking # "interrupted" /\ TrackingChanges("interrupted") /\ SetHidden(TRUE)
InterruptionEnds   == tracking = "interrupted" /\ TrackingChanges("limited") /\ UNCHANGED object

-----------------------------------------------------------------------------
(* Gestures; only one is recognised at a time.                              *)

\* A hit test finds the object by its loaded, visible content.
Hit == object.inScene /\ object.content /\ ~object.hidden

\* .began on the object; "twist" is a rotation or a pinch.
GestureBegan ==
  /\ shown /\ gesture = "none" /\ Hit
  /\ gesture' \in Gestures
  /\ trackedObject' = TRUE
  /\ UNCHANGED <<shown, loader, restart, button, overlay, object, sessionAnchors,
                 async, tracking>>

\* touchesMoved sets isThresholdExceeded.
PanExceedsThreshold ==
  /\ gesture = "pan"
  /\ gesture' = "panning"
  /\ UNCHANGED <<shown, loader, restart, button, overlay, object, sessionAnchors,
                 async, tracking, trackedObject>>

\* .changed past the threshold: translate stops the tracked raycast.
PanChanged ==
  /\ gesture = "panning" /\ trackedObject
  /\ object' = [object EXCEPT !.raycast = FALSE]
  /\ UNCHANGED <<shown, loader, restart, button, overlay, sessionAnchors, async,
                 tracking, input>>

\* setDown: a new tracked raycast, or else an anchor at the current position.
SetDown ==
  \/ /\ object' = [object EXCEPT !.raycast = TRUE, !.shouldUpdateAnchor = TRUE]
     /\ UNCHANGED queue
  \/ /\ object' = [object EXCEPT !.raycast = FALSE, !.shouldUpdateAnchor = FALSE]
     /\ Async("anchor")

\* The default case of the three handlers.
GestureOver_KeepsObject == gesture' = "none" /\ UNCHANGED trackedObject
GestureOver == gesture' = "none" /\ trackedObject' = FALSE

\* didPan .ended; setDown runs whether or not the threshold was exceeded.
PanEnded ==
  /\ gesture \in {"pan", "panning"}
  /\ GestureOver
  /\ IF trackedObject THEN SetDown ELSE UNCHANGED <<object, queue>>
  /\ UNCHANGED <<shown, loader, restart, button, overlay, sessionAnchors, focus, tracking>>

\* Any gesture cancelled, a rotation or a pinch ended.
GestureReset ==
  /\ gesture # "none"
  /\ GestureOver
  /\ UNCHANGED <<shown, loader, restart, button, overlay, object, sessionAnchors,
                 async, tracking>>

-----------------------------------------------------------------------------
LoaderStep  == LoadContent \/ FinishLoading \/ PlaceLoaded
UserStep    == \/ RemoveTapped \/ AddTapped \/ CloseTapped \/ ErrorAlertRestart
               \/ GestureBegan \/ PanExceedsThreshold \/ PanChanged \/ PanEnded
               \/ GestureReset
SessionStep == \/ RestartExperience \/ CoachingWillActivate \/ CoachingDidDeactivate
               \/ FrameDetecting \/ FrameInitializing \/ RaycastUpdate
               \/ TrackingNormal \/ TrackingLimited
               \/ SessionInterrupted \/ InterruptionEnds
Next == LoaderStep \/ UserStep \/ SessionStep \/ CooldownFires \/ RunUpdateQueue

\* Dispatch queues run what they were given and a timer fires; nothing else
\* is forced to happen.
Fairness == /\ WF_vars(LoadContent) /\ WF_vars(FinishLoading) /\ WF_vars(PlaceLoaded)
            /\ WF_vars(CooldownFires) /\ WF_vars(RunUpdateQueue)

Spec == Init /\ [][Next]_vars /\ Fairness

-----------------------------------------------------------------------------
(* Properties.                                                              *)

\* The add button is disabled exactly while its one load is under way, from
\* the tap to placeVirtualObject, whatever restarts, errors and removals come
\* in between: two loads never overlap (displayObjectLoadingUI,
\* hideObjectLoadingUI).
OneLoadInFlight == InFlight = IF button.enabled THEN 0 ELSE 1

\* While an open screen loads, no removal, restart or error takes the object out
\* of loadedObjects, and the object has its content exactly while it is listed
\* and object.load() has run: no removal misses what a background queue has
\* just loaded, and a removed object that a leftover raycast puts back in the
\* scene has nothing in it to see or to touch (removeAllVirtualObjects, load).
LoadingObjectKept ==
  shown =>
    /\ isLoading => loadedObjects = 1
    /\ object.content <=> loadedObjects > 0 /\ pipeline["queued"] = 0

\* However often the object is re-anchored, re-placed or dropped, the session
\* holds no anchor of it but the one object.anchor names (addOrUpdateAnchor,
\* placeVirtualObject).
AnchorUnique == sessionAnchors \subseteq {object.anchor}

\* A node in the scene has an anchor or an addOrUpdateAnchor block on its way:
\* setVirtualObject3DPosition never adds the node and forgets the anchor.
AnchoredOrQueued ==
  object.inScene => object.anchor # NoAnchor \/ \E i \in 1..Len(queue) : queue[i] = "anchor"

\* Restart is withheld only while somebody is going to release it: a timer of
\* restartExperience or the completion of a load.
RestartLockOwned == ~isRestartAvailable => cooldowns > 0 \/ InFlight > 0

\* With the camera tracking normally, a loaded object that no load is about to
\* show is visible, whatever interruptions and removals came before
\* (hideVirtualContent and showVirtualContent reach loaded objects only).
VisibleWhenTracking ==
  shown /\ tracking = "normal" /\ loadedObjects > 0 /\ InFlight = 0 => ~object.hidden

\* trackedObject never outlives its gesture or the screen (didPan, didRotate,
\* scaleObject, prepareForClose).
TrackedOnlyDuringGesture == trackedObject => shown /\ gesture # "none"

\* Whatever ends a gesture or interrupts the session, the screen shows the object
\* that is loaded, and holds none that nobody touches.
ViewHolds == VisibleWhenTracking /\ TrackedOnlyDuringGesture

\* The add button never stays disabled: every load ends, even when the screen
\* closes or fails to place the object.
LoadingUIEnds == ~button.enabled ~> button.enabled

\* Restarting always becomes available again, however loads and restarts
\* interleave.
RestartComesBack == ~isRestartAvailable ~> isRestartAvailable

\* The screen implements ObjectSlot.
Slot == INSTANCE ObjectSlot WITH
  open <- shown,
  slot <- IF loadedObjects = 0 THEN "empty"
          ELSE IF isLoading THEN "loading" ELSE "occupied"
ImplementsObjectSlot == Slot!Spec

-----------------------------------------------------------------------------
(* What comments and assertions of the code say, and the code breaks.       *)

\* "Disable restart for a while in order to give the session time to restart":
\* no restart while a restart timer runs.
RestartRests == cooldowns > 0 => ~isRestartAvailable

\* removeVirtualObject: "Stop the object's tracked ray cast", "Remove the
\* visual node from the scene graph": an object taken from loadedObjects is
\* not in the scene.
RemovedStaysOut == shown /\ loadedObjects = 0 => ~object.inScene
=============================================================================
