-------------------------- MODULE ARScreenProofs --------------------------
(* Proofs about ARScreen for every value of its constants: its type and     *)
(* safety invariants, and that its steps are steps of ObjectSlot.           *)
EXTENDS ARScreen, TLAPS

-----------------------------------------------------------------------------
(* What the shared helpers keep of the types.                               *)

QueueOK == queue \in Seq(Blocks) /\ Len(queue) <= MaxQueue

\* removeAllVirtualObjects leaves an object.
LEMMA RemovedType == TypeOK => Removed \in Objects
  BY DEF TypeOK, Removed, Objects

\* updateQueue.async keeps the queue a bounded sequence of blocks.
LEMMA AsyncType ==
  ASSUME NEW b \in Blocks, QueueOK, Async(b)
  PROVE  QueueOK'
  BY ConstantsAssumption DEF QueueOK, Async

\* Running the oldest block does too.
LEMMA TailType ==
  ASSUME QueueOK, queue # <<>>, queue' = Tail(queue)
  PROVE  QueueOK'
  BY ConstantsAssumption DEF QueueOK

\* The state after viewDidAppear has the declared types.
LEMMA TypeInit == Init => TypeOK
<1> SUFFICES ASSUME Init PROVE TypeOK
  OBVIOUS
<1>1. object \in Objects
  BY DEF Init, Objects
<1>2. button \in Buttons
  BY DEF Init, Buttons
<1>3. pipeline \in [Stages -> Nat]
  BY DEF Init
<1>4. queue \in Seq(Blocks) /\ Len(queue) <= MaxQueue
  BY ConstantsAssumption DEF Init
<1>5. cooldowns \in 0..MaxCooldowns
  BY ConstantsAssumption DEF Init
<1>6. /\ shown \in BOOLEAN /\ isLoading \in BOOLEAN /\ isRestartAvailable \in BOOLEAN
      /\ coaching \in BOOLEAN /\ controlsHidden \in BOOLEAN /\ trackedObject \in BOOLEAN
  BY Zenon DEF Init
<1>7. /\ loadedObjects \in Nat /\ sessionAnchors \subseteq AnchorIds
      /\ focus \in {"initializing", "detecting"}
      /\ tracking \in {"limited", "normal", "interrupted"}
      /\ gesture \in {"none", "pan", "panning", "twist"}
  BY DEF Init
<1> QED
  BY <1>1, <1>2, <1>3, <1>4, <1>5, <1>6, <1>7 DEF TypeOK

\* Every step keeps the declared types.
LEMMA TypeNext == TypeOK /\ [Next]_vars => TypeOK'
<1> SUFFICES ASSUME TypeOK, [Next]_vars PROVE TypeOK'
  OBVIOUS
<1> USE DEF loader, restart, overlay, async, input
<1>a. QueueOK
  BY DEF TypeOK, QueueOK
<1>1. CASE RemoveTapped
  <2>1. object' \in Objects
    BY <1>1, RemovedType DEF RemoveTapped, RemoveAllVirtualObjects
  <2>2. button' \in Buttons
    BY <1>1 DEF RemoveTapped, TypeOK, Buttons
  <2> QED
    BY <1>1, <2>1, <2>2 DEF RemoveTapped, RemoveAllVirtualObjects, TypeOK
<1>2. CASE AddTapped
  <2>1. object' \in Objects
    BY <1>2 DEF AddTapped, TypeOK, Objects
  <2>2. button' \in Buttons /\ isRestartAvailable' \in BOOLEAN
    BY <1>2 DEF AddTapped, DisplayObjectLoadingUI, TypeOK, Buttons
  <2>3. pipeline' \in [Stages -> Nat]
    BY <1>2 DEF AddTapped, TypeOK, Stages
  <2> QED
    BY <1>2, <2>1, <2>2, <2>3 DEF AddTapped, TypeOK
<1>3. CASE LoadContent
  <2>1. object' \in Objects
    BY <1>3 DEF LoadContent, TypeOK, Objects
  <2>2. pipeline' \in [Stages -> Nat]
    BY <1>3 DEF LoadContent, TypeOK, Stages
  <2> QED
    BY <1>3, <2>1, <2>2 DEF LoadContent, TypeOK
<1>4. CASE FinishLoading
  <2>1. pipeline' \in [Stages -> Nat]
    BY <1>4 DEF FinishLoading, TypeOK, Stages
  <2> QED
    BY <1>4, <2>1 DEF FinishLoading, TypeOK
<1>5. CASE PlaceLoaded
  <2>1. button' \in Buttons /\ isRestartAvailable' \in BOOLEAN
    BY <1>5 DEF PlaceLoaded, HideObjectLoadingUI, TypeOK, Buttons
  <2>2. pipeline' \in [Stages -> Nat]
    BY <1>5 DEF PlaceLoaded, TypeOK, Stages
  <2>3. CASE Place
    <3>1. object' \in Objects
      BY <2>3 DEF Place, TypeOK, Objects
    <3> QED
      BY <1>5, <2>1, <2>2, <2>3, <3>1 DEF PlaceLoaded, Place, TypeOK
  <2>4. CASE GiveUpPlacing
    <3>1. object' \in Objects
      BY <2>4, RemovedType DEF GiveUpPlacing, RemoveAllVirtualObjects
    <3> QED
      BY <1>5, <2>1, <2>2, <2>4, <3>1
         DEF PlaceLoaded, GiveUpPlacing, RemoveAllVirtualObjects, TypeOK
  <2> QED
    BY <1>5, <2>3, <2>4 DEF PlaceLoaded
<1>6. CASE RestartExperience
  <2>1. object' \in Objects
    BY <1>6, RemovedType DEF RestartExperience, RemoveAllVirtualObjects
  <2>2. button' \in Buttons
    BY <1>6 DEF RestartExperience, ResetTracking, TypeOK, Buttons
  <2>3. cooldowns' \in 0..MaxCooldowns
    BY <1>6, ConstantsAssumption DEF RestartExperience, TypeOK
  <2> QED
    BY <1>6, <2>1, <2>2, <2>3
       DEF RestartExperience, RemoveAllVirtualObjects, ResetTracking, TypeOK
<1>7. CASE CooldownFires
  <2>1. cooldowns' \in 0..MaxCooldowns
    BY <1>7, ConstantsAssumption DEF CooldownFires, TypeOK
  <2> QED
    BY <1>7, <2>1 DEF CooldownFires, TypeOK
<1>8. CASE ErrorAlertRestart
  <2>1. button' \in Buttons
    BY <1>8 DEF ErrorAlertRestart, ResetTracking, TypeOK, Buttons
  <2> QED
    BY <1>8, <2>1 DEF ErrorAlertRestart, ResetTracking, TypeOK
<1>9. CASE CloseTapped
  <2>1. object' \in Objects
    BY <1>9, RemovedType DEF CloseTapped, RemoveAllVirtualObjects
  <2> QED
    BY <1>9, <2>1 DEF CloseTapped, RemoveAllVirtualObjects, TypeOK
<1>10. CASE CoachingWillActivate \/ CoachingDidDeactivate
  <2>1. button' \in Buttons
    BY <1>10 DEF CoachingWillActivate, CoachingDidDeactivate, TypeOK, Buttons
  <2> QED
    BY <1>10, <2>1 DEF CoachingWillActivate, CoachingDidDeactivate, TypeOK
<1>11. CASE FrameDetecting \/ FrameInitializing
  <2>1. button' \in Buttons
    BY <1>11 DEF FrameDetecting, FrameInitializing, TypeOK, Buttons
  <2>2. QueueOK'
    BY <1>11, <1>a, AsyncType DEF FrameDetecting, FrameInitializing, Blocks
  <2> QED
    BY <1>11, <2>1, <2>2 DEF FrameDetecting, FrameInitializing, QueueOK, TypeOK
<1>12. CASE RaycastUpdate
  <2>1. object' \in Objects
    BY <1>12 DEF RaycastUpdate, TypeOK, Objects
  <2>2. QueueOK'
    <3>1. CASE NeedsAnchor
      BY <1>12, <3>1, <1>a, AsyncType DEF RaycastUpdate, Blocks
    <3>2. CASE ~NeedsAnchor
      BY <1>12, <3>2, <1>a DEF RaycastUpdate, QueueOK
    <3> QED
      BY <3>1, <3>2
  <2> QED
    BY <1>12, <2>1, <2>2 DEF RaycastUpdate, QueueOK, TypeOK
<1>13. CASE RunUpdateQueue
  <2>1. object' \in Objects /\ sessionAnchors' \subseteq AnchorIds
    BY <1>13 DEF RunUpdateQueue, AddOrUpdateAnchor, TypeOK, Objects
  <2>2. QueueOK'
    BY <1>13, <1>a, TailType DEF RunUpdateQueue
  <2>3. focus' \in {"initializing", "detecting"}
    BY <1>13 DEF RunUpdateQueue, TypeOK
  <2> QED
    BY <1>13, <2>1, <2>2, <2>3 DEF RunUpdateQueue, QueueOK, TypeOK
<1>14. CASE TrackingNormal \/ TrackingLimited \/ SessionInterrupted \/ InterruptionEnds
  <2>1. PICK to \in {"normal", "limited", "interrupted"} : TrackingChanges(to)
    BY <1>14 DEF TrackingNormal, TrackingLimited, SessionInterrupted, InterruptionEnds
  <2>2. object' \in Objects
    <3>1. object' = object \/ SetHidden(FALSE) \/ SetHidden(TRUE)
      BY <1>14 DEF TrackingNormal, TrackingLimited, SessionInterrupted, InterruptionEnds
    <3>2. \A h \in BOOLEAN : [object EXCEPT !.hidden = h] \in Objects
      BY DEF TypeOK, Objects
    <3>3. object \in Objects /\ object.hidden \in BOOLEAN
      BY DEF TypeOK, Objects
    <3> QED
      BY <3>1, <3>2, <3>3 DEF SetHidden
  <2> QED
    BY <2>1, <2>2 DEF TrackingChanges, TypeOK
<1>15. CASE GestureBegan \/ PanExceedsThreshold \/ GestureReset
  <2>1. CASE GestureBegan
    BY <2>1, ConstantsAssumption DEF GestureBegan, TypeOK
  <2>2. CASE PanExceedsThreshold
    BY <2>2 DEF PanExceedsThreshold, TypeOK
  <2>3. CASE GestureReset
    BY <2>3 DEF GestureReset, GestureOver, TypeOK
  <2> QED
    BY <1>15, <2>1, <2>2, <2>3
<1>16. CASE PanChanged
  <2>1. object' \in Objects
    BY <1>16 DEF PanChanged, TypeOK, Objects
  <2> QED
    BY <1>16, <2>1 DEF PanChanged, TypeOK
<1>17. CASE PanEnded
  <2>1. object' \in Objects
    BY <1>17 DEF PanEnded, SetDown, TypeOK, Objects
  <2>2. QueueOK'
    BY <1>17, <1>a, AsyncType DEF PanEnded, SetDown, QueueOK, Blocks
  <2> QED
    BY <1>17, <2>1, <2>2 DEF PanEnded, GestureOver, QueueOK, TypeOK
<1>18. CASE UNCHANGED vars
  BY <1>18 DEF vars, TypeOK
<1> QED
  BY <1>1, <1>2, <1>3, <1>4, <1>5, <1>6, <1>7, <1>8, <1>9, <1>10, <1>11, <1>12,
     <1>13, <1>14, <1>15, <1>16, <1>17, <1>18
     DEF Next, LoaderStep, UserStep, SessionStep

\* Type correctness of the AR screen.
THEOREM TypeCorrect == Spec => []TypeOK
  BY TypeInit, TypeNext, PTL DEF Spec

-----------------------------------------------------------------------------
(* The loader: one load at a time, and nothing removes or unloads the       *)
(* object under it.                                                         *)

\* virtualObjectLoader.isLoading, set on the main queue and cleared on a
\* background queue, is true exactly while object.load() is owed or done but
\* not reported: no load clears the flag of another.
LoadingFlagExact == isLoading <=> pipeline["queued"] + pipeline["loaded"] > 0

\* LoadingObjectKept is not inductive alone: a removal is harmless because a
\* load in flight keeps the button disabled (OneLoadInFlight) and because
\* isLoading, which guards the restart, is exact (LoadingFlagExact).
LoaderInv == /\ OneLoadInFlight
             /\ LoadingFlagExact
             /\ LoadingObjectKept
             /\ loadedObjects <= 1
             /\ ~shown => loadedObjects = 0

\* object.load() and its report move a load along without ending it.
LEMMA LoadMoves == TypeOK /\ (LoadContent \/ FinishLoading) => InFlight' = InFlight
<1> SUFFICES ASSUME TypeOK, LoadContent \/ FinishLoading PROVE InFlight' = InFlight
  OBVIOUS
<1>1. /\ pipeline \in [Stages -> Nat]
      /\ pipeline["queued"] \in Nat /\ pipeline["loaded"] \in Nat
      /\ pipeline["preparing"] \in Nat
  BY DEF TypeOK, Stages
<1>2. CASE LoadContent
  BY <1>1, <1>2 DEF LoadContent, InFlight, Stages
<1>3. CASE FinishLoading
  BY <1>1, <1>3 DEF FinishLoading, InFlight, Stages
<1> QED
  BY <1>2, <1>3

\* A screen that has just appeared loads nothing.
LEMMA LoaderInit == Init => LoaderInv
<1> SUFFICES ASSUME Init PROVE LoaderInv
  OBVIOUS
<1>1. button.enabled /\ ~object.content
  BY DEF Init
<1>2. /\ pipeline["queued"] = 0 /\ pipeline["loaded"] = 0 /\ pipeline["preparing"] = 0
      /\ loadedObjects = 0 /\ ~isLoading
  BY DEF Init, Stages
<1> QED
  BY <1>1, <1>2 DEF LoaderInv, OneLoadInFlight, InFlight, LoadingFlagExact,
                    LoadingObjectKept

\* Steps that leave the loader, the lock of the button and the content alone.
LoaderUntouched == /\ UNCHANGED <<shown, loader>>
                   /\ button'.enabled = button.enabled
                   /\ object'.content = object.content

\* Those steps keep what the loader's invariant says.
LEMMA LoaderFrame == LoaderInv /\ LoaderUntouched => LoaderInv'
  BY DEF LoaderInv, LoaderUntouched, loader, OneLoadInFlight, InFlight, LoadingFlagExact,
         LoadingObjectKept

\* A removal unloads the object, or finds none to remove.
LEMMA RemovalUnloads ==
  ASSUME TypeOK, RemoveAllVirtualObjects
  PROVE  ~object'.content \/ (object' = object /\ loadedObjects = 0)
<1>1. CASE loadedObjects > 0
  BY <1>1 DEF TypeOK, RemoveAllVirtualObjects, Removed, Objects
<1>2. CASE loadedObjects = 0
  BY <1>2 DEF RemoveAllVirtualObjects, Removed
<1> QED
  BY <1>1, <1>2 DEF TypeOK

\* A removal on an open screen, with no load before its completion, unloads.
LEMMA LoaderRemoval ==
  ASSUME TypeOK, LoaderInv, ~isLoading, RemoveAllVirtualObjects,
         UNCHANGED <<shown, isLoading, pipeline>>, button'.enabled = button.enabled
  PROVE  LoaderInv'
  BY RemovalUnloads DEF LoaderInv, RemoveAllVirtualObjects, OneLoadInFlight, InFlight,
                        LoadingFlagExact, LoadingObjectKept

\* Every handler and callback keeps the loader's invariant.
LEMMA LoaderNext == TypeOK /\ LoaderInv /\ [Next]_vars => LoaderInv'
<1> SUFFICES ASSUME TypeOK, LoaderInv, [Next]_vars PROVE LoaderInv'
  OBVIOUS
<1> USE DEF loader, restart, overlay, async, input
<1>p. /\ pipeline \in [Stages -> Nat]
      /\ pipeline["queued"] \in Nat /\ pipeline["loaded"] \in Nat
      /\ pipeline["preparing"] \in Nat /\ loadedObjects \in Nat
  BY DEF TypeOK, Stages
<1>1. CASE RemoveTapped
  <2>1. ~isLoading
    BY <1>1, <1>p DEF RemoveTapped, TapAddButton, LoaderInv, OneLoadInFlight, InFlight,
                      LoadingFlagExact
  <2>2. button'.enabled = button.enabled
    BY <1>1 DEF RemoveTapped, TypeOK, Buttons
  <2> QED
    BY <1>1, <2>1, <2>2, LoaderRemoval DEF RemoveTapped
<1>2. CASE AddTapped
  <2>1. ~button'.enabled /\ button.enabled
    BY <1>2 DEF AddTapped, TapAddButton, DisplayObjectLoadingUI, TypeOK, Buttons
  <2>2. /\ pipeline'["queued"] = pipeline["queued"] + 1
        /\ pipeline'["loaded"] = pipeline["loaded"]
        /\ pipeline'["preparing"] = pipeline["preparing"]
    BY <1>2, <1>p DEF AddTapped, Stages
  <2>3. pipeline["queued"] = 0 /\ pipeline["loaded"] = 0 /\ pipeline["preparing"] = 0
    BY <1>p, <2>1 DEF LoaderInv, OneLoadInFlight, InFlight
  <2>4. shown' /\ isLoading' /\ loadedObjects' = 1
    BY <1>2 DEF AddTapped, TapAddButton
  <2>5. ~object'.content
    <3>1. shown /\ loadedObjects = 0
      BY <1>2 DEF AddTapped, TapAddButton
    <3>2. ~object.content
      BY <3>1 DEF LoaderInv, LoadingObjectKept
    <3>3. object'.content = object.content
      BY <1>2 DEF AddTapped, TypeOK, Objects
    <3> QED
      BY <3>2, <3>3
  <2>6. pipeline'["queued"] = 1
    BY <2>2, <2>3
  <2> QED
    BY <2>1, <2>2, <2>3, <2>4, <2>5, <2>6
       DEF LoaderInv, OneLoadInFlight, InFlight, LoadingFlagExact,
           LoadingObjectKept
<1>3. CASE LoadContent
  <2>1. /\ pipeline'["queued"] = pipeline["queued"] - 1
        /\ pipeline'["loaded"] = pipeline["loaded"] + 1
        /\ pipeline'["preparing"] = pipeline["preparing"]
    BY <1>3, <1>p DEF LoadContent, Stages
  <2>2. object'.content
    BY <1>3 DEF LoadContent, TypeOK, Objects
  <2>3. pipeline["queued"] > 0 /\ UNCHANGED <<shown, loadedObjects, isLoading, button>>
    BY <1>3 DEF LoadContent
  <2>4. isLoading /\ pipeline'["queued"] = 0
    <3>1. pipeline["queued"] + pipeline["loaded"] + pipeline["preparing"] <= 1
      BY DEF LoaderInv, OneLoadInFlight, InFlight
    <3>2. pipeline["queued"] = 1 /\ pipeline["queued"] + pipeline["loaded"] > 0
      BY <1>p, <2>3, <3>1
    <3>3. isLoading
      BY <3>2 DEF LoaderInv, LoadingFlagExact
    <3> QED
      BY <2>1, <3>2, <3>3
  <2>5. shown => loadedObjects = 1
    BY <2>4 DEF LoaderInv, LoadingObjectKept
  <2>6. pipeline'["queued"] + pipeline'["loaded"] > 0
    BY <1>p, <2>1, <2>3
  <2>7. InFlight' = InFlight
    BY <1>3, LoadMoves
  <2> QED
    BY <2>2, <2>3, <2>4, <2>5, <2>6, <2>7
       DEF LoaderInv, OneLoadInFlight, LoadingFlagExact,
           LoadingObjectKept
<1>4. CASE FinishLoading
  <2>1. /\ pipeline'["queued"] = pipeline["queued"]
        /\ pipeline'["loaded"] = pipeline["loaded"] - 1
        /\ pipeline'["preparing"] = pipeline["preparing"] + 1
    BY <1>4, <1>p DEF FinishLoading, Stages
  <2> QED
    BY <1>4, <1>p, <2>1
       DEF FinishLoading, LoaderInv, OneLoadInFlight, InFlight, LoadingFlagExact,
           LoadingObjectKept
<1>5. CASE PlaceLoaded
  <2>1. /\ pipeline'["queued"] = pipeline["queued"]
        /\ pipeline'["loaded"] = pipeline["loaded"]
        /\ pipeline'["preparing"] = pipeline["preparing"] - 1
    BY <1>5, <1>p DEF PlaceLoaded, Stages
  <2>2. button'.enabled
    BY <1>5 DEF PlaceLoaded, HideObjectLoadingUI, TypeOK, Buttons
  <2>3. ~isLoading /\ ~isLoading'
    BY <1>5, <1>p DEF PlaceLoaded, LoaderInv, OneLoadInFlight, InFlight, LoadingFlagExact
  <2>4. CASE Place
    <3>1. object'.content = object.content /\ loadedObjects' = loadedObjects
      BY <2>4 DEF Place, TypeOK, Objects
    <3> QED
      BY <1>5, <1>p, <2>1, <2>2, <2>3, <3>1
         DEF PlaceLoaded, LoaderInv, OneLoadInFlight, InFlight, LoadingFlagExact,
             LoadingObjectKept
  <2>5. CASE GiveUpPlacing
    <3>1. ~object'.content \/ (object' = object /\ loadedObjects = 0)
      BY <2>5, RemovalUnloads DEF GiveUpPlacing
    <3> QED
      BY <1>5, <1>p, <2>1, <2>2, <2>3, <2>5, <3>1
         DEF PlaceLoaded, GiveUpPlacing, RemoveAllVirtualObjects, LoaderInv, OneLoadInFlight,
             InFlight, LoadingFlagExact, LoadingObjectKept
  <2> QED
    BY <1>5, <2>4, <2>5 DEF PlaceLoaded
<1>6. CASE RestartExperience
  <2>1. button'.enabled = button.enabled
    BY <1>6 DEF RestartExperience, ResetTracking, TypeOK, Buttons
  <2> QED
    BY <1>6, <2>1, LoaderRemoval DEF RestartExperience, MayRestart
<1>7. CASE CloseTapped
  BY <1>7 DEF CloseTapped, RemoveAllVirtualObjects, LoaderInv, OneLoadInFlight, InFlight,
              LoadingFlagExact, LoadingObjectKept
<1>8. CASE ErrorAlertRestart \/ CoachingWillActivate \/ CoachingDidDeactivate
           \/ FrameDetecting \/ FrameInitializing
  <2>1. button'.enabled = button.enabled
    BY <1>8 DEF ErrorAlertRestart, ResetTracking, CoachingWillActivate, CoachingDidDeactivate,
                FrameDetecting, FrameInitializing, TypeOK, Buttons
  <2>2. UNCHANGED <<shown, loader, object>>
    BY <1>8 DEF ErrorAlertRestart, CoachingWillActivate, CoachingDidDeactivate,
                FrameDetecting, FrameInitializing
  <2> QED
    BY <2>1, <2>2, LoaderFrame DEF LoaderUntouched
<1>9. CASE RaycastUpdate \/ RunUpdateQueue \/ PanChanged \/ PanEnded
  <2>1. object'.content = object.content
    BY <1>9 DEF RaycastUpdate, RunUpdateQueue, AddOrUpdateAnchor, PanChanged, PanEnded,
                SetDown, TypeOK, Objects
  <2>2. UNCHANGED <<shown, loader, button>>
    BY <1>9 DEF RaycastUpdate, RunUpdateQueue, PanChanged, PanEnded
  <2> QED
    BY <2>1, <2>2, LoaderFrame DEF LoaderUntouched
<1>10. CASE TrackingNormal \/ TrackingLimited \/ SessionInterrupted \/ InterruptionEnds
  <2> USE DEF TrackingNormal, TrackingLimited, SessionInterrupted, InterruptionEnds,
              TrackingChanges
  <2>1. object'.content = object.content
    BY <1>10 DEF SetHidden, TypeOK, Objects
  <2>2. UNCHANGED <<shown, loader, button>>
    BY <1>10
  <2> QED
    BY <2>1, <2>2, LoaderFrame DEF LoaderUntouched
<1>11. CASE \/ CooldownFires \/ GestureBegan \/ PanExceedsThreshold \/ GestureReset
            \/ UNCHANGED vars
  BY <1>11, LoaderFrame DEF CooldownFires, GestureBegan, PanExceedsThreshold, GestureReset,
                            vars, LoaderUntouched
<1> QED
  BY <1>1, <1>2, <1>3, <1>4, <1>5, <1>6, <1>7, <1>8, <1>9, <1>10, <1>11
     DEF Next, LoaderStep, UserStep, SessionStep

-----------------------------------------------------------------------------
(* The restart lock.                                                        *)

\* At first the restart is available.
LEMMA RestartInit == Init => RestartLockOwned
  BY DEF Init, RestartLockOwned

\* Whoever withholds the restart still has its release to come.
LEMMA RestartNext == TypeOK /\ RestartLockOwned /\ [Next]_vars => RestartLockOwned'
<1> SUFFICES ASSUME TypeOK, RestartLockOwned, [Next]_vars PROVE RestartLockOwned'
  OBVIOUS
<1> USE DEF loader, restart, overlay, async, input
<1>p. /\ pipeline["queued"] \in Nat /\ pipeline["loaded"] \in Nat
      /\ pipeline["preparing"] \in Nat /\ cooldowns \in Nat
  BY ConstantsAssumption DEF TypeOK, Stages
<1>1. CASE AddTapped
  BY <1>1, <1>p DEF AddTapped, TypeOK, Stages, RestartLockOwned, InFlight
<1>2. CASE LoadContent
  <2>1. InFlight' = InFlight
    BY <1>2, LoadMoves
  <2> QED
    BY <1>2, <2>1 DEF LoadContent, RestartLockOwned
<1>3. CASE FinishLoading
  <2>1. InFlight' = InFlight
    BY <1>3, LoadMoves
  <2> QED
    BY <1>3, <2>1 DEF FinishLoading, RestartLockOwned
<1>4. CASE PlaceLoaded
  BY <1>4 DEF PlaceLoaded, HideObjectLoadingUI, RestartLockOwned
<1>5. CASE RestartExperience
  BY <1>5, <1>p DEF RestartExperience, RestartLockOwned
<1>6. CASE CooldownFires
  BY <1>6 DEF CooldownFires, RestartLockOwned
<1>7. CASE UNCHANGED <<pipeline, restart>>
  BY <1>7 DEF RestartLockOwned, InFlight
<1> QED
  BY <1>1, <1>2, <1>3, <1>4, <1>5, <1>6, <1>7
     DEF Next, LoaderStep, UserStep, SessionStep, vars, RemoveTapped, CloseTapped,
         ErrorAlertRestart, GestureBegan, PanExceedsThreshold, PanChanged, PanEnded,
         GestureReset, CoachingWillActivate, CoachingDidDeactivate, FrameDetecting,
         FrameInitializing, RaycastUpdate, TrackingNormal, TrackingLimited,
         SessionInterrupted, InterruptionEnds, TrackingChanges, RunUpdateQueue

-----------------------------------------------------------------------------
(* Anchors.                                                                 *)

AnchorInv == AnchorUnique /\ AnchoredOrQueued

\* At first there is no anchor, and nothing in the scene.
LEMMA AnchorInit == Init => AnchorInv
<1> SUFFICES ASSUME Init PROVE AnchorInv
  OBVIOUS
<1>1. sessionAnchors = {} /\ ~object.inScene
  BY DEF Init
<1> QED
  BY <1>1 DEF AnchorInv, AnchorUnique, AnchoredOrQueued

\* A queued block stays queued when another one is added.
LEMMA QueuedStays ==
  ASSUME NEW b \in Blocks, queue \in Seq(Blocks), Async(b)
  PROVE  /\ (\E i \in 1..Len(queue) : queue[i] = "anchor")
              => (\E i \in 1..Len(queue') : queue'[i] = "anchor")
         /\ b = "anchor" => \E i \in 1..Len(queue') : queue'[i] = "anchor"
<1>1. queue' = Append(queue, b) /\ Len(queue') = Len(queue) + 1 /\ Len(queue) \in Nat
  BY DEF Async
<1>2. \A i \in 1..Len(queue) : i \in 1..Len(queue') /\ queue'[i] = queue[i]
  BY <1>1
<1>3. Len(queue') \in 1..Len(queue') /\ queue'[Len(queue')] = b
  BY <1>1
<1> QED
  BY <1>2, <1>3

\* The oldest block apart, every queued block stays queued when it is run.
LEMMA QueuedButHead ==
  ASSUME queue \in Seq(Blocks), queue # <<>>, queue' = Tail(queue), Head(queue) # "anchor",
         \E i \in 1..Len(queue) : queue[i] = "anchor"
  PROVE  \E i \in 1..Len(queue') : queue'[i] = "anchor"
<1>1. PICK i \in 1..Len(queue) : queue[i] = "anchor"
  OBVIOUS
<1>2. i # 1
  BY <1>1
<1>3. i - 1 \in 1..Len(queue') /\ queue'[i - 1] = queue[i]
  BY <1>1, <1>2
<1> QED
  BY <1>1, <1>3

\* Removing never puts the object into the scene, nor touches its anchor.
LEMMA RemovalKeepsAnchor ==
  ASSUME TypeOK, RemoveAllVirtualObjects
  PROVE  object'.anchor = object.anchor /\ (object'.inScene => object.inScene)
<1>1. CASE loadedObjects > 0
  BY <1>1 DEF TypeOK, RemoveAllVirtualObjects, Removed, Objects
<1>2. CASE ~(loadedObjects > 0)
  BY <1>2 DEF RemoveAllVirtualObjects, Removed
<1> QED
  BY <1>1, <1>2

\* A step that adds no anchor, brings no node into the scene and loses no
\* anchor block keeps the invariant.
LEMMA AnchorFrame ==
  ASSUME AnchorInv, sessionAnchors' \subseteq sessionAnchors,
         object'.anchor = object.anchor, object'.inScene => object.inScene,
         (\E i \in 1..Len(queue) : queue[i] = "anchor")
           => (\E i \in 1..Len(queue') : queue'[i] = "anchor")
  PROVE  AnchorInv'
  BY DEF AnchorInv, AnchorUnique, AnchoredOrQueued

\* Placing, setting down, removing and resetting keep the anchors in order.
LEMMA AnchorNext == TypeOK /\ AnchorInv /\ [Next]_vars => AnchorInv'
<1> SUFFICES ASSUME TypeOK, AnchorInv, [Next]_vars PROVE AnchorInv'
  OBVIOUS
<1> USE DEF loader, restart, overlay, async, input
<1>q. queue \in Seq(Blocks)
  BY DEF TypeOK
<1>1. CASE RemoveTapped
  BY <1>1, RemovalKeepsAnchor, AnchorFrame DEF RemoveTapped
<1>2. CASE RestartExperience
  BY <1>2, RemovalKeepsAnchor, AnchorFrame DEF RestartExperience, ResetTracking
<1>3. CASE CloseTapped
  BY <1>3, RemovalKeepsAnchor, AnchorFrame DEF CloseTapped
<1>4. CASE PlaceLoaded
  <2>1. CASE Place
    <3>1. object'.anchor = object.anchor /\ object'.inScene = object.inScene
      BY <2>1 DEF Place, TypeOK, Objects
    <3> QED
      BY <1>4, <2>1, <3>1, AnchorFrame DEF PlaceLoaded, Place
  <2>2. CASE GiveUpPlacing
    BY <1>4, <2>2, RemovalKeepsAnchor, AnchorFrame DEF PlaceLoaded, GiveUpPlacing
  <2> QED
    BY <1>4, <2>1, <2>2 DEF PlaceLoaded
<1>5. CASE AddTapped \/ LoadContent \/ PanChanged
  <2>1. object'.anchor = object.anchor /\ object'.inScene = object.inScene
    BY <1>5 DEF AddTapped, LoadContent, PanChanged, TypeOK, Objects
  <2> QED
    BY <1>5, <2>1, AnchorFrame DEF AddTapped, LoadContent, PanChanged
<1>6. CASE FrameDetecting \/ FrameInitializing
  BY <1>6, <1>q, QueuedStays, AnchorFrame DEF FrameDetecting, FrameInitializing, Blocks
<1>7. CASE RaycastUpdate
  <2>1. object'.anchor = object.anchor
    BY <1>7 DEF RaycastUpdate, TypeOK, Objects
  <2>2. CASE NeedsAnchor
    BY <1>7, <1>q, <2>1, <2>2, QueuedStays
       DEF RaycastUpdate, Blocks, AnchorInv, AnchorUnique, AnchoredOrQueued
  <2>3. CASE ~NeedsAnchor
    BY <1>7, <2>1, <2>3
       DEF RaycastUpdate, NeedsAnchor, AnchorInv, AnchorUnique, AnchoredOrQueued
  <2> QED
    BY <2>2, <2>3
<1>8. CASE RunUpdateQueue
  <2>1. CASE Head(queue) = "anchor"
    <3>1. /\ object'.anchor \in AnchorIds
          /\ sessionAnchors' = (sessionAnchors \ {object.anchor}) \cup {object'.anchor}
      BY <1>8, <2>1 DEF RunUpdateQueue, AddOrUpdateAnchor, TypeOK, Objects
    <3> QED
      BY <3>1, ConstantsAssumption DEF AnchorInv, AnchorUnique, AnchoredOrQueued
  <2>2. CASE Head(queue) # "anchor"
    BY <1>8, <1>q, <2>2, QueuedButHead, AnchorFrame DEF RunUpdateQueue
  <2> QED
    BY <2>1, <2>2
<1>9. CASE PanEnded
  <2>1. object'.anchor = object.anchor /\ object'.inScene = object.inScene
    BY <1>9 DEF PanEnded, SetDown, TypeOK, Objects
  <2>2. queue' = queue \/ Async("anchor")
    BY <1>9 DEF PanEnded, SetDown
  <2> QED
    BY <1>9, <1>q, <2>1, <2>2, QueuedStays, AnchorFrame DEF PanEnded, Blocks
<1>10. CASE TrackingNormal \/ TrackingLimited \/ SessionInterrupted \/ InterruptionEnds
  <2> USE DEF TrackingNormal, TrackingLimited, SessionInterrupted, InterruptionEnds,
              TrackingChanges
  <2>1. object'.anchor = object.anchor /\ object'.inScene = object.inScene
    BY <1>10 DEF SetHidden, TypeOK, Objects
  <2> QED
    BY <1>10, <2>1, AnchorFrame
<1>11. CASE ErrorAlertRestart
  BY <1>11, AnchorFrame DEF ErrorAlertRestart, ResetTracking
<1>12. CASE UNCHANGED <<object, sessionAnchors, queue>>
  BY <1>12, AnchorFrame
<1> QED
  BY <1>1, <1>2, <1>3, <1>4, <1>5, <1>6, <1>7, <1>8, <1>9, <1>10, <1>11, <1>12
     DEF Next, LoaderStep, UserStep, SessionStep, vars, FinishLoading, CooldownFires,
         GestureBegan, PanExceedsThreshold, GestureReset, CoachingWillActivate,
         CoachingDidDeactivate

-----------------------------------------------------------------------------
(* Visibility and tracking.                                                 *)

ViewInv == VisibleWhenTracking /\ TrackedOnlyDuringGesture

\* At first nothing is loaded and no gesture is under way.
LEMMA ViewInit == Init => ViewInv
  BY DEF Init, ViewInv, VisibleWhenTracking, TrackedOnlyDuringGesture

\* Hiding is left alone, or nothing is left to be hidden.
LEMMA ViewFrame ==
  ASSUME ViewInv, UNCHANGED <<shown, tracking, InFlight>>,
         (object'.hidden = object.hidden /\ loadedObjects' = loadedObjects) \/ loadedObjects' = 0,
         UNCHANGED input \/ ~trackedObject'
  PROVE  ViewInv'
  BY DEF ViewInv, VisibleWhenTracking, TrackedOnlyDuringGesture, input

\* Every step keeps the loaded object's visibility and the tracked object right.
LEMMA ViewNext == TypeOK /\ LoaderInv /\ ViewInv /\ [Next]_vars => ViewInv'
<1> SUFFICES ASSUME TypeOK, LoaderInv, ViewInv, [Next]_vars PROVE ViewInv'
  OBVIOUS
<1> USE DEF loader, restart, overlay, async, input
<1>p. /\ pipeline["queued"] \in Nat /\ pipeline["loaded"] \in Nat
      /\ pipeline["preparing"] \in Nat /\ InFlight \in Nat
  BY DEF TypeOK, Stages, InFlight
<1>1. CASE RemoveTapped \/ RestartExperience
  BY <1>1, ViewFrame DEF RemoveTapped, RestartExperience, RemoveAllVirtualObjects, InFlight
<1>2. CASE CloseTapped
  BY <1>2 DEF CloseTapped, ViewInv, VisibleWhenTracking, TrackedOnlyDuringGesture
<1>3. CASE AddTapped
  <2>1. InFlight' = InFlight + 1
    BY <1>3, <1>p DEF AddTapped, TypeOK, Stages, InFlight
  <2> QED
    BY <1>3, <1>p, <2>1
       DEF AddTapped, ViewInv, VisibleWhenTracking, TrackedOnlyDuringGesture
<1>4. CASE LoadContent
  <2>1. InFlight' = InFlight
    BY <1>4, LoadMoves
  <2>2. object'.hidden = object.hidden
    BY <1>4 DEF LoadContent, TypeOK, Objects
  <2> QED
    BY <1>4, <2>1, <2>2, ViewFrame DEF LoadContent
<1>5. CASE FinishLoading
  <2>1. InFlight' = InFlight
    BY <1>5, LoadMoves
  <2> QED
    BY <1>5, <2>1, ViewFrame DEF FinishLoading
<1>6. CASE PlaceLoaded
  <2>1. ~object'.hidden \/ loadedObjects' = 0
    BY <1>6 DEF PlaceLoaded, Place, GiveUpPlacing, RemoveAllVirtualObjects, TypeOK, Objects
  <2> QED
    BY <1>6, <2>1 DEF PlaceLoaded, ViewInv, VisibleWhenTracking, TrackedOnlyDuringGesture
<1>7. CASE RaycastUpdate \/ RunUpdateQueue \/ PanChanged \/ PanEnded
  <2>1. object'.hidden = object.hidden
    BY <1>7 DEF RaycastUpdate, RunUpdateQueue, AddOrUpdateAnchor, PanChanged, PanEnded,
                SetDown, TypeOK, Objects
  <2>2. UNCHANGED <<shown, tracking, InFlight, loadedObjects>>
    BY <1>7 DEF RaycastUpdate, RunUpdateQueue, PanChanged, PanEnded, InFlight
  <2>3. UNCHANGED input \/ ~trackedObject'
    BY <1>7 DEF RaycastUpdate, RunUpdateQueue, PanChanged, PanEnded, GestureOver
  <2> QED
    BY <2>1, <2>2, <2>3, ViewFrame
<1>8. CASE TrackingNormal
  <2>1. loadedObjects > 0 => ~object'.hidden
    BY <1>8 DEF TrackingNormal, SetHidden, TypeOK, Objects
  <2> QED
    BY <1>8, <2>1 DEF TrackingNormal, TrackingChanges, ViewInv, VisibleWhenTracking,
                      TrackedOnlyDuringGesture
<1>9. CASE TrackingLimited \/ SessionInterrupted \/ InterruptionEnds
  <2>1. tracking' # "normal" /\ UNCHANGED <<shown, input>>
    BY <1>9 DEF TrackingLimited, SessionInterrupted, InterruptionEnds, TrackingChanges
  <2> QED
    BY <2>1 DEF ViewInv, VisibleWhenTracking, TrackedOnlyDuringGesture
<1>10. CASE GestureBegan
  BY <1>10, ConstantsAssumption
     DEF GestureBegan, ViewInv, VisibleWhenTracking, TrackedOnlyDuringGesture, InFlight
<1>11. CASE PanExceedsThreshold \/ GestureReset
  BY <1>11 DEF PanExceedsThreshold, GestureReset, GestureOver, ViewInv,
               VisibleWhenTracking, TrackedOnlyDuringGesture, InFlight
<1>12. CASE UNCHANGED <<shown, loader, object, tracking, input>>
  BY <1>12, ViewFrame DEF InFlight
<1> QED
  BY <1>1, <1>2, <1>3, <1>4, <1>5, <1>6, <1>7, <1>8, <1>9, <1>10, <1>11, <1>12
     DEF Next, LoaderStep, UserStep, SessionStep, vars, ErrorAlertRestart, CooldownFires,
         CoachingWillActivate, CoachingDidDeactivate, FrameDetecting, FrameInitializing

-----------------------------------------------------------------------------
(* The inductive invariant and what follows from it.                        *)

IInv == TypeOK /\ LoaderInv /\ RestartLockOwned /\ AnchorInv /\ ViewInv

\* The inductive invariant holds in every state.
LEMMA Inductive == Spec => []IInv
<1>1. Init => IInv
  BY TypeInit, LoaderInit, RestartInit, AnchorInit, ViewInit DEF IInv
<1>2. IInv /\ [Next]_vars => IInv'
  BY TypeNext, LoaderNext, RestartNext, AnchorNext, ViewNext DEF IInv
<1> QED
  BY <1>1, <1>2, PTL DEF Spec

\* Two loads never overlap, and the button is free again after each.
THEOREM LoadsNeverOverlap == Spec => [](OneLoadInFlight /\ LoadingFlagExact)
<1>1. IInv => OneLoadInFlight /\ LoadingFlagExact
  BY DEF IInv, LoaderInv
<1> QED
  BY <1>1, Inductive, PTL

\* Nothing removes or unloads the object under its load, and an object is never
\* left loaded when it is removed.
THEOREM LoadingProtected == Spec => []LoadingObjectKept
<1>1. IInv => LoadingObjectKept
  BY DEF IInv, LoaderInv
<1> QED
  BY <1>1, Inductive, PTL

\* The session never holds an anchor nobody refers to, and a node in the
\* scene is anchored or about to be.
THEOREM AnchorsAccounted == Spec => [](AnchorUnique /\ AnchoredOrQueued)
<1>1. IInv => AnchorUnique /\ AnchoredOrQueued
  BY DEF IInv, AnchorInv
<1> QED
  BY <1>1, Inductive, PTL

\* Whenever restart is withheld, a timer or a load is there to release it.
THEOREM RestartLockHasOwner == Spec => []RestartLockOwned
<1>1. IInv => RestartLockOwned
  BY DEF IInv
<1> QED
  BY <1>1, Inductive, PTL

\* A loaded object is visible while the camera tracks, and only a gesture
\* under way tracks it.
THEOREM ViewConsistent == Spec => []ViewHolds
<1>1. IInv => ViewHolds
  BY DEF IInv, ViewInv, ViewHolds
<1> QED
  BY <1>1, Inductive, PTL

\* A pan, a rotation or a pinch takes hold of listed furniture only: a removed
\* object that comes back into the scene cannot be grabbed, so the one gesture
\* that moves a removed object is one begun before its removal
\* (objectInteracting, removeAllVirtualObjects).
GrabsListed ==
  [][~trackedObject /\ trackedObject' => loadedObjects = 1 /\ pipeline["queued"] = 0]_vars

\* Gestures take hold of listed, loaded furniture only.
THEOREM GrabsOnlyListed == Spec => GrabsListed
<1>1. ASSUME IInv, [Next]_vars, ~trackedObject, trackedObject'
      PROVE  loadedObjects = 1 /\ pipeline["queued"] = 0
  <2> USE DEF loader, restart, overlay, async, input
  <2>1. GestureBegan
    BY <1>1 DEF Next, LoaderStep, UserStep, SessionStep, vars, LoadContent, CooldownFires,
       ErrorAlertRestart, PanExceedsThreshold, PanChanged, PanEnded, GestureOver,
       GestureReset, CoachingWillActivate, CoachingDidDeactivate, FrameDetecting,
       FrameInitializing, RaycastUpdate, TrackingNormal, TrackingLimited,
       SessionInterrupted, InterruptionEnds, TrackingChanges, RunUpdateQueue,
       RemoveTapped, AddTapped, FinishLoading, PlaceLoaded, RestartExperience, CloseTapped
  <2>2. shown /\ object.content
    BY <2>1 DEF GestureBegan, Hit
  <2>3. loadedObjects > 0 /\ pipeline["queued"] = 0
    BY <1>1, <2>2 DEF IInv, LoaderInv, LoadingObjectKept
  <2>4. loadedObjects \in Nat /\ loadedObjects <= 1
    BY <1>1 DEF IInv, TypeOK, LoaderInv
  <2> QED
    BY <2>3, <2>4
<1>2. IInv /\ [Next]_vars =>
        [~trackedObject /\ trackedObject' => loadedObjects = 1 /\ pipeline["queued"] = 0]_vars
  BY <1>1
<1> QED
  BY <1>2, Inductive, PTL DEF Spec, GrabsListed

-----------------------------------------------------------------------------
(* Refinement: the safety part of ImplementsObjectSlot.                     *)

\* The slot is empty when the screen appears.
LEMMA SlotInit == Init => Slot!Init
  BY DEF Init, Slot!Init

\* Every step of the screen is one of the slot, or leaves it as it is.
LEMMA SlotNext == IInv /\ [Next]_vars => [Slot!Next]_(Slot!svars)
<1> SUFFICES ASSUME IInv, [Next]_vars PROVE [Slot!Next]_(Slot!svars)
  OBVIOUS
<1> USE DEF loader, restart, overlay, async, input
<1> USE DEF Slot!Next, Slot!Add, Slot!Finish, Slot!Remove, Slot!Close, Slot!svars
<1>t. /\ shown \in BOOLEAN /\ isLoading \in BOOLEAN /\ loadedObjects \in {0, 1}
      /\ shown /\ isLoading => loadedObjects = 1
      /\ ~shown => loadedObjects = 0
  BY DEF IInv, TypeOK, LoaderInv, LoadingObjectKept
<1>i. ~isLoading <=> pipeline["queued"] = 0 /\ pipeline["loaded"] = 0
  BY DEF IInv, TypeOK, Stages, LoaderInv, LoadingFlagExact
<1>e. button.enabled => InFlight = 0
  BY DEF IInv, LoaderInv, OneLoadInFlight
<1>1. CASE RemoveTapped
  <2>1. ~isLoading
    BY <1>1, <1>i, <1>e DEF RemoveTapped, TapAddButton, InFlight, IInv, TypeOK, Stages
  <2> QED
    BY <1>1, <1>t, <2>1 DEF RemoveTapped, TapAddButton, RemoveAllVirtualObjects
<1>2. CASE AddTapped
  BY <1>2, <1>t DEF AddTapped, TapAddButton
<1>3. CASE FinishLoading
  BY <1>3, <1>t DEF FinishLoading
<1>4. CASE PlaceLoaded
  <2>1. ~isLoading
    BY <1>4, <1>i DEF PlaceLoaded, IInv, TypeOK, Stages, LoaderInv, OneLoadInFlight, InFlight
  <2>2. UNCHANGED <<shown, isLoading>> /\ (UNCHANGED loadedObjects \/ loadedObjects' = 0)
    BY <1>4 DEF PlaceLoaded, Place, GiveUpPlacing, RemoveAllVirtualObjects
  <2> QED
    BY <1>t, <2>1, <2>2
<1>5. CASE RestartExperience
  BY <1>5, <1>t DEF RestartExperience, MayRestart, RemoveAllVirtualObjects
<1>6. CASE CloseTapped
  BY <1>6, <1>t DEF CloseTapped, RemoveAllVirtualObjects
<1>7. CASE UNCHANGED <<shown, loadedObjects, isLoading>>
  BY <1>7
<1> QED
  BY <1>1, <1>2, <1>3, <1>4, <1>5, <1>6, <1>7
     DEF Next, LoaderStep, UserStep, SessionStep, vars, LoadContent, CooldownFires,
         ErrorAlertRestart, GestureBegan, PanExceedsThreshold, PanChanged, PanEnded,
         GestureReset, CoachingWillActivate, CoachingDidDeactivate, FrameDetecting,
         FrameInitializing, RaycastUpdate, TrackingNormal, TrackingLimited,
         SessionInterrupted, InterruptionEnds, TrackingChanges, RunUpdateQueue

\* The screen behaves as the abstract slot: a load is never interrupted while
\* it is open, and a closed screen stays empty.
THEOREM ImplementsSlot == Spec => Slot!Init /\ [][Slot!Next]_(Slot!svars)
  BY SlotInit, SlotNext, Inductive, PTL DEF Spec
=============================================================================
