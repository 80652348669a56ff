---------------------------- MODULE FocusSquare ----------------------------
(* The focus square that shows where furniture would be put.  The main      *)
(* thread hides or unhides it with every rendered frame and hands its next  *)
(* state to the serial updateQueue; there the state's didSet opens, closes  *)
(* and turns it; SceneKit runs the ends of its animations on the main       *)
(* thread.  Lengths are in thousandths of the square's unit.  Left out, as  *)
(* no other state depends on them: position, scale, parent node, rendering  *)
(* order, and the flash of a plane seen for the first time.                 *)
(* An operator named X_Fault is the operator X with one mistake in it.      *)
EXTENDS Integers, Sequences

CONSTANTS UpdateInterval,  \* frames between two orientation updates (30)
          MaxQueue         \* bound: blocks waiting in updateQueue

ASSUME ConstantsAssumption == UpdateInterval \in Nat \ {0} /\ MaxQueue \in Nat

VARIABLES
  loadedObjects,   \* the loader holds an object
  updateQueue,     \* states to set, each with the camera's tilt
  state,           \* without its ray cast result and camera
  isOpen, isAnimating,
  completions,     \* ends of animations SceneKit has still to run
  pulse,           \* the pulse action runs
  segments,        \* position and length of each segment
  fades,           \* hide and unhide actions running
  opacity,         \* 0 or 1, as the last of them to end left it
  isChangingOrientation, isPointingDownwards,
  counterToNextOrientationUpdate

shape       == <<isOpen, isAnimating, completions, pulse, segments>>
fading      == <<fades, opacity>>
orientation == <<isChangingOrientation, isPointingDownwards, counterToNextOrientationUpdate>>
vars        == <<loadedObjects, updateQueue, state, shape, fading, orientation>>

Initializing == "initializing"
Surface == "surface"    \* detecting, without a plane anchor
Plane   == "plane"      \* detecting, with one
States  == {Initializing, Surface, Plane}

-----------------------------------------------------------------------------
(* FocusSquare.Segment: corner is <<-1 left or 1 right, -1 top or 1 bottom>>. *)

Segments == [corner : {-1, 1} \X {-1, 1}, alignment : {"horizontal", "vertical"}]

Thickness  == 18
Length     == 500
OpenLength == 200

\* init of FocusSquare: the eight positions.
Closed(s) ==
  LET c == Thickness \div 2
  IN  IF s.alignment = "horizontal"
      THEN [x |-> s.corner[1] * (Length \div 2 - c), y |-> s.corner[2] * (Length - c), length |-> Length]
      ELSE [x |-> s.corner[1] * Length, y |-> s.corner[2] * (Length \div 2), length |-> Length]

\* openDirection as a sign on the axis of the segment: away from the centre.
OpenDirection(s) == IF s.alignment = "horizontal" THEN s.corner[1] ELSE s.corner[2]

\* updatePosition, given the offset with its sign.
Moved(s, seg, offset, length) ==
  IF s.alignment = "horizontal"
  THEN [x |-> seg.x + offset, y |-> seg.y, length |-> length]
  ELSE [x |-> seg.x, y |-> seg.y + offset, length |-> length]

Open(s, seg) ==
  Moved(s, seg, OpenDirection(s) * (Length \div 2 - OpenLength \div 2), OpenLength)

\* The offset depends on the length the segment had.
Close_ReadsNewLength(s, seg) ==
  LET resized == [seg EXCEPT !.length = Length]
  IN  Moved(s, resized, -OpenDirection(s) * (Length \div 2 - resized.length \div 2), Length)
Close(s, seg) ==
  Moved(s, seg, -OpenDirection(s) * (Length \div 2 - seg.length \div 2), Length)

-----------------------------------------------------------------------------

TypeOK ==
  /\ loadedObjects \in BOOLEAN
  /\ Len(updateQueue) <= MaxQueue
  /\ \A i \in DOMAIN updateQueue : updateQueue[i] \in [state : States, steep : BOOLEAN]
  /\ state \in States
  /\ {isOpen, isAnimating, pulse} \subseteq BOOLEAN
  /\ completions \subseteq {"opened", "pulsed", "shrunk", "closed"}
  /\ segments \in [Segments -> [x : Int, y : Int, length : {OpenLength, Length}]]
  /\ fades \subseteq {"hide", "unhide"} /\ opacity \in {0, 1}
  /\ {isChangingOrientation, isPointingDownwards} \subseteq BOOLEAN
  /\ counterToNextOrientationUpdate \in 0..UpdateInterval

\* init displays the square as a billboard.
Init ==
  /\ loadedObjects = FALSE
  /\ updateQueue = <<>>
  /\ state = Initializing
  /\ isOpen = TRUE /\ isAnimating = TRUE
  /\ completions = {"opened"} /\ pulse = FALSE
  /\ segments = [s \in Segments |-> Open(s, Closed(s))]
  /\ fades = {"unhide"} /\ opacity = 0
  /\ isChangingOrientation = FALSE /\ isPointingDownwards = TRUE
  /\ counterToNextOrientationUpdate = 0

-----------------------------------------------------------------------------
(* The main thread.                                                         *)

\* Furniture is placed or removed.
LoadedObjectsChange ==
  /\ loadedObjects' = ~loadedObjects
  /\ UNCHANGED <<updateQueue, state, shape, fading, orientation>>

\* updateFocusSquare.  hide and unhide do nothing while their own action runs.
Frame_HidesInView(s, steep, isObjectVisible) ==
  /\ Len(updateQueue) < MaxQueue
  /\ updateQueue' = Append(updateQueue, [state |-> s, steep |-> steep])
  /\ fades' = fades \cup {IF isObjectVisible THEN "hide" ELSE "unhide"}
  /\ UNCHANGED <<loadedObjects, state, shape, opacity, orientation>>
Frame(s, steep, isObjectVisible) ==
  /\ Len(updateQueue) < MaxQueue
  /\ updateQueue' = Append(updateQueue, [state |-> s, steep |-> steep])
  /\ fades' = fades \cup {IF isObjectVisible \/ loadedObjects THEN "hide" ELSE "unhide"}
  /\ UNCHANGED <<loadedObjects, state, shape, opacity, orientation>>

\* An object in view was loaded when the frame was rendered.
SomeFrame ==
  \E s \in States, steep, visible \in BOOLEAN : Frame(s, steep, visible)

FadeEnds(a) ==
  /\ a \in fades
  /\ fades' = fades \ {a}
  /\ opacity' = IF a = "hide" THEN 0 ELSE 1
  /\ UNCHANGED <<loadedObjects, updateQueue, state, shape, orientation>>

\* The completion block of the open animation, in two steps: updateQueue may
\* run between them.
OpenAnimationEnds_ReleasesFirst ==
  /\ \/ /\ "opened" \in completions
        /\ isAnimating' = FALSE
        /\ completions' = (completions \ {"opened"}) \cup {"pulsed"}
        /\ UNCHANGED pulse
     \/ /\ "pulsed" \in completions
        /\ pulse' = TRUE
        /\ completions' = completions \ {"pulsed"}
        /\ UNCHANGED isAnimating
  /\ UNCHANGED <<loadedObjects, updateQueue, state, isOpen, segments, fading, orientation>>
OpenAnimationEnds ==
  /\ \/ /\ "opened" \in completions
        /\ pulse' = TRUE
        /\ completions' = (completions \ {"opened"}) \cup {"pulsed"}
        /\ UNCHANGED isAnimating
     \/ /\ "pulsed" \in completions
        /\ isAnimating' = FALSE
        /\ completions' = completions \ {"pulsed"}
        /\ UNCHANGED pulse
  /\ UNCHANGED <<loadedObjects, updateQueue, state, isOpen, segments, fading, orientation>>

\* The completion blocks of the close animation: the square has shrunk, now
\* its segments close; they have closed.
CloseAnimationEnds ==
  /\ \/ /\ "shrunk" \in completions
        /\ segments' = [s \in Segments |-> Close(s, segments[s])]
        /\ completions' = (completions \ {"shrunk"}) \cup {"closed"}
        /\ UNCHANGED isAnimating
     \/ /\ "closed" \in completions
        /\ isAnimating' = FALSE
        /\ completions' = completions \ {"closed"}
        /\ UNCHANGED segments
  /\ UNCHANGED <<loadedObjects, updateQueue, state, isOpen, pulse, fading, orientation>>

\* The completion block of a turn towards the camera.
OrientationChanged ==
  /\ isChangingOrientation
  /\ isChangingOrientation' = FALSE
  /\ isPointingDownwards' = TRUE
  /\ UNCHANGED <<loadedObjects, updateQueue, state, shape, fading, counterToNextOrientationUpdate>>

-----------------------------------------------------------------------------
(* updateQueue.                                                             *)

PerformOpenAnimation_WhileAnimating ==
  IF ~isOpen
  THEN /\ isOpen' = TRUE /\ isAnimating' = TRUE
       /\ segments' = [s \in Segments |-> Open(s, segments[s])]
       /\ completions' = completions \cup {"opened"}
       /\ UNCHANGED pulse
  ELSE UNCHANGED shape
PerformOpenAnimation ==
  IF ~isOpen /\ ~isAnimating
  THEN /\ isOpen' = TRUE /\ isAnimating' = TRUE
       /\ segments' = [s \in Segments |-> Open(s, segments[s])]
       /\ completions' = completions \cup {"opened"}
       /\ UNCHANGED pulse
  ELSE UNCHANGED shape

PerformCloseAnimation ==
  IF isOpen /\ ~isAnimating
  THEN /\ isOpen' = FALSE /\ isAnimating' = TRUE
       /\ pulse' = FALSE
       /\ completions' = completions \cup {"shrunk"}
       /\ UNCHANGED segments
  ELSE UNCHANGED shape

\* The orientation part of updateTransform.
UpdateTransform_OnlyDownwards(steep) ==
  IF steep
  THEN /\ isChangingOrientation' = TRUE
       /\ UNCHANGED <<isPointingDownwards, counterToNextOrientationUpdate>>
  ELSE /\ counterToNextOrientationUpdate' =
            IF isPointingDownwards THEN 0 ELSE counterToNextOrientationUpdate + 1
       /\ isPointingDownwards' = FALSE
       /\ UNCHANGED isChangingOrientation
UpdateTransform(steep) ==
  IF steep
  THEN /\ isChangingOrientation' = TRUE
       /\ UNCHANGED <<isPointingDownwards, counterToNextOrientationUpdate>>
  ELSE LET due == counterToNextOrientationUpdate = UpdateInterval \/ isPointingDownwards
       IN  /\ counterToNextOrientationUpdate' =
                IF due THEN 1 ELSE counterToNextOrientationUpdate + 1
           /\ isPointingDownwards' = (isPointingDownwards /\ ~due)
           /\ UNCHANGED isChangingOrientation

DisplayAsBillboard ==
  fades' = fades \cup {"unhide"} /\ PerformOpenAnimation /\ UNCHANGED orientation
DisplayAsOpen(steep) ==
  PerformOpenAnimation /\ UpdateTransform(steep) /\ UNCHANGED fades
DisplayAsClosed(steep) ==
  PerformCloseAnimation /\ UpdateTransform(steep) /\ UNCHANGED fades

\* state's didSet.  Ray cast results are all different, so only .initializing
\* can be equal to the old state.
DidSet_ByKind(new) ==
  IF new.state = state
  THEN UNCHANGED <<shape, fades, orientation>>
  ELSE \/ new.state = Initializing /\ DisplayAsBillboard
       \/ new.state = Surface /\ DisplayAsOpen(new.steep)
       \/ new.state = Plane /\ DisplayAsClosed(new.steep)
DidSet(new) ==
  IF new.state = Initializing /\ state = Initializing
  THEN UNCHANGED <<shape, fades, orientation>>
  ELSE \/ new.state = Initializing /\ DisplayAsBillboard
       \/ new.state = Surface /\ DisplayAsOpen(new.steep)
       \/ new.state = Plane /\ DisplayAsClosed(new.steep)

\* The block at the head of updateQueue.
SetState ==
  /\ updateQueue # <<>>
  /\ updateQueue' = Tail(updateQueue)
  /\ state' = Head(updateQueue).state
  /\ DidSet(Head(updateQueue))
  /\ UNCHANGED <<loadedObjects, opacity>>

Next ==
  \/ LoadedObjectsChange \/ SomeFrame \/ \E a \in {"hide", "unhide"} : FadeEnds(a)
  \/ OpenAnimationEnds \/ CloseAnimationEnds \/ OrientationChanged \/ SetState

\* While the screen is on display frames keep coming, updateQueue runs its
\* blocks, and SceneKit ends what it was told to animate.
Fairness ==
  /\ WF_vars(SomeFrame) /\ WF_vars(SetState)
  /\ \A a \in {"hide", "unhide"} : WF_vars(FadeEnds(a))
  /\ WF_vars(OpenAnimationEnds) /\ WF_vars(CloseAnimationEnds)

Spec == Init /\ [][Next]_vars
FairSpec == Spec /\ Fairness

-----------------------------------------------------------------------------
(* Properties.                                                              *)

\* isAnimating is a lock with one owner: it is set exactly while one animation,
\* opening or closing, has its end to come.
AnimationOwned ==
  /\ isAnimating <=> completions # {}
  /\ \A c, d \in completions : c = d

\* However the states and animations interleave, at rest the segments are all
\* open or all closed, as isOpen says, and have not drifted: the outer end of
\* each is where init put it.
SegmentsExact ==
  ~isAnimating =>
    \A s \in Segments :
      LET seg == segments[s]  outward == OpenDirection(s)
          outerEnd(g, at) == 2 * at + outward * g.length
      IN  /\ seg.length = IF isOpen THEN OpenLength ELSE Length
          /\ IF s.alignment = "horizontal"
             THEN seg.y = Closed(s).y /\ outerEnd(seg, seg.x) = outerEnd(Closed(s), Closed(s).x)
             ELSE seg.x = Closed(s).x /\ outerEnd(seg, seg.y) = outerEnd(Closed(s), Closed(s).y)

\* A closed square never pulses and an open one at rest always does: the end of
\* the open animation starts the pulse before it lets updateQueue close the square
\* again, and only a closing stops it.
PulseWhenOpen ==
  /\ pulse => isOpen
  /\ isOpen /\ ~isAnimating => pulse

\* On a plane that stays detected the square ends up closed, although a state
\* set during an animation cannot start another.
SettlesClosed == <>[](state = Plane) => <>[](~isOpen /\ ~isAnimating)

\* With furniture placed and a surface in sight the square ends up hidden.
HiddenWithObject == <>[](loadedObjects /\ state # Initializing) => <>[](opacity = 0)
=============================================================================
