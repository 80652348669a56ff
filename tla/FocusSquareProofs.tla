-------------------------- MODULE FocusSquareProofs --------------------------
(* Theorems about FocusSquare, for every interval between orientation       *)
(* updates and every bound on updateQueue.  The animations alternate, so    *)
(* the shape of the square is at each instant one of two, and each          *)
(* animation starts where the one before it ended.                          *)
EXTENDS FocusSquare, TLAPS

-----------------------------------------------------------------------------
(* Geometry.                                                                *)

\* A segment's corner is a pair of signs.
LEMMA SegmentSigns ==
  ASSUME NEW s \in Segments
  PROVE  /\ s.corner[1] \in {-1, 1} /\ s.corner[2] \in {-1, 1}
         /\ s.alignment \in {"horizontal", "vertical"}
  BY DEF Segments

\* Where init puts a segment, by its alignment.
LEMMA ClosedSegment ==
  ASSUME NEW s \in Segments
  PROVE  Closed(s) = IF s.alignment = "horizontal"
                     THEN [x |-> s.corner[1] * 241, y |-> s.corner[2] * 491, length |-> 500]
                     ELSE [x |-> s.corner[1] * 500, y |-> s.corner[2] * 250, length |-> 500]
<1>1. /\ Thickness \div 2 = 9 /\ Length \div 2 = 250 /\ Length = 500
      /\ 250 - 9 = 241 /\ 500 - 9 = 491
  BY DEF Thickness, Length
<1>2. QED
  BY <1>1 DEF Closed

\* Opening moves the middle of a segment by 150 away from the centre.
LEMMA OpenSegment ==
  ASSUME NEW s \in Segments
  PROVE  Open(s, Closed(s)) =
           IF s.alignment = "horizontal"
           THEN [x |-> s.corner[1] * 241 + s.corner[1] * 150, y |-> s.corner[2] * 491,
                 length |-> 200]
           ELSE [x |-> s.corner[1] * 500, y |-> s.corner[2] * 250 + s.corner[2] * 150,
                 length |-> 200]
<1> DEFINE closed == Closed(s)
<1>1. Open(s, closed) = Moved(s, closed, OpenDirection(s) * 150, 200)
  <2>1. Length \div 2 - OpenLength \div 2 = 150 /\ OpenLength = 200
    BY DEF Length, OpenLength
  <2>2. QED
    BY <2>1 DEF Open
<1> s.corner[1] \in Int /\ s.corner[2] \in Int
  BY SegmentSigns
<1>2. CASE s.alignment = "horizontal"
  <2> DEFINE a == s.corner[1] * 241
             b == s.corner[2] * 491
             d == s.corner[1] * 150
  <2>1. closed.x = a /\ closed.y = b /\ OpenDirection(s) * 150 = d
    BY <1>2, ClosedSegment DEF OpenDirection
  <2> a \in Int /\ b \in Int /\ d \in Int
    OBVIOUS
  <2> HIDE DEF a, b, d, closed
  <2>2. Open(s, closed) = [x |-> a + d, y |-> b, length |-> 200]
    BY <1>1, <1>2, <2>1 DEF Moved
  <2>3. QED
    BY <1>2, <2>2 DEF a, b, d, closed
<1>3. CASE s.alignment # "horizontal"
  <2> DEFINE a == s.corner[1] * 500
             b == s.corner[2] * 250
             d == s.corner[2] * 150
  <2>1. closed.x = a /\ closed.y = b /\ OpenDirection(s) * 150 = d
    BY <1>3, ClosedSegment DEF OpenDirection
  <2> a \in Int /\ b \in Int /\ d \in Int
    OBVIOUS
  <2> HIDE DEF a, b, d, closed
  <2>2. Open(s, closed) = [x |-> a, y |-> b + d, length |-> 200]
    BY <1>1, <1>3, <2>1 DEF Moved
  <2>3. QED
    BY <1>3, <2>2 DEF a, b, d, closed
<1>4. QED
  BY <1>2, <1>3

\* Closing an open segment brings it back to where init put it.
LEMMA CloseUndoesOpen ==
  ASSUME NEW s \in Segments
  PROVE  Close(s, Open(s, Closed(s))) = Closed(s)
<1> DEFINE opened == Open(s, Closed(s))
<1>1. opened.length = 200
  BY OpenSegment
<1>2. Close(s, opened) = Moved(s, opened, (-OpenDirection(s)) * 150, 500)
  <2> OpenDirection(s) \in Int
    BY SegmentSigns DEF OpenDirection
  <2> HIDE DEF opened
  <2>1. Length \div 2 - opened.length \div 2 = 150 /\ Length = 500
    BY <1>1 DEF Length
  <2>2. QED
    BY <2>1 DEF Close
<1>3. s.corner[1] \in {-1, 1} /\ s.corner[2] \in {-1, 1}
  BY SegmentSigns
<1>4. CASE s.alignment = "horizontal"
  <2> DEFINE a == s.corner[1] * 241 + s.corner[1] * 150
             b == s.corner[2] * 491
             d == (-s.corner[1]) * 150
  <2>1. /\ opened.x = a /\ opened.y = b
        /\ (-OpenDirection(s)) * 150 = d
    BY <1>4, OpenSegment DEF OpenDirection
  <2>2. a + d = s.corner[1] * 241
    BY <1>3
  <2>3. Closed(s) = [x |-> s.corner[1] * 241, y |-> b, length |-> 500]
    BY <1>4, ClosedSegment
  <2> a \in Int /\ b \in Int /\ d \in Int
    BY <1>3
  <2> HIDE DEF a, b, d, opened
  <2>4. Close(s, opened) = [x |-> a + d, y |-> b, length |-> 500]
    BY <1>2, <1>4, <2>1 DEF Moved
  <2>5. QED
    BY <2>2, <2>3, <2>4 DEF opened
<1>5. CASE s.alignment # "horizontal"
  <2> DEFINE a == s.corner[1] * 500
             b == s.corner[2] * 250 + s.corner[2] * 150
             d == (-s.corner[2]) * 150
  <2>1. /\ opened.x = a /\ opened.y = b
        /\ (-OpenDirection(s)) * 150 = d
    BY <1>5, OpenSegment DEF OpenDirection
  <2>2. b + d = s.corner[2] * 250
    BY <1>3
  <2>3. Closed(s) = [x |-> a, y |-> s.corner[2] * 250, length |-> 500]
    BY <1>5, ClosedSegment
  <2> a \in Int /\ b \in Int /\ d \in Int
    BY <1>3
  <2> HIDE DEF a, b, d, opened
  <2>4. Close(s, opened) = [x |-> a, y |-> b + d, length |-> 500]
    BY <1>2, <1>5, <2>1 DEF Moved
  <2>5. QED
    BY <2>2, <2>3, <2>4 DEF opened
<1>6. QED
  BY <1>4, <1>5

\* A segment in either shape has the type TypeOK gives it.
LEMMA ShapesTyped ==
  ASSUME NEW s \in Segments
  PROVE  /\ Closed(s) \in [x : Int, y : Int, length : {OpenLength, Length}]
         /\ Open(s, Closed(s)) \in [x : Int, y : Int, length : {OpenLength, Length}]
<1>1. /\ OpenLength = 200 /\ Length = 500
      /\ s.corner[1] \in Int /\ s.corner[2] \in Int
  BY SegmentSigns DEF Length, OpenLength
<1>2. /\ s.corner[1] * 241 \in Int /\ s.corner[2] * 491 \in Int
      /\ s.corner[1] * 500 \in Int /\ s.corner[2] * 250 \in Int
      /\ s.corner[1] * 241 + s.corner[1] * 150 \in Int
      /\ s.corner[2] * 250 + s.corner[2] * 150 \in Int
  BY <1>1
<1>3. Closed(s) \in [x : Int, y : Int, length : {OpenLength, Length}]
  BY <1>1, <1>2, ClosedSegment
<1>4. QED
  BY <1>1, <1>2, <1>3, OpenSegment

-----------------------------------------------------------------------------
(* The invariants.                                                          *)

\* The pulse runs from the first of the two steps of the open animation's end to the
\* start of the next closing.
PulseInv == pulse <=> isOpen /\ "opened" \notin completions

\* Each animation's ends are those of the state the square is in or goes to,
\* and the segments are in one of two shapes: they open as the opening begins,
\* and close when the square has shrunk.
ShapeInv ==
  /\ AnimationOwned
  /\ completions \subseteq IF isOpen THEN {"opened", "pulsed"} ELSE {"shrunk", "closed"}
  /\ PulseInv
  /\ segments = [s \in Segments |-> IF isOpen \/ "shrunk" \in completions
                                    THEN Open(s, Closed(s)) ELSE Closed(s)]

\* The queue and the turning of the square.
RestOK ==
  /\ loadedObjects \in BOOLEAN
  /\ updateQueue \in Seq([state : States, steep : BOOLEAN])
  /\ Len(updateQueue) <= MaxQueue
  /\ state \in States
  /\ isOpen \in BOOLEAN /\ isAnimating \in BOOLEAN /\ pulse \in BOOLEAN
  /\ fades \subseteq {"hide", "unhide"} /\ opacity \in {0, 1}
  /\ isChangingOrientation \in BOOLEAN /\ isPointingDownwards \in BOOLEAN
  /\ counterToNextOrientationUpdate \in 0..UpdateInterval

IInv == RestOK /\ ShapeInv

\* The square starts open, its opening animation under way.
LEMMA InitIInv == Init => IInv
<1> SUFFICES ASSUME Init PROVE IInv
  OBVIOUS
<1>1. RestOK
  <2>1. updateQueue \in Seq([state : States, steep : BOOLEAN]) /\ Len(updateQueue) = 0
    BY DEF Init
  <2>2. Len(updateQueue) <= MaxQueue /\ 0 \in 0..UpdateInterval
    BY <2>1, ConstantsAssumption
  <2>3. QED
    BY <2>1, <2>2 DEF Init, RestOK, States
<1>2. AnimationOwned /\ PulseInv
  BY DEF Init, AnimationOwned, PulseInv
<1>3. /\ completions \subseteq IF isOpen THEN {"opened", "pulsed"} ELSE {"shrunk", "closed"}
      /\ segments = [s \in Segments |-> IF isOpen \/ "shrunk" \in completions
                                        THEN Open(s, Closed(s)) ELSE Closed(s)]
  BY DEF Init
<1>4. QED
  BY <1>1, <1>2, <1>3 DEF IInv, ShapeInv

-----------------------------------------------------------------------------
(* The shape under each part of a step.                                     *)

\* A step that leaves the shape alone preserves its invariant.
LEMMA ShapeStutters ==
  ASSUME ShapeInv, UNCHANGED shape
  PROVE  ShapeInv'
  BY DEF ShapeInv, shape, AnimationOwned, PulseInv

\* An opening starts only from rest, from the closed shape.
LEMMA OpeningStarts ==
  ASSUME IInv, PerformOpenAnimation
  PROVE  ShapeInv' /\ {isOpen', isAnimating', pulse'} \subseteq BOOLEAN
<1>1. CASE ~isOpen /\ ~isAnimating
  <2>1. completions = {} /\ ~isOpen /\ pulse \in BOOLEAN /\ ~pulse
    BY <1>1 DEF IInv, RestOK, ShapeInv, AnimationOwned, PulseInv
  <2>2. /\ isOpen' = TRUE /\ isAnimating' = TRUE
        /\ completions' = {"opened"} /\ pulse' = pulse
    BY <1>1, <2>1 DEF PerformOpenAnimation
  <2>3. segments' = [s \in Segments |-> Open(s, Closed(s))]
    <3>1. segments = [s \in Segments |-> Closed(s)]
      BY <2>1 DEF IInv, ShapeInv
    <3>2. segments' = [s \in Segments |-> Open(s, segments[s])]
      BY <1>1 DEF PerformOpenAnimation
    <3>3. QED
      BY <3>1, <3>2, Zenon
  <2>4. AnimationOwned' /\ PulseInv'
    BY <2>1, <2>2 DEF AnimationOwned, PulseInv
  <2>5. QED
    BY <2>1, <2>2, <2>3, <2>4 DEF ShapeInv
<1>2. CASE ~(~isOpen /\ ~isAnimating)
  <2>1. UNCHANGED shape
    BY <1>2 DEF PerformOpenAnimation
  <2>2. {isOpen', isAnimating', pulse'} \subseteq BOOLEAN
    BY <2>1 DEF IInv, RestOK, shape
  <2>3. QED
    BY <2>1, <2>2, ShapeStutters DEF IInv
<1>3. QED
  BY <1>1, <1>2

\* A closing starts only from rest, and keeps the open shape until it has shrunk.
LEMMA ClosingStarts ==
  ASSUME IInv, PerformCloseAnimation
  PROVE  ShapeInv' /\ {isOpen', isAnimating', pulse'} \subseteq BOOLEAN
<1>1. CASE isOpen /\ ~isAnimating
  <2>1. completions = {}
    BY <1>1 DEF IInv, RestOK, ShapeInv, AnimationOwned
  <2>2. /\ isOpen' = FALSE /\ isAnimating' = TRUE /\ pulse' = FALSE
        /\ completions' = {"shrunk"} /\ segments' = segments
    BY <1>1, <2>1 DEF PerformCloseAnimation
  <2>3. segments = [s \in Segments |-> Open(s, Closed(s))]
    BY <1>1 DEF IInv, ShapeInv
  <2>4. AnimationOwned' /\ PulseInv'
    BY <2>2 DEF AnimationOwned, PulseInv
  <2>5. QED
    BY <2>2, <2>3, <2>4 DEF ShapeInv
<1>2. CASE ~(isOpen /\ ~isAnimating)
  <2>1. UNCHANGED shape
    BY <1>2 DEF PerformCloseAnimation
  <2>2. {isOpen', isAnimating', pulse'} \subseteq BOOLEAN
    BY <2>1 DEF IInv, RestOK, shape
  <2>3. QED
    BY <2>1, <2>2, ShapeStutters DEF IInv
<1>3. QED
  BY <1>1, <1>2

\* Of the two steps of the open animation's end, the second alone releases the
\* lock: no close animation can start before the pulse has.
LEMMA OpeningEnds ==
  ASSUME IInv, OpenAnimationEnds
  PROVE  ShapeInv' /\ {isOpen', isAnimating', pulse'} \subseteq BOOLEAN
<1>1. isOpen' = isOpen /\ segments' = segments
  BY DEF OpenAnimationEnds
<1>2. isOpen
  BY DEF IInv, ShapeInv, OpenAnimationEnds
<1>3. segments' = [s \in Segments |-> IF isOpen' \/ "shrunk" \in completions'
                                      THEN Open(s, Closed(s)) ELSE Closed(s)]
  BY <1>1, <1>2 DEF IInv, ShapeInv
<1>4. CASE "opened" \in completions /\ pulse' = TRUE
           /\ completions' = (completions \ {"opened"}) \cup {"pulsed"}
           /\ isAnimating' = isAnimating
  <2>1. completions = {"opened"} /\ isAnimating = TRUE
    BY <1>4 DEF IInv, RestOK, ShapeInv, AnimationOwned
  <2>2. completions' = {"pulsed"} /\ isAnimating' = TRUE /\ pulse' = TRUE
    BY <1>4, <2>1
  <2>3. AnimationOwned' /\ PulseInv'
    BY <1>1, <1>2, <2>2 DEF AnimationOwned, PulseInv
  <2>4. QED
    BY <1>1, <1>2, <1>3, <2>2, <2>3 DEF ShapeInv, IInv, RestOK
<1>5. CASE "pulsed" \in completions /\ isAnimating' = FALSE
           /\ completions' = completions \ {"pulsed"} /\ pulse' = pulse
  <2>1. completions = {"pulsed"} /\ pulse
    BY <1>2, <1>5 DEF IInv, ShapeInv, AnimationOwned, PulseInv
  <2>2. completions' = {} /\ pulse'
    BY <1>5, <2>1
  <2>3. AnimationOwned' /\ PulseInv'
    BY <1>1, <1>2, <1>5, <2>2 DEF AnimationOwned, PulseInv
  <2>4. QED
    BY <1>1, <1>2, <1>3, <1>5, <2>2, <2>3 DEF ShapeInv, IInv, RestOK
<1>6. QED
  BY <1>4, <1>5 DEF OpenAnimationEnds

\* The segments close once, and then the lock is released.
LEMMA ClosingEnds ==
  ASSUME IInv, CloseAnimationEnds
  PROVE  ShapeInv' /\ {isOpen', isAnimating', pulse'} \subseteq BOOLEAN
<1>1. isOpen' = isOpen /\ pulse' = pulse
  BY DEF CloseAnimationEnds
<1>2. ~isOpen /\ ~pulse
  BY DEF IInv, RestOK, ShapeInv, PulseInv, CloseAnimationEnds
<1>3. CASE "shrunk" \in completions
           /\ segments' = [s \in Segments |-> Close(s, segments[s])]
           /\ completions' = (completions \ {"shrunk"}) \cup {"closed"}
           /\ isAnimating' = isAnimating
  <2>1. completions = {"shrunk"} /\ isAnimating = TRUE
    BY <1>3 DEF IInv, RestOK, ShapeInv, AnimationOwned
  <2>2. completions' = {"closed"} /\ isAnimating' = TRUE
    BY <1>3, <2>1
  <2>3. segments' = [s \in Segments |-> Closed(s)]
    <3>1. segments = [s \in Segments |-> Open(s, Closed(s))]
      BY <1>3 DEF IInv, ShapeInv
    <3>2. segments' = [s \in Segments |-> Close(s, Open(s, Closed(s)))]
      BY <1>3, <3>1, Zenon
    <3>3. QED
      BY <3>2, CloseUndoesOpen, Zenon
  <2>4. AnimationOwned' /\ PulseInv'
    BY <1>1, <1>2, <2>2 DEF AnimationOwned, PulseInv
  <2>5. QED
    BY <1>1, <1>2, <2>2, <2>3, <2>4 DEF ShapeInv, IInv, RestOK
<1>4. CASE "closed" \in completions /\ isAnimating' = FALSE
           /\ completions' = completions \ {"closed"} /\ segments' = segments
  <2>1. completions = {"closed"}
    BY <1>4 DEF IInv, ShapeInv, AnimationOwned
  <2>2. completions' = {}
    BY <1>4, <2>1
  <2>3. segments' = [s \in Segments |-> Closed(s)]
    BY <1>2, <1>4, <2>1 DEF IInv, ShapeInv
  <2>4. AnimationOwned' /\ PulseInv'
    BY <1>1, <1>2, <1>4, <2>2 DEF AnimationOwned, PulseInv
  <2>5. QED
    BY <1>1, <1>2, <1>4, <2>2, <2>3, <2>4 DEF ShapeInv, IInv, RestOK
<1>5. QED
  BY <1>3, <1>4 DEF CloseAnimationEnds

-----------------------------------------------------------------------------
(* The steps.                                                               *)

\* The counter of the orientation update stays within its interval.
LEMMA OrientationKept ==
  ASSUME IInv, NEW steep \in BOOLEAN, UpdateTransform(steep)
  PROVE  /\ isChangingOrientation' \in BOOLEAN /\ isPointingDownwards' \in BOOLEAN
         /\ counterToNextOrientationUpdate' \in 0..UpdateInterval
<1> DEFINE c == counterToNextOrientationUpdate
<1>1. /\ c \in 0..UpdateInterval /\ UpdateInterval \in Nat \ {0}
      /\ isChangingOrientation \in BOOLEAN /\ isPointingDownwards \in BOOLEAN
  BY ConstantsAssumption DEF IInv, RestOK
<1>2. CASE steep
  BY <1>1, <1>2 DEF UpdateTransform
<1>3. CASE ~steep
  <2>1. isChangingOrientation' = isChangingOrientation /\ isPointingDownwards' \in BOOLEAN
    BY <1>3 DEF UpdateTransform
  <2>2. c' = 1 \/ (c # UpdateInterval /\ c' = c + 1)
    BY <1>3 DEF UpdateTransform
  <2>3. c' \in 0..UpdateInterval
    BY <1>1, <2>2
  <2>4. QED
    BY <1>1, <2>1, <2>3
<1>4. QED
  BY <1>2, <1>3

\* What setting a state does to the shape, the fades and the orientation.
LEMMA StateSet ==
  ASSUME IInv, NEW new \in [state : States, steep : BOOLEAN], DidSet(new)
  PROVE  /\ ShapeInv' /\ {isOpen', isAnimating', pulse'} \subseteq BOOLEAN
         /\ fades' \subseteq {"hide", "unhide"}
         /\ isChangingOrientation' \in BOOLEAN /\ isPointingDownwards' \in BOOLEAN
         /\ counterToNextOrientationUpdate' \in 0..UpdateInterval
<1>1. CASE UNCHANGED <<shape, fades, orientation>>
  <2>1. ShapeInv'
    BY <1>1, ShapeStutters DEF IInv
  <2>2. QED
    BY <1>1, <2>1 DEF IInv, RestOK, shape, orientation
<1>2. CASE DisplayAsBillboard
  <2>1. /\ fades' = fades \cup {"unhide"} /\ UNCHANGED orientation
        /\ PerformOpenAnimation
    BY <1>2 DEF DisplayAsBillboard
  <2>2. ShapeInv' /\ {isOpen', isAnimating', pulse'} \subseteq BOOLEAN
    BY <2>1, OpeningStarts
  <2>3. QED
    BY <2>1, <2>2 DEF IInv, RestOK, orientation
<1>3. CASE DisplayAsOpen(new.steep)
  <2>1. PerformOpenAnimation /\ UpdateTransform(new.steep) /\ fades' = fades
    BY <1>3 DEF DisplayAsOpen
  <2>2. fades' \subseteq {"hide", "unhide"} /\ new.steep \in BOOLEAN
    BY <2>1 DEF IInv, RestOK
  <2>3. QED
    BY <2>1, <2>2, OpeningStarts, OrientationKept
<1>4. CASE DisplayAsClosed(new.steep)
  <2>1. PerformCloseAnimation /\ UpdateTransform(new.steep) /\ fades' = fades
    BY <1>4 DEF DisplayAsClosed
  <2>2. fades' \subseteq {"hide", "unhide"} /\ new.steep \in BOOLEAN
    BY <2>1 DEF IInv, RestOK
  <2>3. QED
    BY <2>1, <2>2, ClosingStarts, OrientationKept
<1>5. QED
  BY <1>1, <1>2, <1>3, <1>4 DEF DidSet

\* An appended or removed block leaves a queue of blocks.
LEMMA QueueKept ==
  ASSUME NEW S, NEW q \in Seq(S)
  PROVE  /\ \A b \in S : Append(q, b) \in Seq(S) /\ Len(Append(q, b)) = Len(q) + 1
         /\ q # <<>> => /\ Head(q) \in S /\ Tail(q) \in Seq(S)
                        /\ Len(Tail(q)) = Len(q) - 1
  OBVIOUS

\* Each step preserves the invariant.
LEMMA NextIInv == IInv /\ [Next]_vars => IInv'
<1> SUFFICES ASSUME IInv, [Next]_vars PROVE IInv'
  OBVIOUS
<1> USE DEF RestOK
<1>0. /\ ShapeInv /\ Len(updateQueue) \in Nat /\ MaxQueue \in Nat
      /\ loadedObjects \in BOOLEAN /\ Len(updateQueue) <= MaxQueue
      /\ updateQueue \in Seq([state : States, steep : BOOLEAN])
  BY ConstantsAssumption DEF IInv
<1>1. CASE LoadedObjectsChange
  <2>1. ShapeInv'
    BY <1>0, <1>1, ShapeStutters DEF LoadedObjectsChange
  <2>2. loadedObjects' \in BOOLEAN
    BY <1>0, <1>1 DEF LoadedObjectsChange
  <2>3. UNCHANGED <<updateQueue, state, shape, fading, orientation>>
    BY <1>1 DEF LoadedObjectsChange
  <2>4. QED
    BY <2>1, <2>2, <2>3 DEF IInv, shape, fading, orientation
<1>2. CASE SomeFrame
  <2>1. PICK s \in States, steep \in BOOLEAN, visible \in BOOLEAN : Frame(s, steep, visible)
    BY <1>2 DEF SomeFrame
  <2>2. /\ Len(updateQueue) < MaxQueue
        /\ updateQueue' = Append(updateQueue, [state |-> s, steep |-> steep])
        /\ fades' \subseteq fades \cup {"hide", "unhide"}
        /\ UNCHANGED <<loadedObjects, state, shape, opacity, orientation>>
    BY <2>1 DEF Frame
  <2>3. [state |-> s, steep |-> steep] \in [state : States, steep : BOOLEAN]
    OBVIOUS
  <2>4. /\ updateQueue' \in Seq([state : States, steep : BOOLEAN])
        /\ Len(updateQueue') = Len(updateQueue) + 1
    BY <1>0, <2>2, <2>3, QueueKept
  <2>5. Len(updateQueue') <= MaxQueue
    BY <1>0, <2>2, <2>4
  <2>6. ShapeInv'
    BY <1>0, <2>2, ShapeStutters
  <2>7. QED
    BY <2>2, <2>4, <2>5, <2>6 DEF IInv, shape, orientation
<1>3. CASE \E a \in {"hide", "unhide"} : FadeEnds(a)
  <2>1. PICK a \in {"hide", "unhide"} : FadeEnds(a)
    BY <1>3
  <2>2. /\ fades' \subseteq fades /\ opacity' \in {0, 1}
        /\ UNCHANGED <<loadedObjects, updateQueue, state, shape, orientation>>
    BY <2>1 DEF FadeEnds
  <2>3. ShapeInv'
    BY <1>0, <2>2, ShapeStutters
  <2>4. QED
    BY <2>2, <2>3 DEF IInv, shape, orientation
<1>4. CASE OpenAnimationEnds
  <2>1. UNCHANGED <<loadedObjects, updateQueue, state, fading, orientation>>
    BY <1>4 DEF OpenAnimationEnds
  <2>2. QED
    BY <1>4, <2>1, OpeningEnds DEF IInv, fading, orientation
<1>5. CASE CloseAnimationEnds
  <2>1. UNCHANGED <<loadedObjects, updateQueue, state, fading, orientation>>
    BY <1>5 DEF CloseAnimationEnds
  <2>2. QED
    BY <1>5, <2>1, ClosingEnds DEF IInv, fading, orientation
<1>6. CASE OrientationChanged
  <2>1. /\ isChangingOrientation' = FALSE /\ isPointingDownwards' = TRUE
        /\ UNCHANGED <<loadedObjects, updateQueue, state, shape, fading,
                       counterToNextOrientationUpdate>>
    BY <1>6 DEF OrientationChanged
  <2>2. ShapeInv'
    BY <1>0, <2>1, ShapeStutters
  <2>3. QED
    BY <2>1, <2>2 DEF IInv, shape, fading
<1>7. CASE SetState
  <2>1. /\ updateQueue # <<>> /\ updateQueue' = Tail(updateQueue)
        /\ state' = Head(updateQueue).state /\ DidSet(Head(updateQueue))
        /\ UNCHANGED <<loadedObjects, opacity>>
    BY <1>7 DEF SetState
  <2>2. /\ Head(updateQueue) \in [state : States, steep : BOOLEAN]
        /\ updateQueue' \in Seq([state : States, steep : BOOLEAN])
        /\ Len(updateQueue') = Len(updateQueue) - 1
    BY <1>0, <2>1, QueueKept
  <2>3. Len(updateQueue') <= MaxQueue /\ state' \in States
    BY <1>0, <2>1, <2>2
  <2>4. QED
    BY <2>1, <2>2, <2>3, StateSet DEF IInv
<1>8. CASE UNCHANGED vars
  <2>1. UNCHANGED <<loadedObjects, updateQueue, state, shape, fading, orientation>>
    BY <1>8 DEF vars
  <2>2. ShapeInv'
    BY <1>0, <2>1, ShapeStutters
  <2>3. QED
    BY <2>1, <2>2 DEF IInv, shape, fading, orientation
<1>9. QED
  BY <1>1, <1>2, <1>3, <1>4, <1>5, <1>6, <1>7, <1>8 DEF Next

\* Every reachable state satisfies the invariant.
LEMMA InvariantHolds == Spec => []IInv
<1>1. Init => IInv
  BY InitIInv
<1>2. IInv /\ [Next]_vars => IInv'
  BY NextIInv
<1>3. QED
  BY <1>1, <1>2, PTL DEF Spec

-----------------------------------------------------------------------------
(* The theorems.                                                            *)

\* FocusSquare's state keeps its types; the counter stays within its interval.
THEOREM TypeCorrect == Spec => []TypeOK
<1>1. IInv => TypeOK
  <2> SUFFICES ASSUME IInv PROVE TypeOK
    OBVIOUS
  <2>1. \A i \in DOMAIN updateQueue : updateQueue[i] \in [state : States, steep : BOOLEAN]
    <3> DEFINE B == [state : States, steep : BOOLEAN]
    <3>1. updateQueue \in Seq(B)
      BY DEF IInv, RestOK
    <3> HIDE DEF B
    <3>2. \A i \in DOMAIN updateQueue : updateQueue[i] \in B
      BY <3>1
    <3>3. QED
      BY <3>2 DEF B
  <2>2. completions \subseteq {"opened", "pulsed", "shrunk", "closed"}
    BY DEF IInv, ShapeInv
  <2>3. segments \in [Segments -> [x : Int, y : Int, length : {OpenLength, Length}]]
    <3>1. \A s \in Segments : (IF isOpen \/ "shrunk" \in completions
                               THEN Open(s, Closed(s)) ELSE Closed(s))
                                \in [x : Int, y : Int, length : {OpenLength, Length}]
      BY ShapesTyped
    <3>2. QED
      BY <3>1, Zenon DEF IInv, ShapeInv
  <2>4. QED
    BY <2>1, <2>2, <2>3 DEF IInv, RestOK, TypeOK
<1>2. QED
  BY <1>1, InvariantHolds, PTL

\* The animation lock has one owner: performOpenAnimation and
\* performCloseAnimation never run over each other's completion blocks.
THEOREM LockCorrect == Spec => []AnimationOwned
<1>1. IInv => AnimationOwned
  BY DEF IInv, ShapeInv
<1>2. QED
  BY <1>1, InvariantHolds, PTL

\* A closed square never pulses, an open one at rest does, whatever updateQueue runs
\* between the two steps of the open animation's end.
THEOREM PulseCorrect == Spec => []PulseWhenOpen
<1>1. IInv => PulseWhenOpen
  BY DEF IInv, RestOK, ShapeInv, AnimationOwned, PulseInv, PulseWhenOpen
<1>2. QED
  BY <1>1, InvariantHolds, PTL

\* At rest the segments are open or closed to the unit, after any number of
\* openings and closings, each of which moves them from where they were.
THEOREM SegmentsCorrect == Spec => []SegmentsExact
<1>1. IInv => SegmentsExact
  <2> SUFFICES ASSUME IInv, ~isAnimating, NEW s \in Segments
               PROVE  LET seg == segments[s]  outward == OpenDirection(s)
                          outerEnd(g, at) == 2 * at + outward * g.length
                      IN  /\ seg.length = IF isOpen THEN OpenLength ELSE Length
                          /\ IF s.alignment = "horizontal"
                             THEN /\ seg.y = Closed(s).y
                                  /\ outerEnd(seg, seg.x) = outerEnd(Closed(s), Closed(s).x)
                             ELSE /\ seg.x = Closed(s).x
                                  /\ outerEnd(seg, seg.y) = outerEnd(Closed(s), Closed(s).y)
    BY DEF SegmentsExact
  <2> DEFINE seg == segments[s]
             closed == Closed(s)
             outward == OpenDirection(s)
  <2>1. /\ OpenLength = 200 /\ Length = 500
        /\ s.corner[1] \in {-1, 1} /\ s.corner[2] \in {-1, 1}
    BY SegmentSigns DEF OpenLength, Length
  <2>2. seg = IF isOpen THEN Open(s, Closed(s)) ELSE Closed(s)
    <3>1. completions = {}
      BY DEF IInv, ShapeInv, AnimationOwned
    <3>2. QED
      BY <3>1 DEF IInv, ShapeInv
  <2>3. CASE ~isOpen
    BY <2>1, <2>2, <2>3, ClosedSegment
  <2>4. CASE isOpen /\ s.alignment = "horizontal"
    <3>1. /\ seg.x = s.corner[1] * 241 + s.corner[1] * 150
          /\ seg.y = s.corner[2] * 491 /\ seg.length = 200
      BY <2>2, <2>4, OpenSegment
    <3>2. closed.x = s.corner[1] * 241 /\ closed.y = s.corner[2] * 491 /\ closed.length = 500
      BY <2>4, ClosedSegment
    <3>3. outward = s.corner[1]
      BY <2>4 DEF OpenDirection
    <3>4. 2 * seg.x + outward * seg.length = 2 * closed.x + outward * closed.length
      <4> HIDE DEF seg, closed, outward
      <4>1. QED
        BY <2>1, <3>1, <3>2, <3>3
    <3>5. QED
      BY <2>1, <2>4, <3>1, <3>2, <3>4
  <2>5. CASE isOpen /\ s.alignment # "horizontal"
    <3>1. /\ seg.y = s.corner[2] * 250 + s.corner[2] * 150
          /\ seg.x = s.corner[1] * 500 /\ seg.length = 200
      BY <2>2, <2>5, OpenSegment
    <3>2. closed.x = s.corner[1] * 500 /\ closed.y = s.corner[2] * 250 /\ closed.length = 500
      BY <2>5, ClosedSegment
    <3>3. outward = s.corner[2]
      BY <2>5 DEF OpenDirection
    <3>4. 2 * seg.y + outward * seg.length = 2 * closed.y + outward * closed.length
      <4> HIDE DEF seg, closed, outward
      <4>1. QED
        BY <2>1, <3>1, <3>2, <3>3
    <3>5. QED
      BY <2>1, <2>5, <3>1, <3>2, <3>4
  <2>6. QED
    BY <2>3, <2>4, <2>5
<1>2. QED
  BY <1>1, InvariantHolds, PTL
=============================================================================
