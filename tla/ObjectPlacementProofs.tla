----------------------- MODULE ObjectPlacementProofs -----------------------
(* Proofs about ObjectPlacement for any places, anchors and length of       *)
(* updateQueue: its types, and that the furniture rests on its anchor.      *)
EXTENDS ObjectPlacement, TLAPS

-----------------------------------------------------------------------------
(* The queue: its type, and whether it owes an anchor.                      *)

QueueOK == queue \in Seq(Blocks) /\ Len(queue) <= MaxQueue

\* updateQueue.async keeps the queue a bounded sequence of blocks, and adds an
\* owed anchor exactly when the block is not one of didUpdate.
LEMMA AsyncQueue ==
  ASSUME NEW b \in Blocks, QueueOK, Async(b)
  PROVE  /\ QueueOK'
         /\ AnchorOwed' <=> AnchorOwed \/ b.kind # "moved"
<1>1. QueueOK'
  BY ConstantsAssumption DEF QueueOK, Async
<1>2. /\ queue' = Append(queue, b) /\ Len(queue) \in Nat
      /\ Len(queue') = Len(queue) + 1
      /\ queue'[Len(queue) + 1] = b
      /\ \A i \in 1..Len(queue) : queue'[i] = queue[i]
  BY DEF QueueOK, Async
<1>3. AnchorOwed' => AnchorOwed \/ b.kind # "moved"
  BY <1>2 DEF AnchorOwed
<1>4. AnchorOwed => AnchorOwed'
  BY <1>2 DEF AnchorOwed
<1>5. b.kind # "moved" => AnchorOwed'
  BY <1>2 DEF AnchorOwed
<1> QED
  BY <1>1, <1>3, <1>4, <1>5

\* Running the oldest block leaves a queue; a block of didUpdate is no anchor
\* owed, so what was owed before still is.
LEMMA RunQueue ==
  ASSUME QueueOK, queue # <<>>, queue' = Tail(queue)
  PROVE  /\ QueueOK'
         /\ Head(queue) \in Blocks
         /\ Head(queue).kind = "moved" /\ AnchorOwed => AnchorOwed'
<1>1. QueueOK' /\ Head(queue) \in Blocks
  BY ConstantsAssumption DEF QueueOK
<1>2. /\ Len(queue) \in Nat \ {0} /\ Len(queue') = Len(queue) - 1
      /\ Head(queue) = queue[1]
      /\ \A i \in 1..Len(queue') : queue'[i] = queue[i + 1]
  BY DEF QueueOK
<1>3. ASSUME Head(queue).kind = "moved", AnchorOwed PROVE AnchorOwed'
  <2>1. PICK i \in 1..Len(queue) : queue[i].kind # "moved"
    BY <1>3 DEF AnchorOwed
  <2>2. i # 1 /\ i - 1 \in 1..Len(queue') /\ queue'[i - 1] = queue[i]
    BY <2>1, <1>2, <1>3
  <2> QED
    BY <2>1, <2>2 DEF AnchorOwed
<1> QED
  BY <1>1, <1>3

\* A block of didUpdate is not the last that anchors the object, so it changes nothing
\* about that one; a block that anchors it becomes the last.
LEMMA AsyncLast ==
  ASSUME NEW b \in Blocks, QueueOK, Async(b), NEW k \in 1..Len(queue'), LastOwed(k)'
  PROVE  IF b.kind = "moved" THEN k \in 1..Len(queue) /\ LastOwed(k) /\ queue'[k] = queue[k]
         ELSE queue'[k] = b
<1>1. /\ queue' = Append(queue, b) /\ Len(queue) \in Nat
      /\ Len(queue') = Len(queue) + 1 /\ queue'[Len(queue) + 1] = b
      /\ \A i \in 1..Len(queue) : queue'[i] = queue[i]
  BY DEF QueueOK, Async
<1>2. /\ queue'[k].kind # "moved"
      /\ \A i \in 1..Len(queue') : i > k => queue'[i].kind = "moved"
  BY DEF LastOwed
<1>3. CASE b.kind = "moved"
  <2>1. k # Len(queue) + 1
    BY <1>1, <1>2, <1>3
  <2>2. k \in 1..Len(queue)
    BY <1>1, <2>1
  <2>3. LastOwed(k)
    BY <1>1, <1>2, <2>2 DEF LastOwed
  <2> QED
    BY <1>1, <1>3, <2>2, <2>3
<1>4. CASE b.kind # "moved"
  <2>1. Len(queue) + 1 \in 1..Len(queue') /\ ~(Len(queue) + 1 > k)
    BY <1>1, <1>2, <1>4
  <2>2. k = Len(queue) + 1
    BY <1>1, <2>1
  <2> QED
    BY <1>1, <1>4, <2>2
<1> QED
  BY <1>3, <1>4

\* When the oldest block is run, the last that anchors the object stays the last.
LEMMA RunLast ==
  ASSUME QueueOK, queue # <<>>, queue' = Tail(queue), NEW k \in 1..Len(queue'), LastOwed(k)'
  PROVE  \E j \in 1..Len(queue) : LastOwed(j) /\ queue'[k] = queue[j]
<1> DEFINE j == k + 1
<1>1. /\ Len(queue) \in Nat /\ Len(queue') = Len(queue) - 1
      /\ \A i \in 1..Len(queue') : queue'[i] = queue[i + 1]
  BY DEF QueueOK
<1>2. /\ queue'[k].kind # "moved"
      /\ \A i \in 1..Len(queue') : i > k => queue'[i].kind = "moved"
  BY DEF LastOwed
<1>3. j \in 1..Len(queue) /\ queue'[k] = queue[j]
  BY <1>1
<1>4. ASSUME NEW i \in 1..Len(queue), i > j PROVE queue[i].kind = "moved"
  <2> DEFINE n == i - 1
  <2>1. n \in 1..Len(queue') /\ n > k /\ n + 1 = i
    BY <1>1, <1>4
  <2> HIDE DEF n
  <2> QED
    BY <1>1, <1>2, <2>1
<1> HIDE DEF j
<1> QED
  BY <1>2, <1>3, <1>4 DEF LastOwed

-----------------------------------------------------------------------------
(* Types.                                                                   *)

\* A fresh screen has the declared types.
LEMMA TypeInit == Init => TypeOK
<1> SUFFICES ASSUME Init PROVE TypeOK
  OBVIOUS
<1>1. queue \in Seq(Blocks) /\ Len(queue) <= MaxQueue
  BY ConstantsAssumption DEF Init
<1>2. anchor \in Anchors /\ session \subseteq Ids
  BY DEF Init, Anchors
<1>3. /\ listed \in BOOLEAN /\ inScene \in BOOLEAN /\ raycast \in BOOLEAN
      /\ orphan \in BOOLEAN /\ shouldUpdateAnchor \in BOOLEAN /\ adrift \in BOOLEAN
  BY Zenon DEF Init
<1> QED
  BY <1>1, <1>2, <1>3 DEF Init, TypeOK

\* What the flags of a step are, whichever it is.
LEMMA FlagTypes ==
  ASSUME TypeOK, Next
  PROVE  /\ listed' \in BOOLEAN /\ inScene' \in BOOLEAN /\ raycast' \in BOOLEAN
         /\ orphan' \in BOOLEAN /\ shouldUpdateAnchor' \in BOOLEAN /\ adrift' \in BOOLEAN
         /\ load' \in {"none", "loading", "preparing"}
         /\ gesture' \in {"none", "pan", "panning"}
         /\ initial' \in Places \cup {NoPlace}
<1> USE DEF casts, RemoveAllVirtualObjects
<1>1. CASE AddTapped \/ LoadContent \/ RemoveTapped
  BY <1>1, Zenon DEF TypeOK, AddTapped, LoadContent, RemoveTapped
<1>2. CASE Place
  BY <1>2, Zenon DEF TypeOK, Place
<1>3. CASE GiveUpPlacing \/ ErrorAlertRestart \/ RestartExperience
  BY <1>3, Zenon DEF TypeOK, GiveUpPlacing, ErrorAlertRestart, RestartExperience
<1>4. CASE RaycastUpdate \/ AnchorMoved \/ RunAnchorBlock \/ RunMovedBlock
  <2>1. CASE RaycastUpdate
    <3>1. inScene' = TRUE /\ shouldUpdateAnchor' = FALSE
      BY <2>1, Zenon DEF RaycastUpdate
    <3>2. UNCHANGED <<listed, load, initial, casts, gesture, adrift>>
      BY <2>1, Zenon DEF RaycastUpdate
    <3> QED
      BY <3>1, <3>2, Zenon DEF TypeOK
  <2>2. CASE AnchorMoved
    BY <2>2, Zenon DEF TypeOK, AnchorMoved
  <2>3. CASE RunAnchorBlock
    BY <2>3, Zenon DEF TypeOK, RunAnchorBlock
  <2>4. CASE RunMovedBlock
    BY <2>4, Zenon DEF TypeOK, RunMovedBlock
  <2> QED
    BY <1>4, <2>1, <2>2, <2>3, <2>4
<1>5. CASE PanBegan \/ PanChanged
  BY <1>5, Zenon DEF TypeOK, PanBegan, PanChanged
<1>6. CASE PanEnded
  BY <1>6, Zenon DEF TypeOK, PanEnded, SetDown
<1>7. CASE PanCancelled
  BY <1>7, Zenon DEF TypeOK, PanCancelled
<1> QED
  BY <1>1, <1>2, <1>3, <1>4, <1>5, <1>6, <1>7, Zenon DEF Next

\* What a step makes of position, anchor, session and queue.
LEMMA PlaceTypes ==
  ASSUME TypeOK, Next
  PROVE  pos' \in Places /\ anchor' \in Anchors /\ session' \subseteq Ids /\ QueueOK'
<1>q. QueueOK
  BY DEF TypeOK, QueueOK
<1>1. CASE AddTapped \/ LoadContent \/ RemoveTapped \/ ErrorAlertRestart
           \/ RestartExperience \/ GiveUpPlacing \/ PanBegan \/ PanCancelled
  BY <1>1, <1>q DEF TypeOK, QueueOK, AddTapped, LoadContent, RemoveTapped,
     ErrorAlertRestart, RestartExperience, GiveUpPlacing, PanBegan, PanCancelled
<1>2. CASE Place \/ PanChanged
  BY <1>2, <1>q DEF TypeOK, QueueOK, Place, PanChanged
<1>3. CASE RaycastUpdate
  <2>1. AnchorBlock("anchor", pos') \in Blocks
    BY <1>3 DEF RaycastUpdate, AnchorBlock, Blocks
  <2>2. QueueOK'
    BY <1>3, <1>q, <2>1, AsyncQueue DEF RaycastUpdate, QueueOK
  <2> QED
    BY <1>3, <2>2 DEF TypeOK, RaycastUpdate
<1>4. CASE AnchorMoved
  <2>1. PICK i \in session, p \in Places : Async([kind |-> "moved", id |-> i, place |-> p])
    BY <1>4 DEF AnchorMoved
  <2>2. [kind |-> "moved", id |-> i, place |-> p] \in Blocks
    BY DEF TypeOK, Blocks
  <2>3. QueueOK'
    BY <1>q, <2>1, <2>2, AsyncQueue
  <2> QED
    BY <1>4, <2>3 DEF TypeOK, AnchorMoved
<1>5. CASE RunAnchorBlock
  <2>1. QueueOK'
    BY <1>5, <1>q, RunQueue DEF RunAnchorBlock
  <2>2. PICK new \in Ids : /\ anchor' = [id |-> new, place |-> pos]
                           /\ session' = (session \ {anchor.id}) \cup {new}
    BY <1>5 DEF RunAnchorBlock, AddOrUpdateAnchor, NewIds
  <2> QED
    BY <1>5, <2>1, <2>2 DEF TypeOK, RunAnchorBlock, Anchors
<1>6. CASE RunMovedBlock
  <2>1. QueueOK' /\ Head(queue) \in Blocks /\ Head(queue).kind = "moved"
    BY <1>6, <1>q, RunQueue DEF RunMovedBlock
  <2>2. Head(queue).id \in Ids /\ Head(queue).place \in Places
    BY <2>1 DEF Blocks
  <2> QED
    BY <1>6, <2>1, <2>2 DEF TypeOK, RunMovedBlock, FollowAnchor, Anchors
<1>7. CASE PanEnded
  <2>1. AnchorBlock("drop", pos) \in Blocks
    BY DEF TypeOK, AnchorBlock, Blocks
  <2>2. QueueOK'
    BY <1>7, <1>q, <2>1, AsyncQueue DEF PanEnded, SetDown, QueueOK
  <2> QED
    BY <1>7, <2>2 DEF TypeOK, PanEnded
<1> QED
  BY <1>1, <1>2, <1>3, <1>4, <1>5, <1>6, <1>7 DEF Next

\* Every step keeps the declared types.
LEMMA TypeNext == TypeOK /\ [Next]_vars => TypeOK'
<1>1. ASSUME TypeOK, Next PROVE TypeOK'
  BY <1>1, FlagTypes, PlaceTypes DEF TypeOK, QueueOK
<1>2. ASSUME TypeOK, UNCHANGED vars PROVE TypeOK'
  BY <1>2 DEF TypeOK, vars, casts
<1> QED
  BY <1>1, <1>2

-----------------------------------------------------------------------------
(* The object rests on its anchor.                                          *)

\* RestsOnAnchor and PendingAnchorHasSource say nothing of a gesture under way;
\* what makes them inductive is that a pan below its threshold has not moved
\* the object yet and leaves its raycast alone.
Still == inScene /\ gesture # "panning" /\ ~raycast /\ ~orphan /\ ~adrift

AtAnchor == Still /\ ~AnchorOwed => anchor.id # NoId /\ pos = anchor.place
AtDrop == Still => \A k \in 1..Len(queue) : LastOwed(k) =>
            queue[k].kind = "drop" /\ pos \in {queue[k].place, anchor.place}
AnchorComes == shouldUpdateAnchor /\ inScene /\ gesture # "panning" /\ ~adrift =>
                 raycast \/ orphan

RestInv == AtAnchor /\ AtDrop /\ AnchorComes

IInv == TypeOK /\ RestInv

\* A fresh screen has no object in the scene.
LEMMA RestInit == Init => RestInv
  BY DEF Init, RestInv, AtAnchor, AtDrop, AnchorComes, Still

\* No step of the app or of ARKit leaves the object away from its anchor and from
\* where it was dropped with nobody in charge of it.
LEMMA RestNext ==
  ASSUME IInv, [Next]_vars
  PROVE  RestInv'
<1> USE DEF casts
<1>q. QueueOK
  BY DEF IInv, TypeOK, QueueOK
<1>i. AtAnchor /\ AtDrop /\ AnchorComes
  BY DEF IInv, RestInv
\* Nothing is moved or queued, and a still object was so before.
<1>u. ASSUME Still' => Still, UNCHANGED <<pos, anchor, queue>>, AnchorComes'
      PROVE  RestInv'
  BY <1>i, <1>u DEF RestInv, AtAnchor, AtDrop, AnchorOwed, LastOwed
\* Somebody is in charge of the object.
<1>s. ASSUME ~Still', AnchorComes' PROVE RestInv'
  BY <1>s DEF RestInv, AtAnchor, AtDrop
<1>1. CASE AddTapped \/ LoadContent \/ ErrorAlertRestart \/ PanBegan
  <2>1. (Still' => Still) /\ UNCHANGED <<pos, anchor, queue>>
    BY <1>1 DEF Still, AddTapped, LoadContent, ErrorAlertRestart, PanBegan
  <2>2. AnchorComes'
    BY <1>1, <1>i DEF AnchorComes, AddTapped, LoadContent, ErrorAlertRestart, PanBegan
  <2> QED
    BY <1>u, <2>1, <2>2
<1>2. CASE RemoveTapped \/ GiveUpPlacing \/ RestartExperience
  <2>1. UNCHANGED <<pos, orphan, shouldUpdateAnchor, anchor, queue, gesture, adrift>>
    BY <1>2 DEF RemoveTapped, GiveUpPlacing, RestartExperience
  <2>2. (inScene' => inScene) /\ (listed => ~inScene') /\ (~listed => raycast' = raycast)
    BY <1>2 DEF RemoveTapped, GiveUpPlacing, RestartExperience, RemoveAllVirtualObjects,
       IInv, TypeOK
  <2>3. (Still' => Still) /\ AnchorComes'
    BY <1>i, <2>1, <2>2 DEF Still, AnchorComes
  <2> QED
    BY <1>u, <2>1, <2>3
<1>3. CASE Place
  BY <1>3, <1>s DEF Place, Still, AnchorComes
<1>4. CASE RaycastUpdate
  BY <1>4, <1>s DEF RaycastUpdate, Still, AnchorComes
<1>5. CASE AnchorMoved
  <2>1. PICK i \in session, p \in Places : Async([kind |-> "moved", id |-> i, place |-> p])
    BY <1>5 DEF AnchorMoved
  <2>2. PICK b \in Blocks : b = [kind |-> "moved", id |-> i, place |-> p]
    BY DEF IInv, TypeOK, Blocks
  <2>3. Async(b) /\ b.kind = "moved"
    BY <2>1, <2>2
  <2>4. /\ UNCHANGED <<pos, anchor>> /\ (Still' <=> Still)
        /\ UNCHANGED <<shouldUpdateAnchor, inScene, gesture, adrift, raycast, orphan>>
    BY <1>5 DEF AnchorMoved, Still
  <2>5. AtAnchor'
    BY <1>i, <1>q, <2>3, <2>4, AsyncQueue DEF AtAnchor
  <2>6. AtDrop'
    <3> SUFFICES ASSUME Still', NEW k \in 1..Len(queue'), LastOwed(k)'
                 PROVE  queue'[k].kind = "drop" /\ pos' \in {queue'[k].place, anchor'.place}
      BY DEF AtDrop
    <3>1. k \in 1..Len(queue) /\ LastOwed(k) /\ queue'[k] = queue[k]
      BY <1>q, <2>3, AsyncLast
    <3> QED
      BY <1>i, <2>4, <3>1 DEF AtDrop
  <2>7. AnchorComes'
    BY <1>i, <2>4 DEF AnchorComes
  <2> QED
    BY <2>5, <2>6, <2>7 DEF RestInv
<1>6. CASE RunAnchorBlock \/ RunMovedBlock
  <2>1. queue # <<>> /\ queue' = Tail(queue)
    BY <1>6 DEF RunAnchorBlock, RunMovedBlock
  <2>2. UNCHANGED <<shouldUpdateAnchor, inScene, gesture, adrift, raycast, orphan>>
    BY <1>6 DEF RunAnchorBlock, RunMovedBlock
  \* The anchor is put at the object, or the object at its anchor, or neither moves.
  <2>3. \/ anchor'.id # NoId /\ anchor'.place = pos'
        \/ UNCHANGED <<pos, anchor>> /\ (AnchorOwed => AnchorOwed')
    <3>1. CASE RunAnchorBlock
      <4>1. PICK new \in Ids : anchor' = [id |-> new, place |-> pos]
        BY <3>1 DEF RunAnchorBlock, AddOrUpdateAnchor, NewIds
      <4>2. pos' = pos /\ new # NoId
        BY <3>1, ConstantsAssumption DEF RunAnchorBlock
      <4> QED
        BY <4>1, <4>2
    <3>2. CASE RunMovedBlock
      <4>1. Head(queue) \in Blocks /\ Head(queue).kind = "moved" /\ (AnchorOwed => AnchorOwed')
        BY <3>2, <1>q, <2>1, RunQueue DEF RunMovedBlock
      <4>2. Head(queue).id # NoId
        BY <4>1, ConstantsAssumption DEF Blocks
      <4> QED
        BY <3>2, <4>1, <4>2 DEF RunMovedBlock, FollowAnchor
    <3> QED
      BY <1>6, <3>1, <3>2
  <2>4. Still' <=> Still
    BY <2>2 DEF Still
  <2>5. AtAnchor'
    BY <1>i, <2>3, <2>4 DEF AtAnchor
  <2>6. AtDrop'
    <3> SUFFICES ASSUME Still', NEW k \in 1..Len(queue'), LastOwed(k)'
                 PROVE  queue'[k].kind = "drop" /\ pos' \in {queue'[k].place, anchor'.place}
      BY DEF AtDrop
    <3>1. PICK j \in 1..Len(queue) : LastOwed(j) /\ queue'[k] = queue[j]
      BY <1>q, <2>1, RunLast
    <3>2. queue[j].kind = "drop" /\ pos \in {queue[j].place, anchor.place}
      BY <1>i, <2>4, <3>1 DEF AtDrop
    <3> QED
      BY <2>3, <3>1, <3>2
  <2>7. AnchorComes'
    BY <1>i, <2>2 DEF AnchorComes
  <2> QED
    BY <2>5, <2>6, <2>7 DEF RestInv
<1>7. CASE PanChanged
  BY <1>7, <1>s DEF PanChanged, Still, AnchorComes
<1>8. CASE PanEnded
  <2>1. \/ raycast'
        \/ ~shouldUpdateAnchor' /\ Async(AnchorBlock("drop", pos))
    BY <1>8 DEF PanEnded, SetDown
  <2>2. AnchorComes'
    BY <2>1 DEF AnchorComes
  <2>3. CASE raycast'
    BY <1>s, <2>2, <2>3 DEF Still
  <2>4. CASE Async(AnchorBlock("drop", pos))
    <3>1. PICK b \in Blocks : b = AnchorBlock("drop", pos)
      BY DEF IInv, TypeOK, AnchorBlock, Blocks
    <3>2. Async(b) /\ b.kind = "drop" /\ b.place = pos /\ pos' = pos
      BY <1>8, <2>4, <3>1 DEF AnchorBlock, PanEnded
    <3>3. AnchorOwed'
      BY <1>q, <3>2, AsyncQueue
    <3>4. \A k \in 1..Len(queue') : LastOwed(k)' => queue'[k] = b
      BY <1>q, <3>2, AsyncLast
    <3> QED
      BY <2>2, <3>2, <3>3, <3>4 DEF RestInv, AtAnchor, AtDrop
  <2> QED
    BY <2>1, <2>3, <2>4
<1>9. CASE PanCancelled
  <2>1. (Still' => Still) /\ UNCHANGED <<pos, anchor, queue>>
    BY <1>9 DEF Still, PanCancelled
  <2>2. AnchorComes'
    BY <1>9, <1>i DEF AnchorComes, PanCancelled
  <2> QED
    BY <1>u, <2>1, <2>2
<1>10. CASE UNCHANGED vars
  <2>1. (Still' => Still) /\ UNCHANGED <<pos, anchor, queue>>
    BY <1>10 DEF Still, vars
  <2>2. AnchorComes'
    BY <1>10, <1>i DEF AnchorComes, vars
  <2> QED
    BY <1>u, <2>1, <2>2
<1> QED
  BY <1>1, <1>2, <1>3, <1>4, <1>5, <1>6, <1>7, <1>8, <1>9, <1>10 DEF Next

\* The invariant holds in every reachable state.
LEMMA Invariant == Spec => []IInv
<1>1. Init => IInv
  BY TypeInit, RestInit DEF IInv
<1>2. IInv /\ [Next]_vars => IInv'
  BY TypeNext, RestNext DEF IInv
<1> QED
  BY <1>1, <1>2, PTL DEF Spec

-----------------------------------------------------------------------------
(* The theorems.                                                            *)

\* The placement's state keeps its types.
THEOREM TypeCorrect == Spec => []TypeOK
<1>1. IInv => TypeOK
  BY DEF IInv
<1> QED
  BY <1>1, Invariant, PTL

\* Whatever drags, drops, raycasts and anchor updates came before, an object
\* that nothing is in charge of is where its anchor is, or a drop is to anchor it last
\* and it is where it was dropped or where its anchor has moved to.
THEOREM ObjectRests == Spec => []RestsOnAnchor
<1>1. IInv => RestsOnAnchor
  BY DEF IInv, RestInv, AtAnchor, AtDrop, Still, Settled, RestsOnAnchor
<1> QED
  BY <1>1, Invariant, PTL

\* A put-down object waiting for an anchor has a raycast to bring it.
THEOREM PendingAnchorComes == Spec => []PendingAnchorHasSource
<1>1. IInv => PendingAnchorHasSource
  BY DEF IInv, RestInv, AnchorComes, PendingAnchorHasSource
<1> QED
  BY <1>1, Invariant, PTL

\* What DropKept asks for, as far as the code goes: when the block of the last drop
\* anchors a settled object, it does so where the object was dropped, or where the
\* anchor it had until then was moved by the session; nothing else comes between
\* (setDown, didUpdate).
DropAnchored ==
  [][ /\ queue # <<>> /\ queue' = Tail(queue) /\ LastOwed(1) /\ Settled
      => anchor'.place \in {Head(queue).place, anchor.place} ]_vars

\* DropAnchored holds: a drop that is lost, is lost to its own anchor's update.
THEOREM DropsAnchored == Spec => DropAnchored
<1>1. ASSUME IInv, [Next]_vars, queue # <<>>, queue' = Tail(queue), LastOwed(1), Settled
      PROVE  anchor'.place \in {Head(queue).place, anchor.place}
  <2>1. queue \in Seq(Blocks) /\ 1 \in 1..Len(queue) /\ Head(queue) = queue[1]
    BY <1>1 DEF IInv, TypeOK
  <2>2. Head(queue).kind = "drop" /\ pos \in {Head(queue).place, anchor.place}
    BY <1>1, <2>1 DEF IInv, RestInv, AtDrop, Still, Settled
  <2>3. queue' # queue
    <3>1. Len(queue) \in Nat \ {0} /\ Len(queue') = Len(queue) - 1
      BY <1>1, <2>1
    <3> QED
      BY <3>1
  <2>4. RunAnchorBlock \/ UNCHANGED anchor
    BY <1>1, <2>2 DEF Next, vars, AddTapped, LoadContent, RemoveTapped, Place, GiveUpPlacing,
       ErrorAlertRestart, RestartExperience, RaycastUpdate, AnchorMoved, RunMovedBlock,
       PanBegan, PanChanged, PanEnded, PanCancelled
  <2> QED
    BY <2>2, <2>4 DEF RunAnchorBlock, AddOrUpdateAnchor
<1> QED
  BY <1>1, Invariant, PTL DEF Spec, DropAnchored
=============================================================================
