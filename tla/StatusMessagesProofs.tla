------------------------ MODULE StatusMessagesProofs ------------------------
(* The message panel's invariants hold for any limited states, any delays   *)
(* and any number of waiting blocks.                                        *)
EXTENDS StatusMessages, TLAPS

\* A table of timers, each off or with some ticks to run.
TimerTable == [TimerNames -> Nat \cup {Off}]

USE DEF TimerNames, MessageTypes

-----------------------------------------------------------------------------
(* What the operators on timers do.                                         *)

\* The delays count ticks.
LEMMA DelaysAreTicks ==
  EscalationDelay \in Nat /\ FocusDelay \in Nat /\ PlaneDelay \in Nat /\ ContentDelay \in Nat
BY DelaysAssumption

\* Cancelling yields a table again and touches one timer.
LEMMA CancelTable ==
  ASSUME NEW t \in TimerTable, NEW type \in TimerNames
  PROVE  /\ Cancel(t, type) \in TimerTable
         /\ Cancel(t, type)[type] = Off
         /\ \A n \in TimerNames \ {type} : Cancel(t, type)[n] = t[n]
BY DEF Cancel, TimerTable

\* Cancelling all scheduled messages leaves the hide timer.
LEMMA CancelAllTable ==
  ASSUME NEW t \in TimerTable
  PROVE  /\ CancelAllScheduledMessages(t) \in TimerTable
         /\ CancelAllScheduledMessages(t)["hide"] = t["hide"]
         /\ \A n \in MessageTypes : CancelAllScheduledMessages(t)[n] = Off
BY DEF CancelAllScheduledMessages, TimerTable

\* Showing a message makes the panel visible with its text and touches the hide
\* timer only, which then runs exactly if the message hides by itself.
LEMMA ShowMessageTable ==
  ASSUME NEW t \in TimerTable, NEW text \in LimitedStates \cup {"other"},
         NEW autoHide \in BOOLEAN, ShowMessage(t, text, autoHide)
  PROVE  /\ panel' = [visible |-> TRUE, text |-> text]
         /\ timers' \in TimerTable
         /\ (timers'["hide"] # Off) <=> autoHide
         /\ \A n \in MessageTypes : timers'[n] = t[n]
BY DelaysAssumption DEF ShowMessage, TimerTable, Off

-----------------------------------------------------------------------------
(* The inductive invariant.                                                 *)

\* The escalation timer is about the tracking state there is: what EscalationFires
\* shows is not out of date.  EscalationNotStale is not inductive without it.
EscalationOfTracking ==
  timers["trackingStateEscalation"] # Off => escalated = tracking

MessageInv ==
  /\ HideTimerOfCurrent /\ EscalationOfTracking /\ EscalationNotStale
  /\ SurfaceHintNeeded /\ ClosedIsQuiet

\* The first screen has its hint to find a surface scheduled and nothing else.
LEMMA InitCorrect == Init => TypeOK /\ MessageInv
<1> SUFFICES ASSUME Init PROVE TypeOK /\ MessageInv
  OBVIOUS
<1> DEFINE none == [n \in TimerNames |-> Off]
<1>1. none \in TimerTable /\ PlaneDelay \in Nat
  BY DelaysAreTicks DEF TimerTable
<1>2. /\ timers \in TimerTable
      /\ timers["planeEstimation"] = PlaneDelay
      /\ \A n \in TimerNames \ {"planeEstimation"} : timers[n] = Off
  <2> HIDE DEF none
  <2>1. timers = Schedule(none, "planeEstimation", PlaneDelay)
    BY DEF Init, ScheduleSurfaceHint, none
  <2>2. \A n \in TimerNames : none[n] = Off
    BY DEF none
  <2> QED
    BY <1>1, <2>1, <2>2 DEF Schedule, TimerTable
<1>3. TypeOK
  <2> HIDE DEF none
  <2>1. timers \in [TimerNames -> Nat \cup {Off}]
    BY <1>2 DEF TimerTable
  <2>2. panel \in [visible : BOOLEAN, text : LimitedStates \cup {"other"}]
    BY DEF Init
  <2>3. planeBlocks \in 0..MaxBlocks
    BY DelaysAssumption DEF Init
  <2> QED
    BY <2>1, <2>2, <2>3 DEF Init, TypeOK
<1>4. MessageInv
  BY <1>2 DEF Init, MessageInv, HideTimerOfCurrent, EscalationOfTracking,
     EscalationNotStale, SurfaceHintNeeded, ClosedIsQuiet
<1> QED
  BY <1>3, <1>4

\* A step that shows a message which hides by itself, and leaves the reasons of
\* the other timers alone, keeps the invariant.
LEMMA ShowingKeeps ==
  ASSUME TypeOK, MessageInv,
         NEW t \in TimerTable, ShowMessage(t, "other", TRUE),
         shown' = shown, tracking' = tracking, escalated' = escalated,
         planeKnown' = planeKnown, planeBlocks' \in 0..MaxBlocks,
         \A n \in {"trackingStateEscalation", "focusSquare"} : t[n] = Off \/ t[n] = timers[n],
         t["planeEstimation"] # Off =>
           t["planeEstimation"] = timers["planeEstimation"] /\ planeBlocks' = planeBlocks
  PROVE  TypeOK' /\ MessageInv'
<1>1. /\ panel' = [visible |-> TRUE, text |-> "other"]
      /\ timers' \in TimerTable
      /\ timers'["hide"] # Off
      /\ \A n \in MessageTypes : timers'[n] = t[n]
  BY ShowMessageTable
<1>2. TypeOK'
  BY <1>1 DEF TypeOK, TimerTable
<1>3. HideTimerOfCurrent' /\ EscalationNotStale'
  BY <1>1 DEF HideTimerOfCurrent, EscalationNotStale
<1>4. EscalationOfTracking' /\ SurfaceHintNeeded' /\ ClosedIsQuiet'
  BY <1>1 DEF MessageInv, EscalationOfTracking, SurfaceHintNeeded, ClosedIsQuiet
<1> QED
  BY <1>2, <1>3, <1>4 DEF MessageInv

\* Every step keeps the types and the invariant.
LEMMA StepCorrect == TypeOK /\ MessageInv /\ [Next]_vars => TypeOK' /\ MessageInv'
<1> SUFFICES ASSUME TypeOK, MessageInv, [Next]_vars PROVE TypeOK' /\ MessageInv'
  OBVIOUS
<1> USE DEF TypeOK, MessageInv
<1>0. timers \in TimerTable
  BY DEF TimerTable
<1>1. CASE Tick
  <2>1. timers' \in TimerTable
    BY <1>1 DEF Tick, Due, TimerTable, Off
  <2>2. \A n \in TimerNames : timers'[n] = Off <=> timers[n] = Off
    BY <1>1 DEF Tick, Due, Off
  <2> QED
    BY <1>1, <2>1, <2>2 DEF Tick, TimerTable, HideTimerOfCurrent, EscalationOfTracking,
       EscalationNotStale, SurfaceHintNeeded, ClosedIsQuiet
<1>2. CASE ScheduledMessageFires
  <2>1. PICK type \in MessageTypes \ {"trackingStateEscalation"} :
          Due(type) /\ ShowMessage(Cancel(timers, type), "other", TRUE)
    BY <1>2 DEF ScheduledMessageFires
  <2> DEFINE t == Cancel(timers, type)
  <2>2. /\ t \in TimerTable /\ t[type] = Off
        /\ \A n \in TimerNames \ {type} : t[n] = timers[n]
    BY <1>0, CancelTable
  <2> HIDE DEF t
  <2> QED
    BY <1>2, <2>1, <2>2, ShowingKeeps DEF ScheduledMessageFires, t
<1>3. CASE EscalationFires
  <2> DEFINE t == Cancel(timers, "trackingStateEscalation")
  <2>1. /\ t \in TimerTable /\ t["trackingStateEscalation"] = Off
        /\ \A n \in TimerNames \ {"trackingStateEscalation"} : t[n] = timers[n]
    BY <1>0, CancelTable
  <2>2. ShowMessage(t, escalated, FALSE)
    BY <1>3 DEF EscalationFires
  <2> HIDE DEF t
  <2>3. /\ panel' = [visible |-> TRUE, text |-> escalated]
        /\ timers' \in TimerTable /\ timers'["hide"] = Off
        /\ \A n \in MessageTypes : timers'[n] = t[n]
    BY <2>1, <2>2, ShowMessageTable
  <2>4. timers["trackingStateEscalation"] # Off
    BY <1>3 DEF EscalationFires, Due, Off
  <2>5. escalated = tracking /\ escalated # "other"
    BY <2>4, DelaysAssumption DEF EscalationOfTracking
  <2> QED
    BY <1>3, <2>1, <2>3, <2>5 DEF EscalationFires, TimerTable, HideTimerOfCurrent,
       EscalationOfTracking, EscalationNotStale, SurfaceHintNeeded, ClosedIsQuiet
<1>4. CASE HideTimerFires
  <2>1. /\ timers' \in TimerTable /\ timers'["hide"] = Off
        /\ \A n \in MessageTypes : timers'[n] = timers[n]
    BY <1>0, <1>4, CancelTable DEF HideTimerFires
  <2> QED
    BY <1>4, <2>1 DEF HideTimerFires, TimerTable, HideTimerOfCurrent,
       EscalationOfTracking, EscalationNotStale, SurfaceHintNeeded, ClosedIsQuiet
<1>5. CASE TrackingChanges
  <2>1. PICK s \in (LimitedStates \cup {"normal"}) \ {tracking} :
          /\ tracking' = s
          /\ IF s = "normal"
             THEN /\ ShowMessage(Cancel(timers, "trackingStateEscalation"), "other", TRUE)
                  /\ UNCHANGED escalated
             ELSE /\ ShowMessage(Schedule(timers, "trackingStateEscalation", EscalationDelay),
                                 "other", TRUE)
                  /\ escalated' = s
    BY <1>5 DEF TrackingChanges
  <2> DEFINE t == IF s = "normal" THEN Cancel(timers, "trackingStateEscalation")
                  ELSE Schedule(timers, "trackingStateEscalation", EscalationDelay)
  <2>2. /\ t \in TimerTable
        /\ s = "normal" => t["trackingStateEscalation"] = Off
        /\ \A n \in TimerNames \ {"trackingStateEscalation"} : t[n] = timers[n]
    BY <1>0, CancelTable, DelaysAreTicks DEF Schedule, TimerTable
  <2>3. ShowMessage(t, "other", TRUE)
    BY <2>1
  <2> HIDE DEF t
  <2>4. /\ panel' = [visible |-> TRUE, text |-> "other"]
        /\ timers' \in TimerTable /\ timers'["hide"] # Off
        /\ \A n \in MessageTypes : timers'[n] = t[n]
    BY <2>2, <2>3, ShowMessageTable
  <2>5. tracking' \in LimitedStates \cup {"normal"} /\ escalated' \in LimitedStates
    BY <2>1
  <2>6. EscalationOfTracking'
    BY <2>1, <2>2, <2>4 DEF EscalationOfTracking
  <2> QED
    BY <1>5, <2>2, <2>4, <2>5, <2>6 DEF TrackingChanges, TimerTable, HideTimerOfCurrent,
       EscalationNotStale, SurfaceHintNeeded, ClosedIsQuiet
<1>6. CASE FrameBlock
  <2>1. /\ timers' \in TimerTable
        /\ \A n \in TimerNames \ {"focusSquare"} : timers'[n] = timers[n]
    BY <1>0, <1>6, CancelTable, DelaysAreTicks DEF FrameBlock, Schedule, TimerTable
  <2> QED
    BY <1>6, <2>1 DEF FrameBlock, TimerTable, HideTimerOfCurrent, EscalationOfTracking,
       EscalationNotStale, SurfaceHintNeeded, ClosedIsQuiet
<1>7. CASE PlaneAdded
  BY <1>7, DelaysAssumption DEF PlaneAdded, HideTimerOfCurrent, EscalationOfTracking,
     EscalationNotStale, SurfaceHintNeeded, ClosedIsQuiet
<1>8. CASE PlaneBlock
  <2> DEFINE t == Cancel(timers, "planeEstimation")
             u(empty) == IF empty THEN Schedule(t, "contentPlacement", ContentDelay) ELSE t
  <2>1. PICK empty \in BOOLEAN : ShowMessage(u(empty), "other", TRUE)
    BY <1>8 DEF PlaneBlock
  <2>2. /\ t \in TimerTable /\ t["planeEstimation"] = Off
        /\ \A n \in TimerNames \ {"planeEstimation"} : t[n] = timers[n]
    BY <1>0, CancelTable
  <2> HIDE DEF t
  <2>3. /\ u(empty) \in TimerTable
        /\ \A n \in TimerNames \ {"contentPlacement"} : u(empty)[n] = t[n]
    BY <2>2, DelaysAreTicks DEF Schedule, TimerTable
  <2>4. planeBlocks' \in 0..MaxBlocks
    BY <1>8, DelaysAssumption DEF PlaneBlock
  <2> HIDE DEF u
  <2> QED
    BY <1>8, <2>1, <2>2, <2>3, <2>4, ShowingKeeps DEF PlaneBlock
<1>9. CASE RestartExperience
  <2> DEFINE t == CancelAllScheduledMessages(timers)
  <2>1. /\ t \in TimerTable /\ t["hide"] = timers["hide"]
        /\ \A n \in MessageTypes : t[n] = Off
    BY <1>0, CancelAllTable
  <2> HIDE DEF t
  <2>2. /\ timers' \in TimerTable
        /\ \A n \in TimerNames \ {"planeEstimation"} : timers'[n] = t[n]
    BY <1>9, <2>1, DelaysAreTicks DEF RestartExperience, ScheduleSurfaceHint, Schedule, TimerTable, t
  <2> QED
    BY <1>9, <2>1, <2>2 DEF RestartExperience, TimerTable, HideTimerOfCurrent,
       EscalationOfTracking, EscalationNotStale, SurfaceHintNeeded, ClosedIsQuiet
<1>10. CASE ErrorAlertRestart
  <2>1. /\ timers' \in TimerTable
        /\ \A n \in TimerNames \ {"planeEstimation"} : timers'[n] = timers[n]
    BY <1>0, <1>10, DelaysAreTicks DEF ErrorAlertRestart, ScheduleSurfaceHint, Schedule, TimerTable
  <2> QED
    BY <1>10, <2>1 DEF ErrorAlertRestart, TimerTable, HideTimerOfCurrent,
       EscalationOfTracking, EscalationNotStale, SurfaceHintNeeded, ClosedIsQuiet
<1>11. CASE FailureMessage
  BY <1>0, <1>11, ShowingKeeps DEF FailureMessage
<1>12. CASE Close
  <2>1. /\ timers' \in TimerTable /\ timers'["hide"] = timers["hide"]
        /\ \A n \in MessageTypes : timers'[n] = Off
    BY <1>0, <1>12, CancelAllTable DEF Close
  <2> QED
    BY <1>12, <2>1 DEF Close, TimerTable, HideTimerOfCurrent, EscalationOfTracking,
       EscalationNotStale, SurfaceHintNeeded, ClosedIsQuiet
<1>13. CASE UNCHANGED vars
  BY <1>13 DEF vars, HideTimerOfCurrent, EscalationOfTracking, EscalationNotStale,
     SurfaceHintNeeded, ClosedIsQuiet
<1> QED
  BY <1>1, <1>2, <1>3, <1>4, <1>5, <1>6, <1>7, <1>8, <1>9, <1>10, <1>11, <1>12, <1>13 DEF Next

-----------------------------------------------------------------------------

\* Every reachable state satisfies the inductive invariant.
LEMMA InvCorrect == Spec => [](TypeOK /\ MessageInv)
BY InitCorrect, StepCorrect, PTL DEF Spec

\* The panel, its timers and the tracking state keep their types: no timer runs
\* past its block.
THEOREM TypeCorrect == Spec => []TypeOK
BY InvCorrect, PTL

\* The hide timer belongs to the message on display: a message of updateMessage
\* or escalateFeedback is never hidden by the timer of the one it replaced.
THEOREM HideTimerCorrect == Spec => []HideTimerOfCurrent
<1>1. MessageInv => HideTimerOfCurrent
  BY DEF MessageInv
<1> QED
  BY <1>1, InvCorrect, PTL

\* Feedback about limited tracking is never on display once tracking has changed,
\* whichever timers of cameraDidChangeTrackingState are still to fire.
THEOREM EscalationCorrect == Spec => []EscalationNotStale
<1>1. MessageInv => EscalationNotStale
  BY DEF MessageInv
<1> QED
  BY <1>1, InvCorrect, PTL

\* The surface hint waits only while no plane is known or the news of one is on
\* its way, restarts and late blocks of didAdd included.
THEOREM SurfaceHintCorrect == Spec => []SurfaceHintNeeded
<1>1. MessageInv => SurfaceHintNeeded
  BY DEF MessageInv
<1> QED
  BY <1>1, InvCorrect, PTL

\* A closed screen's panel has no escalation and no surface hint waiting, although the
\* blocks of frames and of didAdd still run.
THEOREM ClosedCorrect == Spec => []ClosedIsQuiet
<1>1. MessageInv => ClosedIsQuiet
  BY DEF MessageInv
<1> QED
  BY <1>1, InvCorrect, PTL
=============================================================================
