-------------------------- MODULE StatusMessages --------------------------
(* StatusViewController, the message panel over the AR scene, with the      *)
(* parts of ARViewController that show, schedule and cancel its messages.   *)
(* Time passes in ticks; a Timer is the number of ticks it still has to     *)
(* run.  A message is told apart only as far as the properties need: the    *)
(* escalated feedback about a tracking state, or any other.                 *)
(* An operator named X_Fault is the operator X with one mistake in it.      *)
EXTENDS Integers

CONSTANTS LimitedStates,  \* tracking states other than .normal
          EscalationDelay, FocusDelay, PlaneDelay, ContentDelay,  \* in ticks of 0.5 s
          DisplayDuration,
          MaxBlocks       \* bound: didAdd blocks waiting in the main queue

ASSUME DelaysAssumption ==
  /\ "normal" \notin LimitedStates /\ "other" \notin LimitedStates
  /\ {EscalationDelay, FocusDelay, PlaneDelay, ContentDelay, DisplayDuration}
       \subseteq Nat \ {0}
  /\ MaxBlocks \in Nat

VARIABLES
  shown,        \* the AR screen is on display
  tracking,     \* the camera's tracking state
  panel,        \* the message panel: visible or not, and its text
  timers,       \* messageHideTimer and the timers by MessageType
  escalated,    \* the tracking state the last escalation timer is about
  planeKnown,   \* the session holds a plane anchor
  planeBlocks   \* didAdd blocks waiting in the main queue

vars == <<shown, tracking, panel, timers, escalated, planeKnown, planeBlocks>>

MessageTypes == {"trackingStateEscalation", "planeEstimation", "contentPlacement", "focusSquare"}
TimerNames   == MessageTypes \cup {"hide"}

Off == -1   \* nil, invalidated or fired

TypeOK ==
  /\ shown \in BOOLEAN
  /\ tracking \in LimitedStates \cup {"normal"}
  /\ panel \in [visible : BOOLEAN, text : LimitedStates \cup {"other"}]
  /\ timers \in [TimerNames -> Nat \cup {Off}]
  /\ escalated \in LimitedStates
  /\ planeKnown \in BOOLEAN
  /\ planeBlocks \in 0..MaxBlocks

-----------------------------------------------------------------------------
(* StatusViewController.  Its methods change a table of timers t.           *)

\* scheduleMessage, after cancelScheduledMessage for the same type.
Schedule(t, type, delay) == [t EXCEPT ![type] = delay]

Cancel(t, type) == [t EXCEPT ![type] = Off]

CancelAllScheduledMessages_AllButEscalation(t) ==
  [n \in TimerNames |-> IF n \in {"hide", "trackingStateEscalation"} THEN t[n] ELSE Off]
CancelAllScheduledMessages(t) == [n \in TimerNames |-> IF n = "hide" THEN t[n] ELSE Off]

\* showMessage: the previous hide timer goes, a new one starts with autoHide.
ShowMessage_KeepsHideTimer(t, text, autoHide) ==
  /\ panel' = [visible |-> TRUE, text |-> text]
  /\ timers' = IF autoHide THEN [t EXCEPT !["hide"] = DisplayDuration] ELSE t
ShowMessage(t, text, autoHide) ==
  /\ panel' = [visible |-> TRUE, text |-> text]
  /\ timers' = [t EXCEPT !["hide"] = IF autoHide THEN DisplayDuration ELSE Off]

\* resetTracking schedules the hint to find a surface.
ScheduleSurfaceHint(t) == Schedule(t, "planeEstimation", PlaneDelay)

Init ==
  /\ shown = TRUE
  /\ tracking \in LimitedStates
  /\ panel = [visible |-> FALSE, text |-> "other"]
  /\ timers = ScheduleSurfaceHint([n \in TimerNames |-> Off])
  /\ escalated = tracking
  /\ planeKnown = FALSE /\ planeBlocks = 0

-----------------------------------------------------------------------------
(* Timers.                                                                  *)

Due(n) == timers[n] = 0

Tick ==
  /\ \A n \in TimerNames : ~Due(n)
  /\ timers' = [n \in TimerNames |-> IF timers[n] = Off THEN Off ELSE timers[n] - 1]
  /\ UNCHANGED <<shown, tracking, panel, escalated, planeKnown, planeBlocks>>

\* The block of scheduleMessage.
ScheduledMessageFires ==
  /\ \E type \in MessageTypes \ {"trackingStateEscalation"} :
       Due(type) /\ ShowMessage(Cancel(timers, type), "other", TRUE)
  /\ UNCHANGED <<shown, tracking, escalated, planeKnown, planeBlocks>>

\* The block of escalateFeedback: the message stays until another replaces it.
EscalationFires ==
  /\ Due("trackingStateEscalation")
  /\ ShowMessage(Cancel(timers, "trackingStateEscalation"), escalated, FALSE)
  /\ UNCHANGED <<shown, tracking, escalated, planeKnown, planeBlocks>>

\* The block of showMessage: setMessageHidden(true).
HideTimerFires ==
  /\ Due("hide")
  /\ panel' = [panel EXCEPT !.visible = FALSE]
  /\ timers' = Cancel(timers, "hide")
  /\ UNCHANGED <<shown, tracking, escalated, planeKnown, planeBlocks>>

-----------------------------------------------------------------------------
(* The callers.                                                             *)

\* cameraDidChangeTrackingState: the new state is shown, then limited tracking
\* is escalated after a while and normal tracking cancels the escalation.
TrackingChanges_NormalKeepsTimer ==
  /\ shown
  /\ \E s \in (LimitedStates \cup {"normal"}) \ {tracking} :
       /\ tracking' = s
       /\ IF s = "normal"
          THEN /\ ShowMessage(timers, "other", TRUE)
               /\ UNCHANGED escalated
          ELSE /\ ShowMessage(Schedule(timers, "trackingStateEscalation", EscalationDelay), "other", TRUE)
               /\ escalated' = s
  /\ UNCHANGED <<shown, planeKnown, planeBlocks>>
TrackingChanges_EscalatesNormal ==
  /\ shown
  /\ \E s \in (LimitedStates \cup {"normal"}) \ {tracking} :
       /\ tracking' = s /\ escalated' = s
       /\ ShowMessage(Schedule(timers, "trackingStateEscalation", EscalationDelay), "other", TRUE)
  /\ UNCHANGED <<shown, planeKnown, planeBlocks>>
TrackingChanges ==
  /\ shown
  /\ \E s \in (LimitedStates \cup {"normal"}) \ {tracking} :
       /\ tracking' = s
       /\ IF s = "normal"
          THEN /\ ShowMessage(Cancel(timers, "trackingStateEscalation"), "other", TRUE)
               /\ UNCHANGED escalated
          ELSE /\ ShowMessage(Schedule(timers, "trackingStateEscalation", EscalationDelay), "other", TRUE)
               /\ escalated' = s
  /\ UNCHANGED <<shown, planeKnown, planeBlocks>>

\* updateFocusSquare, the block that renderer(updateAtTime:) hands to the main queue
\* for each frame.  Without an object it schedules the hint anew, and when the centre
\* ray hits a surface it cancels it.  The view renders on while the screen slides
\* away, so the block may run on a closed screen; the camera it asks may be ahead of
\* the tracking state that the delegate has been told.
FrameBlock ==
  /\ \E empty, hit \in BOOLEAN :
       timers' = IF hit THEN Cancel(timers, "focusSquare")
                 ELSE IF empty THEN Schedule(timers, "focusSquare", FocusDelay)
                 ELSE timers
  /\ UNCHANGED <<shown, tracking, panel, escalated, planeKnown, planeBlocks>>

\* renderer(didAdd:): the render thread hands a block to the main queue, also for a
\* frame that was under way when the session paused.
PlaneAdded ==
  /\ planeBlocks < MaxBlocks
  /\ planeKnown' = TRUE
  /\ planeBlocks' = planeBlocks + 1
  /\ UNCHANGED <<shown, tracking, panel, timers, escalated>>

\* That block: the surface hint goes, and the next hint is scheduled when no
\* object is loaded.
PlaneBlock_KeepsHint ==
  /\ planeBlocks > 0
  /\ planeBlocks' = planeBlocks - 1
  /\ ShowMessage(timers, "other", TRUE)
  /\ UNCHANGED <<shown, tracking, escalated, planeKnown>>
PlaneBlock ==
  /\ planeBlocks > 0
  /\ planeBlocks' = planeBlocks - 1
  /\ \E empty \in BOOLEAN :
       LET t == Cancel(timers, "planeEstimation")
       IN  ShowMessage(IF empty THEN Schedule(t, "contentPlacement", ContentDelay) ELSE t,
                       "other", TRUE)
  /\ UNCHANGED <<shown, tracking, escalated, planeKnown>>

\* restartExperience cancels every scheduled message and resets the session,
\* whose plane anchors go.
RestartExperience ==
  /\ shown
  /\ timers' = ScheduleSurfaceHint(CancelAllScheduledMessages(timers))
  /\ planeKnown' = FALSE
  /\ UNCHANGED <<shown, tracking, panel, escalated, planeBlocks>>

\* The error alert resets the session only.
ErrorAlertRestart ==
  /\ shown
  /\ timers' = ScheduleSurfaceHint(timers)
  /\ planeKnown' = FALSE
  /\ UNCHANGED <<shown, tracking, panel, escalated, planeBlocks>>

\* No object for the id, or placeVirtualObject gives up (even when closed).
FailureMessage ==
  /\ ShowMessage(timers, "other", TRUE)
  /\ UNCHANGED <<shown, tracking, escalated, planeKnown, planeBlocks>>

\* prepareForClose.
Close ==
  /\ shown
  /\ shown' = FALSE
  /\ timers' = CancelAllScheduledMessages(timers)
  /\ UNCHANGED <<tracking, panel, escalated, planeKnown, planeBlocks>>

Next ==
  \/ Tick \/ ScheduledMessageFires \/ EscalationFires \/ HideTimerFires
  \/ TrackingChanges \/ FrameBlock \/ PlaneAdded \/ PlaneBlock
  \/ RestartExperience \/ ErrorAlertRestart \/ FailureMessage \/ Close

Spec == Init /\ [][Next]_vars

-----------------------------------------------------------------------------
(* Properties.                                                              *)

\* The hide timer is always that of the message on display: a message shown
\* with autoHide has one running, an escalated message is never hidden by the
\* timer of a message it replaced, and a hidden panel has no timer.
HideTimerOfCurrent ==
  timers["hide"] # Off <=> panel.visible /\ panel.text = "other"

\* An escalated message on display is not out of date: the change of tracking
\* that ends its reason replaces it.
EscalationNotStale == panel.visible /\ panel.text # "other" => panel.text = tracking

\* The hint to find a surface waits only while the session has none, or the
\* news of one is on its way to the main queue.
SurfaceHintNeeded == timers["planeEstimation"] # Off => ~planeKnown \/ planeBlocks > 0

\* What has waited about the tracking state or a surface to find ends with the
\* screen, whichever blocks run after prepareForClose: those of didAdd and of the
\* frames may show and schedule only a message about an object to add, or the hint
\* to move.
ClosedIsQuiet ==
  ~shown => timers["trackingStateEscalation"] = Off /\ timers["planeEstimation"] = Off
=============================================================================
