---------------------------- MODULE FirestoreGet ----------------------------
(* How the vendored Firestore client answers the app's getDocuments calls,  *)
(* all of one query: a listener per call that removes itself when it is     *)
(* answered (ListenOnce), the event manager, sync engine and remote store   *)
(* on the worker queue, the tracker that gives up waiting for the server,   *)
(* the watch stream with its backoff and idle timer, the count of responses *)
(* the server owes, and the server.  Documents are left out but for whether *)
(* a snapshot brings any, and whether some are in limbo (the cache has them *)
(* and the target does not); so are writes and credentials.                 *)
(*                                                                          *)
(* An operator named X_Fault is X with a bug the code could have had; no    *)
(* specification uses it, PROJECT.json lists the property that catches it.  *)
EXTENDS Integers, SequencesExt, Selections

CONSTANTS Gets,          \* calls of getDocuments
          MaxMain        \* bound: events waiting on the main queue

ASSUME ConstantsAssumption == MaxMain \in Nat

VARIABLES
  asked,      \* calls made
  answers,    \* what the app's completion handlers were given
  muted,      \* AsyncEventListener.muted_
  main,       \* events for the user executor, oldest first
  work,       \* ListenToQuery and RemoveListener blocks of the worker queue
  listeners,  \* QueryListenersInfo.listeners; queries_ holds the query if any
  raised,     \* QueryListener.raised_initial_event_
  view,       \* the query's view: "none", "cache", or "current" (View.current_)
  limbo,      \* View.limbo_documents_ is not empty
  target,     \* RemoteStore.listen_targets_ holds the query's target
  online,     \* OnlineStateTracker.state_, and EventManager.online_state_
  failures,   \* OnlineStateTracker.watch_stream_failures_, up to 1
  timer,      \* online_state_timer_ is running
  stream,     \* Stream.state_ of the watch stream
  idle,       \* its idleness_timer_ is running
  agg,        \* watch_change_aggregator_ and its TargetState
  requests,   \* watches and unwatches the server has not answered
  server,     \* the target on the server's side of the stream
  heard,      \* history: of the listen that made the view, whether its CURRENT came,
              \* or "others" may be mistaken for it as its watch overlapped them
  crossed     \* history: on this stream a rejection has put the count of responses
              \* out, as it crossed a request of the client

app     == <<asked, answers, muted>>
sync    == <<listeners, view, limbo, target>>
tracker == <<online, failures, timer>>
remote  == <<stream, idle, agg, requests, server>>
history == <<heard, crossed>>
vars == <<app, main, raised, work, sync, tracker, remote, history>>

Answers == INSTANCE OneAnswer WITH miscounted <- crossed
Results == Answers!Results

NoAggregator == [pending |-> 0, current |-> FALSE, changed |-> FALSE,
                 mismatch |-> FALSE, exists |-> FALSE]
\* A target's state before any response; has_pending_changes_ starts as true.
\* (pending_target_resets_, here mismatch, is the aggregator's and outlives it.)
NewState(mismatch) == [pending |-> 0, current |-> FALSE, changed |-> TRUE,
                       mismatch |-> mismatch, exists |-> TRUE]

TypeOK ==
  /\ Answers!AnswerTypeOK
  /\ muted \in [Gets -> BOOLEAN] /\ raised \in [Gets -> BOOLEAN]
  /\ main \in Seq([get : Gets, result : Results]) /\ Len(main) <= MaxMain
  /\ work \in Seq([op : {"add", "remove"}, get : Gets])
  /\ listeners \in Seq(Gets) /\ view \in {"none", "cache", "current"}
  /\ limbo \in BOOLEAN /\ target \in BOOLEAN
  /\ online \in {"Unknown", "Online", "Offline"}
  /\ failures \in 0..1 /\ timer \in BOOLEAN
  /\ stream \in {"Initial", "Starting", "Open", "Backoff", "Error"}
  /\ idle \in BOOLEAN
  /\ agg \in [pending : Int, current : BOOLEAN, changed : BOOLEAN,
              mismatch : BOOLEAN, exists : BOOLEAN]
  /\ requests \in Seq({"watch", "unwatch"})
  /\ server \in {"none", "added", "current"}
  /\ heard \in {"nothing", "others", "current"} /\ crossed \in BOOLEAN

Init ==
  /\ Answers!Init
  /\ muted = [g \in Gets |-> FALSE] /\ raised = [g \in Gets |-> FALSE]
  /\ main = <<>> /\ work = <<>>
  /\ listeners = <<>> /\ view = "none" /\ limbo = FALSE /\ target = FALSE
  /\ online = "Unknown" /\ failures = 0 /\ timer = FALSE
  /\ stream = "Initial" /\ idle = FALSE /\ agg = NoAggregator
  /\ requests = <<>> /\ server = "none"
  /\ heard = "nothing" /\ crossed = FALSE

-----------------------------------------------------------------------------
(* The main queue: getDocuments and ListenOnce.                             *)

\* GetDocuments -> AddSnapshotListener -> ListenToQuery.
GetDocuments(g) ==
  /\ g \notin asked
  /\ asked' = asked \cup {g}
  /\ work' = Append(work, [op |-> "add", get |-> g])
  /\ UNCHANGED <<answers, muted, main, raised, sync, tracker, remote, history>>

\* ListenOnce::OnEvent: on a snapshot the registration is removed, which mutes
\* the listener at once and takes it from the event manager later; then the
\* app's completion is called.
OnEvent_NotMuted(g, result) ==
  /\ answers' = [answers EXCEPT ![g] = Append(@, result)]
  /\ IF result = "error" THEN UNCHANGED work
     ELSE work' = Append(work, [op |-> "remove", get |-> g])
  /\ UNCHANGED muted
OnEvent_OnlyMutes(g, result) ==
  /\ answers' = [answers EXCEPT ![g] = Append(@, result)]
  /\ muted' = [muted EXCEPT ![g] = @ \/ result # "error"]
  /\ UNCHANGED work
OnEvent(g, result) ==
  /\ answers' = [answers EXCEPT ![g] = Append(@, result)]
  /\ IF result = "error" THEN UNCHANGED <<muted, work>>
     ELSE /\ muted' = [muted EXCEPT ![g] = TRUE]
          /\ work' = Append(work, [op |-> "remove", get |-> g])

\* A block of AsyncEventListener::OnEvent.
DeliverEvent ==
  /\ main # <<>>
  /\ main' = Tail(main)
  /\ IF muted[Head(main).get] THEN UNCHANGED <<answers, muted, work>>
     ELSE OnEvent(Head(main).get, Head(main).result)
  /\ UNCHANGED <<asked, raised, sync, tracker, remote, history>>

-----------------------------------------------------------------------------
(* Raising events, on the worker queue.                                     *)

\* Each listener of R is sent result, and has had its initial event.
Events(R, result) ==
  LET to == Selected(listeners, R)
  IN  [i \in DOMAIN to |-> [get |-> to[i], result |-> result]]
Raise(R, result) ==
  /\ main' = main \o Events(R, result)
  /\ Len(main') <= MaxMain
  /\ raised' = [g \in Gets |-> raised[g] \/ g \in R \cap ToSet(listeners)]
NoEvents == UNCHANGED <<main, raised>>

\* View.sync_state_, and what its snapshots say.
Synced   == view = "current" /\ ~limbo
Snapshot == IF Synced THEN "server" ELSE "cache"

\* SetAndBroadcast(Offline): the view loses its sync and tells so those who have
\* had a snapshot; those who wait are given what the cache has.
BroadcastOffline_OnlyViews ==
  /\ view' = IF view = "none" THEN "none" ELSE "cache"
  /\ IF online # "Offline" /\ Synced
     THEN Raise({g \in Gets : raised[g]}, "cache") ELSE NoEvents
BroadcastOffline ==
  /\ view' = IF view = "none" THEN "none" ELSE "cache"
  /\ IF online # "Offline"
     THEN Raise({g \in Gets : Synced \/ ~raised[g]}, "cache") ELSE NoEvents

\* OnlineStateTracker::UpdateState, with a state that tells nobody anything.
UpdateState(s) == online' = s /\ failures' = 0 /\ timer' = FALSE

-----------------------------------------------------------------------------
(* The watch stream and its requests.                                       *)

IsStarted == stream \in {"Starting", "Backoff", "Open"}

\* SendWatchRequest, SendUnwatchRequest: a write cancels the idle timer.
Send_KeepsIdle(batch) ==
  /\ requests' = requests \o batch
  /\ agg' = [agg EXCEPT !.pending = @ + Len(batch)]
  /\ UNCHANGED idle
Send(batch) ==
  /\ requests' = requests \o batch
  /\ agg' = [agg EXCEPT !.pending = @ + Len(batch)]
  /\ idle' = FALSE

\* StartWatchStream, from Listen: after an error the stream backs off first.
\* HandleWatchStreamStart starts the timer unless attempts have failed already.
StartWatchStream ==
  /\ stream' = IF stream = "Error" THEN "Backoff" ELSE "Starting"
  /\ agg' = NewState(FALSE)
  /\ online' = IF failures = 0 THEN "Unknown" ELSE online
  /\ timer' = (timer \/ failures = 0)
  /\ UNCHANGED failures

\* OnStreamStart -> OnWatchStreamOpen: the target's watch is sent.
StreamOpens ==
  /\ stream = "Starting" /\ stream' = "Open"
  /\ IF target THEN Send(<<"watch">>) ELSE UNCHANGED <<requests, agg, idle>>
  /\ UNCHANGED <<app, main, raised, work, sync, tracker, server, history>>

\* The block of BackoffAndTryRestarting.
BackoffEnds ==
  /\ stream = "Backoff" /\ stream' = "Starting"
  /\ UNCHANGED <<app, main, raised, work, sync, tracker, idle, agg, requests, server, history>>

\* Close, as far as the stream: what was on its way is lost.
Close(next) ==
  /\ stream' = next
  /\ idle' = FALSE /\ requests' = <<>> /\ server' = "none" /\ crossed' = FALSE

\* OnStreamFinish with an error -> OnWatchStreamClose: HandleWatchStreamFailure
\* and another attempt while the target is listened to.
StreamFails ==
  /\ stream \in {"Starting", "Open"}
  /\ IF target
     THEN /\ Close("Backoff")
          /\ agg' = NewState(FALSE)
          /\ \/ /\ online = "Online"
                /\ online' = "Unknown" /\ timer' = TRUE
                /\ UNCHANGED <<failures, view>> /\ NoEvents
             \/ /\ online # "Online"
                /\ online' = "Offline" /\ failures' = 1 /\ timer' = FALSE
                /\ BroadcastOffline
     ELSE /\ Close("Error")
          /\ agg' = NoAggregator
          /\ UpdateState("Unknown")
          /\ UNCHANGED view /\ NoEvents
  /\ UNCHANGED <<app, work, listeners, limbo, target, heard>>

\* Stop, 60 s after MarkIdle.
IdleTimerFires ==
  /\ idle
  /\ Close("Initial")
  /\ agg' = NoAggregator
  /\ UpdateState("Unknown")
  /\ UNCHANGED <<app, main, raised, work, sync, heard>>

\* The block of HandleWatchStreamStart, 10 s after it.
OnlineTimerFires ==
  /\ timer
  /\ timer' = FALSE /\ online' = "Offline"
  /\ BroadcastOffline
  /\ UNCHANGED <<app, work, listeners, limbo, target, failures, remote, history>>

-----------------------------------------------------------------------------
(* Listening, on the worker queue.                                          *)

\* RemoteStore::Listen; while the stream starts, OnWatchStreamOpen is to send it.
ListenRemotely ==
  /\ target' = TRUE
  /\ heard' = IF stream = "Open" /\ (requests # <<>> \/ crossed) THEN "others" ELSE "nothing"
  /\ \/ /\ ~IsStarted
        /\ StartWatchStream
        /\ UNCHANGED <<idle, requests>>
     \/ /\ stream = "Open"
        /\ Send(<<"watch">>)
        /\ UNCHANGED <<stream, tracker>>
     \/ /\ stream \in {"Starting", "Backoff"}
        /\ UNCHANGED <<stream, tracker, idle, agg, requests>>
  /\ UNCHANGED <<server, crossed>>

\* AddQueryListener: the first listener makes the view from the cache and the
\* target; a later one gets the last snapshot.
AddQueryListener_BeforeView ==
  /\ work # <<>> /\ Head(work).op = "add"
  /\ work' = Tail(work)
  /\ LET new == Head(work).get
         snapshot == IF view = "none" THEN "none" ELSE Snapshot
     IN /\ listeners' = Append(listeners, new)
        /\ IF snapshot = "server" \/ online = "Offline"
           THEN /\ main' = Append(main, [get |-> new, result |-> snapshot])
                /\ Len(main') <= MaxMain
                /\ raised' = [raised EXCEPT ![new] = TRUE]
           ELSE NoEvents
  /\ \/ /\ listeners = <<>>
        /\ view' = "cache" /\ limbo' = FALSE
        /\ ListenRemotely
     \/ /\ listeners # <<>>
        /\ UNCHANGED <<view, limbo, target, tracker, remote, history>>
  /\ UNCHANGED app

AddQueryListener ==
  /\ work # <<>> /\ Head(work).op = "add"
  /\ work' = Tail(work)
  /\ LET new == Head(work).get
         snapshot == IF listeners = <<>> THEN "cache" ELSE Snapshot
     IN /\ listeners' = Append(listeners, new)
        /\ IF snapshot = "server" \/ online = "Offline"
           THEN /\ main' = Append(main, [get |-> new, result |-> snapshot])
                /\ Len(main') <= MaxMain
                /\ raised' = [raised EXCEPT ![new] = TRUE]
           ELSE NoEvents
  /\ \/ /\ listeners = <<>>
        /\ view' = "cache" /\ limbo' = FALSE
        /\ ListenRemotely
     \/ /\ listeners # <<>>
        /\ UNCHANGED <<view, limbo, target, tracker, remote, history>>
  /\ UNCHANGED app

\* StopListening, and RemoveLimboTarget for each document in limbo: an open stream is
\* told and marked idle when nothing is listened to any more; otherwise the state
\* reverts to Unknown.
StopListening_NotCounted ==
  /\ view' = "none" /\ limbo' = FALSE /\ target' = FALSE
  /\ \/ /\ stream = "Open"
        /\ requests' = Append(requests, "unwatch")
        /\ idle' = TRUE
        /\ UNCHANGED <<tracker, agg>>
     \/ /\ stream # "Open"
        /\ UpdateState("Unknown")
        /\ UNCHANGED <<requests, agg, idle>>
StopListening ==
  /\ view' = "none" /\ limbo' = FALSE /\ target' = FALSE
  /\ \/ /\ stream = "Open"
        /\ requests' = Append(requests, "unwatch")
        /\ agg' = [agg EXCEPT !.pending = @ + 1]
        /\ idle' = TRUE
        /\ UNCHANGED tracker
     \/ /\ stream # "Open"
        /\ UpdateState("Unknown")
        /\ UNCHANGED <<requests, agg, idle>>

\* RemoveQueryListener; an error may have removed the listener before, and
\* another call's listener may be there by now.
RemoveQueryListener ==
  /\ work # <<>> /\ Head(work).op = "remove"
  /\ work' = Tail(work)
  /\ IF Head(work).get \notin ToSet(listeners)
     THEN UNCHANGED <<listeners, view, limbo, target, tracker, requests, agg, idle>>
     ELSE \E i \in DOMAIN listeners :
            /\ listeners[i] = Head(work).get
            /\ listeners' = RemoveAt(listeners, i)
            /\ IF listeners' = <<>> THEN StopListening
               ELSE UNCHANGED <<view, limbo, target, tracker, requests, agg, idle>>
  /\ UNCHANGED <<app, main, raised, stream, server, history>>

-----------------------------------------------------------------------------
(* The server's messages.  It answers requests in order; a message reaches  *)
(* OnWatchStreamChange as it is sent, and every one puts the client online. *)

Message == stream = "Open" /\ UpdateState("Online") /\ UNCHANGED <<app, work, stream>>
\* A message about the target that raises nothing.
TargetMessage ==
  Message /\ UNCHANGED <<main, raised, listeners, view, limbo, target, idle, crossed>>

\* One about a document's lookup, about nothing that changes, or of an old version.
ServerSpeaks == TargetMessage /\ UNCHANGED <<agg, requests, server, heard>>

IsActive == target /\ agg.pending = 0

\* HandleTargetChange, Added: the last response owed clears the pending changes,
\* not current_.
ServerAdds ==
  /\ TargetMessage
  /\ requests # <<>> /\ Head(requests) = "watch"
  /\ requests' = Tail(requests) /\ server' = "added"
  /\ \E changed \in BOOLEAN :   \* a new resume token changes the state too
       /\ agg.changed /\ agg.pending # 1 => changed
       /\ agg' = [agg EXCEPT !.pending = @ - 1, !.changed = changed]
  /\ UNCHANGED heard

\* HandleTargetChange, Removed: the last response owed removes the target.
ServerRemoves_KeepsState ==
  /\ TargetMessage
  /\ requests # <<>> /\ Head(requests) = "unwatch"
  /\ requests' = Tail(requests) /\ server' = "none"
  /\ agg' = [agg EXCEPT !.pending = @ - 1]
  /\ UNCHANGED heard
ServerRemoves ==
  /\ TargetMessage
  /\ requests # <<>> /\ Head(requests) = "unwatch"
  /\ requests' = Tail(requests) /\ server' = "none"
  /\ agg' = IF agg.pending = 1 THEN NewState(agg.mismatch)
            ELSE [agg EXCEPT !.pending = @ - 1]
  /\ UNCHANGED heard

\* HandleTargetChange, Current.
ServerCurrent ==
  /\ TargetMessage
  /\ server = "added" /\ server' = "current"
  /\ agg' = IF IsActive THEN [agg EXCEPT !.current = TRUE, !.changed = TRUE] ELSE agg
  /\ heard' = IF requests = <<>> THEN "current" ELSE heard
  /\ UNCHANGED requests

\* HandleTargetChange, Reset; and HandleExistenceFilter when the counts differ.
ServerResets ==
  /\ TargetMessage
  /\ server # "none"
  /\ \/ /\ server' = "added"
        /\ agg' = IF IsActive THEN NewState(agg.mismatch) ELSE agg
     \/ /\ UNCHANGED server
        /\ agg' = IF IsActive THEN NewState(TRUE) ELSE agg
  /\ UNCHANGED <<requests, heard>>

\* A remote event has a change of the target if its state has changed since the last,
\* by the news of this message (a resume token, a document) if not before.
TargetChange(news) == IsActive /\ (agg.changed \/ news)

\* ApplyRemoteEvent: the view is as current as a change of the target says.  What a
\* current view has and the target has not is in limbo: each document is looked up,
\* and until it is explained the view is not synced.  A snapshot is raised if that,
\* or a document, is new.
ApplyRemoteEvent(change, docs) ==
  /\ view' = IF ~change THEN view ELSE IF agg.current THEN "current" ELSE "cache"
  /\ IF view' = "current" /\ (change \/ docs) THEN limbo' \in BOOLEAN ELSE UNCHANGED limbo
  /\ IF docs \/ Synced' # Synced
     THEN Raise({g \in Gets : raised[g] \/ Synced'}, Snapshot') ELSE NoEvents

\* A snapshot version, before CURRENT or after: RaiseWatchSnapshot.  A target whose
\* filter did not match is unwatched and watched again.
ServerSnapshot_NotAskedAgain ==
  /\ Message
  /\ \E news, docs \in BOOLEAN :
       /\ ApplyRemoteEvent(TargetChange(news), docs)
       /\ agg' = IF TargetChange(news) THEN [agg EXCEPT !.mismatch = FALSE, !.changed = FALSE]
                 ELSE [agg EXCEPT !.mismatch = FALSE]
       /\ UNCHANGED requests
  /\ UNCHANGED <<listeners, target, idle, server, history>>
ServerSnapshot ==
  /\ Message
  /\ \E news, docs \in BOOLEAN :
       /\ ApplyRemoteEvent(TargetChange(news), docs)
       /\ LET cleared == IF TargetChange(news)
                         THEN [agg EXCEPT !.mismatch = FALSE, !.changed = FALSE]
                         ELSE [agg EXCEPT !.mismatch = FALSE] IN
            IF agg.mismatch /\ target
            THEN /\ agg' = [cleared EXCEPT !.pending = @ + 2]
                 /\ requests' = requests \o <<"unwatch", "watch">>
            ELSE agg' = cleared /\ UNCHANGED requests
  /\ UNCHANGED <<listeners, target, idle, server, history>>

\* A removal with a cause: ProcessTargetError, HandleRejectedListen, OnError.  With
\* the query go the lookups for it, the last of which marks the stream idle (unless
\* they were all rejected before).
RejectTarget ==
  IF target
  THEN /\ target' = FALSE /\ view' = "none" /\ limbo' = FALSE
       /\ UNCHANGED idle \/ (limbo /\ idle' = TRUE)
       /\ agg' = NewState(agg.mismatch)
       /\ main' = main \o [i \in DOMAIN listeners |-> [get |-> listeners[i], result |-> "error"]]
       /\ Len(main') <= MaxMain
       /\ listeners' = <<>>
  ELSE UNCHANGED <<target, view, limbo, idle, agg, main, listeners>>

\* A watch is rejected, or a target the server had accepted.  The count is put out
\* by a rejection that is ignored, the target having been removed already, as the
\* response it is does not count; and by one that has the state removed while later
\* requests are still to be answered.
ServerRejects ==
  /\ Message
  /\ \/ /\ requests # <<>> /\ Head(requests) = "watch" /\ server = "none"
        /\ requests' = Tail(requests)
     \/ server # "none" /\ UNCHANGED requests
  /\ server' = "none"
  /\ RejectTarget
  /\ crossed' = (crossed \/ IF target THEN requests' # <<>> ELSE requests' # requests)
  /\ UNCHANGED <<raised, heard>>

\* HandleRejectedListen for the lookup of a document in limbo, which is taken to be
\* deleted.
ServerRejectsLookup ==
  /\ Message
  /\ limbo
  /\ ApplyRemoteEvent(FALSE, TRUE)
  /\ UNCHANGED <<listeners, target, idle, agg, requests, server, history>>

-----------------------------------------------------------------------------
StreamStep == \/ StreamOpens \/ StreamFails \/ BackoffEnds
              \/ IdleTimerFires \/ OnlineTimerFires
ServerStep == \/ ServerSpeaks \/ ServerAdds \/ ServerRemoves \/ ServerCurrent \/ ServerResets
              \/ ServerSnapshot \/ ServerRejects \/ ServerRejectsLookup
Next == \/ \E g \in Gets : GetDocuments(g)
        \/ DeliverEvent \/ AddQueryListener \/ RemoveQueryListener
        \/ StreamStep \/ ServerStep

\* The last document in limbo is explained, by what the server knows of it or by the
\* rejection of its lookup.
LimboEnds ==
  view = "current" /\ limbo /\ (ServerSnapshot \/ ServerRejectsLookup) /\ limbo' = FALSE

\* Queues run their blocks, timers fire, an attempt to connect ends.  A server
\* that is connected again and again gets to say each of its messages, a snapshot
\* version after CURRENT among them, and does not reset the target for ever.
\* (AddQueryListener has SF since the bound MaxMain may disable it.)
Fairness ==
  /\ WF_vars(DeliverEvent) /\ SF_vars(AddQueryListener) /\ WF_vars(RemoveQueryListener)
  /\ WF_vars(OnlineTimerFires) /\ WF_vars(BackoffEnds)
  /\ WF_vars(stream = "Starting" /\ (StreamOpens \/ StreamFails))
  /\ SF_vars(ServerAdds) /\ SF_vars(ServerRemoves) /\ SF_vars(ServerCurrent)
  /\ SF_vars(server = "current" /\ ServerSnapshot) /\ SF_vars(LimboEnds)
  /\ <>[][~ServerResets]_vars

Spec == Init /\ [][Next]_vars /\ Fairness

-----------------------------------------------------------------------------
(* Properties.                                                              *)

\* Every getDocuments is answered at most once, by the cache, the server or an
\* error, and every one made is answered in the end, whatever becomes of the
\* connection: what FurnitureList takes for granted of its fetches.  The exception
\* is a stream that stays open for ever with a count that a rejection has put out.
ImplementsOneAnswer == Answers!Spec

\* The assertions of the client hold: there are listeners exactly while there is
\* a view and a target (EventManager, SyncEngine and RemoteStore are told of the
\* first and the last), the tracker's timer runs only while a first attempt is
\* under way and undecided, a stream is idle only while nothing is listened to,
\* and the aggregator is there exactly while the stream is started.
ListenersHaveTarget == (view # "none") = (listeners # <<>>) /\ target = (listeners # <<>>)
TimerOfFirstAttempt == timer => IsStarted /\ online = "Unknown" /\ failures = 0
OnlineIsCounted     == online = "Online" => failures = 0
IdleHasNoTarget     == idle => stream = "Open" /\ ~target
AggregatorOfStream  == agg.exists = IsStarted
AssertionsHold == /\ ListenersHaveTarget /\ TimerOfFirstAttempt /\ OnlineIsCounted
                  /\ IdleHasNoTarget /\ AggregatorOfStream

\* TargetState counts the responses that are on their way, so that a target is
\* active only when the server has caught up with the client: until a rejection
\* crosses a request.
ResponsesCounted == stream = "Open" /\ ~crossed => agg.pending = Len(requests)

\* A view that calls itself current is so by a CURRENT that the server sent for this
\* listen, unless the listen's watch was sent while earlier requests were still to
\* be answered: then, and only then, the CURRENT of a listen before it, which Added
\* does not take back, may do as well.
SyncedIsCurrent == view = "current" => heard # "nothing"

\* A get that has not been sent a snapshot waits for the server: the view is not
\* synced, the client does not know itself to be offline, and a stream is open or on
\* its way.
WaitsOnlyForServer ==
  \A i \in DOMAIN listeners :
    ~raised[listeners[i]] => ~Synced /\ online # "Offline" /\ IsStarted

\* It does not wait in vain while the count is right: on an open stream the server
\* has something to answer, or to say of the target it was asked for, or its next
\* snapshot makes the view current or has the target watched again, or a lookup of a
\* document in limbo is under way.
ServerOwesWaiters ==
  stream = "Open" /\ ~crossed /\ (\E i \in DOMAIN listeners : ~raised[listeners[i]]) =>
    \/ requests # <<>>
    \/ server = "added"
    \/ server = "current" /\ (agg.mismatch \/ (agg.current /\ agg.changed))
    \/ view = "current" /\ limbo
WaitersServed == WaitsOnlyForServer /\ ServerOwesWaiters

\* No get is lost between the queues: one that has no answer has a block that will
\* listen for it, or listens and waits for its first snapshot, or has an event on
\* its way that is not muted.  And no listener is left behind: one that has had a
\* snapshot has a block that will remove it, or has yet to be told of the snapshot.
CallsAccounted ==
  /\ \A g \in asked : answers[g] = <<>> =>
       \/ [op |-> "add", get |-> g] \in ToSet(work)
       \/ g \in ToSet(listeners) /\ ~raised[g]
       \/ ~muted[g] /\ \E e \in ToSet(main) : e.get = g
  /\ \A g \in ToSet(listeners) : raised[g] =>
       \/ [op |-> "remove", get |-> g] \in ToSet(work)
       \/ answers[g] = <<>> /\ \E e \in ToSet(main) : e.get = g

\* (Violated.)  While the client does not know whether the server can be reached,
\* a get does not wait for it without the timer that turns to the cache.
UnknownIsTimed ==
  (\E i \in DOMAIN listeners : ~raised[listeners[i]]) /\ online = "Unknown" => timer
=============================================================================
