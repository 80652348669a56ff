------------------------- MODULE FirestoreGetProofs -------------------------
(* The client's assertions hold, a waiting get waits for the server, the    *)
(* responses are counted, and every get is answered at most once: for any   *)
(* number of overlapping gets and any bound on the main queue.              *)
EXTENDS FirestoreGet, SelectionsProofs

Event == [get : Gets, result : Results]
Item == [op : {"add", "remove"}, get : Gets]

\* What the two queues hold.
LEMMA ItemsAndEvents ==
  /\ \A g \in Gets : [op |-> "add", get |-> g] \in Item /\ [op |-> "remove", get |-> g] \in Item
  /\ \A x \in Item : x.get \in Gets
  /\ \A g \in Gets, r \in Results : [get |-> g, result |-> r] \in Event
  /\ \A e \in Event : e.get \in Gets /\ e.result \in Results
  /\ "cache" \in Results /\ "server" \in Results /\ "error" \in Results
<1>1. \A g \in Gets : [op |-> "add", get |-> g] \in Item /\ [op |-> "remove", get |-> g] \in Item
  BY DEF Item
<1>2. \A x \in Item : x.get \in Gets
  BY DEF Item
<1>3. \A g \in Gets, r \in Results : [get |-> g, result |-> r] \in Event
  BY DEF Event
<1>4. \A e \in Event : e.get \in Gets /\ e.result \in Results
  BY DEF Event
<1>5. "cache" \in Results /\ "server" \in Results /\ "error" \in Results
  BY DEF Results, Answers!Results
<1> QED
  BY <1>1, <1>2, <1>3, <1>4, <1>5

-----------------------------------------------------------------------------
(* Raising events.                                                          *)

\* The listeners of R are sent one event each.
LEMMA EventsToListeners ==
  ASSUME listeners \in Seq(Gets), NEW R, NEW result \in Results
  PROVE  /\ Events(R, result) \in Seq(Event)
         /\ \A i \in 1..Len(Events(R, result)) :
              /\ Events(R, result)[i].get \in Elements(listeners)
              /\ Events(R, result)[i].result = result
<1> DEFINE to == Selected(listeners, R)
<1>1. to \in Seq(Gets) /\ Elements(to) \subseteq Elements(listeners)
  BY SelectedProperties
<1>2. \A i \in 1..Len(to) : to[i] \in Elements(listeners)
  BY <1>1 DEF Elements
<1> HIDE DEF to
<1> DEFINE e == [i \in 1..Len(to) |-> [get |-> to[i], result |-> result]]
<1>3. e \in Seq(Event) /\ Len(e) = Len(to)
  BY <1>1 DEF Event
<1>4. \A i \in 1..Len(e) : e[i].get \in Elements(listeners) /\ e[i].result = result
  BY <1>2, <1>3
<1>5. Events(R, result) = e
  BY <1>1 DEF Events, to
<1> HIDE DEF e
<1> QED
  BY <1>3, <1>4, <1>5

\* Raising keeps the queue's type and adds to the listeners that had an event.
LEMMA RaiseTypes ==
  ASSUME TypeOK, NEW R, NEW result \in Results, Raise(R, result)
  PROVE  /\ main' \in Seq(Event) /\ Len(main') <= MaxMain
         /\ raised' \in [Gets -> BOOLEAN]
         /\ \A g \in Gets : raised[g] => raised'[g]
         /\ \A g \in Elements(listeners) : g \in R => raised'[g]
<1>1. main \in Seq(Event) /\ listeners \in Seq(Gets)
  BY DEF TypeOK, Event
<1>2. Events(R, result) \in Seq(Event)
  BY <1>1, EventsToListeners
<1>3. main' \in Seq(Event) /\ Len(main') <= MaxMain
  BY <1>1, <1>2 DEF Raise
<1>4. raised' = [g \in Gets |-> raised[g] \/ g \in R \cap ToSet(listeners)]
  BY DEF Raise
<1>5. raised \in [Gets -> BOOLEAN]
  BY DEF TypeOK
<1>6. ToSet(listeners) = Elements(listeners) /\ Elements(listeners) \subseteq Gets
  BY <1>1 DEF ToSet, Elements
<1> QED
  BY <1>3, <1>4, <1>5, <1>6

\* Going offline without the view losing or gaining its being there.
LEMMA OfflineTypes ==
  ASSUME TypeOK, BroadcastOffline
  PROVE  /\ main' \in Seq(Event) /\ Len(main') <= MaxMain
         /\ raised' \in [Gets -> BOOLEAN]
         /\ \A g \in Gets : raised[g] => raised'[g]
         /\ online # "Offline" => \A g \in Elements(listeners) : raised'[g]
         /\ view' \in {"none", "cache"} /\ (view' = "none" <=> view = "none")
<1>1. view' \in {"none", "cache"} /\ (view' = "none" <=> view = "none")
  BY DEF BroadcastOffline, TypeOK
<1>2. CASE online # "Offline"
  <2> DEFINE R == {g \in Gets : Synced \/ ~raised[g]}
  <2>1. Raise(R, "cache") /\ "cache" \in Results
    BY <1>2 DEF BroadcastOffline, Results, Answers!Results
  <2>2. Elements(listeners) \subseteq Gets
    BY DEF TypeOK, Elements
  <2> HIDE DEF R
  <2>3. /\ main' \in Seq(Event) /\ Len(main') <= MaxMain
        /\ raised' \in [Gets -> BOOLEAN]
        /\ \A g \in Gets : raised[g] => raised'[g]
        /\ \A g \in Elements(listeners) : g \in R => raised'[g]
    BY <2>1, RaiseTypes
  <2>4. \A g \in Gets : raised[g] \/ g \in R
    BY DEF R
  <2> QED
    BY <1>1, <2>2, <2>3, <2>4
<1>3. CASE online = "Offline"
  BY <1>1, <1>3 DEF BroadcastOffline, NoEvents, TypeOK, Event
<1> QED
  BY <1>2, <1>3

\* A remote event makes the view as current as the target's change says, and is told
\* to those who have had a snapshot, and to all when the view is synced.
LEMMA EventApplied ==
  ASSUME limbo \in BOOLEAN, NEW change, NEW docs, ApplyRemoteEvent(change, docs)
  PROVE  /\ view' = view \/ (change /\ view' = IF agg.current THEN "current" ELSE "cache")
         /\ change => view' = IF agg.current THEN "current" ELSE "cache"
         /\ limbo' \in BOOLEAN /\ Snapshot' \in {"cache", "server"}
         /\ \/ (Synced' <=> Synced) /\ UNCHANGED <<main, raised>>
            \/ \E R : /\ Raise(R, Snapshot')
                     /\ \A g \in Gets : g \in R <=> raised[g] \/ Synced'
<1>1. /\ view' = view \/ (change /\ view' = IF agg.current THEN "current" ELSE "cache")
      /\ change => view' = IF agg.current THEN "current" ELSE "cache"
      /\ limbo' \in BOOLEAN
  BY DEF ApplyRemoteEvent
<1>2. Snapshot' \in {"cache", "server"}
  BY DEF Snapshot
<1>3. \/ (Synced' <=> Synced) /\ UNCHANGED <<main, raised>>
      \/ \E R : /\ Raise(R, Snapshot')
               /\ \A g \in Gets : g \in R <=> raised[g] \/ Synced'
  <2> DEFINE S == {g \in Gets : raised[g] \/ Synced'}
  <2>1. \/ (Synced' <=> Synced) /\ UNCHANGED <<main, raised>>
        \/ Raise(S, Snapshot')
    BY DEF ApplyRemoteEvent, NoEvents
  <2>2. \A g \in Gets : g \in S <=> raised[g] \/ Synced'
    OBVIOUS
  <2> HIDE DEF S
  <2> QED
    BY <2>1, <2>2
<1> QED
  BY <1>1, <1>2, <1>3

\* The messages that may change the view do so by a remote event, of a change to an
\* active target if of any.
LEMMA EventsOfServer ==
  ASSUME ServerSnapshot \/ ServerRejectsLookup
  PROVE  /\ Message /\ UNCHANGED <<listeners, target, idle, server, heard, crossed>>
         /\ \E change, docs \in BOOLEAN :
              /\ ApplyRemoteEvent(change, docs)
              /\ change => target /\ agg.pending = 0
<1>1. CASE ServerSnapshot
  <2>1. PICK news, docs \in BOOLEAN : ApplyRemoteEvent(TargetChange(news), docs)
    BY <1>1 DEF ServerSnapshot
  <2>2. TargetChange(news) \in BOOLEAN /\ (TargetChange(news) => target /\ agg.pending = 0)
    BY DEF TargetChange, IsActive
  <2> QED
    BY <1>1, <2>1, <2>2 DEF ServerSnapshot, history
<1>2. CASE ServerRejectsLookup
  BY <1>2 DEF ServerRejectsLookup, history
<1> QED
  BY <1>1, <1>2

-----------------------------------------------------------------------------
(* Types and assertions.                                                    *)

\* The queues, and the listeners' part of the types; the others are of finite sets.
QueueTypes ==
  /\ Answers!AnswerTypeOK
  /\ muted \in [Gets -> BOOLEAN] /\ raised \in [Gets -> BOOLEAN]
  /\ main \in Seq(Event) /\ Len(main) <= MaxMain
  /\ work \in Seq(Item)
  /\ listeners \in Seq(Gets)

StateTypes ==
  /\ view \in {"none", "cache", "current"} /\ limbo \in BOOLEAN
  /\ target \in BOOLEAN
  /\ heard \in {"nothing", "others", "current"} /\ crossed \in BOOLEAN
  /\ online \in {"Unknown", "Online", "Offline"}
  /\ timer \in BOOLEAN
  /\ stream \in {"Initial", "Starting", "Open", "Backoff", "Error"}
  /\ idle \in BOOLEAN
  /\ server \in {"none", "added", "current"}

Request == {"watch", "unwatch"}
AggState == [pending : Int, current : BOOLEAN, changed : BOOLEAN,
             mismatch : BOOLEAN, exists : BOOLEAN]

\* The aggregator is there while the stream is started; until a rejection crosses a
\* request it counts the requests of an open stream, and only that has any.
RemoteInv ==
  /\ agg \in AggState /\ requests \in Seq(Request)
  /\ AggregatorOfStream
  /\ stream # "Open" => requests = <<>> /\ server = "none"
  /\ crossed \/ agg.pending = Len(requests)

\* TypeOK, with the sets of records under names of their own.
LEMMA TypesSplit ==
  TypeOK <=> /\ QueueTypes /\ StateTypes /\ failures \in 0..1
             /\ agg \in AggState /\ requests \in Seq(Request)
BY DEF TypeOK, QueueTypes, StateTypes, Event, Item, AggState, Request

\* What a step makes of the aggregator's state.
LEMMA NewStates ==
  /\ NoAggregator \in AggState /\ NoAggregator.exists \in BOOLEAN
  /\ ~NoAggregator.exists /\ NoAggregator.pending = 0
  /\ \A m \in BOOLEAN :
       NewState(m) \in AggState /\ NewState(m).exists /\ NewState(m).pending = 0
BY DEF NoAggregator, NewState, AggState

\* The fields of an aggregator's state.
LEMMA StateFields ==
  ASSUME NEW a \in AggState
  PROVE  /\ a.pending \in Int /\ a.exists \in BOOLEAN /\ a.mismatch \in BOOLEAN
         /\ a.changed \in BOOLEAN /\ a.current \in BOOLEAN
BY DEF AggState

\* What RecordPendingTargetRequest and RecordTargetResponse make of it.
LEMMA ChangedPending ==
  ASSUME NEW a \in AggState, NEW n \in Int
  PROVE  LET b == [a EXCEPT !.pending = n]
         IN  b \in AggState /\ b.exists = a.exists /\ b.pending = n
BY DEF AggState

\* What a document or a response of the server makes of it.
LEMMA ChangedAdded ==
  ASSUME NEW a \in AggState, NEW n \in Int, NEW c \in BOOLEAN
  PROVE  LET b == [a EXCEPT !.pending = n, !.changed = c]
         IN  b \in AggState /\ b.exists = a.exists /\ b.pending = n
BY DEF AggState

\* What MarkCurrent makes of it.
LEMMA ChangedCurrent ==
  ASSUME NEW a \in AggState
  PROVE  LET b == [a EXCEPT !.current = TRUE, !.changed = TRUE]
         IN  b \in AggState /\ b.exists = a.exists /\ b.pending = a.pending
BY DEF AggState

\* What a snapshot makes of it.
LEMMA ChangedCleared ==
  ASSUME NEW a \in AggState
  PROVE  /\ LET b == [a EXCEPT !.mismatch = FALSE]
            IN  b \in AggState /\ b.exists = a.exists /\ b.pending = a.pending
         /\ LET b == [a EXCEPT !.mismatch = FALSE, !.changed = FALSE]
            IN  b \in AggState /\ b.exists = a.exists /\ b.pending = a.pending
BY DEF AggState

\* And of the requests.
LEMMA ChangedRequests ==
  ASSUME NEW q \in Seq(Request)
  PROVE  /\ Len(q) \in Nat /\ <<>> \in Seq(Request) /\ Len(<<>>) = 0
         /\ q \o <<"watch">> \in Seq(Request) /\ Len(q \o <<"watch">>) = Len(q) + 1
         /\ Append(q, "unwatch") \in Seq(Request) /\ Len(Append(q, "unwatch")) = Len(q) + 1
         /\ /\ q \o <<"unwatch", "watch">> \in Seq(Request)
            /\ Len(q \o <<"unwatch", "watch">>) = Len(q) + 2
         /\ q # <<>> => Tail(q) \in Seq(Request) /\ Len(Tail(q)) = Len(q) - 1
<1>1. Len(q) \in Nat /\ <<>> \in Seq(Request) /\ Len(<<>>) = 0
  OBVIOUS
<1>2. /\ q \o <<"watch">> \in Seq(Request) /\ Len(q \o <<"watch">>) = Len(q) + 1
      /\ Append(q, "unwatch") \in Seq(Request) /\ Len(Append(q, "unwatch")) = Len(q) + 1
  BY DEF Request
<1>3. /\ q \o <<"unwatch", "watch">> \in Seq(Request)
      /\ Len(q \o <<"unwatch", "watch">>) = Len(q) + 2
  BY DEF Request
<1>4. q # <<>> => Tail(q) \in Seq(Request) /\ Len(Tail(q)) = Len(q) - 1
  OBVIOUS
<1> QED
  BY <1>1, <1>2, <1>3, <1>4

\* The client starts without requests, in a state of its types.
LEMMA InitTypes == Init => TypeOK /\ RemoteInv /\ AssertionsHold
<1> SUFFICES ASSUME Init PROVE TypeOK /\ RemoteInv /\ AssertionsHold
  OBVIOUS
<1>1. QueueTypes
  <2>1. Answers!AnswerTypeOK
    <3>1. <<>> \in Seq(Answers!Results)
      OBVIOUS
    <3> QED
      BY <3>1 DEF Init, Answers!Init, Answers!AnswerTypeOK
  <2>2. main \in Seq(Event) /\ Len(main) = 0 /\ MaxMain \in Nat
    BY ConstantsAssumption DEF Init
  <2>3. work \in Seq(Item)
    BY DEF Init
  <2>4. listeners \in Seq(Gets)
    BY DEF Init
  <2>5. muted \in [Gets -> BOOLEAN] /\ raised \in [Gets -> BOOLEAN]
    BY DEF Init
  <2> QED
    BY <2>1, <2>2, <2>3, <2>4, <2>5 DEF QueueTypes
<1>2. StateTypes
  <2>1. /\ view = "none" /\ limbo = FALSE /\ target = FALSE
        /\ heard = "nothing" /\ crossed = FALSE
        /\ online = "Unknown" /\ timer = FALSE
        /\ stream = "Initial" /\ idle = FALSE /\ server = "none"
    BY DEF Init
  <2> QED
    BY <2>1 DEF StateTypes
<1>3. RemoteInv
  <2>1. requests = <<>> /\ requests \in Seq(Request) /\ Len(requests) = 0
    BY DEF Init
  <2>2. agg \in AggState /\ ~agg.exists /\ agg.exists \in BOOLEAN /\ agg.pending = 0
    <3>1. agg = NoAggregator
      BY DEF Init
    <3> QED
      BY <3>1, NewStates
  <2>3. ~IsStarted /\ server = "none"
    BY DEF Init, IsStarted
  <2>4. AggregatorOfStream
    BY <2>2, <2>3 DEF AggregatorOfStream, IsStarted
  <2>5. agg.pending = Len(requests)
    BY <2>1, <2>2
  <2> QED
    BY <2>1, <2>2, <2>3, <2>4, <2>5 DEF RemoteInv
<1>4. AssertionsHold
  <2>1. /\ view = "none" /\ target = FALSE /\ listeners = <<>>
        /\ online = "Unknown" /\ timer = FALSE /\ idle = FALSE
    BY DEF Init
  <2> QED
    BY <1>3, <2>1 DEF AssertionsHold, ListenersHaveTarget, TimerOfFirstAttempt,
       OnlineIsCounted, IdleHasNoTarget, RemoteInv
<1>5. failures \in 0..1
  <2>1. failures = 0
    BY DEF Init
  <2> QED
    BY <2>1
<1> QED
  BY <1>1, <1>2, <1>3, <1>4, <1>5, TypesSplit DEF RemoteInv

-----------------------------------------------------------------------------
(* Steps.                                                                   *)

\* The queues keep their types.
LEMMA StepQueueTypes == TypeOK /\ AssertionsHold /\ [Next]_vars => QueueTypes'
<1> SUFFICES ASSUME TypeOK, AssertionsHold, [Next]_vars PROVE QueueTypes'
  OBVIOUS
<1>0. QueueTypes
  BY TypesSplit
<1>b. work \in Seq(Item) /\ main \in Seq(Event) /\ listeners \in Seq(Gets)
  BY <1>0 DEF QueueTypes
<1>c. UNCHANGED <<app, work, main, raised, listeners>> => QueueTypes'
  BY <1>0 DEF QueueTypes, app, Answers!AnswerTypeOK
<1>d. ASSUME UNCHANGED <<app, work, listeners>>,
             main' \in Seq(Event), Len(main') <= MaxMain, raised' \in [Gets -> BOOLEAN]
      PROVE  QueueTypes'
  BY <1>0, <1>d DEF QueueTypes, app, Answers!AnswerTypeOK
<1>e. ASSUME work # <<>> PROVE Head(work).get \in Gets /\ Tail(work) \in Seq(Item)
  <2>1. Head(work) \in Item /\ Tail(work) \in Seq(Item)
    BY <1>b, <1>e, HeadAndRest
  <2> QED
    BY <2>1, ItemsAndEvents
<1>1. CASE \E g \in Gets : GetDocuments(g)
  <2>1. PICK g \in Gets : GetDocuments(g)
    BY <1>1
  <2>2. work' \in Seq(Item)
    <3>1. PICK x \in Item : x = [op |-> "add", get |-> g]
      BY ItemsAndEvents
    <3>2. work' = Append(work, x)
      BY <2>1, <3>1 DEF GetDocuments
    <3> QED
      BY <1>b, <3>2
  <2>3. asked' \in SUBSET Gets /\ UNCHANGED <<answers, muted, main, raised, listeners>>
    BY <1>0, <2>1 DEF GetDocuments, QueueTypes, Answers!AnswerTypeOK, sync
  <2> QED
    BY <1>0, <2>2, <2>3 DEF QueueTypes, Answers!AnswerTypeOK
<1>2. CASE DeliverEvent
  <2>0. main # <<>> /\ main' = Tail(main)
    BY <1>2 DEF DeliverEvent
  <2>1. Head(main) \in Event /\ main' \in Seq(Event) /\ Len(main') <= MaxMain
    <3>1. Head(main) \in Event /\ Tail(main) \in Seq(Event) /\ Len(Tail(main)) = Len(main) - 1
      BY <1>b, <2>0, HeadAndRest
    <3>2. Len(main) \in Nat /\ MaxMain \in Nat /\ Len(main) <= MaxMain
      BY <1>0, <1>b, ConstantsAssumption DEF QueueTypes
    <3> QED
      BY <2>0, <3>1, <3>2
  <2> DEFINE g == Head(main).get
             r == Head(main).result
  <2>2. g \in Gets /\ r \in Results
    BY <2>1, ItemsAndEvents
  <2>3. \/ muted[g] /\ UNCHANGED <<asked, answers, muted, raised, work, listeners>>
        \/ OnEvent(g, r) /\ UNCHANGED <<asked, raised, listeners>>
    BY <1>2 DEF DeliverEvent, sync
  <2> HIDE DEF g, r
  <2>4. CASE muted[g] /\ UNCHANGED <<asked, answers, muted, raised, work, listeners>>
    BY <1>0, <2>1, <2>4 DEF QueueTypes, Answers!AnswerTypeOK
  <2>5. CASE OnEvent(g, r) /\ UNCHANGED <<asked, raised, listeners>>
    <3>1. answers' \in [Gets -> Seq(Answers!Results)]
      <4>1. answers \in [Gets -> Seq(Results)] /\ answers' = [answers EXCEPT ![g] = Append(@, r)]
        BY <1>0, <2>5 DEF QueueTypes, Answers!AnswerTypeOK, OnEvent, Results
      <4>2. answers[g] \in Seq(Results)
        BY <2>2, <4>1
      <4>3. Append(answers[g], r) \in Seq(Results)
        BY <2>2, <4>2
      <4> QED
        BY <2>2, <4>1, <4>3 DEF Results
    <3>2. muted' \in [Gets -> BOOLEAN]
      BY <1>0, <2>2, <2>5 DEF OnEvent, QueueTypes
    <3>3. work' \in Seq(Item)
      <4>1. PICK x \in Item : x = [op |-> "remove", get |-> g]
        BY <2>2, ItemsAndEvents
      <4>2. work' = work \/ work' = Append(work, x)
        BY <2>5, <4>1 DEF OnEvent
      <4>3. work \in Seq(Item)
        BY <1>b
      <4>4. Append(work, x) \in Seq(Item)
        BY <4>3, Appending
      <4> QED
        BY <4>2, <4>3, <4>4
    <3> QED
      BY <1>0, <2>1, <2>5, <3>1, <3>2, <3>3 DEF QueueTypes, Answers!AnswerTypeOK
  <2> QED
    BY <2>3, <2>4, <2>5
<1>3. CASE AddQueryListener
  <2> DEFINE new == Head(work).get
             snapshot == IF listeners = <<>> THEN "cache" ELSE Snapshot
  <2>1. new \in Gets /\ work' \in Seq(Item)
    BY <1>3, <1>e DEF AddQueryListener
  <2>2. snapshot \in Results
    BY DEF Snapshot, Results, Answers!Results
  <2>3. /\ listeners' = Append(listeners, new)
        /\ \/ /\ main' = Append(main, [get |-> new, result |-> snapshot])
              /\ Len(main') <= MaxMain
              /\ raised' = [raised EXCEPT ![new] = TRUE]
           \/ UNCHANGED <<main, raised>>
    BY <1>3 DEF AddQueryListener, NoEvents
  <2> HIDE DEF new, snapshot
  <2>4. listeners' \in Seq(Gets)
    BY <1>b, <2>1, <2>3
  <2>5. main' \in Seq(Event) /\ Len(main') <= MaxMain
    <3>1. PICK e \in Event : e = [get |-> new, result |-> snapshot]
      BY <2>1, <2>2, ItemsAndEvents
    <3>2. UNCHANGED main \/ (main' = Append(main, e) /\ Len(main') <= MaxMain)
      BY <2>3, <3>1
    <3>3. main \in Seq(Event) /\ Len(main) <= MaxMain
      BY <1>0 DEF QueueTypes
    <3>4. Append(main, e) \in Seq(Event)
      BY <3>3, Appending
    <3> QED
      BY <3>2, <3>3, <3>4
  <2>6. raised' \in [Gets -> BOOLEAN]
    BY <1>0, <2>1, <2>3 DEF QueueTypes
  <2>7. UNCHANGED app
    BY <1>3 DEF AddQueryListener
  <2> QED
    BY <1>0, <2>1, <2>4, <2>5, <2>6, <2>7 DEF QueueTypes, app, Answers!AnswerTypeOK
<1>4. CASE RemoveQueryListener
  <2>1. work' \in Seq(Item) /\ UNCHANGED <<app, main, raised>>
    BY <1>4, <1>e DEF RemoveQueryListener
  <2>2. \/ listeners' = listeners
        \/ \E i \in DOMAIN listeners : listeners' = RemoveAt(listeners, i)
    BY <1>4 DEF RemoveQueryListener
  <2>3. listeners' \in Seq(Gets)
    BY <1>b, <2>2, Removal
  <2> QED
    BY <1>0, <2>1, <2>3 DEF QueueTypes, app, Answers!AnswerTypeOK
<1>5. CASE StreamOpens \/ BackoffEnds \/ IdleTimerFires
  BY <1>5, <1>c DEF StreamOpens, BackoffEnds, IdleTimerFires, sync
<1>6. CASE StreamFails
  <2>1. UNCHANGED <<app, work, listeners>>
    BY <1>6 DEF StreamFails
  <2>2. BroadcastOffline \/ UNCHANGED <<main, raised>>
    BY <1>6 DEF StreamFails, NoEvents
  <2>3. CASE BroadcastOffline
    BY <1>d, <2>1, <2>3, OfflineTypes
  <2> QED
    BY <1>c, <2>1, <2>2, <2>3
<1>7. CASE OnlineTimerFires
  BY <1>7, <1>d, OfflineTypes DEF OnlineTimerFires
<1>8. CASE ServerSpeaks \/ ServerAdds \/ ServerRemoves \/ ServerCurrent \/ ServerResets
  BY <1>8, <1>c DEF ServerSpeaks, ServerAdds, ServerRemoves, ServerCurrent, ServerResets,
     TargetMessage, Message
<1>9. CASE ServerSnapshot \/ ServerRejectsLookup
  <2>1. UNCHANGED <<app, work, listeners>>
    BY <1>9, EventsOfServer DEF Message
  <2>2. PICK change, docs \in BOOLEAN : ApplyRemoteEvent(change, docs)
    BY <1>9, EventsOfServer
  <2>3. Snapshot' \in Results
    BY DEF Snapshot, Results, Answers!Results
  <2>4. UNCHANGED <<main, raised>> \/ \E R : Raise(R, Snapshot')
    <3>1. limbo \in BOOLEAN
      BY DEF TypeOK
    <3> QED
      BY <2>2, <3>1, EventApplied
  <2>5. ASSUME NEW R, Raise(R, Snapshot') PROVE QueueTypes'
    BY <1>d, <2>1, <2>3, <2>5, RaiseTypes
  <2> QED
    BY <1>c, <2>1, <2>4, <2>5
<1>10. CASE ServerRejects
  <2>1. UNCHANGED <<app, work, raised>>
    BY <1>10 DEF ServerRejects, Message
  <2> DEFINE e == [i \in DOMAIN listeners |-> [get |-> listeners[i], result |-> "error"]]
  <2>2. e \in Seq(Event)
    <3>1. \A i \in 1..Len(listeners) : e[i] \in Event
      BY <1>b, ItemsAndEvents
    <3>2. e = [i \in 1..Len(listeners) |-> e[i]] /\ Len(listeners) \in Nat
      BY <1>b
    <3> HIDE DEF e
    <3> QED
      BY <3>1, <3>2
  <2>3. \/ main' = main \o e /\ Len(main') <= MaxMain /\ listeners' = <<>>
        \/ UNCHANGED <<main, listeners>>
    <3>1. RejectTarget
      BY <1>10 DEF ServerRejects
    <3>2. CASE target
      BY <3>1, <3>2 DEF RejectTarget
    <3>3. CASE ~target
      BY <3>1, <3>3 DEF RejectTarget
    <3> QED
      BY <3>2, <3>3
  <2> HIDE DEF e
  <2>4. listeners' \in Seq(Gets)
    <3>1. <<>> \in Seq(Gets)
      OBVIOUS
    <3> QED
      BY <1>b, <2>3, <3>1
  <2>5. main' \in Seq(Event)
    <3>1. main \o e \in Seq(Event)
      BY <1>b, <2>2
    <3> QED
      BY <1>b, <2>3, <3>1
  <2>6. Len(main') <= MaxMain
    BY <1>0, <2>3 DEF QueueTypes
  <2> QED
    BY <1>0, <2>1, <2>4, <2>5, <2>6 DEF QueueTypes, app, Answers!AnswerTypeOK
<1>11. CASE UNCHANGED vars
  BY <1>11, <1>c DEF vars, sync
<1> QED
  BY <1>1, <1>2, <1>3, <1>4, <1>5, <1>6, <1>7, <1>8, <1>9, <1>10, <1>11
  DEF Next, StreamStep, ServerStep

\* The client's assertions but for the aggregator's.
ClientAsserts == /\ ListenersHaveTarget /\ TimerOfFirstAttempt /\ OnlineIsCounted
                 /\ IdleHasNoTarget

\* The number of failures stays what is counted.
LEMMA StepFailures == [Next]_vars => failures' \in {0, 1, failures}
<1> SUFFICES ASSUME [Next]_vars PROVE failures' \in {0, 1, failures}
  OBVIOUS
<1>1. CASE (\E g \in Gets : GetDocuments(g)) \/ DeliverEvent \/ RemoveQueryListener
  BY <1>1 DEF GetDocuments, DeliverEvent, RemoveQueryListener, StopListening, UpdateState, tracker
<1>2. CASE AddQueryListener
  <2>1. ListenRemotely \/ UNCHANGED tracker
    BY <1>2 DEF AddQueryListener
  <2> QED
    BY <2>1 DEF ListenRemotely, StartWatchStream, tracker
<1>3. CASE StreamStep
  BY <1>3 DEF StreamStep, StreamOpens, BackoffEnds, StreamFails, IdleTimerFires,
     OnlineTimerFires, UpdateState, tracker
<1>4. CASE ServerStep
  BY <1>4 DEF ServerStep, ServerSpeaks, ServerAdds, ServerRemoves, ServerCurrent, ServerResets,
     ServerSnapshot, ServerRejects, ServerRejectsLookup, TargetMessage, Message, UpdateState
<1>5. CASE UNCHANGED vars
  BY <1>5 DEF vars, tracker
<1> QED
  BY <1>1, <1>2, <1>3, <1>4, <1>5 DEF Next

\* The parts of the state that are of finite sets keep their types, and the client's
\* assertions hold.
LEMMA StepState ==
  TypeOK /\ AssertionsHold /\ [Next]_vars => StateTypes' /\ ClientAsserts'
<1> SUFFICES ASSUME TypeOK, AssertionsHold, [Next]_vars PROVE StateTypes' /\ ClientAsserts'
  OBVIOUS
<1>0. StateTypes /\ ClientAsserts
  BY TypesSplit DEF AssertionsHold, ClientAsserts
<1>l. listeners \in Seq(Gets)
  BY TypesSplit DEF QueueTypes
<1> USE DEF StateTypes, ClientAsserts, ListenersHaveTarget, TimerOfFirstAttempt,
    OnlineIsCounted, IdleHasNoTarget, IsStarted
<1>u. UNCHANGED <<listeners, view, limbo, target, online, failures, timer, stream, idle, server,
                  heard, crossed>> => StateTypes' /\ ClientAsserts'
  BY <1>0
<1>1. CASE (\E g \in Gets : GetDocuments(g)) \/ DeliverEvent \/ UNCHANGED vars
  BY <1>1, <1>u DEF GetDocuments, DeliverEvent, vars, sync, tracker, remote, history
<1>2. CASE AddQueryListener
  <2>1. listeners' # <<>>
    <3>1. Head(work).get \in Gets /\ listeners' = Append(listeners, Head(work).get)
      <4>1. work \in Seq(Item) /\ work # <<>>
        BY <1>2, TypesSplit DEF AddQueryListener, QueueTypes
      <4>2. Head(work) \in Item
        BY <4>1, HeadAndRest
      <4> QED
        BY <1>2, <4>2, ItemsAndEvents DEF AddQueryListener
    <3> QED
      BY <1>l, <3>1, Appending
  <2>2. CASE /\ listeners = <<>>
             /\ view' = "cache" /\ limbo' = FALSE
             /\ ListenRemotely
    <3>1. /\ target' = TRUE /\ server' = server /\ crossed' = crossed
          /\ heard' \in {"nothing", "others"}
      BY <2>2 DEF ListenRemotely
    <3>2. CASE ~IsStarted /\ StartWatchStream /\ UNCHANGED <<idle, requests>>
      <4>1. /\ stream' = (IF stream = "Error" THEN "Backoff" ELSE "Starting")
            /\ online' = (IF failures = 0 THEN "Unknown" ELSE online)
            /\ (timer' <=> timer \/ failures = 0) /\ timer' \in BOOLEAN
            /\ failures' = failures /\ idle' = idle
        BY <3>2 DEF StartWatchStream
      <4> QED
        <5>1. StateTypes'
          BY <1>0, <2>1, <2>2, <3>1, <3>2, <4>1
        <5>2. ListenersHaveTarget'
          BY <1>0, <2>1, <2>2, <3>1, <3>2, <4>1
        <5>3. TimerOfFirstAttempt'
          BY <1>0, <2>1, <2>2, <3>1, <3>2, <4>1
        <5>4. OnlineIsCounted'
          BY <1>0, <2>1, <2>2, <3>1, <3>2, <4>1
        <5>5. IdleHasNoTarget'
          BY <1>0, <2>1, <2>2, <3>1, <3>2, <4>1
        <5> QED
          BY <5>1, <5>2, <5>3, <5>4, <5>5
    <3>3. CASE stream = "Open" /\ Send(<<"watch">>) /\ UNCHANGED <<stream, tracker>>
      <4>1. idle' = FALSE /\ UNCHANGED <<stream, online, failures, timer>>
        BY <3>3 DEF Send, tracker
      <4> QED
        BY <1>0, <2>1, <2>2, <3>1, <4>1
    <3>4. CASE /\ stream \in {"Starting", "Backoff"}
               /\ UNCHANGED <<stream, tracker, idle, agg, requests>>
      <4>1. UNCHANGED <<idle, stream, online, failures, timer>>
        BY <3>4 DEF tracker
      <4> QED
        <5>1. StateTypes'
          BY <1>0, <2>1, <2>2, <3>1, <3>4, <4>1
        <5>2. ListenersHaveTarget'
          BY <1>0, <2>1, <2>2, <3>1, <3>4, <4>1
        <5>3. TimerOfFirstAttempt'
          BY <1>0, <2>1, <2>2, <3>1, <3>4, <4>1
        <5>4. OnlineIsCounted'
          BY <1>0, <2>1, <2>2, <3>1, <3>4, <4>1
        <5>5. IdleHasNoTarget'
          BY <1>0, <2>1, <2>2, <3>1, <3>4, <4>1
        <5> QED
          BY <5>1, <5>2, <5>3, <5>4, <5>5
    <3> QED
      BY <2>2, <3>2, <3>3, <3>4 DEF ListenRemotely
  <2>3. CASE listeners # <<>> /\ UNCHANGED <<view, limbo, target, tracker, remote, history>>
    <3>1. UNCHANGED <<view, limbo, target, online, failures, timer, stream, idle, server,
                      heard, crossed>>
      BY <2>3 DEF tracker, remote, history
    <3> QED
      BY <1>0, <2>1, <2>3, <3>1
  <2> QED
    BY <1>2, <2>2, <2>3 DEF AddQueryListener
<1>3. CASE RemoveQueryListener
  <2>1. UNCHANGED <<stream, server, heard, crossed>>
    BY <1>3 DEF RemoveQueryListener, history
  <2>2. CASE /\ (listeners' = <<>> <=> listeners = <<>>)
             /\ UNCHANGED <<view, limbo, target, tracker, requests, agg, idle>>
    <3>1. UNCHANGED <<view, limbo, target, online, failures, timer, idle>>
      BY <2>2 DEF tracker
    <3> QED
      BY <1>0, <2>1, <2>2, <3>1
  <2>3. CASE listeners' = <<>> /\ StopListening
    <3>1. /\ view' = "none" /\ limbo' = FALSE /\ target' = FALSE
          /\ \/ stream = "Open" /\ idle' = TRUE /\ UNCHANGED <<online, failures, timer>>
             \/ /\ stream # "Open"
                /\ online' = "Unknown" /\ failures' = 0 /\ timer' = FALSE /\ idle' = idle
      BY <2>3 DEF StopListening, UpdateState, tracker
    <3> QED
      <4>1. StateTypes'
        BY <1>0, <2>1, <2>3, <3>1
      <4>2. ListenersHaveTarget'
        BY <1>0, <2>1, <2>3, <3>1
      <4>3. TimerOfFirstAttempt'
        BY <1>0, <2>1, <2>3, <3>1
      <4>4. OnlineIsCounted'
        BY <1>0, <2>1, <2>3, <3>1
      <4>5. IdleHasNoTarget'
        BY <1>0, <2>1, <2>3, <3>1
      <4> QED
        BY <4>1, <4>2, <4>3, <4>4, <4>5
  <2> QED
    BY <1>3, <2>2, <2>3 DEF RemoveQueryListener
<1>4. CASE StreamOpens
  <2>1. /\ stream = "Starting" /\ stream' = "Open" /\ idle' \in {FALSE, idle}
        /\ UNCHANGED <<listeners, view, limbo, target, online, failures, timer, server,
                       heard, crossed>>
    BY <1>4 DEF StreamOpens, Send, sync, tracker, history
  <2> QED
    <3>1. StateTypes'
      BY <1>0, <2>1
    <3>2. ListenersHaveTarget'
      BY <1>0, <2>1
    <3>3. TimerOfFirstAttempt'
      BY <1>0, <2>1
    <3>4. OnlineIsCounted'
      BY <1>0, <2>1
    <3>5. IdleHasNoTarget'
      BY <1>0, <2>1
    <3> QED
      BY <3>1, <3>2, <3>3, <3>4, <3>5
<1>5. CASE BackoffEnds
  <2>1. /\ stream = "Backoff" /\ stream' = "Starting"
        /\ UNCHANGED <<listeners, view, limbo, target, online, failures, timer, idle, server,
                       heard, crossed>>
    BY <1>5 DEF BackoffEnds, sync, tracker, history
  <2> QED
    BY <1>0, <2>1
<1>6. CASE StreamFails
  <2>1. view' \in {"none", "cache", "current"} /\ (view' = "none" <=> view = "none")
    BY <1>0, <1>6, OfflineTypes DEF StreamFails
  <2>2. /\ idle' = FALSE /\ server' = "none" /\ crossed' = FALSE
        /\ UNCHANGED <<listeners, limbo, target, heard>>
        /\ \/ /\ target /\ stream' = "Backoff"
              /\ \/ /\ online = "Online" /\ online' = "Unknown" /\ timer' = TRUE
                    /\ failures' = failures
                 \/ online' = "Offline" /\ timer' = FALSE
           \/ /\ stream' = "Error"
              /\ online' = "Unknown" /\ timer' = FALSE
    BY <1>6 DEF StreamFails, Close, UpdateState
  <2> QED
    BY <1>0, <2>1, <2>2
<1>7. CASE IdleTimerFires
  <2>1. /\ stream' = "Initial" /\ idle' = FALSE /\ server' = "none"
        /\ online' = "Unknown" /\ failures' = 0 /\ timer' = FALSE /\ crossed' = FALSE
        /\ UNCHANGED <<listeners, view, limbo, target, heard>>
    BY <1>7 DEF IdleTimerFires, Close, UpdateState, sync
  <2> QED
    BY <1>0, <2>1
<1>8. CASE OnlineTimerFires
  <2>1. view' \in {"none", "cache", "current"} /\ (view' = "none" <=> view = "none")
    BY <1>8, OfflineTypes DEF OnlineTimerFires
  <2>2. /\ online' = "Offline" /\ timer' = FALSE
        /\ UNCHANGED <<listeners, limbo, target, failures, stream, idle, server, heard, crossed>>
    BY <1>8 DEF OnlineTimerFires, remote, history
  <2> QED
    BY <1>0, <2>1, <2>2
<1>m. Message => /\ online' = "Online" /\ failures' = 0 /\ timer' = FALSE
                 /\ stream = "Open" /\ UNCHANGED stream
  BY DEF Message, UpdateState
<1>9. CASE ServerSpeaks \/ ServerAdds \/ ServerRemoves \/ ServerCurrent \/ ServerResets
  <2>1. Message /\ UNCHANGED <<listeners, view, limbo, target, idle, crossed>>
    BY <1>9 DEF ServerSpeaks, ServerAdds, ServerRemoves, ServerCurrent, ServerResets,
       TargetMessage
  <2>2. server' \in {"none", "added", "current"}
    BY <1>0, <1>9 DEF ServerSpeaks, ServerAdds, ServerRemoves, ServerCurrent, ServerResets
  <2>3. heard' \in {"nothing", "others", "current"}
    BY <1>0, <1>9 DEF ServerSpeaks, ServerAdds, ServerRemoves, ServerCurrent, ServerResets
  <2> QED
    <3>1. StateTypes'
      BY <1>0, <1>m, <2>1, <2>2, <2>3
    <3>2. ListenersHaveTarget'
      BY <1>0, <1>m, <2>1, <2>2, <2>3
    <3>3. TimerOfFirstAttempt'
      BY <1>0, <1>m, <2>1, <2>2, <2>3
    <3>4. OnlineIsCounted'
      BY <1>0, <1>m, <2>1, <2>2, <2>3
    <3>5. IdleHasNoTarget'
      BY <1>0, <1>m, <2>1, <2>2, <2>3
    <3> QED
      BY <3>1, <3>2, <3>3, <3>4, <3>5
<1>10. CASE ServerSnapshot \/ ServerRejectsLookup
  <2>1. Message /\ UNCHANGED <<listeners, target, idle, server, heard, crossed>>
    BY <1>10, EventsOfServer
  <2>2. PICK change, docs \in BOOLEAN : ApplyRemoteEvent(change, docs) /\ (change => target)
    BY <1>10, EventsOfServer
  <2>3. /\ view' = view \/ (target /\ view' \in {"current", "cache"})
        /\ limbo' \in BOOLEAN
    BY <1>0, <2>2, EventApplied
  <2> QED
    <3>1. StateTypes'
      BY <1>0, <1>m, <2>1, <2>3
    <3>2. ListenersHaveTarget'
      BY <1>0, <1>m, <2>1, <2>3
    <3>3. TimerOfFirstAttempt'
      BY <1>0, <1>m, <2>1, <2>3
    <3>4. OnlineIsCounted'
      BY <1>0, <1>m, <2>1, <2>3
    <3>5. IdleHasNoTarget'
      BY <1>0, <1>m, <2>1, <2>3
    <3> QED
      BY <3>1, <3>2, <3>3, <3>4, <3>5
<1>11. CASE ServerRejects
  <2>1. Message /\ server' = "none" /\ UNCHANGED heard /\ crossed' \in BOOLEAN /\ RejectTarget
    BY <1>11 DEF ServerRejects
  <2>2. \/ /\ target' = FALSE /\ view' = "none" /\ limbo' = FALSE /\ listeners' = <<>>
           /\ idle' \in {idle, TRUE}
        \/ UNCHANGED <<target, view, limbo, listeners, idle>>
    BY <2>1 DEF RejectTarget
  <2> QED
    <3>1. StateTypes'
      BY <1>0, <1>m, <2>1, <2>2
    <3>2. ListenersHaveTarget'
      BY <1>0, <1>m, <2>1, <2>2
    <3>3. TimerOfFirstAttempt'
      BY <1>0, <1>m, <2>1, <2>2
    <3>4. OnlineIsCounted'
      BY <1>0, <1>m, <2>1, <2>2
    <3>5. IdleHasNoTarget'
      BY <1>0, <1>m, <2>1, <2>2
    <3> QED
      BY <3>1, <3>2, <3>3, <3>4, <3>5
<1> QED
  BY <1>1, <1>2, <1>3, <1>4, <1>5, <1>6, <1>7, <1>8, <1>9, <1>10, <1>11
  DEF Next, StreamStep, ServerStep

\* The aggregator is made and dropped with the stream, and counts its requests.
LEMMA StepRemote == TypeOK /\ RemoteInv /\ [Next]_vars => RemoteInv'
<1> SUFFICES ASSUME TypeOK, RemoteInv, [Next]_vars PROVE RemoteInv'
  OBVIOUS
<1>0. StateTypes
  BY TypesSplit
<1> DEFINE Counted == crossed \/ agg.pending = Len(requests)
<1>a. /\ agg \in AggState /\ requests \in Seq(Request)
      /\ AggregatorOfStream /\ Counted
      /\ stream # "Open" => requests = <<>> /\ server = "none"
  BY DEF RemoteInv
<1>b. agg.pending \in Int /\ agg.exists \in BOOLEAN /\ agg.mismatch \in BOOLEAN
  BY <1>a, StateFields
<1>c. Len(requests) \in Nat
  BY <1>a
\* Nothing is asked, or answered.
<1>u. UNCHANGED <<agg, requests, stream, crossed>> /\ (server' = server \/ stream = "Open")
        => RemoteInv'
  BY <1>a DEF RemoteInv, AggregatorOfStream, IsStarted
\* The stream stays open.
<1>v. ASSUME stream = "Open", UNCHANGED stream, agg' \in AggState, requests' \in Seq(Request),
             agg'.exists = agg.exists, Counted'
      PROVE  RemoteInv'
  BY <1>a, <1>v DEF RemoteInv, AggregatorOfStream, IsStarted
\* The stream is closed or restarted.
<1>w. ASSUME requests' = <<>>, server' = "none",
             \/ stream' \in {"Starting", "Backoff"} /\ \E m \in BOOLEAN : agg' = NewState(m)
             \/ stream' \in {"Initial", "Error"} /\ agg' = NoAggregator
      PROVE  RemoteInv'
  <2>1. requests' \in Seq(Request) /\ Len(requests') = 0
    BY <1>w
  <2>2. agg' \in AggState /\ agg'.pending = 0
    BY <1>w, NewStates
  <2>3. AggregatorOfStream'
    <3>1. CASE stream' \in {"Starting", "Backoff"} /\ \E m \in BOOLEAN : agg' = NewState(m)
      <4>1. agg'.exists /\ agg'.exists \in BOOLEAN
        BY <3>1, NewStates, StateFields
      <4> QED
        BY <3>1, <4>1 DEF AggregatorOfStream, IsStarted
    <3>2. CASE stream' \in {"Initial", "Error"} /\ agg' = NoAggregator
      <4>1. ~agg'.exists /\ agg'.exists \in BOOLEAN
        BY <3>2, NewStates
      <4> QED
        BY <3>2, <4>1 DEF AggregatorOfStream, IsStarted
    <3> QED
      BY <1>w, <3>1, <3>2
  <2>4. stream' # "Open"
    BY <1>w
  <2> QED
    BY <1>w, <2>1, <2>2, <2>3, <2>4 DEF RemoteInv
\* Another watch is sent.
<1>x. ASSUME Send(<<"watch">>), UNCHANGED crossed
      PROVE  /\ agg' \in AggState /\ requests' \in Seq(Request)
             /\ agg'.exists = agg.exists /\ Counted'
  <2>1. agg' = [agg EXCEPT !.pending = agg.pending + 1]
    BY <1>x DEF Send
  <2>2. requests' = requests \o <<"watch">>
    BY <1>x DEF Send
  <2>3. requests' \in Seq(Request) /\ Len(requests') = Len(requests) + 1
    BY <1>a, <2>2, ChangedRequests
  <2>4. agg.pending + 1 \in Int
    BY <1>b
  <2>5. agg' \in AggState /\ agg'.exists = agg.exists /\ agg'.pending = agg.pending + 1
    BY <1>a, <2>1, <2>4, ChangedPending
  <2> QED
    BY <1>a, <1>b, <1>c, <1>x, <2>3, <2>5
<1>1. CASE (\E g \in Gets : GetDocuments(g)) \/ DeliverEvent
  BY <1>1, <1>u DEF GetDocuments, DeliverEvent, remote, history
<1>2. CASE AddQueryListener
  <2>1. CASE ListenRemotely
    <3>0. UNCHANGED crossed
      BY <2>1 DEF ListenRemotely
    <3>1. CASE ~IsStarted /\ StartWatchStream /\ UNCHANGED <<idle, requests>> /\ UNCHANGED server
      <4>1. /\ stream' = (IF stream = "Error" THEN "Backoff" ELSE "Starting")
            /\ agg' = NewState(FALSE)
        BY <3>1 DEF StartWatchStream
      <4>2. requests' = <<>> /\ server' = "none"
        BY <1>a, <3>1 DEF IsStarted
      <4> QED
        BY <1>w, <4>1, <4>2
    <3>2. CASE stream = "Open" /\ Send(<<"watch">>) /\ UNCHANGED <<stream, tracker>>
      BY <1>v, <1>x, <3>0, <3>2
    <3>3. CASE UNCHANGED <<stream, tracker, idle, agg, requests>> /\ UNCHANGED server
      BY <1>u, <3>0, <3>3
    <3> QED
      BY <2>1, <3>1, <3>2, <3>3 DEF ListenRemotely
  <2>2. CASE UNCHANGED <<remote, history>>
    BY <1>u, <2>2 DEF remote, history
  <2> QED
    BY <1>2, <2>1, <2>2 DEF AddQueryListener
<1>3. CASE RemoveQueryListener
  <2>1. UNCHANGED <<stream, server, crossed>>
    BY <1>3 DEF RemoveQueryListener, history
  <2>2. CASE UNCHANGED <<agg, requests>>
    BY <1>u, <2>1, <2>2
  <2>3. CASE StopListening
    <3>1. CASE stream = "Open"
      <4>1. requests' = Append(requests, "unwatch") /\ agg' = [agg EXCEPT !.pending = agg.pending + 1]
        BY <2>3, <3>1 DEF StopListening
      <4>2. requests' \in Seq(Request) /\ Len(requests') = Len(requests) + 1
        BY <1>a, <4>1, ChangedRequests
      <4>3. agg.pending + 1 \in Int
        BY <1>b
      <4>4. agg' \in AggState /\ agg'.exists = agg.exists /\ agg'.pending = agg.pending + 1
        BY <1>a, <4>1, <4>3, ChangedPending
      <4>5. Counted'
        BY <1>a, <1>b, <1>c, <2>1, <4>2, <4>4
      <4> QED
        BY <1>v, <2>1, <3>1, <4>2, <4>4, <4>5
    <3>2. CASE stream # "Open"
      BY <1>u, <2>1, <2>3, <3>2 DEF StopListening
    <3> QED
      BY <3>1, <3>2
  <2> QED
    BY <1>3, <2>2, <2>3 DEF RemoveQueryListener
<1>4. CASE StreamOpens
  <2>1. stream = "Starting" /\ stream' = "Open" /\ UNCHANGED <<server, crossed>>
    BY <1>4 DEF StreamOpens, history
  <2>2. Send(<<"watch">>) \/ UNCHANGED <<agg, requests>>
    BY <1>4 DEF StreamOpens
  <2>3. /\ agg' \in AggState /\ requests' \in Seq(Request)
        /\ agg'.exists = agg.exists /\ Counted'
    BY <1>a, <1>x, <2>1, <2>2
  <2> QED
    BY <1>a, <2>1, <2>3 DEF RemoteInv, AggregatorOfStream, IsStarted
<1>5. CASE BackoffEnds
  <2>1. stream = "Backoff" /\ stream' = "Starting" /\ UNCHANGED <<agg, requests, server, crossed>>
    BY <1>5 DEF BackoffEnds, history
  <2> QED
    BY <1>a, <2>1 DEF RemoteInv, AggregatorOfStream, IsStarted
<1>6. CASE StreamFails
  <2>1. \/ Close("Backoff") /\ agg' = NewState(FALSE)
        \/ Close("Error") /\ agg' = NoAggregator
    BY <1>6 DEF StreamFails
  <2> QED
    BY <1>w, <2>1 DEF Close
<1>7. CASE IdleTimerFires
  BY <1>7, <1>w DEF IdleTimerFires, Close
<1>8. CASE OnlineTimerFires
  BY <1>8, <1>u DEF OnlineTimerFires, remote, history
<1>m. Message => stream = "Open" /\ UNCHANGED stream
  BY DEF Message
<1>t. TargetMessage => Message /\ UNCHANGED crossed
  BY DEF TargetMessage
<1>r. ASSUME requests # <<>>, requests' = Tail(requests)
      PROVE  requests' \in Seq(Request) /\ Len(requests') = Len(requests) - 1
  BY <1>a, <1>r
<1>9. CASE ServerAdds
  <2>1. Message /\ requests # <<>> /\ requests' = Tail(requests) /\ UNCHANGED crossed
    BY <1>9, <1>t DEF ServerAdds
  <2>2. PICK changed \in BOOLEAN :
          agg' = [agg EXCEPT !.pending = agg.pending - 1, !.changed = changed]
    BY <1>9 DEF ServerAdds
  <2>3. agg.pending - 1 \in Int
    BY <1>b
  <2>4. agg' \in AggState /\ agg'.exists = agg.exists /\ agg'.pending = agg.pending - 1
    <3>1. LET b == [agg EXCEPT !.pending = agg.pending - 1, !.changed = changed]
          IN  b \in AggState /\ b.exists = agg.exists /\ b.pending = agg.pending - 1
      BY <1>a, <2>3, ChangedAdded
    <3> QED
      BY <2>2, <3>1
  <2>5. requests' \in Seq(Request) /\ Len(requests') = Len(requests) - 1
    BY <1>r, <2>1
  <2>6. Counted'
    BY <1>a, <1>b, <1>c, <2>1, <2>4, <2>5
  <2> QED
    BY <1>m, <1>v, <2>1, <2>4, <2>5, <2>6
<1>10. CASE ServerRemoves
  <2>1. Message /\ requests # <<>> /\ requests' = Tail(requests) /\ UNCHANGED crossed
    BY <1>10, <1>t DEF ServerRemoves
  <2>2. requests' \in Seq(Request) /\ Len(requests') = Len(requests) - 1
    BY <1>r, <2>1
  <2>3. agg.exists
    BY <1>a, <1>m, <2>1 DEF AggregatorOfStream, IsStarted
  <2>4. CASE agg.pending = 1
    <3>1. agg' = NewState(agg.mismatch)
      BY <1>10, <2>4 DEF ServerRemoves
    <3>2. agg' \in AggState /\ agg'.exists /\ agg'.pending = 0
      BY <1>b, <3>1, NewStates
    <3>3. Counted'
      BY <1>a, <1>c, <2>1, <2>2, <2>4, <3>2
    <3>4. agg'.exists = agg.exists
      BY <1>b, <2>3, <3>2, StateFields
    <3> QED
      BY <1>m, <1>v, <2>1, <2>2, <3>2, <3>3, <3>4
  <2>5. CASE agg.pending # 1
    <3>1. agg' = [agg EXCEPT !.pending = agg.pending - 1] /\ agg.pending - 1 \in Int
      BY <1>10, <1>b, <2>5 DEF ServerRemoves
    <3>2. agg' \in AggState /\ agg'.exists = agg.exists /\ agg'.pending = agg.pending - 1
      BY <1>a, <3>1, ChangedPending
    <3>3. Counted'
      BY <1>a, <1>b, <1>c, <2>1, <2>2, <3>2
    <3> QED
      BY <1>m, <1>v, <2>1, <2>2, <3>2, <3>3
  <2> QED
    BY <2>4, <2>5
<1>11. CASE ServerCurrent
  <2>1. Message /\ UNCHANGED <<requests, crossed>>
    BY <1>11, <1>t DEF ServerCurrent
  <2>2. agg' = agg \/ agg' = [agg EXCEPT !.current = TRUE, !.changed = TRUE]
    BY <1>11 DEF ServerCurrent
  <2>3. agg' \in AggState /\ agg'.exists = agg.exists /\ agg'.pending = agg.pending
    <3>1. CASE agg' = agg
      BY <1>a, <3>1
    <3>2. CASE agg' = [agg EXCEPT !.current = TRUE, !.changed = TRUE]
      BY <1>a, <3>2, ChangedCurrent
    <3> QED
      BY <2>2, <3>1, <3>2
  <2>4. Counted' /\ requests' \in Seq(Request)
    BY <1>a, <2>1, <2>3
  <2> QED
    BY <1>m, <1>v, <2>1, <2>3, <2>4
<1>12. CASE ServerResets
  <2>1. Message /\ UNCHANGED <<requests, crossed>>
    BY <1>12, <1>t DEF ServerResets
  <2>2. agg' = agg \/ (agg.pending = 0 /\ \E m \in BOOLEAN : agg' = NewState(m))
    BY <1>12, <1>b DEF ServerResets, IsActive
  <2>3. agg.exists
    BY <1>a, <1>m, <2>1 DEF AggregatorOfStream, IsStarted
  <2>4. agg' \in AggState /\ agg'.exists /\ agg'.pending = agg.pending
    BY <1>a, <2>2, <2>3, NewStates
  <2>5. agg'.exists = agg.exists
    BY <1>b, <2>3, <2>4, StateFields
  <2>6. Counted' /\ requests' \in Seq(Request)
    BY <1>a, <2>1, <2>4
  <2> QED
    BY <1>m, <1>v, <2>1, <2>4, <2>5, <2>6
<1>13. CASE ServerSnapshot
  <2>1. Message /\ UNCHANGED crossed
    BY <1>13 DEF ServerSnapshot, history
  <2> DEFINE cleared(c) == IF c THEN [agg EXCEPT !.mismatch = FALSE, !.changed = FALSE]
                           ELSE [agg EXCEPT !.mismatch = FALSE]
  <2>2. PICK c \in BOOLEAN :
          \/ /\ agg' = [cleared(c) EXCEPT !.pending = cleared(c).pending + 2]
             /\ requests' = requests \o <<"unwatch", "watch">>
          \/ agg' = cleared(c) /\ UNCHANGED requests
    <3>1. PICK news \in BOOLEAN :
            \/ /\ agg' = [cleared(TargetChange(news)) EXCEPT
                            !.pending = cleared(TargetChange(news)).pending + 2]
               /\ requests' = requests \o <<"unwatch", "watch">>
            \/ agg' = cleared(TargetChange(news)) /\ UNCHANGED requests
      BY <1>13 DEF ServerSnapshot
    <3>2. CASE TargetChange(news)
      BY <3>1, <3>2
    <3>3. CASE ~TargetChange(news)
      BY <3>1, <3>3
    <3> QED
      BY <3>2, <3>3
  <2>3. PICK a \in AggState : a = cleared(c) /\ a.exists = agg.exists /\ a.pending = agg.pending
    <3>1. CASE c
      BY <1>a, <3>1, ChangedCleared
    <3>2. CASE ~c
      BY <1>a, <3>2, ChangedCleared
    <3> QED
      BY <3>1, <3>2
  <2> HIDE DEF cleared
  <2>4. CASE agg' = [a EXCEPT !.pending = a.pending + 2] /\ requests' = requests \o <<"unwatch", "watch">>
    <3>1. requests' \in Seq(Request) /\ Len(requests') = Len(requests) + 2
      BY <1>a, <2>4, ChangedRequests
    <3>2. a.pending + 2 \in Int
      BY <1>b, <2>3
    <3>3. agg' \in AggState /\ agg'.exists = a.exists /\ agg'.pending = a.pending + 2
      BY <2>4, <3>2, ChangedPending
    <3>4. Counted'
      BY <1>a, <1>b, <1>c, <2>1, <2>3, <3>1, <3>3
    <3> QED
      BY <1>m, <1>v, <2>1, <2>3, <3>1, <3>3, <3>4
  <2>5. CASE agg' = a /\ UNCHANGED requests
    <3>1. agg' \in AggState /\ agg'.exists = agg.exists /\ requests' \in Seq(Request) /\ Counted'
      BY <1>a, <2>1, <2>3, <2>5
    <3> QED
      BY <1>m, <1>v, <2>1, <3>1
  <2> QED
    BY <2>2, <2>3, <2>4, <2>5
<1>14. CASE ServerRejects
  <2>1. /\ Message /\ RejectTarget
        /\ crossed' <=> crossed \/ IF target THEN requests' # <<>> ELSE requests' # requests
    BY <1>14 DEF ServerRejects
  <2>2. UNCHANGED requests \/ (requests # <<>> /\ requests' = Tail(requests))
    BY <1>14 DEF ServerRejects
  <2>3. requests' \in Seq(Request)
    BY <1>a, <1>r, <2>2
  <2>4. agg.exists
    BY <1>a, <1>m, <2>1 DEF AggregatorOfStream, IsStarted
  <2>5. CASE target
    <3>1. agg' = NewState(agg.mismatch)
      BY <2>1, <2>5 DEF RejectTarget
    <3>2. agg' \in AggState /\ agg'.exists /\ agg'.pending = 0
      BY <1>b, <3>1, NewStates
    <3>3. agg'.exists = agg.exists
      BY <1>b, <2>4, <3>2, StateFields
    <3>4. Counted'
      <4>1. crossed' \/ requests' = <<>>
        BY <2>1, <2>5
      <4>2. requests' = <<>> => Len(requests') = 0
        OBVIOUS
      <4> QED
        BY <3>2, <4>1, <4>2
    <3> QED
      BY <1>m, <1>v, <2>1, <2>3, <3>2, <3>3, <3>4
  <2>6. CASE ~target
    <3>1. agg' = agg /\ (crossed' \/ (requests' = requests /\ ~crossed))
      BY <2>1, <2>6 DEF RejectTarget
    <3>2. agg' \in AggState /\ agg'.exists = agg.exists /\ Counted'
      BY <1>a, <3>1
    <3> QED
      BY <1>m, <1>v, <2>1, <2>3, <3>2
  <2> QED
    BY <2>5, <2>6
<1>15. CASE ServerSpeaks \/ ServerRejectsLookup
  BY <1>15, <1>t, <1>u, <1>m DEF ServerSpeaks, ServerRejectsLookup, history
<1>16. CASE UNCHANGED vars
  BY <1>16, <1>u DEF vars, remote, history
<1> QED
  BY <1>1, <1>2, <1>3, <1>4, <1>5, <1>6, <1>7, <1>8, <1>9, <1>10, <1>11, <1>12, <1>13, <1>14,
     <1>15, <1>16 DEF Next, StreamStep, ServerStep

-----------------------------------------------------------------------------
(* Who waits.                                                               *)

\* WaitsOnlyForServer, with the listeners as a set.
Waits == \A g \in Elements(listeners) : raised[g] \/ (~Synced /\ online # "Offline")

\* A stream serves the target, or is on its way.
Started == target => IsStarted

\* Who waits, waits for the server on a stream.
LEMMA WaitsOfAll ==
  ASSUME listeners \in Seq(Gets), ListenersHaveTarget, Waits, Started
  PROVE  WaitsOnlyForServer
<1>1. DOMAIN listeners = 1..Len(listeners)
  OBVIOUS
<1>2. \A i \in DOMAIN listeners : listeners # <<>>
  BY <1>1
<1>3. listeners # <<>> => IsStarted
  BY DEF ListenersHaveTarget, Started
<1>4. \A i \in DOMAIN listeners : IsStarted
  BY <1>2, <1>3
<1> QED
  BY <1>1, <1>4 DEF Waits, WaitsOnlyForServer, Elements

\* Who waits, waits for the server: going offline gives those who wait the cache's
\* answer, and the view being synced the server's.
LEMMA StepWaits == TypeOK /\ AssertionsHold /\ Waits /\ [Next]_vars => Waits'
<1> SUFFICES ASSUME TypeOK, AssertionsHold, Waits, [Next]_vars PROVE Waits'
  OBVIOUS
<1>0. StateTypes /\ QueueTypes
  BY TypesSplit
<1>a. listeners \in Seq(Gets) /\ Elements(listeners) \subseteq Gets /\ raised \in [Gets -> BOOLEAN]
  BY <1>0 DEF QueueTypes, Elements
\* Nobody is added, and nothing is taken away.
<1>b. ASSUME Elements(listeners') \subseteq Elements(listeners),
             \A g \in Elements(listeners) : raised[g] => raised'[g],
             Synced' => Synced, online' = online \/ online' # "Offline"
      PROVE  Waits'
  BY <1>b DEF Waits
<1>v. UNCHANGED <<view, limbo>> => (Synced' <=> Synced)
  BY DEF Synced
<1>c. UNCHANGED <<listeners, raised, view, limbo>> /\ (online' = online \/ online' # "Offline")
        => Waits'
  BY <1>b, <1>v
\* All who listen have had an event.
<1>d. ASSUME \A g \in Elements(listeners') : raised'[g]
      PROVE  Waits'
  BY <1>d DEF Waits
<1>1. CASE (\E g \in Gets : GetDocuments(g)) \/ DeliverEvent \/ UNCHANGED vars
  BY <1>1, <1>c DEF GetDocuments, DeliverEvent, vars, sync, tracker
<1>2. CASE AddQueryListener
  <2> DEFINE new == Head(work).get
             snapshot == IF listeners = <<>> THEN "cache" ELSE Snapshot
  <2>1. new \in Gets
    <3>1. work \in Seq(Item) /\ work # <<>>
      BY <1>0, <1>2 DEF AddQueryListener, QueueTypes
    <3>2. Head(work) \in Item
      BY <3>1, HeadAndRest
    <3> QED
      BY <3>2, ItemsAndEvents
  <2>2. /\ listeners' = Append(listeners, new)
        /\ IF snapshot = "server" \/ online = "Offline"
           THEN raised' = [raised EXCEPT ![new] = TRUE] ELSE raised' = raised
    BY <1>2 DEF AddQueryListener, NoEvents
  <2>3. /\ listeners = <<>> => snapshot = "cache"
        /\ listeners # <<>> /\ Synced => snapshot = "server"
    BY DEF Snapshot
  <2> HIDE DEF new, snapshot
  <2>4. Elements(listeners') = Elements(listeners) \cup {new}
    BY <1>a, <2>1, <2>2, Appending
  <2>5. /\ \A g \in Gets : raised[g] => raised'[g]
        /\ snapshot = "server" \/ online = "Offline" => raised'[new]
    BY <1>a, <2>1, <2>2
  <2>6. CASE listeners = <<>>
    <3>1. view' = "cache" /\ ListenRemotely
      BY <1>2, <2>6 DEF AddQueryListener
    <3>2. online # "Offline" => online' # "Offline"
      BY <3>1 DEF ListenRemotely, StartWatchStream, tracker
    <3>3. Elements(listeners) = {}
      BY <2>6 DEF Elements
    <3>4. ~Synced'
      BY <3>1 DEF Synced
    <3> QED
      BY <2>4, <2>5, <3>2, <3>3, <3>4 DEF Waits
  <2>7. CASE listeners # <<>>
    <3>1. UNCHANGED <<view, limbo, online>>
      BY <1>2, <2>7 DEF AddQueryListener, tracker
    <3> QED
      BY <1>a, <1>v, <2>3, <2>4, <2>5, <2>7, <3>1 DEF Waits
  <2> QED
    BY <2>6, <2>7
<1>3. CASE RemoveQueryListener
  <2>1. UNCHANGED raised
    BY <1>3 DEF RemoveQueryListener
  <2>2. \/ UNCHANGED <<listeners, view, limbo, tracker>>
        \/ /\ \E i \in DOMAIN listeners : listeners' = RemoveAt(listeners, i)
           /\ listeners' = <<>> \/ UNCHANGED <<view, limbo, tracker>>
    BY <1>3 DEF RemoveQueryListener
  <2>3. CASE UNCHANGED <<listeners, view, limbo, tracker>>
    BY <1>c, <2>1, <2>3 DEF tracker
  <2>4. CASE listeners' = <<>>
    BY <2>4 DEF Waits, Elements
  <2>5. CASE /\ \E i \in DOMAIN listeners : listeners' = RemoveAt(listeners, i)
             /\ UNCHANGED <<view, limbo, tracker>>
    <3>1. Elements(listeners') \subseteq Elements(listeners)
      BY <1>a, <2>5, Removal
    <3>2. UNCHANGED <<view, limbo, online>>
      BY <2>5 DEF tracker
    <3> QED
      BY <1>b, <1>v, <2>1, <3>1, <3>2
  <2> QED
    BY <2>2, <2>3, <2>4, <2>5
<1>4. CASE StreamOpens \/ BackoffEnds
  BY <1>4, <1>c DEF StreamOpens, BackoffEnds, sync, tracker
<1>5. CASE StreamFails
  <2>1. UNCHANGED <<listeners, limbo>>
    BY <1>5 DEF StreamFails
  <2>2. \/ online' = "Unknown" /\ UNCHANGED <<view, raised>>
        \/ online # "Online" /\ online' = "Offline" /\ BroadcastOffline
    BY <1>5 DEF StreamFails, NoEvents, UpdateState
  <2>3. CASE online' = "Unknown" /\ UNCHANGED <<view, raised>>
    BY <1>c, <2>1, <2>3
  <2>4. CASE BroadcastOffline /\ online # "Offline"
    <3>1. \A g \in Elements(listeners) : raised'[g]
      BY <2>4, OfflineTypes
    <3> QED
      BY <1>d, <2>1, <3>1
  <2>5. CASE BroadcastOffline /\ online = "Offline"
    <3>1. \A g \in Elements(listeners) : raised[g]
      BY <2>5 DEF Waits
    <3>2. \A g \in Gets : raised[g] => raised'[g]
      BY <2>5, OfflineTypes
    <3> QED
      BY <1>a, <1>d, <2>1, <3>1, <3>2
  <2> QED
    BY <2>2, <2>3, <2>4, <2>5
<1>6. CASE IdleTimerFires
  <2>1. UNCHANGED <<listeners, raised, view, limbo>> /\ online' = "Unknown"
    BY <1>6 DEF IdleTimerFires, UpdateState, sync
  <2> QED
    BY <1>c, <2>1
<1>7. CASE OnlineTimerFires
  <2>1. UNCHANGED listeners /\ BroadcastOffline /\ online # "Offline"
    BY <1>7 DEF OnlineTimerFires, AssertionsHold, TimerOfFirstAttempt
  <2>2. \A g \in Elements(listeners) : raised'[g]
    BY <2>1, OfflineTypes
  <2> QED
    BY <1>d, <2>1, <2>2
<1>m. Message => online' = "Online"
  BY DEF Message, UpdateState
<1>8. CASE ServerSpeaks \/ ServerAdds \/ ServerRemoves \/ ServerCurrent \/ ServerResets
  <2>1. Message /\ UNCHANGED <<listeners, raised, view, limbo>>
    BY <1>8 DEF ServerSpeaks, ServerAdds, ServerRemoves, ServerCurrent, ServerResets,
       TargetMessage
  <2> QED
    BY <1>c, <1>m, <2>1
<1>9. CASE ServerSnapshot \/ ServerRejectsLookup
  <2>1. UNCHANGED listeners /\ online' = "Online"
    BY <1>9, <1>m, EventsOfServer
  <2>2. PICK change, docs \in BOOLEAN : ApplyRemoteEvent(change, docs)
    BY <1>9, EventsOfServer
  <2>3. \/ (Synced' <=> Synced) /\ UNCHANGED raised
        \/ \E R : Raise(R, Snapshot') /\ \A g \in Gets : g \in R <=> raised[g] \/ Synced'
    BY <1>0, <2>2, EventApplied DEF StateTypes
  <2>4. CASE (Synced' <=> Synced) /\ UNCHANGED raised
    BY <1>b, <2>1, <2>4
  <2>5. CASE \E R : Raise(R, Snapshot') /\ \A g \in Gets : g \in R <=> raised[g] \/ Synced'
    <3>1. PICK R : Raise(R, Snapshot') /\ \A g \in Gets : g \in R <=> raised[g] \/ Synced'
      BY <2>5
    <3>2. Snapshot' \in Results
      BY DEF Snapshot, Results, Answers!Results
    <3>3. /\ \A g \in Gets : raised[g] => raised'[g]
          /\ \A g \in Elements(listeners) : g \in R => raised'[g]
      BY <3>1, <3>2, RaiseTypes
    <3> QED
      BY <1>a, <2>1, <3>1, <3>3 DEF Waits
  <2> QED
    BY <2>3, <2>4, <2>5
<1>10. CASE ServerRejects
  <2>1. UNCHANGED raised /\ online' = "Online" /\ RejectTarget
    BY <1>10, <1>m DEF ServerRejects
  <2>2. listeners' = <<>> \/ UNCHANGED <<view, limbo, listeners>>
    BY <2>1 DEF RejectTarget
  <2>3. CASE listeners' = <<>>
    BY <2>3 DEF Waits, Elements
  <2> QED
    BY <1>c, <2>1, <2>2, <2>3
<1> QED
  BY <1>1, <1>2, <1>3, <1>4, <1>5, <1>6, <1>7, <1>8, <1>9, <1>10
  DEF Next, StreamStep, ServerStep

\* Each step preserves Started: the stream stops only while nothing is listened to.
LEMMA StepStarted == TypeOK /\ AssertionsHold /\ Started /\ [Next]_vars => Started'
<1> SUFFICES ASSUME TypeOK, AssertionsHold, Started, [Next]_vars PROVE Started'
  OBVIOUS
<1> USE DEF Started, IsStarted
<1>u. UNCHANGED <<target, stream>> => Started'
  OBVIOUS
<1>2. CASE (\E g \in Gets : GetDocuments(g)) \/ DeliverEvent \/ UNCHANGED vars
  BY <1>2, <1>u DEF GetDocuments, DeliverEvent, vars, sync, remote
<1>3. CASE AddQueryListener
  <2>1. ListenRemotely \/ UNCHANGED <<target, stream>>
    BY <1>3 DEF AddQueryListener, remote
  <2>2. ListenRemotely => stream' \in {"Starting", "Backoff", "Open"}
    BY DEF ListenRemotely, StartWatchStream
  <2> QED
    BY <1>u, <2>1, <2>2
<1>4. CASE RemoveQueryListener
  <2>1. stream' = stream /\ (target' = target \/ target' = FALSE)
    BY <1>4 DEF RemoveQueryListener, StopListening
  <2> QED
    BY <2>1
<1>5. CASE StreamStep
  <2>1. CASE StreamOpens \/ BackoffEnds
    BY <2>1 DEF StreamOpens, BackoffEnds
  <2>2. CASE StreamFails
    BY <2>2 DEF StreamFails, Close
  <2>3. CASE IdleTimerFires
    BY <2>3 DEF IdleTimerFires, sync, AssertionsHold, IdleHasNoTarget
  <2>4. CASE OnlineTimerFires
    BY <2>4, <1>u DEF OnlineTimerFires, remote
  <2> QED
    BY <1>5, <2>1, <2>2, <2>3, <2>4 DEF StreamStep
<1>6. CASE ServerStep
  <2>1. Message
    BY <1>6 DEF ServerStep, ServerSpeaks, ServerAdds, ServerRemoves, ServerCurrent, ServerResets,
       ServerSnapshot, ServerRejects, ServerRejectsLookup, TargetMessage
  <2>2. stream = "Open" /\ stream' = stream
    BY <2>1 DEF Message
  <2> QED
    BY <2>2
<1> QED
  BY <1>2, <1>3, <1>4, <1>5, <1>6 DEF Next

-----------------------------------------------------------------------------
(* The synced view.                                                         *)

\* The last of the requests.
LEMMA LastRequest ==
  ASSUME NEW q \in Seq(Request)
  PROVE  /\ Append(q, "unwatch") # <<>> /\ Last(Append(q, "unwatch")) = "unwatch"
         /\ q \o <<"watch">> # <<>> /\ Last(q \o <<"watch">>) = "watch"
         /\ /\ q \o <<"unwatch", "watch">> # <<>>
            /\ Last(q \o <<"unwatch", "watch">>) = "watch"
         /\ q # <<>> /\ Tail(q) # <<>> => Last(Tail(q)) = Last(q)
         /\ q # <<>> /\ Tail(q) = <<>> => Last(q) = Head(q) /\ Len(q) = 1
<1>1. Append(q, "unwatch") # <<>> /\ Last(Append(q, "unwatch")) = "unwatch"
  BY DEF Last, Request
<1>2. q \o <<"watch">> # <<>> /\ Last(q \o <<"watch">>) = "watch"
  BY DEF Last, Request
<1>3. q \o <<"unwatch", "watch">> # <<>> /\ Last(q \o <<"unwatch", "watch">>) = "watch"
  BY DEF Last, Request
<1>4. ASSUME q # <<>>, Tail(q) # <<>> PROVE Last(Tail(q)) = Last(q)
  <2> DEFINE n == Len(q) - 1
  <2>1. n \in 1..n /\ Len(Tail(q)) = n /\ n + 1 = Len(q) /\ Tail(q)[n] = q[n + 1]
    BY <1>4
  <2> QED
    BY <2>1 DEF Last
<1>5. ASSUME q # <<>>, Tail(q) = <<>> PROVE Last(q) = Head(q) /\ Len(q) = 1
  <2>1. Len(q) = 1
    <3>1. Len(Tail(q)) = Len(q) - 1 /\ Len(<<>>) = 0 /\ Len(q) \in Nat
      BY <1>5
    <3> QED
      BY <1>5, <3>1
  <2> QED
    BY <2>1 DEF Last
<1> QED
  BY <1>1, <1>2, <1>3, <1>4, <1>5

\* What a step makes of believing the server, and of what is yet to tell the view.
LEMMA Believing ==
  /\ \A m \in BOOLEAN : ~NewState(m).current /\ (NewState(m).mismatch <=> m)
  /\ \A a \in AggState :
       LET b == [a EXCEPT !.current = TRUE, !.changed = TRUE] IN b.current /\ b.changed
  /\ \A a \in AggState :
       LET b == [a EXCEPT !.mismatch = FALSE]
       IN  (b.current <=> a.current) /\ (b.changed <=> a.changed)
  /\ \A a \in AggState :
       LET b == [a EXCEPT !.mismatch = FALSE, !.changed = FALSE] IN b.current <=> a.current
  /\ ~NoAggregator.current
<1>1. \A m \in BOOLEAN : ~NewState(m).current /\ (NewState(m).mismatch <=> m)
  BY DEF NewState
<1>2. \A a \in AggState :
       LET b == [a EXCEPT !.current = TRUE, !.changed = TRUE] IN b.current /\ b.changed
  BY DEF AggState
<1>3. \A a \in AggState :
       LET b == [a EXCEPT !.mismatch = FALSE]
       IN  (b.current <=> a.current) /\ (b.changed <=> a.changed)
  BY DEF AggState
<1>4. \A a \in AggState :
       LET b == [a EXCEPT !.mismatch = FALSE, !.changed = FALSE] IN b.current <=> a.current
  BY DEF AggState
<1>5. ~NoAggregator.current
  BY DEF NoAggregator
<1> QED
  BY <1>1, <1>2, <1>3, <1>4, <1>5

\* A request, or a response that leaves others owed, is no news of it.
LEMMA PendingIsNoNews ==
  ASSUME NEW a \in AggState, NEW n \in Int
  PROVE  /\ LET b == [a EXCEPT !.pending = n] IN b.current <=> a.current
         /\ \A c \in BOOLEAN :
              LET b == [a EXCEPT !.pending = n, !.changed = c] IN b.current <=> a.current
BY DEF AggState

\* A snapshot is no news of whether the target is current.
LEMMA SnapshotState ==
  ASSUME ServerSnapshot, agg \in AggState
  PROVE  agg'.current <=> agg.current
<1> DEFINE cleared(c) == IF c THEN [agg EXCEPT !.mismatch = FALSE, !.changed = FALSE]
                         ELSE [agg EXCEPT !.mismatch = FALSE]
<1>1. PICK news \in BOOLEAN :
        \/ agg' = [cleared(TargetChange(news)) EXCEPT
                     !.pending = cleared(TargetChange(news)).pending + 2]
        \/ agg' = cleared(TargetChange(news))
  BY DEF ServerSnapshot
<1>2. PICK a \in AggState : a = cleared(TargetChange(news)) /\ (a.current <=> agg.current)
  <2>1. CASE TargetChange(news)
    BY <2>1, ChangedCleared, Believing
  <2>2. CASE ~TargetChange(news)
    BY <2>2, ChangedCleared, Believing
  <2> QED
    BY <2>1, <2>2
<1> HIDE DEF cleared
<1>3. agg' = [a EXCEPT !.pending = a.pending + 2] \/ agg' = a
  BY <1>1, <1>2
<1>4. a.pending + 2 \in Int
  BY StateFields
<1>5. agg'.current <=> a.current
  <2>1. CASE agg' = [a EXCEPT !.pending = a.pending + 2]
    BY <1>4, <2>1, PendingIsNoNews
  <2>2. CASE agg' = a
    BY <2>2
  <2> QED
    BY <1>3, <2>1, <2>2
<1> QED
  BY <1>2, <1>5

\* What the target is believed to be comes from a CURRENT for its own listen, or for
\* one before it that was not over when its watch was sent.  While the count is right
\* an open stream keeps no belief of a target that was removed, but for as long as its
\* unwatch is on its way; once it is not right, every listen on that stream counts as
\* one whose watch overlapped others.
FreshInv ==
  /\ SyncedIsCurrent
  /\ target /\ agg.current => heard # "nothing"
  /\ stream = "Open" /\ ~crossed /\ ~target /\ agg.current =>
       requests # <<>> /\ Last(requests) = "unwatch"
  /\ crossed => stream = "Open" /\ (target => heard # "nothing")
  /\ stream # "Open" => ~agg.current

\* Each step preserves FreshInv.
LEMMA StepFresh ==
  TypeOK /\ AssertionsHold /\ RemoteInv /\ FreshInv /\ [Next]_vars => FreshInv'
<1> SUFFICES ASSUME TypeOK, AssertionsHold, RemoteInv, FreshInv, [Next]_vars PROVE FreshInv'
  OBVIOUS
<1>a. /\ StateTypes /\ requests \in Seq(Request) /\ agg \in AggState
      /\ crossed \/ agg.pending = Len(requests)
      /\ stream # "Open" => requests = <<>> /\ server = "none"
  BY TypesSplit DEF RemoteInv
<1>p. crossed \/ (requests = <<>> <=> agg.pending = 0)
  <2>1. requests = <<>> <=> Len(requests) = 0
    BY <1>a
  <2> QED
    BY <1>a, <2>1
<1>i. agg.pending \in Int
  BY <1>a, StateFields
<1> USE DEF FreshInv, SyncedIsCurrent
\* Nothing becomes current, and no listen starts.
<1>u. ASSUME view' \in {view, "cache", "none"}, UNCHANGED <<heard, target, stream, crossed>>,
             agg'.current => agg.current,
             \/ target \/ ~agg'.current \/ requests' = requests
             \/ crossed
      PROVE  FreshInv'
  BY <1>u
\* The stream is closed.
<1>w. ASSUME view' \in {view, "cache", "none"}, UNCHANGED <<heard, target>>,
             stream' # "Open", ~crossed', ~agg'.current
      PROVE  FreshInv'
  BY <1>w
<1>1. CASE (\E g \in Gets : GetDocuments(g)) \/ DeliverEvent \/ ServerSpeaks \/ UNCHANGED vars
  <2>1. UNCHANGED <<view, heard, target, stream, crossed, agg, requests>>
    BY <1>1 DEF GetDocuments, DeliverEvent, ServerSpeaks, TargetMessage, Message, vars, sync,
       remote, history
  <2> QED
    BY <1>u, <2>1
<1>2. CASE AddQueryListener
  <2>1. CASE listeners = <<>> /\ view' = "cache" /\ ListenRemotely
    <3>1. /\ ~target /\ target' /\ UNCHANGED crossed
          /\ heard' = IF stream = "Open" /\ (requests # <<>> \/ crossed)
                      THEN "others" ELSE "nothing"
      BY <2>1 DEF ListenRemotely, AssertionsHold, ListenersHaveTarget
    <3>2. CASE stream = "Open"
      <4>1. stream' = stream /\ agg' = [agg EXCEPT !.pending = agg.pending + 1]
        <5>1. Send(<<"watch">>) /\ UNCHANGED stream
          BY <2>1, <3>2 DEF ListenRemotely, IsStarted
        <5>2. Len(<<"watch">>) = 1
          OBVIOUS
        <5> QED
          BY <5>1, <5>2 DEF Send
      <4>2. agg.pending + 1 \in Int
        BY <1>i
      <4>3. agg'.current <=> agg.current
        BY <1>a, <4>1, <4>2, PendingIsNoNews
      <4>4. agg.current \/ crossed => heard' = "others"
        BY <3>1, <3>2
      <4> QED
        BY <2>1, <3>1, <3>2, <4>1, <4>3, <4>4
    <3>3. CASE stream # "Open"
      <4>1. stream' # "Open" /\ (agg' = agg \/ agg' = NewState(FALSE))
        BY <2>1, <3>3 DEF ListenRemotely, StartWatchStream
      <4>2. ~agg'.current
        BY <3>3, <4>1, Believing
      <4> QED
        BY <2>1, <3>1, <3>3, <4>1, <4>2
    <3> QED
      BY <3>2, <3>3
  <2>2. CASE UNCHANGED <<view, limbo, target, tracker, remote, history>>
    <3>1. UNCHANGED <<view, heard, target, stream, crossed, agg, requests>>
      BY <2>2 DEF remote, history
    <3> QED
      BY <1>u, <3>1
  <2> QED
    BY <1>2, <2>1, <2>2 DEF AddQueryListener
<1>3. CASE RemoveQueryListener
  <2>1. UNCHANGED <<stream, heard, crossed>>
    BY <1>3 DEF RemoveQueryListener, history
  <2>2. UNCHANGED <<view, target, requests, agg>> \/ StopListening
    BY <1>3 DEF RemoveQueryListener
  <2>3. CASE UNCHANGED <<view, target, requests, agg>>
    BY <1>u, <2>1, <2>3
  <2>4. CASE StopListening
    <3>1. view' = "none" /\ ~target'
      BY <2>4 DEF StopListening
    <3>2. stream = "Open" => requests' = Append(requests, "unwatch")
      BY <2>4 DEF StopListening
    <3>3. stream = "Open" => requests' # <<>> /\ Last(requests') = "unwatch"
      BY <1>a, <3>2, LastRequest
    <3>4. stream # "Open" => agg' = agg
      BY <2>4 DEF StopListening
    <3> QED
      BY <2>1, <3>1, <3>3, <3>4
  <2> QED
    BY <2>2, <2>3, <2>4
<1>4. CASE StreamOpens
  <2>1. UNCHANGED <<view, heard, target, crossed>> /\ stream = "Starting"
    BY <1>4 DEF StreamOpens, sync, history
  <2>2. agg' = agg \/ agg' = [agg EXCEPT !.pending = agg.pending + 1]
    <3>1. Len(<<"watch">>) = 1
      OBVIOUS
    <3> QED
      BY <1>4, <3>1 DEF StreamOpens, Send
  <2>3. agg.pending + 1 \in Int
    BY <1>i
  <2>4. ~agg'.current
    <3>1. CASE agg' = agg
      BY <2>1, <3>1
    <3>2. CASE agg' = [agg EXCEPT !.pending = agg.pending + 1]
      <4>1. agg'.current <=> agg.current
        BY <1>a, <2>3, <3>2, PendingIsNoNews
      <4> QED
        BY <2>1, <4>1
    <3> QED
      BY <2>2, <3>1, <3>2
  <2> QED
    BY <2>1, <2>4
<1>5. CASE BackoffEnds
  <2>1. UNCHANGED <<view, heard, target, crossed, agg>> /\ stream = "Backoff" /\ stream' = "Starting"
    BY <1>5 DEF BackoffEnds, sync, history
  <2> QED
    BY <2>1
<1>6. CASE StreamFails
  <2>1. /\ UNCHANGED <<target, heard>> /\ stream' # "Open" /\ ~crossed'
        /\ UNCHANGED view \/ BroadcastOffline
        /\ agg' \in {NewState(FALSE), NoAggregator}
    BY <1>6 DEF StreamFails, Close
  <2>2. view' \in {view, "cache", "none"}
    BY <2>1, OfflineTypes
  <2>3. ~agg'.current
    BY <2>1, Believing
  <2> QED
    BY <1>w, <2>1, <2>2, <2>3
<1>7. CASE IdleTimerFires
  <2>1. UNCHANGED <<view, target, heard>> /\ stream' # "Open" /\ ~crossed' /\ agg' = NoAggregator
    BY <1>7 DEF IdleTimerFires, Close, sync
  <2>2. ~agg'.current
    BY <2>1, Believing
  <2> QED
    BY <1>w, <2>1, <2>2
<1>8. CASE OnlineTimerFires
  <2>1. UNCHANGED <<heard, target, stream, crossed, agg, requests>> /\ BroadcastOffline
    BY <1>8 DEF OnlineTimerFires, remote, history
  <2>2. view' \in {view, "cache", "none"}
    BY <2>1, OfflineTypes
  <2> QED
    BY <1>u, <2>1, <2>2
\* A request is answered.
<1>t. ASSUME TargetMessage, UNCHANGED heard, requests # <<>>, requests' = Tail(requests),
             agg'.current => agg.current,
             ~target /\ agg'.current /\ ~crossed => Tail(requests) # <<>>
      PROVE  FreshInv'
  <2>1. stream = "Open" /\ UNCHANGED <<view, heard, target, stream, crossed>>
    BY <1>t DEF TargetMessage, Message
  <2>2. Tail(requests) # <<>> => Last(requests') = Last(requests)
    BY <1>a, <1>t, LastRequest
  <2> QED
    BY <1>t, <2>1, <2>2
<1>9. CASE ServerAdds
  <2>1. /\ TargetMessage /\ UNCHANGED heard /\ requests # <<>> /\ requests' = Tail(requests)
        /\ Head(requests) = "watch"
    BY <1>9 DEF ServerAdds
  <2>2. PICK changed \in BOOLEAN :
          agg' = [agg EXCEPT !.pending = agg.pending - 1, !.changed = changed]
    BY <1>9 DEF ServerAdds
  <2>3. agg.pending - 1 \in Int
    BY <1>i
  <2>4. agg'.current <=> agg.current
    <3>1. LET b == [agg EXCEPT !.pending = agg.pending - 1, !.changed = changed]
          IN  b.current <=> agg.current
      BY <1>a, <2>3, PendingIsNoNews
    <3> QED
      BY <2>2, <3>1
  <2>5. stream = "Open"
    BY <2>1 DEF TargetMessage, Message
  <2>6. ~target /\ agg'.current /\ ~crossed => Tail(requests) # <<>>
    BY <1>a, <2>1, <2>4, <2>5, LastRequest
  <2> QED
    BY <1>t, <2>1, <2>4, <2>6
<1>10. CASE ServerRemoves
  <2>1. TargetMessage /\ UNCHANGED heard /\ requests # <<>> /\ requests' = Tail(requests)
    BY <1>10 DEF ServerRemoves
  <2>2. agg.pending = 1 => agg' = NewState(agg.mismatch)
    BY <1>10 DEF ServerRemoves
  <2>3. agg.pending # 1 => agg' = [agg EXCEPT !.pending = agg.pending - 1]
    BY <1>10 DEF ServerRemoves
  <2>4. agg.pending - 1 \in Int /\ agg.mismatch \in BOOLEAN
    BY <1>a, <1>i, StateFields
  <2>5. agg.pending = 1 => ~agg'.current
    BY <2>2, <2>4, Believing
  <2>6. ASSUME agg.pending # 1 PROVE agg'.current <=> agg.current
    <3>1. agg' = [agg EXCEPT !.pending = agg.pending - 1]
      BY <2>3, <2>6
    <3> QED
      BY <1>a, <2>4, <3>1, PendingIsNoNews
  <2>7. Tail(requests) = <<>> => crossed \/ agg.pending = 1
    <3>1. Tail(requests) = <<>> => Len(requests) = 1
      BY <1>a, <2>1, LastRequest
    <3> QED
      BY <1>a, <3>1
  <2>8. ~target /\ agg'.current /\ ~crossed => Tail(requests) # <<>>
    BY <2>5, <2>7
  <2>9. agg'.current => agg.current
    BY <2>5, <2>6
  <2> QED
    BY <1>t, <2>1, <2>8, <2>9
<1>11. CASE ServerCurrent
  <2>1. UNCHANGED <<view, target, requests, stream, crossed>>
    BY <1>11 DEF ServerCurrent, TargetMessage, Message
  <2>2. heard' = IF requests = <<>> THEN "current" ELSE heard
    BY <1>11 DEF ServerCurrent
  <2>3. agg' = agg \/ (target /\ agg.pending = 0)
    BY <1>11 DEF ServerCurrent, IsActive
  <2>4. stream = "Open"
    BY <1>11 DEF ServerCurrent, TargetMessage, Message
  <2>5. heard # "nothing" => heard' # "nothing"
    BY <2>2
  <2>6. target /\ agg.pending = 0 => heard' # "nothing"
    BY <1>p, <2>2, <2>5
  <2> QED
    BY <2>1, <2>3, <2>4, <2>5, <2>6
<1>12. CASE ServerResets
  <2>1. UNCHANGED <<view, target, requests, heard, stream, crossed>>
    BY <1>12 DEF ServerResets, TargetMessage, Message
  <2>2. agg' = agg \/ \E m \in BOOLEAN : agg' = NewState(m)
    BY <1>12, <1>a, StateFields DEF ServerResets
  <2>3. agg'.current => agg.current
    BY <2>2, Believing
  <2> QED
    BY <1>u, <2>1, <2>3
<1>13. CASE ServerSnapshot \/ ServerRejectsLookup
  <2>1. /\ UNCHANGED <<target, heard, crossed>> /\ UNCHANGED stream
        /\ \E change, docs \in BOOLEAN :
             ApplyRemoteEvent(change, docs) /\ (change => target /\ agg.pending = 0)
    BY <1>13, EventsOfServer DEF Message
  <2>2. view' = view \/ (target /\ view' = IF agg.current THEN "current" ELSE "cache")
    BY <1>a, <2>1, EventApplied DEF StateTypes
  <2>3. agg'.current => agg.current
    <3>1. CASE ServerRejectsLookup
      BY <3>1 DEF ServerRejectsLookup
    <3>2. CASE ServerSnapshot
      BY <1>a, <3>2, SnapshotState
    <3> QED
      BY <1>13, <3>1, <3>2
  <2>4. target \/ requests' = requests
    BY <1>13 DEF ServerSnapshot, ServerRejectsLookup
  <2>5. view' = "current" => heard # "nothing"
    BY <2>2
  <2> QED
    BY <2>1, <2>3, <2>4, <2>5
<1>14. CASE ServerRejects
  <2>1. /\ stream = "Open" /\ UNCHANGED <<stream, heard>> /\ RejectTarget
        /\ crossed' <=> crossed \/ IF target THEN requests' # <<>> ELSE requests' # requests
    BY <1>14 DEF ServerRejects, Message
  <2>2. CASE target
    <3>1. ~target' /\ view' = "none" /\ agg' = NewState(agg.mismatch)
      BY <2>1, <2>2 DEF RejectTarget
    <3>2. ~agg'.current
      BY <1>a, <3>1, StateFields, Believing
    <3> QED
      BY <2>1, <3>1, <3>2
  <2>3. CASE ~target
    <3>1. UNCHANGED <<target, view, agg>>
      BY <2>1, <2>3 DEF RejectTarget
    <3> QED
      BY <2>1, <2>3, <3>1
  <2> QED
    BY <2>2, <2>3
<1> QED
  BY <1>1, <1>2, <1>3, <1>4, <1>5, <1>6, <1>7, <1>8, <1>9, <1>10, <1>11, <1>12, <1>13, <1>14
  DEF Next, StreamStep, ServerStep

-----------------------------------------------------------------------------
(* Who waits is served.                                                     *)

\* The target is watched by the last request on its way, or else by the server.
Watched == IF requests = <<>> THEN server # "none" ELSE Last(requests) = "watch"

\* While the count is right, a server that has sent its CURRENT, and owes nothing, has
\* been believed or is about to be asked again; who has believed it has told the view,
\* or is about to.
ServedInv ==
  /\ server # "none" => online = "Online"
  /\ stream = "Open" /\ ~crossed => (target <=> Watched)
  /\ ~crossed /\ target /\ requests = <<>> /\ server = "current" =>
       /\ agg.current \/ agg.mismatch
       /\ agg.current => agg.changed \/ view = "current"

\* The client starts with nothing asked.
LEMMA InitServed == Init => ServedInv
BY DEF Init, ServedInv

\* Each step preserves ServedInv.
LEMMA StepServed ==
  TypeOK /\ AssertionsHold /\ RemoteInv /\ ServedInv /\ [Next]_vars => ServedInv'
<1> SUFFICES ASSUME TypeOK, AssertionsHold, RemoteInv, ServedInv, [Next]_vars PROVE ServedInv'
  OBVIOUS
<1>a. /\ StateTypes /\ requests \in Seq(Request) /\ agg \in AggState
      /\ crossed \/ agg.pending = Len(requests)
      /\ stream # "Open" => requests = <<>> /\ server = "none"
  BY TypesSplit DEF RemoteInv
<1>b. /\ server # "none" => online = "Online"
      /\ stream = "Open" /\ ~crossed => (target <=> Watched)
      /\ ~crossed /\ target /\ requests = <<>> /\ server = "current" =>
           /\ agg.current \/ agg.mismatch
           /\ agg.current => agg.changed \/ view = "current"
  BY DEF ServedInv
<1>p. crossed \/ (requests = <<>> <=> agg.pending = 0)
  <2>1. requests = <<>> <=> Len(requests) = 0
    BY <1>a
  <2> QED
    BY <1>a, <2>1
\* The stream is closed.
<1>u. stream' # "Open" /\ server' = "none" => ServedInv'
  BY DEF ServedInv
\* Nothing is said.
<1>v. UNCHANGED <<view, target, online, stream, agg, requests, server, crossed>> => ServedInv'
  BY <1>b DEF ServedInv, Watched
\* Something is asked.
<1>w. ASSUME UNCHANGED <<online, stream, server, crossed>>,
             requests' # <<>>, target' <=> Last(requests') = "watch"
      PROVE  ServedInv'
  BY <1>b, <1>w DEF ServedInv, Watched
<1>1. CASE (\E g \in Gets : GetDocuments(g)) \/ DeliverEvent \/ UNCHANGED vars
  <2>1. UNCHANGED <<view, target, online, stream, agg, requests, server, crossed>>
    BY <1>1 DEF GetDocuments, DeliverEvent, vars, sync, tracker, remote, history
  <2> QED
    BY <1>v, <2>1
<1>2. CASE AddQueryListener
  <2>1. ListenRemotely \/ UNCHANGED <<view, target, tracker, remote, history>>
    BY <1>2 DEF AddQueryListener
  <2>2. CASE UNCHANGED <<view, target, tracker, remote, history>>
    BY <1>v, <2>2 DEF tracker, remote, history
  <2>3. CASE ListenRemotely
    <3>1. target' /\ server' = server /\ crossed' = crossed
      BY <2>3 DEF ListenRemotely
    <3>2. CASE stream = "Open"
      <4>1. requests' = requests \o <<"watch">> /\ UNCHANGED <<stream, online>>
        BY <2>3, <3>2 DEF ListenRemotely, IsStarted, Send, tracker
      <4>2. requests' # <<>> /\ Last(requests') = "watch"
        BY <1>a, <4>1, LastRequest
      <4> QED
        BY <1>w, <3>1, <4>1, <4>2
    <3>3. CASE stream # "Open"
      <4>1. stream' # "Open"
        BY <2>3, <3>3 DEF ListenRemotely, StartWatchStream
      <4> QED
        BY <1>a, <1>u, <3>1, <3>3, <4>1
    <3> QED
      BY <3>2, <3>3
  <2> QED
    BY <2>1, <2>2, <2>3
<1>3. CASE RemoveQueryListener
  <2>1. UNCHANGED <<stream, server, crossed>>
    BY <1>3 DEF RemoveQueryListener, history
  <2>2. UNCHANGED <<view, target, tracker, requests, agg>> \/ StopListening
    BY <1>3 DEF RemoveQueryListener
  <2>3. CASE UNCHANGED <<view, target, tracker, requests, agg>>
    BY <1>v, <2>1, <2>3 DEF tracker
  <2>4. CASE StopListening /\ stream = "Open"
    <3>1. ~target' /\ requests' = Append(requests, "unwatch") /\ UNCHANGED online
      BY <2>4 DEF StopListening, tracker
    <3>2. requests' # <<>> /\ Last(requests') = "unwatch"
      BY <1>a, <3>1, LastRequest
    <3>3. ~(Last(requests') = "watch")
      BY <3>2
    <3> QED
      BY <1>w, <2>1, <3>1, <3>2, <3>3
  <2>5. CASE stream # "Open"
    BY <1>a, <1>u, <2>1, <2>5
  <2> QED
    BY <2>2, <2>3, <2>4, <2>5
<1>4. CASE StreamOpens
  <2>1. /\ stream = "Starting" /\ server = "none" /\ requests = <<>>
        /\ UNCHANGED <<target, online, server, crossed>>
    BY <1>4, <1>a DEF StreamOpens, sync, tracker, history
  <2>2. CASE target
    <3>1. requests' = requests \o <<"watch">>
      BY <1>4, <2>2 DEF StreamOpens, Send
    <3>2. requests' # <<>> /\ Last(requests') = "watch"
      BY <1>a, <3>1, LastRequest
    <3> QED
      BY <1>b, <2>1, <2>2, <3>2 DEF ServedInv, Watched
  <2>3. CASE ~target
    <3>1. requests' = <<>>
      BY <1>4, <2>1, <2>3 DEF StreamOpens
    <3> QED
      BY <1>b, <2>1, <2>3, <3>1 DEF ServedInv, Watched
  <2> QED
    BY <2>2, <2>3
<1>5. CASE BackoffEnds \/ StreamFails \/ IdleTimerFires
  <2>1. stream' # "Open" /\ server' = "none"
    <3>1. CASE BackoffEnds
      BY <1>a, <3>1 DEF BackoffEnds
    <3>2. CASE StreamFails
      BY <3>2 DEF StreamFails, Close
    <3>3. CASE IdleTimerFires
      BY <3>3 DEF IdleTimerFires, Close
    <3> QED
      BY <1>5, <3>1, <3>2, <3>3
  <2> QED
    BY <1>u, <2>1
<1>6. CASE OnlineTimerFires
  <2>1. timer /\ UNCHANGED <<target, stream, agg, requests, server, crossed>>
    BY <1>6 DEF OnlineTimerFires, remote, history
  <2>2. online = "Unknown"
    BY <2>1 DEF AssertionsHold, TimerOfFirstAttempt
  <2>3. server = "none"
    BY <1>a, <1>b, <2>2 DEF StateTypes
  <2> QED
    BY <1>b, <2>1, <2>3 DEF ServedInv, Watched
<1>m. Message => online' = "Online" /\ stream = "Open" /\ stream' = stream
  BY DEF Message, UpdateState
\* A request is answered, by which the server watches the target or does not.
<1>t. ASSUME requests # <<>>, requests' = Tail(requests), Message, target' = target,
             crossed' = crossed, server' \in {"none", "added"},
             server' # "none" <=> Head(requests) = "watch"
      PROVE  ServedInv'
  <2>1. crossed \/ (target <=> Last(requests) = "watch")
    BY <1>b, <1>m, <1>t DEF Watched
  <2>2. Watched' <=> Last(requests) = "watch"
    BY <1>a, <1>t, LastRequest DEF Watched
  <2> QED
    BY <1>m, <1>t, <2>1, <2>2 DEF ServedInv
<1>7. CASE ServerAdds
  <2>1. /\ Message /\ requests # <<>> /\ requests' = Tail(requests) /\ UNCHANGED <<target, crossed>>
        /\ server' = "added" /\ Head(requests) = "watch"
    BY <1>7 DEF ServerAdds, TargetMessage
  <2> QED
    BY <1>t, <2>1
<1>8. CASE ServerRemoves
  <2>1. /\ Message /\ requests # <<>> /\ requests' = Tail(requests) /\ UNCHANGED <<target, crossed>>
        /\ server' = "none" /\ Head(requests) = "unwatch"
    BY <1>8 DEF ServerRemoves, TargetMessage
  <2> QED
    BY <1>t, <2>1
<1>9. CASE ServerCurrent
  <2>1. /\ Message /\ server = "added" /\ server' = "current"
        /\ UNCHANGED <<target, requests, crossed>>
    BY <1>9 DEF ServerCurrent, TargetMessage
  <2>2. agg' = IF IsActive THEN [agg EXCEPT !.current = TRUE, !.changed = TRUE] ELSE agg
    BY <1>9 DEF ServerCurrent
  <2>3. Watched' <=> Watched
    BY <2>1 DEF Watched
  <2>4. ~crossed /\ target /\ requests = <<>> => agg'.current /\ agg'.changed
    BY <1>a, <1>p, <2>2, Believing DEF IsActive
  <2> QED
    BY <1>b, <1>m, <2>1, <2>3, <2>4 DEF ServedInv
<1>10. CASE ServerResets
  <2>1. Message /\ server # "none" /\ UNCHANGED <<target, requests, crossed>>
    BY <1>10 DEF ServerResets, TargetMessage
  <2>2. \/ server' = "added"
        \/ server' = server /\ (IsActive => agg' = NewState(TRUE))
    BY <1>10 DEF ServerResets
  <2>3. Watched' <=> Watched
    BY <2>1, <2>2 DEF Watched
  <2>4. ~crossed /\ target /\ requests = <<>> /\ server' = "current" =>
          ~agg'.current /\ agg'.mismatch
    BY <1>p, <2>2, Believing DEF IsActive
  <2> QED
    BY <1>b, <1>m, <2>1, <2>3, <2>4 DEF ServedInv
<1>11. CASE ServerSnapshot
  <2>1. Message /\ UNCHANGED <<target, server, crossed>>
    BY <1>11 DEF ServerSnapshot, history
  <2>2. PICK news, docs \in BOOLEAN :
          /\ ApplyRemoteEvent(TargetChange(news), docs)
          /\ LET cleared == IF TargetChange(news)
                            THEN [agg EXCEPT !.mismatch = FALSE, !.changed = FALSE]
                            ELSE [agg EXCEPT !.mismatch = FALSE] IN
               IF agg.mismatch /\ target
               THEN /\ agg' = [cleared EXCEPT !.pending = @ + 2]
                    /\ requests' = requests \o <<"unwatch", "watch">>
               ELSE agg' = cleared /\ UNCHANGED requests
    BY <1>11 DEF ServerSnapshot
  <2>3. CASE agg.mismatch /\ target
    <3>1. requests' = requests \o <<"unwatch", "watch">>
      BY <2>2, <2>3
    <3>2. requests' # <<>> /\ Last(requests') = "watch"
      BY <1>a, <3>1, LastRequest
    <3>3. target'
      BY <2>1, <2>3
    <3>4. Watched'
      BY <3>2 DEF Watched
    <3> QED
      BY <1>m, <2>1, <3>2, <3>3, <3>4 DEF ServedInv
  <2>4. CASE ~(agg.mismatch /\ target)
    <3>1. /\ UNCHANGED requests
          /\ agg' = IF TargetChange(news) THEN [agg EXCEPT !.mismatch = FALSE, !.changed = FALSE]
                    ELSE [agg EXCEPT !.mismatch = FALSE]
      BY <2>2, <2>4
    <3>2. Watched' <=> Watched
      BY <2>1, <3>1 DEF Watched
    <3>3. ASSUME ~crossed, target, requests = <<>>, server = "current"
          PROVE  agg'.current /\ (agg'.changed \/ view' = "current")
      <4>1. agg.current /\ (agg.changed \/ view = "current")
        BY <1>b, <2>4, <3>3
      <4>2. CASE TargetChange(news)
        <5>1. agg'.current
          BY <1>a, <3>1, <4>1, <4>2, Believing
        <5>2. view' = "current"
          BY <2>2, <4>1, <4>2 DEF ApplyRemoteEvent
        <5> QED
          BY <5>1, <5>2
      <4>3. CASE ~TargetChange(news)
        <5>1. agg'.current /\ (agg'.changed <=> agg.changed)
          BY <1>a, <3>1, <4>1, <4>3, Believing
        <5>2. view' = view
          BY <2>2, <4>3 DEF ApplyRemoteEvent
        <5> QED
          BY <4>1, <5>1, <5>2
      <4> QED
        BY <4>2, <4>3
    <3> QED
      BY <1>b, <1>m, <2>1, <3>1, <3>2, <3>3 DEF ServedInv
  <2> QED
    BY <2>3, <2>4
<1>12. CASE ServerRejects
  <2>1. /\ Message /\ server' = "none" /\ RejectTarget
        /\ crossed' <=> crossed \/ IF target THEN requests' # <<>> ELSE requests' # requests
    BY <1>12 DEF ServerRejects
  <2>2. CASE target
    <3>1. ~target' /\ (crossed' \/ requests' = <<>>)
      BY <2>1, <2>2 DEF RejectTarget
    <3>2. crossed' \/ ~Watched'
      BY <2>1, <3>1 DEF Watched
    <3> QED
      BY <1>m, <2>1, <3>1, <3>2 DEF ServedInv
  <2>3. CASE ~target
    <3>1. ~target' /\ (crossed' \/ (requests' = requests /\ ~crossed))
      BY <2>1, <2>3 DEF RejectTarget
    <3>2. crossed' \/ ~Watched'
      BY <1>b, <1>m, <2>1, <2>3, <3>1 DEF Watched
    <3> QED
      BY <1>m, <2>1, <3>1, <3>2 DEF ServedInv
  <2> QED
    BY <2>2, <2>3
<1>13. CASE ServerSpeaks
  <2>1. /\ Message /\ UNCHANGED <<view, target, stream, agg, requests, server, crossed>>
    BY <1>13 DEF ServerSpeaks, TargetMessage, Message
  <2>2. Watched' <=> Watched
    BY <2>1 DEF Watched
  <2> QED
    BY <1>b, <1>m, <2>1, <2>2 DEF ServedInv
<1>14. CASE ServerRejectsLookup
  <2>1. Message /\ UNCHANGED <<target, stream, agg, requests, server, crossed>>
    BY <1>14 DEF ServerRejectsLookup, history, Message
  <2>2. view' = view
    BY <1>14 DEF ServerRejectsLookup, ApplyRemoteEvent
  <2>3. Watched' <=> Watched
    BY <2>1 DEF Watched
  <2> QED
    BY <1>b, <1>m, <2>1, <2>2, <2>3 DEF ServedInv
<1> QED
  BY <1>1, <1>2, <1>3, <1>4, <1>5, <1>6, <1>7, <1>8, <1>9, <1>10, <1>11, <1>12, <1>13, <1>14
  DEF Next, StreamStep, ServerStep

-----------------------------------------------------------------------------
(* Theorems.                                                                *)

\* The inductive invariant: the types of queues and state, the assertions, the
\* count of responses, who waits, and that a stream is started for them.
ClientInv == TypeOK /\ AssertionsHold /\ RemoteInv /\ Waits /\ Started

\* Init establishes ClientInv and FreshInv.
LEMMA InitInv == Init => ClientInv /\ FreshInv
<1> SUFFICES ASSUME Init PROVE ClientInv /\ FreshInv
  OBVIOUS
<1>1. TypeOK /\ AssertionsHold /\ RemoteInv
  BY InitTypes
<1>2. /\ listeners = <<>> /\ view = "none" /\ target = FALSE /\ crossed = FALSE
      /\ agg = NoAggregator /\ stream # "Open"
  BY DEF Init
<1>3. Waits
  BY <1>2 DEF Waits, Elements
<1>4. FreshInv
  BY <1>2, Believing DEF FreshInv, SyncedIsCurrent
<1>5. Started
  BY <1>2 DEF Started
<1> QED
  BY <1>1, <1>3, <1>4, <1>5 DEF ClientInv

\* Each step preserves the inductive invariant.
LEMMA StepInv == ClientInv /\ [Next]_vars => ClientInv'
<1> SUFFICES ASSUME ClientInv, [Next]_vars PROVE ClientInv'
  OBVIOUS
<1>1. TypeOK /\ AssertionsHold /\ RemoteInv /\ Waits /\ Started
  BY DEF ClientInv
<1>2. RemoteInv'
  BY <1>1, StepRemote
<1>3. StateTypes' /\ ClientAsserts'
  BY <1>1, StepState
<1>4. AssertionsHold'
  BY <1>2, <1>3 DEF AssertionsHold, ClientAsserts, RemoteInv
<1>5. failures' \in 0..1
  <2>1. failures \in 0..1 /\ failures' \in {0, 1, failures}
    BY <1>1, StepFailures, TypesSplit
  <2> QED
    BY <2>1
<1>6. QueueTypes'
  BY <1>1, StepQueueTypes
<1>7. TypeOK'
  <2>1. agg' \in AggState /\ requests' \in Seq(Request)
    BY <1>2 DEF RemoteInv
  <2>2. (TypeOK <=> /\ QueueTypes /\ StateTypes /\ failures \in 0..1
                    /\ agg \in AggState /\ requests \in Seq(Request))'
    BY TypesSplit, PTL
  <2> QED
    BY <1>3, <1>5, <1>6, <2>1, <2>2
<1>8. Waits' /\ Started'
  BY <1>1, StepWaits, StepStarted
<1> QED
  BY <1>2, <1>4, <1>7, <1>8 DEF ClientInv

\* Every reachable state satisfies the inductive invariant.
LEMMA InvCorrect == Spec => []ClientInv
<1>1. Init => ClientInv
  BY InitInv
<1> QED
  BY <1>1, StepInv, PTL DEF Spec

\* The queues hold what they should, the main queue stays within its bound, and
\* the states of stream, tracker and view are those of the code.
THEOREM TypeCorrect == Spec => []TypeOK
<1>1. ClientInv => TypeOK
  BY DEF ClientInv
<1> QED
  BY <1>1, InvCorrect, PTL

\* The assertions of EventManager, SyncEngine, RemoteStore, the tracker, the stream
\* and the aggregator hold, for any number of overlapping gets.
THEOREM AssertionsCorrect == Spec => []AssertionsHold
<1>1. ClientInv => AssertionsHold
  BY DEF ClientInv
<1> QED
  BY <1>1, InvCorrect, PTL

\* No get is left waiting once the client knows itself offline or the view synced,
\* nor without a stream.
THEOREM WaitsCorrect == Spec => []WaitsOnlyForServer
<1>1. ClientInv => WaitsOnlyForServer
  BY WaitsOfAll DEF ClientInv, TypeOK, AssertionsHold
<1> QED
  BY <1>1, InvCorrect, PTL

\* As long as no rejection has crossed a request of the client on the stream, the
\* aggregator counts exactly the responses that are owed.
THEOREM CountCorrect == Spec => []ResponsesCounted
<1>1. ClientInv => ResponsesCounted
  BY DEF ClientInv, RemoteInv, ResponsesCounted
<1> QED
  BY <1>1, InvCorrect, PTL

\* A view that calls itself current does so by a CURRENT of its own listen, or of one
\* that was not over when its watch was sent: whatever the server rejects, in
\* whichever order snapshots and responses come.
THEOREM SyncedCorrect == Spec => []SyncedIsCurrent
<1>1. ClientInv /\ FreshInv /\ [Next]_vars => FreshInv'
  BY StepFresh DEF ClientInv
<1>2. Init => FreshInv
  BY InitInv
<1>3. Spec => []FreshInv
  BY <1>1, <1>2, InvCorrect, PTL DEF Spec
<1>4. FreshInv => SyncedIsCurrent
  BY DEF FreshInv
<1> QED
  BY <1>3, <1>4, PTL

\* A get's first snapshot is from a synced view, which a CURRENT of its own listen has
\* made so or one of a listen that this one's watch overlapped, unless the client is,
\* or becomes, offline: nobody who waits is given what the cache has while the server
\* may answer.
FirstSnapshot ==
  [][\A g \in Gets : ~raised[g] /\ raised'[g] =>
       \/ online = "Offline" \/ online' = "Offline"
       \/ Synced' /\ heard' # "nothing"]_vars

\* FirstSnapshot holds: QueryListener's test of a first snapshot is never met by a view
\* that is not synced, nor by one that an earlier listen, over and done with, has left.
THEOREM FirstSnapshotCorrect == Spec => FirstSnapshot
<1> DEFINE Told == \A g \in Gets : ~raised[g] /\ raised'[g] =>
                     online = "Offline" \/ online' = "Offline" \/ Synced'
<1>1. ASSUME ClientInv, [Next]_vars PROVE Told
  <2>a. limbo \in BOOLEAN
    BY <1>1 DEF ClientInv, TypeOK
  <2>b. \A R, r : Raise(R, r) => \A g \in Gets : raised'[g] => raised[g] \/ g \in R
    BY DEF Raise
  <2>1. CASE UNCHANGED raised
    BY <2>1
  <2>2. CASE AddQueryListener
    <3> DEFINE snapshot == IF listeners = <<>> THEN "cache" ELSE Snapshot
    <3>1. raised' = raised \/ snapshot = "server" \/ online = "Offline"
      BY <2>2 DEF AddQueryListener, NoEvents
    <3>2. snapshot = "server" => Synced /\ listeners # <<>>
      BY DEF Snapshot
    <3>3. listeners # <<>> => UNCHANGED <<view, limbo>>
      BY <2>2 DEF AddQueryListener
    <3>4. snapshot = "server" => Synced'
      BY <3>2, <3>3 DEF Synced
    <3> HIDE DEF snapshot
    <3> QED
      BY <3>1, <3>4
  <2>3. CASE StreamFails \/ OnlineTimerFires
    <3>1. UNCHANGED raised \/ online' = "Offline"
      BY <2>3 DEF StreamFails, OnlineTimerFires, NoEvents
    <3> QED
      BY <3>1
  <2>4. CASE ServerSnapshot \/ ServerRejectsLookup
    <3>1. PICK change, docs \in BOOLEAN : ApplyRemoteEvent(change, docs)
      BY <2>4, EventsOfServer
    <3>2. \/ UNCHANGED raised
          \/ \E R : Raise(R, Snapshot') /\ \A g \in Gets : g \in R <=> raised[g] \/ Synced'
      BY <2>a, <3>1, EventApplied
    <3>3. ASSUME NEW R, Raise(R, Snapshot'), \A g \in Gets : g \in R <=> raised[g] \/ Synced'
          PROVE  Told
      BY <2>b, <3>3
    <3> QED
      BY <2>1, <3>2, <3>3
  <2>5. CASE (\E g \in Gets : GetDocuments(g)) \/ DeliverEvent \/ RemoveQueryListener
    BY <2>1, <2>5 DEF GetDocuments, DeliverEvent, RemoveQueryListener
  <2>6. CASE StreamOpens \/ BackoffEnds \/ IdleTimerFires
    BY <2>1, <2>6 DEF StreamOpens, BackoffEnds, IdleTimerFires
  <2>7. CASE \/ ServerSpeaks \/ ServerAdds \/ ServerRemoves \/ ServerCurrent \/ ServerResets
             \/ ServerRejects
    BY <2>1, <2>7 DEF ServerSpeaks, ServerAdds, ServerRemoves, ServerCurrent, ServerResets,
       ServerRejects, TargetMessage
  <2>8. CASE UNCHANGED vars
    BY <2>1, <2>8 DEF vars
  <2> QED
    BY <1>1, <2>2, <2>3, <2>4, <2>5, <2>6, <2>7, <2>8 DEF Next, StreamStep, ServerStep
<1>2. Told /\ SyncedIsCurrent' =>
        \A g \in Gets : ~raised[g] /\ raised'[g] =>
          \/ online = "Offline" \/ online' = "Offline"
          \/ Synced' /\ heard' # "nothing"
  BY DEF SyncedIsCurrent, Synced
<1> HIDE DEF Told
<1> QED
  BY <1>1, <1>2, InvCorrect, SyncedCorrect, PTL DEF Spec, FirstSnapshot

\* No get waits unless the view is not synced, the client not known to be offline and
\* a stream there; and on an open stream whose count no rejection has put out, a get
\* that waits has something coming: a response, a CURRENT, a snapshot that will make
\* the view current, another watch, or the lookup of a document in limbo.
THEOREM ServedCorrect == Spec => []WaitersServed
<1>1. Init => ServedInv
  BY InitServed
<1>2. ClientInv /\ ServedInv /\ [Next]_vars => ServedInv'
  BY StepServed DEF ClientInv
<1>3. Spec => []ServedInv
  BY <1>1, <1>2, InvCorrect, PTL DEF Spec
<1>4. ASSUME ClientInv, ServedInv, WaitsOnlyForServer PROVE WaitersServed
  <2>1. TypeOK /\ AssertionsHold /\ RemoteInv
    BY <1>4 DEF ClientInv
  <2>2. listeners \in Seq(Gets) /\ server \in {"none", "added", "current"}
    BY <2>1 DEF TypeOK
  <2> SUFFICES ASSUME stream = "Open", ~crossed, NEW i \in DOMAIN listeners,
                      ~raised[listeners[i]], requests = <<>>
               PROVE  \/ server = "added"
                      \/ server = "current" /\ (agg.mismatch \/ (agg.current /\ agg.changed))
                      \/ view = "current" /\ limbo
    BY <1>4 DEF WaitersServed, ServerOwesWaiters
  <2>3. target
    <3>1. listeners # <<>>
      BY <2>2
    <3> QED
      BY <2>1, <3>1 DEF AssertionsHold, ListenersHaveTarget
  <2>4. view = "current" => limbo
    BY <1>4 DEF WaitsOnlyForServer, Synced
  <2>5. server # "none"
    BY <1>4, <2>3 DEF ServedInv, Watched
  <2> QED
    BY <1>4, <2>2, <2>3, <2>4, <2>5 DEF ServedInv
<1> QED
  BY <1>3, <1>4, InvCorrect, WaitsCorrect, PTL

-----------------------------------------------------------------------------
(* Every get is answered at most once.                                      *)

\* Who waits to be listened for, whom events are for, and errors among them.
Adding(q)   == {x.get : x \in {y \in Elements(q) : y.op = "add"}}
SentTo(q)   == {e.get : e \in Elements(q)}
FailedTo(q) == {e.get : e \in {d \in Elements(q) : d.result = "error"}}

AddsOnce(q) ==
  \A i, j \in 1..Len(q) :
    q[i].op = "add" /\ q[j].op = "add" /\ q[i].get = q[j].get => i = j
ErrorsLast(q) ==
  \A i, j \in 1..Len(q) : i < j /\ q[i].result = "error" => q[i].get # q[j].get

\* A get is added once; its events come from the time it listens; an error is the
\* last of them, and ends the listening.  So one that is answered and not muted has
\* been given an error, and nothing more is on its way.
OnceInv ==
  /\ AddsOnce(work) /\ Distinct(listeners) /\ ErrorsLast(main)
  /\ Adding(work) \cup Elements(listeners) \cup SentTo(main) \subseteq asked
  /\ Adding(work) \cap (Elements(listeners) \cup SentTo(main)) = {}
  /\ Elements(listeners) \cap FailedTo(main) = {}
  /\ \A g \in Gets : answers[g] # <<>> =>
       /\ g \in asked
       /\ ~muted[g] => g \notin Adding(work) \cup Elements(listeners) \cup SentTo(main)

\* Running the first block of workerQueue_ leaves its get without another.
LEMMA AddsOnceTail ==
  ASSUME NEW q \in Seq(Item), q # <<>>, AddsOnce(q)
  PROVE  /\ AddsOnce(Tail(q)) /\ Adding(Tail(q)) \subseteq Adding(q)
         /\ Head(q).op = "add" =>
              Head(q).get \in Adding(q) /\ Head(q).get \notin Adding(Tail(q))
<1> DEFINE t == Tail(q)
<1>1. /\ t \in Seq(Item) /\ Len(t) = Len(q) - 1 /\ Head(q) = q[1]
      /\ \A i \in 1..Len(t) : t[i] = q[i + 1] /\ i + 1 \in 1..Len(q)
  OBVIOUS
<1>2. Len(q) \in Nat /\ 1 \in 1..Len(q)
  OBVIOUS
<1>3. Elements(t) \subseteq Elements(q) /\ Head(q) \in Elements(q)
  BY HeadAndRest
<1> HIDE DEF t
<1>4. AddsOnce(t)
  <2> SUFFICES ASSUME NEW i \in 1..Len(t), NEW j \in 1..Len(t),
                      t[i].op = "add", t[j].op = "add", t[i].get = t[j].get
               PROVE  i = j
    BY DEF AddsOnce
  <2>1. i + 1 = j + 1
    BY <1>1 DEF AddsOnce
  <2> QED
    BY <2>1
<1>5. ASSUME Head(q).op = "add", NEW i \in 1..Len(t), t[i].op = "add", t[i].get = Head(q).get
      PROVE  FALSE
  <2>1. i + 1 = 1
    BY <1>1, <1>2, <1>5 DEF AddsOnce
  <2> QED
    BY <2>1
<1>6. Head(q).op = "add" => Head(q).get \notin Adding(t)
  BY <1>5 DEF Adding, Elements
<1> QED
  BY <1>3, <1>4, <1>6 DEF Adding, t

\* A block for a get that has none can be appended.
LEMMA AddsOnceAppend ==
  ASSUME NEW q \in Seq(Item), NEW x \in Item, AddsOnce(q),
         x.op = "add" => x.get \notin Adding(q)
  PROVE  /\ AddsOnce(Append(q, x))
         /\ Adding(Append(q, x)) = Adding(q) \cup (IF x.op = "add" THEN {x.get} ELSE {})
<1> DEFINE r == Append(q, x)
<1>1. /\ Len(r) = Len(q) + 1 /\ r[Len(q) + 1] = x
      /\ \A i \in 1..Len(q) : r[i] = q[i]
  OBVIOUS
<1>2. Len(q) \in Nat
  OBVIOUS
<1>3. Elements(r) = Elements(q) \cup {x}
  BY Appending
<1> HIDE DEF r
<1>4. \A i \in 1..Len(q) : ~(q[i].op = "add" /\ x.op = "add" /\ q[i].get = x.get)
  BY DEF Adding, Elements
<1>5. \A i \in 1..Len(r) : i \in 1..Len(q) \/ (i = Len(q) + 1 /\ r[i] = x)
  BY <1>1, <1>2
<1>6. AddsOnce(r)
  BY <1>1, <1>4, <1>5 DEF AddsOnce
<1>7. Adding(r) = Adding(q) \cup (IF x.op = "add" THEN {x.get} ELSE {})
  BY <1>3 DEF Adding
<1> QED
  BY <1>6, <1>7 DEF r

\* After an error nothing is left for its get in the main queue.
LEMMA ErrorsLastTail ==
  ASSUME NEW q \in Seq(Event), q # <<>>, ErrorsLast(q)
  PROVE  /\ ErrorsLast(Tail(q)) /\ SentTo(Tail(q)) \subseteq SentTo(q)
         /\ FailedTo(Tail(q)) \subseteq FailedTo(q) /\ Head(q).get \in SentTo(q)
         /\ Head(q).result = "error" =>
              Head(q).get \in FailedTo(q) /\ Head(q).get \notin SentTo(Tail(q))
<1> DEFINE t == Tail(q)
<1>1. /\ t \in Seq(Event) /\ Len(t) = Len(q) - 1 /\ Head(q) = q[1]
      /\ \A i \in 1..Len(t) : t[i] = q[i + 1] /\ i + 1 \in 1..Len(q)
  OBVIOUS
<1>2. Len(q) \in Nat /\ 1 \in 1..Len(q)
  OBVIOUS
<1>3. Elements(t) \subseteq Elements(q) /\ Head(q) \in Elements(q)
  BY HeadAndRest
<1> HIDE DEF t
<1>4. ErrorsLast(t)
  <2> SUFFICES ASSUME NEW i \in 1..Len(t), NEW j \in 1..Len(t), i < j, t[i].result = "error"
               PROVE  t[i].get # t[j].get
    BY DEF ErrorsLast
  <2> DEFINE x == i + 1
             y == j + 1
  <2>1. x < y
    OBVIOUS
  <2>2. x \in 1..Len(q) /\ y \in 1..Len(q) /\ t[i] = q[x] /\ t[j] = q[y]
    BY <1>1
  <2> HIDE DEF x, y
  <2> QED
    BY <2>1, <2>2 DEF ErrorsLast
<1>5. ASSUME Head(q).result = "error", NEW i \in 1..Len(t) PROVE t[i].get # Head(q).get
  <2> DEFINE j == i + 1
  <2>1. 1 < j /\ j \in 1..Len(q) /\ t[i] = q[j] /\ Head(q) = q[1]
    BY <1>1
  <2> HIDE DEF j
  <2>2. q[1].get # q[j].get
    BY <1>2, <1>5, <2>1 DEF ErrorsLast
  <2> QED
    BY <2>1, <2>2
<1>6. Head(q).result = "error" => Head(q).get \notin SentTo(t)
  BY <1>5 DEF SentTo, Elements
<1> QED
  BY <1>3, <1>4, <1>6 DEF SentTo, FailedTo, t

\* Events can be appended for gets without an error.
LEMMA ErrorsLastMore ==
  ASSUME NEW q \in Seq(Event), NEW e \in Seq(Event), ErrorsLast(q), ErrorsLast(e),
         FailedTo(q) \cap SentTo(e) = {}
  PROVE  /\ ErrorsLast(q \o e)
         /\ SentTo(q \o e) = SentTo(q) \cup SentTo(e)
         /\ FailedTo(q \o e) = FailedTo(q) \cup FailedTo(e)
<1> DEFINE r == q \o e
<1>1. /\ Len(r) = Len(q) + Len(e)
      /\ \A i \in 1..Len(q) : r[i] = q[i]
      /\ \A i \in 1..Len(r) :
           i \notin 1..Len(q) => i - Len(q) \in 1..Len(e) /\ r[i] = e[i - Len(q)]
      /\ Elements(r) = Elements(q) \cup Elements(e)
  BY Concatenating
<1>2. Len(q) \in Nat /\ Len(e) \in Nat
  OBVIOUS
<1> HIDE DEF r
<1>3. \A i \in 1..Len(q), j \in 1..Len(e) : q[i].result = "error" => q[i].get # e[j].get
  BY DEF FailedTo, SentTo, Elements
<1>4. ErrorsLast(r)
  <2> SUFFICES ASSUME NEW i \in 1..Len(r), NEW j \in 1..Len(r), i < j, r[i].result = "error"
               PROVE  r[i].get # r[j].get
    BY DEF ErrorsLast
  <2>1. CASE j \in 1..Len(q)
    <3>1. i \in 1..Len(q)
      BY <2>1
    <3>2. r[i] = q[i] /\ r[j] = q[j]
      BY <1>1, <2>1, <3>1
    <3> QED
      BY <2>1, <3>1, <3>2 DEF ErrorsLast
  <2>2. CASE i \in 1..Len(q) /\ j \notin 1..Len(q)
    <3> DEFINE y == j - Len(q)
    <3>1. y \in 1..Len(e) /\ r[j] = e[y] /\ r[i] = q[i]
      BY <1>1, <2>2
    <3> HIDE DEF y
    <3> QED
      BY <1>3, <2>2, <3>1
  <2>3. CASE i \notin 1..Len(q)
    <3>1. j \notin 1..Len(q)
      BY <1>2, <2>3
    <3> DEFINE x == i - Len(q)
               y == j - Len(q)
    <3>2. x < y
      BY <1>2
    <3>3. x \in 1..Len(e) /\ y \in 1..Len(e) /\ r[i] = e[x] /\ r[j] = e[y]
      BY <1>1, <2>3, <3>1
    <3> HIDE DEF x, y
    <3> QED
      BY <3>2, <3>3 DEF ErrorsLast
  <2> QED
    BY <2>1, <2>2, <2>3
<1> QED
  BY <1>1, <1>4 DEF SentTo, FailedTo, r

\* Init establishes OnceInv.
LEMMA InitOnce == Init => OnceInv
<1> SUFFICES ASSUME Init PROVE OnceInv
  OBVIOUS
<1>1. /\ work = <<>> /\ listeners = <<>> /\ main = <<>>
      /\ answers = [g \in Gets |-> <<>>]
  BY DEF Init, Answers!Init
<1>2. AddsOnce(<<>>) /\ Distinct(<<>>) /\ ErrorsLast(<<>>) /\ Elements(<<>>) = {}
  BY DEF AddsOnce, Distinct, ErrorsLast, Elements
<1>3. Adding(<<>>) = {} /\ SentTo(<<>>) = {} /\ FailedTo(<<>>) = {}
  BY <1>2 DEF Adding, SentTo, FailedTo
<1> QED
  BY <1>1, <1>2, <1>3 DEF OnceInv

\* Every step keeps the invariant, and makes a call, answers one, or does nothing
\* that the caller sees.
LEMMA StepOnce ==
  TypeOK /\ AssertionsHold /\ OnceInv /\ [Next]_vars => OnceInv' /\ [Answers!Next]_(Answers!avars)
<1> SUFFICES ASSUME TypeOK, AssertionsHold, OnceInv, [Next]_vars
             PROVE  OnceInv' /\ [Answers!Next]_(Answers!avars)
  OBVIOUS
<1>0. QueueTypes
  BY TypesSplit
<1>a. /\ work \in Seq(Item) /\ main \in Seq(Event) /\ listeners \in Seq(Gets)
      /\ answers \in [Gets -> Seq(Results)] /\ muted \in [Gets -> BOOLEAN]
      /\ asked \subseteq Gets
  BY <1>0 DEF QueueTypes, Answers!AnswerTypeOK, Results
<1>s. UNCHANGED <<asked, answers>> => [Answers!Next]_(Answers!avars)
  <2>1. crossed \in BOOLEAN /\ crossed' \in BOOLEAN
    BY TypesSplit, StepState DEF StateTypes
  <2> QED
    BY <2>1 DEF Answers!avars, Answers!Next, Answers!Recount
<1>u. UNCHANGED <<asked, answers, muted, main, work, listeners>> => OnceInv'
  BY DEF OnceInv
\* Events are raised for listeners.
<1>r. ASSUME UNCHANGED <<asked, answers, muted, work, listeners>>,
             NEW e \in Seq(Event), main' = main \o e,
             SentTo(e) \subseteq Elements(listeners), FailedTo(e) = {}, ErrorsLast(e)
      PROVE  OnceInv'
  <2>1. FailedTo(main) \cap SentTo(e) = {} /\ ErrorsLast(main)
    BY <1>r DEF OnceInv
  <2>2. /\ ErrorsLast(main')
        /\ SentTo(main') = SentTo(main) \cup SentTo(e)
        /\ FailedTo(main') = FailedTo(main)
    <3>1. /\ ErrorsLast(main \o e)
          /\ SentTo(main \o e) = SentTo(main) \cup SentTo(e)
          /\ FailedTo(main \o e) = FailedTo(main) \cup FailedTo(e)
      <4>1. ErrorsLast(e)
        BY <1>r
      <4> QED
        BY <1>a, <2>1, <4>1, ErrorsLastMore
    <3>2. main' = main \o e /\ FailedTo(e) = {}
      BY <1>r
    <3> QED
      BY <3>1, <3>2
  <2> QED
    BY <1>r, <2>2 DEF OnceInv
<1>q. ASSUME UNCHANGED <<asked, answers, muted, work, listeners>>,
             NEW R, NEW result \in {"cache", "server"}, Raise(R, result)
      PROVE  OnceInv'
  <2> DEFINE e == Events(R, result)
  <2>1. /\ e \in Seq(Event)
        /\ \A i \in 1..Len(e) : e[i].get \in Elements(listeners) /\ e[i].result = result
    BY <1>a, EventsToListeners, ItemsAndEvents
  <2>2. main' = main \o e
    BY <1>q DEF Raise
  <2> HIDE DEF e
  <2>3. SentTo(e) \subseteq Elements(listeners) /\ FailedTo(e) = {}
    BY <2>1 DEF SentTo, FailedTo, Elements
  <2>4. ErrorsLast(e)
    BY <2>1 DEF ErrorsLast
  <2> QED
    BY <1>q, <1>r, <2>1, <2>2, <2>3, <2>4
<1>1. CASE \E g \in Gets : GetDocuments(g)
  <2>1. PICK g \in Gets : GetDocuments(g)
    BY <1>1
  <2>2. /\ g \notin asked /\ asked' = asked \cup {g}
        /\ UNCHANGED <<answers, muted, main, listeners>>
    BY <2>1 DEF GetDocuments, sync
  <2>3. PICK x \in Item : x = [op |-> "add", get |-> g]
    BY ItemsAndEvents
  <2>4. work' = Append(work, x) /\ x.op = "add" /\ x.get = g
    BY <2>1, <2>3 DEF GetDocuments
  <2>5. AddsOnce(work) /\ g \notin Adding(work)
    BY <2>2 DEF OnceInv
  <2>6. AddsOnce(work') /\ Adding(work') = Adding(work) \cup {g}
    BY <1>a, <2>4, <2>5, AddsOnceAppend
  <2>7. OnceInv'
    BY <2>2, <2>6 DEF OnceInv
  <2>8. Answers!Next
    <3>1. UNCHANGED crossed
      BY <2>1 DEF GetDocuments, history
    <3> QED
      BY <2>2, <3>1 DEF Answers!Next, Answers!Ask
  <2> QED
    BY <2>7, <2>8
<1>2. CASE DeliverEvent
  <2>1. main # <<>> /\ main' = Tail(main) /\ UNCHANGED <<asked, listeners, crossed>>
    BY <1>2 DEF DeliverEvent, sync, history
  <2> DEFINE g == Head(main).get
             r == Head(main).result
  <2>2. /\ ErrorsLast(main') /\ SentTo(main') \subseteq SentTo(main)
        /\ FailedTo(main') \subseteq FailedTo(main) /\ g \in SentTo(main)
        /\ r = "error" => g \in FailedTo(main) /\ g \notin SentTo(main')
    BY <1>a, <2>1, ErrorsLastTail DEF OnceInv
  <2>3. g \in Gets /\ r \in Results
    BY <1>a, <2>1, HeadAndRest, ItemsAndEvents
  <2>4. \/ muted[g] /\ UNCHANGED <<answers, muted, work>>
        \/ ~muted[g] /\ OnEvent(g, r)
    BY <1>2 DEF DeliverEvent
  <2> HIDE DEF g, r
  <2>5. CASE muted[g] /\ UNCHANGED <<answers, muted, work>>
    BY <1>s, <2>1, <2>2, <2>5 DEF OnceInv
  <2>6. CASE ~muted[g] /\ OnEvent(g, r)
    <3>1. answers[g] = <<>> /\ g \in asked
      BY <2>2, <2>3, <2>6 DEF OnceInv
    <3>2. answers' = [answers EXCEPT ![g] = <<r>>]
      BY <2>6, <3>1 DEF OnEvent
    <3>3. \A h \in Gets : h # g => answers'[h] = answers[h]
      BY <1>a, <3>2
    <3>4. Answers!Next
      BY <2>1, <2>3, <3>1, <3>2 DEF Answers!Next, Answers!Answer, Results
    <3>5. CASE r = "error"
      <4>1. UNCHANGED <<muted, work>>
        BY <2>6, <3>5 DEF OnEvent
      <4>2. g \notin Adding(work) \cup Elements(listeners) \cup SentTo(main')
        BY <2>2, <3>5 DEF OnceInv
      <4>3. OnceInv'
        BY <2>1, <2>2, <3>1, <3>3, <4>1, <4>2 DEF OnceInv
      <4> QED
        BY <3>4, <4>3
    <3>6. CASE r # "error"
      <4>1. PICK x \in Item : x = [op |-> "remove", get |-> g]
        BY <2>3, ItemsAndEvents
      <4>2. muted' = [muted EXCEPT ![g] = TRUE] /\ work' = Append(work, x) /\ x.op # "add"
        BY <2>6, <3>6, <4>1 DEF OnEvent
      <4>3. AddsOnce(work') /\ Adding(work') = Adding(work)
        BY <1>a, <4>2, AddsOnceAppend DEF OnceInv
      <4>4. muted'[g] /\ \A h \in Gets : h # g => muted'[h] = muted[h]
        BY <1>a, <2>3, <4>2
      <4>5. OnceInv'
        BY <2>1, <2>2, <3>1, <3>3, <4>3, <4>4 DEF OnceInv
      <4> QED
        BY <3>4, <4>5
    <3> QED
      BY <3>5, <3>6
  <2> QED
    BY <2>4, <2>5, <2>6
<1>3. CASE AddQueryListener
  <2> DEFINE new == Head(work).get
             snapshot == IF listeners = <<>> THEN "cache" ELSE Snapshot
  <2>1. /\ work # <<>> /\ Head(work).op = "add" /\ work' = Tail(work)
        /\ UNCHANGED <<asked, answers, muted>>
    BY <1>3 DEF AddQueryListener, app
  <2>2. /\ AddsOnce(work') /\ Adding(work') \subseteq Adding(work)
        /\ new \in Adding(work) /\ new \notin Adding(work')
    BY <1>a, <2>1, AddsOnceTail DEF OnceInv
  <2>3. new \in Gets
    BY <1>a, <2>1, HeadAndRest, ItemsAndEvents
  <2>4. snapshot \in {"cache", "server"}
    BY DEF Snapshot
  <2>5. /\ listeners' = Append(listeners, new)
        /\ main' = Append(main, [get |-> new, result |-> snapshot]) \/ main' = main
    BY <1>3 DEF AddQueryListener, NoEvents
  <2> HIDE DEF new, snapshot
  <2>6. new \notin Elements(listeners) \cup SentTo(main) /\ new \in asked
    BY <2>2 DEF OnceInv
  <2>7. Elements(listeners') = Elements(listeners) \cup {new} /\ Distinct(listeners')
    <3>1. Elements(listeners') = Elements(listeners) \cup {new}
      BY <1>a, <2>3, <2>5, Appending
    <3>2. Distinct(listeners) /\ \A i \in 1..Len(listeners) : listeners[i] # new
      BY <2>6 DEF OnceInv, Elements
    <3>3. /\ Len(listeners') = Len(listeners) + 1 /\ Len(listeners) \in Nat
          /\ listeners'[Len(listeners) + 1] = new
          /\ \A i \in 1..Len(listeners) : listeners'[i] = listeners[i]
      BY <1>a, <2>3, <2>5
    <3>4. \A i \in 1..Len(listeners') : i \in 1..Len(listeners) \/ i = Len(listeners) + 1
      BY <3>3
    <3> QED
      BY <3>1, <3>2, <3>3, <3>4 DEF Distinct
  <2>8. /\ ErrorsLast(main') /\ SentTo(main') \subseteq SentTo(main) \cup {new}
        /\ FailedTo(main') = FailedTo(main)
    <3>1. CASE main' = main
      BY <3>1 DEF OnceInv
    <3>2. CASE main' = Append(main, [get |-> new, result |-> snapshot])
      <4>1. PICK x \in Event : x = [get |-> new, result |-> snapshot]
        BY <2>3, <2>4, ItemsAndEvents
      <4>2. x.get = new /\ x.result # "error"
        BY <2>4, <4>1
      <4> DEFINE e == <<x>>
      <4>3. e \in Seq(Event) /\ Len(e) = 1 /\ e[1] = x
        OBVIOUS
      <4>4. main' = main \o e
        BY <1>a, <3>2, <4>1
      <4> HIDE DEF e
      <4>5. Elements(e) = {x}
        BY <4>3 DEF Elements
      <4>6. SentTo(e) = {new} /\ FailedTo(e) = {}
        BY <4>2, <4>5 DEF SentTo, FailedTo
      <4>7. ErrorsLast(e)
        BY <4>3 DEF ErrorsLast
      <4>8. FailedTo(main) \cap SentTo(e) = {}
        BY <2>6, <4>6 DEF FailedTo, SentTo
      <4>9. /\ ErrorsLast(main') /\ SentTo(main') = SentTo(main) \cup SentTo(e)
            /\ FailedTo(main') = FailedTo(main) \cup FailedTo(e)
        BY <1>a, <4>3, <4>4, <4>7, <4>8, ErrorsLastMore DEF OnceInv
      <4> QED
        BY <4>6, <4>9
    <3> QED
      BY <2>5, <3>1, <3>2
  <2>9. FailedTo(main) \subseteq SentTo(main)
    BY DEF FailedTo, SentTo
  <2>10. OnceInv'
    BY <2>1, <2>2, <2>6, <2>7, <2>8, <2>9 DEF OnceInv
  <2> QED
    BY <1>s, <2>1, <2>10
<1>4. CASE RemoveQueryListener
  <2>1. /\ work # <<>> /\ work' = Tail(work) /\ UNCHANGED <<asked, answers, muted, main>>
        /\ \/ listeners' = listeners
           \/ \E i \in DOMAIN listeners : listeners' = RemoveAt(listeners, i)
    BY <1>4 DEF RemoveQueryListener, app
  <2>2. AddsOnce(work') /\ Adding(work') \subseteq Adding(work)
    BY <1>a, <2>1, AddsOnceTail DEF OnceInv
  <2>3. Distinct(listeners') /\ Elements(listeners') \subseteq Elements(listeners)
    BY <1>a, <2>1, Removal DEF OnceInv
  <2>4. OnceInv'
    BY <2>1, <2>2, <2>3 DEF OnceInv
  <2> QED
    BY <1>s, <2>1, <2>4
<1>f. ASSUME BroadcastOffline, UNCHANGED <<app, work, listeners>>
      PROVE  OnceInv'
  <2>1. UNCHANGED <<asked, answers, muted, work, listeners>>
    BY <1>f DEF app
  <2>2. UNCHANGED main \/ \E R : Raise(R, "cache")
    BY <1>f DEF BroadcastOffline, NoEvents
  <2> QED
    BY <1>q, <1>u, <2>1, <2>2
<1>5. CASE StreamStep
  <2>1. UNCHANGED <<app, work, listeners>> /\ (UNCHANGED main \/ BroadcastOffline)
    BY <1>5 DEF StreamStep, StreamOpens, BackoffEnds, IdleTimerFires, StreamFails,
       OnlineTimerFires, sync, NoEvents
  <2>2. OnceInv'
    BY <1>f, <1>u, <2>1 DEF app
  <2> QED
    BY <1>s, <2>1, <2>2 DEF app
<1>6. CASE ServerSpeaks \/ ServerAdds \/ ServerRemoves \/ ServerCurrent \/ ServerResets
  <2>1. UNCHANGED <<app, work, main, listeners>>
    BY <1>6 DEF ServerSpeaks, ServerAdds, ServerRemoves, ServerCurrent, ServerResets,
       TargetMessage, Message
  <2> QED
    BY <1>s, <1>u, <2>1 DEF app
<1>7. CASE ServerSnapshot \/ ServerRejectsLookup
  <2>1. UNCHANGED <<asked, answers, muted, work, listeners>>
    BY <1>7, EventsOfServer DEF Message, app
  <2>2. PICK change, docs \in BOOLEAN : ApplyRemoteEvent(change, docs)
    BY <1>7, EventsOfServer
  <2>3. UNCHANGED main \/ \E result \in {"cache", "server"} : \E R : Raise(R, result)
    <3>1. limbo \in BOOLEAN
      BY DEF TypeOK
    <3> QED
      BY <2>2, <3>1, EventApplied
  <2>4. OnceInv'
    BY <1>q, <1>u, <2>1, <2>3
  <2> QED
    BY <1>s, <2>1, <2>4
<1>8. CASE ServerRejects
  <2>1. UNCHANGED <<asked, answers, muted, work>> /\ RejectTarget
    BY <1>8 DEF ServerRejects, Message, app
  <2> DEFINE e == [i \in DOMAIN listeners |-> [get |-> listeners[i], result |-> "error"]]
  <2>2. UNCHANGED <<main, listeners>> \/ (main' = main \o e /\ listeners' = <<>>)
    <3>1. CASE target
      BY <2>1, <3>1 DEF RejectTarget
    <3>2. CASE ~target
      BY <2>1, <3>2 DEF RejectTarget
    <3> QED
      BY <3>1, <3>2
  <2>3. /\ e \in Seq(Event) /\ Len(e) = Len(listeners)
        /\ \A i \in 1..Len(e) : e[i].get = listeners[i] /\ e[i].result = "error"
    <3>1. \A i \in 1..Len(listeners) :
            e[i] \in Event /\ e[i].get = listeners[i] /\ e[i].result = "error"
      BY <1>a, ItemsAndEvents
    <3>2. e = [i \in 1..Len(listeners) |-> e[i]] /\ Len(listeners) \in Nat
      BY <1>a
    <3> HIDE DEF e
    <3> QED
      BY <3>1, <3>2
  <2> HIDE DEF e
  <2>4. CASE main' = main \o e /\ listeners' = <<>>
    <3>1. SentTo(e) = Elements(listeners) /\ FailedTo(e) \subseteq SentTo(e)
      BY <2>3 DEF SentTo, FailedTo, Elements
    <3>2. ErrorsLast(e)
      BY <2>3 DEF ErrorsLast, OnceInv, Distinct
    <3>3. /\ ErrorsLast(main')
          /\ SentTo(main') = SentTo(main) \cup SentTo(e)
      BY <1>a, <2>3, <2>4, <3>1, <3>2, ErrorsLastMore DEF OnceInv
    <3>4. Elements(listeners') = {} /\ Distinct(listeners')
      BY <2>4 DEF Elements, Distinct
    <3> QED
      BY <1>s, <2>1, <3>1, <3>3, <3>4 DEF OnceInv
  <2> QED
    BY <1>s, <1>u, <2>1, <2>2, <2>4
<1>9. CASE UNCHANGED vars
  BY <1>9, <1>s, <1>u DEF vars, app, sync
<1> QED
  BY <1>1, <1>2, <1>3, <1>4, <1>5, <1>6, <1>7, <1>8, <1>9 DEF Next, ServerStep

\* The safety of the refinement that ImplementsOneAnswer checks: seen from the app,
\* the whole client only takes calls and answers each at most once, for any number
\* of overlapping calls and whatever the server and the connection do.
THEOREM AnsweredAtMostOnce == Spec => Answers!Init /\ [][Answers!Next]_(Answers!avars)
<1>1. Init => OnceInv /\ Answers!Init
  BY InitOnce DEF Init
<1>2. ClientInv => TypeOK /\ AssertionsHold
  BY DEF ClientInv
<1> QED
  BY <1>1, <1>2, StepOnce, InvCorrect, PTL DEF Spec

-----------------------------------------------------------------------------
(* No get is lost, and no listener is left behind.                          *)

\* Whom a queue of blocks is to stop listening for.
Removing(q) == {x.get : x \in {y \in Elements(q) : y.op = "remove"}}

\* A get without an answer is to be listened for, or listens and waits, or has an
\* event on its way.
Owed(g) == \/ g \in Adding(work) \/ g \in SentTo(main)
           \/ g \in Elements(listeners) /\ ~raised[g]
\* A listener that has had a snapshot is to be removed, or its get is to be told.
Released(g) == g \in Removing(work) \/ (answers[g] = <<>> /\ g \in SentTo(main))

\* A get that has had a snapshot, or an answer, listens no more for its first; only
\* a snapshot mutes it, which is its answer, and only an answer has it removed.
OwedInv ==
  /\ \A g \in asked : answers[g] = <<>> => Owed(g)
  /\ \A g \in Elements(listeners) : raised[g] => Released(g)
  /\ \A g \in Gets : raised[g] \/ answers[g] # <<>> => g \in asked /\ g \notin Adding(work)
  /\ \A g \in Gets : muted[g] => raised[g] /\ answers[g] # <<>>
  /\ \A g \in Removing(work) : answers[g] # <<>>
  /\ \A e \in Elements(main) : e.result = "error" \/ raised[e.get]

\* The parts of OwedInv are CallsAccounted's.
LEMMA OwedIsAccounted ==
  ASSUME TypeOK, OwedInv
  PROVE  CallsAccounted
<1>a. work \in Seq(Item) /\ main \in Seq(Event) /\ listeners \in Seq(Gets) /\ asked \subseteq Gets
  BY TypesSplit DEF QueueTypes, Answers!AnswerTypeOK
<1>1. /\ ToSet(work) = Elements(work) /\ ToSet(main) = Elements(main)
      /\ ToSet(listeners) = Elements(listeners)
  BY <1>a DEF ToSet, Elements
<1>2. Elements(work) \subseteq Item
  BY <1>a DEF Elements
<1>3. ASSUME NEW g, g \in Adding(work) PROVE [op |-> "add", get |-> g] \in ToSet(work)
  <2>1. PICK x \in Elements(work) : x.op = "add" /\ x.get = g
    BY <1>3 DEF Adding
  <2>2. x = [op |-> "add", get |-> g]
    BY <1>2, <2>1 DEF Item
  <2> QED
    BY <1>1, <2>1, <2>2
<1>4. ASSUME NEW g, g \in Removing(work) PROVE [op |-> "remove", get |-> g] \in ToSet(work)
  <2>1. PICK x \in Elements(work) : x.op = "remove" /\ x.get = g
    BY <1>4 DEF Removing
  <2>2. x = [op |-> "remove", get |-> g]
    BY <1>2, <2>1 DEF Item
  <2> QED
    BY <1>1, <2>1, <2>2
<1>5. \A g \in SentTo(main) : \E e \in ToSet(main) : e.get = g
  BY <1>1 DEF SentTo
<1>6. ASSUME NEW g \in asked, answers[g] = <<>>
      PROVE  \/ [op |-> "add", get |-> g] \in ToSet(work)
             \/ g \in ToSet(listeners) /\ ~raised[g]
             \/ ~muted[g] /\ \E e \in ToSet(main) : e.get = g
  <2>1. Owed(g) /\ ~muted[g]
    BY <1>6, <1>a DEF OwedInv
  <2> QED
    BY <1>1, <1>3, <1>5, <2>1 DEF Owed
<1>7. ASSUME NEW g \in ToSet(listeners), raised[g]
      PROVE  \/ [op |-> "remove", get |-> g] \in ToSet(work)
             \/ answers[g] = <<>> /\ \E e \in ToSet(main) : e.get = g
  <2>1. Released(g)
    BY <1>1, <1>7 DEF OwedInv
  <2> QED
    BY <1>4, <1>5, <2>1 DEF Released
<1> QED
  BY <1>6, <1>7 DEF CallsAccounted

\* The client starts without gets.
LEMMA InitOwed == Init => OwedInv
<1> SUFFICES ASSUME Init PROVE OwedInv
  OBVIOUS
<1>1. work = <<>> /\ main = <<>> /\ listeners = <<>> /\ asked = {}
  BY DEF Init, Answers!Init
<1>2. \A g \in Gets : ~raised[g] /\ ~muted[g] /\ answers[g] = <<>>
  BY DEF Init, Answers!Init
<1>3. Elements(<<>>) = {} /\ Removing(<<>>) = {} /\ Adding(<<>>) = {}
  BY DEF Elements, Removing, Adding
<1> QED
  BY <1>1, <1>2, <1>3 DEF OwedInv

\* Appending a block, and running the first.
LEMMA BlockAppended ==
  ASSUME NEW q \in Seq(Item), NEW g \in Gets
  PROVE  /\ Adding(Append(q, [op |-> "add", get |-> g])) = Adding(q) \cup {g}
         /\ Removing(Append(q, [op |-> "add", get |-> g])) = Removing(q)
         /\ Adding(Append(q, [op |-> "remove", get |-> g])) = Adding(q)
         /\ Removing(Append(q, [op |-> "remove", get |-> g])) = Removing(q) \cup {g}
<1>1. ASSUME NEW x \in Item, x = [op |-> "add", get |-> g]
      PROVE  Adding(Append(q, x)) = Adding(q) \cup {g} /\ Removing(Append(q, x)) = Removing(q)
  <2>1. Elements(Append(q, x)) = Elements(q) \cup {x} /\ x.op = "add" /\ x.get = g
    BY <1>1, Appending
  <2> QED
    BY <2>1 DEF Adding, Removing
<1>2. ASSUME NEW x \in Item, x = [op |-> "remove", get |-> g]
      PROVE  Adding(Append(q, x)) = Adding(q) /\ Removing(Append(q, x)) = Removing(q) \cup {g}
  <2>1. Elements(Append(q, x)) = Elements(q) \cup {x} /\ x.op = "remove" /\ x.get = g
    BY <1>2, Appending
  <2> QED
    BY <2>1 DEF Adding, Removing
<1>3. [op |-> "add", get |-> g] \in Item /\ [op |-> "remove", get |-> g] \in Item
  BY ItemsAndEvents
<1> QED
  BY <1>1, <1>2, <1>3

LEMMA BlockRun ==
  ASSUME NEW q \in Seq(Item), q # <<>>
  PROVE  /\ Head(q).op = "add" => /\ Adding(q) = Adding(Tail(q)) \cup {Head(q).get}
                                  /\ Removing(q) = Removing(Tail(q))
         /\ Head(q).op = "remove" => /\ Adding(q) = Adding(Tail(q))
                                     /\ Removing(q) = Removing(Tail(q)) \cup {Head(q).get}
<1> DEFINE h == Head(q)
           t == Tail(q)
<1>1. Elements(q) = {h} \cup Elements(t)
  BY TailKeeps
<1> HIDE DEF h, t
<1>2. ASSUME h.op = "add" PROVE Adding(q) = Adding(t) \cup {h.get} /\ Removing(q) = Removing(t)
  BY <1>1, <1>2 DEF Adding, Removing
<1>3. ASSUME h.op = "remove" PROVE Adding(q) = Adding(t) /\ Removing(q) = Removing(t) \cup {h.get}
  BY <1>1, <1>3 DEF Adding, Removing
<1> QED
  BY <1>2, <1>3 DEF h, t

\* Every listener of R is sent an event.
LEMMA EventsReach ==
  ASSUME listeners \in Seq(Gets), NEW R, NEW result \in Results
  PROVE  SentTo(Events(R, result)) = Elements(listeners) \cap R
<1> DEFINE to == Selected(listeners, R)
<1>1. to \in Seq(Gets) /\ Elements(to) = Elements(listeners) \cap R
  BY SelectedProperties
<1> HIDE DEF to
<1> DEFINE e == [i \in 1..Len(to) |-> [get |-> to[i], result |-> result]]
<1>2. Len(e) = Len(to) /\ \A i \in 1..Len(to) : e[i].get = to[i]
  BY <1>1
<1>3. Events(R, result) = e
  BY <1>1 DEF Events, to
<1> HIDE DEF e
<1>4. SentTo(e) = Elements(to)
  BY <1>2 DEF SentTo, Elements
<1> QED
  BY <1>1, <1>3, <1>4

\* Each step preserves OwedInv.
LEMMA StepOwed == TypeOK /\ AssertionsHold /\ OnceInv /\ OwedInv /\ [Next]_vars => OwedInv'
<1> SUFFICES ASSUME TypeOK, AssertionsHold, OnceInv, OwedInv, [Next]_vars PROVE OwedInv'
  OBVIOUS
<1>a. /\ work \in Seq(Item) /\ main \in Seq(Event) /\ listeners \in Seq(Gets)
      /\ answers \in [Gets -> Seq(Results)]
      /\ muted \in [Gets -> BOOLEAN] /\ raised \in [Gets -> BOOLEAN]
      /\ asked \subseteq Gets /\ Elements(listeners) \subseteq Gets
  BY TypesSplit DEF QueueTypes, Answers!AnswerTypeOK, Results, Elements
<1>b. /\ \A g \in asked : answers[g] = <<>> => Owed(g)
      /\ \A g \in Elements(listeners) : raised[g] => Released(g)
      /\ \A g \in Gets : raised[g] \/ answers[g] # <<>> => g \in asked /\ g \notin Adding(work)
      /\ \A g \in Gets : muted[g] => raised[g] /\ answers[g] # <<>>
      /\ \A g \in Removing(work) : answers[g] # <<>>
      /\ \A e \in Elements(main) : e.result = "error" \/ raised[e.get]
  BY DEF OwedInv
<1>c. /\ Adding(work) \cup Elements(listeners) \cup SentTo(main) \subseteq asked
      /\ Adding(work) \cap (Elements(listeners) \cup SentTo(main)) = {}
      /\ Elements(listeners) \cap FailedTo(main) = {}
      /\ Distinct(listeners)
      /\ \A g \in Gets : answers[g] # <<>> /\ ~muted[g] => g \notin Elements(listeners)
  BY DEF OnceInv
<1>u. UNCHANGED <<asked, answers, muted, main, raised, work, listeners>> => OwedInv'
  BY <1>b DEF OwedInv, Owed, Released
\* A listener that waits has no answer yet.
<1>w. \A g \in Elements(listeners) : ~raised[g] => answers[g] = <<>>
  BY <1>a, <1>b, <1>c
\* Listeners are sent a snapshot, those who waited for their first among them.
<1>r. ASSUME UNCHANGED <<asked, answers, muted, work, listeners>>,
             NEW result \in {"cache", "server"}, NEW R, Raise(R, result)
      PROVE  OwedInv'
  <2> DEFINE e == Events(R, result)
  <2>1. /\ e \in Seq(Event)
        /\ \A i \in 1..Len(e) : e[i].get \in Elements(listeners) /\ e[i].result = result
    BY <1>a, EventsToListeners, ItemsAndEvents
  <2>2. SentTo(e) = Elements(listeners) \cap R
    BY <1>a, EventsReach, ItemsAndEvents
  <2>3. main' = main \o e
    BY <1>r DEF Raise
  <2>4. \A g \in Gets : raised'[g] <=> raised[g] \/ g \in R \cap Elements(listeners)
    <3>1. raised' = [g \in Gets |-> raised[g] \/ g \in R \cap ToSet(listeners)]
      BY <1>r DEF Raise
    <3>2. ToSet(listeners) = Elements(listeners)
      BY <1>a DEF ToSet, Elements
    <3> QED
      BY <3>1, <3>2
  <2> HIDE DEF e
  <2>5. Elements(main') = Elements(main) \cup Elements(e)
    BY <1>a, <2>1, <2>3, Concatenating
  <2>6. SentTo(main') = SentTo(main) \cup (Elements(listeners) \cap R)
    BY <2>2, <2>5 DEF SentTo
  <2>7. ASSUME NEW g \in asked', answers'[g] = <<>> PROVE Owed(g)'
    <3>1. Owed(g) /\ g \in Gets
      BY <1>a, <1>b, <1>r, <2>7
    <3> QED
      BY <1>r, <2>4, <2>6, <3>1 DEF Owed
  <2>8. ASSUME NEW g \in Elements(listeners'), raised'[g] PROVE Released(g)'
    <3>1. g \in Elements(listeners) /\ g \in Gets
      BY <1>a, <1>r, <2>8
    <3>2. CASE raised[g]
      BY <1>b, <1>r, <2>6, <3>1, <3>2 DEF Released
    <3>3. CASE ~raised[g]
      BY <1>r, <1>w, <2>4, <2>6, <2>8, <3>1, <3>3 DEF Released
    <3> QED
      BY <3>2, <3>3
  <2>9. ASSUME NEW x \in Elements(main') PROVE x.result = "error" \/ raised'[x.get]
    <3>1. CASE x \in Elements(main)
      <4>1. x.get \in Gets
        BY <1>a, <3>1, ItemsAndEvents DEF Elements
      <4> QED
        BY <1>b, <2>4, <3>1, <4>1
    <3>2. CASE x \in Elements(e)
      <4>1. x.get \in Elements(listeners) \cap R
        BY <2>2, <3>2 DEF SentTo
      <4> QED
        BY <1>a, <2>4, <4>1
    <3> QED
      BY <2>5, <2>9, <3>1, <3>2
  <2>10. ASSUME NEW g \in Gets, raised'[g] \/ answers'[g] # <<>>
         PROVE  g \in asked' /\ g \notin Adding(work')
    BY <1>b, <1>c, <1>r, <2>4, <2>10
  <2>11. ASSUME NEW g \in Gets, muted'[g] PROVE raised'[g] /\ answers'[g] # <<>>
    BY <1>b, <1>r, <2>4, <2>11
  <2>12. \A g \in Removing(work') : answers'[g] # <<>>
    BY <1>b, <1>r
  <2> QED
    BY <2>7, <2>8, <2>9, <2>10, <2>11, <2>12 DEF OwedInv
<1>1. CASE \E g \in Gets : GetDocuments(g)
  <2>1. PICK g \in Gets : GetDocuments(g)
    BY <1>1
  <2>2. /\ g \notin asked /\ asked' = asked \cup {g}
        /\ work' = Append(work, [op |-> "add", get |-> g])
        /\ UNCHANGED <<answers, muted, main, raised, listeners>>
    BY <2>1 DEF GetDocuments, sync
  <2>3. Adding(work') = Adding(work) \cup {g} /\ Removing(work') = Removing(work)
    <3>1. work' = Append(work, [op |-> "add", get |-> g])
      BY <2>2
    <3> QED
      BY <1>a, <3>1, BlockAppended
  <2>4. ASSUME NEW h \in asked', answers'[h] = <<>> PROVE Owed(h)'
    <3>1. h = g \/ Owed(h)
      BY <1>b, <2>2, <2>4
    <3>2. UNCHANGED <<main, raised, listeners>>
      BY <2>2
    <3>3. CASE h = g
      BY <2>3, <3>3 DEF Owed
    <3>4. CASE Owed(h)
      BY <2>3, <3>2, <3>4 DEF Owed
    <3> QED
      BY <3>1, <3>3, <3>4
  <2>5. ASSUME NEW h \in Elements(listeners'), raised'[h] PROVE Released(h)'
    <3>1. Released(h)
      BY <1>b, <2>2, <2>5
    <3> QED
      BY <2>2, <2>3, <3>1 DEF Released
  <2>6. \A h \in Gets : raised[h] \/ answers[h] # <<>> => h \in asked' /\ h \notin Adding(work')
    <3>1. ~raised[g] /\ answers[g] = <<>>
      BY <1>b, <2>2
    <3> QED
      BY <1>b, <2>2, <2>3, <3>1
  <2> QED
    BY <1>b, <2>2, <2>3, <2>4, <2>5, <2>6 DEF OwedInv
<1>2. CASE DeliverEvent
  <2>1. main # <<>> /\ main' = Tail(main) /\ UNCHANGED <<asked, raised, listeners>>
    BY <1>2 DEF DeliverEvent, sync
  <2> DEFINE g == Head(main).get
             r == Head(main).result
  <2>2. g \in Gets /\ r \in Results /\ Head(main) \in Elements(main)
    BY <1>a, <2>1, HeadAndRest, ItemsAndEvents
  <2>3. /\ Elements(main) = {Head(main)} \cup Elements(main')
        /\ SentTo(main) = {g} \cup SentTo(main')
    <3>1. Elements(main) = {Head(main)} \cup Elements(main')
      BY <1>a, <2>1, TailKeeps
    <3> QED
      BY <3>1 DEF SentTo
  <2>4. \/ muted[g] /\ UNCHANGED <<answers, muted, work>>
        \/ ~muted[g] /\ OnEvent(g, r)
    BY <1>2 DEF DeliverEvent
  <2>5. /\ g \in SentTo(main) /\ (r = "error" => g \in FailedTo(main))
        /\ r = "error" \/ raised[g]
    BY <1>b, <2>2, <2>3 DEF FailedTo
  <2> HIDE DEF g, r
  <2>6. CASE muted[g] /\ UNCHANGED <<answers, muted, work>>
    <3>1. answers[g] # <<>>
      BY <1>b, <2>2, <2>6
    <3>2. \A h \in asked : answers[h] = <<>> => Owed(h)'
      BY <1>b, <2>1, <2>3, <2>6, <3>1 DEF Owed
    <3>3. \A h \in Elements(listeners) : raised[h] => Released(h)'
      BY <1>b, <2>1, <2>3, <2>6, <3>1 DEF Released
    <3> QED
      BY <1>b, <2>1, <2>3, <2>6, <3>2, <3>3 DEF OwedInv
  <2>7. CASE ~muted[g] /\ OnEvent(g, r)
    <3>1. answers' = [answers EXCEPT ![g] = Append(@, r)]
      BY <2>7 DEF OnEvent
    <3>2. answers'[g] # <<>> /\ \A h \in Gets : h # g => answers'[h] = answers[h]
      <4>1. answers[g] \in Seq(Results)
        BY <1>a, <2>2
      <4>2. Append(answers[g], r) # <<>>
        BY <2>2, <4>1, Appending
      <4> QED
        BY <1>a, <2>2, <3>1, <4>2
    <3>3. g \in asked /\ g \notin Adding(work)
      BY <1>c, <2>5
    <3>4. /\ Adding(work') = Adding(work) /\ Removing(work) \subseteq Removing(work')
          /\ Removing(work') \subseteq Removing(work) \cup {g}
          /\ g \in Elements(listeners) => g \in Removing(work')
          /\ \A h \in Gets : muted'[h] => muted[h] \/ (h = g /\ raised[g])
      <4>1. CASE r = "error"
        <5>1. UNCHANGED <<muted, work>>
          BY <2>7, <4>1 DEF OnEvent
        <5>2. g \notin Elements(listeners)
          BY <1>c, <2>5, <4>1
        <5> QED
          BY <5>1, <5>2
      <4>2. CASE r # "error"
        <5>1. /\ muted' = [muted EXCEPT ![g] = TRUE]
              /\ work' = Append(work, [op |-> "remove", get |-> g])
          BY <2>7, <4>2 DEF OnEvent
        <5>2. Adding(work') = Adding(work) /\ Removing(work') = Removing(work) \cup {g}
          BY <1>a, <2>2, <5>1, BlockAppended
        <5> QED
          BY <1>a, <2>2, <2>5, <4>2, <5>1, <5>2
      <4> QED
        BY <4>1, <4>2
    <3>5. \A h \in asked : answers'[h] = <<>> => Owed(h)'
      <4> SUFFICES ASSUME NEW h \in asked, answers'[h] = <<>> PROVE Owed(h)'
        OBVIOUS
      <4>1. h # g /\ h \in Gets /\ answers[h] = <<>>
        BY <1>a, <3>2
      <4>2. Owed(h)
        BY <1>b, <4>1
      <4> QED
        BY <2>1, <2>3, <3>4, <4>1, <4>2 DEF Owed
    <3>6. \A h \in Elements(listeners) : raised[h] => Released(h)'
      <4> SUFFICES ASSUME NEW h \in Elements(listeners), raised[h] PROVE Released(h)'
        OBVIOUS
      <4>1. CASE h = g
        BY <3>4, <4>1 DEF Released
      <4>2. CASE h # g
        <5>1. Released(h) /\ answers'[h] = answers[h]
          BY <1>a, <1>b, <3>2, <4>2
        <5> QED
          BY <2>3, <3>4, <4>2, <5>1 DEF Released
      <4> QED
        BY <4>1, <4>2
    <3>7. \A h \in Gets : raised[h] \/ answers'[h] # <<>> => h \in asked /\ h \notin Adding(work)
      BY <1>b, <3>2, <3>3
    <3>8. \A h \in Gets : muted'[h] => raised[h] /\ answers'[h] # <<>>
      BY <1>b, <3>2, <3>4
    <3>9. \A h \in Removing(work') : answers'[h] # <<>>
      <4> SUFFICES ASSUME NEW h \in Removing(work), h # g PROVE answers'[h] # <<>>
        BY <3>2, <3>4
      <4>1. h \in Gets
        BY <1>a, ItemsAndEvents DEF Removing, Elements
      <4> QED
        BY <1>b, <3>2, <4>1
    <3>10. \A x \in Elements(main') : x.result = "error" \/ raised[x.get]
      BY <1>b, <2>3
    <3> QED
      BY <2>1, <3>4, <3>5, <3>6, <3>7, <3>8, <3>9, <3>10 DEF OwedInv
  <2> QED
    BY <2>4, <2>6, <2>7
<1>3. CASE AddQueryListener
  <2> DEFINE new == Head(work).get
             snapshot == IF listeners = <<>> THEN "cache" ELSE Snapshot
  <2>1. /\ work # <<>> /\ Head(work).op = "add" /\ work' = Tail(work)
        /\ UNCHANGED <<asked, answers, muted>>
    BY <1>3 DEF AddQueryListener, app
  <2>2. /\ Adding(work) = Adding(work') \cup {new} /\ Removing(work') = Removing(work)
        /\ new \notin Adding(work')
    BY <1>a, <2>1, BlockRun, AddsOnceTail DEF OnceInv
  <2>3. new \in Gets
    BY <1>a, <2>1, HeadAndRest, ItemsAndEvents
  <2>4. snapshot \in {"cache", "server"}
    BY DEF Snapshot
  <2>5. /\ listeners' = Append(listeners, new)
        /\ \/ /\ main' = Append(main, [get |-> new, result |-> snapshot])
              /\ raised' = [raised EXCEPT ![new] = TRUE]
           \/ UNCHANGED <<main, raised>>
    BY <1>3 DEF AddQueryListener, NoEvents
  <2> HIDE DEF new, snapshot
  <2>6. /\ new \in asked /\ new \notin Elements(listeners) \cup SentTo(main)
        /\ ~raised[new] /\ answers[new] = <<>>
    BY <1>b, <1>c, <2>2, <2>3
  <2>7. Elements(listeners') = Elements(listeners) \cup {new}
    BY <1>a, <2>3, <2>5, Appending
  <2>8. /\ \A g \in Gets : g # new => raised'[g] = raised[g]
        /\ SentTo(main) \subseteq SentTo(main')
        /\ raised'[new] => new \in SentTo(main')
        /\ \A x \in Elements(main') : x.result = "error" \/ raised'[x.get]
    <3>1. CASE UNCHANGED <<main, raised>>
      BY <1>b, <2>6, <3>1
    <3>2. CASE /\ main' = Append(main, [get |-> new, result |-> snapshot])
               /\ raised' = [raised EXCEPT ![new] = TRUE]
      <4>1. PICK x \in Event : x = [get |-> new, result |-> snapshot]
        BY <2>3, <2>4, ItemsAndEvents
      <4>2. Elements(main') = Elements(main) \cup {x} /\ x.get = new
        BY <1>a, <3>2, <4>1, Appending
      <4>3. raised'[new] /\ \A g \in Gets : g # new => raised'[g] = raised[g]
        BY <1>a, <2>3, <3>2
      <4>4. \A y \in Elements(main) : y.get \in Gets
        BY <1>a, ItemsAndEvents DEF Elements
      <4> QED
        BY <1>b, <4>2, <4>3, <4>4 DEF SentTo
    <3> QED
      BY <2>5, <3>1, <3>2
  <2>9. ASSUME NEW g \in asked, answers[g] = <<>> PROVE Owed(g)'
    <3>1. CASE g = new
      BY <2>7, <2>8, <3>1 DEF Owed
    <3>2. CASE g # new
      <4>1. Owed(g) /\ g \in Gets
        BY <1>a, <1>b, <2>9
      <4> QED
        BY <2>2, <2>7, <2>8, <3>2, <4>1 DEF Owed
    <3> QED
      BY <3>1, <3>2
  <2>10. ASSUME NEW g \in Elements(listeners'), raised'[g] PROVE Released(g)'
    <3>1. CASE g = new
      BY <2>1, <2>6, <2>8, <2>10, <3>1 DEF Released
    <3>2. CASE g # new
      <4>1. g \in Elements(listeners) /\ g \in Gets /\ raised[g]
        BY <1>a, <2>7, <2>8, <2>10, <3>2
      <4> QED
        BY <1>b, <2>1, <2>2, <2>8, <4>1 DEF Released
    <3> QED
      BY <3>1, <3>2
  <2>11. \A g \in Gets : raised'[g] \/ answers[g] # <<>> => g \in asked /\ g \notin Adding(work')
    BY <1>b, <2>2, <2>6, <2>8
  <2>12. \A g \in Gets : muted[g] => raised'[g] /\ answers[g] # <<>>
    BY <1>b, <2>6, <2>8
  <2> QED
    BY <1>b, <2>1, <2>2, <2>8, <2>9, <2>10, <2>11, <2>12 DEF OwedInv
<1>4. CASE RemoveQueryListener
  <2> DEFINE g == Head(work).get
  <2>1. /\ work # <<>> /\ Head(work).op = "remove" /\ work' = Tail(work)
        /\ UNCHANGED <<asked, answers, muted, main, raised>>
        /\ \/ g \notin Elements(listeners) /\ listeners' = listeners
           \/ \E i \in DOMAIN listeners : listeners[i] = g /\ listeners' = RemoveAt(listeners, i)
    <3>1. ToSet(listeners) = Elements(listeners)
      BY <1>a DEF ToSet, Elements
    <3> QED
      BY <1>4, <3>1 DEF RemoveQueryListener, app
  <2>2. Adding(work') = Adding(work) /\ Removing(work) = Removing(work') \cup {g}
    BY <1>a, <2>1, BlockRun
  <2> HIDE DEF g
  <2>3. Elements(listeners') = Elements(listeners) \ {g}
    <3>1. CASE g \notin Elements(listeners) /\ listeners' = listeners
      BY <3>1
    <3>2. CASE \E i \in DOMAIN listeners : listeners[i] = g /\ listeners' = RemoveAt(listeners, i)
      <4>1. PICK i \in DOMAIN listeners : listeners[i] = g /\ listeners' = RemoveAt(listeners, i)
        BY <3>2
      <4>2. Elements(listeners') \subseteq Elements(listeners) /\ g \notin Elements(listeners')
        BY <1>a, <1>c, <4>1, Removal
      <4>3. \A x \in Elements(listeners) : x # g => x \in Elements(listeners')
        BY <1>a, <4>1, RemovalKeeps
      <4> QED
        BY <4>2, <4>3
    <3> QED
      BY <2>1, <3>1, <3>2
  <2>4. answers[g] # <<>>
    BY <1>b, <2>2
  <2>5. ASSUME NEW h \in asked, answers[h] = <<>> PROVE Owed(h)'
    <3>1. Owed(h) /\ h # g
      BY <1>b, <2>4, <2>5
    <3> QED
      BY <2>1, <2>2, <2>3, <3>1 DEF Owed
  <2>6. ASSUME NEW h \in Elements(listeners'), raised[h] PROVE Released(h)'
    <3>1. Released(h) /\ h # g
      BY <1>b, <2>3, <2>6
    <3> QED
      BY <2>1, <2>2, <3>1 DEF Released
  <2> QED
    BY <1>b, <2>1, <2>2, <2>5, <2>6 DEF OwedInv
<1>f. ASSUME BroadcastOffline, UNCHANGED <<app, work, listeners>>
      PROVE  OwedInv'
  <2>1. UNCHANGED <<asked, answers, muted, work, listeners>>
    BY <1>f DEF app
  <2>2. UNCHANGED <<main, raised>> \/ \E R : Raise(R, "cache")
    BY <1>f DEF BroadcastOffline, NoEvents
  <2> QED
    BY <1>r, <1>u, <2>1, <2>2
<1>5. CASE StreamStep
  <2>1. UNCHANGED <<app, work, listeners>> /\ (UNCHANGED <<main, raised>> \/ BroadcastOffline)
    BY <1>5 DEF StreamStep, StreamOpens, BackoffEnds, IdleTimerFires, StreamFails,
       OnlineTimerFires, sync, NoEvents
  <2> QED
    BY <1>f, <1>u, <2>1 DEF app
<1>6. CASE ServerSpeaks \/ ServerAdds \/ ServerRemoves \/ ServerCurrent \/ ServerResets
  <2>1. UNCHANGED <<app, work, main, raised, listeners>>
    BY <1>6 DEF ServerSpeaks, ServerAdds, ServerRemoves, ServerCurrent, ServerResets,
       TargetMessage, Message
  <2> QED
    BY <1>u, <2>1 DEF app
<1>7. CASE ServerSnapshot \/ ServerRejectsLookup
  <2>1. UNCHANGED <<asked, answers, muted, work, listeners>>
    BY <1>7, EventsOfServer DEF Message, app
  <2>2. PICK change, docs \in BOOLEAN : ApplyRemoteEvent(change, docs)
    BY <1>7, EventsOfServer
  <2>3. UNCHANGED <<main, raised>> \/ \E result \in {"cache", "server"} : \E R : Raise(R, result)
    <3>1. limbo \in BOOLEAN
      BY DEF TypeOK
    <3> QED
      BY <2>2, <3>1, EventApplied
  <2> QED
    BY <1>r, <1>u, <2>1, <2>3
<1>8. CASE ServerRejects
  <2>1. UNCHANGED <<asked, answers, muted, work, raised>> /\ RejectTarget
    BY <1>8 DEF ServerRejects, Message, app
  <2> DEFINE e == [i \in DOMAIN listeners |-> [get |-> listeners[i], result |-> "error"]]
  <2>2. UNCHANGED <<main, listeners>> \/ (main' = main \o e /\ listeners' = <<>>)
    BY <2>1 DEF RejectTarget
  <2>3. /\ e \in Seq(Event) /\ Len(e) = Len(listeners)
        /\ \A i \in 1..Len(e) : e[i].get = listeners[i] /\ e[i].result = "error"
    <3>1. \A i \in 1..Len(listeners) :
            e[i] \in Event /\ e[i].get = listeners[i] /\ e[i].result = "error"
      BY <1>a, ItemsAndEvents
    <3>2. e = [i \in 1..Len(listeners) |-> e[i]] /\ Len(listeners) \in Nat
      BY <1>a
    <3> HIDE DEF e
    <3> QED
      BY <3>1, <3>2
  <2> HIDE DEF e
  <2>4. CASE main' = main \o e /\ listeners' = <<>>
    <3>1. SentTo(e) = Elements(listeners) /\ \A x \in Elements(e) : x.result = "error"
      BY <2>3 DEF SentTo, Elements
    <3>2. Elements(main') = Elements(main) \cup Elements(e)
      BY <1>a, <2>3, <2>4, Concatenating
    <3>3. SentTo(main') = SentTo(main) \cup Elements(listeners)
      BY <3>1, <3>2 DEF SentTo
    <3>4. Elements(listeners') = {}
      BY <2>4 DEF Elements
    <3>5. ASSUME NEW g \in asked, answers[g] = <<>> PROVE Owed(g)'
      <4>1. Owed(g)
        BY <1>b, <3>5
      <4> QED
        BY <2>1, <3>3, <4>1 DEF Owed
    <3> QED
      BY <1>b, <2>1, <3>1, <3>2, <3>4, <3>5 DEF OwedInv
  <2> QED
    BY <1>u, <2>1, <2>2, <2>4
<1>9. CASE UNCHANGED vars
  BY <1>9, <1>u DEF vars, app, sync
<1> QED
  BY <1>1, <1>2, <1>3, <1>4, <1>5, <1>6, <1>7, <1>8, <1>9 DEF Next, ServerStep

\* No get is lost between the queues and no listener is left behind, for any number
\* of overlapping gets and whatever the server and the connection do.
THEOREM CallsCorrect == Spec => []CallsAccounted
<1>1. Init => OnceInv /\ OwedInv
  BY InitOnce, InitOwed
<1>2. ClientInv => TypeOK /\ AssertionsHold
  BY DEF ClientInv
<1>3. TypeOK /\ OwedInv => CallsAccounted
  BY OwedIsAccounted
<1>4. ClientInv /\ OnceInv /\ OwedInv /\ [Next]_vars => OnceInv' /\ OwedInv'
  BY <1>2, StepOnce, StepOwed
<1>5. Spec => []OwedInv
  BY <1>1, <1>4, InvCorrect, PTL DEF Spec
<1> QED
  BY <1>2, <1>3, <1>5, InvCorrect, PTL
=============================================================================
