# FurnitureAR in TLA+

TLA+ models of FurnitureAR, an iOS app that lists furniture from a Firestore
collection and places a chosen piece in the camera's view with ARKit. The
modules describe the app's own code, `src/FurnitureAR/FurnitureAR` (46 Swift
files, about 3,350 lines; paths below are relative to it), and the one path of
the vendored Firestore client that the app depends on for an answer,
`getDocuments`. TLC checks them on small instances; TLAPS proves their safety
properties for every value of the constants. `PROJECT.json` maps each definition
to the lines it models.

## 1. The system

| Part | State | Operations | Talks to |
|---|---|---|---|
| Furniture list (`FurnitureListViewController`, `FurnitureListTableView`, `FurnitureService`) | model array, table rows, refresh control, alert | fetch on appearance and on pull, insert what is new, select | Firestore (callback, then main queue), details screen |
| Pictures (`DownloadingImageView` in `FurnitureTableViewCell` and `FurnitureDetailsViewController`) | url wanted, picture | configure a cell, download, hand the picture over | `URLSession` (callback, then main queue) |
| AR screen (`ARViewController` and its extensions, `VirtualObjectLoader`, `VirtualObject`, `VirtualObjectARView`) | loaded object, `isLoading`, restart lock, button, anchors, focus state | add, remove, place, restart, close | background queue, `updateQueue`, main queue, `ARSession`, coaching overlay |
| Placement (`ARViewController+ObjectSelection`, `+SceneRender`, `VirtualObjectInteraction`) | positions of object, anchor and tracked raycasts | place, drag, drop, re-anchor, follow an anchor | `updateQueue`, `ARSession`'s raycasts and anchor updates |
| Gestures (`VirtualObjectInteraction`, `ThresholdPanGesture`) | `trackedObject`, threshold | pan, rotate, pinch, tap | the AR screen's object |
| Status messages (`StatusViewController`) | panel, hide timer, four scheduled messages | show, schedule, cancel, escalate | timers, ARKit callbacks |
| Focus square (`FocusSquare`, its `Segment`) | state, open or closed, animation lock, segments | set the state, hide, unhide | `updateQueue`, SceneKit completions |
| Firestore client (`Pods/FirebaseFirestore`: `query_core`, `event_manager`, `query_listener`, `sync_engine`, `view`, `remote_store`, `online_state_tracker`, `stream`, `remote_event`) | listeners, view, online state, stream, responses owed | listen once, remove, open, back off, idle, time out, apply the server's messages | worker queue, main queue, timers, the server |

What is hard in them:

* **Three threads and four kinds of callback.** `VirtualObjectLoader` loads on a
  background queue and reports through `prepare` to the main queue; ARKit and
  SceneKit call back; `updateQueue` runs frames and anchors in order.
* **Locks by convention.** The add button's `isEnabled`, `isLoading`,
  `isRestartAvailable` and `isAnimating` are flags set by one party and cleared
  by another, some by timers that nobody cancels.
* **Answers out of order.** Queries and downloads overlap; cells are reused.
* **A connection that fails.** A get waits for the server only as long as there is
  hope of reaching it; attempts, timers and two overlapping listens of one target
  race with each other and with what the server still owes.
* **Blocks queued before what they undo.** An anchor update queued before a drop
  runs after it.
* **Removal under a user.** Furniture can be removed while a gesture tracks it.

What makes each correct is the list of properties in section 3. `PROJECT.json`
lists every hazard with its line and the properties that cover it, or why none
does.

## 2. Modules

| Module | Models | Role |
|---|---|---|
| `ARScreen` | AR screen and gestures, without positions | specification |
| `ObjectSlot` | what a screen promises about its one piece of furniture | abstract specification of `ARScreen` |
| `ObjectPlacement` | positions of the object, its anchor and its raycasts | specification, beside `ARScreen` |
| `StatusMessages` | the message panel and all its callers | specification, discrete time |
| `FocusSquare` | the focus square | specification |
| `FurnitureList` | list, service, answers of `getDocuments` | specification |
| `FirestoreGet` | how the Firestore client answers `getDocuments` | specification |
| `OneAnswer` | what `getDocuments` promises its caller | abstract specification of `FirestoreGet` |
| `CellImages` | pictures in cells and on the details screen | specification |
| `ImageSlot` | what an image view promises | abstract specification of `CellImages` |
| `Selections` | a filtering loop, used by `FurnitureList` and `FirestoreGet` | operator |
| `MC...` | constants, symmetry | instances for TLC |
| `...Proofs` | | theorems about the module so named |

`FurnitureList` stands on `OneAnswer`: its `ServerReads` is the client deciding on
an answer and its `AnswerArrives` the call of the app's completion block, once for
each query. `FirestoreGet` is what entitles it to them, and, with the exception
that `OneAnswer` names, to the fairness that its liveness properties need.

`ObjectPlacement` models the same handlers as the placing half of `ARScreen`, with
the positions that `ARScreen` leaves out and without the locks and the rotation,
pinch and visibility that move nothing. A place is a value that is only compared.

**How state and actions correspond to the code.** Variables have the names of
the properties they stand for; an action stands for one handler, callback, or
block on a queue, from start to end. `ARScreen.RunUpdateQueue`, for example, is
one block of `updateQueue`, and `PlaceLoaded` the main-queue block of
`loadVirtualObject` with the whole of `placeVirtualObject`. A handler that
changes state on two threads is as many actions (`LoadContent`,
`FinishLoading`, `PlaceLoaded`); one whose steps another thread can see is split
there (`FocusSquare.OpenAnimationEnds`).

**External code** is modelled from its use, as loosely as the app can meet it:
ARKit may accept or refuse a raycast, deliver its results at any time or never,
keep a raycast that was overwritten alive or not; the coaching overlay comes and
goes; Firestore answers a query with any documents or an error, in any order;
a download may fail. In `FirestoreGet` the server answers watches and unwatches in
order, may add, reset, mismatch or reject the target, also when the client has just
removed it, and may send a snapshot version with any message, before CURRENT or
after; the connection may fail at any time. Editing the Firestore collection is not
an action: as anybody may edit it in any way between two queries, an answer is any set
of *versions* with at most one of each document, and versions of one document may
differ in their id and in being malformed.

**Operators named `X_Fault`** are deliberate variants of `X`, each with one
mistake that the code could plausibly have had. No specification uses them.
`PROJECT.json` pairs each with the property that fails when it takes X's place:
it shows that the property can fail.

## 3. Runs

Run a module with `tlc -config <cfg> <module>`.

### `ar_safety` (`ARScreenSafety.cfg`, 3.57 million states, 80 s)

Two anchor identities, up to two blocks in `updateQueue`, one restart timer,
pans and twists. Two anchors are enough for an old and a new one (an anchor that
left both session and object may come back as a new one); two blocks for an anchor
behind a frame's or another anchor's. Several restart timers pending at once are in
no run; the theorem `RestartLockHasOwner` holds for any number of them, as do the other
theorems of section 4.

* `OneLoadInFlight`: the button is disabled exactly during a load, so loads never
  overlap.
* `LoadingObjectKept`: nothing removes or unloads an object under its load, and an
  object has its content exactly while it is listed and loaded.
* `AnchorUnique`, `AnchoredOrQueued`: the session never keeps an anchor nobody
  refers to; a node in the scene has one, or will.
* `RestartLockOwned`: restart is withheld only with a release under way.
* `ViewHolds`: interruptions never leave a loaded object hidden, and the tracked
  object outlives neither gesture nor screen.

### `ar_live` (`ARScreenLive.cfg`, 262,000 states)

One block in `updateQueue`, no gestures (they touch neither loader nor locks).
`LoadingUIEnds`, `RestartComesBack` and `ImplementsObjectSlot`, the refinement
of `ObjectSlot` with its fairness.

*Fairness*: weak, on the two steps of the background block, on the main block
after `prepare`, on the restart timer and on `updateQueue`. Dispatch queues run
what they are given, and the closures keep the controller alive where they are
strong; the timer's weak one is about a screen that exists. Nothing is assumed
of users, ARKit or the overlay.

### `ar_restart_rests`, `ar_removed_stays_out`

Each checks one statement that a comment of the code makes and finds it violated;
`PROJECT.json` quotes them under "findings".

* Restart becomes available before its five seconds are over: a load that completes
  within them releases the lock. (So would the older of two timers, which the run, with
  one timer, does not show.)
* Tapping the close button with one finger while another pans the object: the
  end of the pan brings the removed object back into the scene.

The second run's property is violated in another way as well, which TLC finds when
`Gestures = {}`: `isLoading` is cleared before the loaded object is placed, and a restart
in between removes an object that the handler then places.

Three more findings need no run of their own, as the violating step is one action
of the model: a rotation or pinch of a removed object force-unwraps
`childNodes.first!`, a pan that ended below its threshold sets the object down, and
the panel's button closes the screen instead of restarting it.

### `object_placement` (`ObjectPlacement.cfg`, 331,000 states)

Three places, three anchor identities, two blocks in `updateQueue`. Three places tell
where the object was dropped, where its anchor is and elsewhere apart; three identities allow the object's anchor,
its successor and one that a queued anchor update still names; two blocks allow
an anchor update before a drop.

* `RestsOnAnchor`: an object that nothing tracks or drags is where its anchor is, or
  the last block that will anchor it is its drop's, and until then it is where it was
  dropped or where its old anchor has moved to. A cancelled pan is the exception, and so is a placement
  whose tracked raycast was refused; both are in the history variable `adrift`.
* `PendingAnchorHasSource`: an anchor that is to be renewed has a raycast to do it.

### `object_drop_kept` (`ObjectPlacementDropKept.cfg`, violated)

`setDown` says it updates the anchor to the object's current position when no
raycast succeeds. An anchor update that was queued before the drop moves the object
back to the old anchor, and the drop's block then anchors it there.

### `status_messages` (`StatusMessages.cfg`, 314,000 states)

Time is in half-second ticks, so the code's 3, 5, 6 and 7.5 s are exact. Timers
that are due at one instant fire in any order, and before time goes on. Two
limited tracking states suffice to tell an escalation about a former state from
one about the present; one block of `didAdd` waits at a time. A frame's block on the
main queue has nothing to remember, so it may run at any time: also after
`prepareForClose`, as may one of `didAdd`, since the view renders on until it is gone.

* `HideTimerOfCurrent`: the hide timer is that of the message on display.
* `EscalationNotStale`: no escalation about a state that is over.
* `SurfaceHintNeeded`: the hint to find a surface waits only while none is known,
  or its news is in the main queue.
* `ClosedIsQuiet`: closing leaves no escalation and no hint to find a surface behind,
  though such late blocks run. They may schedule the hint to move, or that to add an
  object, on the closed screen: that much the code does not prevent.

### `focus_square` (`FocusSquare.cfg`, 173,000 states)

Two blocks in `updateQueue` (a state and the one after it); the orientation
update comes every 3 frames instead of 30, as only reaching the limit matters.

* `AnimationOwned`: one animation at a time.
* `SegmentsExact`: at rest all eight segments are exactly open or closed; they are
  moved relative to where they are, so any missed step would stay.
* `PulseWhenOpen`: a closed square never pulses, an open one at rest does: the
  completion starts the pulse before it releases the lock.
* `SettlesClosed`, `HiddenWithObject`: the square's looks follow its state in the end.

*Fairness*: weak, on frames (the renderer calls back while the screen is
displayed), on `updateQueue` and on the ends of animations and fades.

### `furniture_list` (`FurnitureList.cfg`, 38,500 states)

Three documents in five versions: one that is edited twice, the second time in its id,
a malformed one, and one that shares an id of the first; and two fetches at a time:
enough for an answer to overtake another and to hold what the other held.

* `RowsMatchModel`, `OncePerId`, `LastStaysLast`: overlapping fetches neither
  part the table from its model nor list a document twice under one id nor reorder it.
  A document whose id is edited between two fetches *is* listed once more, beside the
  row of its old id, and so are two new documents of one answer that share an id: the
  list compares ids, and only with what it has.
  (`lastElementIndex` is the index before the last element, so what comes later
  goes before the item that was last at first.)
* `RefreshAnswered`: a fetch under way ends the spinner or shows an error, or the
  list is not on display.
* `AnswerGetsShown`: what arrives gets listed, under its id.

The run allows deadlock because the app has one: when the first fetch and then a
refresh fail, the spinner never stops, cannot be pulled again, and an empty list
has nothing to select. Without the spinner's part of `RefreshAnswered` after an
error, that is the model's only way to stop.

*Fairness*: weak, on Firestore answering (`firestore_get` checks that it does, with the
exception named there), on
the oldest answer's delivery, and on the main queue.

### `cell_images` (`CellImages.cfg`, 2,600 states)

One reused cell and the details screen, three rows of which two share a picture,
two downloads of the same url at a time: a cell can go from one row to another and
back with both downloads still under way. Cells do not interact.

* `ImplementsImageSlot`: no view shows another furniture's picture. (`ImageSlot` lets a
  view lose its picture when it is given a name; that late answers cost it none is the
  theorem `WantedNeverDropped`.)
* `ImageArrives`: a downloaded picture that is wanted gets shown.

*Fairness*: weak, on main-queue blocks. Downloads may fail or never end.

### `firestore_get` (`FirestoreGet.cfg`, 104,000 states, 100 s)

Two gets of the app's one query: the second can be made before, while and after
the first is answered, so that its listen meets the first one's listener, its
removal on the way, or its idle stream. `MaxMain` is 3 events on the main queue:
one for each get, and one more for a get that is not yet removed. The queue of
requests to the server is bounded by what two gets can ask. (The invariants were also
explored for three gets and `MaxMain = 4`, 4.8 million states, without an error.)

* `AssertionsHold`: the client's own assertions, with the relations between its
  parts that they rest on.
* `ResponsesCounted`: `outstanding_responses_` is what the server still owes.
* `SyncedIsCurrent`: a view is current only by a CURRENT for its own listen, with the
  exception below.
* `WaitersServed`: no get waits that the cache could have answered by now, and none
  waits in vain on an open stream: the server owes a response, or a CURRENT, or a
  snapshot that makes the view current or has the target watched again, or a document
  in limbo is being looked up.
* `CallsAccounted`: no get is lost between the worker queue, its listener and the main
  queue, and no listener stays behind once its get has had a snapshot.
* `ImplementsOneAnswer`: every get is answered once, and in the end.

Two histories name what the code gets wrong, and the properties say so rather than
assume it away; both are findings without a run of their own.

* `crossed`: on this stream, the server's rejection of a target has crossed a request of
  the client. `ProcessTargetError` ignores a rejection of a target already removed
  (`remote_store.cc:334`), and does not count it as the response it is: the count of
  that target does not return to 0 on this stream, the target never active on it, and a later get of the query
  waits until the stream ends. So `ResponsesCounted`, the second half of `WaitersServed`
  and the liveness of `ImplementsOneAnswer` hold until a rejection crosses, and again from
  the next stream on. `OneAnswer` has the exception as its variable `miscounted`. That
  no get is answered twice, and the other properties, hold regardless.
* `heard = "others"`: the watch of the listen that made the view was sent while earlier
  requests were unanswered. `Added` does not take `current_` back
  (`remote_event.cc:161`), so a snapshot before the new CURRENT may make the view current
  by the old one. `SyncedIsCurrent` holds for every other listen.

*Limbo*: a current view may have documents that the target has not, and is not synced
until the lookup of each has ended. The model keeps whether there are any: a change that
finds the view current may leave some or none, a snapshot may explain them, and the
lookup may be rejected.

*Fairness*: queues run their blocks, timers fire, an attempt to connect opens or
fails. `AddQueryListener` has strong fairness because the bound `MaxMain`, which the
code does not have, may disable it. The server's steps have strong fairness, as a
connection may be lost between any two: a server that is reached again and again
says each of its messages in the end, a snapshot version after CURRENT
(`server = "current" /\ ServerSnapshot`) and the end of the lookups (`LimboEnds`) among
them. It does not reset the target for ever (`<>[][~ServerResets]_vars`). A server that
is never reached is no exception: the ten second timer, or the first failure, turns to
the cache.

### `firestore_unknown_is_timed` (`FirestoreGetUnknownIsTimed.cfg`, violated)

`online_state_tracker.cc:44` says that the timer keeps a get from waiting
indefinitely. A get that finds the stream already started by an earlier one, whose
removal has reset the online state, waits without a timer, as long as the attempt
takes.

## 4. Proofs

`tlapm <module>` checks each of the eight `...Proofs` modules. The theorems hold for
every value of the constants that satisfies `ConstantsAssumption` of the module: any
sets of anchors, places, rows, documents and gets, any delays, any bounds. Each
module proves an inductive invariant step by step and derives the run's properties
from it.

**`ARScreenProofs`.** The inductive invariant is `IInv == TypeOK /\ LoaderInv /\
RestartLockOwned /\ AnchorInv /\ ViewInv`, proved part by part:

* `LoaderInv` joins what the loader's properties need of each other.
  `LoadingObjectKept` alone is not inductive: a tap cannot remove the object
  because the button is disabled (`OneLoadInFlight`), and a restart cannot
  because `isLoading` is exact (`LoadingFlagExact`).  That content comes with the
  listing is what a removal during the background block would break.
* `AnchorInv` adds that a queue which owes an anchor keeps owing it.
* `ViewInv` needs the loader's part: content is hidden only if listed.

From it: `TypeCorrect`, `LoadsNeverOverlap`, `LoadingProtected`,
`AnchorsAccounted`, `RestartLockHasOwner`, `ViewConsistent`, the action property
`GrabsOnlyListed` (a gesture takes hold of listed, loaded furniture only, though a
leftover raycast can put a removed node back into the scene), and `ImplementsSlot`
(initial states and steps map to those of `ObjectSlot`).

**`ObjectPlacementProofs`.** `ObjectRests` and `PendingAnchorComes`. What makes them
inductive is `RestInv`: they hold during a pan too while it is below its threshold,
since it has moved nothing and left the raycast alone. Its part `AtDrop` looks at the
last block of the queue that will anchor the object (`AsyncLast` and `RunLast` say
which one that is after a block is queued or run), and so holds for every bound on
the queue. `DropsAnchored` is the action property that remains of the violated
`DropKept`: the last drop's block anchors the object where it was dropped, or where
its old anchor has moved meanwhile, and nowhere else.

**`StatusMessagesProofs`.** All safety properties of the panel. `EscalationNotStale`
is not inductive: it needs `EscalationOfTracking`, that a waiting escalation is about
the tracking state there is.

**`FocusSquareProofs`.** `SegmentsCorrect`, `PulseCorrect`, `LockCorrect`. Openings and
closings move the segments relative to where they are, so exactness is about the
whole history. `ShapeInv` names the two shapes the square alternates between, and
which ends of animations belong to which; `CloseUndoesOpen` is the geometry. `PulseInv`
says between which two events the pulse runs, which makes `PulseWhenOpen` inductive.

**`FurnitureListProofs`.** `RowsCorrect`, `NoDuplicates`, `LastStays`. The invariant adds
that every block in the main queue has one version of a document at most: under one id
a document stays single because an answer names it once and the filter compares ids with
the list at insertion, whatever was edited since.
`NothingIsLost` is the safety half of `AnswerGetsShown`: a document with an id that an
answer brings stays in an answer or in a block of the main queue until its id is
listed. It needs that a block which shows an alert carries nothing to insert, and
what the filter and the insertion do with each element (`InsertionLists`).

**`SelectionsProofs`.** What the filtering loop returns, for any sequence. An
induction theorem that takes an operator cannot be cited, so the induction is done
through the least number for which a claim fails (`LeastNumber`, from the
well-foundedness of `<` on `Nat`). The other modules cite its theorem.

**`FirestoreGetProofs`** (3,612 obligations). No theorem assumes anything of the server
but what the model's actions allow. `AssertionsCorrect` and `WaitsCorrect` come from
`ClientInv`, which adds that only an open stream has requests and a server's target, and
that a target is watched only by a started stream.

* `CountCorrect`: every request and response keeps the count, until a rejection crosses.
* `SyncedCorrect` from `FreshInv`: what the target is believed to be comes from a CURRENT of
  its own listen, or of one that its watch overlapped; while the count is right, no belief
  in a removed target outlives its unwatch.
* `FirstSnapshotCorrect`, an action property: a get's first snapshot is of a synced view,
  by a CURRENT heard, unless the client is or goes offline.
* `ServedCorrect` from `ServedInv`, which says for every stage of a watch what the server
  or the client has still to do for it, while the count is right: the last request on its
  way is a watch, or the server has the target, and one that said CURRENT is believed or
  about to be asked again.
* `AnsweredAtMostOnce`, the safety part of `ImplementsOneAnswer`. Its invariant `OnceInv`
  says where the one answer of a get can be: in the block that adds its listener, with its
  listener, or in one of the events on the main queue, of which an error is the last and a
  snapshot mutes the rest. `CallsCorrect` is the converse, from `OwedInv`: the answer of a
  get that has none *is* in one of those places, and so is the removal of a listener that
  has had its snapshot. The two together say that a get has exactly one place its answer
  can come from.

**`CellImagesProofs`.** `TypeCorrect` needs the sum of downloads and blocks bounded,
as `TypeOK` bounds each. `ViewsImplementImageSlot` proves the run's property in
full, from an invariant that adds the remembered url: it is that of the
furniture named or none, which is why comparing with it is enough when a late
answer comes. `WantedNeverDropped`: a view without its picture remembers the url it
lacks (`LacksAndRemembers`), and the block of a download that a view wants leaves its
picture on display.

**Only model-checked**: liveness (`LoadingUIEnds`, `RestartComesBack`, the fairness
of `ObjectSlot` and `OneAnswer`, `SettlesClosed`, `HiddenWithObject`, `RefreshAnswered`,
`AnswerGetsShown`, `ImageArrives`), which the prover cannot express under fairness.
Every safety property of a passing run is proved. Of the liveness properties, the theorems
prove what a state or a step can say: `AnsweredAtMostOnce`, `CallsCorrect` and
`ServedCorrect` for `ImplementsOneAnswer`, `NothingIsLost` for `AnswerGetsShown`,
`WantedNeverDropped` for `ImageArrives`, `RestartLockHasOwner` for `RestartComesBack`.

## 5. Not modelled

* A second AR screen sharing the static models (`VirtualObject.availableObjects`), and
  `byId`'s substring match (planned, below).
* `selectedObject`: written, never read.
* The coaching overlay's fade, activity indicators, fonts, colours, layout.
* Orientation and scale of the object: no other state depends on them.
* Dead code: `Core/Networking` but one error value, the recognizer delegate in
  `ARViewController+GestureRecognizer`.
* Stateless helpers (`Layout`, `CellReuseHelper`, providers, extensions),
  `AppDelegate`.
* In the Firestore client: documents but for whether a snapshot brings any and whether
  some are in limbo, the responses that lookups of documents in limbo are owed, writes,
  credentials, the network switch, resume tokens but for the change they make, several
  queries at once. The app has one query and writes nothing.
* The rest of `Pods/` (gRPC, BoringSSL, Firebase's other parts): third-party code
  that the app reaches only through that path.

## 6. Plan

Done, in order of weight:

1. `ARScreen`, `ObjectSlot`: the loader, locks and anchors.
2. `StatusMessages`.
3. `FurnitureList`.
4. `CellImages`, `ImageSlot`.
5. `FocusSquare`.
6. `ObjectPlacement`: where object, anchor and tracked raycast are.
7. `FirestoreGet`, `OneAnswer`: how the client answers the list's fetches.
8. Proofs of the safety properties of all of them, and of the safety halves of the
   liveness properties (section 4).

Left:

1. `SharedObject`: two AR screens one after the other over the static objects,
   with late loads of the first; composes two instances of a screen's loader.
2. A run for "Update orientation only twice per second" (`FocusSquare.swift:235`).
3. Violation runs for the findings that have none: a get that waits in vain after an
   ignored rejection (`remote_store.cc:334`), a view synced by an old CURRENT
   (`remote_event.cc:161`).
