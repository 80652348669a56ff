--------------------------- MODULE FurnitureList ---------------------------
(* The list of furniture: FurnitureListViewController fetches the Firestore *)
(* collection through FurnitureService each time it appears or is pulled,   *)
(* and FurnitureListTableView adds what it does not have yet.  A document   *)
(* may be edited between two queries: what it holds at one time is a        *)
(* version.  Versions are numbered in the order of their documents' names,  *)
(* the order of a query's answer.                                           *)
(* An operator named X_Fault is the operator X with one mistake in it.      *)
EXTENDS Integers, SequencesExt, Selections

CONSTANTS Versions,     \* what documents of the collection may hold is 1..Versions
          DocumentOf,   \* the document each version is one of
          FieldId,      \* field "id" of each version, 0 when it is malformed
          MaxRequests   \* bound: requests sent and not handled yet

ASSUME ConstantsAssumption ==
  /\ Versions \in Nat
  /\ DocumentOf \in [1..Versions -> Nat]
  /\ \A v, w \in 1..Versions : v <= w => DocumentOf[v] <= DocumentOf[w]
  /\ FieldId \in [1..Versions -> Nat]
  /\ MaxRequests \in Nat \ {0}

Version == 1..Versions

VARIABLES
  requests,     \* number of queries the server has not read for yet
  answers,      \* query results on their way, in no particular order
  mainQueue,    \* blocks dispatched to the main queue
  furnitures,   \* the table's model, a version standing for its Furniture
  rows,         \* the cells UIKit shows, by what they were built from
  onTop,        \* the list is the screen on display
  refreshing,   \* the refresh control spins
  alert         \* an error alert is presented

network == <<requests, answers>>
table   == <<furnitures, rows, refreshing>>
vars    == <<network, mainQueue, table, onTop, alert>>

Failure == [error |-> TRUE, docs |-> {}]
Success(docs) == [error |-> FALSE, docs |-> docs]

\* A query finds each document once, as it is.
OnePerDocument(docs) == \A v, w \in docs : DocumentOf[v] = DocumentOf[w] => v = w
Answer == {Failure} \cup {Success(ds) : ds \in {vs \in SUBSET Version : OnePerDocument(vs)}}

\* Blocks of fetchFurnitures (the one that stops the activity indicator, which
\* starts with the screen and never again, is left out).
ShowErrorMessage == [do |-> "alert", new |-> <<>>]
Insert(new) == [do |-> "insert", new |-> new]

Ids(list) == {FieldId[list[i]] : i \in DOMAIN list}

TypeOK ==
  /\ requests \in 0..MaxRequests
  /\ \A i \in DOMAIN answers : answers[i] \in Answer
  /\ \A i \in DOMAIN mainQueue :
       /\ mainQueue[i].do \in {"alert", "insert"}
       /\ \A j \in DOMAIN mainQueue[i].new : FieldId[mainQueue[i].new[j]] # 0
  /\ requests + Len(answers) + Len(mainQueue) <= MaxRequests
  /\ 0 \notin Ids(furnitures)
  /\ \A i \in DOMAIN furnitures : furnitures[i] \in Version
  /\ {onTop, refreshing, alert} \subseteq BOOLEAN

\* The list's first appearance fetches.
Init ==
  /\ requests = 1 /\ answers = <<>> /\ mainQueue = <<>>
  /\ furnitures = <<>> /\ rows = <<>>
  /\ onTop = TRUE /\ refreshing = FALSE /\ alert = FALSE

-----------------------------------------------------------------------------
(* Firestore.                                                               *)

\* A query is answered with an error, or with what the collection holds, which
\* may have been edited in any way since the query before.
ServerReads ==
  /\ requests > 0
  /\ requests' = requests - 1
  /\ \E a \in Answer : answers' = Append(answers, a)
  /\ UNCHANGED <<mainQueue, table, onTop, alert>>

-----------------------------------------------------------------------------
(* FurnitureService and FurnitureListViewController.                        *)

\* retrieveAll: the documents in order, without the malformed ones.
InOrder == [d \in Version |-> d]
Furnitures_KeepsMalformed(docs) == Selected(InOrder, docs)
Furnitures(docs) == Selected(InOrder, {d \in docs : FieldId[d] # 0})

Fetching == requests > 0 \/ answers # <<>> \/ mainQueue # <<>>

FetchFurnitures ==
  /\ requests + Len(answers) + Len(mainQueue) < MaxRequests
  /\ requests' = requests + 1
  /\ UNCHANGED answers

\* The completion handler of retrieveAll.
AnswerArrives(i) ==
  /\ mainQueue' = Append(mainQueue, IF answers[i].error THEN ShowErrorMessage
                                    ELSE Insert(Furnitures(answers[i].docs)))
  /\ answers' = RemoveAt(answers, i)
  /\ UNCHANGED <<requests, table, onTop, alert>>

\* viewDidAppear, back from the details screen.
ViewDidAppear ==
  /\ ~onTop
  /\ onTop' = TRUE
  /\ FetchFurnitures
  /\ UNCHANGED <<mainQueue, table, alert>>

RefreshPulled ==
  /\ onTop /\ ~alert /\ ~refreshing
  /\ refreshing' = TRUE
  /\ FetchFurnitures
  /\ UNCHANGED <<mainQueue, furnitures, rows, onTop, alert>>

\* A row is selected: the details screen is pushed over the list.
OpenDetails ==
  /\ onTop /\ ~alert /\ rows # <<>>
  /\ onTop' = FALSE
  /\ UNCHANGED <<network, mainQueue, table, alert>>

\* UIKit presents nothing from a screen that is not on display.
ErrorBlock ==
  /\ mainQueue # <<>> /\ Head(mainQueue).do = "alert"
  /\ mainQueue' = Tail(mainQueue)
  /\ alert' = (alert \/ onTop)
  /\ UNCHANGED <<network, table, onTop>>

DismissAlert ==
  /\ alert
  /\ alert' = FALSE
  /\ UNCHANGED <<network, mainQueue, table, onTop>>

-----------------------------------------------------------------------------
(* FurnitureListTableView.                                                  *)

\* Elements new put into list before position i, counted from zero.
Inserted(list, i, new) == SubSeq(list, 1, i) \o new \o SubSeq(list, i + 1, Len(list))

\* lastElementIndex, counted from zero; zero for an empty list.
LastElementIndex_EndIndex(list) == Len(list)
LastElementIndex(list) == IF list = <<>> THEN 0 ELSE Len(list) - 1

IsFurnitureAlreadyExist_ChecksLast(list, d) == list # <<>> /\ FieldId[Last(list)] = FieldId[d]
IsFurnitureAlreadyExist(list, d) == FieldId[d] \in Ids(list)

\* addToFurnituresList: the model first, then the rows at the same positions.
AddToFurnituresList_RowsAtEnd(new) ==
  /\ furnitures' = Inserted(furnitures, LastElementIndex(furnitures), new)
  /\ rows' = rows \o new
AddToFurnituresList_NeedsElements(new) ==
  IF furnitures = <<>> THEN UNCHANGED <<furnitures, rows>>
  ELSE /\ furnitures' = Inserted(furnitures, LastElementIndex(furnitures), new)
       /\ rows' = furnitures'
AddToFurnituresList(new) ==
  LET start == LastElementIndex(furnitures)
  IN  /\ furnitures' = Inserted(furnitures, start, new)
      /\ rows' = Inserted(rows, start, SubSeq(furnitures', start + 1, start + Len(new)))

\* insertNewFurnitures adds those whose id is not listed yet.
NewOf(list) == Selected(list, {d \in Version : ~IsFurnitureAlreadyExist(furnitures, d)})

InsertBlock_EndsRefreshingIfNew ==
  /\ mainQueue # <<>> /\ Head(mainQueue).do = "insert"
  /\ mainQueue' = Tail(mainQueue)
  /\ LET new == NewOf(Head(mainQueue).new)
     IN  /\ AddToFurnituresList(new)
         /\ refreshing' = (refreshing /\ new = <<>>)
  /\ UNCHANGED <<network, onTop, alert>>
InsertBlock ==
  /\ mainQueue # <<>> /\ Head(mainQueue).do = "insert"
  /\ mainQueue' = Tail(mainQueue)
  /\ refreshing' = FALSE
  /\ AddToFurnituresList(NewOf(Head(mainQueue).new))
  /\ UNCHANGED <<network, onTop, alert>>

-----------------------------------------------------------------------------

Next ==
  \/ ServerReads \/ \E i \in DOMAIN answers : AnswerArrives(i)
  \/ ViewDidAppear \/ RefreshPulled \/ OpenDetails
  \/ InsertBlock \/ ErrorBlock \/ DismissAlert

\* Firestore answers every query, if only with an error (FirestoreGet implements that, but
\* for a stream that stays open for ever with a wrong count), no answer is passed
\* over forever, and the main queue runs.
Fairness ==
  /\ WF_vars(ServerReads)
  /\ WF_vars(answers # <<>> /\ AnswerArrives(1))
  /\ WF_vars(InsertBlock) /\ WF_vars(ErrorBlock)

Spec == Init /\ [][Next]_vars
FairSpec == Spec /\ Fairness

-----------------------------------------------------------------------------
(* Properties.                                                              *)

\* The table's cells and its model never part, whatever the overlap of
\* fetches: cellForRowAt and didSelectRowAt index the model by row, and UIKit
\* raises an exception when the counts differ.
RowsMatchModel == rows = furnitures

\* Overlapping fetches, refreshes and reappearances never list a document twice
\* under one id, whatever order their answers come in and whatever else was edited
\* between them.  (Under a new id a document is listed once more, beside the old.)
OncePerId ==
  \A i, j \in DOMAIN furnitures :
    /\ DocumentOf[furnitures[i]] = DocumentOf[furnitures[j]]
    /\ FieldId[furnitures[i]] = FieldId[furnitures[j]]
    => i = j

\* What is listed stays, in its order, and the item that was last when the
\* list first filled stays last: new items go before it.
LastStaysLast ==
  [][furnitures # <<>> =>
       /\ Len(furnitures') >= Len(furnitures)
       /\ IsPrefix(Front(furnitures), furnitures')
       /\ Last(furnitures') = Last(furnitures)]_vars

\* While a fetch is under way the spinner is sure to end or an error to show,
\* unless the user leaves the list meanwhile.  (After an error it spins on.)
RefreshAnswered == refreshing /\ Fetching ~> ~refreshing \/ alert \/ ~onTop

\* What an answer brings gets listed, under its id at least.
AnswerGetsShown ==
  \A d \in Version : FieldId[d] # 0 =>
    ((\E i \in DOMAIN answers : d \in answers[i].docs) ~> FieldId[d] \in Ids(furnitures))
=============================================================================
