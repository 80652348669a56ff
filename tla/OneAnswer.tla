----------------------------- MODULE OneAnswer -----------------------------
(* What getDocuments promises whoever calls it: each call is answered once, *)
(* with documents of the cache or of the server or with an error, and in    *)
(* the end it is answered, unless the client has for good lost count of     *)
(* what the server still owes it.  FirestoreGet implements this             *)
(* specification; FurnitureList's ServerReads and AnswerArrives are its two *)
(* actions.                                                                 *)
EXTENDS Sequences

CONSTANT Gets   \* calls of getDocuments

VARIABLES asked,      \* the calls made
          answers,    \* what the completion of each call was given, in order
          miscounted  \* the client has lost count

avars == <<asked, answers, miscounted>>

Results == {"cache", "server", "error"}

AnswerTypeOK == asked \subseteq Gets /\ answers \in [Gets -> Seq(Results)]

Init == asked = {} /\ answers = [g \in Gets |-> <<>>] /\ miscounted = FALSE

Ask(g) == g \notin asked /\ asked' = asked \cup {g} /\ UNCHANGED <<answers, miscounted>>

Answer(g) ==
  /\ g \in asked /\ answers[g] = <<>>
  /\ \E r \in Results : answers' = [answers EXCEPT ![g] = <<r>>]
  /\ UNCHANGED <<asked, miscounted>>

\* The count is lost, or started anew with a new connection.
Recount == miscounted' = ~miscounted /\ UNCHANGED <<asked, answers>>

Next == Recount \/ \E g \in Gets : Ask(g) \/ Answer(g)

Spec ==
  Init /\ [][Next]_avars /\ \A g \in Gets : SF_avars(~miscounted /\ Answer(g))
=============================================================================
