------------------------ MODULE FurnitureListProofs ------------------------
(* The list's invariants and its order hold for any documents, however many *)
(* fetches overlap.                                                         *)
EXTENDS FurnitureList, SelectionsProofs

-----------------------------------------------------------------------------
(* What the list is built with.                                             *)

\* Where the elements of three sequences are in their concatenation.
LEMMA ConcatThree ==
  ASSUME NEW S, NEW a \in Seq(S), NEW m \in Seq(S), NEW b \in Seq(S)
  PROVE  /\ (a \o m) \o b \in Seq(S) /\ Len((a \o m) \o b) = Len(a) + Len(m) + Len(b)
         /\ \A k \in 1..Len(a) : ((a \o m) \o b)[k] = a[k]
         /\ \A k \in 1..Len(m) : ((a \o m) \o b)[Len(a) + k] = m[k]
         /\ \A k \in 1..Len(b) : ((a \o m) \o b)[Len(a) + Len(m) + k] = b[k]
<1>1. a \o m \in Seq(S) /\ Len(a \o m) = Len(a) + Len(m)
  OBVIOUS
<1> DEFINE r == (a \o m) \o b
<1>2. r \in Seq(S) /\ Len(r) = Len(a) + Len(m) + Len(b)
  BY <1>1
<1>3. ASSUME NEW k \in 1..Len(a) PROVE r[k] = a[k]
  OBVIOUS
<1>4. ASSUME NEW k \in 1..Len(m) PROVE r[Len(a) + k] = m[k]
  OBVIOUS
<1>5. ASSUME NEW k \in 1..Len(b) PROVE r[Len(a) + Len(m) + k] = b[k]
  OBVIOUS
<1> QED
  BY <1>2, <1>3, <1>4, <1>5

\* Inserted puts new in between: everything keeps its order, and new is found
\* where it was put.
LEMMA InsertedAt ==
  ASSUME NEW S, NEW list \in Seq(S), NEW new \in Seq(S), NEW i \in 0..Len(list)
  PROVE  LET r == Inserted(list, i, new)
         IN  /\ r \in Seq(S) /\ Len(r) = Len(list) + Len(new)
             /\ \A k \in 1..i : r[k] = list[k]
             /\ \A k \in 1..Len(new) : r[i + k] = new[k]
             /\ \A k \in (i + 1)..Len(list) : r[k + Len(new)] = list[k]
<1> DEFINE a == SubSeq(list, 1, i)
           b == SubSeq(list, i + 1, Len(list))
<1>1. a \in Seq(S) /\ Len(a) = i /\ \A k \in 1..i : a[k] = list[k]
  OBVIOUS
<1>2. /\ b \in Seq(S) /\ Len(b) = Len(list) - i
      /\ \A k \in (i + 1)..Len(list) : b[k - i] = list[k]
  OBVIOUS
<1> HIDE DEF a, b
<1> DEFINE r == (a \o new) \o b
<1>3. /\ r \in Seq(S) /\ Len(r) = i + Len(new) + (Len(list) - i)
      /\ \A k \in 1..i : r[k] = a[k]
      /\ \A k \in 1..Len(new) : r[i + k] = new[k]
      /\ \A k \in 1..Len(b) : r[i + Len(new) + k] = b[k]
  <2>1. a \in Seq(S) /\ b \in Seq(S)
    BY <1>1, <1>2
  <2>2. /\ r \in Seq(S) /\ Len(r) = Len(a) + Len(new) + Len(b)
        /\ \A k \in 1..Len(a) : r[k] = a[k]
        /\ \A k \in 1..Len(new) : r[Len(a) + k] = new[k]
        /\ \A k \in 1..Len(b) : r[Len(a) + Len(new) + k] = b[k]
    BY <2>1, ConcatThree
  <2> HIDE DEF r
  <2> QED
    BY <1>1, <1>2, <2>2
<1>4. ASSUME NEW k \in (i + 1)..Len(list) PROVE r[k + Len(new)] = list[k]
  <2>1. k - i \in 1..Len(b) /\ i + Len(new) + (k - i) = k + Len(new)
    BY <1>2
  <2> HIDE DEF r
  <2> QED
    BY <1>2, <1>3, <2>1
<1>5. Inserted(list, i, new) = r
  BY DEF Inserted, a, b
<1> HIDE DEF r
<1> QED
  BY <1>1, <1>3, <1>4, <1>5

\* Inserting adds the elements of new to those of the list, and keeps them
\* distinct when the two have none in common.
LEMMA InsertedElements ==
  ASSUME NEW S, NEW list \in Seq(S), NEW new \in Seq(S), NEW i \in 0..Len(list)
  PROVE  /\ Elements(Inserted(list, i, new)) = Elements(list) \cup Elements(new)
         /\ Distinct(list) /\ Distinct(new) /\ Elements(list) \cap Elements(new) = {}
              => Distinct(Inserted(list, i, new))
<1> DEFINE r == Inserted(list, i, new)
           n == Len(new)
<1>1. /\ r \in Seq(S) /\ Len(r) = Len(list) + n
      /\ \A k \in 1..i : r[k] = list[k]
      /\ \A k \in 1..n : r[i + k] = new[k]
      /\ \A k \in (i + 1)..Len(list) : r[k + n] = list[k]
  BY InsertedAt
<1> HIDE DEF r
<1>2. ASSUME NEW k \in 1..Len(r)
      PROVE  \/ k \in 1..i /\ r[k] = list[k]
             \/ k - i \in 1..n /\ r[k] = new[k - i]
             \/ k - n \in (i + 1)..Len(list) /\ r[k] = list[k - n]
  <2>1. CASE k \in 1..i
    BY <1>1, <2>1
  <2>2. CASE k - i \in 1..n
    <3>1. r[i + (k - i)] = new[k - i] /\ i + (k - i) = k
      BY <1>1, <2>2
    <3> QED
      BY <2>2, <3>1
  <2>3. CASE k - n \in (i + 1)..Len(list)
    <3> DEFINE j == k - n
    <3>1. j + n = k /\ j \in (i + 1)..Len(list)
      BY <2>3
    <3> HIDE DEF j
    <3>2. r[j + n] = list[j]
      BY <1>1, <3>1
    <3> QED
      BY <2>3, <3>1, <3>2 DEF j
  <2> QED
    BY <1>1, <2>1, <2>2, <2>3
<1>3. Elements(r) = Elements(list) \cup Elements(new)
  <2>1. Elements(r) \subseteq Elements(list) \cup Elements(new)
    <3> SUFFICES ASSUME NEW k \in 1..Len(r)
                 PROVE  r[k] \in Elements(list) \cup Elements(new)
      BY DEF Elements
    <3>1. k \in 1..i => k \in 1..Len(list)
      OBVIOUS
    <3>2. k - n \in (i + 1)..Len(list) => k - n \in 1..Len(list)
      BY <1>1
    <3> QED
      BY <1>2, <3>1, <3>2 DEF Elements
  <2>2. ASSUME NEW k \in 1..Len(list) PROVE list[k] \in Elements(r)
    <3>1. CASE k <= i
      BY <1>1, <3>1 DEF Elements
    <3>2. CASE k > i
      <4>1. k + n \in 1..Len(r) /\ r[k + n] = list[k]
        BY <1>1, <3>2
      <4> QED
        BY <4>1 DEF Elements
    <3> QED
      BY <3>1, <3>2
  <2>3. ASSUME NEW k \in 1..n PROVE new[k] \in Elements(r)
    <3>1. i + k \in 1..Len(r) /\ r[i + k] = new[k]
      BY <1>1
    <3> QED
      BY <3>1 DEF Elements
  <2> QED
    BY <2>1, <2>2, <2>3 DEF Elements
<1>4. ASSUME Distinct(list), Distinct(new), Elements(list) \cap Elements(new) = {}
      PROVE  Distinct(r)
  <2> SUFFICES ASSUME NEW j \in 1..Len(r), NEW k \in 1..Len(r), r[j] = r[k], j < k
               PROVE  FALSE
    BY <1>1 DEF Distinct
  <2>1. \A x \in 1..Len(list), y \in 1..n : list[x] # new[y]
    BY <1>4 DEF Elements
  <2>2. \A x, y \in 1..Len(list) : list[x] = list[y] => x = y
    BY <1>4 DEF Distinct
  <2>3. \A x, y \in 1..n : new[x] = new[y] => x = y
    BY <1>4 DEF Distinct
  <2>4. CASE j \in 1..i /\ r[j] = list[j]
    <3>1. j \in 1..Len(list)
      BY <2>4
    <3>2. ~(k \in 1..i /\ r[k] = list[k])
      BY <2>2, <2>4, <3>1
    <3>3. ~(k - i \in 1..n /\ r[k] = new[k - i])
      BY <2>1, <2>4, <3>1
    <3>4. ~(k - n \in (i + 1)..Len(list) /\ r[k] = list[k - n])
      <4> SUFFICES ASSUME k - n \in (i + 1)..Len(list), r[k] = list[k - n] PROVE FALSE
        OBVIOUS
      <4>1. k - n \in 1..Len(list) /\ k - n # j
        BY <2>4
      <4> QED
        BY <2>2, <2>4, <3>1, <4>1
    <3> QED
      BY <1>2, <3>2, <3>3, <3>4
  <2>5. CASE j - i \in 1..n /\ r[j] = new[j - i]
    <3>1. ~(k \in 1..i)
      BY <2>5
    <3>2. ~(k - i \in 1..n /\ r[k] = new[k - i])
      <4> SUFFICES ASSUME k - i \in 1..n, r[k] = new[k - i] PROVE FALSE
        OBVIOUS
      <4>1. j - i = k - i
        BY <2>3, <2>5
      <4> QED
        BY <4>1
    <3>3. ~(k - n \in (i + 1)..Len(list) /\ r[k] = list[k - n])
      <4> SUFFICES ASSUME k - n \in (i + 1)..Len(list), r[k] = list[k - n] PROVE FALSE
        OBVIOUS
      <4>1. k - n \in 1..Len(list)
        OBVIOUS
      <4> QED
        BY <2>1, <2>5, <4>1
    <3> QED
      BY <1>2, <3>1, <3>2, <3>3
  <2>6. CASE j - n \in (i + 1)..Len(list) /\ r[j] = list[j - n]
    <3>1. ~(k \in 1..i) /\ ~(k - i \in 1..n)
      BY <1>1, <2>6
    <3>2. ~(k - n \in (i + 1)..Len(list) /\ r[k] = list[k - n])
      <4> SUFFICES ASSUME k - n \in (i + 1)..Len(list), r[k] = list[k - n] PROVE FALSE
        OBVIOUS
      <4>1. k - n \in 1..Len(list) /\ j - n \in 1..Len(list)
        BY <2>6
      <4>2. j - n = k - n
        BY <2>2, <2>6, <4>1
      <4> QED
        BY <1>1, <4>2
    <3> QED
      BY <1>2, <3>1, <3>2
  <2> QED
    BY <1>2, <2>4, <2>5, <2>6
<1> QED
  BY <1>3, <1>4 DEF r

\* The versions of an answer, as they reach the table: in no order that matters
\* here, each once, the malformed ones left out.
LEMMA FurnituresOfAnswer ==
  ASSUME NEW docs \in SUBSET Version
  PROVE  /\ Furnitures(docs) \in Seq(Version)
         /\ Distinct(Furnitures(docs))
         /\ 0 \notin Ids(Furnitures(docs))
         /\ Elements(Furnitures(docs)) = {d \in docs : FieldId[d] # 0}
<1> DEFINE R == {d \in docs : FieldId[d] # 0}
<1>1. InOrder \in Seq(Version) /\ Distinct(InOrder)
  BY ConstantsAssumption DEF InOrder, Version, Distinct
<1>2. /\ Selected(InOrder, R) \in Seq(Version)
      /\ Elements(Selected(InOrder, R)) = Elements(InOrder) \cap R
      /\ Distinct(Selected(InOrder, R))
  BY <1>1, SelectedProperties
<1>3. Furnitures(docs) = Selected(InOrder, R)
  BY DEF Furnitures
<1> DEFINE t == Selected(InOrder, R)
<1>4. \A i \in DOMAIN t : FieldId[t[i]] # 0
  <2> SUFFICES ASSUME NEW i \in DOMAIN t PROVE FieldId[t[i]] # 0
    OBVIOUS
  <2>1. t \in Seq(Version) /\ Elements(t) \subseteq R
    BY <1>2
  <2> HIDE DEF t
  <2>2. t[i] \in Elements(t)
    BY <2>1 DEF Elements
  <2> QED
    BY <2>1, <2>2
<1>5. Elements(t) = R
  <2>1. \A d \in Version : InOrder[d] = d /\ Len(InOrder) = Versions /\ d \in 1..Versions
    BY ConstantsAssumption DEF InOrder, Version
  <2>2. Elements(InOrder) = Version
    BY <1>1, <2>1 DEF Elements
  <2> QED
    BY <1>2, <2>2
<1> HIDE DEF t
<1>6. Furnitures(docs) = t
  BY <1>3 DEF t
<1> QED
  BY <1>2, <1>4, <1>5, <1>6 DEF Ids, t

-----------------------------------------------------------------------------
(* The inductive invariant.                                                 *)

\* No two versions in S are of one document under one id.
OnceEach(S) ==
  \A v, w \in S : DocumentOf[v] = DocumentOf[w] /\ FieldId[v] = FieldId[w] => v = w

Listable(list) ==
  list \in Seq(Version) /\ Distinct(list) /\ 0 \notin Ids(list) /\ OnceEach(Elements(list))

Block ==
  {b \in [do : {"alert", "insert"}, new : Seq(Version)] :
     Listable(b.new) /\ (b.do = "alert" => b.new = <<>>)}

\* Rows and model are one list, which has each document once under each id, and so
\* has what waits in the main queue to be inserted: OncePerId needs both.
ListInv ==
  /\ requests \in Nat /\ answers \in Seq(Answer) /\ mainQueue \in Seq(Block)
  /\ requests + Len(answers) + Len(mainQueue) <= MaxRequests
  /\ Listable(furnitures) /\ rows = furnitures
  /\ {onTop, refreshing, alert} \subseteq BOOLEAN

\* None of these has an id that is listed.
IdsApart(new) == \A d \in Elements(furnitures), v \in Elements(new) : FieldId[d] # FieldId[v]

\* The new furniture of an insertion has ids that are not listed.
LEMMA NewAreNew ==
  ASSUME NEW list \in Seq(Version), Listable(list), Listable(furnitures)
  PROVE  /\ Listable(NewOf(list))
         /\ IdsApart(NewOf(list))
<1> DEFINE R == {d \in Version : ~IsFurnitureAlreadyExist(furnitures, d)}
           t == Selected(list, R)
<1>1. /\ t \in Seq(Version)
      /\ Elements(t) = Elements(list) \cap R
      /\ Distinct(t)
  BY SelectedProperties DEF Listable
<1>2. NewOf(list) = t
  BY DEF NewOf
<1> HIDE DEF t
<1>3. 0 \notin Ids(t)
  <2> SUFFICES ASSUME NEW i \in DOMAIN t, FieldId[t[i]] = 0 PROVE FALSE
    BY DEF Ids
  <2>1. t[i] \in Elements(list)
    BY <1>1 DEF Elements
  <2> QED
    BY <2>1 DEF Elements, Listable, Ids
<1>4. \A d \in Elements(furnitures), v \in R : FieldId[d] # FieldId[v]
  BY DEF Elements, IsFurnitureAlreadyExist, Ids, Listable
<1>5. OnceEach(Elements(t))
  BY <1>1 DEF OnceEach, Listable
<1> QED
  BY <1>1, <1>2, <1>3, <1>4, <1>5 DEF Listable, IdsApart

\* The index furniture is inserted at is one of the list.
LEMMA LastElementIndexInList ==
  ASSUME NEW list \in Seq(Version)
  PROVE  /\ LastElementIndex(list) \in 0..Len(list)
         /\ list # <<>> => LastElementIndex(list) = Len(list) - 1 /\ Len(list) > 0
BY DEF LastElementIndex

\* Inserting keeps rows and model one listable list.
LEMMA AddKeepsList ==
  ASSUME NEW new, Listable(new), IdsApart(new),
         Listable(furnitures), rows = furnitures, AddToFurnituresList(new)
  PROVE  Listable(furnitures') /\ rows' = furnitures'
<1> DEFINE start == LastElementIndex(furnitures)
<1>1. start \in 0..Len(furnitures)
  BY LastElementIndexInList DEF Listable
<1> HIDE DEF start
<1>2. /\ furnitures' = Inserted(furnitures, start, new)
      /\ rows' = Inserted(furnitures, start, SubSeq(furnitures', start + 1, start + Len(new)))
  BY DEF AddToFurnituresList, start
<1>3. /\ furnitures' \in Seq(Version) /\ Len(furnitures') = Len(furnitures) + Len(new)
      /\ \A k \in 1..Len(new) : furnitures'[start + k] = new[k]
  <2> DEFINE r == Inserted(furnitures, start, new)
  <2>1. /\ r \in Seq(Version) /\ Len(r) = Len(furnitures) + Len(new)
        /\ \A k \in 1..Len(new) : r[start + k] = new[k]
    <3>1. furnitures \in Seq(Version) /\ new \in Seq(Version)
      BY DEF Listable
    <3> QED
      BY <1>1, <3>1, InsertedAt
  <2> HIDE DEF r
  <2>2. furnitures' = r
    BY <1>2 DEF r
  <2> QED
    BY <2>1, <2>2
<1>4. SubSeq(furnitures', start + 1, start + Len(new)) = new
  <2> DEFINE s == SubSeq(furnitures', start + 1, start + Len(new))
  <2>1. new \in Seq(Version)
    BY DEF Listable
  <2>2. s \in Seq(Version) /\ Len(s) = Len(new)
    BY <1>1, <1>3, <2>1
  <2>3. \A k \in 1..Len(new) : s[k] = furnitures'[start + k]
    BY <1>1, <1>3, <2>1
  <2>4. \A k \in 1..Len(new) : s[k] = new[k]
    BY <1>3, <2>3
  <2> HIDE DEF s
  <2>5. s = new
    BY <2>1, <2>2, <2>4
  <2> QED
    BY <2>5 DEF s
<1>5. /\ Elements(furnitures') = Elements(furnitures) \cup Elements(new)
      /\ Distinct(furnitures')
  <2>1. Elements(new) \cap Elements(furnitures) = {}
    BY DEF IdsApart
  <2> QED
    BY <1>1, <1>2, <2>1, InsertedElements DEF Listable
<1>6. OnceEach(Elements(furnitures'))
  BY <1>5 DEF OnceEach, Listable, IdsApart
<1>7. 0 \notin Ids(furnitures')
  <2> SUFFICES ASSUME NEW i \in DOMAIN furnitures', FieldId[furnitures'[i]] = 0 PROVE FALSE
    BY DEF Ids
  <2>1. furnitures'[i] \in Elements(furnitures) \cup Elements(new)
    <3>1. furnitures'[i] \in Elements(furnitures')
      BY <1>3 DEF Elements
    <3> QED
      BY <1>5, <3>1
  <2> QED
    BY <2>1 DEF Elements, Listable, Ids
<1> QED
  BY <1>2, <1>3, <1>4, <1>5, <1>6, <1>7 DEF Listable

\* And the last element stays the last, what is before it stays where it is.
LastKept ==
  furnitures # <<>> =>
    /\ Len(furnitures') >= Len(furnitures)
    /\ IsPrefix(Front(furnitures), furnitures')
    /\ Last(furnitures') = Last(furnitures)

\* New furniture goes before the last row.
LEMMA AddKeepsLast ==
  ASSUME NEW new, Listable(new), Listable(furnitures), AddToFurnituresList(new)
  PROVE  LastKept
<1> SUFFICES ASSUME furnitures # <<>>
             PROVE  /\ Len(furnitures') >= Len(furnitures)
                    /\ IsPrefix(Front(furnitures), furnitures')
                    /\ Last(furnitures') = Last(furnitures)
  BY DEF LastKept
<1> DEFINE start == LastElementIndex(furnitures)
<1>1. furnitures \in Seq(Version) /\ new \in Seq(Version)
  BY DEF Listable
<1>2. start = Len(furnitures) - 1 /\ Len(furnitures) > 0 /\ start \in 0..Len(furnitures)
  BY <1>1, LastElementIndexInList
<1> HIDE DEF start
<1> DEFINE r == Inserted(furnitures, start, new)
<1>3. /\ r \in Seq(Version) /\ Len(r) = Len(furnitures) + Len(new)
      /\ \A k \in 1..start : r[k] = furnitures[k]
      /\ \A k \in (start + 1)..Len(furnitures) : r[k + Len(new)] = furnitures[k]
  <2>1. start \in 0..Len(furnitures)
    BY <1>2
  <2> QED
    BY <1>1, <2>1, InsertedAt, SMTT(20)
<1> HIDE DEF r
<1>4. furnitures' = r
  BY DEF AddToFurnituresList, start, r
<1>5. Len(r) >= Len(furnitures)
  BY <1>1, <1>3
<1>6. IsPrefix(Front(furnitures), r)
  <2> DEFINE f == Front(furnitures)
  <2>1. f \in Seq(Version) /\ Len(f) = start /\ \A k \in 1..start : f[k] = furnitures[k]
    BY <1>1, <1>2 DEF Front
  <2> HIDE DEF f
  <2>2. SubSeq(f, 1, Len(f)) = f
    BY <1>2, <2>1
  <2> DEFINE g == SubSeq(r, 1, Len(f))
  <2>3. Len(f) <= Len(r) /\ Len(f) \in Nat
    BY <1>1, <1>2, <1>3, <2>1
  <2>4. g \in Seq(Version) /\ Len(g) = Len(f) /\ \A k \in 1..Len(f) : g[k] = r[k]
    BY <1>3, <2>3
  <2> HIDE DEF g
  <2>5. g = f
    BY <1>3, <2>1, <2>4
  <2> QED
    BY <2>2, <2>3, <2>5 DEF IsPrefix, f, g
<1>7. Last(r) = Last(furnitures)
  <2>1. Len(furnitures) \in (start + 1)..Len(furnitures)
    BY <1>1, <1>2
  <2> QED
    BY <1>3, <2>1 DEF Last
<1> QED
  BY <1>4, <1>5, <1>6, <1>7

-----------------------------------------------------------------------------
(* Initial states and steps.                                                *)

\* The empty list is listable; an error's block brings nothing.
LEMMA NothingListable == Listable(<<>>)
BY DEF Listable, Distinct, Ids, OnceEach, Elements

\* The list starts empty, with the fetch of its first appearance under way.
LEMMA InitCorrect == Init => ListInv
<1> SUFFICES ASSUME Init PROVE ListInv
  OBVIOUS
<1>1. answers \in Seq(Answer) /\ Len(answers) = 0
  BY DEF Init
<1>2. mainQueue \in Seq(Block) /\ Len(mainQueue) = 0
  BY DEF Init
<1>3. requests \in Nat /\ requests + Len(answers) + Len(mainQueue) <= MaxRequests
  <2>1. requests = 1 /\ MaxRequests \in Nat \ {0}
    BY ConstantsAssumption DEF Init
  <2> QED
    BY <1>1, <1>2, <2>1
<1>4. Listable(furnitures) /\ rows = furnitures
  BY NothingListable DEF Init
<1> QED
  BY <1>1, <1>2, <1>3, <1>4 DEF Init, ListInv

\* Every step keeps the invariant, and the order of what is listed.
LEMMA StepCorrect == ListInv /\ [Next]_vars => ListInv' /\ (LastKept \/ furnitures' = furnitures)
<1> SUFFICES ASSUME ListInv, [Next]_vars
             PROVE  ListInv' /\ (LastKept \/ furnitures' = furnitures)
  OBVIOUS
<1> USE DEF ListInv
<1>1. CASE ServerReads
  <2>1. PICK a \in Answer : answers' = Append(answers, a)
    BY <1>1 DEF ServerReads
  <2>2. answers' \in Seq(Answer) /\ Len(answers') = Len(answers) + 1
    BY <2>1
  <2> QED
    BY <1>1, <2>2 DEF ServerReads, table
<1>2. CASE \E i \in DOMAIN answers : AnswerArrives(i)
  <2>1. PICK i \in DOMAIN answers : AnswerArrives(i)
    BY <1>2
  <2>2. answers[i] \in Answer
    OBVIOUS
  <2>3. answers' \in Seq(Answer) /\ Len(answers') = Len(answers) - 1
    <3>1. answers' = RemoveAt(answers, i)
      BY <2>1 DEF AnswerArrives
    <3> QED
      BY <3>1, Removal
  <2> DEFINE b == IF answers[i].error THEN ShowErrorMessage
                  ELSE Insert(Furnitures(answers[i].docs))
  <2>4. b \in Block
    <3>1. CASE answers[i] = Failure
      <4>1. b = [do |-> "alert", new |-> <<>>]
        BY <3>1 DEF Failure, ShowErrorMessage
      <4>2. <<>> \in Seq(Version)
        OBVIOUS
      <4> HIDE DEF b
      <4> QED
        BY <4>1, <4>2, NothingListable DEF Block
    <3>2. CASE answers[i] # Failure
      <4>1. PICK ds \in SUBSET Version : OnePerDocument(ds) /\ answers[i] = Success(ds)
        BY <2>2, <3>2 DEF Answer
      <4>2. b = [do |-> "insert", new |-> Furnitures(ds)]
        BY <4>1 DEF Success, Insert
      <4> HIDE DEF b
      <4>3. Furnitures(ds) \in Seq(Version) /\ Listable(Furnitures(ds))
        <5>1. Elements(Furnitures(ds)) \subseteq ds
          BY FurnituresOfAnswer
        <5>2. OnceEach(Elements(Furnitures(ds)))
          BY <4>1, <5>1 DEF OnceEach, OnePerDocument
        <5> QED
          BY <5>2, FurnituresOfAnswer DEF Listable
      <4> QED
        BY <4>2, <4>3 DEF Block
    <3> QED
      BY <3>1, <3>2
  <2>5. mainQueue' = Append(mainQueue, b)
    BY <2>1 DEF AnswerArrives
  <2> HIDE DEF b
  <2>6. mainQueue' \in Seq(Block) /\ Len(mainQueue') = Len(mainQueue) + 1
    BY <2>4, <2>5
  <2> QED
    BY <2>1, <2>3, <2>6 DEF AnswerArrives, table
<1>3. CASE ViewDidAppear
  BY <1>3, ConstantsAssumption DEF ViewDidAppear, FetchFurnitures, table
<1>4. CASE RefreshPulled
  BY <1>4, ConstantsAssumption DEF RefreshPulled, FetchFurnitures
<1>5. CASE OpenDetails
  BY <1>5 DEF OpenDetails, network, table
<1>6. CASE InsertBlock
  <2> DEFINE b == Head(mainQueue)
  <2>1. b \in Block /\ mainQueue' \in Seq(Block) /\ Len(mainQueue') = Len(mainQueue) - 1
    BY <1>6, HeadAndRest DEF InsertBlock
  <2>2. b.new \in Seq(Version) /\ Listable(b.new)
    BY <2>1 DEF Block
  <2>3. AddToFurnituresList(NewOf(b.new))
    BY <1>6 DEF InsertBlock
  <2> HIDE DEF b
  <2>4. /\ Listable(NewOf(b.new))
        /\ IdsApart(NewOf(b.new))
    BY <2>2, NewAreNew
  <2>5. Listable(furnitures') /\ rows' = furnitures'
    BY <2>3, <2>4, AddKeepsList
  <2>6. LastKept
    BY <2>3, <2>4, AddKeepsLast
  <2>7. requests' = requests /\ answers' = answers
    BY <1>6 DEF InsertBlock, network
  <2>8. requests' + Len(answers') + Len(mainQueue') <= MaxRequests
    <3>1. Len(answers) \in Nat /\ Len(mainQueue) \in Nat /\ MaxRequests \in Nat
      BY ConstantsAssumption
    <3> QED
      BY <2>1, <2>7, <3>1
  <2>9. {onTop', refreshing', alert'} \subseteq BOOLEAN
    BY <1>6 DEF InsertBlock
  <2> QED
    BY <2>1, <2>5, <2>6, <2>7, <2>8, <2>9
<1>7. CASE ErrorBlock
  <2>1. mainQueue' \in Seq(Block) /\ Len(mainQueue') = Len(mainQueue) - 1
    BY <1>7, HeadAndRest DEF ErrorBlock
  <2>2. UNCHANGED <<requests, answers, furnitures, rows, refreshing, onTop>>
    BY <1>7 DEF ErrorBlock, network, table
  <2>3. requests' + Len(answers') + Len(mainQueue') <= MaxRequests
    <3>1. Len(answers) \in Nat /\ Len(mainQueue) \in Nat /\ MaxRequests \in Nat
      BY ConstantsAssumption
    <3> QED
      BY <2>1, <2>2, <3>1
  <2>4. {onTop', refreshing', alert'} \subseteq BOOLEAN
    <3>1. alert' = (alert \/ onTop)
      BY <1>7 DEF ErrorBlock
    <3> QED
      BY <2>2, <3>1
  <2>5. Listable(furnitures') /\ rows' = furnitures'
    BY <2>2
  <2> QED
    BY <2>1, <2>2, <2>3, <2>4, <2>5
<1>8. CASE DismissAlert
  BY <1>8 DEF DismissAlert, network, table
<1>9. CASE UNCHANGED vars
  BY <1>9 DEF vars, network, table
<1> QED
  BY <1>1, <1>2, <1>3, <1>4, <1>5, <1>6, <1>7, <1>8, <1>9 DEF Next

-----------------------------------------------------------------------------

\* Every reachable state satisfies the inductive invariant.
LEMMA InvCorrect == Spec => []ListInv
<1>1. ListInv /\ [Next]_vars => ListInv'
  BY StepCorrect
<1> QED
  BY <1>1, InitCorrect, PTL DEF Spec

\* The list's state keeps its types; no malformed document gets into a row.
THEOREM TypeCorrect == Spec => []TypeOK
<1>1. ListInv => TypeOK
  <2> SUFFICES ASSUME ListInv PROVE TypeOK
    OBVIOUS
  <2>1. \A i \in DOMAIN answers : answers[i] \in Answer
    BY DEF ListInv
  <2>2. ASSUME NEW i \in DOMAIN mainQueue
        PROVE  /\ mainQueue[i].do \in {"alert", "insert"}
               /\ \A j \in DOMAIN mainQueue[i].new : FieldId[mainQueue[i].new[j]] # 0
    <3>1. mainQueue[i] \in Block
      BY DEF ListInv
    <3> QED
      BY <3>1 DEF Block, Listable, Ids
  <2>3. requests \in 0..MaxRequests
    <3>1. Len(answers) \in Nat /\ Len(mainQueue) \in Nat
      BY DEF ListInv
    <3> QED
      BY <3>1, ConstantsAssumption DEF ListInv
  <2>4. 0 \notin Ids(furnitures) /\ \A i \in DOMAIN furnitures : furnitures[i] \in Version
    BY DEF ListInv, Listable
  <2> QED
    BY <2>1, <2>2, <2>3, <2>4 DEF TypeOK, ListInv
<1> QED
  BY <1>1, InvCorrect, PTL

\* The table's rows are its model after every step, for any overlap of fetches:
\* neither cellForRowAt nor didSelectRowAt reads past the model.
THEOREM RowsCorrect == Spec => []RowsMatchModel
<1>1. ListInv => RowsMatchModel
  BY DEF ListInv, RowsMatchModel
<1> QED
  BY <1>1, InvCorrect, PTL

\* insertNewFurnitures never lists a document twice under one id, whatever the
\* answers, the edits between them and the order they come in.
THEOREM NoDuplicates == Spec => []OncePerId
<1>1. ListInv => OncePerId
  <2> SUFFICES ASSUME ListInv, NEW i \in DOMAIN furnitures, NEW j \in DOMAIN furnitures,
                      DocumentOf[furnitures[i]] = DocumentOf[furnitures[j]],
                      FieldId[furnitures[i]] = FieldId[furnitures[j]]
               PROVE  i = j
    BY DEF OncePerId
  <2>1. i \in 1..Len(furnitures) /\ j \in 1..Len(furnitures)
    BY DEF ListInv, Listable
  <2>2. furnitures[i] \in Elements(furnitures) /\ furnitures[j] \in Elements(furnitures)
    BY <2>1 DEF Elements
  <2>3. furnitures[i] = furnitures[j]
    BY <2>2 DEF ListInv, Listable, OnceEach
  <2> QED
    BY <2>1, <2>3 DEF ListInv, Listable, Distinct
<1> QED
  BY <1>1, InvCorrect, PTL

\* addToFurnituresList inserts before the last element: that one stays last, and
\* those before it stay where they are.
THEOREM LastStays == Spec => LastStaysLast
<1>1. ListInv /\ [Next]_vars =>
        [furnitures # <<>> =>
           /\ Len(furnitures') >= Len(furnitures)
           /\ IsPrefix(Front(furnitures), furnitures')
           /\ Last(furnitures') = Last(furnitures)]_vars
  <2> SUFFICES ASSUME ListInv, [Next]_vars, furnitures # <<>>, furnitures' = furnitures
               PROVE  /\ Len(furnitures') >= Len(furnitures)
                      /\ IsPrefix(Front(furnitures), furnitures')
                      /\ Last(furnitures') = Last(furnitures)
    BY StepCorrect DEF LastKept
  <2>1. furnitures \in Seq(Version) /\ Len(furnitures) \in Nat \ {0}
    BY DEF ListInv, Listable
  <2>2. IsPrefix(Front(furnitures), furnitures)
    <3>1. PICK n \in Nat : n = Len(furnitures) - 1
      BY <2>1
    <3> DEFINE f == SubSeq(furnitures, 1, n)
    <3>2. f \in Seq(Version) /\ Len(f) = n
      BY <2>1, <3>1
    <3>3. Front(furnitures) = f
      BY <3>1 DEF Front
    <3> HIDE DEF f
    <3>4. SubSeq(f, 1, Len(f)) = f
      BY <3>2
    <3> QED
      BY <2>1, <3>1, <3>2, <3>3, <3>4 DEF IsPrefix, f
  <2> QED
    BY <2>1, <2>2
<1> QED
  BY <1>1, InvCorrect, PTL DEF Spec, LastStaysLast

-----------------------------------------------------------------------------
(* What an answer has brought is not lost on its way to the table.          *)

\* The version is in an answer, or in a block that will insert what it misses.
OnItsWay(d) ==
  \/ \E i \in DOMAIN answers : d \in answers[i].docs
  \/ \E i \in DOMAIN mainQueue : d \in Elements(mainQueue[i].new)

\* A version with an id stays on its way until its id is listed.
NothingLost ==
  [][\A d \in Version : FieldId[d] # 0 /\ OnItsWay(d) =>
        OnItsWay(d)' \/ FieldId[d] \in Ids(furnitures)']_vars

\* The elements of a sequence are what it has at its indices.
LEMMA ElementsOf ==
  ASSUME NEW S, NEW q \in Seq(S)
  PROVE  /\ \A i \in DOMAIN q : q[i] \in Elements(q)
         /\ \A x \in Elements(q) : \E i \in DOMAIN q : q[i] = x
<1>1. DOMAIN q = 1..Len(q)
  OBVIOUS
<1> QED
  BY <1>1 DEF Elements

\* A document among the elements of the model has its id among those listed.
LEMMA ElementListed ==
  ASSUME NEW list \in Seq(Version), NEW d \in Elements(list)
  PROVE  FieldId[d] \in Ids(list)
<1>1. PICK k \in 1..Len(list) : list[k] = d
  BY DEF Elements
<1> QED
  BY <1>1 DEF Ids

\* An insertion lists the id of every document of its block, of those it leaves
\* out because the id is listed already too, and drops none that was listed.
LEMMA InsertionLists ==
  ASSUME ListInv, NEW list \in Seq(Version), Listable(list), AddToFurnituresList(NewOf(list)),
         NEW d \in Elements(list)
  PROVE  FieldId[d] \in Ids(furnitures')
<1> DEFINE new == NewOf(list)
           start == LastElementIndex(furnitures)
<1>1. new \in Seq(Version) /\ furnitures \in Seq(Version) /\ d \in Version
  <2>1. Listable(furnitures)
    BY DEF ListInv
  <2>2. Listable(new)
    BY <2>1, NewAreNew
  <2>3. d \in Version
    BY DEF Elements
  <2> QED
    BY <2>1, <2>2, <2>3 DEF Listable
<1>2. start \in 0..Len(furnitures)
  BY <1>1, LastElementIndexInList
<1>3. furnitures' = Inserted(furnitures, start, new)
  BY DEF AddToFurnituresList
<1>4. Elements(new) = Elements(list) \cap {x \in Version : ~IsFurnitureAlreadyExist(furnitures, x)}
  BY SelectedProperties DEF NewOf
<1> HIDE DEF new, start
<1>5. furnitures' \in Seq(Version) /\ Elements(furnitures') = Elements(furnitures) \cup Elements(new)
  <2>1. Inserted(furnitures, start, new) \in Seq(Version)
    BY <1>1, <1>2, InsertedAt
  <2>2. Elements(Inserted(furnitures, start, new)) = Elements(furnitures) \cup Elements(new)
    BY <1>1, <1>2, InsertedElements
  <2> QED
    BY <1>3, <2>1, <2>2
<1>6. CASE d \in Elements(new)
  BY <1>5, <1>6, ElementListed
<1>7. CASE d \notin Elements(new)
  <2>1. FieldId[d] \in Ids(furnitures)
    BY <1>1, <1>4, <1>7 DEF IsFurnitureAlreadyExist
  <2>2. PICK k \in DOMAIN furnitures : FieldId[furnitures[k]] = FieldId[d]
    BY <2>1 DEF Ids
  <2>3. furnitures[k] \in Elements(furnitures')
    <3>1. furnitures[k] \in Elements(furnitures)
      BY <1>1, ElementsOf
    <3> QED
      BY <1>5, <3>1
  <2> QED
    BY <1>5, <2>2, <2>3, ElementListed
<1> QED
  BY <1>6, <1>7

\* A document keeps on its way when its answer or block stays where it is found.
LEMMA StaysOnItsWay ==
  ASSUME NEW d, OnItsWay(d), answers \in Seq(Answer), mainQueue \in Seq(Block),
         answers' \in Seq(Answer), mainQueue' \in Seq(Block),
         Elements(answers) \subseteq Elements(answers'),
         Elements(mainQueue) \subseteq Elements(mainQueue')
  PROVE  OnItsWay(d)'
<1>1. CASE \E i \in DOMAIN answers : d \in answers[i].docs
  <2>1. PICK i \in DOMAIN answers : d \in answers[i].docs
    BY <1>1
  <2>2. answers[i] \in Elements(answers')
    <3>1. answers[i] \in Elements(answers)
      BY ElementsOf
    <3> QED
      BY <3>1
  <2>3. PICK j \in DOMAIN answers' : answers'[j] = answers[i]
    BY <2>2, ElementsOf
  <2> QED
    BY <2>1, <2>3 DEF OnItsWay
<1>2. CASE \E i \in DOMAIN mainQueue : d \in Elements(mainQueue[i].new)
  <2>1. PICK i \in DOMAIN mainQueue : d \in Elements(mainQueue[i].new)
    BY <1>2
  <2>2. mainQueue[i] \in Elements(mainQueue')
    <3>1. mainQueue[i] \in Elements(mainQueue)
      BY ElementsOf
    <3> QED
      BY <3>1
  <2>3. PICK j \in DOMAIN mainQueue' : mainQueue'[j] = mainQueue[i]
    BY <2>2, ElementsOf
  <2> QED
    BY <2>1, <2>3 DEF OnItsWay
<1> QED
  BY <1>1, <1>2 DEF OnItsWay

\* An answer's documents leave it for a block of the main queue, those without an
\* id apart.
LEMMA ArrivalKeeps ==
  ASSUME ListInv, NEW d \in Version, FieldId[d] # 0, OnItsWay(d),
         NEW i \in DOMAIN answers, AnswerArrives(i), ListInv'
  PROVE  OnItsWay(d)'
<1>1. answers \in Seq(Answer) /\ mainQueue \in Seq(Block) /\ mainQueue' \in Seq(Block)
  BY DEF ListInv
<1> DEFINE b == IF answers[i].error THEN ShowErrorMessage
                ELSE Insert(Furnitures(answers[i].docs))
<1>2. mainQueue' = Append(mainQueue, b) /\ answers' = RemoveAt(answers, i)
  BY DEF AnswerArrives
<1> HIDE DEF b
<1>3. /\ Len(mainQueue') = Len(mainQueue) + 1 /\ mainQueue'[Len(mainQueue) + 1] = b
      /\ \A k \in 1..Len(mainQueue) : mainQueue'[k] = mainQueue[k]
  BY <1>1, <1>2
<1>4. CASE \E k \in DOMAIN mainQueue : d \in Elements(mainQueue[k].new)
  <2>1. PICK k \in DOMAIN mainQueue : d \in Elements(mainQueue[k].new)
    BY <1>4
  <2>2. k \in DOMAIN mainQueue' /\ mainQueue'[k] = mainQueue[k]
    BY <1>1, <1>3
  <2> QED
    BY <2>1, <2>2 DEF OnItsWay
<1>5. CASE d \in answers[i].docs
  <2>1. answers[i] \in Answer
    BY <1>1
  <2>2. answers[i] # Failure
    BY <1>5 DEF Failure
  <2>3. PICK ds \in SUBSET Version : answers[i] = Success(ds)
    BY <2>1, <2>2 DEF Answer
  <2>4. answers[i].error = FALSE /\ answers[i].docs = ds /\ d \in ds
    BY <1>5, <2>3 DEF Success
  <2>5. b.new = Furnitures(ds)
    BY <2>4 DEF b, Insert
  <2>6. d \in Elements(b.new)
    BY <2>4, <2>5, FurnituresOfAnswer
  <2>7. Len(mainQueue) + 1 \in DOMAIN mainQueue'
    BY <1>1, <1>3
  <2> QED
    BY <1>3, <2>6, <2>7 DEF OnItsWay
<1>6. CASE \E k \in DOMAIN answers : d \in answers[k].docs /\ d \notin answers[i].docs
  <2>1. PICK k \in DOMAIN answers : d \in answers[k].docs /\ answers[k] # answers[i]
    BY <1>6
  <2>2. answers[k] \in Elements(answers)
    BY <1>1 DEF Elements
  <2>3. answers[k] \in Elements(answers') /\ answers' \in Seq(Answer)
    BY <1>1, <1>2, <2>1, <2>2, RemovalKeeps, Removal
  <2>4. PICK j \in DOMAIN answers' : answers'[j] = answers[k]
    BY <2>3 DEF Elements
  <2> QED
    BY <2>1, <2>4 DEF OnItsWay
<1> QED
  BY <1>4, <1>5, <1>6 DEF OnItsWay

\* A block that leaves the main queue lists what it carries; an alert carries nothing.
LEMMA BlockKeeps ==
  ASSUME ListInv, ListInv', NEW d \in Version, OnItsWay(d), answers' = answers,
         mainQueue # <<>>, mainQueue' = Tail(mainQueue),
         d \in Elements(Head(mainQueue).new) => FieldId[d] \in Ids(furnitures')
  PROVE  OnItsWay(d)' \/ FieldId[d] \in Ids(furnitures')
<1>1. mainQueue \in Seq(Block) /\ mainQueue' \in Seq(Block)
  BY DEF ListInv
<1>2. CASE \E k \in DOMAIN answers : d \in answers[k].docs
  BY <1>2 DEF OnItsWay
<1>3. CASE \E k \in DOMAIN mainQueue : d \in Elements(mainQueue[k].new)
  <2>1. PICK k \in DOMAIN mainQueue : d \in Elements(mainQueue[k].new)
    BY <1>3
  <2>2. mainQueue[k] \in {Head(mainQueue)} \cup Elements(mainQueue')
    <3>1. mainQueue[k] \in Elements(mainQueue)
      BY <1>1 DEF Elements
    <3> QED
      BY <1>1, <3>1, TailKeeps
  <2>3. CASE mainQueue[k] = Head(mainQueue)
    BY <2>1, <2>3
  <2>4. CASE mainQueue[k] \in Elements(mainQueue')
    <3>1. PICK j \in DOMAIN mainQueue' : mainQueue'[j] = mainQueue[k]
      BY <1>1, <2>4, ElementsOf
    <3> QED
      BY <2>1, <3>1 DEF OnItsWay
  <2> QED
    BY <2>2, <2>3, <2>4
<1> QED
  BY <1>2, <1>3 DEF OnItsWay

\* No step loses a document that is on its way.
LEMMA StepNothingLost ==
  ASSUME ListInv, ListInv', [Next]_vars, NEW d \in Version, FieldId[d] # 0, OnItsWay(d)
  PROVE  OnItsWay(d)' \/ FieldId[d] \in Ids(furnitures')
<1>0. /\ answers \in Seq(Answer) /\ answers' \in Seq(Answer)
      /\ mainQueue \in Seq(Block) /\ mainQueue' \in Seq(Block)
  BY DEF ListInv
<1>1. CASE ServerReads
  <2>1. PICK a \in Answer : answers' = Append(answers, a)
    BY <1>1 DEF ServerReads
  <2>2. Elements(answers) \subseteq Elements(answers')
    BY <1>0, <2>1, Appending
  <2>3. mainQueue' = mainQueue
    BY <1>1 DEF ServerReads
  <2> QED
    BY <1>0, <2>2, <2>3, StaysOnItsWay
<1>2. CASE \E i \in DOMAIN answers : AnswerArrives(i)
  BY <1>2, ArrivalKeeps
<1>3. CASE InsertBlock
  <2>1. mainQueue # <<>> /\ mainQueue' = Tail(mainQueue) /\ answers' = answers
    BY <1>3 DEF InsertBlock, network
  <2>2. AddToFurnituresList(NewOf(Head(mainQueue).new))
    BY <1>3 DEF InsertBlock
  <2>3. Head(mainQueue).new \in Seq(Version) /\ Listable(Head(mainQueue).new)
    <3>1. Head(mainQueue) \in Block
      BY <1>0, <2>1, HeadAndRest
    <3> QED
      BY <3>1 DEF Block
  <2>4. d \in Elements(Head(mainQueue).new) => FieldId[d] \in Ids(furnitures')
    BY <2>2, <2>3, InsertionLists
  <2> QED
    BY <2>1, <2>4, BlockKeeps
<1>4. CASE ErrorBlock
  <2>1. mainQueue # <<>> /\ mainQueue' = Tail(mainQueue) /\ answers' = answers
    BY <1>4 DEF ErrorBlock, network
  <2>2. Head(mainQueue).new = <<>>
    <3>1. Head(mainQueue) \in Block /\ Head(mainQueue).do = "alert"
      BY <1>0, <1>4, <2>1, HeadAndRest DEF ErrorBlock
    <3> QED
      BY <3>1 DEF Block
  <2>3. d \notin Elements(Head(mainQueue).new)
    BY <2>2 DEF Elements
  <2> QED
    BY <2>1, <2>3, BlockKeeps
<1>5. CASE ViewDidAppear \/ RefreshPulled \/ OpenDetails \/ DismissAlert \/ UNCHANGED vars
  <2>1. UNCHANGED <<answers, mainQueue>>
    BY <1>5 DEF ViewDidAppear, RefreshPulled, OpenDetails, DismissAlert, FetchFurnitures,
                network, vars
  <2> QED
    BY <2>1 DEF OnItsWay
<1> QED
  BY <1>1, <1>2, <1>3, <1>4, <1>5 DEF Next

\* Whatever order the answers come in and whatever the user does, a document that
\* an answer brings is not lost before its id is listed: with the fairness of
\* AnswerArrives and of the main queue that is AnswerGetsShown.
THEOREM NothingIsLost == Spec => NothingLost
<1>1. ListInv /\ ListInv' /\ [Next]_vars =>
        [\A d \in Version : FieldId[d] # 0 /\ OnItsWay(d) =>
           OnItsWay(d)' \/ FieldId[d] \in Ids(furnitures)']_vars
  BY StepNothingLost
<1> QED
  BY <1>1, InvCorrect, PTL DEF Spec, NothingLost
=============================================================================
