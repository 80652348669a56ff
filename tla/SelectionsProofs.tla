-------------------------- MODULE SelectionsProofs --------------------------
(* What Selected returns, for every sequence and every set, and what queues *)
(* and lists of listeners become when they are changed.                     *)
EXTENDS Selections, SequencesExt, TLAPS, WellFoundedInduction

\* < as a set of pairs.
Less == {p \in Nat \X Nat : p[1] < p[2]}

\* The natural numbers are well-founded, as the library proves of a relation made
\* from the operator <.
LEMMA LessIsWellFounded == IsWellFoundedOn(Less, Nat)
<1>1. OpToRel(<, Nat) = Less
  BY DEF OpToRel, Less
<1> QED
  BY <1>1, NatLessThanWellFounded

\* Every set of natural numbers but the empty one has a least number: induction is
\* done below by looking at the least number for which a claim fails.
LEMMA LeastNumber ==
  ASSUME NEW T, T \subseteq Nat, T # {}
  PROVE  \E x \in T : \A y \in T : x <= y
<1>1. PICK x \in T : \A y \in T : <<y, x>> \notin Less
  BY LessIsWellFounded, WFMin
<1>2. ASSUME NEW y \in T PROVE x <= y
  <2>1. <<y, x>> \in Nat \X Nat /\ <<y, x>>[1] = y /\ <<y, x>>[2] = x
    OBVIOUS
  <2>2. ~(y < x)
    BY <1>1, <2>1 DEF Less
  <2> QED
    BY <2>2
<1> QED
  BY <1>2

\* One step of the selection, and a function that takes m of them.
Step(f, s, R, n) ==
  IF n = 0 THEN <<>> ELSE IF s[n] \in R THEN Append(f[n - 1], s[n]) ELSE f[n - 1]
Selector(f, s, R, m) == f = [n \in 0..m |-> Step(f, s, R, n)]

\* The recursive definition has a solution: the least length without one could be
\* reached by extending the solution for the length before.
LEMMA SelectorExists ==
  ASSUME NEW s, NEW R, NEW l \in Nat
  PROVE  \E f : Selector(f, s, R, l)
<1> DEFINE T == {m \in Nat : ~\E f : Selector(f, s, R, m)}
<1> SUFFICES T = {}
  OBVIOUS
<1> SUFFICES ASSUME T # {} PROVE FALSE
  OBVIOUS
<1>1. PICK m \in T : \A y \in T : m <= y
  <2>1. T \subseteq Nat
    OBVIOUS
  <2> HIDE DEF T
  <2> QED
    BY <2>1, LeastNumber
<1>2. CASE m = 0
  <2>1. Selector([n \in 0..0 |-> <<>>], s, R, 0)
    BY DEF Selector, Step
  <2> QED
    BY <1>2, <2>1
<1>3. CASE m # 0
  <2>1. m - 1 \in Nat /\ m - 1 \notin T
    BY <1>1, <1>3
  <2>2. PICK f : Selector(f, s, R, m - 1)
    BY <2>1
  <2> DEFINE g == [n \in 0..m |-> IF n = m THEN Step(f, s, R, m) ELSE f[n]]
  <2>3. ASSUME NEW n \in 0..m PROVE g[n] = Step(g, s, R, n)
    <3>1. CASE n = m
      <4>1. g[m - 1] = f[m - 1]
        BY <1>3
      <4> QED
        BY <3>1, <4>1, <1>3 DEF Step
    <3>2. CASE n # m
      <4>1. n \in 0..(m - 1)
        BY <3>2
      <4>2. g[n] = Step(f, s, R, n)
        BY <2>2, <3>2, <4>1 DEF Selector
      <4>3. n # 0 => g[n - 1] = f[n - 1]
        BY <4>1
      <4> QED
        BY <4>1, <4>2, <4>3 DEF Step
    <3> QED
      BY <3>1, <3>2
  <2>4. Selector(g, s, R, m)
    BY <2>3 DEF Selector
  <2> QED
    BY <2>4
<1> QED
  BY <1>2, <1>3

\* So Selected is what the last step of such a solution yields.
LEMMA SelectedBySelector ==
  ASSUME NEW s, NEW R, Len(s) \in Nat
  PROVE  \E f : Selector(f, s, R, Len(s)) /\ Selected(s, R) = f[Len(s)]
<1> DEFINE f == CHOOSE f : Selector(f, s, R, Len(s))
<1>1. Selector(f, s, R, Len(s))
  BY SelectorExists
<1>2. Selected(s, R) = f[Len(s)]
  BY DEF Selected, Selector, Step
<1> QED
  BY <1>1, <1>2

\* What holds of the first n steps of a selection.
Elements(t) == {t[i] : i \in 1..Len(t)}
Distinct(t) == \A i, j \in 1..Len(t) : t[i] = t[j] => i = j

SelectedUpTo(t, s, R, S, n) ==
  /\ t \in Seq(S)
  /\ Elements(t) = {s[i] : i \in 1..n} \cap R
  /\ Distinct(s) => Distinct(t)

\* A selection without steps is empty, one more step appends the next element or
\* leaves it out.
LEMMA StepSelects ==
  ASSUME NEW S, NEW R, NEW s \in Seq(S), NEW n \in 1..Len(s),
         NEW t, SelectedUpTo(t, s, R, S, n - 1),
         NEW u, u = IF s[n] \in R THEN Append(t, s[n]) ELSE t
  PROVE  SelectedUpTo(u, s, R, S, n)
<1>0. s[n] \in S /\ t \in Seq(S)
  BY DEF SelectedUpTo
<1>1. CASE s[n] \in R
  <2>1. /\ u \in Seq(S) /\ Len(u) = Len(t) + 1
        /\ u[Len(t) + 1] = s[n]
        /\ \A i \in 1..Len(t) : u[i] = t[i]
    BY <1>0, <1>1
  <2>2. Elements(u) = Elements(t) \cup {s[n]}
    <3>1. 1..Len(u) = (1..Len(t)) \cup {Len(t) + 1}
      BY <1>0, <2>1
    <3> QED
      BY <1>0, <2>1, <3>1 DEF Elements
  <2>3. Elements(u) = {s[i] : i \in 1..n} \cap R
    BY <1>1, <2>2 DEF SelectedUpTo
  <2>4. ASSUME Distinct(s) PROVE Distinct(u)
    <3>1. \A i \in 1..Len(t) : t[i] # s[n]
      <4> SUFFICES ASSUME NEW i \in 1..Len(t), t[i] = s[n] PROVE FALSE
        OBVIOUS
      <4>1. t[i] \in Elements(t)
        BY DEF Elements
      <4>2. PICK k \in 1..(n - 1) : s[k] = t[i]
        BY <4>1 DEF SelectedUpTo
      <4>3. k \in 1..Len(s) /\ k # n
        OBVIOUS
      <4> QED
        BY <2>4, <4>2, <4>3 DEF Distinct
    <3>2. Distinct(t)
      BY <2>4 DEF SelectedUpTo
    <3> QED
      BY <1>0, <2>1, <3>1, <3>2 DEF Distinct
  <2> QED
    BY <2>1, <2>3, <2>4 DEF SelectedUpTo
<1>2. CASE s[n] \notin R
  <2>1. {s[i] : i \in 1..n} \cap R = {s[i] : i \in 1..(n - 1)} \cap R
    BY <1>2
  <2> QED
    BY <1>2, <2>1 DEF SelectedUpTo
<1> QED
  BY <1>1, <1>2

\* Selected(s, R) has the elements of s that are in R, and no more, and each of
\* them once if s has each of them once.
THEOREM SelectedProperties ==
  ASSUME NEW S, NEW R, NEW s \in Seq(S)
  PROVE  /\ Selected(s, R) \in Seq(S)
         /\ Elements(Selected(s, R)) = Elements(s) \cap R
         /\ Distinct(s) => Distinct(Selected(s, R))
<1>1. PICK f : Selector(f, s, R, Len(s)) /\ Selected(s, R) = f[Len(s)]
  BY SelectedBySelector
<1> DEFINE T == {n \in 0..Len(s) : ~SelectedUpTo(f[n], s, R, S, n)}
<1>2. T = {}
  <2> SUFFICES ASSUME T # {} PROVE FALSE
    OBVIOUS
  <2>1. PICK n \in T : \A y \in T : n <= y
    <3>1. T \subseteq Nat
      OBVIOUS
    <3> HIDE DEF T
    <3> QED
      BY <3>1, LeastNumber
  <2>2. f[n] = Step(f, s, R, n)
    BY <1>1 DEF Selector
  <2>3. CASE n = 0
    <3>1. f[0] = <<>>
      BY <2>2, <2>3 DEF Step
    <3>2. SelectedUpTo(<<>>, s, R, S, 0)
      BY DEF SelectedUpTo, Elements, Distinct
    <3> QED
      BY <2>3, <3>1, <3>2
  <2>4. CASE n # 0
    <3>1. n - 1 \in 0..Len(s) /\ n - 1 \notin T
      BY <2>1, <2>4
    <3>2. SelectedUpTo(f[n - 1], s, R, S, n - 1)
      BY <3>1
    <3>3. f[n] = IF s[n] \in R THEN Append(f[n - 1], s[n]) ELSE f[n - 1]
      BY <2>2, <2>4 DEF Step
    <3>4. n \in 1..Len(s)
      BY <2>4
    <3>5. SelectedUpTo(f[n], s, R, S, n)
      <4> HIDE DEF T
      <4> QED
        BY <3>2, <3>3, <3>4, StepSelects
    <3> QED
      BY <3>5
  <2> QED
    BY <2>3, <2>4
<1>3. SelectedUpTo(Selected(s, R), s, R, S, Len(s))
  BY <1>1, <1>2
<1> QED
  BY <1>3 DEF SelectedUpTo, Elements
-----------------------------------------------------------------------------
(* Queues and lists.                                                        *)

\* The head of a queue that is not empty, and the rest.
LEMMA HeadAndRest ==
  ASSUME NEW S, NEW q \in Seq(S), q # <<>>
  PROVE  /\ Head(q) \in S /\ Tail(q) \in Seq(S) /\ Len(Tail(q)) = Len(q) - 1
         /\ Head(q) \in Elements(q) /\ Elements(Tail(q)) \subseteq Elements(q)
<1>1. Head(q) \in S /\ Tail(q) \in Seq(S) /\ Len(Tail(q)) = Len(q) - 1
  OBVIOUS
<1>2. Head(q) \in Elements(q)
  BY DEF Elements
<1>3. Elements(Tail(q)) \subseteq Elements(q)
  <2> SUFFICES ASSUME NEW i \in 1..Len(Tail(q)) PROVE Tail(q)[i] \in Elements(q)
    BY DEF Elements
  <2>1. Tail(q)[i] = q[i + 1] /\ i + 1 \in 1..Len(q)
    BY <1>1
  <2> QED
    BY <2>1 DEF Elements
<1> QED
  BY <1>1, <1>2, <1>3

\* A queue loses its first element and no other.
LEMMA TailKeeps ==
  ASSUME NEW S, NEW q \in Seq(S), q # <<>>
  PROVE  Elements(q) = {Head(q)} \cup Elements(Tail(q))
<1> DEFINE t == Tail(q)
<1>1. /\ Len(t) = Len(q) - 1 /\ Len(q) \in Nat /\ Head(q) = q[1]
      /\ \A k \in 1..Len(t) : t[k] = q[k + 1]
  OBVIOUS
<1>2. Head(q) \in Elements(q) /\ Elements(t) \subseteq Elements(q)
  BY HeadAndRest
<1> HIDE DEF t
<1>3. ASSUME NEW i \in 1..Len(q), i # 1 PROVE q[i] \in Elements(t)
  <2> DEFINE k == i - 1
  <2>1. k \in 1..Len(t) /\ k + 1 = i
    BY <1>1, <1>3
  <2> HIDE DEF k
  <2> QED
    BY <1>1, <2>1 DEF Elements
<1> QED
  BY <1>1, <1>2, <1>3 DEF Elements, t

\* A queue with another element at its end.
LEMMA Appending ==
  ASSUME NEW S, NEW q \in Seq(S), NEW x \in S
  PROVE  /\ Append(q, x) \in Seq(S) /\ Len(Append(q, x)) = Len(q) + 1
         /\ Append(q, x) # <<>>
         /\ Elements(Append(q, x)) = Elements(q) \cup {x}
<1> DEFINE r == Append(q, x)
<1>1. /\ r \in Seq(S) /\ Len(r) = Len(q) + 1 /\ r[Len(q) + 1] = x
      /\ \A i \in 1..Len(q) : r[i] = q[i]
  OBVIOUS
<1>2. r # <<>>
  BY <1>1
<1>3. Len(q) \in Nat
  OBVIOUS
<1> HIDE DEF r
<1>4. 1..Len(r) = (1..Len(q)) \cup {Len(q) + 1}
  BY <1>1, <1>3
<1>5. Elements(r) = Elements(q) \cup {x}
  BY <1>1, <1>3, <1>4 DEF Elements
<1> QED
  BY <1>1, <1>2, <1>5 DEF r

\* A queue with others at its end.
LEMMA Concatenating ==
  ASSUME NEW S, NEW q \in Seq(S), NEW e \in Seq(S)
  PROVE  /\ q \o e \in Seq(S) /\ Len(q \o e) = Len(q) + Len(e)
         /\ \A i \in 1..Len(q) : (q \o e)[i] = q[i]
         /\ \A i \in 1..Len(q \o e) :
              i \notin 1..Len(q) => i - Len(q) \in 1..Len(e) /\ (q \o e)[i] = e[i - Len(q)]
         /\ Elements(q \o e) = Elements(q) \cup Elements(e)
<1> DEFINE r == q \o e
<1>1. /\ r \in Seq(S) /\ Len(r) = Len(q) + Len(e)
      /\ \A i \in 1..Len(q) : r[i] = q[i]
      /\ \A i \in 1..Len(e) : r[Len(q) + i] = e[i]
  OBVIOUS
<1>2. Len(q) \in Nat /\ Len(e) \in Nat
  OBVIOUS
<1> HIDE DEF r
<1>3. ASSUME NEW i \in 1..Len(r), i \notin 1..Len(q)
      PROVE  i - Len(q) \in 1..Len(e) /\ r[i] = e[i - Len(q)]
  <2>1. i - Len(q) \in 1..Len(e) /\ Len(q) + (i - Len(q)) = i
    BY <1>1, <1>2, <1>3
  <2> QED
    BY <1>1, <2>1
<1>4. Elements(r) \subseteq Elements(q) \cup Elements(e)
  <2> SUFFICES ASSUME NEW k \in 1..Len(r) PROVE r[k] \in Elements(q) \cup Elements(e)
    BY DEF Elements
  <2>1. CASE k \in 1..Len(q)
    BY <1>1, <2>1 DEF Elements
  <2>2. CASE k \notin 1..Len(q)
    <3> DEFINE j == k - Len(q)
    <3>1. j \in 1..Len(e) /\ r[k] = e[j]
      BY <1>3, <2>2
    <3> HIDE DEF j
    <3> QED
      BY <3>1 DEF Elements
  <2> QED
    BY <2>1, <2>2
<1>5. \A i \in 1..Len(q) : q[i] \in Elements(r)
  BY <1>1, <1>2 DEF Elements
<1>6. ASSUME NEW i \in 1..Len(e) PROVE e[i] \in Elements(r)
  <2>1. Len(q) + i \in 1..Len(r) /\ r[Len(q) + i] = e[i]
    BY <1>1, <1>2
  <2> QED
    BY <2>1 DEF Elements
<1>7. Elements(r) = Elements(q) \cup Elements(e)
  BY <1>4, <1>5, <1>6 DEF Elements
<1> QED
  BY <1>1, <1>3, <1>7 DEF r

\* A list without one of its elements.
LEMMA Removal ==
  ASSUME NEW S, NEW q \in Seq(S), NEW i \in DOMAIN q
  PROVE  /\ RemoveAt(q, i) \in Seq(S) /\ Len(RemoveAt(q, i)) = Len(q) - 1
         /\ Elements(RemoveAt(q, i)) \subseteq Elements(q)
         /\ Distinct(q) => /\ Distinct(RemoveAt(q, i))
                           /\ q[i] \notin Elements(RemoveAt(q, i))
<1> DEFINE a == SubSeq(q, 1, i - 1)
           b == SubSeq(q, i + 1, Len(q))
<1>0. i \in 1..Len(q) /\ Len(q) \in Nat
  OBVIOUS
<1>1. a \in Seq(S) /\ Len(a) = i - 1 /\ \A k \in 1..(i - 1) : a[k] = q[k]
  OBVIOUS
<1>2. /\ b \in Seq(S) /\ Len(b) = Len(q) - i
      /\ \A k \in 1..(Len(q) - i) : b[k] = q[k + i]
  OBVIOUS
<1> DEFINE r == a \o b
<1>3. RemoveAt(q, i) = r
  BY DEF RemoveAt
<1> HIDE DEF a, b
<1>4. /\ r \in Seq(S) /\ Len(r) = Len(a) + Len(b)
      /\ \A k \in 1..Len(a) : r[k] = a[k]
      /\ \A k \in 1..Len(b) : r[Len(a) + k] = b[k]
  <2>1. a \in Seq(S) /\ b \in Seq(S)
    BY <1>1, <1>2
  <2> QED
    BY <2>1
<1>l. Len(r) = Len(q) - 1
  <2>1. Len(a) = i - 1 /\ Len(b) = Len(q) - i /\ Len(r) = Len(a) + Len(b)
    BY <1>1, <1>2, <1>4
  <2> HIDE DEF r
  <2> QED
    BY <1>0, <2>1
<1> HIDE DEF r
<1>5. ASSUME NEW k \in 1..Len(r)
      PROVE  /\ k < i => r[k] = q[k]
             /\ k >= i => k + 1 \in 1..Len(q) /\ r[k] = q[k + 1]
  <2>0. k \in Nat /\ k >= 1 /\ k <= Len(q) - 1 /\ i \in Nat /\ Len(q) \in Nat
    BY <1>0, <1>l
  <2>1. CASE k < i
    <3>1. k \in 1..(i - 1) /\ k \in 1..Len(a)
      BY <1>1, <2>0, <2>1
    <3> QED
      BY <1>1, <1>4, <2>0, <2>1, <3>1
  <2>2. CASE k >= i
    <3> DEFINE j == k - (i - 1)
    <3>1. j \in 1..(Len(q) - i) /\ j + i = k + 1 /\ (i - 1) + j = k
      BY <1>0, <2>0, <2>2
    <3> HIDE DEF j
    <3>2. r[(i - 1) + j] = b[j] /\ b[j] = q[j + i]
      BY <1>1, <1>2, <1>4, <3>1
    <3>3. k + 1 \in 1..Len(q)
      BY <2>0
    <3> QED
      BY <2>0, <2>2, <3>1, <3>2, <3>3
  <2> QED
    BY <2>0, <2>1, <2>2
<1>6. Elements(r) \subseteq Elements(q)
  <2> SUFFICES ASSUME NEW k \in 1..Len(r) PROVE r[k] \in Elements(q)
    BY DEF Elements
  <2>1. k \in Nat /\ i \in Nat /\ (k < i \/ k >= i) /\ (k < i => k \in 1..Len(q))
    BY <1>0, <1>4
  <2>2. PICK m \in 1..Len(q) : r[k] = q[m]
    BY <1>5, <2>1
  <2> QED
    BY <2>2 DEF Elements
<1>7. ASSUME Distinct(q) PROVE Distinct(r) /\ q[i] \notin Elements(r)
  <2>1. \A x, y \in 1..Len(q) : q[x] = q[y] => x = y
    BY <1>7 DEF Distinct
  <2> DEFINE at(k) == IF k < i THEN k ELSE k + 1
  <2>2. ASSUME NEW k \in 1..Len(r)
        PROVE  at(k) \in 1..Len(q) /\ at(k) # i /\ r[k] = q[at(k)]
    <3>1. k \in Int /\ i \in Int /\ 1 <= k /\ k <= Len(q) - 1 /\ Len(q) \in Nat
      BY <1>0, <1>l
    <3>2. CASE k < i
      BY <1>5, <3>1, <3>2
    <3>3. CASE k >= i
      BY <1>5, <3>1, <3>3
    <3> QED
      BY <3>1, <3>2, <3>3
  <2>3. Distinct(r)
    <3> SUFFICES ASSUME NEW x \in 1..Len(r), NEW y \in 1..Len(r), r[x] = r[y] PROVE x = y
      BY DEF Distinct
    <3>1. at(x) = at(y)
      <4>1. /\ at(x) \in 1..Len(q) /\ at(y) \in 1..Len(q)
            /\ q[at(x)] = q[at(y)]
        BY <2>2
      <4> HIDE DEF at
      <4> QED
        BY <2>1, <4>1
    <3>2. x \in Int /\ y \in Int /\ i \in Int
      BY <1>0, <1>l
    <3> QED
      BY <3>1, <3>2
  <2>4. ASSUME NEW k \in 1..Len(r) PROVE r[k] # q[i]
    <3>1. at(k) \in 1..Len(q) /\ at(k) # i /\ r[k] = q[at(k)]
      BY <2>2
    <3> HIDE DEF at
    <3> QED
      BY <1>0, <2>1, <3>1
  <2> QED
    BY <2>3, <2>4 DEF Elements
<1> QED
  BY <1>0, <1>1, <1>2, <1>3, <1>4, <1>6, <1>7

\* And it keeps the others.
LEMMA RemovalKeeps ==
  ASSUME NEW S, NEW q \in Seq(S), NEW i \in DOMAIN q
  PROVE  \A x \in Elements(q) : x # q[i] => x \in Elements(RemoveAt(q, i))
<1> DEFINE a == SubSeq(q, 1, i - 1)
           b == SubSeq(q, i + 1, Len(q))
<1>0. i \in 1..Len(q) /\ Len(q) \in Nat
  OBVIOUS
<1>1. a \in Seq(S) /\ Len(a) = i - 1 /\ \A k \in 1..(i - 1) : a[k] = q[k]
  OBVIOUS
<1>2. /\ b \in Seq(S) /\ Len(b) = Len(q) - i
      /\ \A k \in 1..(Len(q) - i) : b[k] = q[k + i]
  OBVIOUS
<1>3. RemoveAt(q, i) = a \o b
  BY DEF RemoveAt
<1> HIDE DEF a, b
<1>4. Elements(a \o b) = Elements(a) \cup Elements(b)
  BY <1>1, <1>2, Concatenating
<1>5. ASSUME NEW k \in 1..Len(q), k # i PROVE q[k] \in Elements(a) \cup Elements(b)
  <2>1. CASE k < i
    <3>1. k \in 1..Len(a) /\ a[k] = q[k]
      BY <1>0, <1>1, <2>1
    <3> QED
      BY <3>1 DEF Elements
  <2>2. CASE k > i
    <3> DEFINE j == k - i
    <3>1. j \in 1..Len(b) /\ j \in 1..(Len(q) - i) /\ j + i = k
      BY <1>0, <1>2, <2>2
    <3> HIDE DEF j
    <3>2. b[j] = q[k]
      BY <1>2, <3>1
    <3> QED
      BY <3>1, <3>2 DEF Elements
  <2> QED
    BY <1>0, <1>5, <2>1, <2>2
<1> QED
  BY <1>3, <1>4, <1>5 DEF Elements
=============================================================================
