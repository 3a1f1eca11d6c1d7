------------------------- MODULE ManagerTimersProofs -------------------------
(***************************************************************************)
(* Proofs about ManagerTimers, for any clients, addresses and intervals:   *)
(* its types, that the lists reach the live timers and no others, each     *)
(* once and in the order in which they are due, that a cancelled timer is  *)
(* gone, and that a timer which nobody cancelled goes on.                  *)
(***************************************************************************)
EXTENDS ManagerTimers, SequenceTheorems, WellFoundedInduction, TLAPS

-----------------------------------------------------------------------------
(* Sequences: what is left of one, and what one is with an item more *)

\* The items of a sequence, by position.
LEMMA ItemsOf ==
    ASSUME NEW S, NEW s \in Seq(S)
    PROVE  /\ Len(s) \in Nat
           /\ DOMAIN s = 1 .. Len(s)
           /\ ToSet(s) \subseteq S
           /\ \A x : x \in ToSet(s) <=> \E i \in 1 .. Len(s) : s[i] = x
  BY LenProperties, ElementOfSeq DEF ToSet

\* What is in the concatenation of two sequences.
LEMMA ItemsOfConcat ==
    ASSUME NEW S, NEW s \in Seq(S), NEW u \in Seq(S)
    PROVE  /\ s \o u \in Seq(S)
           /\ ToSet(s \o u) = ToSet(s) \cup ToSet(u)
<1>1. /\ s \o u \in Seq(S)
      /\ Len(s \o u) = Len(s) + Len(u)
      /\ \A i \in 1 .. Len(s) + Len(u) :
             (s \o u)[i] = IF i <= Len(s) THEN s[i] ELSE u[i - Len(s)]
  BY ConcatProperties
<1>2. /\ Len(s) \in Nat /\ \A x : x \in ToSet(s) <=> \E i \in 1 .. Len(s) : s[i] = x
      /\ Len(u) \in Nat /\ \A x : x \in ToSet(u) <=> \E i \in 1 .. Len(u) : u[i] = x
      /\ \A x : x \in ToSet(s \o u) <=> \E i \in 1 .. Len(s \o u) : (s \o u)[i] = x
  BY <1>1, ItemsOf
<1>3. ASSUME NEW x \in ToSet(s) PROVE x \in ToSet(s \o u)
  <2>1. PICK i \in 1 .. Len(s) : s[i] = x
    BY <1>2
  <2> QED  BY <1>1, <1>2, <2>1
<1>4. ASSUME NEW x \in ToSet(u) PROVE x \in ToSet(s \o u)
  <2>1. PICK i \in 1 .. Len(u) : u[i] = x
    BY <1>2
  <2>2. Len(s) + i \in 1 .. Len(s) + Len(u) /\ (s \o u)[Len(s) + i] = u[i]
    BY <1>1, <1>2
  <2> QED  BY <1>1, <1>2, <2>1, <2>2
<1>5. ASSUME NEW x \in ToSet(s \o u) PROVE x \in ToSet(s) \cup ToSet(u)
  <2>1. PICK i \in 1 .. Len(s) + Len(u) : (s \o u)[i] = x
    BY <1>1, <1>2
  <2>2. CASE i <= Len(s)
    BY <1>1, <1>2, <2>1, <2>2
  <2>3. CASE i > Len(s)
    <3>1. i - Len(s) \in 1 .. Len(u) /\ u[i - Len(s)] = x
      BY <1>1, <1>2, <2>1, <2>3
    <3> QED  BY <1>2, <3>1
  <2> QED  BY <1>2, <2>1, <2>2, <2>3
<1> QED
  BY <1>1, <1>3, <1>4, <1>5

\* A set of numbers has a least one.
LEMMA LeastOf ==
    ASSUME NEW I, I \subseteq Nat, I # {}
    PROVE  \E i \in I : \A j \in I : i <= j
<1> DEFINE R == OpToRel(<, Nat)
<1>1. IsWellFoundedOn(R, Nat)
  BY NatLessThanWellFounded
<1>2. \A i, j \in Nat : j < i => <<j, i>> \in R
  BY DEF OpToRel
<1> HIDE DEF R
<1>3. PICK i \in I : \A j \in I : ~(<<j, i>> \in R)
  BY <1>1, WFMin
<1>4. ASSUME NEW j \in I PROVE i <= j
  <2>1. i \in Nat /\ j \in Nat
    OBVIOUS
  <2>2. ~(j < i)
    BY <1>2, <1>3, <2>1
  <2> QED  BY <2>1, <2>2
<1> QED
  BY <1>4

\* The first position of an item that is there.
LEMMA FirstPosition ==
    ASSUME NEW S, NEW s \in Seq(S), NEW x \in ToSet(s)
    PROVE  \E i \in 1 .. Len(s) :
              /\ s[i] = x
              /\ \A j \in 1 .. i - 1 : s[j] # x
              /\ RemoveFirst(s, x) = RemoveAt(s, i)
<1> DEFINE I == {i \in 1 .. Len(s) : s[i] = x}
<1>1. Len(s) \in Nat /\ I # {} /\ I \subseteq Nat
  BY ItemsOf
<1>2. PICK i \in I : \A j \in I : i <= j
  <2> HIDE DEF I
  <2> QED  BY <1>1, LeastOf
<1>3. \A k \in I : (\A j \in I : k <= j) => k = i
  BY <1>1, <1>2
<1>4. Min(I) = i
  <2> HIDE DEF I
  <2> QED  BY <1>2, <1>3 DEF Min
<1>5. \A j \in 1 .. i - 1 : s[j] # x
  BY <1>1, <1>2
<1>6. RemoveFirst(s, x) = RemoveAt(s, i)
  BY <1>1, <1>2, <1>4 DEF RemoveFirst, SelectInSeq
<1> QED
  BY <1>5, <1>6

\* The item at position i goes, and those behind it move down.
LEMMA RemoveAtItems ==
    ASSUME NEW S, NEW s \in Seq(S), NEW i \in 1 .. Len(s)
    PROVE  /\ RemoveAt(s, i) \in Seq(S)
           /\ Len(RemoveAt(s, i)) = Len(s) - 1
           /\ \A j \in 1 .. Len(s) - 1 :
                 RemoveAt(s, i)[j] = IF j < i THEN s[j] ELSE s[j + 1]
<1> DEFINE front == SubSeq(s, 1, i - 1)
           back == SubSeq(s, i + 1, Len(s))
<1>1. /\ Len(s) \in Nat
      /\ \A k \in 1 .. Len(s) : s[k] \in S
  BY LenProperties, ElementOfSeq
<1>2. /\ front \in Seq(S)
      /\ Len(front) = i - 1
      /\ \A j \in 1 .. i - 1 : front[j] = s[j]
  BY <1>1, SubSeqProperties
<1>3. /\ back \in Seq(S)
      /\ Len(back) = Len(s) - i
      /\ \A j \in 1 .. Len(s) - i : back[j] = s[i + j]
  BY <1>1, SubSeqProperties
<1> HIDE DEF front, back
<1>4. /\ front \o back \in Seq(S)
      /\ Len(front \o back) = Len(s) - 1
      /\ \A j \in 1 .. Len(s) - 1 :
            (front \o back)[j] = IF j <= i - 1 THEN front[j] ELSE back[j - (i - 1)]
  <2>1. /\ front \o back \in Seq(S)
        /\ Len(front \o back) = Len(front) + Len(back)
        /\ \A j \in 1 .. Len(front) + Len(back) : (front \o back)[j] =
              IF j <= Len(front) THEN front[j] ELSE back[j - Len(front)]
    BY <1>1, <1>2, <1>3, ConcatProperties
  <2>2. Len(front) + Len(back) = Len(s) - 1
    BY <1>1, <1>2, <1>3
  <2> QED  BY <1>1, <1>2, <1>3, <2>1, <2>2
<1>5. RemoveAt(s, i) = front \o back
  BY DEF RemoveAt, front, back
<1> QED
  BY <1>1, <1>2, <1>3, <1>4, <1>5

\* What is left of a list, by position.
LEMMA RemovedItems ==
    ASSUME NEW S, NEW s \in Seq(S), NEW i \in 1 .. Len(s),
           \A j \in 1 .. i - 1 : s[j] # s[i]
    PROVE  /\ RemoveFirst(s, s[i]) \in Seq(S)
           /\ Len(RemoveFirst(s, s[i])) = Len(s) - 1
           /\ \A j \in 1 .. Len(s) - 1 :
                 RemoveFirst(s, s[i])[j] = IF j < i THEN s[j] ELSE s[j + 1]
<1>1. Len(s) \in Nat /\ s[i] \in ToSet(s)
  BY ItemsOf
<1>2. PICK k \in 1 .. Len(s) :
          /\ s[k] = s[i]
          /\ \A j \in 1 .. k - 1 : s[j] # s[i]
          /\ RemoveFirst(s, s[i]) = RemoveAt(s, k)
  BY <1>1, FirstPosition
<1>3. k = i
  BY <1>1, <1>2
<1> QED
  BY <1>2, <1>3, RemoveAtItems

LEMMA AbsentKept ==
    ASSUME NEW S, NEW s \in Seq(S), NEW x, x \notin ToSet(s)
    PROVE  RemoveFirst(s, x) = s
<1>1. ~\E i \in 1 .. Len(s) : s[i] = x
  BY ItemsOf
<1> QED
  BY <1>1 DEF RemoveFirst, SelectInSeq

LEMMA AbsentFromEmpty ==
    ASSUME NEW x
    PROVE  ToSet(<<>>) = {} /\ RemoveFirst(<<>>, x) = <<>>
<1> DEFINE s == <<>>
<1>1. s \in Seq({}) /\ Len(s) = 0
  BY EmptySeq
<1> HIDE DEF s
<1>2. \A S : s \in Seq(S) => ToSet(s) \subseteq S
  BY ItemsOf
<1>3. ToSet(s) = {}
  BY <1>1, <1>2
<1>4. RemoveFirst(s, x) = s
  BY <1>1, <1>3, AbsentKept
<1> QED
  BY <1>3, <1>4 DEF s

\* Nothing but the item goes.
LEMMA RemovedHolds ==
    ASSUME NEW S, NEW s \in Seq(S), NEW x
    PROVE  /\ RemoveFirst(s, x) \in Seq(S)
           /\ ToSet(RemoveFirst(s, x)) \subseteq ToSet(s)
           /\ ToSet(s) \ {x} \subseteq ToSet(RemoveFirst(s, x))
<1>1. CASE x \notin ToSet(s)
  BY <1>1, AbsentKept
<1>2. CASE x \in ToSet(s)
  <2> DEFINE r == RemoveFirst(s, x)
  <2>1. PICK i \in 1 .. Len(s) : s[i] = x /\ \A j \in 1 .. i - 1 : s[j] # x
    BY <1>2, FirstPosition
  <2>2. /\ r \in Seq(S)
        /\ Len(r) = Len(s) - 1
        /\ \A j \in 1 .. Len(s) - 1 : r[j] = IF j < i THEN s[j] ELSE s[j + 1]
    BY <2>1, RemovedItems
  <2> HIDE DEF r
  <2>3. /\ Len(s) \in Nat
        /\ \A y : y \in ToSet(s) <=> \E j \in 1 .. Len(s) : s[j] = y
        /\ \A y : y \in ToSet(r) <=> \E j \in 1 .. Len(r) : r[j] = y
    BY <2>2, ItemsOf
  <2>4. ASSUME NEW y \in ToSet(r) PROVE y \in ToSet(s)
    <3>1. PICK j \in 1 .. Len(s) - 1 : r[j] = y
      BY <2>2, <2>3
    <3>2. j \in 1 .. Len(s) /\ j + 1 \in 1 .. Len(s)
      BY <2>3
    <3> QED  BY <2>2, <2>3, <3>1, <3>2
  <2>5. ASSUME NEW y \in ToSet(s), y # x PROVE y \in ToSet(r)
    <3>1. PICK j \in 1 .. Len(s) : s[j] = y
      BY <2>3
    <3>2. CASE j < i
      <4>1. j \in 1 .. Len(s) - 1 /\ r[j] = y
        BY <2>2, <2>3, <3>1, <3>2
      <4> QED  BY <2>2, <2>3, <4>1
    <3>3. CASE j > i
      <4>1. j - 1 \in 1 .. Len(s) - 1 /\ ~(j - 1 < i) /\ (j - 1) + 1 = j
        BY <2>3, <3>1, <3>3
      <4>2. r[j - 1] = y
        BY <2>2, <3>1, <4>1
      <4> QED  BY <2>2, <2>3, <4>1, <4>2
    <3>4. j # i
      BY <2>1, <2>5, <3>1
    <3> QED  BY <3>2, <3>3, <3>4, <2>3
  <2> QED  BY <2>2, <2>4, <2>5 DEF r
<1> QED
  BY <1>1, <1>2

\* An item is inserted at position i, and those from i on move up.
LEMMA InsertAtItems ==
    ASSUME NEW S, NEW s \in Seq(S), NEW i \in 1 .. Len(s) + 1, NEW e \in S
    PROVE  /\ InsertAt(s, i, e) \in Seq(S)
           /\ Len(InsertAt(s, i, e)) = Len(s) + 1
           /\ \A j \in 1 .. Len(s) + 1 :
                 InsertAt(s, i, e)[j] =
                    IF j < i THEN s[j] ELSE IF j = i THEN e ELSE s[j - 1]
<1> DEFINE front == SubSeq(s, 1, i - 1)
           back == SubSeq(s, i, Len(s))
           first == front \o <<e>>
<1>1. /\ Len(s) \in Nat
      /\ \A k \in 1 .. Len(s) : s[k] \in S
  BY LenProperties, ElementOfSeq
<1>2. /\ front \in Seq(S)
      /\ Len(front) = i - 1
      /\ \A j \in 1 .. i - 1 : front[j] = s[j]
  BY <1>1, SubSeqProperties
<1>3. /\ back \in Seq(S)
      /\ Len(back) = Len(s) - i + 1
      /\ \A j \in 1 .. Len(s) - i + 1 : back[j] = s[i + j - 1]
  BY <1>1, SubSeqProperties
<1>4. <<e>> \in Seq(S) /\ Len(<<e>>) = 1 /\ <<e>>[1] = e
  OBVIOUS
<1> HIDE DEF front, back
<1>5. /\ first \in Seq(S)
      /\ Len(first) = i
      /\ \A j \in 1 .. i : first[j] = IF j < i THEN s[j] ELSE e
  <2>1. /\ first \in Seq(S)
        /\ Len(first) = Len(front) + 1
        /\ \A j \in 1 .. Len(front) + 1 :
              first[j] = IF j <= Len(front) THEN front[j] ELSE <<e>>[j - Len(front)]
    BY <1>2, <1>4, ConcatProperties
  <2>2. Len(front) + 1 = i
    BY <1>1, <1>2
  <2> HIDE DEF first
  <2>3. ASSUME NEW j \in 1 .. i
        PROVE  first[j] = IF j < i THEN s[j] ELSE e
    <3>1. CASE j < i
      BY <1>1, <1>2, <2>1, <2>2, <3>1
    <3>2. CASE j = i
      BY <1>1, <1>2, <1>4, <2>1, <2>2, <3>2
    <3> QED  BY <1>1, <3>1, <3>2
  <2> QED  BY <2>1, <2>2, <2>3
<1> HIDE DEF first
<1>6. /\ first \o back \in Seq(S)
      /\ Len(first \o back) = Len(s) + 1
      /\ \A j \in 1 .. Len(s) + 1 :
            (first \o back)[j] = IF j <= i THEN first[j] ELSE back[j - i]
  <2>1. /\ first \o back \in Seq(S)
        /\ Len(first \o back) = Len(first) + Len(back)
        /\ \A j \in 1 .. Len(first) + Len(back) : (first \o back)[j] =
              IF j <= Len(first) THEN first[j] ELSE back[j - Len(first)]
    BY <1>1, <1>3, <1>5, ConcatProperties
  <2>2. Len(first) + Len(back) = Len(s) + 1
    BY <1>1, <1>3, <1>5
  <2> QED  BY <1>1, <1>3, <1>5, <2>1, <2>2
<1>7. InsertAt(s, i, e) = first \o back
  BY DEF InsertAt, first, front, back
<1> QED
  BY <1>1, <1>3, <1>5, <1>6, <1>7

-----------------------------------------------------------------------------
(* Lists of timers: no timer twice, and the next to trigger first *)

OneToOne(s) == \A i, j \in 1 .. Len(s) : s[i] = s[j] => i = j
InOrder(s, delays) ==
    \A i, j \in 1 .. Len(s) : i < j => delays[s[i]] <= delays[s[j]]

LEMMA RemovedList ==
    ASSUME NEW S, NEW s \in Seq(S), NEW x, NEW d, OneToOne(s), InOrder(s, d)
    PROVE  /\ RemoveFirst(s, x) \in Seq(S)
           /\ ToSet(RemoveFirst(s, x)) = ToSet(s) \ {x}
           /\ OneToOne(RemoveFirst(s, x))
           /\ InOrder(RemoveFirst(s, x), d)
<1>1. CASE x \notin ToSet(s)
  BY <1>1, AbsentKept
<1>2. CASE x \in ToSet(s)
  <2> DEFINE r == RemoveFirst(s, x)
  <2>1. PICK i \in 1 .. Len(s) : s[i] = x /\ \A j \in 1 .. i - 1 : s[j] # x
    BY <1>2, FirstPosition
  <2>2. /\ r \in Seq(S)
        /\ Len(r) = Len(s) - 1
        /\ \A j \in 1 .. Len(s) - 1 : r[j] = IF j < i THEN s[j] ELSE s[j + 1]
    BY <2>1, RemovedItems
  <2>3. ToSet(r) \subseteq ToSet(s) /\ ToSet(s) \ {x} \subseteq ToSet(r)
    BY RemovedHolds
  <2> HIDE DEF r
  <2>4. /\ Len(s) \in Nat
        /\ \A y : y \in ToSet(r) <=> \E j \in 1 .. Len(r) : r[j] = y
    BY <2>2, ItemsOf
  <2> DEFINE from(j) == IF j < i THEN j ELSE j + 1
  <2>5. \A j \in 1 .. Len(r) :
            /\ from(j) \in 1 .. Len(s) /\ from(j) # i /\ r[j] = s[from(j)]
            /\ \A k \in 1 .. Len(r) : /\ j < k => from(j) < from(k)
                                      /\ from(j) = from(k) => j = k
    BY <2>2, <2>4
  <2> HIDE DEF from
  <2>6. x \notin ToSet(r)
    BY <2>1, <2>4, <2>5 DEF OneToOne
  <2>7. OneToOne(r)
    BY <2>5 DEF OneToOne
  <2>8. InOrder(r, d)
    BY <2>5 DEF InOrder
  <2> QED  BY <2>2, <2>3, <2>6, <2>7, <2>8 DEF r
<1> QED
  BY <1>1, <1>2

\* Where a timer is put: behind all that are due no later, before the others.
LEMMA PlaceOf ==
    ASSUME NEW S, NEW s \in Seq(S), NEW a \in S, NEW d \in [S -> Int],
           InOrder(s, d)
    PROVE  \E p \in 1 .. Len(s) + 1 :
              /\ Inserted(s, a, d) = InsertAt(s, p, a)
              /\ \A j \in 1 .. Len(s) :
                    IF j < p THEN d[s[j]] <= d[a] ELSE d[a] <= d[s[j]]
<1> DEFINE later == {i \in DOMAIN s : d[s[i]] > d[a]}
<1>1. /\ Len(s) \in Nat /\ DOMAIN s = 1 .. Len(s)
      /\ \A j \in 1 .. Len(s) : s[j] \in S /\ d[s[j]] \in Int
      /\ d[a] \in Int
  BY ItemsOf, ElementOfSeq
<1>2. CASE later = {}
  <2>1. Inserted(s, a, d) = InsertAt(s, Len(s) + 1, a)
    BY <1>2 DEF Inserted
  <2>2. \A j \in 1 .. Len(s) : j < Len(s) + 1 /\ d[s[j]] <= d[a]
    BY <1>1, <1>2
  <2> QED  BY <1>1, <2>1, <2>2
<1>3. CASE later # {}
  <2> DEFINE p == CHOOSE i \in later : \A j \in later : i <= j
  <2>1. later \subseteq Nat
    BY <1>1
  <2>2. \E i \in later : \A j \in later : i <= j
    <3> HIDE DEF later
    <3> QED  BY <1>3, <2>1, LeastOf
  <2>3. p \in later /\ \A j \in later : p <= j
    <3> HIDE DEF later
    <3> QED  BY <2>2
  <2>4. Inserted(s, a, d) = InsertAt(s, p, a)
    BY <1>3 DEF Inserted
  <2> HIDE DEF p
  <2>5. p \in 1 .. Len(s) /\ d[s[p]] > d[a] /\ \A j \in later : p <= j
    BY <1>1, <2>3
  <2>6. ASSUME NEW j \in 1 .. Len(s)
        PROVE  IF j < p THEN d[s[j]] <= d[a] ELSE d[a] <= d[s[j]]
    <3>1. CASE j < p
      <4>1. j \notin later
        BY <1>1, <2>5, <3>1
      <4> QED  BY <1>1, <3>1, <4>1
    <3>2. CASE ~(j < p)
      <4>1. j = p \/ p < j
        BY <1>1, <2>5, <3>2
      <4>2. d[s[p]] <= d[s[j]]
        BY <1>1, <2>5, <4>1 DEF InOrder
      <4> QED  BY <1>1, <2>5, <3>2, <4>2
    <3> QED  BY <3>1, <3>2
  <2> QED  BY <1>1, <2>4, <2>5, <2>6
<1> QED
  BY <1>2, <1>3

LEMMA InsertedList ==
    ASSUME NEW S, NEW s \in Seq(S), NEW a \in S, NEW d \in [S -> Int],
           OneToOne(s), InOrder(s, d), a \notin ToSet(s)
    PROVE  /\ Inserted(s, a, d) \in Seq(S)
           /\ ToSet(Inserted(s, a, d)) = ToSet(s) \cup {a}
           /\ OneToOne(Inserted(s, a, d))
           /\ InOrder(Inserted(s, a, d), d)
<1>1. PICK p \in 1 .. Len(s) + 1 :
          /\ Inserted(s, a, d) = InsertAt(s, p, a)
          /\ \A j \in 1 .. Len(s) :
                IF j < p THEN d[s[j]] <= d[a] ELSE d[a] <= d[s[j]]
  BY PlaceOf
<1> DEFINE r == Inserted(s, a, d)
<1>2. /\ r \in Seq(S)
      /\ Len(r) = Len(s) + 1
      /\ \A j \in 1 .. Len(s) + 1 :
            r[j] = IF j < p THEN s[j] ELSE IF j = p THEN a ELSE s[j - 1]
  <2>1. /\ InsertAt(s, p, a) \in Seq(S)
        /\ Len(InsertAt(s, p, a)) = Len(s) + 1
        /\ \A j \in 1 .. Len(s) + 1 : InsertAt(s, p, a)[j] =
              IF j < p THEN s[j] ELSE IF j = p THEN a ELSE s[j - 1]
    <3>1. s \in Seq(S) /\ a \in S /\ p \in 1 .. Len(s) + 1
      OBVIOUS
    <3> QED  BY ONLY <3>1, InsertAtItems
  <2>2. r = InsertAt(s, p, a)
    BY <1>1
  <2> HIDE DEF r
  <2> QED  BY <2>1, <2>2
<1> HIDE DEF r
<1>3. /\ Len(s) \in Nat
      /\ \A y : y \in ToSet(s) <=> \E j \in 1 .. Len(s) : s[j] = y
      /\ \A y : y \in ToSet(r) <=> \E j \in 1 .. Len(r) : r[j] = y
  BY <1>2, ItemsOf
<1> DEFINE from(j) == IF j < p THEN j ELSE j - 1
<1>4. \A j \in 1 .. Len(r) : j # p =>
          /\ from(j) \in 1 .. Len(s) /\ r[j] = s[from(j)]
          /\ from(j) < p <=> j < p
          /\ \A k \in 1 .. Len(r) : k # p => /\ j < k => from(j) < from(k)
                                             /\ from(j) = from(k) => j = k
  <2>1. ASSUME NEW j \in 1 .. Len(r), j # p
        PROVE  /\ from(j) \in 1 .. Len(s)
               /\ from(j) < p <=> j < p
               /\ r[j] = s[from(j)]
    <3>1. CASE j < p
      BY <1>2, <1>3, <2>1, <3>1
    <3>2. CASE ~(j < p)
      <4>1. j - 1 \in 1 .. Len(s) /\ ~(j - 1 < p) /\ r[j] = s[j - 1]
        BY <1>2, <1>3, <2>1, <3>2
      <4> QED  BY <3>2, <4>1
    <3> QED  BY <3>1, <3>2
  <2>2. ASSUME NEW j \in 1 .. Len(r), j # p, NEW k \in 1 .. Len(r), k # p
        PROVE  (j < k => from(j) < from(k)) /\ (from(j) = from(k) => j = k)
    <3>1. j \in Int /\ k \in Int /\ p \in Int
      BY <1>2, <1>3
    <3>2. CASE j < p /\ k < p
      BY <3>1, <3>2
    <3>3. CASE j < p /\ ~(k < p)
      BY <2>2, <3>1, <3>3
    <3>4. CASE ~(j < p) /\ k < p
      BY <2>2, <3>1, <3>4
    <3>5. CASE ~(j < p) /\ ~(k < p)
      BY <3>1, <3>5
    <3> QED  BY <3>2, <3>3, <3>4, <3>5
  <2> HIDE DEF from
  <2> QED  BY <2>1, <2>2
<1>5. p \in 1 .. Len(r) /\ r[p] = a
  BY <1>2, <1>3
<1>6. \A j \in 1 .. Len(s) : \E k \in 1 .. Len(r) : r[k] = s[j]
  <2>1. TAKE j \in 1 .. Len(s)
  <2>2. CASE j < p
    <3>1. j \in 1 .. Len(s) + 1 /\ r[j] = s[j]
      BY <1>2, <1>3, <2>2
    <3> QED  BY <1>2, <3>1
  <2>3. CASE ~(j < p)
    <3>1. j + 1 \in 1 .. Len(s) + 1 /\ ~(j + 1 < p) /\ j + 1 # p /\ (j + 1) - 1 = j
      BY <1>3, <2>3
    <3> QED  BY <1>2, <3>1
  <2> QED  BY <2>2, <2>3
<1> HIDE DEF from
<1>7. ToSet(r) = ToSet(s) \cup {a}
  <2>1. \A y : y \in ToSet(r) => y \in ToSet(s) \cup {a}
    BY <1>3, <1>4, <1>5
  <2>2. \A y : y \in ToSet(s) \cup {a} => y \in ToSet(r)
    BY <1>3, <1>5, <1>6
  <2> QED  BY <2>1, <2>2
<1>8. OneToOne(r)
  <2> SUFFICES ASSUME NEW j \in 1 .. Len(r), NEW k \in 1 .. Len(r), r[j] = r[k]
               PROVE  j = k
    BY DEF OneToOne
  <2>1. \A i \in 1 .. Len(r) : i # p => r[i] # a
    BY <1>3, <1>4
  <2>2. CASE j # p /\ k # p
    <3>1. s[from(j)] = s[from(k)] /\ from(j) \in 1 .. Len(s) /\ from(k) \in 1 .. Len(s)
      BY <1>4, <2>2
    <3>2. from(j) = from(k)
      BY <3>1 DEF OneToOne
    <3> QED  BY <1>4, <2>2, <3>2
  <2> QED  BY <1>5, <2>1, <2>2
<1>9. InOrder(r, d)
  <2> SUFFICES ASSUME NEW j \in 1 .. Len(r), NEW k \in 1 .. Len(r), j < k
               PROVE  d[r[j]] <= d[r[k]]
    BY DEF InOrder
  <2>1. CASE j # p /\ k # p
    <3>1. /\ r[j] = s[from(j)] /\ r[k] = s[from(k)]
          /\ from(j) \in 1 .. Len(s) /\ from(k) \in 1 .. Len(s)
          /\ from(j) < from(k)
      BY <1>4, <2>1
    <3> QED  BY <3>1 DEF InOrder
  <2>2. CASE j = p
    <3>1. k # p /\ ~(k < p)
      BY <1>2, <1>3, <2>2
    <3>2. from(k) \in 1 .. Len(s) /\ r[k] = s[from(k)] /\ ~(from(k) < p)
      BY <1>4, <3>1
    <3> QED  BY <1>1, <1>5, <2>2, <3>2
  <2>3. CASE k = p
    <3>1. j # p /\ j < p
      BY <1>2, <1>3, <2>3
    <3>2. from(j) \in 1 .. Len(s) /\ r[j] = s[from(j)] /\ from(j) < p
      BY <1>4, <3>1
    <3> QED  BY <1>1, <1>5, <2>3, <3>2
  <2> QED  BY <2>1, <2>2, <2>3
<1> QED
  BY <1>1, <1>2, <1>7, <1>8, <1>9 DEF r

\* A list in two parts.
LEMMA SplitList ==
    ASSUME NEW S, NEW s \in Seq(S), NEW n \in 0 .. Len(s), NEW d,
           OneToOne(s), InOrder(s, d)
    PROVE  LET front == SubSeq(s, 1, n)
               back == SubSeq(s, n + 1, Len(s))
           IN  /\ front \in Seq(S) /\ back \in Seq(S)
               /\ ToSet(front) \cup ToSet(back) = ToSet(s)
               /\ ToSet(front) \cap ToSet(back) = {}
               /\ OneToOne(front) /\ OneToOne(back)
               /\ InOrder(back, d)
               /\ n > 0 => front # <<>>
<1> DEFINE front == SubSeq(s, 1, n)
           back == SubSeq(s, n + 1, Len(s))
<1>1. Len(s) \in Nat /\ \A i \in 1 .. Len(s) : s[i] \in S
  BY ItemsOf, ElementOfSeq
<1>2. /\ front \in Seq(S) /\ Len(front) = n
      /\ \A i \in 1 .. n : front[i] = s[i]
  BY <1>1, SubSeqProperties
<1>3. /\ back \in Seq(S) /\ Len(back) = Len(s) - n
      /\ \A i \in 1 .. Len(s) - n : back[i] = s[n + i]
  BY <1>1, SubSeqProperties
<1> HIDE DEF front, back
<1>4. /\ \A y : y \in ToSet(s) <=> \E j \in 1 .. Len(s) : s[j] = y
      /\ \A y : y \in ToSet(front) <=> \E j \in 1 .. n : s[j] = y
      /\ \A y : y \in ToSet(back) <=> \E j \in 1 .. Len(s) - n : s[n + j] = y
  <2>1. \A y : y \in ToSet(s) <=> \E j \in 1 .. Len(s) : s[j] = y
    BY ItemsOf
  <2>2. \A y : y \in ToSet(front) <=> \E j \in 1 .. Len(front) : front[j] = y
    BY <1>2, ItemsOf
  <2>3. \A y : y \in ToSet(back) <=> \E j \in 1 .. Len(back) : back[j] = y
    BY <1>3, ItemsOf
  <2>4. \A y : y \in ToSet(front) <=> \E j \in 1 .. n : s[j] = y
    BY <1>2, <2>2
  <2>5. \A y : y \in ToSet(back) <=> \E j \in 1 .. Len(s) - n : s[n + j] = y
    BY <1>3, <2>3
  <2> QED  BY <2>1, <2>4, <2>5
<1>5. ToSet(front) \cup ToSet(back) = ToSet(s)
  <2>1. ASSUME NEW j \in 1 .. Len(s)
        PROVE  s[j] \in ToSet(front) \cup ToSet(back)
    <3>1. CASE j <= n
      BY <1>1, <1>4, <3>1
    <3>2. CASE ~(j <= n)
      <4>1. j - n \in 1 .. Len(s) - n /\ n + (j - n) = j
        BY <1>1, <3>2
      <4> QED  BY <1>4, <4>1
    <3> QED  BY <3>1, <3>2
  <2>2. /\ 1 .. n \subseteq 1 .. Len(s)
        /\ \A j \in 1 .. Len(s) - n : n + j \in 1 .. Len(s)
    BY <1>1
  <2> QED  BY <1>4, <2>1, <2>2
<1>6. ToSet(front) \cap ToSet(back) = {}
  <2>1. \A i \in 1 .. n, j \in 1 .. Len(s) - n :
            i \in 1 .. Len(s) /\ n + j \in 1 .. Len(s) /\ i # n + j
    BY <1>1
  <2> QED  BY <1>4, <2>1 DEF OneToOne
<1>7. OneToOne(front)
  BY <1>1, <1>2 DEF OneToOne
<1>8. /\ \A j \in 1 .. Len(back) : n + j \in 1 .. Len(s) /\ back[j] = s[n + j]
      /\ \A i, j \in 1 .. Len(back) : /\ i < j => n + i < n + j
                                      /\ n + i = n + j => i = j
  BY <1>1, <1>3
<1>9. OneToOne(back)
  BY <1>8 DEF OneToOne
<1>10. InOrder(back, d)
  BY <1>8 DEF InOrder
<1>11. n > 0 => front # <<>>
  BY <1>2, EmptySeq
<1> QED
  BY <1>2, <1>3, <1>5, <1>6, <1>7, <1>9, <1>10, <1>11 DEF front, back

LEMMA TailOfList ==
    ASSUME NEW S, NEW s \in Seq(S), s # <<>>, OneToOne(s)
    PROVE  /\ Head(s) \in S /\ Tail(s) \in Seq(S)
           /\ ToSet(s) = {Head(s)} \cup ToSet(Tail(s))
           /\ Head(s) \notin ToSet(Tail(s))
           /\ OneToOne(Tail(s))
<1> DEFINE t == Tail(s)
<1>1. Len(s) \in Nat \ {0}
  BY EmptySeq, LenProperties
<1>2. /\ Head(s) \in S /\ Head(s) = s[1]
      /\ t \in Seq(S) /\ Len(t) = Len(s) - 1
      /\ \A i \in 1 .. Len(t) : t[i] = s[i + 1]
  BY HeadTailProperties
<1> HIDE DEF t
<1>3. /\ \A y : y \in ToSet(s) <=> \E j \in 1 .. Len(s) : s[j] = y
      /\ \A y : y \in ToSet(t) <=> \E j \in 1 .. Len(t) : t[j] = y
  BY <1>2, ItemsOf
<1>4. /\ \A i \in 1 .. Len(t) : i + 1 \in 1 .. Len(s) /\ i + 1 # 1 /\ t[i] = s[i + 1]
      /\ \A i, j \in 1 .. Len(t) : i + 1 = j + 1 => i = j
      /\ 1 \in 1 .. Len(s)
  BY <1>1, <1>2
<1>5. \A j \in 1 .. Len(s) : j = 1 \/ s[j] \in ToSet(t)
  <2>1. TAKE j \in 1 .. Len(s)
  <2>2. CASE j # 1
    <3>1. j - 1 \in 1 .. Len(t) /\ (j - 1) + 1 = j
      BY <1>1, <1>2, <2>2
    <3> QED  BY <1>3, <1>4, <3>1
  <2> QED  BY <2>2
<1>6. ToSet(s) = {Head(s)} \cup ToSet(t)
  <2>1. \A y : y \in ToSet(s) => y \in {Head(s)} \cup ToSet(t)
    BY <1>2, <1>3, <1>5
  <2>2. \A y : y \in {Head(s)} \cup ToSet(t) => y \in ToSet(s)
    BY <1>2, <1>3, <1>4
  <2> QED  BY <2>1, <2>2
<1>7. Head(s) \notin ToSet(t)
  BY <1>2, <1>3, <1>4 DEF OneToOne
<1>8. OneToOne(t)
  BY <1>4 DEF OneToOne
<1> QED
  BY <1>2, <1>6, <1>7, <1>8 DEF t

LEMMA ConcatList ==
    ASSUME NEW S, NEW s \in Seq(S), NEW u \in Seq(S),
           OneToOne(s), OneToOne(u), ToSet(s) \cap ToSet(u) = {}
    PROVE  /\ s \o u \in Seq(S)
           /\ ToSet(s \o u) = ToSet(s) \cup ToSet(u)
           /\ OneToOne(s \o u)
<1> DEFINE c == s \o u
<1>1. /\ c \in Seq(S) /\ Len(c) = Len(s) + Len(u)
      /\ \A i \in 1 .. Len(s) + Len(u) :
            c[i] = IF i <= Len(s) THEN s[i] ELSE u[i - Len(s)]
  BY ConcatProperties
<1>2. /\ Len(s) \in Nat /\ Len(u) \in Nat
      /\ \A i \in 1 .. Len(s), j \in 1 .. Len(u) : s[i] # u[j]
  BY ItemsOf
<1>3. ToSet(c) = ToSet(s) \cup ToSet(u)
  BY ItemsOfConcat
<1> HIDE DEF c
<1>4. ASSUME NEW i \in 1 .. Len(c), NEW j \in 1 .. Len(c), c[i] = c[j]
      PROVE  i = j
  <2>1. /\ IF i <= Len(s) THEN i \in 1 .. Len(s) /\ c[i] = s[i]
                          ELSE i - Len(s) \in 1 .. Len(u) /\ c[i] = u[i - Len(s)]
        /\ IF j <= Len(s) THEN j \in 1 .. Len(s) /\ c[j] = s[j]
                          ELSE j - Len(s) \in 1 .. Len(u) /\ c[j] = u[j - Len(s)]
    BY <1>1, <1>2
  <2>2. i - Len(s) = j - Len(s) => i = j
    BY <1>1, <1>2
  <2> QED  BY <1>2, <1>4, <2>1, <2>2 DEF OneToOne
<1> QED
  BY <1>1, <1>3, <1>4 DEF c, OneToOne

-----------------------------------------------------------------------------
(* Where the live timers are: tm stands for timers, le for left, tr for    *)
(* triggered, ca for calling and he for held.                              *)

Delays == [Addresses -> Int]

Places(tm, le, tr, ca, he) ==
    /\ OneToOne(tm) /\ InOrder(tm, le)
    /\ OneToOne(tr)
    /\ ToSet(tm) \cap ToSet(tr) = {}
    /\ ca \notin ToSet(tm) \cup ToSet(tr)
    /\ \A a \in Addresses :
          he[a] # 0 <=> a \in ToSet(tm) \cup ToSet(tr) \/ a = ca

\* A timer that is cancelled goes from the list, or stays where a flush has it.
LEMMA CancelKeepsPlaces ==
    ASSUME TimersAssumption, TimersTypeOK, NEW x,
           Places(timers, left, triggered, calling, held)
    PROVE  /\ CancelledList(x) \in Seq(Addresses)
           /\ ToSet(CancelledList(x)) = ToSet(timers) \ {x}
           /\ CancelledHeld(x) \in [Addresses -> {0} \cup Numbers]
           /\ \A a \in Addresses : CancelledHeld(x)[a] =
                 IF a = x /\ x \in ToSet(timers) THEN 0 ELSE held[a]
           /\ Places(CancelledList(x), left, triggered, calling, CancelledHeld(x))
<1> DEFINE r == CancelledList(x)
           h == CancelledHeld(x)
<1>1. /\ timers \in Seq(Addresses) /\ triggered \in Seq(Addresses)
      /\ held \in [Addresses -> {0} \cup Numbers]
  BY DEF TimersTypeOK
<1>2. /\ r \in Seq(Addresses)
      /\ ToSet(r) = ToSet(timers) \ {x}
      /\ OneToOne(r) /\ InOrder(r, left)
  BY <1>1, RemovedList DEF Places, CancelledList
<1>3. /\ h \in [Addresses -> {0} \cup Numbers]
      /\ \A a \in Addresses :
            h[a] = IF a = x /\ x \in ToSet(timers) THEN 0 ELSE held[a]
  BY <1>1 DEF CancelledHeld
<1> HIDE DEF r, h
<1>4. Places(r, left, triggered, calling, h)
  BY <1>2, <1>3 DEF Places
<1> QED
  BY <1>2, <1>3, <1>4 DEF r, h

\* The order of a list is that of its own timers.
LEMMA SameOrder ==
    ASSUME NEW S, NEW s \in Seq(S), NEW d, NEW e, InOrder(s, d),
           \A a \in ToSet(s) : d[a] = e[a]
    PROVE  InOrder(s, e)
<1>1. \A i \in 1 .. Len(s) : d[s[i]] = e[s[i]]
  BY ItemsOf
<1> QED
  BY <1>1 DEF InOrder

\* A timer that is not in the list, and its delay alone is new, is put there.
LEMMA InsertTimer ==
    ASSUME NEW tm \in Seq(Addresses), NEW le \in Delays, NEW new \in Delays,
           NEW a \in Addresses, \A b \in Addresses : b # a => new[b] = le[b],
           OneToOne(tm), InOrder(tm, le), a \notin ToSet(tm)
    PROVE  /\ Inserted(tm, a, new) \in Seq(Addresses)
           /\ ToSet(Inserted(tm, a, new)) = ToSet(tm) \cup {a}
           /\ OneToOne(Inserted(tm, a, new)) /\ InOrder(Inserted(tm, a, new), new)
<1>1. ToSet(tm) \subseteq Addresses
  BY ItemsOf
<1>2. InOrder(tm, new)
  BY <1>1, SameOrder
<1> QED
  BY <1>2, InsertedList DEF Delays

-----------------------------------------------------------------------------
(* Whose they are: he stands for held, ha for handle, mi for mine, wi for  *)
(* withdrawn and n for the number of the last timer that was made.         *)

Named(he, ha, mi, wi, n) ==
    /\ n \in Nat
    /\ \A a \in Addresses : he[a] \in 0 .. n
    /\ \A c \in Clients : mi[c] \in 0 .. n /\ (ha[c] = NoAddress <=> mi[c] = 0)
    /\ wi \subseteq 1 .. n
    /\ \A a, b \in Addresses : he[a] = he[b] /\ he[a] # 0 => a = b
    /\ \A a \in Addresses, c \in Clients : he[a] = mi[c] /\ he[a] # 0 => ha[c] = a

\* A timer that was cancelled is noted down, unless it is gone.
Doomed(he, wi, can, tm) ==
    \A a \in Addresses : he[a] \in wi => a \in can /\ a \notin ToSet(tm)

\* What is noted down hits no timer that was not cancelled, unless a client
\* has gone astray.
Rightly(ast, fl, can, tr, ca, he, wi) ==
    ~ast => /\ ~fl => can = {}
            /\ \A a \in can : a \in ToSet(tr) \cup {ca} => he[a] \in wi

InFlush == triggered # <<>> \/ calling # NoAddress => flushing

TimersInv ==
    /\ InFlush
    /\ Places(timers, left, triggered, calling, held)
    /\ Named(held, handle, mine, withdrawn, Len(owner))
    /\ Doomed(held, withdrawn, cancelled, timers)
    /\ Rightly(astray, flushing, cancelled, triggered, calling, held, withdrawn)

LEMMA CancelKeepsNames ==
    ASSUME TimersAssumption, TimersTypeOK, TimersInv, NEW c \in Clients
    PROVE  LET x == handle[c]
               ha == [handle EXCEPT ![c] = NoAddress]
               mi == [mine EXCEPT ![c] = 0]
               wi == withdrawn \cup ({mine[c]} \cap Numbers)
           IN  /\ Named(CancelledHeld(x), ha, mi, wi, Len(owner))
               /\ Doomed(CancelledHeld(x), wi, CancelledSet(x), CancelledList(x))
               /\ Rightly(astray \/ IsStale(c), flushing, CancelledSet(x),
                          triggered, calling, CancelledHeld(x), wi)
<1> DEFINE x == handle[c]
           m == mine[c]
           ha == [handle EXCEPT ![c] = NoAddress]
           mi == [mine EXCEPT ![c] = 0]
           wi == withdrawn \cup ({m} \cap Numbers)
           he == CancelledHeld(x)
           tm == CancelledList(x)
           can == CancelledSet(x)
           n == Len(owner)
<1>1. /\ NoAddress \notin Addresses
      /\ x \in Addresses \cup {NoAddress}
      /\ timers \in Seq(Addresses) /\ triggered \in Seq(Addresses)
      /\ cancelled \subseteq Addresses
      /\ calling \in Addresses \cup {NoAddress}
      /\ handle \in [Clients -> Addresses \cup {NoAddress}]
      /\ mine \in [Clients -> {0} \cup Numbers]
      /\ m \in {0} \cup Numbers
      /\ n \in Nat /\ n <= MaxTimers
  BY LenProperties DEF TimersTypeOK, TimersAssumption
<1>2. /\ InFlush
      /\ Places(timers, left, triggered, calling, held)
      /\ Named(held, handle, mine, withdrawn, n)
      /\ Doomed(held, withdrawn, cancelled, timers)
      /\ Rightly(astray, flushing, cancelled, triggered, calling, held, withdrawn)
  BY DEF TimersInv
<1>3. /\ ToSet(tm) = ToSet(timers) \ {x}
      /\ \A a \in Addresses : he[a] = IF a = x /\ x \in ToSet(timers) THEN 0 ELSE held[a]
  BY <1>2, CancelKeepsPlaces
<1>4. /\ m \in 0 .. n /\ (x = NoAddress <=> m = 0)
      /\ \A a \in Addresses : held[a] = m /\ m # 0 => x = a
      /\ \A a \in Addresses : held[a] \in 0 .. n
      /\ withdrawn \subseteq 1 .. n
  BY <1>2 DEF Named
<1>5. /\ wi = IF m = 0 THEN withdrawn ELSE withdrawn \cup {m}
      /\ wi \subseteq 1 .. n /\ 0 \notin wi
  <2>1. m # 0 => m \in Numbers /\ m \in 1 .. n
    BY <1>1, <1>4
  <2>2. 0 \notin Numbers /\ 0 \notin 1 .. n
    BY DEF Numbers
  <2>3. wi = IF m = 0 THEN withdrawn ELSE withdrawn \cup {m}
    BY <2>1, <2>2
  <2> HIDE DEF wi
  <2> QED  BY <1>4, <2>1, <2>2, <2>3
<1>6. ToSet(timers) \subseteq Addresses /\ ToSet(triggered) \subseteq Addresses
  BY <1>1, ItemsOf
<1>7. can = IF x \in ToSet(timers) \/ x = NoAddress THEN cancelled ELSE cancelled \cup {x}
  BY DEF CancelledSet
<1>8. \A d \in Clients : /\ ha[d] = IF d = c THEN NoAddress ELSE handle[d]
                         /\ mi[d] = IF d = c THEN 0 ELSE mine[d]
  BY <1>1
<1> HIDE DEF x, m, ha, mi, wi, he, tm, can, n
<1>9. Named(he, ha, mi, wi, n)
  <2>1. \A a \in Addresses : he[a] \in 0 .. n
    BY <1>1, <1>3, <1>4
  <2>2. \A d \in Clients : mi[d] \in 0 .. n /\ (ha[d] = NoAddress <=> mi[d] = 0)
    BY <1>1, <1>2, <1>8 DEF Named
  <2>3. \A a, b \in Addresses : he[a] = he[b] /\ he[a] # 0 => a = b
    BY <1>2, <1>3 DEF Named
  <2>4. \A a \in Addresses, d \in Clients : he[a] = mi[d] /\ he[a] # 0 => ha[d] = a
    BY <1>2, <1>3, <1>8 DEF Named
  <2> QED  BY <1>1, <1>5, <2>1, <2>2, <2>3, <2>4 DEF Named
<1>10. Doomed(he, wi, can, tm)
  <2> SUFFICES ASSUME NEW a \in Addresses, he[a] \in wi
               PROVE  a \in can /\ a \notin ToSet(tm)
    BY DEF Doomed
  <2>1. ~(a = x /\ x \in ToSet(timers)) /\ held[a] \in wi
    BY <1>3, <1>5
  <2>2. CASE held[a] \in withdrawn
    BY <1>2, <1>3, <1>7, <2>2 DEF Doomed
  <2>3. CASE held[a] = m /\ m # 0
    BY <1>1, <1>3, <1>4, <1>7, <2>1, <2>3
  <2> QED  BY <1>5, <2>1, <2>2, <2>3
<1>11. Rightly(astray \/ IsStale(c), flushing, can, triggered, calling, he, wi)
  <2> SUFFICES ASSUME ~astray, ~IsStale(c)
               PROVE  /\ ~flushing => can = {}
                      /\ \A a \in can :
                            a \in ToSet(triggered) \cup {calling} => he[a] \in wi
    BY DEF Rightly
  <2>1. /\ ~flushing => cancelled = {}
        /\ \A a \in cancelled :
              a \in ToSet(triggered) \cup {calling} => held[a] \in withdrawn
    BY <1>2 DEF Rightly
  <2>2. x # NoAddress => held[x] = m
    BY DEF IsStale, x, m
  <2>3. CASE x \in ToSet(timers) \/ x = NoAddress
    <3>1. can = cancelled
      BY <1>7, <2>3
    <3>2. ASSUME NEW a \in can, a \in ToSet(triggered) \cup {calling}
          PROVE  he[a] \in wi
      <4>1. a \in Addresses /\ ~(a = x /\ x \in ToSet(timers))
        BY <1>1, <1>2, <3>1, <3>2 DEF Places
      <4> QED  BY <1>3, <1>5, <2>1, <3>1, <3>2, <4>1
    <3> QED  BY <2>1, <3>1, <3>2
  <2>4. CASE ~(x \in ToSet(timers) \/ x = NoAddress)
    <3>1. can = cancelled \cup {x} /\ x \in Addresses /\ m # 0 /\ held[x] = m
      BY <1>1, <1>4, <1>7, <2>2, <2>4
    <3>2. x \in ToSet(triggered) \/ x = calling
      BY <1>2, <2>4, <3>1 DEF Places
    <3>3. flushing
      <4>1. triggered # <<>> \/ calling # NoAddress
        BY <3>2, <2>4, AbsentFromEmpty
      <4> QED  BY <1>2, <4>1 DEF InFlush
    <3>4. ASSUME NEW a \in can, a \in ToSet(triggered) \cup {calling}
          PROVE  he[a] \in wi
      <4>1. a \in Addresses /\ he[a] = held[a]
        BY <1>1, <1>3, <2>4, <3>1
      <4> QED  BY <1>5, <2>1, <3>1, <3>4, <4>1
    <3> QED  BY <3>3, <3>4
  <2> QED  BY <2>3, <2>4
<1> QED
  BY <1>9, <1>10, <1>11 DEF x, m, ha, mi, wi, he, tm, can, n

\* A new timer gets the next number.
LEMMA NewKeepsNames ==
    ASSUME NEW he, NEW ha, NEW mi, NEW wi, NEW n, NEW can, NEW tm,
           NEW ast, NEW fl, NEW tr, NEW ca,
           Named(he, ha, mi, wi, n), Doomed(he, wi, can, tm),
           Rightly(ast, fl, can, tr, ca, he, wi),
           NEW a \in Addresses, NEW c \in Clients, NoAddress \notin Addresses,
           a \notin ToSet(tr) \cup {ca}, can \subseteq Addresses,
           NEW ne, NEW na, NEW nm, NEW tn,
           \A b \in Addresses : ne[b] = IF b = a THEN n + 1 ELSE he[b],
           \A d \in Clients : na[d] = IF d = c THEN a ELSE ha[d],
           \A d \in Clients : nm[d] = IF d = c THEN n + 1 ELSE mi[d],
           ToSet(tn) = ToSet(tm) \cup {a}
    PROVE  /\ Named(ne, na, nm, wi, n + 1)
           /\ Doomed(ne, wi, can, tn)
           /\ Rightly(ast, fl, can, tr, ca, ne, wi)
<1>1. /\ n \in Nat /\ n + 1 \in Nat /\ n + 1 # 0
      /\ \A a1 \in Addresses : he[a1] \in 0 .. n /\ he[a1] # n + 1 /\ he[a1] \in 0 .. n + 1
      /\ \A d \in Clients : mi[d] \in 0 .. n /\ mi[d] # n + 1 /\ mi[d] \in 0 .. n + 1
      /\ wi \subseteq 1 .. n /\ wi \subseteq 1 .. n + 1 /\ n + 1 \notin wi
  BY DEF Named
<1>2. Named(ne, na, nm, wi, n + 1)
  <2>1. \A b \in Addresses : ne[b] \in 0 .. n + 1
    BY <1>1
  <2>2. \A d \in Clients : nm[d] \in 0 .. n + 1 /\ (na[d] = NoAddress <=> nm[d] = 0)
    BY <1>1 DEF Named
  <2>3. \A b1, b2 \in Addresses : ne[b1] = ne[b2] /\ ne[b1] # 0 => b1 = b2
    BY <1>1 DEF Named
  <2>4. \A b \in Addresses, d \in Clients : ne[b] = nm[d] /\ ne[b] # 0 => na[d] = b
    BY <1>1 DEF Named
  <2> QED  BY <1>1, <2>1, <2>2, <2>3, <2>4 DEF Named
<1>3. Doomed(ne, wi, can, tn)
  BY <1>1 DEF Doomed
<1>4. Rightly(ast, fl, can, tr, ca, ne, wi)
  BY DEF Rightly
<1> QED
  BY <1>2, <1>3, <1>4

-----------------------------------------------------------------------------
(* The steps *)

LEMMA TimersStart ==
    ASSUME TimersAssumption, TimersInit
    PROVE  TimersTypeOK /\ TimersInv
<1>1. /\ \A S : <<>> \in Seq(S) /\ Len(<<>>) = 0
      /\ ToSet(<<>>) = {}
  BY EmptySeq, AbsentFromEmpty
<1>2. TimersTypeOK
  <2>1. owner \in Seq(Clients) /\ Len(owner) <= MaxTimers
    BY <1>1 DEF TimersInit, TimersAssumption
  <2>2. timers \in Seq(Addresses) /\ triggered \in Seq(Addresses)
    BY <1>1 DEF TimersInit
  <2>3. /\ held \in [Addresses -> {0} \cup Numbers]
        /\ left \in [Addresses -> Int]
        /\ handle \in [Clients -> Addresses \cup {NoAddress}]
        /\ mine \in [Clients -> {0} \cup Numbers]
    BY DEF TimersInit
  <2>4. /\ cancelled \subseteq Addresses /\ calling \in Addresses \cup {NoAddress}
        /\ flushing \in BOOLEAN /\ astray \in BOOLEAN /\ withdrawn \subseteq Numbers
    BY DEF TimersInit
  <2> QED  BY <2>1, <2>2, <2>3, <2>4 DEF TimersTypeOK
<1>3. Places(timers, left, triggered, calling, held)
  <2>1. OneToOne(<<>>) /\ InOrder(<<>>, left)
    BY <1>1 DEF OneToOne, InOrder
  <2> QED  BY <1>1, <2>1 DEF TimersInit, Places, TimersAssumption
<1>4. Named(held, handle, mine, withdrawn, Len(owner))
  <2>1. Len(owner) = 0
    BY <1>1 DEF TimersInit
  <2> QED  BY <2>1 DEF TimersInit, Named
<1>5. /\ InFlush
      /\ Doomed(held, withdrawn, cancelled, timers)
      /\ Rightly(astray, flushing, cancelled, triggered, calling, held, withdrawn)
  BY DEF TimersInit, InFlush, Doomed, Rightly
<1> QED
  BY <1>2, <1>3, <1>4, <1>5 DEF TimersInv

LEMMA CancelStep ==
    ASSUME TimersAssumption, TimersTypeOK, TimersInv, NEW c \in Clients, CancelTimer(c)
    PROVE  TimersTypeOK' /\ TimersInv'
<1> DEFINE x == handle[c]
<1>1. /\ x # NoAddress
      /\ timers' = CancelledList(x)
      /\ held' = CancelledHeld(x)
      /\ cancelled' = CancelledSet(x)
      /\ withdrawn' = withdrawn \cup {mine[c]}
      /\ astray' = (astray \/ IsStale(c))
      /\ handle' = [handle EXCEPT ![c] = NoAddress]
      /\ mine' = [mine EXCEPT ![c] = 0]
      /\ triggered' = triggered /\ calling' = calling /\ flushing' = flushing
      /\ left' = left /\ owner' = owner
  BY DEF CancelTimer, flushVars
<1>2. /\ CancelledList(x) \in Seq(Addresses)
      /\ CancelledHeld(x) \in [Addresses -> {0} \cup Numbers]
      /\ Places(CancelledList(x), left, triggered, calling, CancelledHeld(x))
  BY CancelKeepsPlaces DEF TimersInv
<1>3. mine[c] \in Numbers
  BY <1>1 DEF TimersTypeOK, TimersInv, Named
<1>4. withdrawn \cup ({mine[c]} \cap Numbers) = withdrawn \cup {mine[c]}
  BY <1>3
<1>5. /\ Named(CancelledHeld(x), handle', mine', withdrawn', Len(owner))
      /\ Doomed(CancelledHeld(x), withdrawn', CancelledSet(x), CancelledList(x))
      /\ Rightly(astray', flushing, CancelledSet(x), triggered, calling,
                 CancelledHeld(x), withdrawn')
  BY <1>1, <1>4, CancelKeepsNames
<1>6. TimersTypeOK'
  <2>1. handle[c] \in Addresses \cup {NoAddress} /\ cancelled' \subseteq Addresses
    BY <1>1 DEF TimersTypeOK, CancelledSet
  <2>2. astray' \in BOOLEAN
    BY <1>1 DEF TimersTypeOK, IsStale
  <2>3. /\ handle' \in [Clients -> Addresses \cup {NoAddress}]
        /\ mine' \in [Clients -> {0} \cup Numbers]
        /\ withdrawn' \subseteq Numbers
    BY <1>1, <1>3 DEF TimersTypeOK
  <2>4. timers' \in Seq(Addresses) /\ held' \in [Addresses -> {0} \cup Numbers]
    BY <1>1, <1>2
  <2>5. /\ triggered' \in Seq(Addresses) /\ calling' \in Addresses \cup {NoAddress}
        /\ flushing' \in BOOLEAN /\ left' \in [Addresses -> Int]
        /\ owner' \in Seq(Clients) /\ Len(owner') <= MaxTimers
    BY <1>1 DEF TimersTypeOK
  <2> QED  BY <2>1, <2>2, <2>3, <2>4, <2>5 DEF TimersTypeOK
<1>7. InFlush'
  BY <1>1 DEF TimersInv, InFlush
<1> HIDE DEF x
<1> QED
  BY <1>1, <1>2, <1>5, <1>6, <1>7 DEF TimersInv

LEMMA RunStep ==
    ASSUME TimersAssumption, TimersTypeOK, TimersInv,
           NEW c \in Clients, NEW a \in Addresses, RunEvery(c, a)
    PROVE  TimersTypeOK' /\ TimersInv'
<1> DEFINE x == handle[c]
           n == Len(owner)
           delays == [left EXCEPT ![a] = Interval[c]]
<1>1. /\ n + 1 \in Numbers
      /\ CancelledHeld(x)[a] = 0
      /\ timers' = Inserted(CancelledList(x), a, delays)
      /\ cancelled' = CancelledSet(x)
      /\ withdrawn' = withdrawn \cup ({mine[c]} \cap Numbers)
      /\ astray' = (astray \/ IsStale(c))
      /\ held' = [CancelledHeld(x) EXCEPT ![a] = n + 1]
      /\ left' = delays
      /\ handle' = [handle EXCEPT ![c] = a]
      /\ mine' = [mine EXCEPT ![c] = n + 1]
      /\ owner' = Append(owner, c)
      /\ triggered' = triggered /\ calling' = calling /\ flushing' = flushing
  BY DEF RunEvery, flushVars
<1>2. /\ CancelledList(x) \in Seq(Addresses)
      /\ CancelledHeld(x) \in [Addresses -> {0} \cup Numbers]
      /\ Places(CancelledList(x), left, triggered, calling, CancelledHeld(x))
  BY CancelKeepsPlaces DEF TimersInv
<1>3. /\ Named(CancelledHeld(x), [handle EXCEPT ![c] = NoAddress],
               [mine EXCEPT ![c] = 0], withdrawn', n)
      /\ Doomed(CancelledHeld(x), withdrawn', CancelledSet(x), CancelledList(x))
      /\ Rightly(astray', flushing, CancelledSet(x), triggered, calling,
                 CancelledHeld(x), withdrawn')
  BY <1>1, CancelKeepsNames
<1>4. /\ a \notin ToSet(CancelledList(x)) \cup ToSet(triggered) \cup {calling}
      /\ NoAddress \notin Addresses
  BY <1>1, <1>2 DEF Places, TimersAssumption
<1>5. /\ n \in Nat /\ n + 1 # 0
      /\ owner' \in Seq(Clients) /\ Len(owner') = n + 1 /\ Len(owner') <= MaxTimers
  BY <1>1, LenProperties, AppendProperties DEF TimersTypeOK, Numbers, TimersAssumption
<1>6. Interval[c] \in Int /\ left \in Delays /\ triggered \in Seq(Addresses)
  BY DEF TimersTypeOK, TimersAssumption, Delays
<1>7. \A b \in Addresses :
          held'[b] = IF b = a THEN n + 1 ELSE CancelledHeld(x)[b]
  BY <1>1, <1>2
<1>8. /\ timers' \in Seq(Addresses)
      /\ ToSet(timers') = ToSet(CancelledList(x)) \cup {a}
      /\ Places(timers', left', triggered, calling, held')
  <2>1. \A b \in Addresses : held'[b] # 0 <=> (CancelledHeld(x)[b] # 0 \/ a = b)
    BY <1>5, <1>7
  <2> DEFINE tm == CancelledList(x)
             he == CancelledHeld(x)
             ne == held'
             new == delays
  <2> HIDE DEF tm, he, n, ne, new
  <2>2. /\ Places(tm, left, triggered, calling, he)
        /\ tm \in Seq(Addresses)
        /\ a \notin ToSet(tm) \cup ToSet(triggered)
        /\ a # calling
        /\ \A b \in Addresses : ne[b] # 0 <=> (he[b] # 0 \/ a = b)
        /\ NoAddress \notin Addresses
        /\ left \in Delays /\ triggered \in Seq(Addresses)
    BY <1>2, <1>4, <1>6, <2>1 DEF tm, he, ne
  <2>3. new \in Delays /\ \A b \in Addresses : b # a => new[b] = left[b]
    BY <1>6 DEF new, Delays
  <2>4. /\ timers' \in Seq(Addresses)
        /\ ToSet(timers') = ToSet(tm) \cup {a}
        /\ OneToOne(timers') /\ InOrder(timers', left')
    <3>1. timers' = Inserted(tm, a, new) /\ left' = new
      BY <1>1 DEF tm, new
    <3>2. OneToOne(tm) /\ InOrder(tm, left) /\ tm \in Seq(Addresses)
          /\ a \notin ToSet(tm) /\ left \in Delays
      BY <2>2 DEF Places
    <3>3. /\ Inserted(tm, a, new) \in Seq(Addresses)
          /\ ToSet(Inserted(tm, a, new)) = ToSet(tm) \cup {a}
          /\ OneToOne(Inserted(tm, a, new)) /\ InOrder(Inserted(tm, a, new), new)
      BY <2>3, <3>2, InsertTimer
    <3> QED  BY <3>1, <3>3
  <2>5. Places(timers', left', triggered, calling, ne)
    BY <2>2, <2>4 DEF Places
  <2> QED  BY <2>4, <2>5 DEF tm, ne
<1>9. /\ Named(held', handle', mine', withdrawn', n + 1)
      /\ Doomed(held', withdrawn', cancelled', timers')
      /\ Rightly(astray', flushing, cancelled', triggered, calling, held', withdrawn')
  <2> DEFINE he == CancelledHeld(x)
             ha == [handle EXCEPT ![c] = NoAddress]
             mi == [mine EXCEPT ![c] = 0]
             can == CancelledSet(x)
             tm == CancelledList(x)
  <2>1. /\ \A d \in Clients : handle'[d] = IF d = c THEN a ELSE ha[d]
        /\ \A d \in Clients : mine'[d] = IF d = c THEN n + 1 ELSE mi[d]
    BY <1>1 DEF TimersTypeOK
  <2>2. CancelledSet(x) \subseteq Addresses
    BY DEF TimersTypeOK, CancelledSet
  <2> HIDE DEF he, ha, mi, can, tm, n, x
  <2>3. /\ Named(he, ha, mi, withdrawn', n)
        /\ Doomed(he, withdrawn', can, tm)
        /\ Rightly(astray', flushing, can, triggered, calling, he, withdrawn')
    BY <1>3 DEF he, ha, mi, can, tm
  <2>4. /\ a \notin ToSet(triggered) \cup {calling}
        /\ can \subseteq Addresses /\ cancelled' = can
        /\ \A b \in Addresses : held'[b] = IF b = a THEN n + 1 ELSE he[b]
        /\ ToSet(timers') = ToSet(tm) \cup {a}
    BY <1>1, <1>4, <1>7, <1>8, <2>2 DEF can, tm, he
  <2> QED  BY <1>4, <2>1, <2>3, <2>4, NewKeepsNames
<1>10. TimersTypeOK'
  <2>1. handle[c] \in Addresses \cup {NoAddress} /\ cancelled' \subseteq Addresses
    BY <1>1 DEF TimersTypeOK, CancelledSet
  <2>2. astray' \in BOOLEAN
    BY <1>1 DEF TimersTypeOK, IsStale
  <2>3. withdrawn' \subseteq Numbers
    BY <1>1 DEF TimersTypeOK
  <2>4. left' \in [Addresses -> Int]
    BY <1>1, <1>6 DEF Delays
  <2>5. held' \in [Addresses -> {0} \cup Numbers]
    BY <1>1, <1>2
  <2>6. /\ handle' \in [Clients -> Addresses \cup {NoAddress}]
        /\ mine' \in [Clients -> {0} \cup Numbers]
    BY <1>1 DEF TimersTypeOK
  <2> QED  BY <1>1, <1>5, <1>8, <2>1, <2>2, <2>3, <2>4, <2>5, <2>6 DEF TimersTypeOK
<1>11. InFlush'
  BY <1>1 DEF TimersInv, InFlush
<1> HIDE DEF x, n
<1> QED
  BY <1>1, <1>5, <1>8, <1>9, <1>10, <1>11 DEF TimersInv, n

\* There is a first timer that is not due, or none.
LEMMA DueAreFirst ==
    ASSUME TimersTypeOK
    PROVE  DuePrefix \in 0 .. Len(timers)
<1> DEFINE I == {i \in 1 .. Len(timers) : left[timers[i]] > 0}
           Due(n) == /\ \A i \in 1 .. n : left[timers[i]] <= 0
                     /\ n < Len(timers) => left[timers[n + 1]] > 0
<1>1. /\ Len(timers) \in Nat
      /\ \A i \in 1 .. Len(timers) : left[timers[i]] \in Int
  BY LenProperties, ElementOfSeq DEF TimersTypeOK
<1>2. \E n \in 0 .. Len(timers) : Due(n)
  <2>1. CASE I = {}
    <3>1. Due(Len(timers))
      BY <1>1, <2>1
    <3> QED  BY <1>1, <3>1
  <2>2. CASE I # {}
    <3>1. I \subseteq Nat
      BY <1>1
    <3>2. PICK k \in I : \A j \in I : k <= j
      <4> HIDE DEF I
      <4> QED  BY <2>2, <3>1, LeastOf
    <3>3. k - 1 \in 0 .. Len(timers) /\ (k - 1) + 1 = k
      BY <1>1, <3>2
    <3>4. ASSUME NEW i \in 1 .. k - 1 PROVE left[timers[i]] <= 0
      <4>1. i \in 1 .. Len(timers) /\ i \notin I
        BY <1>1, <3>2
      <4> QED  BY <1>1, <4>1
    <3>5. Due(k - 1)
      BY <3>2, <3>3, <3>4
    <3> QED  BY <3>3, <3>5
  <2> QED  BY <2>1, <2>2
<1> HIDE DEF Due
<1>3. DuePrefix = CHOOSE n \in 0 .. Len(timers) : Due(n)
  BY DEF DuePrefix, Due
<1> QED
  BY <1>2, <1>3

LEMMA TickStep ==
    ASSUME TimersAssumption, TimersTypeOK, TimersInv, Tick
    PROVE  TimersTypeOK' /\ TimersInv'
<1>1. /\ left' = [a \in Addresses |->
                     IF a \in ToSet(timers) THEN left[a] - 1 ELSE left[a]]
      /\ timers' = timers /\ cancelled' = cancelled /\ triggered' = triggered
      /\ calling' = calling /\ flushing' = flushing /\ held' = held
      /\ handle' = handle /\ mine' = mine /\ owner' = owner
      /\ withdrawn' = withdrawn /\ astray' = astray
  BY DEF Tick, flushVars
<1>2. left' \in [Addresses -> Int]
  BY <1>1 DEF TimersTypeOK
<1>3. TimersTypeOK'
  BY <1>1, <1>2 DEF TimersTypeOK
<1>4. InOrder(timers, left')
  <2>1. \A i \in 1 .. Len(timers) :
            /\ left[timers[i]] \in Int
            /\ left'[timers[i]] = left[timers[i]] - 1
    <3>1. \A i \in 1 .. Len(timers) :
              timers[i] \in ToSet(timers) /\ timers[i] \in Addresses
      BY ItemsOf DEF TimersTypeOK
    <3> QED  BY <1>1, <3>1 DEF TimersTypeOK
  <2>2. InOrder(timers, left)
    BY DEF TimersInv, Places
  <2> QED  BY <2>1, <2>2 DEF InOrder
<1>5. Places(timers, left', triggered, calling, held)
  BY <1>4 DEF TimersInv, Places
<1> QED
  BY <1>1, <1>3, <1>5 DEF TimersInv, InFlush

LEMMA FlushBeginStep ==
    ASSUME TimersAssumption, TimersTypeOK, TimersInv, FlushBegin
    PROVE  TimersTypeOK' /\ TimersInv'
<1>1. /\ ~flushing /\ flushing'
      /\ triggered' = SubSeq(timers, 1, DuePrefix)
      /\ timers' = SubSeq(timers, DuePrefix + 1, Len(timers))
      /\ cancelled' = cancelled /\ calling' = calling /\ held' = held
      /\ left' = left /\ handle' = handle /\ mine' = mine /\ owner' = owner
      /\ withdrawn' = withdrawn /\ astray' = astray
  BY DEF FlushBegin
<1>2. timers \in Seq(Addresses) /\ OneToOne(timers) /\ InOrder(timers, left)
  BY DEF TimersTypeOK, TimersInv, Places
<1>3. /\ triggered' \in Seq(Addresses) /\ timers' \in Seq(Addresses)
      /\ ToSet(triggered') \cup ToSet(timers') = ToSet(timers)
      /\ ToSet(triggered') \cap ToSet(timers') = {}
      /\ OneToOne(triggered') /\ OneToOne(timers')
      /\ InOrder(timers', left)
  BY <1>1, <1>2, DueAreFirst, SplitList
<1>4. triggered = <<>> /\ calling = NoAddress
  BY <1>1 DEF TimersInv, InFlush
<1>5. ToSet(triggered) = {}
  BY <1>4, AbsentFromEmpty
<1>6. TimersTypeOK'
  BY <1>1, <1>3 DEF TimersTypeOK
<1>7. Places(timers', left, triggered', calling, held)
  BY <1>3, <1>5 DEF TimersInv, Places
<1>8. Doomed(held, withdrawn, cancelled, timers')
  BY <1>3 DEF TimersInv, Doomed
<1>9. Rightly(astray, flushing', cancelled, triggered', calling, held, withdrawn)
  BY <1>1 DEF TimersInv, Rightly
<1>10. InFlush'
  BY <1>1 DEF InFlush
<1> QED
  BY <1>1, <1>6, <1>7, <1>8, <1>9, <1>10 DEF TimersInv

LEMMA TriggerStep ==
    ASSUME TimersAssumption, TimersTypeOK, TimersInv, Trigger
    PROVE  TimersTypeOK' /\ TimersInv'
<1>1. /\ calling = NoAddress /\ triggered # <<>>
      /\ calling' = Head(triggered) /\ triggered' = Tail(triggered)
      /\ timers' = timers /\ cancelled' = cancelled /\ flushing' = flushing
      /\ held' = held /\ left' = left /\ handle' = handle /\ mine' = mine
      /\ owner' = owner /\ withdrawn' = withdrawn /\ astray' = astray
  BY DEF Trigger
<1>2. triggered \in Seq(Addresses) /\ OneToOne(triggered)
  BY DEF TimersTypeOK, TimersInv, Places
<1>3. /\ calling' \in Addresses /\ triggered' \in Seq(Addresses)
      /\ ToSet(triggered) = {calling'} \cup ToSet(triggered')
      /\ calling' \notin ToSet(triggered')
      /\ OneToOne(triggered')
  BY <1>1, <1>2, TailOfList
<1>4. NoAddress \notin Addresses
  BY DEF TimersAssumption
<1>5. TimersTypeOK'
  BY <1>1, <1>3 DEF TimersTypeOK
<1>6. Places(timers, left, triggered', calling', held)
  <2>1. Places(timers, left, triggered, calling, held)
    BY DEF TimersInv
  <2>2. /\ ToSet(timers) \cap ToSet(triggered') = {}
        /\ calling' \notin ToSet(timers) \cup ToSet(triggered')
    BY <1>3, <2>1 DEF Places
  <2>3. ASSUME NEW a \in Addresses
        PROVE  held[a] # 0 <=> a \in ToSet(timers) \cup ToSet(triggered') \/ a = calling'
    BY <1>1, <1>3, <1>4, <2>1 DEF Places
  <2> QED  BY <1>3, <2>1, <2>2, <2>3 DEF Places
<1>7. Rightly(astray, flushing, cancelled, triggered', calling', held, withdrawn)
  BY <1>3 DEF TimersInv, Rightly
<1>8. InFlush'
  BY <1>1 DEF TimersInv, InFlush
<1> QED
  BY <1>1, <1>5, <1>6, <1>7, <1>8 DEF TimersInv

LEMMA FlushEndStep ==
    ASSUME TimersAssumption, TimersTypeOK, TimersInv, FlushEnd
    PROVE  TimersTypeOK' /\ TimersInv'
<1>1. /\ calling = NoAddress /\ triggered = <<>>
      /\ cancelled' = {} /\ flushing' = FALSE
      /\ timers' = timers /\ triggered' = triggered /\ calling' = calling
      /\ held' = held /\ left' = left /\ handle' = handle /\ mine' = mine
      /\ owner' = owner /\ withdrawn' = withdrawn /\ astray' = astray
  BY DEF FlushEnd, CancelledAfterFlush
<1>2. ToSet(triggered) = {} /\ NoAddress \notin Addresses
  BY <1>1, AbsentFromEmpty DEF TimersAssumption
<1>3. TimersTypeOK'
  BY <1>1 DEF TimersTypeOK
<1>4. ASSUME NEW a \in Addresses, held[a] \in withdrawn PROVE FALSE
  <2>1. held[a] # 0
    BY <1>4 DEF TimersInv, Named
  <2>2. a \in ToSet(timers)
    BY <1>1, <1>2, <2>1 DEF TimersInv, Places
  <2> QED  BY <1>4, <2>2 DEF TimersInv, Doomed
<1>5. Doomed(held, withdrawn, cancelled', timers)
  BY <1>4 DEF Doomed
<1>6. Rightly(astray, flushing', cancelled', triggered, calling, held, withdrawn)
  BY <1>1 DEF Rightly
<1>7. InFlush'
  BY <1>1 DEF InFlush
<1> QED
  BY <1>1, <1>3, <1>5, <1>6, <1>7 DEF TimersInv

\* The timer that is called is live, and has a client.
LEMMA CalledIsLive ==
    ASSUME TimersAssumption, TimersTypeOK, TimersInv, calling # NoAddress
    PROVE  /\ calling \in Addresses /\ NoAddress \notin Addresses
           /\ held[calling] \in 1 .. Len(owner)
           /\ owner[held[calling]] \in Clients
           /\ calling \notin ToSet(timers) \cup ToSet(triggered)
<1>1. calling \in Addresses /\ NoAddress \notin Addresses
  BY DEF TimersTypeOK, TimersAssumption
<1>2. held[calling] # 0 /\ calling \notin ToSet(timers) \cup ToSet(triggered)
  BY <1>1 DEF TimersInv, Places
<1>3. held[calling] \in 1 .. Len(owner)
  BY <1>1, <1>2 DEF TimersInv, Named
<1>4. owner[held[calling]] \in Clients
  BY <1>3, ElementOfSeq DEF TimersTypeOK
<1> QED
  BY <1>1, <1>2, <1>3, <1>4

\* The timer that was called ends: nothing that was withdrawn comes back.
LEMMA CalledEnds ==
    ASSUME TimersAssumption, TimersTypeOK, TimersInv, calling # NoAddress,
           NEW he, he = [held EXCEPT ![calling] = 0]
    PROVE  /\ he \in [Addresses -> {0} \cup Numbers]
           /\ Places(timers, left, triggered, NoAddress, he)
           /\ Named(he, handle, mine, withdrawn, Len(owner))
           /\ Doomed(he, withdrawn, cancelled, timers)
           /\ Rightly(astray, flushing, cancelled, triggered, NoAddress, he, withdrawn)
<1>1. /\ calling \in Addresses /\ NoAddress \notin Addresses
      /\ calling \notin ToSet(timers) \cup ToSet(triggered)
  BY CalledIsLive
<1>2. /\ he \in [Addresses -> {0} \cup Numbers]
      /\ \A a \in Addresses : he[a] = IF a = calling THEN 0 ELSE held[a]
  BY <1>1 DEF TimersTypeOK
<1>3. /\ Places(timers, left, triggered, calling, held)
      /\ Named(held, handle, mine, withdrawn, Len(owner))
      /\ Doomed(held, withdrawn, cancelled, timers)
      /\ Rightly(astray, flushing, cancelled, triggered, calling, held, withdrawn)
  BY DEF TimersInv
<1>4. /\ ToSet(timers) \subseteq Addresses /\ ToSet(triggered) \subseteq Addresses
      /\ cancelled \subseteq Addresses
  BY ItemsOf DEF TimersTypeOK
<1>5. Places(timers, left, triggered, NoAddress, he)
  BY <1>1, <1>2, <1>3, <1>4 DEF Places
<1>6. 0 \notin withdrawn
  BY <1>3 DEF Named
<1>7. Named(he, handle, mine, withdrawn, Len(owner))
  <2>1. \A a \in Addresses : he[a] \in 0 .. Len(owner)
    BY <1>2, <1>3 DEF Named
  <2>2. \A a, b \in Addresses : he[a] = he[b] /\ he[a] # 0 => a = b
    BY <1>2, <1>3 DEF Named
  <2>3. \A a \in Addresses, c \in Clients : he[a] = mine[c] /\ he[a] # 0 => handle[c] = a
    BY <1>2, <1>3 DEF Named
  <2> QED  BY <1>3, <2>1, <2>2, <2>3 DEF Named
<1>8. Doomed(he, withdrawn, cancelled, timers)
  BY <1>2, <1>3, <1>6 DEF Doomed
<1>9. Rightly(astray, flushing, cancelled, triggered, NoAddress, he, withdrawn)
  BY <1>1, <1>2, <1>3, <1>4 DEF Rightly
<1> QED
  BY <1>2, <1>5, <1>7, <1>8, <1>9

LEMMA SlotGoesOnStep ==
    ASSUME TimersAssumption, TimersTypeOK, TimersInv, SlotGoesOn
    PROVE  TimersTypeOK' /\ TimersInv'
<1> DEFINE delays == [left EXCEPT ![calling] = Interval[owner[held[calling]]]]
<1>1. /\ calling # NoAddress /\ calling' = NoAddress
      /\ cancelled' = cancelled /\ triggered' = triggered /\ flushing' = flushing
      /\ handle' = handle /\ mine' = mine /\ owner' = owner
      /\ withdrawn' = withdrawn /\ astray' = astray
  BY DEF SlotGoesOn
<1>2. InFlush'
  BY <1>1 DEF TimersInv, InFlush
<1>3. CASE calling \in cancelled
  <2>1. held' = [held EXCEPT ![calling] = 0] /\ timers' = timers /\ left' = left
    BY <1>3 DEF SlotGoesOn
  <2>2. /\ held' \in [Addresses -> {0} \cup Numbers]
        /\ Places(timers, left, triggered, NoAddress, held')
        /\ Named(held', handle, mine, withdrawn, Len(owner))
        /\ Doomed(held', withdrawn, cancelled, timers)
        /\ Rightly(astray, flushing, cancelled, triggered, NoAddress, held', withdrawn)
    BY <1>1, <2>1, CalledEnds
  <2>3. TimersTypeOK'
    BY <1>1, <2>1, <2>2 DEF TimersTypeOK
  <2> QED  BY <1>1, <1>2, <2>1, <2>2, <2>3 DEF TimersInv
<1>4. CASE calling \notin cancelled
  <2>1. held' = held /\ timers' = Inserted(timers, calling, delays) /\ left' = delays
    BY <1>4 DEF SlotGoesOn
  <2>2. /\ calling \in Addresses /\ NoAddress \notin Addresses
        /\ owner[held[calling]] \in Clients
        /\ calling \notin ToSet(timers) \cup ToSet(triggered)
    BY <1>1, CalledIsLive
  <2>3. Interval[owner[held[calling]]] \in Int /\ left \in Delays /\ timers \in Seq(Addresses)
    BY <2>2 DEF TimersAssumption, TimersTypeOK, Delays
  <2>4. delays \in Delays /\ \A b \in Addresses : b # calling => delays[b] = left[b]
    BY <2>3 DEF Delays
  <2> HIDE DEF delays
  <2>5. OneToOne(timers) /\ InOrder(timers, left) /\ calling \notin ToSet(timers)
    BY <2>2 DEF TimersInv, Places
  <2>6. /\ timers' \in Seq(Addresses)
        /\ ToSet(timers') = ToSet(timers) \cup {calling}
        /\ OneToOne(timers') /\ InOrder(timers', left')
    BY <2>1, <2>2, <2>3, <2>4, <2>5, InsertTimer
  <2>7. TimersTypeOK'
    BY <1>1, <2>1, <2>4, <2>6 DEF TimersTypeOK, Delays
  <2>8. Places(timers', left', triggered, NoAddress, held)
    <3>1. Places(timers, left, triggered, calling, held)
      BY DEF TimersInv
    <3>2. ToSet(timers) \subseteq Addresses /\ ToSet(triggered) \subseteq Addresses
      BY ItemsOf DEF TimersTypeOK
    <3> QED  BY <2>2, <2>6, <3>1, <3>2 DEF Places
  <2>9. Doomed(held, withdrawn, cancelled, timers')
    BY <1>4, <2>6 DEF TimersInv, Doomed
  <2>10. Rightly(astray, flushing, cancelled, triggered, NoAddress, held, withdrawn)
    BY <2>2 DEF TimersInv, Rightly, TimersTypeOK
  <2> QED  BY <1>1, <1>2, <2>1, <2>7, <2>8, <2>9, <2>10 DEF TimersInv
<1> QED
  BY <1>3, <1>4

LEMMA SlotEndsStep ==
    ASSUME TimersAssumption, TimersTypeOK, TimersInv, SlotEnds
    PROVE  TimersTypeOK' /\ TimersInv'
<1> DEFINE n == held[calling]
           c == owner[n]
           forgets == mine[c] = n /\ c \notin StaleClients
<1>1. /\ calling # NoAddress /\ calling' = NoAddress
      /\ held' = [held EXCEPT ![calling] = 0]
      /\ handle' = IF forgets THEN [handle EXCEPT ![c] = NoAddress] ELSE handle
      /\ mine' = IF forgets THEN [mine EXCEPT ![c] = 0] ELSE mine
      /\ timers' = timers /\ cancelled' = cancelled /\ triggered' = triggered
      /\ flushing' = flushing /\ left' = left /\ owner' = owner
      /\ withdrawn' = withdrawn /\ astray' = astray
  BY DEF SlotEnds
<1>2. /\ held' \in [Addresses -> {0} \cup Numbers]
      /\ Places(timers, left, triggered, NoAddress, held')
      /\ Named(held', handle, mine, withdrawn, Len(owner))
      /\ Doomed(held', withdrawn, cancelled, timers)
      /\ Rightly(astray, flushing, cancelled, triggered, NoAddress, held', withdrawn)
  BY <1>1, CalledEnds
<1>3. c \in Clients
  BY <1>1, CalledIsLive
<1> HIDE DEF c, n
<1>4. \A d \in Clients :
          /\ handle'[d] = IF forgets /\ d = c THEN NoAddress ELSE handle[d]
          /\ mine'[d] = IF forgets /\ d = c THEN 0 ELSE mine[d]
  BY <1>1, <1>3 DEF TimersTypeOK
<1>5. /\ handle' \in [Clients -> Addresses \cup {NoAddress}]
      /\ mine' \in [Clients -> {0} \cup Numbers]
  BY <1>1, <1>3 DEF TimersTypeOK
<1> HIDE DEF forgets
<1>6. Named(held', handle', mine', withdrawn, Len(owner))
  <2>1. \A d \in Clients :
            mine'[d] \in 0 .. Len(owner) /\ (handle'[d] = NoAddress <=> mine'[d] = 0)
    BY <1>2, <1>4 DEF Named
  <2>2. \A a \in Addresses, d \in Clients :
            held'[a] = mine'[d] /\ held'[a] # 0 => handle'[d] = a
    BY <1>2, <1>4 DEF Named
  <2> QED  BY <1>2, <2>1, <2>2 DEF Named
<1>7. TimersTypeOK'
  BY <1>1, <1>2, <1>5 DEF TimersTypeOK
<1>8. InFlush'
  BY <1>1 DEF TimersInv, InFlush
<1> QED
  BY <1>1, <1>2, <1>6, <1>7, <1>8 DEF TimersInv

LEMMA TimersStep ==
    ASSUME TimersAssumption, TimersTypeOK, TimersInv, [TimersNext]_timerVars
    PROVE  TimersTypeOK' /\ TimersInv'
<1>1. ASSUME NEW c \in Clients, CancelTimer(c) PROVE TimersTypeOK' /\ TimersInv'
  BY <1>1, CancelStep
<1>2. ASSUME NEW c \in Clients, NEW a \in Addresses, RunEvery(c, a)
      PROVE  TimersTypeOK' /\ TimersInv'
  BY <1>2, RunStep
<1>3. CASE Tick
  BY <1>3, TickStep
<1>4. CASE Flush
  BY <1>4, FlushBeginStep, TriggerStep, SlotGoesOnStep, SlotEndsStep, FlushEndStep
     DEF Flush
<1>5. CASE UNCHANGED timerVars
  BY <1>5 DEF timerVars, flushVars, TimersTypeOK, TimersInv, InFlush
<1> QED
  BY <1>1, <1>2, <1>3, <1>4, <1>5 DEF TimersNext

-----------------------------------------------------------------------------
(* Theorems *)

LEMMA TimersInvariant ==
    ASSUME TimersAssumption
    PROVE  TimersSpec => [](TimersTypeOK /\ TimersInv)
<1>1. TimersInit => TimersTypeOK /\ TimersInv
  BY TimersStart
<1>2. TimersTypeOK /\ TimersInv /\ [TimersNext]_timerVars => (TimersTypeOK /\ TimersInv)'
  BY TimersStep
<1> QED
  BY <1>1, <1>2, PTL DEF TimersSpec

\* The variables of the timers keep their types (grt_manager.cpp, run_every,
\* cancel_timer and flush_timers).
THEOREM TimersTypeCorrect ==
    ASSUME TimersAssumption
    PROVE  TimersSpec => []TimersTypeOK
  BY TimersInvariant, PTL

\* run_every, cancel_timer and flush_timers, called from the slots of a flush
\* too, never leave an address of a deleted timer in a list, and never a timer
\* in two places or in none.
THEOREM TimersReachTheLive ==
    ASSUME TimersAssumption
    PROVE  TimersSpec => []ListIsSound
<1>1. TimersTypeOK /\ TimersInv => ListIsSound
  <2> SUFFICES ASSUME TimersTypeOK, TimersInv PROVE ListIsSound
    OBVIOUS
  <2> DEFINE last == IF calling = NoAddress THEN <<>> ELSE <<calling>>
             front == timers \o triggered
  <2>1. /\ timers \in Seq(Addresses) /\ triggered \in Seq(Addresses)
        /\ calling \in Addresses \cup {NoAddress} /\ NoAddress \notin Addresses
    BY DEF TimersTypeOK, TimersAssumption
  <2>2. Places(timers, left, triggered, calling, held)
    BY DEF TimersInv
  <2>3. /\ last \in Seq(Addresses) /\ Len(last) <= 1 /\ Len(last) \in Nat
        /\ ToSet(last) = {calling} \ {NoAddress}
    <3>1. CASE calling = NoAddress
      <4>1. <<>> \in Seq(Addresses) /\ Len(<<>>) = 0 /\ ToSet(<<>>) = {}
        BY EmptySeq, AbsentFromEmpty
      <4> QED  BY <3>1, <4>1
    <3>2. CASE calling # NoAddress
      <4>1. <<calling>> \in Seq(Addresses) /\ Len(<<calling>>) = 1
        BY <2>1, <3>2
      <4>2. ToSet(<<calling>>) = {calling}
        BY DEF ToSet
      <4> QED  BY <3>2, <4>1, <4>2
    <3> QED  BY <3>1, <3>2
  <2> HIDE DEF last, front
  <2>4. OneToOne(last)
    BY <2>3 DEF OneToOne
  <2>5. /\ front \in Seq(Addresses)
        /\ ToSet(front) = ToSet(timers) \cup ToSet(triggered)
        /\ OneToOne(front)
    BY <2>1, <2>2, ConcatList DEF Places, front
  <2>6. ToSet(front) \cap ToSet(last) = {}
    BY <2>2, <2>3, <2>5 DEF Places
  <2>7. /\ front \o last \in Seq(Addresses)
        /\ ToSet(front \o last) = ToSet(front) \cup ToSet(last)
        /\ OneToOne(front \o last)
    BY <2>3, <2>4, <2>5, <2>6, ConcatList
  <2>8. Reached = front \o last
    BY DEF Reached, front, last
  <2>9. ToSet(Reached) = Live
    <3>1. ToSet(timers) \subseteq Addresses /\ ToSet(triggered) \subseteq Addresses
      BY <2>1, ItemsOf
    <3> QED  BY <2>1, <2>2, <2>3, <2>5, <2>7, <2>8, <3>1 DEF Places, Live
  <2>10. IsInjective(Reached)
    BY <2>7, <2>8, ItemsOf DEF OneToOne, IsInjective
  <2>11. \A i, j \in DOMAIN timers : i < j => left[timers[i]] <= left[timers[j]]
    BY <2>1, <2>2, ItemsOf DEF Places, InOrder
  <2> QED  BY <2>9, <2>10, <2>11 DEF ListIsSound
<1> QED
  BY <1>1, TimersInvariant, PTL

\* A timer that was cancelled is never put back, not even by the flush that
\* was calling its slot.
THEOREM TimersStayCancelled ==
    ASSUME TimersAssumption
    PROVE  TimersSpec => []CancelledIsGone
<1>1. TimersTypeOK /\ TimersInv => CancelledIsGone
  <2> SUFFICES ASSUME TimersTypeOK, TimersInv, NEW a \in ToSet(timers)
               PROVE  held[a] \notin withdrawn
    BY DEF CancelledIsGone
  <2>1. a \in Addresses
    BY ItemsOf DEF TimersTypeOK
  <2> QED  BY <2>1 DEF TimersInv, Doomed
<1> QED
  BY <1>1, TimersInvariant, PTL

\* A timer whose slot returns true goes back to the list, unless that timer
\* was cancelled or some client has cancelled one that was no longer its own.
THEOREM TimersGoOn ==
    ASSUME TimersAssumption
    PROVE  TimersSpec => GoesOn
<1>1. ASSUME TimersTypeOK, TimersInv, SlotGoesOn, held[calling] \notin withdrawn, ~astray
      PROVE  calling \in ToSet(timers')
  <2> DEFINE delays == [left EXCEPT ![calling] = Interval[owner[held[calling]]]]
  <2>1. calling # NoAddress
    BY <1>1 DEF SlotGoesOn
  <2>2. calling \notin cancelled
    BY <1>1 DEF TimersInv, Rightly
  <2>3. timers' = Inserted(timers, calling, delays)
    BY <1>1, <2>2 DEF SlotGoesOn
  <2>4. /\ calling \in Addresses
        /\ owner[held[calling]] \in Clients
        /\ calling \notin ToSet(timers)
    BY <1>1, <2>1, CalledIsLive
  <2>5. Interval[owner[held[calling]]] \in Int /\ left \in Delays /\ timers \in Seq(Addresses)
    BY <1>1, <2>4 DEF TimersAssumption, TimersTypeOK, Delays
  <2>6. delays \in Delays /\ \A b \in Addresses : b # calling => delays[b] = left[b]
    BY <2>5 DEF Delays
  <2> HIDE DEF delays
  <2>7. OneToOne(timers) /\ InOrder(timers, left)
    BY <1>1 DEF TimersInv, Places
  <2>8. ToSet(Inserted(timers, calling, delays)) = ToSet(timers) \cup {calling}
    BY <2>4, <2>5, <2>6, <2>7, InsertTimer
  <2> QED  BY <2>3, <2>8
<1>2. TimersTypeOK /\ TimersInv /\ [TimersNext]_timerVars =>
          [SlotGoesOn /\ held[calling] \notin withdrawn /\ ~astray =>
              calling \in ToSet(timers')]_timerVars
  BY <1>1
<1> QED
  BY <1>2, TimersInvariant, PTL DEF TimersSpec, GoesOn
=============================================================================
