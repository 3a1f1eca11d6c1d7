-------------------------- MODULE IdleTasksProofs --------------------------
(***************************************************************************)
(* Proofs about IdleTasks, for any functions, of which any may throw: its  *)
(* types and the counting of the blocks, that no function gets lost, and   *)
(* that the idle tasks are the one-shot tasks of OneShots.                 *)
(***************************************************************************)
EXTENDS IdleTasks, SequenceTheorems, WellFoundedInduction, TLAPS

-----------------------------------------------------------------------------
(* The removal of a slot from a list of slots *)

\* The items of a sequence, by position.
LEMMA ItemsOf ==
    ASSUME NEW S, NEW s \in Seq(S)
    PROVE  /\ Len(s) \in Nat
           /\ DOMAIN s = 1 .. Len(s)
           /\ ToSet(s) \subseteq S
           /\ \A x : x \in ToSet(s) <=> \E i \in 1 .. Len(s) : s[i] = x
  BY LenProperties, ElementOfSeq DEF ToSet

\* What is in the concatenation of two sequences.
LEMMA ItemsOfConcat ==
    ASSUME NEW S, NEW s \in Seq(S), NEW u \in Seq(S)
    PROVE  /\ s \o u \in Seq(S)
           /\ ToSet(s \o u) = ToSet(s) \cup ToSet(u)
<1>1. /\ s \o u \in Seq(S)
      /\ Len(s \o u) = Len(s) + Len(u)
      /\ \A i \in 1 .. Len(s) + Len(u) :
             (s \o u)[i] = IF i <= Len(s) THEN s[i] ELSE u[i - Len(s)]
  BY ConcatProperties
<1>2. /\ Len(s) \in Nat /\ \A x : x \in ToSet(s) <=> \E i \in 1 .. Len(s) : s[i] = x
      /\ Len(u) \in Nat /\ \A x : x \in ToSet(u) <=> \E i \in 1 .. Len(u) : u[i] = x
      /\ \A x : x \in ToSet(s \o u) <=> \E i \in 1 .. Len(s \o u) : (s \o u)[i] = x
  BY <1>1, ItemsOf
<1>3. ASSUME NEW x \in ToSet(s) PROVE x \in ToSet(s \o u)
  <2>1. PICK i \in 1 .. Len(s) : s[i] = x
    BY <1>2
  <2> QED  BY <1>1, <1>2, <2>1
<1>4. ASSUME NEW x \in ToSet(u) PROVE x \in ToSet(s \o u)
  <2>1. PICK i \in 1 .. Len(u) : u[i] = x
    BY <1>2
  <2>2. Len(s) + i \in 1 .. Len(s) + Len(u) /\ (s \o u)[Len(s) + i] = u[i]
    BY <1>1, <1>2
  <2> QED  BY <1>1, <1>2, <2>1, <2>2
<1>5. ASSUME NEW x \in ToSet(s \o u) PROVE x \in ToSet(s) \cup ToSet(u)
  <2>1. PICK i \in 1 .. Len(s) + Len(u) : (s \o u)[i] = x
    BY <1>1, <1>2
  <2>2. CASE i <= Len(s)
    BY <1>1, <1>2, <2>1, <2>2
  <2>3. CASE i > Len(s)
    <3>1. i - Len(s) \in 1 .. Len(u) /\ u[i - Len(s)] = x
      BY <1>1, <1>2, <2>1, <2>3
    <3> QED  BY <1>2, <3>1
  <2> QED  BY <1>2, <2>1, <2>2, <2>3
<1> QED
  BY <1>1, <1>3, <1>4, <1>5

\* A set of numbers has a least one.
LEMMA LeastOf ==
    ASSUME NEW I, I \subseteq Nat, I # {}
    PROVE  \E i \in I : \A j \in I : i <= j
<1> DEFINE R == OpToRel(<, Nat)
<1>1. IsWellFoundedOn(R, Nat)
  BY NatLessThanWellFounded
<1>2. \A i, j \in Nat : j < i => <<j, i>> \in R
  BY DEF OpToRel
<1> HIDE DEF R
<1>3. PICK i \in I : \A j \in I : ~(<<j, i>> \in R)
  BY <1>1, WFMin
<1>4. ASSUME NEW j \in I PROVE i <= j
  <2>1. i \in Nat /\ j \in Nat
    OBVIOUS
  <2>2. ~(j < i)
    BY <1>2, <1>3, <2>1
  <2> QED  BY <2>1, <2>2
<1> QED
  BY <1>4

\* The first position of an item that is there.
LEMMA FirstPosition ==
    ASSUME NEW S, NEW s \in Seq(S), NEW x \in ToSet(s)
    PROVE  \E i \in 1 .. Len(s) :
              /\ s[i] = x
              /\ \A j \in 1 .. i - 1 : s[j] # x
              /\ RemoveFirst(s, x) = RemoveAt(s, i)
<1> DEFINE I == {i \in 1 .. Len(s) : s[i] = x}
<1>1. Len(s) \in Nat /\ I # {} /\ I \subseteq Nat
  BY ItemsOf
<1>2. PICK i \in I : \A j \in I : i <= j
  <2> HIDE DEF I
  <2> QED  BY <1>1, LeastOf
<1>3. \A k \in I : (\A j \in I : k <= j) => k = i
  BY <1>1, <1>2
<1>4. Min(I) = i
  <2> HIDE DEF I
  <2> QED  BY <1>2, <1>3 DEF Min
<1>5. \A j \in 1 .. i - 1 : s[j] # x
  BY <1>1, <1>2
<1>6. RemoveFirst(s, x) = RemoveAt(s, i)
  BY <1>1, <1>2, <1>4 DEF RemoveFirst, SelectInSeq
<1> QED
  BY <1>5, <1>6

\* The item at position i goes, and those behind it move down.
LEMMA RemoveAtItems ==
    ASSUME NEW S, NEW s \in Seq(S), NEW i \in 1 .. Len(s)
    PROVE  /\ RemoveAt(s, i) \in Seq(S)
           /\ Len(RemoveAt(s, i)) = Len(s) - 1
           /\ \A j \in 1 .. Len(s) - 1 :
                 RemoveAt(s, i)[j] = IF j < i THEN s[j] ELSE s[j + 1]
<1> DEFINE front == SubSeq(s, 1, i - 1)
           back == SubSeq(s, i + 1, Len(s))
<1>1. /\ Len(s) \in Nat
      /\ \A k \in 1 .. Len(s) : s[k] \in S
  BY LenProperties, ElementOfSeq
<1>2. /\ front \in Seq(S)
      /\ Len(front) = i - 1
      /\ \A j \in 1 .. i - 1 : front[j] = s[j]
  BY <1>1, SubSeqProperties
<1>3. /\ back \in Seq(S)
      /\ Len(back) = Len(s) - i
      /\ \A j \in 1 .. Len(s) - i : back[j] = s[i + j]
  BY <1>1, SubSeqProperties
<1> HIDE DEF front, back
<1>4. /\ front \o back \in Seq(S)
      /\ Len(front \o back) = Len(s) - 1
      /\ \A j \in 1 .. Len(s) - 1 :
            (front \o back)[j] = IF j <= i - 1 THEN front[j] ELSE back[j - (i - 1)]
  <2>1. /\ front \o back \in Seq(S)
        /\ Len(front \o back) = Len(front) + Len(back)
        /\ \A j \in 1 .. Len(front) + Len(back) : (front \o back)[j] =
              IF j <= Len(front) THEN front[j] ELSE back[j - Len(front)]
    BY <1>1, <1>2, <1>3, ConcatProperties
  <2>2. Len(front) + Len(back) = Len(s) - 1
    BY <1>1, <1>2, <1>3
  <2> QED  BY <1>1, <1>2, <1>3, <2>1, <2>2
<1>5. RemoveAt(s, i) = front \o back
  BY DEF RemoveAt, front, back
<1> QED
  BY <1>1, <1>2, <1>3, <1>4, <1>5

\* What is left of a list, by position.
LEMMA RemovedItems ==
    ASSUME NEW S, NEW s \in Seq(S), NEW i \in 1 .. Len(s),
           \A j \in 1 .. i - 1 : s[j] # s[i]
    PROVE  /\ RemoveFirst(s, s[i]) \in Seq(S)
           /\ Len(RemoveFirst(s, s[i])) = Len(s) - 1
           /\ \A j \in 1 .. Len(s) - 1 :
                 RemoveFirst(s, s[i])[j] = IF j < i THEN s[j] ELSE s[j + 1]
<1>1. Len(s) \in Nat /\ s[i] \in ToSet(s)
  BY ItemsOf
<1>2. PICK k \in 1 .. Len(s) :
          /\ s[k] = s[i]
          /\ \A j \in 1 .. k - 1 : s[j] # s[i]
          /\ RemoveFirst(s, s[i]) = RemoveAt(s, k)
  BY <1>1, FirstPosition
<1>3. k = i
  BY <1>1, <1>2
<1> QED
  BY <1>2, <1>3, RemoveAtItems

LEMMA AbsentKept ==
    ASSUME NEW S, NEW s \in Seq(S), NEW x, x \notin ToSet(s)
    PROVE  RemoveFirst(s, x) = s
<1>1. ~\E i \in 1 .. Len(s) : s[i] = x
  BY ItemsOf
<1> QED
  BY <1>1 DEF RemoveFirst, SelectInSeq

LEMMA AbsentFromEmpty ==
    ASSUME NEW x
    PROVE  ToSet(<<>>) = {} /\ RemoveFirst(<<>>, x) = <<>>
<1> DEFINE s == <<>>
<1>1. s \in Seq({}) /\ Len(s) = 0
  BY EmptySeq
<1> HIDE DEF s
<1>2. \A S : s \in Seq(S) => ToSet(s) \subseteq S
  BY ItemsOf
<1>3. ToSet(s) = {}
  BY <1>1, <1>2
<1>4. RemoveFirst(s, x) = s
  BY <1>1, <1>3, AbsentKept
<1> QED
  BY <1>3, <1>4 DEF s

\* Nothing but the item goes.
LEMMA RemovedHolds ==
    ASSUME NEW S, NEW s \in Seq(S), NEW x
    PROVE  /\ RemoveFirst(s, x) \in Seq(S)
           /\ ToSet(RemoveFirst(s, x)) \subseteq ToSet(s)
           /\ ToSet(s) \ {x} \subseteq ToSet(RemoveFirst(s, x))
<1>1. CASE x \notin ToSet(s)
  BY <1>1, AbsentKept
<1>2. CASE x \in ToSet(s)
  <2> DEFINE r == RemoveFirst(s, x)
  <2>1. PICK i \in 1 .. Len(s) : s[i] = x /\ \A j \in 1 .. i - 1 : s[j] # x
    BY <1>2, FirstPosition
  <2>2. /\ r \in Seq(S)
        /\ Len(r) = Len(s) - 1
        /\ \A j \in 1 .. Len(s) - 1 : r[j] = IF j < i THEN s[j] ELSE s[j + 1]
    BY <2>1, RemovedItems
  <2> HIDE DEF r
  <2>3. /\ Len(s) \in Nat
        /\ \A y : y \in ToSet(s) <=> \E j \in 1 .. Len(s) : s[j] = y
        /\ \A y : y \in ToSet(r) <=> \E j \in 1 .. Len(r) : r[j] = y
    BY <2>2, ItemsOf
  <2>4. ASSUME NEW y \in ToSet(r) PROVE y \in ToSet(s)
    <3>1. PICK j \in 1 .. Len(s) - 1 : r[j] = y
      BY <2>2, <2>3
    <3>2. j \in 1 .. Len(s) /\ j + 1 \in 1 .. Len(s)
      BY <2>3
    <3> QED  BY <2>2, <2>3, <3>1, <3>2
  <2>5. ASSUME NEW y \in ToSet(s), y # x PROVE y \in ToSet(r)
    <3>1. PICK j \in 1 .. Len(s) : s[j] = y
      BY <2>3
    <3>2. CASE j < i
      <4>1. j \in 1 .. Len(s) - 1 /\ r[j] = y
        BY <2>2, <2>3, <3>1, <3>2
      <4> QED  BY <2>2, <2>3, <4>1
    <3>3. CASE j > i
      <4>1. j - 1 \in 1 .. Len(s) - 1 /\ ~(j - 1 < i) /\ (j - 1) + 1 = j
        BY <2>3, <3>1, <3>3
      <4>2. r[j - 1] = y
        BY <2>2, <3>1, <4>1
      <4> QED  BY <2>2, <2>3, <4>1, <4>2
    <3>4. j # i
      BY <2>1, <2>5, <3>1
    <3> QED  BY <3>2, <3>3, <3>4, <2>3
  <2> QED  BY <2>2, <2>4, <2>5 DEF r
<1> QED
  BY <1>1, <1>2

\* The first of two lists that has the item loses it.
LEMMA ConcatRemoved ==
    ASSUME NEW S, NEW s \in Seq(S), NEW u \in Seq(S), NEW x
    PROVE  RemoveFirst(s \o u, x) =
              IF x \in ToSet(s) THEN RemoveFirst(s, x) \o u
                                ELSE s \o RemoveFirst(u, x)
<1> DEFINE c == s \o u
<1>1. /\ c \in Seq(S)
      /\ Len(c) = Len(s) + Len(u)
      /\ \A i \in 1 .. Len(s) + Len(u) :
             c[i] = IF i <= Len(s) THEN s[i] ELSE u[i - Len(s)]
  BY ConcatProperties
<1>2. Len(s) \in Nat /\ Len(u) \in Nat
  BY LenProperties
<1>3. CASE x \in ToSet(s)
  <2> DEFINE r == RemoveFirst(s, x)
             l == RemoveFirst(c, x)
  <2>1. PICK i \in 1 .. Len(s) : s[i] = x /\ \A j \in 1 .. i - 1 : s[j] # x
    BY <1>3, FirstPosition
  <2>2. /\ r \in Seq(S)
        /\ Len(r) = Len(s) - 1
        /\ \A j \in 1 .. Len(s) - 1 : r[j] = IF j < i THEN s[j] ELSE s[j + 1]
    BY <2>1, RemovedItems
  <2>3. i \in 1 .. Len(c) /\ c[i] = x /\ \A j \in 1 .. i - 1 : c[j] # c[i]
    BY <1>1, <1>2, <2>1
  <2>4. /\ l \in Seq(S)
        /\ Len(l) = Len(c) - 1
        /\ \A j \in 1 .. Len(c) - 1 : l[j] = IF j < i THEN c[j] ELSE c[j + 1]
    <3> HIDE DEF c
    <3> QED  BY <1>1, <2>3, RemovedItems
  <2> HIDE DEF r, l, c
  <2>5. /\ r \o u \in Seq(S)
        /\ Len(r \o u) = Len(r) + Len(u)
        /\ \A j \in 1 .. Len(r) + Len(u) :
               (r \o u)[j] = IF j <= Len(r) THEN r[j] ELSE u[j - Len(r)]
    BY <2>2, ConcatProperties
  <2>6. Len(l) = Len(s) + Len(u) - 1 /\ Len(l) = Len(r \o u)
    BY <1>1, <1>2, <2>2, <2>4, <2>5
  <2>7. ASSUME NEW j \in 1 .. Len(s) + Len(u) - 1 PROVE l[j] = (r \o u)[j]
    <3>1. /\ l[j] = IF j < i THEN c[j] ELSE c[j + 1]
          /\ (r \o u)[j] = IF j <= Len(s) - 1 THEN r[j] ELSE u[j - (Len(s) - 1)]
      BY <1>1, <1>2, <2>2, <2>4, <2>5
    <3>2. /\ c[j] = IF j <= Len(s) THEN s[j] ELSE u[j - Len(s)]
          /\ c[j + 1] = IF j + 1 <= Len(s) THEN s[j + 1] ELSE u[(j + 1) - Len(s)]
      BY <1>1, <1>2
    <3>3. CASE j <= Len(s) - 1
      <4>1. r[j] = IF j < i THEN s[j] ELSE s[j + 1]
        BY <1>2, <2>2, <3>3
      <4> QED  BY <1>2, <3>1, <3>2, <3>3, <4>1
    <3>4. CASE ~(j <= Len(s) - 1)
      <4>1. ~(j < i) /\ ~(j + 1 <= Len(s)) /\ (j + 1) - Len(s) = j - (Len(s) - 1)
        BY <1>2, <3>4
      <4> QED  BY <1>2, <3>1, <3>2, <3>4, <4>1
    <3> QED  BY <3>3, <3>4
  <2>8. l = r \o u
    BY <2>4, <2>5, <2>6, <2>7, SeqEqual
  <2> QED  BY <1>3, <2>8 DEF r, l, c
<1>4. CASE x \notin ToSet(s) /\ x \in ToSet(u)
  <2> DEFINE r == RemoveFirst(u, x)
             l == RemoveFirst(c, x)
  <2>1. PICK i \in 1 .. Len(u) : u[i] = x /\ \A j \in 1 .. i - 1 : u[j] # x
    BY <1>4, FirstPosition
  <2>2. /\ r \in Seq(S)
        /\ Len(r) = Len(u) - 1
        /\ \A j \in 1 .. Len(u) - 1 : r[j] = IF j < i THEN u[j] ELSE u[j + 1]
    BY <2>1, RemovedItems
  <2>9. \A j \in 1 .. Len(s) : s[j] # x
    BY <1>4, ItemsOf
  <2> DEFINE k == Len(s) + i
  <2>3. k \in 1 .. Len(c) /\ c[k] = x /\ \A j \in 1 .. k - 1 : c[j] # c[k]
    <3>1. k \in 1 .. Len(c) /\ c[k] = x
      BY <1>1, <1>2, <2>1
    <3>2. ASSUME NEW j \in 1 .. k - 1 PROVE c[j] # x
      <4>1. CASE j <= Len(s)
        BY <1>1, <1>2, <2>1, <2>9, <4>1
      <4>2. CASE j > Len(s)
        <5>1. j - Len(s) \in 1 .. i - 1 /\ j \in 1 .. Len(s) + Len(u)
          BY <1>2, <2>1, <4>2
        <5> QED  BY <1>1, <1>2, <2>1, <4>2, <5>1
      <4> QED  BY <1>2, <4>1, <4>2
    <3> QED  BY <3>1, <3>2
  <2>4. /\ l \in Seq(S)
        /\ Len(l) = Len(c) - 1
        /\ \A j \in 1 .. Len(c) - 1 : l[j] = IF j < k THEN c[j] ELSE c[j + 1]
    <3> HIDE DEF c, k
    <3> QED  BY <1>1, <2>3, RemovedItems
  <2> HIDE DEF r, l, c
  <2>5. /\ s \o r \in Seq(S)
        /\ Len(s \o r) = Len(s) + Len(r)
        /\ \A j \in 1 .. Len(s) + Len(r) :
               (s \o r)[j] = IF j <= Len(s) THEN s[j] ELSE r[j - Len(s)]
    BY <2>2, ConcatProperties
  <2>6. Len(l) = Len(s) + Len(u) - 1 /\ Len(l) = Len(s \o r)
    BY <1>1, <1>2, <2>2, <2>4, <2>5
  <2>7. ASSUME NEW j \in 1 .. Len(s) + Len(u) - 1 PROVE l[j] = (s \o r)[j]
    <3>1. /\ l[j] = IF j < Len(s) + i THEN c[j] ELSE c[j + 1]
          /\ (s \o r)[j] = IF j <= Len(s) THEN s[j] ELSE r[j - Len(s)]
      BY <1>1, <1>2, <2>2, <2>4, <2>5
    <3>2. /\ c[j] = IF j <= Len(s) THEN s[j] ELSE u[j - Len(s)]
          /\ c[j + 1] = IF j + 1 <= Len(s) THEN s[j + 1] ELSE u[(j + 1) - Len(s)]
      BY <1>1, <1>2
    <3>3. CASE j <= Len(s)
      BY <1>2, <3>1, <3>2, <3>3
    <3>4. CASE ~(j <= Len(s))
      <4>1. /\ j - Len(s) \in 1 .. Len(u) - 1
            /\ (j + 1) - Len(s) = (j - Len(s)) + 1
            /\ ~(j <= Len(s)) /\ ~(j + 1 <= Len(s))
        BY <1>2, <3>4
      <4>2. r[j - Len(s)] = IF j - Len(s) < i THEN u[j - Len(s)]
                                              ELSE u[(j - Len(s)) + 1]
        BY <2>2, <4>1
      <4>3. j - Len(s) < i <=> j < Len(s) + i
        BY <1>2
      <4> QED  BY <3>1, <3>2, <4>1, <4>2, <4>3
    <3> QED  BY <3>3, <3>4
  <2>8. l = s \o r
    BY <2>4, <2>5, <2>6, <2>7, SeqEqual
  <2> QED  BY <1>4, <2>8 DEF r, l, c
<1>5. CASE x \notin ToSet(s) /\ x \notin ToSet(u)
  <2>1. x \notin ToSet(c)
    BY <1>5, ItemsOfConcat
  <2>2. RemoveFirst(c, x) = c /\ RemoveFirst(u, x) = u
    <3> HIDE DEF c
    <3> QED  BY <1>1, <1>5, <2>1, AbsentKept
  <2> QED  BY <1>5, <2>2
<1> QED
  BY <1>3, <1>4, <1>5

LEMMA TailOfConcat ==
    ASSUME NEW S, NEW s \in Seq(S), s # <<>>, NEW u \in Seq(S)
    PROVE  s \o u # <<>> /\ Tail(s \o u) = Tail(s) \o u
<1> DEFINE c == s \o u
           r == Tail(s)
<1>1. /\ c \in Seq(S)
      /\ Len(c) = Len(s) + Len(u)
      /\ \A i \in 1 .. Len(s) + Len(u) :
             c[i] = IF i <= Len(s) THEN s[i] ELSE u[i - Len(s)]
  BY ConcatProperties
<1>2. Len(s) \in Nat \ {0} /\ Len(u) \in Nat
  BY EmptySeq, LenProperties
<1>3. r \in Seq(S) /\ Len(r) = Len(s) - 1 /\ \A i \in 1 .. Len(r) : r[i] = s[i + 1]
  BY HeadTailProperties
<1> HIDE DEF c, r
<1>4. c # <<>>
  BY <1>1, <1>2, EmptySeq
<1>5. /\ Tail(c) \in Seq(S) /\ Len(Tail(c)) = Len(c) - 1
      /\ \A i \in 1 .. Len(Tail(c)) : Tail(c)[i] = c[i + 1]
  BY <1>1, <1>4, HeadTailProperties
<1>6. /\ r \o u \in Seq(S) /\ Len(r \o u) = Len(r) + Len(u)
      /\ \A i \in 1 .. Len(r) + Len(u) :
             (r \o u)[i] = IF i <= Len(r) THEN r[i] ELSE u[i - Len(r)]
  BY <1>3, ConcatProperties
<1>7. Len(Tail(c)) = Len(s) + Len(u) - 1 /\ Len(r \o u) = Len(s) + Len(u) - 1
  BY <1>1, <1>2, <1>3, <1>5, <1>6
<1>8. ASSUME NEW i \in 1 .. Len(s) + Len(u) - 1 PROVE Tail(c)[i] = (r \o u)[i]
  <2>1. Tail(c)[i] = IF i + 1 <= Len(s) THEN s[i + 1] ELSE u[(i + 1) - Len(s)]
    BY <1>1, <1>2, <1>5, <1>7
  <2>2. (r \o u)[i] = IF i <= Len(s) - 1 THEN r[i] ELSE u[i - (Len(s) - 1)]
    BY <1>2, <1>3, <1>6
  <2>3. CASE i <= Len(s) - 1
    <3>1. i \in 1 .. Len(r) /\ i + 1 <= Len(s)
      BY <1>2, <1>3, <2>3
    <3> QED  BY <1>3, <2>1, <2>2, <2>3, <3>1
  <2>4. CASE ~(i <= Len(s) - 1)
    <3>1. ~(i + 1 <= Len(s)) /\ (i + 1) - Len(s) = i - (Len(s) - 1)
      BY <1>2, <2>4
    <3> QED  BY <2>1, <2>2, <2>4, <3>1
  <2> QED  BY <2>3, <2>4
<1>9. Tail(c) = r \o u
  BY <1>5, <1>6, <1>7, <1>8, SeqEqual
<1> QED
  BY <1>4, <1>9 DEF c, r

-----------------------------------------------------------------------------
(* Types, and the blocks *)

Slots == Tasks \cup {Nothing}

\* Every block is that of an emission or that of a file being loaded, and the
\* emissions do not nest.
Counted ==
    /\ locked <=> emitting # "no"
    /\ blocked = (IF emitting = "no" THEN 0 ELSE 1) + (IF loading THEN 1 ELSE 0)
    /\ emitting # "calling" => todo = <<>> /\ running = NoTask

LEMMA TypeStep ==
    ASSUME TypeOK, Counted, [Next]_vars
    PROVE  TypeOK' /\ Counted'
<1> USE IdleAssumption DEF TypeOK, Counted, Signals, Slots, history, callVars
<1>1. CASE PerformBegin
  BY <1>1 DEF PerformBegin, Quiet
<1>2. CASE Flip
  BY <1>2 DEF Flip, Other
<1>3. CASE CallSlot
  <2>1. todo \in Seq(Slots) /\ todo # <<>>
    BY <1>3 DEF CallSlot
  <2>2. Head(todo) \in Slots /\ Tail(todo) \in Seq(Slots)
    BY <2>1, HeadTailProperties
  <2> QED  BY <1>3, <2>2 DEF CallSlot
<1>4. CASE SlotReturns
  BY <1>4 DEF SlotReturns
<1>5. CASE SlotThrows
  <2>1. running # NoTask
    BY <1>5 DEF SlotThrows
  <2>2. emitting = "calling" /\ blocked = 1
    BY <1>5, <2>1 DEF SlotThrows
  <2> QED  BY <1>5, <2>2 DEF SlotThrows, Unblocked
<1>6. CASE PerformEnd
  <2>1. slots' \in [Signals -> Seq(Slots)]
    BY <1>6 DEF PerformEnd, Spent, Other
  <2>2. blocked' \in Nat /\ blocked' = IF loading THEN 1 ELSE 0
    BY <1>6 DEF PerformEnd, Unblocked
  <2>3. locked' = FALSE /\ emitting' = "no" /\ UNCHANGED <<current, todo, running, loading>>
    BY <1>6 DEF PerformEnd
  <2>4. todo = <<>> /\ running = NoTask /\ UNCHANGED <<fresh, dropped, done, failed>>
    BY <1>6 DEF PerformEnd
  <2>5. emitting' \in {"no", "blocked", "calling"} /\ locked' \in BOOLEAN
    BY <2>3
  <2>6. TypeOK'
    BY <2>1, <2>2, <2>3, <2>4, <2>5
  <2>7. Counted'
    BY <2>2, <2>3, <2>4
  <2> QED  BY <2>6, <2>7
<1>7. CASE CancelAll
  BY <1>7 DEF CancelAll, Waiting
<1>8. CASE LoadBegin
  BY <1>8 DEF LoadBegin, MainIsFree
<1>9. CASE LoadEnd
  <2>1. blocked' = blocked - 1 /\ loading = TRUE /\ loading' = FALSE
    BY <1>9 DEF LoadEnd, Unblocked
  <2>2. UNCHANGED <<slots, current, callVars, history>>
    BY <1>9 DEF LoadEnd
  <2>3. blocked' = (IF emitting' = "no" THEN 0 ELSE 1) + (IF loading' THEN 1 ELSE 0)
    BY <2>1, <2>2
  <2>4. blocked' \in Nat /\ loading' \in BOOLEAN
    BY <2>1, <2>3
  <2>5. Counted'
    BY <2>2, <2>3
  <2> QED  BY <2>2, <2>4, <2>5
<1>10. ASSUME NEW t \in Tasks, Queue(t) PROVE TypeOK' /\ Counted'
  <2>1. slots[current] \in Seq(Slots) /\ t \in Slots
    OBVIOUS
  <2>2. Connected(t) \in Seq(Slots)
    BY <2>1, AppendProperties DEF Connected
  <2> QED  BY <1>10, <2>2 DEF Queue
<1>11. ASSUME NEW t \in Tasks, Disconnect(t) PROVE TypeOK' /\ Counted'
  <2>1. todo \in Seq(Slots) /\ \A s \in Signals : slots[s] \in Seq(Slots)
    OBVIOUS
  <2>2. /\ RemoveFirst(todo, t) \in Seq(Slots)
        /\ \A s \in Signals : RemoveFirst(slots[s], t) \in Seq(Slots)
    BY <2>1, RemovedHolds
  <2>3. todo = <<>> => RemoveFirst(todo, t) = <<>>
    BY AbsentFromEmpty
  <2>4. slots' \in [Signals -> Seq(Slots)] /\ todo' \in Seq(Slots)
    BY <1>11, <2>2 DEF Disconnect
  <2>5. UNCHANGED <<current, blocked, locked, emitting, running, loading, fresh, done, failed>>
    BY <1>11 DEF Disconnect
  <2>6. dropped' \subseteq Tasks /\ (todo = <<>> => todo' = <<>>)
    BY <1>11, <2>3 DEF Disconnect
  <2> QED  BY <2>4, <2>5, <2>6
<1>12. CASE UNCHANGED vars
  BY <1>12 DEF vars
<1> QED
  BY <1>1, <1>2, <1>3, <1>4, <1>5, <1>6, <1>7, <1>8, <1>9, <1>10, <1>11, <1>12
  DEF Next, Perform

LEMMA TypeInit == Init => TypeOK /\ Counted
<1>1. <<>> \in Seq(Slots)
  OBVIOUS
<1> QED
  BY <1>1, IdleAssumption DEF Init, TypeOK, Counted, Signals, Slots

\* The types hold, and with them that _idle_blocked never goes below zero.
THEOREM IdleTypeCorrect == Spec => []TypeOK
<1>1. (TypeOK /\ Counted) /\ [Next]_vars => (TypeOK /\ Counted)'
  BY TypeStep
<1> QED  BY <1>1, TypeInit, PTL DEF Spec

-----------------------------------------------------------------------------
(* No function gets lost *)

\* A function that is still to be queued is in no list.
FreshIsNowhere ==
    /\ \A s \in Signals : fresh \cap ToSet(slots[s]) = {}
    /\ fresh \cap ToSet(todo) = {}

\* What waits in the signal that is emitted is still to be called: the signal
\* is cleared only when that has been done.
StillToCome ==
    emitting = "calling" =>
        \A t \in Waiting : t \in ToSet(slots[Other(current)]) => t \in ToSet(todo)

LostInv == FreshIsNowhere /\ StillToCome /\ NothingLost

\* A function that is appended to a list.
LEMMA AppendedHolds ==
    ASSUME NEW S, NEW q \in Seq(S), NEW t \in S
    PROVE  ToSet(Append(q, t)) = ToSet(q) \cup {t}
<1>1. <<t>> \in Seq(S) /\ Append(q, t) = q \o <<t>>
  BY AppendIsConcat
<1>2. ToSet(<<t>>) = {t}
  BY DEF ToSet
<1> DEFINE l == <<t>>
<1> HIDE DEF l
<1>3. l \in Seq(S) => ToSet(q \o l) = ToSet(q) \cup ToSet(l)
  BY ItemsOfConcat
<1> QED
  BY <1>1, <1>2, <1>3 DEF l

\* The first of a list, and the others.
LEMMA HeadHolds ==
    ASSUME NEW S, NEW q \in Seq(S), q # <<>>
    PROVE  /\ Head(q) \in S /\ Tail(q) \in Seq(S)
           /\ q = <<Head(q)>> \o Tail(q)
           /\ ToSet(q) = {Head(q)} \cup ToSet(Tail(q))
<1>1. Head(q) \in S /\ Tail(q) \in Seq(S) /\ <<Head(q)>> \in Seq(S)
  BY HeadTailProperties
<1>2. Len(q) \in Nat \ {0} /\ 1 \in 1 .. Len(q)
  BY EmptySeq
<1>3. q = <<Head(q)>> \o Tail(q)
  <2>1. SubSeq(q, 1, Len(q)) = <<q[1]>> \o SubSeq(q, 2, Len(q))
    BY <1>2, SubSeqRecursiveFirst
  <2>2. SubSeq(q, 1, Len(q)) = q /\ Tail(q) = SubSeq(q, 2, Len(q)) /\ Head(q) = q[1]
    BY <1>2, SubSeqFull, TailIsSubSeq
  <2> QED  BY <2>1, <2>2
<1>4. ToSet(<<Head(q)>>) = {Head(q)}
  BY DEF ToSet
<1> DEFINE h == <<Head(q)>>
           r == Tail(q)
<1> HIDE DEF h, r
<1>5. h \in Seq(S) /\ r \in Seq(S)
  BY <1>1 DEF h, r
<1>6. ToSet(h \o r) = ToSet(h) \cup ToSet(r)
  BY <1>5, ItemsOfConcat
<1> QED
  BY <1>1, <1>3, <1>4, <1>6 DEF h, r

\* A step of the emission leaves the lists and what was done alone.
LEMMA LostUnchanged ==
    ASSUME LostInv,
           UNCHANGED <<slots, current, todo, history>>,
           emitting' = "calling" => emitting = "calling"
    PROVE  LostInv'
  BY DEF LostInv, FreshIsNowhere, StillToCome, NothingLost, Waiting, Other, history

LEMMA LostStep ==
    ASSUME TypeOK, Counted, LostInv, [Next]_vars
    PROVE  LostInv'
<1>0. todo \in Seq(Slots) /\ \A s \in Signals : slots[s] \in Seq(Slots)
  BY DEF TypeOK, Slots
<1>00. current \in Signals /\ Other(current) \in Signals /\ Other(current) # current
       /\ Other(Other(current)) = current
       /\ \A s \in Signals : s = current \/ s = Other(current)
  BY DEF TypeOK, Signals, Other
<1>1. CASE PerformBegin
  BY <1>1, LostUnchanged DEF PerformBegin, history
<1>2. CASE Flip
  <2>1. current' = Other(current) /\ todo' = slots[current] /\ UNCHANGED <<slots, history>>
    BY <1>2 DEF Flip
  <2>2. FreshIsNowhere' /\ NothingLost'
    BY <1>00, <2>1 DEF LostInv, FreshIsNowhere, NothingLost, Waiting, history
  <2>3. Other(current') = current
    BY <1>00, <2>1
  <2>4. StillToCome'
    BY <2>1, <2>3 DEF StillToCome, Other
  <2> QED  BY <2>2, <2>4 DEF LostInv
<1>3. CASE CallSlot
  <2>1. /\ todo # <<>> /\ todo' = Tail(todo) /\ emitting = "calling"
        /\ done' = done \cup ({Head(todo)} \cap Tasks)
        /\ UNCHANGED <<slots, current, emitting, fresh, dropped>>
    BY <1>3 DEF CallSlot
  <2>2. ToSet(todo) = {Head(todo)} \cup ToSet(todo')
    BY <1>0, <2>1, HeadHolds
  <2>3. Waiting' = Waiting \ {Head(todo)}
    BY <2>1 DEF Waiting
  <2>4. FreshIsNowhere'
    BY <2>1, <2>2 DEF LostInv, FreshIsNowhere
  <2>5. StillToCome' /\ NothingLost'
    BY <2>1, <2>2, <2>3 DEF LostInv, StillToCome, NothingLost, Other
  <2> QED  BY <2>4, <2>5 DEF LostInv
<1>4. CASE SlotReturns
  BY <1>4, LostUnchanged DEF SlotReturns
<1>5. CASE SlotThrows
  <2>1. todo' = <<>> /\ emitting' = "no" /\ UNCHANGED <<slots, current, fresh, dropped, done>>
    BY <1>5 DEF SlotThrows
  <2>2. ToSet(todo') = {}
    BY <2>1, AbsentFromEmpty
  <2> QED
    BY <2>1, <2>2 DEF LostInv, FreshIsNowhere, StillToCome, NothingLost, Waiting
<1>6. CASE PerformEnd
  <2>1. /\ emitting = "calling" /\ todo = <<>> /\ emitting' = "no"
        /\ slots' = [slots EXCEPT ![Other(current)] = <<Nothing>>]
        /\ UNCHANGED <<current, todo, history>>
    BY <1>6 DEF PerformEnd, Spent
  <2>2. ToSet(todo) = {} /\ ToSet(<<Nothing>>) = {Nothing}
    BY <2>1, AbsentFromEmpty DEF ToSet
  <2>3. /\ slots'[current] = slots[current]
        /\ slots'[Other(current)] = <<Nothing>>
    BY <1>00, <2>1 DEF TypeOK
  <2>4. Nothing \notin fresh
    BY IdleAssumption DEF TypeOK
  <2>5. FreshIsNowhere'
    BY <1>00, <2>1, <2>2, <2>3, <2>4 DEF LostInv, FreshIsNowhere, history
  <2>6. \A t \in Waiting : t \notin ToSet(slots[Other(current)])
    BY <2>1, <2>2 DEF LostInv, StillToCome
  <2>7. NothingLost'
    BY <1>00, <2>1, <2>3, <2>6 DEF LostInv, NothingLost, Waiting, history
  <2> QED  BY <2>1, <2>5, <2>7 DEF LostInv, StillToCome
<1>7. CASE CancelAll
  <2>1. /\ slots' = [s \in Signals |-> <<>>] /\ dropped' = dropped \cup Waiting
        /\ UNCHANGED <<todo, emitting, fresh, done>>
    BY <1>7 DEF CancelAll, callVars
  <2>2. Waiting' = {}
    BY <2>1 DEF Waiting
  <2>3. \A s \in Signals : ToSet(slots'[s]) = {}
    BY <2>1, AbsentFromEmpty
  <2> QED
    BY <2>1, <2>2, <2>3 DEF LostInv, FreshIsNowhere, StillToCome, NothingLost
<1>8. CASE LoadBegin
  BY <1>8, LostUnchanged DEF LoadBegin, callVars
<1>9. CASE LoadEnd
  BY <1>9, LostUnchanged DEF LoadEnd, callVars
<1>10. ASSUME NEW t \in Tasks, Queue(t) PROVE LostInv'
  <2>1. /\ t \in fresh /\ fresh' = fresh \ {t}
        /\ slots' = [slots EXCEPT ![current] = Append(slots[current], t)]
        /\ UNCHANGED <<current, todo, emitting, dropped, done>>
    BY <1>10 DEF Queue, Connected, callVars
  <2>2. /\ ToSet(slots'[current]) = ToSet(slots[current]) \cup {t}
        /\ slots'[Other(current)] = slots[Other(current)]
    <3>1. ToSet(Append(slots[current], t)) = ToSet(slots[current]) \cup {t}
      BY <1>0, <1>00, AppendedHolds DEF Slots
    <3> QED  BY <1>00, <2>1, <3>1 DEF TypeOK
  <2>3. Waiting' \subseteq Waiting \cup {t}
    BY <2>1 DEF Waiting
  <2>4. t \notin ToSet(slots[Other(current)])
    BY <1>00, <2>1 DEF LostInv, FreshIsNowhere
  <2>5. FreshIsNowhere'
    BY <1>00, <2>1, <2>2 DEF LostInv, FreshIsNowhere
  <2>6. StillToCome'
    BY <2>1, <2>2, <2>3, <2>4 DEF LostInv, StillToCome, Other
  <2>7. NothingLost'
    BY <1>00, <2>1, <2>2, <2>3 DEF LostInv, NothingLost
  <2> QED  BY <2>5, <2>6, <2>7 DEF LostInv
<1>11. ASSUME NEW t \in Tasks, Disconnect(t) PROVE LostInv'
  <2>1. /\ slots' = [s \in Signals |-> RemoveFirst(slots[s], t)]
        /\ todo' = RemoveFirst(todo, t) /\ dropped' = dropped \cup {t}
        /\ UNCHANGED <<current, emitting, fresh, done>>
    BY <1>11 DEF Disconnect
  <2>2. /\ ToSet(todo') \subseteq ToSet(todo)
        /\ ToSet(todo) \ {t} \subseteq ToSet(todo')
    BY <1>0, <2>1, RemovedHolds
  <2>3. \A s \in Signals : /\ ToSet(slots'[s]) \subseteq ToSet(slots[s])
                           /\ ToSet(slots[s]) \ {t} \subseteq ToSet(slots'[s])
    BY <1>0, <2>1, RemovedHolds
  <2>4. Waiting' = Waiting \ {t}
    BY <2>1 DEF Waiting
  <2>5. FreshIsNowhere'
    BY <2>1, <2>2, <2>3 DEF LostInv, FreshIsNowhere
  <2>6. StillToCome'
    BY <1>00, <2>1, <2>2, <2>3, <2>4 DEF LostInv, StillToCome, Other
  <2>7. NothingLost'
    BY <2>1, <2>3, <2>4 DEF LostInv, NothingLost
  <2> QED  BY <2>5, <2>6, <2>7 DEF LostInv
<1>12. CASE UNCHANGED vars
  BY <1>12, LostUnchanged DEF vars, callVars
<1> QED
  BY <1>1, <1>2, <1>3, <1>4, <1>5, <1>6, <1>7, <1>8, <1>9, <1>10, <1>11, <1>12
  DEF Next, Perform

\* Nothing that was queued gets lost, whatever throws, and whatever is queued or
\* disconnected while the two signals change places: a function that waits is
\* connected to one of them.
THEOREM NothingEverLost == Spec => []NothingLost
<1>1. Init => LostInv
  <2> SUFFICES ASSUME Init PROVE LostInv
    OBVIOUS
  <2>1. ToSet(todo) = {} /\ \A s \in Signals : ToSet(slots[s]) = {}
    BY AbsentFromEmpty DEF Init
  <2>2. Waiting = {} /\ emitting = "no"
    BY DEF Init, Waiting
  <2> QED  BY <2>1, <2>2 DEF LostInv, FreshIsNowhere, StillToCome, NothingLost
<1>2. (TypeOK /\ Counted /\ LostInv) /\ [Next]_vars => (TypeOK /\ Counted /\ LostInv)'
  BY TypeStep, LostStep
<1>3. LostInv => NothingLost
  BY DEF LostInv
<1> QED  BY <1>1, <1>2, <1>3, TypeInit, PTL DEF Spec

-----------------------------------------------------------------------------
(* The idle tasks implement OneShots *)

\* The dummy of an emission is the first of its list.
OneDummy(q) == \A i \in 2 .. Len(q) : q[i] # Nothing
Dummies == OneDummy(todo) /\ \A s \in Signals : OneDummy(slots[s])

\* Between two emissions, all that waits is in the signal that collects; during
\* one, what is still to be called is not in it.
Turns ==
    IF emitting = "calling"
    THEN ToSet(todo) \cap ToSet(slots[current]) \subseteq {Nothing}
    ELSE slots[Other(current)] \in {<<>>, <<Nothing>>}

\* Once a slot has thrown, its functions stay where they are.
TurnInv == Dummies /\ (failed \/ Turns)

\* A list without its dummy.
LEMMA Undummied ==
    ASSUME NEW q \in Seq(Slots), OneDummy(q)
    PROVE  /\ RemoveFirst(q, Nothing) \in Seq(Slots)
           /\ \/ Nothing \notin ToSet(q) /\ RemoveFirst(q, Nothing) = q
              \/ \E r \in Seq(Slots) : /\ q = <<Nothing>> \o r
                                       /\ Nothing \notin ToSet(r)
                                       /\ RemoveFirst(q, Nothing) = r
<1>1. RemoveFirst(q, Nothing) \in Seq(Slots)
  BY RemovedHolds
<1>2. CASE Nothing \notin ToSet(q)
  BY <1>1, <1>2, AbsentKept
<1>3. CASE Nothing \in ToSet(q)
  <2>1. PICK i \in 1 .. Len(q) : q[i] = Nothing
    BY <1>3, ItemsOf
  <2>2. Len(q) \in Nat /\ i = 1
    BY <2>1, LenProperties DEF OneDummy
  <2>3. q # <<>> /\ Head(q) = Nothing
    BY <2>1, <2>2, EmptySeq
  <2> DEFINE r == Tail(q)
             n == <<Nothing>>
  <2>4. r \in Seq(Slots) /\ n \in Seq(Slots) /\ q = n \o r
        /\ Len(r) = Len(q) - 1 /\ \A j \in 1 .. Len(r) : r[j] = q[j + 1]
    BY <2>3, HeadHolds, HeadTailProperties
  <2> HIDE DEF r
  <2>5. Nothing \notin ToSet(r)
    <3> SUFFICES ASSUME Nothing \in ToSet(r) PROVE FALSE
      OBVIOUS
    <3>1. PICK j \in 1 .. Len(r) : r[j] = Nothing
      BY <2>4, ItemsOf
    <3>2. j + 1 \in 2 .. Len(q) /\ q[j + 1] = Nothing
      BY <2>2, <2>4, <3>1
    <3> QED  BY <3>2 DEF OneDummy
  <2>6. ToSet(n) = {Nothing}
    BY DEF ToSet
  <2> HIDE DEF n
  <2>7. RemoveFirst(q, Nothing) = RemoveFirst(n, Nothing) \o r
    BY <2>4, <2>6, ConcatRemoved
  <2>8. RemoveFirst(n, Nothing) = <<>>
    <3>1. n[1] = Nothing /\ Len(n) = 1 /\ 1 \in 1 .. Len(n)
      BY DEF n
    <3>2. RemoveFirst(n, n[1]) \in Seq(Slots) /\ Len(RemoveFirst(n, n[1])) = 0
      BY <2>4, <3>1, RemovedItems
    <3> QED  BY <3>1, <3>2, EmptySeq
  <2>9. RemoveFirst(q, Nothing) = r
    BY <2>4, <2>7, <2>8, ConcatEmptySeq
  <2> QED  BY <1>1, <2>4, <2>5, <2>9 DEF n
<1> QED
  BY <1>2, <1>3

\* A list that only has its dummy holds no function.
LEMMA SpentIsEmpty ==
    ASSUME NEW q \in {<<>>, <<Nothing>>}
    PROVE  RemoveFirst(q, Nothing) = <<>>
<1>1. CASE q = <<>>
  BY <1>1, AbsentFromEmpty
<1>2. CASE q = <<Nothing>>
  <2>1. q \in Seq(Slots) /\ Len(q) = 1 /\ q[1] = Nothing /\ 1 \in 1 .. Len(q)
    BY <1>2 DEF Slots
  <2>2. RemoveFirst(q, q[1]) \in Seq(Slots) /\ Len(RemoveFirst(q, q[1])) = 0
    <3> HIDE <1>2
    <3> QED  BY <2>1, RemovedItems
  <2> QED  BY <2>1, <2>2, EmptySeq
<1> QED
  BY <1>1, <1>2

\* A function is removed and the dummy left out, in either order.
LEMMA UndummiedRemoved ==
    ASSUME NEW q \in Seq(Slots), OneDummy(q), NEW t \in Tasks
    PROVE  /\ OneDummy(RemoveFirst(q, t))
           /\ RemoveFirst(RemoveFirst(q, t), Nothing) =
                 RemoveFirst(RemoveFirst(q, Nothing), t)
<1>0. t # Nothing
  BY IdleAssumption
<1>1. OneDummy(RemoveFirst(q, t))
  <2>1. CASE t \notin ToSet(q)
    BY <2>1, AbsentKept
  <2>2. CASE t \in ToSet(q)
    <3> DEFINE r == RemoveFirst(q, t)
    <3>1. PICK i \in 1 .. Len(q) : q[i] = t /\ \A j \in 1 .. i - 1 : q[j] # t
      BY <2>2, FirstPosition
    <3>2. /\ Len(r) = Len(q) - 1
          /\ \A j \in 1 .. Len(q) - 1 : r[j] = IF j < i THEN q[j] ELSE q[j + 1]
      BY <3>1, RemovedItems
    <3>3. Len(q) \in Nat
      BY LenProperties
    <3> HIDE DEF r
    <3>4. ASSUME NEW j \in 2 .. Len(r) PROVE r[j] # Nothing
      <4>1. j \in 1 .. Len(q) - 1 /\ j \in 2 .. Len(q) /\ j + 1 \in 2 .. Len(q)
        BY <3>2, <3>3
      <4> QED  BY <3>2, <4>1 DEF OneDummy
    <3> QED  BY <3>4 DEF r, OneDummy
  <2> QED  BY <2>1, <2>2
<1>2. CASE Nothing \notin ToSet(q)
  <2>1. RemoveFirst(q, Nothing) = q
    BY <1>2, AbsentKept
  <2>2. RemoveFirst(q, t) \in Seq(Slots) /\ Nothing \notin ToSet(RemoveFirst(q, t))
    BY <1>2, RemovedHolds
  <2>3. RemoveFirst(RemoveFirst(q, t), Nothing) = RemoveFirst(q, t)
    BY <2>2, AbsentKept
  <2> QED  BY <1>1, <2>1, <2>3
<1>3. CASE \E r \in Seq(Slots) : /\ q = <<Nothing>> \o r
                                 /\ Nothing \notin ToSet(r)
                                 /\ RemoveFirst(q, Nothing) = r
  <2>1. PICK r \in Seq(Slots) : /\ q = <<Nothing>> \o r
                                /\ Nothing \notin ToSet(r)
                                /\ RemoveFirst(q, Nothing) = r
    BY <1>3
  <2> DEFINE n == <<Nothing>>
             d == RemoveFirst(r, t)
  <2>2. n \in Seq(Slots) /\ ToSet(n) = {Nothing}
    BY DEF ToSet, Slots
  <2>3. d \in Seq(Slots)
    BY RemovedHolds
  <2>4. RemoveFirst(n, Nothing) = <<>>
    BY SpentIsEmpty
  <2>5. q = n \o r
    BY <2>1
  <2> HIDE DEF n, d
  <2>6. RemoveFirst(q, t) = n \o d
    BY <1>0, <2>2, <2>5, ConcatRemoved DEF d
  <2>7. RemoveFirst(n \o d, Nothing) = RemoveFirst(n, Nothing) \o d
    BY <2>2, <2>3, ConcatRemoved
  <2>8. RemoveFirst(RemoveFirst(q, t), Nothing) = d
    BY <2>3, <2>4, <2>6, <2>7, ConcatEmptySeq
  <2> QED  BY <1>1, <2>1, <2>8 DEF d
<1> QED
  BY <1>2, <1>3, Undummied

LEMMA TurnStep ==
    ASSUME TypeOK, Counted, LostInv, TurnInv, [Next]_vars
    PROVE  TurnInv'
<1>0. todo \in Seq(Slots) /\ \A s \in Signals : slots[s] \in Seq(Slots)
  BY DEF TypeOK, Slots
<1>00. current \in Signals /\ Other(current) \in Signals /\ Other(current) # current
       /\ Other(Other(current)) = current
       /\ \A s \in Signals : s = current \/ s = Other(current)
  BY DEF TypeOK, Signals, Other
<1>1. CASE PerformBegin
  BY <1>1 DEF PerformBegin, Quiet, Counted, history, TurnInv, Dummies, Turns, Other
<1>2. CASE Flip
  <2>1. /\ emitting = "blocked" /\ emitting' = "calling" /\ todo' = slots[current]
        /\ current' = Other(current) /\ UNCHANGED <<slots, failed>>
    BY <1>2 DEF Flip, history
  <2>2. slots[Other(current)] \in {<<>>, <<Nothing>>}
           => ToSet(slots[Other(current)]) \subseteq {Nothing}
    BY AbsentFromEmpty DEF ToSet
  <2> QED  BY <1>00, <2>1, <2>2 DEF TurnInv, Dummies, Turns
<1>3. CASE CallSlot
  <2>1. /\ emitting = "calling" /\ todo # <<>> /\ todo' = Tail(todo)
        /\ UNCHANGED <<slots, current, emitting, failed>>
    BY <1>3 DEF CallSlot
  <2>2. ToSet(todo) = {Head(todo)} \cup ToSet(todo')
    BY <1>0, <2>1, HeadHolds
  <2>3. OneDummy(todo')
    <3>1. /\ Len(todo) \in Nat /\ Len(todo') = Len(todo) - 1
          /\ \A j \in 1 .. Len(todo') : todo'[j] = todo[j + 1]
      BY <1>0, <2>1, HeadTailProperties, LenProperties
    <3>2. ASSUME NEW j \in 2 .. Len(todo') PROVE todo'[j] # Nothing
      <4>1. j \in 1 .. Len(todo') /\ j + 1 \in 2 .. Len(todo)
        BY <3>1
      <4> QED  BY <3>1, <4>1 DEF TurnInv, Dummies, OneDummy
    <3> QED  BY <3>2 DEF OneDummy
  <2> QED  BY <2>1, <2>2, <2>3 DEF TurnInv, Dummies, Turns
<1>4. CASE SlotReturns
  BY <1>4 DEF SlotReturns, history, TurnInv, Dummies, Turns
<1>5. CASE SlotThrows
  <2>1. todo' = <<>> /\ failed' = TRUE /\ slots' = slots
    BY <1>5 DEF SlotThrows
  <2>2. OneDummy(<<>>)
    BY DEF OneDummy
  <2> QED  BY <2>1, <2>2 DEF TurnInv, Dummies
<1>6. CASE PerformEnd
  <2>1. /\ emitting' = "no" /\ slots' = [slots EXCEPT ![Other(current)] = <<Nothing>>]
        /\ UNCHANGED <<current, todo, failed>>
    BY <1>6 DEF PerformEnd, Spent, history
  <2>2. OneDummy(<<Nothing>>)
    BY DEF OneDummy
  <2>3. slots'[current] = slots[current] /\ slots'[Other(current)] = <<Nothing>>
    BY <1>00, <2>1 DEF TypeOK
  <2> QED  BY <1>00, <2>1, <2>2, <2>3 DEF TurnInv, Dummies, Turns
<1>7. CASE CancelAll
  <2>1. slots' = [s \in Signals |-> <<>>] /\ current' = 0 /\ UNCHANGED <<emitting, todo, failed>>
    BY <1>7 DEF CancelAll, callVars
  <2>2. emitting # "calling"
    BY <1>7 DEF CancelAll, Counted, TypeOK
  <2>3. OneDummy(<<>>)
    BY DEF OneDummy
  <2> QED  BY <2>1, <2>2, <2>3 DEF TurnInv, Dummies, Turns, Other, Signals
<1>8. CASE LoadBegin
  BY <1>8 DEF LoadBegin, callVars, history, TurnInv, Dummies, Turns
<1>9. CASE LoadEnd
  BY <1>9 DEF LoadEnd, callVars, history, TurnInv, Dummies, Turns
<1>10. ASSUME NEW t \in Tasks, Queue(t) PROVE TurnInv'
  <2> DEFINE q == slots[current]
  <2>1. /\ t \in fresh /\ slots' = [slots EXCEPT ![current] = Append(q, t)]
        /\ UNCHANGED <<current, todo, emitting, failed>>
    BY <1>10 DEF Queue, Connected, callVars
  <2>2. slots'[current] = Append(q, t) /\ slots'[Other(current)] = slots[Other(current)]
    BY <1>00, <2>1 DEF TypeOK
  <2>3. q \in Seq(Slots) /\ t \in Slots /\ t # Nothing /\ OneDummy(q)
    BY <1>0, <1>00, IdleAssumption DEF Slots, TurnInv, Dummies
  <2> HIDE DEF q
  <2>4. OneDummy(Append(q, t)) /\ ToSet(Append(q, t)) = ToSet(q) \cup {t}
    <3>1. /\ Len(q) \in Nat /\ Len(Append(q, t)) = Len(q) + 1
          /\ \A i \in 1 .. Len(q) : Append(q, t)[i] = q[i]
          /\ Append(q, t)[Len(q) + 1] = t
      BY <2>3, AppendProperties, LenProperties
    <3>2. ASSUME NEW i \in 2 .. Len(q) + 1 PROVE Append(q, t)[i] # Nothing
      <4>1. CASE i = Len(q) + 1
        BY <2>3, <3>1, <4>1
      <4>2. CASE i # Len(q) + 1
        <5>1. i \in 2 .. Len(q) /\ i \in 1 .. Len(q)
          BY <3>1, <4>2
        <5> QED  BY <2>3, <3>1, <5>1 DEF OneDummy
      <4> QED  BY <4>1, <4>2
    <3> QED  BY <2>3, <3>1, <3>2, AppendedHolds DEF OneDummy
  <2>5. t \notin ToSet(todo)
    BY <2>1 DEF LostInv, FreshIsNowhere
  <2> QED  BY <1>00, <2>1, <2>2, <2>4, <2>5 DEF TurnInv, Dummies, Turns, Other, q
<1>11. ASSUME NEW t \in Tasks, Disconnect(t) PROVE TurnInv'
  <2>1. /\ slots' = [s \in Signals |-> RemoveFirst(slots[s], t)]
        /\ todo' = RemoveFirst(todo, t)
        /\ UNCHANGED <<current, emitting, failed>>
    BY <1>11 DEF Disconnect
  <2>2. Dummies'
    BY <1>0, <2>1, UndummiedRemoved DEF TurnInv, Dummies
  <2>3. ToSet(todo') \subseteq ToSet(todo)
        /\ ToSet(slots'[current]) \subseteq ToSet(slots[current])
    BY <1>0, <1>00, <2>1, RemovedHolds
  <2>4. \A q \in {<<>>, <<Nothing>>} : RemoveFirst(q, t) = q
    <3>1. <<Nothing>> \in Seq(Slots) /\ ToSet(<<Nothing>>) = {Nothing} /\ t # Nothing
      BY IdleAssumption DEF ToSet, Slots
    <3> DEFINE n == <<Nothing>>
    <3> HIDE DEF n
    <3>2. n \in Seq(Slots) /\ t \notin ToSet(n) => RemoveFirst(n, t) = n
      BY AbsentKept
    <3> QED  BY <3>1, <3>2, AbsentFromEmpty DEF n
  <2>5. slots'[Other(current)] = RemoveFirst(slots[Other(current)], t)
    BY <1>00, <2>1
  <2> QED  BY <2>1, <2>2, <2>3, <2>4, <2>5 DEF TurnInv, Turns, Other
<1>12. CASE UNCHANGED vars
  BY <1>12 DEF vars, callVars, history, TurnInv, Dummies, Turns
<1> QED
  BY <1>1, <1>2, <1>3, <1>4, <1>5, <1>6, <1>7, <1>8, <1>9, <1>10, <1>11, <1>12
  DEF Next, Perform

\* The removal of OneShots is the same operator.
LEMMA SameRemoval ==
    ASSUME NEW q, NEW x
    PROVE  Promise!RemoveFirst(q, x) = RemoveFirst(q, x)
  BY DEF Promise!RemoveFirst, Promise!RemoveAt, Promise!SelectInSeq, Promise!Min,
     RemoveFirst, RemoveAt, SelectInSeq, Min

\* What waits depends on the lists, and on whether the emission has begun.
LEMMA PendingUnchanged ==
    ASSUME UNCHANGED <<slots, current, todo, failed>>,
           emitting' = "calling" <=> emitting = "calling"
    PROVE  UNCHANGED Promise!vars
  BY DEF Promise!vars, Pending, First, Other

\* Every step of the idle tasks is one of OneShots, or leaves what waits alone.
LEMMA PromiseStep ==
    ASSUME TypeOK, Counted, LostInv, TurnInv, [Next]_vars
    PROVE  [Promise!Next]_(Promise!vars)
<1> DEFINE F == RemoveFirst(First, Nothing)
           C == RemoveFirst(slots[current], Nothing)
<1>0. todo \in Seq(Slots) /\ \A s \in Signals : slots[s] \in Seq(Slots)
  BY DEF TypeOK, Slots
<1>00. current \in Signals /\ Other(current) \in Signals /\ Other(current) # current
       /\ Other(Other(current)) = current
  BY DEF TypeOK, Signals, Other
<1>000. /\ First \in Seq(Slots) /\ OneDummy(First) /\ OneDummy(slots[current])
        /\ F \in Seq(Slots) /\ C \in Seq(Slots) /\ Pending = F \o C
  <2>1. First \in Seq(Slots) /\ OneDummy(First) /\ OneDummy(slots[current])
    BY <1>0, <1>00 DEF First, TurnInv, Dummies
  <2> QED  BY <1>0, <1>00, <2>1, RemovedHolds DEF Pending
<1>0a. CASE failed'
  BY <1>0a DEF Promise!Next, Promise!Fail
<1>0b. CASE failed
  <2>1. failed' = failed \/ failed' = TRUE
    BY DEF Next, Perform, PerformBegin, Flip, CallSlot, SlotReturns, SlotThrows,
       PerformEnd, CancelAll, LoadBegin, LoadEnd, Queue, Disconnect, vars, history
  <2> QED  BY <1>0a, <1>0b, <2>1
<1> SUFFICES ASSUME ~failed, ~failed'
             PROVE  [Promise!Next]_(Promise!vars)
  BY <1>0a, <1>0b
<1>t. Turns
  BY DEF TurnInv
<1>1. CASE PerformBegin
  BY <1>1, PendingUnchanged DEF PerformBegin, Quiet, Counted, history
<1>2. CASE Flip
  <2>1. /\ emitting = "blocked" /\ emitting' = "calling" /\ todo' = slots[current]
        /\ current' = Other(current) /\ UNCHANGED <<slots, failed>>
    BY <1>2 DEF Flip, history
  <2>2. F = <<>> /\ RemoveFirst(slots[Other(current)], Nothing) = <<>>
    BY <1>t, <2>1, SpentIsEmpty DEF Turns, First
  <2>3. First' = slots[current] /\ slots'[current'] = slots[Other(current)]
    BY <2>1 DEF First
  <2>4. Pending' = C \o <<>>
    BY <2>2, <2>3 DEF Pending
  <2>5. Pending' = Pending
    BY <1>000, <2>2, <2>4, ConcatEmptySeq
  <2> QED  BY <2>1, <2>5 DEF Promise!vars
<1>3. CASE CallSlot
  <2>1. /\ emitting = "calling" /\ todo # <<>> /\ todo' = Tail(todo)
        /\ UNCHANGED <<slots, current, emitting, failed>>
    BY <1>3 DEF CallSlot
  <2>2. First = todo /\ First' = todo' /\ todo' \in Seq(Slots)
    BY <1>0, <2>1, HeadHolds DEF First
  <2>3. Pending' = RemoveFirst(todo', Nothing) \o C
    BY <2>1, <2>2 DEF Pending
  <2>4. CASE Nothing \notin ToSet(todo)
    <3>1. F = todo
      BY <1>000, <2>2, <2>4, Undummied, AbsentKept
    <3>2. Nothing \notin ToSet(todo')
      BY <1>0, <2>1, <2>4, HeadHolds
    <3>3. RemoveFirst(todo', Nothing) = Tail(todo)
      BY <2>1, <2>2, <3>2, AbsentKept
    <3>4. todo \o C # <<>> /\ Tail(todo \o C) = Tail(todo) \o C
      BY <1>0, <1>000, <2>1, TailOfConcat
    <3>5. Promise!Run
      BY <1>000, <2>1, <2>3, <3>1, <3>3, <3>4 DEF Promise!Run
    <3> QED  BY <3>5 DEF Promise!Next
  <2>5. CASE \E r \in Seq(Slots) : /\ todo = <<Nothing>> \o r
                                   /\ Nothing \notin ToSet(r)
                                   /\ RemoveFirst(todo, Nothing) = r
    <3>1. PICK r \in Seq(Slots) : /\ todo = <<Nothing>> \o r
                                  /\ Nothing \notin ToSet(r)
                                  /\ RemoveFirst(todo, Nothing) = r
      BY <2>5
    <3>2. Tail(todo) = r
      <4>1. <<Nothing>> \in Seq(Slots) /\ <<Nothing>> # <<>> /\ Tail(<<Nothing>>) = <<>>
        BY DEF Slots
      <4> DEFINE n == <<Nothing>>
      <4>2. n \in Seq(Slots) /\ n # <<>> /\ Tail(n) = <<>> /\ todo = n \o r
        BY <3>1, <4>1
      <4> HIDE DEF n
      <4>3. Tail(todo) = Tail(n) \o r
        BY <4>2, TailOfConcat
      <4> QED  BY <4>2, <4>3, ConcatEmptySeq
    <3>3. RemoveFirst(todo', Nothing) = r
      BY <2>1, <3>1, <3>2, AbsentKept
    <3>4. Pending' = Pending
      BY <1>000, <2>2, <2>3, <3>1, <3>3
    <3> QED  BY <2>1, <3>4 DEF Promise!vars
  <2> QED  BY <1>000, <2>2, <2>4, <2>5, Undummied
<1>4. CASE SlotReturns
  BY <1>4, PendingUnchanged DEF SlotReturns, history
<1>5. CASE SlotThrows
  BY <1>5 DEF SlotThrows
<1>6. CASE PerformEnd
  <2>1. /\ emitting = "calling" /\ todo = <<>> /\ emitting' = "no"
        /\ slots' = [slots EXCEPT ![Other(current)] = <<Nothing>>]
        /\ UNCHANGED <<current, todo, failed>>
    BY <1>6 DEF PerformEnd, Spent, history
  <2>2. slots'[current] = slots[current] /\ slots'[Other(current)] = <<Nothing>>
    BY <1>00, <2>1 DEF TypeOK
  <2>3. First = <<>> /\ First' = <<Nothing>>
    BY <2>1, <2>2 DEF First, Other
  <2>4. RemoveFirst(First, Nothing) = <<>> /\ RemoveFirst(First', Nothing) = <<>>
    BY <2>3, SpentIsEmpty
  <2>5. Pending' = Pending
    BY <2>1, <2>2, <2>4 DEF Pending
  <2> QED  BY <2>1, <2>5 DEF Promise!vars
<1>7. CASE CancelAll
  <2>1. slots' = [s \in Signals |-> <<>>] /\ current' = 0 /\ UNCHANGED <<emitting, failed>>
    BY <1>7 DEF CancelAll, callVars, history
  <2>2. emitting # "calling"
    BY <1>7 DEF CancelAll, Counted, TypeOK
  <2>3. First' = <<>> /\ slots'[current'] = <<>>
    BY <2>1, <2>2 DEF First, Other, Signals
  <2>4. Pending' = <<>>
    <3>1. RemoveFirst(<<>>, Nothing) = <<>> /\ <<>> \in Seq(Slots)
      BY AbsentFromEmpty, EmptySeq
    <3>2. <<>> \o <<>> = <<>>
      BY <3>1, ConcatEmptySeq
    <3> QED  BY <2>3, <3>1, <3>2 DEF Pending
  <2> QED  BY <2>1, <2>4 DEF Promise!Next, Promise!CancelAll
<1>8. CASE LoadBegin
  BY <1>8, PendingUnchanged DEF LoadBegin, callVars, history
<1>9. CASE LoadEnd
  BY <1>9, PendingUnchanged DEF LoadEnd, callVars, history
<1>10. ASSUME NEW t \in Tasks, Queue(t) PROVE Promise!Queue(t)
  <2> DEFINE q == slots[current]
             u == <<t>>
  <2>1. /\ slots' = [slots EXCEPT ![current] = Append(q, t)]
        /\ UNCHANGED <<current, todo, emitting, failed>>
    BY <1>10 DEF Queue, Connected, callVars
  <2>2. slots'[current] = Append(q, t) /\ slots'[Other(current)] = slots[Other(current)]
    BY <1>00, <2>1 DEF TypeOK
  <2>3. First' = First
    BY <2>1, <2>2 DEF First, Other
  <2>4. q \in Seq(Slots) /\ u \in Seq(Slots) /\ t \in Slots /\ Append(q, t) = q \o u
    BY <1>0, <1>00, AppendIsConcat DEF Slots
  <2>5. Nothing \notin ToSet(u)
    BY IdleAssumption DEF ToSet
  <2> HIDE DEF q, u
  <2>6. RemoveFirst(q \o u, Nothing) = RemoveFirst(q, Nothing) \o u
    <3>1. RemoveFirst(u, Nothing) = u
      BY <2>4, <2>5, AbsentKept
    <3>2. Nothing \notin ToSet(q) => RemoveFirst(q, Nothing) = q
      BY <2>4, AbsentKept
    <3> QED  BY <2>4, <3>1, <3>2, ConcatRemoved
  <2>7. Pending' = F \o (C \o u)
    BY <2>1, <2>2, <2>3, <2>4, <2>6 DEF Pending, q
  <2>8. F \o (C \o u) = (F \o C) \o u /\ F \o C \in Seq(Slots)
    <3> HIDE DEF F, C
    <3>1. F \in Seq(Slots) /\ C \in Seq(Slots)
      BY <1>000
    <3>2. (F \o C) \o u = F \o (C \o u)
      BY <2>4, <3>1, ConcatAssociative
    <3> QED  BY <3>1, <3>2, ConcatProperties
  <2>9. Append(F \o C, t) = (F \o C) \o u
    BY <2>4, <2>8, AppendIsConcat DEF u
  <2> QED  BY <1>000, <2>1, <2>7, <2>8, <2>9 DEF Promise!Queue
<1>11. ASSUME NEW t \in Tasks, Disconnect(t) PROVE Promise!Disconnect(t)
  <2>1. /\ slots' = [s \in Signals |-> RemoveFirst(slots[s], t)]
        /\ todo' = RemoveFirst(todo, t)
        /\ UNCHANGED <<current, emitting, failed>>
    BY <1>11 DEF Disconnect
  <2>2. First' = RemoveFirst(First, t) /\ slots'[current'] = RemoveFirst(slots[current], t)
    BY <1>00, <2>1 DEF First, Other
  <2>3. Pending' = RemoveFirst(F, t) \o RemoveFirst(C, t)
    BY <1>0, <1>00, <1>000, <2>2, UndummiedRemoved DEF Pending
  <2>4. ~(t \in ToSet(F) /\ t \in ToSet(C))
    <3>1. ToSet(F) \subseteq ToSet(First) /\ ToSet(C) \subseteq ToSet(slots[current])
      BY <1>0, <1>00, <1>000, RemovedHolds
    <3>2. CASE emitting = "calling"
      BY <1>t, <3>1, <3>2, IdleAssumption DEF Turns, First
    <3>3. CASE emitting # "calling"
      <4>1. F = <<>>
        BY <1>t, <3>3, SpentIsEmpty DEF Turns, First
      <4> QED  BY <4>1, AbsentFromEmpty
    <3> QED  BY <3>2, <3>3
  <2>5. RemoveFirst(F \o C, t) = RemoveFirst(F, t) \o RemoveFirst(C, t)
    <3>1. t \notin ToSet(F) => RemoveFirst(F, t) = F
      BY <1>000, AbsentKept
    <3>2. t \notin ToSet(C) => RemoveFirst(C, t) = C
      BY <1>000, AbsentKept
    <3>3. RemoveFirst(F \o C, t) = IF t \in ToSet(F) THEN RemoveFirst(F, t) \o C
                                                     ELSE F \o RemoveFirst(C, t)
      <4> HIDE DEF F, C
      <4> QED  BY <1>000, ConcatRemoved
    <3> QED  BY <2>4, <3>1, <3>2, <3>3
  <2> QED  BY <1>000, <2>1, <2>3, <2>5, SameRemoval DEF Promise!Disconnect
<1>12. CASE UNCHANGED vars
  BY <1>12, PendingUnchanged DEF vars, callVars, history
<1>13. (\E t \in Tasks : Queue(t) \/ Disconnect(t)) => Promise!Next
  BY <1>10, <1>11 DEF Promise!Next
<1> QED
  BY <1>1, <1>2, <1>3, <1>4, <1>5, <1>6, <1>7, <1>8, <1>9, <1>12, <1>13
  DEF Next, Perform

\* The idle tasks keep what run_once_when_idle promises: until one throws, each
\* function runs once, in the order in which they were queued, through two signals
\* that change places and an emission that collects new ones meanwhile.
THEOREM IdleTasksAreOneShots == Spec => ImplementsOneShots
<1> DEFINE Inv == TypeOK /\ Counted /\ LostInv /\ TurnInv
<1>1. Init => Inv
  <2> SUFFICES ASSUME Init PROVE Inv
    OBVIOUS
  <2>1. ToSet(todo) = {} /\ \A s \in Signals : ToSet(slots[s]) = {}
    BY AbsentFromEmpty DEF Init
  <2>2. Waiting = {} /\ emitting = "no"
    BY DEF Init, Waiting
  <2>3. LostInv
    BY <2>1, <2>2 DEF LostInv, FreshIsNowhere, StillToCome, NothingLost
  <2>4. TurnInv
    BY DEF Init, TurnInv, Dummies, OneDummy, Turns, Other, Signals
  <2> QED  BY <2>3, <2>4, TypeInit
<1>2. Inv /\ [Next]_vars => Inv'
  BY TypeStep, LostStep, TurnStep
<1>3. Init => Promise!Init
  <2> SUFFICES ASSUME Init PROVE Promise!Init
    OBVIOUS
  <2>1. First = <<>> /\ slots[current] = <<>> /\ failed = FALSE
    BY DEF Init, First, Other, Signals
  <2>2. RemoveFirst(<<>>, Nothing) = <<>> /\ <<>> \o <<>> = <<>>
    BY AbsentFromEmpty, EmptySeq, ConcatEmptySeq
  <2> QED  BY <2>1, <2>2 DEF Promise!Init, Pending
<1>4. Inv /\ [Next]_vars => [Promise!Next]_(Promise!vars)
  BY PromiseStep
<1> QED
  BY <1>1, <1>2, <1>3, <1>4, PTL DEF Spec, ImplementsOneShots, Promise!Spec
=============================================================================
