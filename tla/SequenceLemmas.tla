------------------------------ MODULE SequenceLemmas ------------------------------
(* What the edits of the kernel's linked lists, which the modules describe with     *)
(* InsertAt and RemoveAt of the community modules, do position by position; and the *)
(* induction that the proofs about lists and lines need, in terms of sets.          *)
EXTENDS Integers, SequencesExt, SequenceTheorems, WellFoundedInduction, TLAPS

\* What is left of a sequence when position i is cut out of it.
LEMMA RemoveAtFacts ==
    ASSUME NEW S, NEW q \in Seq(S), NEW i \in DOMAIN q
    PROVE  /\ RemoveAt(q, i) \in Seq(S)
           /\ Len(RemoveAt(q, i)) = Len(q) - 1
           /\ \A j \in 1..(Len(q) - 1) :
                  RemoveAt(q, i)[j] = IF j < i THEN q[j] ELSE q[j + 1]
<1> DEFINE pre == SubSeq(q, 1, i - 1)
           post == SubSeq(q, i + 1, Len(q))
<1>1. i \in 1..Len(q) /\ Len(q) \in Nat
  BY LenProperties
<1>2. /\ pre \in Seq(S) /\ Len(pre) = i - 1
      /\ \A j \in 1..(i - 1) : pre[j] = q[j]
  BY <1>1, SubSeqProperties
<1>3. /\ post \in Seq(S) /\ Len(post) = Len(q) - i
      /\ \A j \in 1..(Len(q) - i) : post[j] = q[i + j]
  BY <1>1, SubSeqProperties
<1>4. RemoveAt(q, i) = pre \o post
  BY DEF RemoveAt
<1> HIDE DEF pre, post
<1>5. /\ pre \o post \in Seq(S)
      /\ Len(pre \o post) = Len(pre) + Len(post)
      /\ \A j \in 1..(Len(pre) + Len(post)) :
             (pre \o post)[j] = IF j <= Len(pre) THEN pre[j] ELSE post[j - Len(pre)]
  BY <1>2, <1>3, ConcatProperties
<1>6. ASSUME NEW j \in 1..(Len(q) - 1)
      PROVE  (pre \o post)[j] = IF j < i THEN q[j] ELSE q[j + 1]
  <2>1. CASE j < i
    BY <2>1, <1>1, <1>2, <1>3, <1>5
  <2>2. CASE ~(j < i)
    <3>1. /\ j \in 1..(Len(pre) + Len(post)) /\ ~(j <= Len(pre))
          /\ j - Len(pre) = j - (i - 1) /\ j - (i - 1) \in 1..(Len(q) - i)
          /\ i + (j - (i - 1)) = j + 1
      BY <2>2, <1>1, <1>2, <1>3
    <3> QED
      BY <3>1, <2>2, <1>3, <1>5
  <2> QED
    BY <2>1, <2>2
<1>7. Len(pre \o post) = Len(q) - 1
  BY <1>1, <1>2, <1>3, <1>5
<1>8. /\ pre \o post \in Seq(S)
      /\ \A j \in 1..(Len(q) - 1) : (pre \o post)[j] = IF j < i THEN q[j] ELSE q[j + 1]
  BY <1>5, <1>6
<1> QED
  BY <1>4, <1>7, <1>8, Zenon

\* What a sequence looks like with e put in at position i.
LEMMA InsertAtFacts ==
    ASSUME NEW S, NEW q \in Seq(S), NEW i \in 1..(Len(q) + 1), NEW e \in S
    PROVE  /\ InsertAt(q, i, e) \in Seq(S)
           /\ Len(InsertAt(q, i, e)) = Len(q) + 1
           /\ \A j \in 1..(Len(q) + 1) :
                  InsertAt(q, i, e)[j] = IF j < i THEN q[j] ELSE IF j = i THEN e ELSE q[j - 1]
<1> DEFINE pre == SubSeq(q, 1, i - 1)
           post == SubSeq(q, i, Len(q))
           mid == pre \o <<e>>
<1>1. Len(q) \in Nat
  BY LenProperties
<1>2. /\ pre \in Seq(S) /\ Len(pre) = i - 1
      /\ \A j \in 1..(i - 1) : pre[j] = q[j]
  BY <1>1, SubSeqProperties
<1>3. /\ post \in Seq(S) /\ Len(post) = Len(q) - i + 1
      /\ \A j \in 1..(Len(q) - i + 1) : post[j] = q[i + j - 1]
  BY <1>1, SubSeqProperties
<1>4. InsertAt(q, i, e) = mid \o post
  BY DEF InsertAt
<1> HIDE DEF pre, post
<1>5. /\ mid \in Seq(S) /\ Len(mid) = i /\ mid[i] = e
      /\ \A j \in 1..(i - 1) : mid[j] = q[j]
  <2>1. <<e>> \in Seq(S) /\ Len(<<e>>) = 1 /\ <<e>>[1] = e
    OBVIOUS
  <2>2. /\ mid \in Seq(S) /\ Len(mid) = Len(pre) + 1
        /\ \A j \in 1..(Len(pre) + 1) :
               mid[j] = IF j <= Len(pre) THEN pre[j] ELSE <<e>>[j - Len(pre)]
    BY <1>2, <2>1, ConcatProperties
  <2> QED
    BY <1>1, <1>2, <2>1, <2>2
<1> HIDE DEF mid
<1>6. /\ mid \o post \in Seq(S)
      /\ Len(mid \o post) = Len(mid) + Len(post)
      /\ \A j \in 1..(Len(mid) + Len(post)) :
             (mid \o post)[j] = IF j <= Len(mid) THEN mid[j] ELSE post[j - Len(mid)]
  BY <1>3, <1>5, ConcatProperties
<1>7. Len(mid \o post) = Len(q) + 1
  BY <1>1, <1>3, <1>5, <1>6
<1>8. ASSUME NEW j \in 1..(Len(q) + 1)
      PROVE  (mid \o post)[j] = IF j < i THEN q[j] ELSE IF j = i THEN e ELSE q[j - 1]
  <2>1. CASE j <= i
    BY <2>1, <1>1, <1>3, <1>5, <1>6
  <2>2. CASE ~(j <= i)
    <3>1. /\ j \in 1..(Len(mid) + Len(post)) /\ ~(j <= Len(mid)) /\ j - Len(mid) = j - i
          /\ j - i \in 1..(Len(q) - i + 1) /\ i + (j - i) - 1 = j - 1
      BY <2>2, <1>1, <1>3, <1>5
    <3>2. post[j - i] = q[i + (j - i) - 1]
      BY <3>1, <1>3
    <3>3. (mid \o post)[j] = q[j - 1]
      BY <3>1, <3>2, <1>6
    <3> QED
      BY <2>2, <3>3
  <2> QED
    BY <2>1, <2>2
<1>9. /\ mid \o post \in Seq(S)
      /\ \A j \in 1..(Len(q) + 1) :
             (mid \o post)[j] = IF j < i THEN q[j] ELSE IF j = i THEN e ELSE q[j - 1]
  BY <1>6, <1>8
<1> QED
  BY <1>4, <1>7, <1>9, Zenon

--------------------------------------------------------------------------------
\* Of a set of numbers one is the least.
LEMMA LeastNumber ==
    ASSUME NEW S \in SUBSET Nat, S # {}
    PROVE  \E n \in S : \A m \in S : n <= m
<1> DEFINE R == OpToRel(<, Nat)
<1>1. PICK n \in S : \A m \in S : ~ (<<m, n>> \in R)
  <2> HIDE DEF R
  <2> QED BY NatLessThanWellFounded, WFMin DEF R
<1>2. \A m \in S : m < n => <<m, n>> \in R
  BY Zenon DEF OpToRel
<1>3. \A m \in S : ~ (m < n)
  BY <1>1, <1>2, Zenon
<1> QED
  BY <1>3

\* A set with zero that has the successor of each of its numbers has all numbers.
LEMMA InductionOnNat ==
    ASSUME NEW S, 0 \in S, \A n \in Nat : n \in S => n + 1 \in S
    PROVE  Nat \subseteq S
<1> SUFFICES ASSUME Nat \ S # {} PROVE FALSE
  OBVIOUS
<1>1. PICK n \in Nat \ S : \A m \in Nat \ S : n <= m
  BY LeastNumber
<1>2. n - 1 \in Nat /\ n - 1 \in S
  BY <1>1
<1> QED
  BY <1>1, <1>2

\* Who joins a line stands in it once, and so does everybody else.
LEMMA AppendedLine ==
    ASSUME NEW S, NEW q \in Seq(S), IsInjective(q), NEW c \in S, c \notin ToSet(q)
    PROVE  /\ Append(q, c) \in Seq(S) /\ IsInjective(Append(q, c))
           /\ \A d : d \in ToSet(Append(q, c)) <=> d \in ToSet(q) \/ d = c
<1> DEFINE t == Append(q, c)
<1>1. /\ Len(q) \in Nat /\ DOMAIN q = 1..Len(q)
      /\ t \in Seq(S) /\ DOMAIN t = 1..(Len(q) + 1) /\ t[Len(q) + 1] = c
      /\ \A i \in 1..Len(q) : t[i] = q[i]
  BY AppendProperties, LenProperties
<1> HIDE DEF t
<1>2. \A i \in DOMAIN t : i = Len(q) + 1 \/ i \in DOMAIN q
  BY <1>1
<1>3. \A i \in DOMAIN q : i \in DOMAIN t /\ t[i] = q[i] /\ q[i] # c
  BY <1>1 DEF ToSet
<1>4. \A i, j \in DOMAIN t : t[i] = t[j] => i = j
  BY <1>1, <1>2, <1>3 DEF IsInjective
<1>5. Len(q) + 1 \in DOMAIN t
  BY <1>1
<1>6. \A d : (\E i \in DOMAIN t : t[i] = d) <=> (\E i \in DOMAIN q : q[i] = d) \/ d = c
  BY <1>1, <1>2, <1>3, <1>5
<1> QED
  BY <1>1, <1>4, <1>6 DEF t, ToSet, IsInjective

\* When the first leaves a line, the others are still in it.
LEMMA ShortenedLine ==
    ASSUME NEW S, NEW q \in Seq(S), IsInjective(q), q # <<>>
    PROVE  /\ Tail(q) \in Seq(S) /\ IsInjective(Tail(q))
           /\ \A d : d \in ToSet(Tail(q)) <=> d \in ToSet(q) /\ d # Head(q)
<1> DEFINE t == Tail(q)
<1>1. /\ Len(q) \in Nat \ {0} /\ DOMAIN q = 1..Len(q) /\ Head(q) = q[1]
      /\ t \in Seq(S) /\ DOMAIN t = 1..(Len(q) - 1)
      /\ \A i \in 1..(Len(q) - 1) : t[i] = q[i + 1]
  BY HeadTailProperties, LenProperties, EmptySeq
<1> HIDE DEF t
<1>2. \A i \in DOMAIN t : i + 1 \in DOMAIN q /\ i + 1 # 1 /\ t[i] = q[i + 1]
  BY <1>1
<1>3. \A i \in DOMAIN q : i # 1 => i - 1 \in DOMAIN t /\ t[i - 1] = q[i]
  BY <1>1
<1>4. 1 \in DOMAIN q
  BY <1>1
<1>5. \A i, j \in DOMAIN t : t[i] = t[j] => i = j
  <2> SUFFICES ASSUME NEW i \in DOMAIN t, NEW j \in DOMAIN t, t[i] = t[j] PROVE i = j
    OBVIOUS
  <2>1. i + 1 = j + 1
    BY <1>2 DEF IsInjective
  <2> QED
    BY <1>1, <2>1
<1>6. ASSUME NEW d
      PROVE  (\E i \in DOMAIN t : t[i] = d) <=> (\E i \in DOMAIN q : q[i] = d) /\ d # q[1]
  <2>1. ASSUME NEW i \in DOMAIN t, t[i] = d
        PROVE  (\E k \in DOMAIN q : q[k] = d) /\ d # q[1]
    BY <1>2, <1>4, <2>1 DEF IsInjective
  <2>2. ASSUME NEW i \in DOMAIN q, q[i] = d, d # q[1] PROVE \E k \in DOMAIN t : t[k] = d
    BY <1>3, <2>2
  <2> QED
    BY <2>1, <2>2
<1>7. IsInjective(t)
  BY <1>5 DEF IsInjective
<1>8. \A d : d \in ToSet(t) <=> d \in ToSet(q) /\ d # Head(q)
  <2>1. \A d : /\ d \in ToSet(t) <=> \E i \in DOMAIN t : t[i] = d
               /\ d \in ToSet(q) <=> \E i \in DOMAIN q : q[i] = d
    BY DEF ToSet
  <2>2. Head(q) = q[1]
    BY <1>1
  <2> QED
    BY <1>6, <2>1, <2>2
<1> QED
  BY <1>1, <1>7, <1>8 DEF t

================================================================================
