------------------------------ MODULE Contexts_proofs ------------------------------
(* The contexts of the kernel that run the module's functions, for any number of them. *)
(* The locks they take, for any number of erased rules: every path gives back what it  *)
(* took, and the module deadlocks only by a process that loses its CPU at a lock the   *)
(* packets take.  And what they use of the module while it is loaded and unloaded.     *)
EXTENDS Locks, Lifecycle, SequenceLemmas

--------------------------------------------------------------------------------
(* The discipline of the functions.  What is left of one is a function as well, so  *)
(* each rule speaks of every place of a sequence and of what comes after it.        *)

\* At place i of s, lock l is held: what s does next with l is to unlock it.
OwedAt(s, i, l) ==
    \E j \in DOMAIN s :
        /\ i <= j /\ s[j].act = "unlock" /\ s[j].lock = l
        /\ \A k \in i..(j - 1) : s[k].lock # l

\* What is taken is given back before it is taken again, and only then.
Alternates(s) ==
    \A i \in DOMAIN s : OwedAt(s, i + 1, s[i].lock) <=> s[i].act # "unlock"

\* Nothing is taken under another lock but connLock, under FWRuleLock or natRuleLock.
Nests(s) ==
    \A i \in DOMAIN s, m \in Lock :
        s[i].act # "unlock" /\ OwedAt(s, i, m) =>
            s[i].lock = "connLock" /\ m \in {"FWRuleLock", "natRuleLock"}

\* Softirqs take one lock at a time, and never natRuleLock.
OneByOne(s) ==
    \A i \in DOMAIN s :
        /\ s[i].lock # "natRuleLock"
        /\ s[i].act # "unlock" => \A m \in Lock : ~OwedAt(s, i, m)

Sound(s) == s \in Seq(Op) /\ Alternates(s) /\ Nests(s)

\* A function starts, as it ends, with no lock.
Whole(s) == Sound(s) /\ \A l \in Lock : ~OwedAt(s, 1, l)

Typed ==
    /\ todo \in [Context -> Seq(Op)]
    /\ asking \subseteq Context
    /\ queue \in [Lock -> Seq(Context)]
    /\ readers \in [Lock -> SUBSET Context]
    /\ writer \in [Lock -> Context \cup {NoOne}]
    /\ asleep \subseteq Process

\* What a context holds is what it has to give back.
Balanced == \A c \in Context, l \in Lock : Holds(c, l) <=> OwedAt(todo[c], 1, l)

\* A writer is alone.
Exclusive == \A l \in Lock : writer[l] # NoOne => readers[l] = {}

\* A line consists of those who wait and do not overtake it, each once.
InLine(l) == {c \in asking : Next1(c).lock = l /\ ~Overtakes(c)}

Lined ==
    \A l \in Lock :
        /\ IsInjective(queue[l])
        /\ \A c : c \in ToSet(queue[l]) <=> c \in InLine(l)

\* Who waits, waits for a lock.
AskersWant == \A c \in asking : Active(c) /\ Next1(c).act # "unlock"

\* Who sleeps is about to give connLock back.
Sleepers == \A c \in asleep : Active(c) /\ Next1(c).act = "unlock" /\ Next1(c).allocates

\* All contexts do what is left of a function.
Disciplined ==
    /\ \A c \in Context : Sound(todo[c])
    /\ \A c \in Softirq : OneByOne(todo[c])

LocksInv ==
    Typed /\ Balanced /\ Exclusive /\ Lined /\ AskersWant /\ Sleepers /\ Disciplined

\* Every operation is about a lock, and only an unlock of connLock allocates.
LEMMA Operations ==
    ASSUME NEW o \in Op
    PROVE  /\ o.act \in {"read", "write", "unlock"} /\ o.lock \in Lock
           /\ o.allocates => o.act = "unlock" /\ o.lock = "connLock"
  BY DEF Op, Lock

\* What allocates nothing is an operation for any lock.
LEMMA PlainOperations ==
    \A a \in {"read", "write", "unlock"}, l \in Lock :
        [act |-> a, lock |-> l, allocates |-> FALSE] \in Op
  BY DEF Op

--------------------------------------------------------------------------------
(* What is left of a function. *)

\* What is owed after the first operation is owed in what is left.
LEMMA OwedInTail ==
    ASSUME NEW s \in Seq(Op), s # <<>>, NEW l, NEW i \in Nat \ {0}
    PROVE  OwedAt(Tail(s), i, l) <=> OwedAt(s, i + 1, l)
<1> DEFINE t == Tail(s)
<1>1. /\ Len(s) \in Nat \ {0} /\ DOMAIN s = 1..Len(s)
      /\ DOMAIN t = 1..(Len(s) - 1)
      /\ \A j \in 1..(Len(s) - 1) : t[j] = s[j + 1]
  BY HeadTailProperties, LenProperties, EmptySeq
<1> HIDE DEF t
<1>2. ASSUME OwedAt(t, i, l) PROVE OwedAt(s, i + 1, l)
  <2>1. PICK j \in DOMAIN t : /\ i <= j /\ t[j].act = "unlock" /\ t[j].lock = l
                              /\ \A k \in i..(j - 1) : t[k].lock # l
    BY <1>2 DEF OwedAt
  <2>2. j + 1 \in DOMAIN s /\ i + 1 <= j + 1 /\ s[j + 1] = t[j] /\ (j + 1) - 1 = j
    BY <1>1, <2>1
  <2>3. ASSUME NEW k \in (i + 1)..j PROVE s[k].lock # l
    <3>1. k - 1 \in i..(j - 1) /\ k - 1 \in 1..(Len(s) - 1) /\ (k - 1) + 1 = k
      BY <1>1
    <3> QED
      BY <1>1, <2>1, <3>1
  <2> QED
    BY <2>1, <2>2, <2>3 DEF OwedAt
<1>3. ASSUME OwedAt(s, i + 1, l) PROVE OwedAt(t, i, l)
  <2>1. PICK j \in DOMAIN s : /\ i + 1 <= j /\ s[j].act = "unlock" /\ s[j].lock = l
                              /\ \A k \in (i + 1)..(j - 1) : s[k].lock # l
    BY <1>3 DEF OwedAt
  <2>2. j - 1 \in DOMAIN t /\ i <= j - 1 /\ t[j - 1] = s[j]
    BY <1>1, <2>1
  <2>3. ASSUME NEW k \in i..((j - 1) - 1) PROVE t[k].lock # l
    <3>1. k + 1 \in (i + 1)..(j - 1) /\ k \in 1..(Len(s) - 1)
      BY <1>1
    <3> QED
      BY <1>1, <2>1, <3>1
  <2> QED
    BY <2>1, <2>2, <2>3 DEF OwedAt
<1> QED
  BY <1>2, <1>3 DEF t

\* What is left of a function is sound.
LEMMA SoundTail ==
    ASSUME NEW s, Sound(s), s # <<>>
    PROVE  /\ Sound(Tail(s))
           /\ OneByOne(s) => OneByOne(Tail(s))
<1> DEFINE t == Tail(s)
<1>1. /\ s \in Seq(Op) /\ t \in Seq(Op)
      /\ Len(s) \in Nat \ {0} /\ DOMAIN s = 1..Len(s)
      /\ DOMAIN t = 1..(Len(s) - 1)
      /\ \A j \in 1..(Len(s) - 1) : t[j] = s[j + 1]
  BY HeadTailProperties, LenProperties, EmptySeq DEF Sound
<1>2. \A i \in Nat \ {0} : \A l : OwedAt(t, i, l) <=> OwedAt(s, i + 1, l)
  BY <1>1, OwedInTail
<1> HIDE DEF t
<1>3. \A i \in DOMAIN t : i \in Nat \ {0} /\ i + 1 \in DOMAIN s /\ t[i] = s[i + 1]
  BY <1>1
<1>4. Alternates(t)
  BY <1>2, <1>3 DEF Sound, Alternates
<1>5. Nests(t)
  BY <1>2, <1>3 DEF Sound, Nests
<1>6. OneByOne(s) => OneByOne(t)
  BY <1>2, <1>3 DEF OneByOne
<1> QED
  BY <1>1, <1>4, <1>5, <1>6 DEF Sound, t

\* The first operation takes a lock or gives it back, and leaves the others as they are.
LEMMA FirstOp ==
    ASSUME NEW s, Sound(s), s # <<>>
    PROVE  /\ Head(s) \in Op /\ Head(s) = s[1] /\ Tail(s) \in Seq(Op)
           /\ Head(s).act = "unlock" <=> OwedAt(s, 1, Head(s).lock)
           /\ Head(s).act = "unlock" <=> ~OwedAt(Tail(s), 1, Head(s).lock)
           /\ \A l : l # Head(s).lock => (OwedAt(Tail(s), 1, l) <=> OwedAt(s, 1, l))
<1>1. /\ s \in Seq(Op) /\ Tail(s) \in Seq(Op) /\ Head(s) = s[1] /\ Head(s) \in Op
      /\ 1 \in DOMAIN s /\ DOMAIN s = 1..Len(s) /\ Len(s) \in Nat
  BY HeadTailProperties, LenProperties, EmptySeq DEF Sound
<1>2. \A l : OwedAt(Tail(s), 1, l) <=> OwedAt(s, 2, l)
  BY <1>1, OwedInTail
<1>3. s[1].act # "unlock" <=> OwedAt(s, 2, s[1].lock)
  BY <1>1 DEF Sound, Alternates
<1>4. s[1].act = "unlock" <=> OwedAt(s, 1, s[1].lock)
  <2>1. ASSUME s[1].act = "unlock" PROVE OwedAt(s, 1, s[1].lock)
    BY <1>1, <2>1 DEF OwedAt
  <2>2. ASSUME OwedAt(s, 1, s[1].lock) PROVE s[1].act = "unlock"
    <3>1. PICK j \in DOMAIN s : /\ 1 <= j /\ s[j].act = "unlock"
                                /\ \A k \in 1..(j - 1) : s[k].lock # s[1].lock
      BY <2>2 DEF OwedAt
    <3>2. ~(1 \in 1..(j - 1))
      BY <3>1
    <3>3. j = 1
      BY <1>1, <3>2
    <3> QED
      BY <3>1, <3>3
  <2> QED
    BY <2>1, <2>2
<1>5. ASSUME NEW l, l # s[1].lock PROVE OwedAt(s, 2, l) <=> OwedAt(s, 1, l)
  <2>1. ASSUME OwedAt(s, 2, l) PROVE OwedAt(s, 1, l)
    <3>1. PICK j \in DOMAIN s : /\ 2 <= j /\ s[j].act = "unlock" /\ s[j].lock = l
                                /\ \A k \in 2..(j - 1) : s[k].lock # l
      BY <2>1 DEF OwedAt
    <3>2. \A k \in 1..(j - 1) : k = 1 \/ k \in 2..(j - 1)
      OBVIOUS
    <3> QED
      BY <1>1, <1>5, <3>1, <3>2 DEF OwedAt
  <2>2. ASSUME OwedAt(s, 1, l) PROVE OwedAt(s, 2, l)
    <3>1. PICK j \in DOMAIN s : /\ 1 <= j /\ s[j].act = "unlock" /\ s[j].lock = l
                                /\ \A k \in 1..(j - 1) : s[k].lock # l
      BY <2>2 DEF OwedAt
    <3>2. 2 <= j /\ \A k \in 2..(j - 1) : k \in 1..(j - 1)
      BY <1>1, <1>5, <3>1
    <3> QED
      BY <3>1, <3>2 DEF OwedAt
  <2> QED
    BY <2>1, <2>2
<1> QED
  BY <1>1, <1>2, <1>3, <1>4, <1>5

--------------------------------------------------------------------------------
(* The functions, from the sections they are built of. *)

\* Taking a lock and giving it back is a function.
LEMMA SectionWhole ==
    ASSUME NEW l \in Lock, NEW a \in {"read", "write"}, NEW b \in BOOLEAN,
           b => l = "connLock",
           NEW s, s = Section(a, l, b)
    PROVE  /\ Whole(s) /\ Len(s) = 2 /\ s[1].lock = l /\ s[2].lock = l
           /\ s[1].act # "unlock" /\ s[2].act = "unlock"
           /\ l # "natRuleLock" => OneByOne(s)
<1>1. /\ s \in Seq(Op) /\ Len(s) = 2 /\ DOMAIN s = 1..2
      /\ s[1].act # "unlock" /\ s[1].lock = l /\ s[2].act = "unlock" /\ s[2].lock = l
  <2> DEFINE take == [act |-> a, lock |-> l, allocates |-> FALSE]
             give == [act |-> "unlock", lock |-> l, allocates |-> b]
  <2>1. s = <<take, give>>
    BY DEF Section
  <2>2. take \in Op /\ give \in Op /\ a # "unlock"
    BY DEF Op
  <2>3. s \in Seq(Op) /\ Len(s) = 2 /\ s[1] = take /\ s[2] = give
    BY <2>1, <2>2
  <2> QED
    BY <2>2, <2>3, LenProperties
<1>2. \A i \in 1..3 : \A m : OwedAt(s, i, m) <=> i = 2 /\ m = l
  <2>1. ASSUME NEW m, OwedAt(s, 1, m) PROVE FALSE
    <3>1. PICK j \in 1..2 : /\ s[j].act = "unlock" /\ s[j].lock = m
                            /\ \A k \in 1..(j - 1) : s[k].lock # m
      BY <1>1, <2>1 DEF OwedAt
    <3>2. j = 2 /\ 1 \in 1..(j - 1)
      BY <1>1, <3>1
    <3> QED
      BY <1>1, <3>1, <3>2
  <2>2. OwedAt(s, 2, l)
    BY <1>1 DEF OwedAt
  <2>3. ASSUME NEW m, OwedAt(s, 2, m) PROVE m = l
    BY <1>1, <2>3 DEF OwedAt
  <2>4. ASSUME NEW m, OwedAt(s, 3, m) PROVE FALSE
    BY <1>1, <2>4 DEF OwedAt
  <2> QED
    BY <2>1, <2>2, <2>3, <2>4
<1>3. \A i \in 1..2 : i \in 1..3 /\ i + 1 \in 1..3
  OBVIOUS
<1>4. Alternates(s)
  BY <1>1, <1>2, <1>3 DEF Alternates
<1>5. Nests(s)
  BY <1>1, <1>2, <1>3 DEF Nests
<1>6. l # "natRuleLock" => OneByOne(s)
  BY <1>1, <1>2, <1>3 DEF OneByOne
<1> QED
  BY <1>1, <1>2, <1>4, <1>5, <1>6 DEF Whole, Sound

\* One function after the other is a function.
LEMMA WholeConcat ==
    ASSUME NEW p, NEW q, Whole(p), Whole(q)
    PROVE  /\ Whole(p \o q)
           /\ OneByOne(p) /\ OneByOne(q) => OneByOne(p \o q)
<1> DEFINE t == p \o q
           P == Len(p)
<1>1. p \in Seq(Op) /\ q \in Seq(Op) /\ P \in Nat /\ Len(q) \in Nat
  BY LenProperties DEF Whole, Sound
<1>2. /\ t \in Seq(Op) /\ DOMAIN t = 1..(P + Len(q)) /\ DOMAIN p = 1..P /\ DOMAIN q = 1..Len(q)
      /\ \A j \in 1..(P + Len(q)) : t[j] = IF j <= P THEN p[j] ELSE q[j - P]
  BY <1>1, ConcatProperties, LenProperties
<1> HIDE DEF t, P
<1>3. /\ \A j \in 1..P : j \in DOMAIN t /\ t[j] = p[j]
      /\ \A j \in (P + 1)..(P + Len(q)) : j \in DOMAIN t /\ j - P \in DOMAIN q /\ t[j] = q[j - P]
  BY <1>1, <1>2
<1>4. ASSUME NEW i \in Nat, i > P, NEW l
      PROVE  OwedAt(t, i, l) <=> OwedAt(q, i - P, l)
  <2>1. ASSUME OwedAt(t, i, l) PROVE OwedAt(q, i - P, l)
    <3>1. PICK j \in DOMAIN t : /\ i <= j /\ t[j].act = "unlock" /\ t[j].lock = l
                                /\ \A k \in i..(j - 1) : t[k].lock # l
      BY <2>1 DEF OwedAt
    <3>2. j \in (P + 1)..(P + Len(q)) /\ i - P <= j - P
      BY <1>1, <1>2, <1>4, <3>1
    <3>3. ASSUME NEW k \in (i - P)..((j - P) - 1) PROVE q[k].lock # l
      <4>1. k + P \in i..(j - 1) /\ k + P \in (P + 1)..(P + Len(q)) /\ (k + P) - P = k
        BY <1>1, <1>4, <3>2
      <4> QED
        BY <1>3, <3>1, <4>1
    <3> QED
      BY <1>3, <3>1, <3>2, <3>3 DEF OwedAt
  <2>2. ASSUME OwedAt(q, i - P, l) PROVE OwedAt(t, i, l)
    <3>1. PICK j \in DOMAIN q : /\ i - P <= j /\ q[j].act = "unlock" /\ q[j].lock = l
                                /\ \A k \in (i - P)..(j - 1) : q[k].lock # l
      BY <2>2 DEF OwedAt
    <3>2. j + P \in (P + 1)..(P + Len(q)) /\ i <= j + P /\ (j + P) - P = j
      BY <1>1, <1>2, <1>4, <3>1
    <3>3. ASSUME NEW k \in i..((j + P) - 1) PROVE t[k].lock # l
      <4>1. k - P \in (i - P)..(j - 1) /\ k \in (P + 1)..(P + Len(q))
        BY <1>1, <1>4, <3>2
      <4> QED
        BY <1>3, <3>1, <4>1
    <3> QED
      BY <1>3, <3>1, <3>2, <3>3 DEF OwedAt
  <2> QED
    BY <2>1, <2>2
<1>5. \A l \in Lock : ~OwedAt(q, 1, l) /\ ~OwedAt(p, P + 1, l)
  BY <1>1, <1>2 DEF Whole, OwedAt
<1>6. ASSUME NEW i \in 1..P, NEW l \in Lock
      PROVE  OwedAt(t, i, l) <=> OwedAt(p, i, l)
  <2>1. ASSUME OwedAt(p, i, l) PROVE OwedAt(t, i, l)
    <3>1. PICK j \in DOMAIN p : /\ i <= j /\ p[j].act = "unlock" /\ p[j].lock = l
                                /\ \A k \in i..(j - 1) : p[k].lock # l
      BY <2>1 DEF OwedAt
    <3>2. j \in 1..P /\ \A k \in i..(j - 1) : k \in 1..P
      BY <1>1, <1>2
    <3> QED
      BY <1>3, <3>1, <3>2 DEF OwedAt
  <2>2. ASSUME OwedAt(t, i, l) PROVE OwedAt(p, i, l)
    <3>1. PICK j \in DOMAIN t : /\ i <= j /\ t[j].act = "unlock" /\ t[j].lock = l
                                /\ \A k \in i..(j - 1) : t[k].lock # l
      BY <2>2 DEF OwedAt
    <3>2. CASE j <= P
      <4>1. j \in 1..P /\ \A k \in i..(j - 1) : k \in 1..P
        BY <1>1, <1>2, <3>1, <3>2
      <4> QED
        BY <1>2, <1>3, <3>1, <4>1 DEF OwedAt
    <3>3. CASE j > P
      <4>1. P + 1 <= j /\ \A k \in (P + 1)..(j - 1) : k \in i..(j - 1)
        BY <1>1, <1>2, <3>1, <3>3
      <4>2. OwedAt(t, P + 1, l)
        BY <3>1, <4>1 DEF OwedAt
      <4>3. OwedAt(q, 1, l)
        BY <1>1, <1>4, <4>2, (P + 1) - P = 1
      <4> QED
        BY <1>5, <4>3
    <3> QED
      BY <1>1, <1>2, <3>2, <3>3
  <2> QED
    BY <2>1, <2>2
<1>7. ASSUME NEW i \in 1..P, NEW l \in Lock
      PROVE  OwedAt(t, i + 1, l) <=> OwedAt(p, i + 1, l)
  <2>1. CASE i = P
    BY <1>1, <1>4, <1>5, <2>1, (P + 1) - P = 1
  <2>2. CASE i # P
    BY <1>1, <1>6, <2>2, i + 1 \in 1..P
  <2> QED
    BY <2>1, <2>2
<1>8. ASSUME NEW i \in DOMAIN t
      PROVE  \/ i \in DOMAIN p /\ t[i] = p[i] /\ t[i].lock \in Lock
             \/ /\ i - P \in DOMAIN q /\ t[i] = q[i - P]
                /\ \A l : OwedAt(t, i, l) <=> OwedAt(q, i - P, l)
                /\ \A l : OwedAt(t, i + 1, l) <=> OwedAt(q, (i - P) + 1, l)
  <2>1. CASE i <= P
    <3>1. i \in 1..P /\ t[i] \in Op
      BY <1>1, <1>2, <2>1, ElementOfSeq
    <3> QED
      BY <1>2, <1>3, <3>1, Operations
  <2>2. CASE i > P
    <3>1. i \in Nat /\ i + 1 \in Nat /\ i + 1 > P /\ (i + 1) - P = (i - P) + 1
          /\ i \in (P + 1)..(P + Len(q))
      BY <1>1, <1>2, <2>2
    <3> QED
      BY <1>3, <1>4, <2>2, <3>1
  <2> QED
    BY <1>1, <1>2, <2>1, <2>2
<1>9. Alternates(t)
  BY <1>2, <1>7, <1>8 DEF Whole, Sound, Alternates
<1>10. Nests(t)
  BY <1>2, <1>6, <1>8 DEF Whole, Sound, Nests
<1>11. OneByOne(p) /\ OneByOne(q) => OneByOne(t)
  BY <1>2, <1>6, <1>8 DEF OneByOne
<1>12. \A l \in Lock : ~OwedAt(t, 1, l)
  <2>1. CASE P = 0
    BY <1>1, <1>4, <1>5, <2>1, 1 - P = 1
  <2>2. CASE P # 0
    BY <1>1, <1>6, <2>2, 1 \in 1..P DEF Whole
  <2> QED
    BY <2>1, <2>2
<1> QED
  BY <1>2, <1>9, <1>10, <1>11, <1>12 DEF Whole, Sound, t

\* Erasing the connections of rules, however many, is a function that takes connLock only.
LEMMA ErasesWhole ==
    ASSUME NEW n \in Nat
    PROVE  /\ Whole(EraseConns(n))
           /\ \A i \in DOMAIN EraseConns(n) : EraseConns(n)[i].lock = "connLock"
<1> DEFINE s == EraseConns(n)
           w == Write("connLock")
<1>1. /\ w[1] \in Op /\ w[1].act = "write" /\ w[1].lock = "connLock"
      /\ w[2] \in Op /\ w[2].act = "unlock" /\ w[2].lock = "connLock"
  <2>1. /\ w[1] = [act |-> "write", lock |-> "connLock", allocates |-> FALSE]
        /\ w[2] = [act |-> "unlock", lock |-> "connLock", allocates |-> FALSE]
    BY DEF Write, Section
  <2>2. w[1] \in Op /\ w[2] \in Op
    BY <2>1, PlainOperations DEF Lock
  <2> QED
    BY <2>1, <2>2
<1>2. s = [i \in 1..(2 * n) |-> IF i % 2 = 1 THEN w[1] ELSE w[2]]
  BY DEF EraseConns
<1> HIDE DEF s, w
<1>3. 2 * n \in Nat /\ (2 * n + 1) % 2 = 1
  OBVIOUS
<1>4. /\ s \in Seq(Op) /\ DOMAIN s = 1..(2 * n)
      /\ \A i \in 1..(2 * n) : /\ s[i].lock = "connLock"
                               /\ s[i].act = "unlock" <=> i % 2 # 1
  BY <1>1, <1>2, <1>3
<1>5. \A i \in 1..(2 * n + 1) : \A m : OwedAt(s, i, m) <=> m = "connLock" /\ i % 2 # 1
  <2> SUFFICES ASSUME NEW i \in 1..(2 * n + 1), NEW m
               PROVE  OwedAt(s, i, m) <=> m = "connLock" /\ i % 2 # 1
    OBVIOUS
  <2>1. ASSUME OwedAt(s, i, m) PROVE m = "connLock" /\ i % 2 # 1
    <3>1. PICK j \in 1..(2 * n) : /\ i <= j /\ s[j].act = "unlock" /\ s[j].lock = m
                                  /\ \A k \in i..(j - 1) : s[k].lock # m
      BY <1>4, <2>1 DEF OwedAt
    <3>2. m = "connLock"
      BY <1>4, <3>1
    <3>3. ~(i \in i..(j - 1))
      BY <1>3, <1>4, <3>1, <3>2
    <3>4. i = j
      BY <3>1, <3>3
    <3> QED
      BY <1>4, <3>1, <3>2, <3>4
  <2>2. ASSUME i % 2 # 1 PROVE OwedAt(s, i, "connLock")
    <3>1. i \in 1..(2 * n)
      BY <1>3, <2>2
    <3>2. i <= i /\ i..(i - 1) = {}
      OBVIOUS
    <3> QED
      BY <1>4, <2>2, <3>1, <3>2 DEF OwedAt
  <2> QED
    BY <2>1, <2>2
<1>6. \A i \in 1..(2 * n) : /\ i \in 1..(2 * n + 1) /\ i + 1 \in 1..(2 * n + 1)
                            /\ (i + 1) % 2 = 1 <=> i % 2 # 1
  BY <1>3
<1>7. Alternates(s)
  BY <1>4, <1>5, <1>6 DEF Alternates
<1>8. Nests(s)
  BY <1>4, <1>5, <1>6 DEF Nests
<1>9. \A m : ~OwedAt(s, 1, m)
  BY <1>3, <1>5, 1 \in 1..(2 * n + 1), 1 % 2 = 1
<1> QED
  BY <1>4, <1>7, <1>8, <1>9 DEF Whole, Sound, s

\* Erasing connections under FWRuleLock or natRuleLock is a function.
LEMMA AroundWhole ==
    ASSUME NEW l \in {"FWRuleLock", "natRuleLock"}, NEW n \in Nat
    PROVE  Whole(Around(Write(l), EraseConns(n)))
<1> DEFINE q == EraseConns(n)
           w == Write(l)
           t == Around(w, q)
           N == Len(q)
<1>1. /\ q \in Seq(Op) /\ Alternates(q) /\ Nests(q) /\ N \in Nat /\ DOMAIN q = 1..N
      /\ ~OwedAt(q, 1, "connLock")
      /\ \A i \in 1..N : q[i].lock = "connLock"
  BY ErasesWhole, LenProperties DEF Whole, Sound, Lock
<1>2. /\ w[1] \in Op /\ w[1].act = "write" /\ w[1].lock = l
      /\ w[2] \in Op /\ w[2].act = "unlock" /\ w[2].lock = l
  <2>1. /\ w[1] = [act |-> "write", lock |-> l, allocates |-> FALSE]
        /\ w[2] = [act |-> "unlock", lock |-> l, allocates |-> FALSE]
    BY DEF Write, Section
  <2>2. w[1] \in Op /\ w[2] \in Op
    BY <2>1, PlainOperations DEF Lock
  <2> QED
    BY <2>1, <2>2
<1>3. t = <<w[1]>> \o q \o <<w[2]>>
  BY DEF Around
<1> HIDE DEF q, w, t, N
<1>4. /\ t \in Seq(Op) /\ DOMAIN t = 1..(N + 2)
      /\ t[1] = w[1] /\ t[N + 2] = w[2]
      /\ \A i \in 2..(N + 1) : i - 1 \in 1..N /\ t[i] = q[i - 1]
  <2> DEFINE h == <<w[1]>> \o q
  <2>1. /\ h \in Seq(Op) /\ Len(h) = N + 1 /\ h[1] = w[1]
        /\ \A i \in 2..(N + 1) : i - 1 \in 1..N /\ h[i] = q[i - 1]
    <3>1. <<w[1]>> \in Seq(Op) /\ Len(<<w[1]>>) = 1 /\ <<w[1]>>[1] = w[1]
      BY <1>2
    <3>2. /\ h \in Seq(Op) /\ Len(h) = 1 + N
          /\ \A i \in 1..(1 + N) : h[i] = IF i <= 1 THEN <<w[1]>>[i] ELSE q[i - 1]
      BY <1>1, <3>1, ConcatProperties DEF N
    <3> QED
      BY <1>1, <3>1, <3>2
  <2>2. <<w[2]>> \in Seq(Op) /\ Len(<<w[2]>>) = 1 /\ <<w[2]>>[1] = w[2]
    BY <1>2
  <2> HIDE DEF h
  <2>3. /\ h \o <<w[2]>> \in Seq(Op) /\ Len(h \o <<w[2]>>) = (N + 1) + 1
        /\ \A i \in 1..((N + 1) + 1) :
               (h \o <<w[2]>>)[i] = IF i <= N + 1 THEN h[i] ELSE <<w[2]>>[i - (N + 1)]
    BY <2>1, <2>2, ConcatProperties
  <2>4. t = h \o <<w[2]>>
    BY <1>3 DEF h
  <2>5. DOMAIN t = 1..(N + 2) /\ t \in Seq(Op)
    BY <1>1, <2>3, <2>4, LenProperties
  <2>6. t[1] = w[1] /\ \A i \in 2..(N + 1) : i - 1 \in 1..N /\ t[i] = q[i - 1]
    BY <1>1, <2>1, <2>3, <2>4
  <2>7. t[N + 2] = w[2]
    <3>1. N + 2 \in 1..((N + 1) + 1) /\ ~(N + 2 <= N + 1) /\ (N + 2) - (N + 1) = 1
      BY <1>1
    <3>2. t[N + 2] = <<w[2]>>[(N + 2) - (N + 1)]
      BY <2>3, <2>4, <3>1
    <3> QED
      BY <2>2, <3>1, <3>2
  <2> QED
    BY <2>5, <2>6, <2>7
<1>5. ASSUME NEW i \in 2..(N + 2) PROVE OwedAt(t, i, l)
  <2>1. \A k \in i..((N + 2) - 1) : k \in 2..(N + 1)
    BY <1>1
  <2>2. N + 2 \in DOMAIN t /\ i <= N + 2
    BY <1>1, <1>4
  <2> QED
    BY <1>1, <1>2, <1>4, <2>1, <2>2 DEF OwedAt
<1>6. ASSUME NEW i \in 2..(N + 2)
      PROVE  OwedAt(t, i, "connLock") <=> OwedAt(q, i - 1, "connLock")
  <2>1. ASSUME OwedAt(t, i, "connLock") PROVE OwedAt(q, i - 1, "connLock")
    <3>1. PICK j \in 1..(N + 2) : /\ i <= j /\ t[j].act = "unlock" /\ t[j].lock = "connLock"
                                  /\ \A k \in i..(j - 1) : t[k].lock # "connLock"
      BY <1>4, <2>1 DEF OwedAt
    <3>2. j \in 2..(N + 1)
      BY <1>1, <1>2, <1>4, <3>1
    <3>3. ASSUME NEW k \in (i - 1)..((j - 1) - 1) PROVE q[k].lock # "connLock"
      <4>1. k + 1 \in i..(j - 1) /\ k + 1 \in 2..(N + 1) /\ (k + 1) - 1 = k
        BY <1>1, <3>2
      <4> QED
        BY <1>4, <3>1, <4>1
    <3>4. j - 1 \in DOMAIN q /\ i - 1 <= j - 1 /\ q[j - 1] = t[j]
      BY <1>1, <1>4, <3>1, <3>2
    <3> QED
      BY <3>1, <3>3, <3>4 DEF OwedAt
  <2>2. ASSUME OwedAt(q, i - 1, "connLock") PROVE OwedAt(t, i, "connLock")
    <3>1. PICK j \in 1..N : /\ i - 1 <= j /\ q[j].act = "unlock" /\ q[j].lock = "connLock"
                            /\ \A k \in (i - 1)..(j - 1) : q[k].lock # "connLock"
      BY <1>1, <2>2 DEF OwedAt
    <3>2. j + 1 \in 2..(N + 1) /\ j + 1 \in DOMAIN t /\ i <= j + 1 /\ (j + 1) - 1 = j
      BY <1>1, <1>4, <3>1
    <3>3. ASSUME NEW k \in i..((j + 1) - 1) PROVE t[k].lock # "connLock"
      <4>1. k - 1 \in (i - 1)..(j - 1) /\ k \in 2..(N + 1)
        BY <1>1, <3>2
      <4> QED
        BY <1>4, <3>1, <4>1
    <3>4. t[j + 1] = q[j]
      BY <1>4, <3>2
    <3> QED
      BY <3>1, <3>2, <3>3, <3>4 DEF OwedAt
  <2> QED
    BY <2>1, <2>2
<1>7. \A i \in 1..(N + 2) : t[i].lock \in {l, "connLock"}
  BY <1>1, <1>2, <1>4
<1>8. \A i, m : OwedAt(t, i, m) => m \in {l, "connLock"}
  BY <1>4, <1>7 DEF OwedAt
<1>9. \A m : ~OwedAt(t, 1, m)
  <2> SUFFICES ASSUME NEW m, OwedAt(t, 1, m) PROVE FALSE
    OBVIOUS
  <2>1. PICK j \in 1..(N + 2) : /\ t[j].act = "unlock" /\ t[j].lock = m
                                /\ \A k \in 1..(j - 1) : t[k].lock # m
    BY <1>4 DEF OwedAt
  <2>2. j # 1 /\ 1 \in 1..(j - 1)
    BY <1>2, <1>4, <2>1
  <2>3. m = "connLock" /\ j \in 2..(N + 1)
    BY <1>1, <1>2, <1>4, <1>8, <2>1, <2>2
  <2>4. \A k \in 2..(j - 1) : k \in 1..(j - 1)
    OBVIOUS
  <2>5. OwedAt(t, 2, "connLock") /\ 2 \in 2..(N + 2)
    BY <1>1, <1>4, <2>1, <2>3, <2>4 DEF OwedAt
  <2> QED
    BY <1>1, <1>6, <2>5, 2 - 1 = 1
<1>10. ~OwedAt(t, (N + 2) + 1, l)
  BY <1>1, <1>4 DEF OwedAt
<1>11. ASSUME NEW i \in 1..(N + 2), i # 1, i # N + 2
       PROVE  /\ i \in 2..(N + 1) /\ i - 1 \in DOMAIN q /\ t[i] = q[i - 1]
              /\ i + 1 \in 2..(N + 2) /\ (i + 1) - 1 = (i - 1) + 1
  BY <1>1, <1>4, <1>11
<1>12. Alternates(t)
  <2> SUFFICES ASSUME NEW i \in 1..(N + 2)
               PROVE  OwedAt(t, i + 1, t[i].lock) <=> t[i].act # "unlock"
    BY <1>4 DEF Alternates
  <2>1. CASE i = 1
    BY <1>1, <1>2, <1>4, <1>5, <2>1, 1 + 1 \in 2..(N + 2)
  <2>2. CASE i = N + 2
    BY <1>2, <1>4, <1>10, <2>2
  <2>3. CASE i # 1 /\ i # N + 2
    <3>1. /\ i - 1 \in DOMAIN q /\ t[i] = q[i - 1] /\ t[i].lock = "connLock"
          /\ OwedAt(t, i + 1, "connLock") <=> OwedAt(q, (i - 1) + 1, "connLock")
      BY <1>1, <1>6, <1>11, <2>3
    <3> QED
      BY <1>1, <3>1 DEF Alternates
  <2> QED
    BY <2>1, <2>2, <2>3
<1>13. Nests(t)
  <2> SUFFICES ASSUME NEW i \in 1..(N + 2), NEW m \in Lock, t[i].act # "unlock", OwedAt(t, i, m)
               PROVE  t[i].lock = "connLock" /\ m \in {"FWRuleLock", "natRuleLock"}
    BY <1>4 DEF Nests
  <2>1. i # 1 /\ i # N + 2
    BY <1>2, <1>4, <1>9
  <2>2. i \in 2..(N + 2) /\ i - 1 \in DOMAIN q /\ t[i] = q[i - 1] /\ t[i].lock = "connLock"
    BY <1>1, <1>11, <2>1
  <2>3. m # "connLock"
    <3>1. OwedAt(t, i, "connLock") => OwedAt(q, i - 1, "connLock")
      BY <1>6, <2>2
    <3>2. ~OwedAt(q, i - 1, "connLock")
      BY <1>1, <2>2 DEF Nests, Lock
    <3> QED
      BY <3>1, <3>2
  <2> QED
    BY <1>8, <2>2, <2>3
<1> QED
  BY <1>4, <1>9, <1>12, <1>13 DEF Whole, Sound, t, q, w

\* Whatever a context enters is a function, and a softirq's takes one lock at a time.
LEMMA FunctionsWhole ==
    ASSUME NEW c \in Context, NEW f \in Functions(c)
    PROVE  /\ Whole(f)
           /\ c \in Softirq => OneByOne(f)
<1> DEFINE Both(s) == Whole(s) /\ OneByOne(s)
<1>1. /\ \A l \in Lock : /\ Whole(Read(l)) /\ Whole(Write(l))
                         /\ l # "natRuleLock" => Both(Read(l)) /\ Both(Write(l))
      /\ Both(Find) /\ Both(Add)
  <2>1. ASSUME NEW l \in Lock, NEW s \in {Read(l), Write(l)}
        PROVE  Whole(s) /\ (l # "natRuleLock" => Both(s))
    BY SectionWhole DEF Read, Write
  <2>2. ASSUME NEW s \in {Find, Add} PROVE Both(s)
    <3>1. "connLock" \in Lock /\ "connLock" # "natRuleLock"
      BY DEF Lock
    <3>2. PICK a \in {"read", "write"} : s = Section(a, "connLock", TRUE)
      BY DEF Find, Add
    <3> QED
      BY <3>1, <3>2, SectionWhole
  <2> QED
    BY <2>1, <2>2
<1>2. \A p, q : Both(p) /\ Both(q) => Both(p \o q)
  BY WholeConcat
<1>3. /\ Both(Read("connLock")) /\ Both(Write("connLock"))
      /\ Both(Read("FWRuleLock")) /\ Both(Write("logLock"))
  BY <1>1 DEF Lock
<1> HIDE DEF Both
<1>4. Both(HookHit)
  BY <1>1, <1>2, <1>3 DEF HookHit
<1>5. Both(InsertLog)
  BY <1>2, <1>3 DEF InsertLog
<1>6. Both(HookNew)
  BY <1>1, <1>2, <1>3 DEF HookNew
<1>7. Both(HookDrop)
  BY <1>1, <1>2, <1>3 DEF HookDrop
<1>8. \A s \in Packets \cup {Timer} : Both(s)
  BY <1>2, <1>3, <1>4, <1>5, <1>6, <1>7 DEF Packets, Timer
<1>9. \A n \in Nat : Whole(EraseConns(n)) /\ Whole(RemoveFWRules(n)) /\ Whole(DeleteNATRule(n))
  BY ErasesWhole, AroundWhole DEF RemoveFWRules, DeleteNATRule
<1>10. /\ Whole(AppendFWRules) /\ Whole(AddNATRule)
       /\ Whole(FormAllFWRules) /\ Whole(FormAllConns)
       /\ Whole(FormAllNATRules) /\ Whole(FormAllLogItems)
  BY <1>1 DEF AppendFWRules, AddNATRule, FormAllFWRules, FormAllConns, FormAllNATRules,
              FormAllLogItems, Lock
<1>11. \A n \in 0..MaxErased : n \in Nat
  BY LocksAssumption
<1>12. \A s \in Requests : Whole(s)
  BY <1>9, <1>10, <1>11 DEF Requests, DealWithSetAction
<1>13. c \in Softirq => f \in Packets \cup {Timer}
  BY DEF Functions
<1>14. f \in Packets \cup {Timer} \/ f \in Requests
  BY DEF Functions
<1> QED
  BY <1>8, <1>12, <1>13, <1>14 DEF Both

--------------------------------------------------------------------------------
(* The invariant *)

\* Processes are no softirqs, and no context is nobody.
LEMMA Contexts ==
    /\ \A c \in Context : c # NoOne
    /\ Softirq \subseteq Context /\ Process \subseteq Context
    /\ \A c \in Process : c \notin Softirq /\ <<c[1], "softirq">> \in Softirq
  BY LocksAssumption DEF Context, Process, Softirq

\* Those who have a process's CPU: its softirq, or while it sleeps another process.
LEMMA AheadOf ==
    ASSUME NEW c, Active(c), c \notin asleep
    PROVE  /\ \A d \in Ahead(c) : d \in Softirq
           /\ Displaced(c) => c \in Process
  BY DEF Ahead, Displaced

\* The locks a context has still to give back are those it owes at its next operation.
LEMMA OwedNow ==
    ASSUME NEW s \in Seq(Op), NEW l \in Lock
    PROVE  (\E i \in DOMAIN s : /\ s[i].act = "unlock" /\ s[i].lock = l
                                /\ \A j \in 1..(i - 1) : s[j].lock # l)
           <=> OwedAt(s, 1, l)
<1>1. \A i \in DOMAIN s : 1 <= i
  BY LenProperties
<1> QED
  BY <1>1 DEF OwedAt

\* The invariant is stronger than the type invariant.
LEMMA InvTypes == LocksInv => LocksTypeOK
<1> SUFFICES ASSUME LocksInv PROVE LocksTypeOK
  OBVIOUS
<1>1. \A c \in Context, l \in Lock : Holds(c, l) <=> l \in Owes(c)
  <2> SUFFICES ASSUME NEW c \in Context, NEW l \in Lock
               PROVE  OwedAt(todo[c], 1, l) <=> l \in Owes(c)
    BY DEF LocksInv, Balanced
  <2>1. todo[c] \in Seq(Op)
    BY DEF LocksInv, Typed
  <2> QED
    BY <2>1, OwedNow DEF Owes
<1>2. ASSUME NEW l \in Lock
      PROVE  ToSet(queue[l]) = {c \in asking : Next1(c).lock = l} \ Counted(l)
  BY DEF LocksInv, Lined, InLine, Counted
<1>3. asleep \cap asking = {}
  BY DEF LocksInv, Sleepers, AskersWant
<1> QED
  BY <1>1, <1>2, <1>3 DEF LocksInv, Typed, Exclusive, LocksTypeOK

\* Nobody holds, asks or does anything at first.
LEMMA LocksInitInv == LocksInit => LocksInv
<1> SUFFICES ASSUME LocksInit PROVE LocksInv
  OBVIOUS
<1>1. \A c \in Context : todo[c] = <<>>
  BY DEF LocksInit
<1>2. \A l \in Lock : readers[l] = {} /\ writer[l] = NoOne /\ queue[l] = <<>>
  BY DEF LocksInit
<1>3. <<>> \in Seq(Op) /\ \A i, l : ~OwedAt(<<>>, i, l)
  BY DEF OwedAt
<1>4. Typed
  BY DEF LocksInit, Typed
<1>5. Balanced
  BY <1>1, <1>2, <1>3, Contexts DEF Balanced, Holds
<1>6. Exclusive
  BY <1>2 DEF Exclusive
<1>7. Lined
  BY <1>2 DEF Lined, InLine, LocksInit, IsInjective, ToSet
<1>8. AskersWant
  BY DEF LocksInit, AskersWant
<1>8a. Sleepers
  BY DEF LocksInit, Sleepers
<1>9. Sound(<<>>) /\ OneByOne(<<>>)
  BY <1>3 DEF Sound, OneByOne, Alternates, Nests
<1>10. Disciplined
  BY <1>1, <1>9, Contexts DEF Disciplined
<1> QED
  BY <1>4, <1>5, <1>6, <1>7, <1>8, <1>8a, <1>10 DEF LocksInv

\* Those who sleep go on sleeping while they stand still.
LEMMA SleepersKept ==
    ASSUME Sleepers, asleep' = asleep, \A d \in asleep : todo'[d] = todo[d]
    PROVE  Sleepers'
  BY DEF Sleepers, Active, Next1

\* The lines stay right while those who wait stand still.
LEMMA LinesKept ==
    ASSUME Lined, AskersWant, asking' = asking, queue' = queue,
           \A d \in asking : todo'[d] = todo[d]
    PROVE  Lined' /\ AskersWant'
<1>1. \A d \in asking : /\ Next1(d)' = Next1(d) /\ (Overtakes(d)' <=> Overtakes(d))
                        /\ Active(d)' <=> Active(d)
  BY DEF Next1, Overtakes, Active
<1>2. \A l : InLine(l)' = InLine(l)
  BY <1>1 DEF InLine
<1> QED
  BY <1>1, <1>2 DEF Lined, AskersWant

\* A context that goes on to the next operation of its function keeps to the discipline.
LEMMA GoesOn ==
    ASSUME LocksInv, NEW c \in Context, Active(c), todo' = [todo EXCEPT ![c] = Tail(@)]
    PROVE  /\ Disciplined'
           /\ todo' \in [Context -> Seq(Op)]
           /\ todo'[c] = Tail(todo[c])
           /\ \A d \in Context : d # c => todo'[d] = todo[d]
           /\ Next1(c).lock \in Lock /\ Next1(c).act \in {"read", "write", "unlock"}
           /\ Next1(c).act = "unlock" <=> Holds(c, Next1(c).lock)
           /\ Next1(c).act = "unlock" <=> ~OwedAt(todo'[c], 1, Next1(c).lock)
           /\ \A l \in Lock : l # Next1(c).lock =>
                                  (OwedAt(todo'[c], 1, l) <=> Holds(c, l))
<1>1. Sound(todo[c]) /\ todo[c] # <<>> /\ todo \in [Context -> Seq(Op)]
  BY DEF LocksInv, Disciplined, Typed, Active
<1>2. todo'[c] = Tail(todo[c]) /\ \A d \in Context : d # c => todo'[d] = todo[d]
  BY <1>1
<1>3. /\ Next1(c) \in Op /\ Tail(todo[c]) \in Seq(Op)
      /\ Next1(c).act = "unlock" <=> OwedAt(todo[c], 1, Next1(c).lock)
      /\ Next1(c).act = "unlock" <=> ~OwedAt(Tail(todo[c]), 1, Next1(c).lock)
      /\ \A l : l # Next1(c).lock => (OwedAt(Tail(todo[c]), 1, l) <=> OwedAt(todo[c], 1, l))
  BY <1>1, FirstOp DEF Next1
<1>4. Sound(Tail(todo[c])) /\ (OneByOne(todo[c]) => OneByOne(Tail(todo[c])))
  BY <1>1, SoundTail
<1>5. todo' \in [Context -> Seq(Op)]
  BY <1>1, <1>3
<1>6. Disciplined'
  BY <1>2, <1>4, Contexts DEF LocksInv, Disciplined
<1>7. Next1(c).lock \in Lock /\ Next1(c).act \in {"read", "write", "unlock"}
  BY <1>3, Operations
<1> QED
  BY <1>2, <1>3, <1>5, <1>6, <1>7 DEF LocksInv, Balanced

\* A context that gets a free lock holds it, and excludes those it should.
LEMMA AcquireKeeps ==
    ASSUME LocksInv, NEW c \in Context, Active(c), Next1(c).act # "unlock",
           Grantable(c), Acquire(c), asking' \subseteq Context,
           queue' \in [Lock -> Seq(Context)], asleep' = asleep
    PROVE  Typed' /\ Balanced' /\ Exclusive' /\ Disciplined' /\ Sleepers'
<1>0. PICK l : l = Next1(c).lock
  OBVIOUS
<1>1. /\ Disciplined' /\ todo' \in [Context -> Seq(Op)]
      /\ \A d \in Context : d # c => todo'[d] = todo[d]
      /\ l \in Lock /\ Next1(c).act \in {"read", "write"} /\ ~Holds(c, l)
      /\ OwedAt(todo'[c], 1, l)
      /\ \A m \in Lock : m # l => (OwedAt(todo'[c], 1, m) <=> Holds(c, m))
  BY <1>0, GoesOn DEF Acquire
<1>2. /\ writer[l] = NoOne
      /\ Next1(c).act = "write" => readers[l] = {}
  BY <1>0 DEF Grantable
<1>3. /\ readers \in [Lock -> SUBSET Context] /\ writer \in [Lock -> Context \cup {NoOne}]
      /\ \A m \in Lock : writer[m] # NoOne => readers[m] = {}
      /\ \A d \in Context, m \in Lock : Holds(d, m) <=> OwedAt(todo[d], 1, m)
  BY DEF LocksInv, Typed, Exclusive, Balanced
<1>4. \/ readers' = [readers EXCEPT ![l] = @ \cup {c}] /\ writer' = writer
      \/ writer' = [writer EXCEPT ![l] = c] /\ readers' = readers /\ readers[l] = {}
  BY <1>0, <1>1, <1>2 DEF Acquire
<1>5. /\ readers' \in [Lock -> SUBSET Context] /\ writer' \in [Lock -> Context \cup {NoOne}]
      /\ \A m \in Lock : writer'[m] # NoOne => readers'[m] = {}
  <2>1. CASE readers' = [readers EXCEPT ![l] = @ \cup {c}] /\ writer' = writer
    BY <1>1, <1>2, <1>3, <2>1
  <2>2. CASE writer' = [writer EXCEPT ![l] = c] /\ readers' = readers /\ readers[l] = {}
    BY <1>1, <1>2, <1>3, <2>2
  <2> QED
    BY <1>4, <2>1, <2>2
<1>6. Typed' /\ Sleepers'
  <2>1. c \notin asleep /\ asleep \subseteq Context
    BY Contexts DEF LocksInv, Typed, Sleepers
  <2> QED
    BY <1>1, <1>5, <2>1, SleepersKept DEF LocksInv, Typed
<1>7. Exclusive'
  BY <1>5 DEF Exclusive
<1>8. /\ Holds(c, l)'
      /\ \A m \in Lock : m # l => (Holds(c, m)' <=> Holds(c, m))
      /\ \A d \in Context, m \in Lock : d # c => (Holds(d, m)' <=> Holds(d, m))
  <2>1. CASE readers' = [readers EXCEPT ![l] = @ \cup {c}] /\ writer' = writer
    BY <1>1, <1>3, <2>1 DEF Holds
  <2>2. CASE writer' = [writer EXCEPT ![l] = c] /\ readers' = readers /\ readers[l] = {}
    BY <1>1, <1>2, <1>3, <2>2, Contexts DEF Holds
  <2> QED
    BY <1>4, <2>1, <2>2
<1>9. Balanced'
  BY <1>1, <1>3, <1>8 DEF Balanced
<1> QED
  BY <1>1, <1>6, <1>7, <1>9

\* A request, a packet or the timer starts with no lock.
LEMMA EnterInv ==
    ASSUME LocksInv, NEW c \in Context, NEW f \in Functions(c), Enter(c, f)
    PROVE  LocksInv'
<1>1. Whole(f) /\ (c \in Softirq => OneByOne(f))
  BY FunctionsWhole
<1>2. /\ todo \in [Context -> Seq(Op)] /\ todo' = [todo EXCEPT ![c] = f] /\ todo[c] = <<>>
      /\ UNCHANGED <<asking, queue, readers, writer, asleep>>
  BY DEF LocksInv, Typed, Enter, Active
<1>3. todo'[c] = f /\ \A d \in Context : d # c => todo'[d] = todo[d]
  BY <1>2
<1>3a. Sleepers'
  <2>1. c \notin asleep /\ asleep \subseteq Context
    BY <1>2, Contexts DEF LocksInv, Typed, Sleepers, Active
  <2> QED
    BY <1>2, <1>3, <2>1, SleepersKept DEF LocksInv
<1>4. Typed'
  BY <1>1, <1>2 DEF LocksInv, Typed, Whole, Sound
<1>5. \A l : ~OwedAt(todo[c], 1, l)
  BY <1>2 DEF OwedAt
<1>6. \A d \in Context, l \in Lock : OwedAt(todo'[d], 1, l) <=> OwedAt(todo[d], 1, l)
  BY <1>1, <1>3, <1>5 DEF Whole
<1>7. \A d, l : Holds(d, l)' <=> Holds(d, l)
  BY <1>2 DEF Holds
<1>8. Balanced'
  BY <1>6, <1>7 DEF LocksInv, Balanced
<1>9. Exclusive'
  BY <1>2 DEF LocksInv, Exclusive
<1>10. c \notin asking /\ asking \subseteq Context
  BY <1>2 DEF LocksInv, Typed, AskersWant, Active
<1>11. Lined' /\ AskersWant'
  BY <1>2, <1>3, <1>10, LinesKept DEF LocksInv
<1>12. Disciplined'
  BY <1>1, <1>3, Contexts DEF LocksInv, Disciplined, Whole
<1> QED
  BY <1>3a, <1>4, <1>8, <1>9, <1>11, <1>12 DEF LocksInv

\* A lock that is taken at once.
LEMMA TakeInv ==
    ASSUME LocksInv, NEW c \in Context, Take(c)
    PROVE  LocksInv'
<1>1. /\ Active(c) /\ Next1(c).act # "unlock" /\ c \notin asking /\ Grantable(c) /\ Acquire(c)
      /\ asking' = asking /\ queue' = queue /\ asleep' = asleep
  BY DEF Take, Running
<1>2. asking \subseteq Context /\ queue \in [Lock -> Seq(Context)]
  BY DEF LocksInv, Typed
<1>3. Typed' /\ Balanced' /\ Exclusive' /\ Disciplined' /\ Sleepers'
  BY <1>1, <1>2, AcquireKeeps
<1>4. \A d \in asking : todo'[d] = todo[d]
  BY <1>1, <1>2, GoesOn DEF Acquire
<1>5. Lined' /\ AskersWant'
  BY <1>1, <1>4, LinesKept DEF LocksInv
<1> QED
  BY <1>3, <1>5 DEF LocksInv

\* A context that starts to wait joins the line, or overtakes it.
LEMMA SpinInv ==
    ASSUME LocksInv, NEW c \in Context, Spin(c)
    PROVE  LocksInv'
<1> DEFINE l == Next1(c).lock
<1>1. /\ Active(c) /\ Next1(c).act # "unlock" /\ c \notin asking
      /\ asking' = asking \cup {c} /\ UNCHANGED <<todo, readers, writer, asleep>>
      /\ queue' = IF Overtakes(c) THEN queue ELSE [queue EXCEPT ![l] = Append(@, c)]
  BY DEF Spin, Running
<1>2. /\ todo[c] # <<>> /\ todo[c] \in Seq(Op) /\ asking \subseteq Context
      /\ queue \in [Lock -> Seq(Context)] /\ Sound(todo[c])
  BY <1>1 DEF LocksInv, Typed, Disciplined, Active
<1>3. l \in Lock
  BY <1>2, FirstOp, Operations DEF Next1
<1> HIDE DEF l
<1>4. \A d : Next1(d)' = Next1(d) /\ (Overtakes(d)' <=> Overtakes(d)) /\ (Active(d)' <=> Active(d))
  BY <1>1 DEF Next1, Overtakes, Active
<1>5. queue[l] \in Seq(Context) /\ IsInjective(queue[l]) /\ c \notin ToSet(queue[l])
  BY <1>1, <1>2, <1>3 DEF LocksInv, Lined, InLine
<1>6. /\ Append(queue[l], c) \in Seq(Context)
      /\ IsInjective(Append(queue[l], c))
      /\ \A d : d \in ToSet(Append(queue[l], c)) <=> d \in ToSet(queue[l]) \/ d = c
  BY <1>5, AppendedLine
<1>7. Typed' /\ Sleepers'
  BY <1>1, <1>2, <1>3, <1>6, SleepersKept DEF LocksInv, Typed
<1>8. \A d \in Context, m \in Lock : /\ Holds(d, m)' <=> Holds(d, m)
                                     /\ OwedAt(todo'[d], 1, m) <=> OwedAt(todo[d], 1, m)
  BY <1>1 DEF Holds
<1>9. Balanced' /\ Exclusive' /\ Disciplined'
  BY <1>1, <1>8 DEF LocksInv, Balanced, Exclusive, Disciplined
<1>10. AskersWant'
  BY <1>1, <1>4 DEF LocksInv, AskersWant
<1>11. \A m, d : d \in InLine(m)' <=> d \in InLine(m) \/ (d = c /\ m = l /\ ~Overtakes(c))
  BY <1>1, <1>4 DEF InLine, l
<1>12. ASSUME NEW m \in Lock
       PROVE  /\ IsInjective(queue'[m])
              /\ \A d : d \in ToSet(queue'[m]) <=> d \in InLine(m)'
  <2>1. IsInjective(queue[m]) /\ \A d : d \in ToSet(queue[m]) <=> d \in InLine(m)
    BY DEF LocksInv, Lined
  <2>2. CASE m = l /\ ~Overtakes(c)
    <3>1. queue'[m] = Append(queue[l], c)
      BY <1>1, <1>2, <1>3, <2>2
    <3> QED
      BY <1>6, <1>11, <2>1, <2>2, <3>1
  <2>3. CASE ~(m = l /\ ~Overtakes(c))
    <3>1. queue'[m] = queue[m]
      BY <1>1, <1>2, <1>3, <2>3
    <3> QED
      BY <1>11, <2>1, <2>3, <3>1
  <2> QED
    BY <2>2, <2>3
<1>13. Lined'
  BY <1>12 DEF Lined
<1> QED
  BY <1>7, <1>9, <1>10, <1>13 DEF LocksInv

\* A waiter that gets its lock leaves the line at the front.
LEMMA GrantInv ==
    ASSUME LocksInv, NEW c \in Context, Grant(c)
    PROVE  LocksInv'
<1> DEFINE l == Next1(c).lock
<1>1. /\ Active(c) /\ Next1(c).act # "unlock" /\ c \in asking /\ Grantable(c) /\ Acquire(c)
      /\ asking' = asking \ {c}
      /\ ~Overtakes(c) => Head(queue[l]) = c
      /\ queue' = IF Overtakes(c) THEN queue ELSE [queue EXCEPT ![l] = Tail(@)]
      /\ asleep' = asleep
  BY DEF Grant, Running
<1>2. /\ l \in Lock /\ \A d \in Context : d # c => todo'[d] = todo[d]
  BY <1>1, GoesOn DEF Acquire
<1>3. asking \subseteq Context /\ queue \in [Lock -> Seq(Context)]
  BY DEF LocksInv, Typed
<1>4. \A d \in asking : d # c => /\ Next1(d)' = Next1(d) /\ (Overtakes(d)' <=> Overtakes(d))
                                 /\ Active(d)' <=> Active(d)
  BY <1>2, <1>3 DEF Next1, Overtakes, Active
<1> HIDE DEF l
<1>5. ASSUME ~Overtakes(c)
      PROVE  /\ Tail(queue[l]) \in Seq(Context) /\ IsInjective(Tail(queue[l]))
             /\ \A d : d \in ToSet(Tail(queue[l])) <=> d \in ToSet(queue[l]) /\ d # c
  <2>1. c \in ToSet(queue[l]) /\ queue[l] \in Seq(Context) /\ IsInjective(queue[l])
    BY <1>1, <1>2, <1>3, <1>5 DEF LocksInv, Lined, InLine, l
  <2>2. queue[l] # <<>>
    BY <2>1 DEF ToSet
  <2> QED
    BY <1>1, <1>5, <2>1, <2>2, ShortenedLine
<1>6. queue' \in [Lock -> Seq(Context)] /\ asking' \subseteq Context
  BY <1>1, <1>2, <1>3, <1>5
<1>7. Typed' /\ Balanced' /\ Exclusive' /\ Disciplined' /\ Sleepers'
  BY <1>1, <1>6, AcquireKeeps
<1>8. AskersWant'
  BY <1>1, <1>4 DEF LocksInv, AskersWant
<1>9. \A m, d : d \in InLine(m)' <=> d \in InLine(m) /\ d # c
  BY <1>1, <1>4 DEF InLine
<1>10. \A m : c \in InLine(m) <=> m = l /\ ~Overtakes(c)
  BY <1>1 DEF InLine, l
<1>11. ASSUME NEW m \in Lock
       PROVE  /\ IsInjective(queue'[m])
              /\ \A d : d \in ToSet(queue'[m]) <=> d \in InLine(m)'
  <2>1. IsInjective(queue[m]) /\ \A d : d \in ToSet(queue[m]) <=> d \in InLine(m)
    BY DEF LocksInv, Lined
  <2>2. CASE m = l /\ ~Overtakes(c)
    <3>1. queue'[m] = Tail(queue[l])
      BY <1>1, <1>2, <1>3, <2>2
    <3> QED
      BY <1>5, <1>9, <2>1, <2>2, <3>1
  <2>3. CASE ~(m = l /\ ~Overtakes(c))
    <3>1. queue'[m] = queue[m]
      BY <1>1, <1>2, <1>3, <2>3
    <3> QED
      BY <1>9, <1>10, <2>1, <2>3, <3>1
  <2> QED
    BY <2>2, <2>3
<1>12. Lined'
  BY <1>11 DEF Lined
<1> QED
  BY <1>7, <1>8, <1>12 DEF LocksInv

\* A lock given back is held no more.
LEMMA UnlockInv ==
    ASSUME LocksInv, NEW c \in Context, Unlock(c)
    PROVE  LocksInv'
<1>0. PICK l : l = Next1(c).lock
  OBVIOUS
<1>1. /\ Active(c) /\ Next1(c).act = "unlock" /\ todo' = [todo EXCEPT ![c] = Tail(@)]
      /\ readers' = [readers EXCEPT ![l] = @ \ {c}]
      /\ writer' = [writer EXCEPT ![l] = IF @ = c THEN NoOne ELSE @]
      /\ asking' = asking /\ queue' = queue /\ asleep' = asleep /\ c \notin asleep
  BY <1>0 DEF Unlock, Running
<1>2. /\ Disciplined' /\ todo' \in [Context -> Seq(Op)]
      /\ \A d \in Context : d # c => todo'[d] = todo[d]
      /\ l \in Lock /\ ~OwedAt(todo'[c], 1, l)
      /\ \A m \in Lock : m # l => (OwedAt(todo'[c], 1, m) <=> Holds(c, m))
  BY <1>0, <1>1, GoesOn
<1>3. /\ readers \in [Lock -> SUBSET Context] /\ writer \in [Lock -> Context \cup {NoOne}]
      /\ \A m \in Lock : writer[m] # NoOne => readers[m] = {}
      /\ \A d \in Context, m \in Lock : Holds(d, m) <=> OwedAt(todo[d], 1, m)
      /\ asking \subseteq Context /\ queue \in [Lock -> Seq(Context)]
  BY DEF LocksInv, Typed, Exclusive, Balanced
<1>4. /\ readers' \in [Lock -> SUBSET Context] /\ writer' \in [Lock -> Context \cup {NoOne}]
      /\ \A m \in Lock : writer'[m] # NoOne => readers'[m] = {}
  BY <1>1, <1>2, <1>3
<1>5. Typed' /\ Exclusive' /\ Sleepers'
  <2>1. asleep \subseteq Process /\ asleep \subseteq Context
    BY Contexts DEF LocksInv, Typed
  <2> QED
    BY <1>1, <1>2, <1>3, <1>4, <2>1, SleepersKept DEF LocksInv, Typed, Exclusive
<1>6. /\ ~Holds(c, l)'
      /\ \A m \in Lock : m # l => (Holds(c, m)' <=> Holds(c, m))
      /\ \A d \in Context, m \in Lock : d # c => (Holds(d, m)' <=> Holds(d, m))
  BY <1>1, <1>2, <1>3, Contexts DEF Holds
<1>7. Balanced'
  BY <1>2, <1>3, <1>6 DEF Balanced
<1>8. c \notin asking
  BY <1>1 DEF LocksInv, AskersWant
<1>9. Lined' /\ AskersWant'
  BY <1>1, <1>2, <1>3, <1>8, LinesKept DEF LocksInv
<1> QED
  BY <1>2, <1>5, <1>7, <1>9 DEF LocksInv

\* A process goes to sleep, or goes on, at the same place of its function.
LEMMA SleepInv ==
    ASSUME LocksInv, NEW c \in Context, Sleep(c) \/ Wake(c)
    PROVE  LocksInv'
<1>1. /\ UNCHANGED <<todo, asking, queue, readers, writer>>
      /\ \/ /\ asleep' = asleep \cup {c} /\ c \in Process
            /\ Active(c) /\ Next1(c).act = "unlock" /\ Next1(c).allocates
         \/ asleep' = asleep \ {c}
  BY DEF Sleep, Wake, Running
<1>2. Typed'
  BY <1>1 DEF LocksInv, Typed
<1>3. Lined' /\ AskersWant'
  BY <1>1, LinesKept DEF LocksInv
<1>4. Sleepers'
  BY <1>1 DEF LocksInv, Sleepers, Active, Next1
<1>5. \A d, m : Holds(d, m)' <=> Holds(d, m)
  BY <1>1 DEF Holds
<1> QED
  BY <1>1, <1>2, <1>3, <1>4, <1>5 DEF LocksInv, Balanced, Exclusive, Disciplined

\* The invariant is inductive.
LEMMA LocksNextInv == LocksInv /\ [LocksNext]_vars => LocksInv'
<1> SUFFICES ASSUME LocksInv, [LocksNext]_vars PROVE LocksInv'
  OBVIOUS
<1>1. CASE UNCHANGED vars
  <2>1. UNCHANGED <<todo, asking, queue, readers, writer, asleep>>
    BY <1>1 DEF vars
  <2>2. Lined' /\ AskersWant' /\ Sleepers'
    BY <2>1, LinesKept, SleepersKept DEF LocksInv
  <2>3. \A d, m : Holds(d, m)' <=> Holds(d, m)
    BY <2>1 DEF Holds
  <2> QED
    BY <2>1, <2>2, <2>3 DEF LocksInv, Typed, Balanced, Exclusive, Disciplined
<1>2. CASE LocksNext
  BY <1>2, EnterInv, TakeInv, SpinInv, GrantInv, UnlockInv, SleepInv DEF LocksNext
<1> QED
  BY <1>1, <1>2

\* The invariant holds always.
LEMMA LocksInvariant == LocksSpec => []LocksInv
  BY LocksInitInv, LocksNextInv, PTL DEF LocksSpec

\* The state of the locks is typed, every path gives back the locks it took, early
\* returns included, a writer is alone, and the lines hold those who wait.
THEOREM LocksTyped == LocksSpec => []LocksTypeOK
  BY LocksInvariant, InvTypes, PTL

--------------------------------------------------------------------------------
(* Deadlock *)

\* Who holds a lock asks for connLock or for none; a softirq that asks holds none.
LEMMA HoldersAsk ==
    ASSUME LocksInv, NEW c \in asking, NEW l \in Lock, Holds(c, l)
    PROVE  /\ Next1(c).lock = "connLock" /\ l \in {"FWRuleLock", "natRuleLock"}
           /\ c \notin Softirq
<1>1. /\ c \in Context /\ todo[c] # <<>> /\ Sound(todo[c]) /\ Next1(c) = todo[c][1]
      /\ 1 \in DOMAIN todo[c] /\ todo[c][1].act # "unlock" /\ OwedAt(todo[c], 1, l)
  <2>1. c \in Context /\ Active(c) /\ Next1(c).act # "unlock"
    BY DEF LocksInv, Typed, AskersWant
  <2>2. todo[c] # <<>> /\ Sound(todo[c]) /\ OwedAt(todo[c], 1, l)
    BY <2>1 DEF LocksInv, Disciplined, Balanced, Active
  <2>3. Head(todo[c]) = todo[c][1] /\ 1 \in DOMAIN todo[c]
    BY <2>2, FirstOp, HeadTailProperties, LenProperties, EmptySeq DEF Sound
  <2> QED
    BY <2>1, <2>2, <2>3 DEF Next1
<1>2. Next1(c).lock = "connLock" /\ l \in {"FWRuleLock", "natRuleLock"}
  BY <1>1 DEF Sound, Nests
<1>3. c \notin Softirq
  BY <1>1 DEF LocksInv, Disciplined, OneByOne
<1> QED
  BY <1>2, <1>3

\* No softirq asks for natRuleLock.
LEMMA SoftirqsAsk ==
    ASSUME LocksInv, NEW c \in asking, c \in Softirq
    PROVE  Next1(c).lock # "natRuleLock"
<1>1. c \in Context /\ Active(c) /\ todo[c] # <<>> /\ Sound(todo[c]) /\ OneByOne(todo[c])
  BY DEF LocksInv, Typed, AskersWant, Disciplined, Active
<1>2. Head(todo[c]) = todo[c][1] /\ 1 \in DOMAIN todo[c]
  BY <1>1, FirstOp, HeadTailProperties, LenProperties, EmptySeq DEF Sound
<1> QED
  BY <1>1, <1>2 DEF OneByOne, Next1

\* A softirq waits only by asking, and so does a process that has its CPU.
LEMMA OthersAsk ==
    ASSUME LocksInv, NEW c \in Waiting, ~Displaced(c)
    PROVE  c \in asking
  BY DEF Waiting, WaitsFor, Displaced

\* Who sleeps holds connLock, and waits for its CPU.
LEMMA SleepersHold ==
    ASSUME LocksInv, NEW c \in asleep
    PROVE  Holds(c, "connLock") /\ c \notin asking
<1>1. c \in Context /\ Active(c) /\ todo[c] # <<>> /\ Sound(todo[c])
      /\ Next1(c).act = "unlock" /\ Next1(c).allocates
  BY Contexts DEF LocksInv, Typed, Sleepers, Disciplined, Active
<1>2. Next1(c) \in Op /\ OwedAt(todo[c], 1, Next1(c).lock)
  BY <1>1, FirstOp DEF Next1
<1>3. Next1(c).lock = "connLock" /\ "connLock" \in Lock
  BY <1>1, <1>2, Operations DEF Lock
<1> QED
  BY <1>1, <1>2, <1>3 DEF LocksInv, Balanced, AskersWant

\* Where nobody in a deadlock holds a lock, nobody in it waits for that lock: of those
\* in the line one stands in front of the rest, and a reader that overtakes waits for
\* the holder alone.
LEMMA NobodyWaits ==
    ASSUME LocksInv, NEW D \in SUBSET Waiting, NEW l \in Lock,
           \A c \in D : ~Holds(c, l),
           \A c \in D : c \in asking /\ Next1(c).lock = l =>
                            \E d \in D : d \in WaitsFor(c) /\ d \notin Ahead(c)
    PROVE  \A c \in D : ~(c \in asking /\ Next1(c).lock = l)
<1> DEFINE A == {c \in D : c \in asking /\ Next1(c).lock = l}
           q == queue[l]
<1>1. /\ q \in Seq(Context) /\ DOMAIN q \subseteq Nat /\ IsInjective(q)
      /\ \A c : c \in ToSet(q) <=> c \in InLine(l)
  <2>1. q \in Seq(Context)
    BY DEF LocksInv, Typed
  <2> QED
    BY <2>1, LenProperties DEF LocksInv, Lined
<1>2. ASSUME NEW c \in A
      PROVE  \E d \in D : (d \in Counted(l) /\ Next1(c).act = "write") \/ Before(d, c, l)
  <2>1. PICK d \in D : d \in WaitsFor(c) /\ d \notin Ahead(c)
    OBVIOUS
  <2>3. ~(writer[l] = d) /\ d \notin readers[l]
    BY DEF Holds
  <2>4. \/ Next1(c).act = "write" /\ d \in Counted(l)
        \/ Before(d, c, l)
    BY <2>1, <2>3 DEF WaitsFor
  <2> QED
    BY <2>4
<1>3. ASSUME NEW c \in A PROVE ~Overtakes(c)
  <2> SUFFICES ASSUME Overtakes(c) PROVE FALSE
    OBVIOUS
  <2>1. Next1(c).act # "write"
    BY DEF Overtakes
  <2>2. PICK d \in D : Before(d, c, l)
    BY <1>2, <2>1
  <2>3. c \in ToSet(q)
    BY <2>2 DEF Before, ToSet
  <2> QED
    BY <1>1, <2>3 DEF InLine
<1>4. ASSUME NEW c \in A PROVE \E d \in A : Before(d, c, l)
  <2>1. PICK d \in D : (d \in Counted(l) /\ Next1(c).act = "write") \/ Before(d, c, l)
    BY <1>2
  <2>2. d \notin Counted(l)
    BY <1>3 DEF Counted
  <2>3. Before(d, c, l)
    BY <2>1, <2>2
  <2>4. d \in ToSet(q)
    BY <2>3 DEF Before, ToSet
  <2> QED
    BY <1>1, <2>3, <2>4 DEF InLine
<1> DEFINE I == {i \in DOMAIN q : q[i] \in A}
<1>5. ASSUME I # {} PROVE FALSE
  <2>1. PICK i \in I : \A j \in I : i <= j
    <3>1. I \in SUBSET Nat
      BY <1>1
    <3> HIDE DEF I
    <3> QED
      BY <1>5, <3>1, LeastNumber
  <2>2. PICK d \in A : Before(d, q[i], l)
    BY <1>4
  <2>3. PICK j, k \in DOMAIN q : j < k /\ q[j] = d /\ q[k] = q[i]
    BY <2>2 DEF Before
  <2>4. k = i
    BY <1>1, <2>3 DEF IsInjective
  <2>5. j \in I
    BY <2>3
  <2> QED
    BY <1>1, <2>1, <2>3, <2>4, <2>5
<1>6. ASSUME NEW c \in A PROVE FALSE
  <2>1. c \in ToSet(q)
    BY <1>1, <1>3 DEF InLine
  <2>2. PICK i \in DOMAIN q : q[i] = c
    BY <2>1 DEF ToSet
  <2> QED
    BY <1>5, <2>2
<1> QED
  BY <1>6

\* Every deadlock has a wedged process in it.
LEMMA DeadlockWedges == LocksInv => DeadlockNeedsLostCpu
<1> SUFFICES ASSUME LocksInv, NEW D \in SUBSET Waiting, Deadlocked(D),
                    \A c \in D : ~Wedged(c)
             PROVE  FALSE
  BY DEF DeadlockNeedsLostCpu
<1>1. D # {} /\ \A c \in D : c \in Context /\ \E d \in D : d \in WaitsFor(c)
  BY DEF Deadlocked, Waiting
<1>2. \A c \in D : Displaced(c) =>
          /\ c \notin Softirq
          /\ \A l \in Lock : Holds(c, l) => l = "natRuleLock"
          /\ \A l \in Lock : c \in asking /\ Next1(c).lock = l => l = "natRuleLock"
  <2>1. \A c : Displaced(c) => c \in Process
    BY DEF Displaced, Ahead
  <2> QED
    BY <2>1, Contexts DEF Wedged
<1>3. \A c \in D : ~Displaced(c) => c \in asking
  BY OthersAsk
\* A sleeper would hold connLock.
<1>3a. \A c \in D : c \notin asleep
  <2>1. "connLock" \in Lock /\ "connLock" # "natRuleLock"
    BY DEF Lock
  <2> QED
    BY <1>2, <1>3, <2>1, SleepersHold
<1>3b. \A c \in D : Active(c) => \A d \in Ahead(c) : d \in Softirq
  BY <1>3a, AheadOf
<1>4. ASSUME NEW c \in asking PROVE Next1(c).lock \in Lock
  <2>1. c \in Context /\ todo[c] # <<>> /\ Sound(todo[c])
    BY DEF LocksInv, Typed, AskersWant, Disciplined, Active
  <2> QED
    BY <2>1, FirstOp, Operations DEF Next1
\* connLock: who holds it asks for nothing.
<1>5. \A c \in D : ~(c \in asking /\ Next1(c).lock = "connLock")
  <2>1. "connLock" \in Lock
    BY DEF Lock
  <2>2. \A c \in D : ~Holds(c, "connLock")
    BY <1>2, <1>3, <2>1, HoldersAsk
  <2>3. \A c \in D : c \in asking /\ Next1(c).lock = "connLock" => ~Displaced(c)
    BY <1>2, <2>1
  <2> QED
    BY <1>1, <2>1, <2>2, <2>3, NobodyWaits DEF Displaced
\* Who asks for another lock holds none.
<1>6. \A c \in D : c \in asking => \A l \in Lock : ~Holds(c, l)
  BY <1>5, HoldersAsk
<1>7. ASSUME NEW l \in {"FWRuleLock", "logLock"}
      PROVE  \A c \in D : ~(c \in asking /\ Next1(c).lock = l)
  <2>1. l \in Lock /\ l # "natRuleLock"
    BY DEF Lock
  <2>2. \A c \in D : ~Holds(c, l)
    BY <1>2, <1>3, <1>6, <2>1
  <2>3. \A c \in D : c \in asking /\ Next1(c).lock = l => ~Displaced(c)
    BY <1>2, <2>1
  <2> QED
    BY <1>1, <2>1, <2>2, <2>3, NobodyWaits DEF Displaced
\* Only natRuleLock is left, which softirqs do not take.
<1>8. \A c \in D : c \in asking => Next1(c).lock = "natRuleLock"
  BY <1>4, <1>5, <1>7 DEF Lock
<1>9. \A c \in D : c \notin Softirq
  <2>1. \A c \in D : c \in Softirq => c \in asking
    BY <1>2, <1>3
  <2> QED
    BY <1>8, <2>1, SoftirqsAsk
<1>10. \A c \in D : c \in asking
  <2> SUFFICES ASSUME NEW c \in D, c \notin asking PROVE FALSE
    OBVIOUS
  <2>1. PICK d \in D : d \in WaitsFor(c)
    BY <1>1
  <2>2. Active(c) /\ d \in Ahead(c)
    BY <2>1 DEF WaitsFor
  <2>3. d \in Softirq
    BY <1>3b, <2>2
  <2> QED
    BY <1>9, <2>3
<1>11. \A c \in D : ~(c \in asking /\ Next1(c).lock = "natRuleLock")
  <2>1. "natRuleLock" \in Lock
    BY DEF Lock
  <2>2. \A c \in D : ~Holds(c, "natRuleLock")
    BY <1>6, <1>10, <2>1
  <2>3. \A c \in D : Active(c)
    BY <1>10 DEF LocksInv, AskersWant
  <2>4. \A c \in D : \E d \in D : d \in WaitsFor(c) /\ d \notin Ahead(c)
    BY <1>1, <1>3b, <1>9, <2>3
  <2> QED
    BY <2>1, <2>2, <2>4, NobodyWaits
<1> QED
  BY <1>1, <1>8, <1>10, <1>11

\* The module can deadlock only by a process that loses its CPU, to a softirq or while
\* it sleeps in createindex, and holds or waits for a lock the packets take: however
\* many CPUs, processes, writers in line and readers that overtake them, the locks as
\* the functions nest them are not enough.
THEOREM DeadlocksLoseCpus == LocksSpec => []DeadlockNeedsLostCpu
  BY LocksInvariant, DeadlockWedges, PTL

--------------------------------------------------------------------------------
(* Loading and unloading *)

\* What has been undone, or not yet done, at each step of mod_init and mod_exit; with it
\* the properties are inductive.
Undone ==
    /\ step \in {"netlink_release", "conn_exit", "free", "gone"} => hooked = {}
    /\ step \in {"conn_exit", "free", "gone"} => ~sock
    /\ step \in Unloading \cup {"gone"} => \A u \in Client : client[u] = "closed"
    /\ step \in Loading \cup {"gone"} => ~timer /\ callback = "idle"
    /\ step = "gone" => \A p \in Packet : inHook[p] = "none"
    /\ table \/ failed \/ step \in {"gone", "register", "netlink_init", "conn_init"}

LifeInv ==
    LifeTypeOK /\ NoTableExplained /\ OnlyTheCallbackOutlives /\ SweepsGoOn /\ Undone

\* The machine starts without the module.
LEMMA LifeInitInv == LifeInit => LifeInv
<1> SUFFICES ASSUME LifeInit PROVE LifeInv
  OBVIOUS
<1> USE DEF LifeInit, NoFault
<1>1. inHook \in [Packet -> HookNames \cup {"none"}]
  OBVIOUS
<1>2. client \in [Client -> {"closed", "open", "done"}]
  OBVIOUS
<1>3. LifeTypeOK
  BY <1>1, <1>2 DEF LifeTypeOK
<1>4. NoTableExplained
  BY DEF NoTableExplained
<1>5. OnlyTheCallbackOutlives
  BY DEF OnlyTheCallbackOutlives
<1>6. SweepsGoOn /\ Undone
  BY DEF SweepsGoOn, Undone, Loading, Unloading
<1> QED
  BY <1>3, <1>4, <1>5, <1>6 DEF LifeInv

\* mod_init keeps the invariant.
LEMMA LoadInv == LifeInv /\ fault = NoFault /\ Load => LifeInv'
<1> SUFFICES ASSUME LifeInv, fault = NoFault, Load PROVE LifeInv'
  OBVIOUS
<1> USE DEF LifeInv, LifeTypeOK, NoTableExplained, OnlyTheCallbackOutlives,
         SweepsGoOn, Undone, NoFault, Loading, Unloading
<1>1. CASE Insmod
  BY <1>1 DEF Insmod
<1>2. CASE Register
  <2>1. hooked' \subseteq HookNames
    BY <1>2 DEF Register, HookNames
  <2> QED
    BY <1>2, <2>1 DEF Register
<1>3. CASE NetlinkInit
  BY <1>3 DEF NetlinkInit
<1>4. CASE ConnInit
  BY <1>4 DEF ConnInit
<1>5. CASE AddTimer
  BY <1>5 DEF AddTimer
<1> QED
  BY <1>1, <1>2, <1>3, <1>4, <1>5 DEF Load

\* mod_exit and what precedes and follows it keep the invariant.
LEMMA UnloadInv == LifeInv /\ fault = NoFault /\ (Rmmod \/ Unload) => LifeInv'
<1> SUFFICES ASSUME LifeInv, fault = NoFault, Rmmod \/ Unload PROVE LifeInv'
  OBVIOUS
<1> USE DEF LifeInv, LifeTypeOK, NoTableExplained, OnlyTheCallbackOutlives,
         SweepsGoOn, Undone, NoFault, Loading, Unloading
<1>1. CASE Rmmod
  BY <1>1 DEF Rmmod
<1>2. CASE Unregister
  <2>1. hooked' \subseteq HookNames
    BY <1>2 DEF Unregister
  <2>2. step' = "netlink_release" => hooked' = {}
    <3> SUFFICES ASSUME step' = "netlink_release" PROVE hooked' = {}
      OBVIOUS
    <3>1. hooked = {Hooks[j] : j \in 3..3} /\ hooked' = hooked \ {Hooks[3]}
      BY <1>2 DEF Unregister
    <3>2. \A j \in 3..3 : j = 3
      OBVIOUS
    <3> QED
      BY <3>1, <3>2
  <2> QED
    BY <1>2, <2>1, <2>2 DEF Unregister
<1>3. CASE NetlinkRelease
  BY <1>3 DEF NetlinkRelease
<1>4. CASE ConnExit
  BY <1>4 DEF ConnExit
<1>5. CASE Free
  BY <1>5 DEF Free
<1> QED
  BY <1>1, <1>2, <1>3, <1>4, <1>5 DEF Unload

\* Packets and clients keep the invariant.
LEMMA VisitorInv ==
    ASSUME LifeInv, fault = NoFault,
           \/ \E p \in Packet : EnterHook(p) \/ LeaveHook(p)
           \/ \E u \in Client : OpenSocket(u) \/ Request(u) \/ CloseSocket(u)
    PROVE  LifeInv'
<1> USE DEF LifeInv, LifeTypeOK, NoTableExplained, OnlyTheCallbackOutlives,
         SweepsGoOn, Undone, NoFault, Loading, Unloading
<1>1. ASSUME NEW p \in Packet, EnterHook(p) PROVE LifeInv'
  BY <1>1 DEF EnterHook
<1>2. ASSUME NEW p \in Packet, LeaveHook(p) PROVE LifeInv'
  <2>1. CASE table
    BY <1>2, <2>1 DEF LeaveHook
  <2>2. CASE ~table
    <3>1. fault' = <<"no table", "packet">>
      BY <1>2, <2>2 DEF LeaveHook
    <3>2. fault' \in {<<"no table", w>> : w \in {"packet", "request", "timer"}}
      BY <3>1
    <3>3. fault'[2] # "timer"
      BY <3>1
    <3>4. LifeTypeOK'
      BY <1>2, <2>2, <3>2 DEF LeaveHook
    <3>5. NoTableExplained'
      BY <1>2, <2>2, <3>3 DEF LeaveHook
    <3>6. OnlyTheCallbackOutlives' /\ SweepsGoOn' /\ Undone'
      BY <1>2, <2>2 DEF LeaveHook
    <3> QED
      BY <3>4, <3>5, <3>6
  <2> QED
    BY <2>1, <2>2
<1>3. ASSUME NEW u \in Client, OpenSocket(u) PROVE LifeInv'
  BY <1>3 DEF OpenSocket
<1>4. ASSUME NEW u \in Client, Request(u) PROVE LifeInv'
  <2>1. CASE fault' = fault
    BY <1>4, <2>1 DEF Request
  <2>2. CASE fault' # fault
    <3>1. ~table /\ client' = client /\ fault' = <<"no table", "request">>
      BY <1>4, <2>2 DEF Request
    <3>2. fault' \in {<<"no table", w>> : w \in {"packet", "request", "timer"}}
      BY <3>1
    <3>3. fault'[2] # "timer"
      BY <3>1
    <3>4. LifeTypeOK'
      BY <1>4, <3>1, <3>2 DEF Request
    <3>5. NoTableExplained'
      BY <1>4, <3>1, <3>3 DEF Request
    <3>6. OnlyTheCallbackOutlives' /\ SweepsGoOn' /\ Undone'
      BY <1>4, <3>1 DEF Request
    <3> QED
      BY <3>4, <3>5, <3>6
  <2> QED
    BY <2>1, <2>2
<1>5. ASSUME NEW u \in Client, CloseSocket(u) PROVE LifeInv'
  BY <1>5 DEF CloseSocket
<1> QED
  BY <1>1, <1>2, <1>3, <1>4, <1>5

\* The timer keeps the invariant.
LEMMA TimerInv == LifeInv /\ fault = NoFault /\ (TimerFires \/ Callback \/ StrayFires) => LifeInv'
<1> SUFFICES ASSUME LifeInv, fault = NoFault, TimerFires \/ Callback \/ StrayFires
             PROVE  LifeInv'
  OBVIOUS
<1> USE DEF LifeInv, LifeTypeOK, NoTableExplained, OnlyTheCallbackOutlives,
         SweepsGoOn, Undone, NoFault, Loading, Unloading
<1>1. CASE TimerFires
  BY <1>1 DEF TimerFires
<1>2. CASE Sweep
  BY <1>2 DEF Sweep
<1>3. CASE Rearm
  BY <1>3 DEF Rearm
<1>4. CASE StrayFires
  BY <1>4 DEF StrayFires
<1> QED
  BY <1>1, <1>2, <1>3, <1>4 DEF Callback

\* The invariant holds always.
LEMMA LifeInvariant == LifeSpec => []LifeInv
<1>1. ASSUME LifeInv, UNCHANGED lifeVars PROVE LifeInv'
  <2>1. LifeTypeOK'
    BY <1>1 DEF LifeInv, LifeTypeOK, lifeVars
  <2>2. NoTableExplained'
    BY <1>1 DEF LifeInv, NoTableExplained, lifeVars
  <2>3. OnlyTheCallbackOutlives' /\ SweepsGoOn' /\ Undone'
    BY <1>1 DEF LifeInv, OnlyTheCallbackOutlives, SweepsGoOn, Undone, lifeVars
  <2> QED
    BY <2>1, <2>2, <2>3 DEF LifeInv
<1>2. LifeInv /\ [LifeNext]_lifeVars => LifeInv'
  BY <1>1, LoadInv, UnloadInv, VisitorInv, TimerInv DEF LifeNext
<1> QED
  BY <1>2, LifeInitInv, PTL DEF LifeSpec

\* Every variable has its type and the timer is never pending while its callback runs.
THEOREM LifeTyped == LifeSpec => []LifeTypeOK
<1>1. LifeInv => LifeTypeOK
  BY DEF LifeInv
<1> QED
  BY <1>1, LifeInvariant, PTL

\* A read through a NULL ctable happens in the window before conn_init, or after a failed
\* allocation.
THEOREM WindowOnly == LifeSpec => []NoTableExplained
<1>1. LifeInv => NoTableExplained
  BY DEF LifeInv
<1> QED
  BY <1>1, LifeInvariant, PTL

\* Nothing outlives the module but a timer whose callback ran when conn_exit came.
THEOREM OnlyTheTimerOutlives == LifeSpec => []OnlyTheCallbackOutlives
<1>1. LifeInv => OnlyTheCallbackOutlives
  BY DEF LifeInv
<1> QED
  BY <1>1, LifeInvariant, PTL

\* While the module is up the timer is pending or about to be.
THEOREM TimerStaysArmed == LifeSpec => []SweepsGoOn
<1>1. LifeInv => SweepsGoOn
  BY DEF LifeInv
<1> QED
  BY <1>1, LifeInvariant, PTL

================================================================================
