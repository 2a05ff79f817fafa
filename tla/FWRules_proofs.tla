----------------------------- MODULE FWRules_proofs -----------------------------
(* The list of filter rules, for any number of rules, names, packets and requests. *)
EXTENDS FWRules, SequenceLemmas, FiniteSetTheorems

\* A dead reader keeps FWRuleLock, so nobody holds it for writing then; and nobody does
\* after a dump has written past its buffer.
WriterAlive == writer # NoAdmin => ~leaked /\ ~overrun

RulesInv == RulesTypeOK /\ ListSound /\ WriterAlive

--------------------------------------------------------------------------------
(* The steps *)

\* The firewall starts without rules.
LEMMA RulesInitInv == RulesInit => RulesInv
<1> SUFFICES ASSUME RulesInit PROVE RulesInv
  OBVIOUS
<1> USE DEF RulesInit
<1>1. ruleList \in Seq(Cell) /\ Positions = {}
  BY DEF Positions
<1>2. RulesTypeOK
  BY <1>1 DEF RulesTypeOK, NotForming
<1>3. ListSound
  BY <1>1 DEF ListSound
<1> QED
  BY <1>2, <1>3 DEF RulesInv, WriterAlive

\* appendFWRules puts the rule's cell where it found its place.
LEMMA InsertedList ==
    ASSUME RulesTypeOK, NEW a \in Admin, NEW c \in Cell, NEW r \in RuleValue,
           NEW p \in 1..(Len(ruleList) + 1), Insert(a, c, r, p)
    PROVE  /\ ruleList' \in Seq(Cell) /\ Len(ruleList') = Len(ruleList) + 1
           /\ \A j \in 1..(Len(ruleList) + 1) :
                  ruleList'[j] = IF j < p THEN ruleList[j]
                                 ELSE IF j = p THEN c ELSE ruleList[j - 1]
<1> DEFINE q == ruleList
           t == InsertAt(ruleList, p, c)
<1>1. q \in Seq(Cell)
  BY DEF RulesTypeOK
<1>2. /\ t \in Seq(Cell) /\ Len(t) = Len(q) + 1
      /\ \A j \in 1..(Len(q) + 1) :
             t[j] = IF j < p THEN q[j] ELSE IF j = p THEN c ELSE q[j - 1]
  BY <1>1, InsertAtFacts
<1>3. ruleList' = t
  BY DEF Insert
<1> QED
  BY <1>2, <1>3, Zenon

\* appendFWRules, wherever it puts the rule, links one that was not allocated.
LEMMA InsertInv ==
    ASSUME RulesInv, NEW a \in Admin, NEW c \in Cell, NEW r \in RuleValue,
           NEW p \in 1..(Len(ruleList) + 1), Insert(a, c, r, p)
    PROVE  RulesInv'
<1> DEFINE q == ruleList
           t == ruleList'
<1>1. q \in Seq(Cell) /\ Len(q) \in Nat /\ DOMAIN q = 1..Len(q)
  BY LenProperties DEF RulesInv, RulesTypeOK
<1>2. /\ t \in Seq(Cell) /\ Len(t) = Len(q) + 1
      /\ \A j \in 1..(Len(q) + 1) :
             t[j] = IF j < p THEN q[j] ELSE IF j = p THEN c ELSE q[j - 1]
  BY InsertedList DEF RulesInv
<1>3. DOMAIN t = 1..(Len(q) + 1)
  BY <1>1, <1>2, LenProperties
<1>4. rule[c] = NoRule /\ rule' = [rule EXCEPT ![c] = r] /\ condemned' = condemned
  BY DEF Insert
<1>5. r # NoRule
  BY RulesAssumption
<1>6. \A i \in 1..Len(q) : q[i] # c
  BY <1>1, <1>4 DEF RulesInv, ListSound, Positions
<1> DEFINE from(j) == IF j < p THEN j ELSE j - 1
           to(j) == IF j < p THEN j ELSE j + 1
<1>7. \A j \in 1..(Len(q) + 1) : j # p => from(j) \in 1..Len(q) /\ t[j] = q[from(j)]
  BY <1>1, <1>2
<1>8. \A i \in 1..Len(q) : to(i) \in 1..(Len(q) + 1) /\ to(i) # p /\ from(to(i)) = i
  BY <1>1
<1>9. t[p] = c
  BY <1>1, <1>2
<1>10. \A i, j \in 1..(Len(q) + 1) : i # p /\ j # p /\ from(i) = from(j) => i = j
  BY <1>1
<1>11. \A i, j \in 1..Len(q) : q[i] = q[j] => i = j
  BY <1>1 DEF RulesInv, ListSound, Positions
<1> HIDE DEF from, to
<1>12. \A i, j \in DOMAIN t : t[i] = t[j] => i = j
  <2> SUFFICES ASSUME NEW i \in 1..(Len(q) + 1), NEW j \in 1..(Len(q) + 1), t[i] = t[j]
               PROVE  i = j
    BY <1>3
  <2>1. CASE i = p /\ j = p
    BY <2>1
  <2>2. CASE i # p /\ j # p
    BY <2>2, <1>7, <1>10, <1>11
  <2>3. CASE (i = p) # (j = p)
    BY <2>3, <1>6, <1>7, <1>9
  <2> QED
    BY <2>1, <2>2, <2>3
<1>13. \A d \in Cell : (\E i \in DOMAIN t : t[i] = d) <=> d = c \/ \E i \in 1..Len(q) : q[i] = d
  <2>1. ASSUME NEW d \in Cell, NEW i \in 1..Len(q), q[i] = d
        PROVE  \E j \in DOMAIN t : t[j] = d
    BY <2>1, <1>3, <1>7, <1>8
  <2>2. ASSUME NEW d \in Cell, NEW i \in DOMAIN t, t[i] = d, d # c
        PROVE  \E j \in 1..Len(q) : q[j] = d
    BY <2>2, <1>3, <1>7, <1>9
  <2> QED
    BY <2>1, <2>2, <1>3, <1>9
<1>14. RulesTypeOK'
  BY <1>2, <1>4 DEF RulesInv, RulesTypeOK, Insert, Granted
<1>15. \A d \in Cell : rule'[d] # NoRule <=> d = c \/ rule[d] # NoRule
  BY <1>4, <1>5 DEF RulesInv, RulesTypeOK
<1>16. ListSound'
  BY <1>1, <1>4, <1>12, <1>13, <1>15 DEF RulesInv, RulesTypeOK, ListSound, Positions
<1>17. WriterAlive'
  BY DEF RulesInv, WriterAlive, Insert, Granted
<1> QED
  BY <1>14, <1>16, <1>17 DEF RulesInv

\* removeFWRules takes the lock; what it means to unlink is linked.
LEMMA StartInv ==
    ASSUME RulesInv, NEW a \in Admin, NEW n \in Name, RemoveStart(a, n)
    PROVE  RulesInv'
<1>1. ruleList \in Seq(Cell) /\ DOMAIN ruleList = 1..Len(ruleList)
  BY LenProperties DEF RulesInv, RulesTypeOK
<1>2. \A i \in Positions : ruleList[i] \in Cell
  BY <1>1 DEF Positions
<1>3. Unlinks(n) \subseteq Positions
  BY DEF Unlinks
<1>4. \A d \in condemned' : d \in Cell /\ \E i \in Positions : ruleList[i] = d
  BY <1>2, <1>3 DEF RemoveStart
<1>5. /\ UNCHANGED <<ruleList, rule, leaked, formHead, overrun>>
      /\ writer' = a /\ waiting' = waiting \ {a} /\ ~leaked /\ ~overrun
  BY DEF RemoveStart, Granted, CanWrite
<1>6. RulesTypeOK'
  BY <1>4, <1>5 DEF RulesInv, RulesTypeOK
<1>7. ListSound'
  BY <1>4, <1>5 DEF RulesInv, RulesTypeOK, ListSound, Positions
<1> QED
  BY <1>5, <1>6, <1>7 DEF RulesInv, WriterAlive

\* One turn of its loops frees the rule that it unlinks, and no other.
LEMMA RemoveInv ==
    ASSUME RulesInv, NEW a \in Admin, RemoveOne(a)
    PROVE  RulesInv'
<1> DEFINE q == ruleList
           t == ruleList'
<1>1. q \in Seq(Cell) /\ Len(q) \in Nat /\ DOMAIN q = 1..Len(q)
  BY LenProperties DEF RulesInv, RulesTypeOK
<1>2. PICK p \in 1..Len(q) :
          /\ t = RemoveAt(q, p)
          /\ rule' = [rule EXCEPT ![q[p]] = NoRule]
          /\ condemned' = condemned \ {q[p]}
  BY <1>1 DEF RemoveOne, Positions
<1>3. /\ t \in Seq(Cell) /\ Len(t) = Len(q) - 1
      /\ \A j \in 1..(Len(q) - 1) : t[j] = IF j < p THEN q[j] ELSE q[j + 1]
  BY <1>1, <1>2, RemoveAtFacts
<1>4. DOMAIN t = 1..(Len(q) - 1)
  BY <1>1, <1>3, LenProperties
<1> DEFINE from(j) == IF j < p THEN j ELSE j + 1
           to(j) == IF j < p THEN j ELSE j - 1
<1>5. \A j \in DOMAIN t : from(j) \in 1..Len(q) /\ from(j) # p /\ t[j] = q[from(j)]
  BY <1>1, <1>3, <1>4
<1>6. \A i \in 1..Len(q) : i # p => to(i) \in DOMAIN t /\ from(to(i)) = i
  BY <1>1, <1>4
<1>7. \A i, j \in DOMAIN t : from(i) = from(j) => i = j
  BY <1>1, <1>4
<1>8. \A i, j \in 1..Len(q) : q[i] = q[j] => i = j
  BY <1>1 DEF RulesInv, ListSound, Positions
<1>9. q[p] \in Cell
  BY <1>1
<1> HIDE DEF from, to
<1>10. \A i, j \in DOMAIN t : t[i] = t[j] => i = j
  BY <1>5, <1>7, <1>8
<1>11. \A d \in Cell : (\E i \in DOMAIN t : t[i] = d) <=> d # q[p] /\ \E i \in 1..Len(q) : q[i] = d
  <2>1. ASSUME NEW d \in Cell, NEW i \in 1..Len(q), q[i] = d, d # q[p]
        PROVE  \E j \in DOMAIN t : t[j] = d
    BY <2>1, <1>5, <1>6
  <2>2. ASSUME NEW d \in Cell, NEW i \in DOMAIN t, t[i] = d
        PROVE  d # q[p] /\ \E j \in 1..Len(q) : q[j] = d
    BY <2>2, <1>5, <1>8
  <2> QED
    BY <2>1, <2>2
<1>12. RulesTypeOK'
  BY <1>2, <1>3, <1>9 DEF RulesInv, RulesTypeOK, RemoveOne
<1>13. \A d \in Cell : rule'[d] # NoRule <=> d # q[p] /\ rule[d] # NoRule
  BY <1>2, <1>9 DEF RulesInv, RulesTypeOK
<1>14. ListSound'
  BY <1>1, <1>2, <1>10, <1>11, <1>13 DEF RulesInv, RulesTypeOK, ListSound, Positions
<1>15. WriterAlive'
  BY DEF RulesInv, WriterAlive, RemoveOne
<1> QED
  BY <1>12, <1>14, <1>15 DEF RulesInv

\* What leaves the list and the rules alone keeps the invariant.
LEMMA RestInv ==
    ASSUME RulesInv, UNCHANGED <<ruleList, rule, condemned>>, RulesTypeOK', WriterAlive'
    PROVE  RulesInv'
  BY DEF RulesInv, ListSound, Positions

\* What a dump writes past its buffer may change what a linked rule says; it allocates
\* and frees none.
LEMMA OverrunInv ==
    ASSUME RulesInv, NEW a \in Admin, FormOverruns(a)
    PROVE  /\ RulesInv'
           /\ \A c \in Cell : rule'[c] # rule[c] => rule[c] # NoRule /\ rule'[c] # NoRule
<1>1. /\ UNCHANGED <<ruleList, writer, condemned, waiting, leaked>>
      /\ overrun' = TRUE /\ writer = NoAdmin
      /\ formHead' = [formHead EXCEPT ![a] = NotForming]
  BY DEF FormOverruns, FormDone, CanRead, CanReadInSoftirq
<1>2. \A i \in Positions : ruleList[i] \in Cell /\ rule[ruleList[i]] # NoRule
  <2>1. ruleList \in Seq(Cell)
    BY DEF RulesInv, RulesTypeOK
  <2>2. \A i \in Positions : ruleList[i] \in Cell
    BY <2>1, LenProperties DEF Positions
  <2> QED
    BY <2>2 DEF RulesInv, ListSound
<1>3. NoRule \notin RuleValue
  BY RulesAssumption
<1>4. /\ rule' \in [Cell -> RuleValue \cup {NoRule}]
      /\ \A c \in Cell : rule'[c] # rule[c] => rule[c] # NoRule /\ rule'[c] # NoRule
  <2>1. CASE rule' = rule
    BY <2>1 DEF RulesInv, RulesTypeOK
  <2>2. ASSUME NEW i \in Positions, NEW r \in RuleValue,
               rule' = [rule EXCEPT ![ruleList[i]] = r]
        PROVE  <1>4!1 /\ <1>4!2
    BY <1>2, <1>3, <2>2 DEF RulesInv, RulesTypeOK
  <2> QED
    BY <2>1, <2>2 DEF FormOverruns
<1>5. RulesTypeOK'
  BY <1>1, <1>4 DEF RulesInv, RulesTypeOK, NotForming
<1>6. \A c \in Cell : rule'[c] # NoRule <=> rule[c] # NoRule
  BY <1>4
<1>7. ListSound'
  BY <1>1, <1>6 DEF RulesInv, RulesTypeOK, ListSound, Positions
<1> QED
  BY <1>1, <1>4, <1>5, <1>7 DEF RulesInv, WriterAlive

\* Every step keeps the invariant.
LEMMA RulesNextInv == RulesInv /\ [RulesNext]_ruleVars => RulesInv'
<1> SUFFICES ASSUME RulesInv, [RulesNext]_ruleVars PROVE RulesInv'
  OBVIOUS
<1>1. ruleList \in Seq(Cell) /\ Len(ruleList) \in Nat /\ DOMAIN ruleList = 1..Len(ruleList)
  BY LenProperties DEF RulesInv, RulesTypeOK
<1>2. ASSUME NEW a \in Admin, NEW c \in Cell, NEW r \in RuleValue,
             NEW after \in Name \cup {NoName}, AppendAtHead(a, c, r, after)
      PROVE  RulesInv'
  BY <1>1, <1>2, InsertInv DEF AppendAtHead
<1>3. ASSUME NEW a \in Admin, NEW c \in Cell, NEW r \in RuleValue,
             NEW after \in Name \cup {NoName}, AppendAfter(a, c, r, after)
      PROVE  RulesInv'
  <2>1. PICK i \in Positions : Insert(a, c, r, i + 1)
    BY <1>3 DEF AppendAfter, Named
  <2>2. i + 1 \in 1..(Len(ruleList) + 1)
    BY <1>1 DEF Positions
  <2> QED
    BY <2>1, <2>2, InsertInv
<1>4. ASSUME NEW a \in Admin, FormHead(a) PROVE RulesInv'
  <2>1. Head1 \in Cell \cup {NoCell}
    <3>1. ruleList # <<>> => 1 \in DOMAIN ruleList
      BY <1>1, EmptySeq
    <3> QED
      BY <1>1, <3>1 DEF Head1
  <2> QED
    BY <1>4, <2>1, RestInv DEF FormHead, RulesInv, RulesTypeOK, WriterAlive
<1>5. ASSUME NEW a \in Admin, RemoveDone(a) PROVE RulesInv'
  BY <1>5, RestInv DEF RemoveDone, RulesInv, RulesTypeOK, WriterAlive
<1>6. ASSUME NEW a \in Admin, FormAllFWRules(a) \/ FormFaults(a) PROVE RulesInv'
  BY <1>6, RestInv
  DEF FormAllFWRules, FormFaults, FormDone, CanRead, CanReadInSoftirq,
      RulesInv, RulesTypeOK, WriterAlive, NotForming
<1>7. ASSUME NEW k \in Key, MatchKills(k) PROVE RulesInv'
  BY <1>7, RestInv
  DEF MatchKills, CanRead, CanReadInSoftirq, RulesInv, RulesTypeOK, WriterAlive
<1>8. CASE UNCHANGED ruleVars
  BY <1>8, RestInv DEF ruleVars, RulesInv, RulesTypeOK, WriterAlive
<1>9. ASSUME NEW a \in Admin, NEW n \in Name, AppendFails(a, n)
      PROVE  RulesInv'
  BY <1>9, RestInv
  DEF AppendFails, WaitToWrite, Granted, RulesInv, RulesTypeOK, WriterAlive
<1>10. ASSUME NEW a \in Admin, WaitToWrite(a) PROVE RulesInv'
  BY <1>10, RestInv DEF WaitToWrite, RulesInv, RulesTypeOK, WriterAlive
<1> QED
  BY <1>2, <1>3, <1>4, <1>5, <1>6, <1>7, <1>8, <1>9, <1>10, StartInv, RemoveInv, OverrunInv
  DEF RulesNext, Request, Serve

\* The invariant holds always.
LEMMA RulesInvariant == RulesSpec => []RulesInv
  BY RulesInitInv, RulesNextInv, PTL DEF RulesSpec

--------------------------------------------------------------------------------
(* Verdicts *)

\* An insertion changes the verdict on a packet only if the new rule decides about it.
LEMMA InsertStable ==
    ASSUME RulesInv, NEW a \in Admin, NEW c \in Cell, NEW r \in RuleValue,
           NEW p \in 1..(Len(ruleList) + 1), Insert(a, c, r, p),
           NEW k \in Key, NEW d \in Cell, Decides(k, d), ~Decides(k, c)'
    PROVE  Decides(k, d)'
<1> DEFINE q == ruleList
           t == ruleList'
           Hits(j) == k \in rule[q[j]].covers
           HitsNext(j) == k \in rule'[t[j]].covers
<1>1. q \in Seq(Cell) /\ Len(q) \in Nat /\ DOMAIN q = 1..Len(q)
  BY LenProperties DEF RulesInv, RulesTypeOK
<1>2. /\ t \in Seq(Cell) /\ Len(t) = Len(q) + 1
      /\ \A j \in 1..(Len(q) + 1) :
             t[j] = IF j < p THEN q[j] ELSE IF j = p THEN c ELSE q[j - 1]
  BY InsertedList DEF RulesInv
<1>3. DOMAIN t = 1..(Len(q) + 1)
  BY <1>2, LenProperties
<1>4. PICK i \in 1..Len(q) : d = q[i] /\ Hits(i) /\ \A j \in 1..Len(q) : Hits(j) => i <= j
  BY <1>1 DEF Decides, FirstMatch, Positions
<1>5. \A j \in 1..Len(q) : q[j] \in Cell /\ q[j] # c
  BY <1>1 DEF RulesInv, ListSound, Positions, Insert
<1>6. \A e \in Cell : e # c => rule'[e] = rule[e]
  BY DEF Insert, RulesInv, RulesTypeOK
<1>7. /\ \A j \in 1..(Len(q) + 1) : j < p => j \in 1..Len(q) /\ (HitsNext(j) <=> Hits(j))
      /\ \A j \in 1..(Len(q) + 1) : j > p => j - 1 \in 1..Len(q) /\ (HitsNext(j) <=> Hits(j - 1))
  <2>1. ASSUME NEW j \in 1..(Len(q) + 1), j < p
        PROVE  j \in 1..Len(q) /\ (HitsNext(j) <=> Hits(j))
    <3>1. j \in 1..Len(q) /\ t[j] = q[j]
      BY <2>1, <1>1, <1>2
    <3> QED
      BY <3>1, <1>5, <1>6
  <2>2. ASSUME NEW j \in 1..(Len(q) + 1), j > p
        PROVE  j - 1 \in 1..Len(q) /\ (HitsNext(j) <=> Hits(j - 1))
    <3>1. j - 1 \in 1..Len(q) /\ t[j] = q[j - 1]
      BY <2>2, <1>1, <1>2
    <3> QED
      BY <3>1, <1>5, <1>6
  <2> QED
    BY <2>1, <2>2
<1> DEFINE n == IF i < p THEN i ELSE i + 1
<1>8. n \in 1..(Len(q) + 1) /\ t[n] = d /\ HitsNext(n)
  BY <1>1, <1>2, <1>4, <1>7
<1> HIDE DEF Hits, HitsNext
<1>9. HitsNext(p) => i < p
  <2> SUFFICES ASSUME HitsNext(p), ~(i < p) PROVE FALSE
    OBVIOUS
  <2>1. \A j \in 1..(Len(q) + 1) : HitsNext(j) => p <= j
    BY <1>1, <1>4, <1>7
  <2>2. p \in DOMAIN t /\ t[p] = c
    BY <1>1, <1>2, <1>3
  <2>3. Decides(k, c)'
    BY <1>3, <2>1, <2>2 DEF Decides, FirstMatch, Positions, HitsNext
  <2> QED
    BY <2>3
<1>10. \A j \in 1..(Len(q) + 1) : HitsNext(j) => n <= j
  BY <1>1, <1>4, <1>7, <1>9
<1> QED
  BY <1>3, <1>8, <1>10 DEF Decides, FirstMatch, Positions, HitsNext

\* Unlinking a rule changes the verdict on a packet only if that rule decided.
LEMMA RemoveStable ==
    ASSUME RulesInv, NEW a \in Admin, RemoveOne(a),
           NEW k \in Key, NEW d \in Cell, Decides(k, d), rule'[d] # NoRule
    PROVE  Decides(k, d)'
<1> DEFINE q == ruleList
           t == ruleList'
           Hits(j) == k \in rule[q[j]].covers
           HitsNext(j) == k \in rule'[t[j]].covers
<1>1. q \in Seq(Cell) /\ Len(q) \in Nat /\ DOMAIN q = 1..Len(q)
  BY LenProperties DEF RulesInv, RulesTypeOK
<1>2. PICK p \in 1..Len(q) :
          t = RemoveAt(q, p) /\ rule' = [rule EXCEPT ![q[p]] = NoRule]
  BY <1>1 DEF RemoveOne, Positions
<1>3. /\ t \in Seq(Cell) /\ Len(t) = Len(q) - 1
      /\ \A j \in 1..(Len(q) - 1) : t[j] = IF j < p THEN q[j] ELSE q[j + 1]
  BY <1>1, <1>2, RemoveAtFacts
<1>4. DOMAIN t = 1..(Len(q) - 1)
  BY <1>1, <1>3, LenProperties
<1>5. PICK i \in 1..Len(q) : d = q[i] /\ Hits(i) /\ \A j \in 1..Len(q) : Hits(j) => i <= j
  BY <1>1 DEF Decides, FirstMatch, Positions
<1>6. i # p
  BY <1>2, <1>5 DEF RulesInv, RulesTypeOK
<1>7. \A j \in 1..Len(q) : j # p => q[j] \in Cell /\ q[j] # q[p]
  BY <1>1 DEF RulesInv, ListSound, Positions
<1>8. \A j \in 1..Len(q) : j # p => rule'[q[j]] = rule[q[j]]
  BY <1>2, <1>7 DEF RulesInv, RulesTypeOK
<1>9. \A j \in 1..(Len(q) - 1) :
          IF j < p THEN j \in 1..Len(q) /\ (HitsNext(j) <=> Hits(j))
                   ELSE j + 1 \in 1..Len(q) /\ (HitsNext(j) <=> Hits(j + 1))
  <2> TAKE j \in 1..(Len(q) - 1)
  <2>1. CASE j < p
    <3>1. j \in 1..Len(q) /\ j # p /\ t[j] = q[j]
      BY <1>1, <1>3, <2>1
    <3>2. rule'[t[j]] = rule[q[j]]
      BY <1>8, <3>1
    <3> QED
      BY <2>1, <3>1, <3>2
  <2>2. CASE ~(j < p)
    <3>1. j + 1 \in 1..Len(q) /\ j + 1 # p /\ t[j] = q[j + 1]
      BY <1>1, <1>3, <2>2
    <3>2. rule'[t[j]] = rule[q[j + 1]]
      BY <1>8, <3>1
    <3> QED
      BY <2>2, <3>1, <3>2
  <2> QED
    BY <2>1, <2>2
<1> DEFINE n == IF i < p THEN i ELSE i - 1
<1>10. n \in 1..(Len(q) - 1) /\ t[n] = d /\ HitsNext(n)
  BY <1>1, <1>3, <1>5, <1>6, <1>9
<1> HIDE DEF Hits, HitsNext
<1>11. \A j \in 1..(Len(q) - 1) : HitsNext(j) => n <= j
  BY <1>1, <1>5, <1>6, <1>9
<1> QED
  BY <1>4, <1>10, <1>11 DEF Decides, FirstMatch, Positions, HitsNext

--------------------------------------------------------------------------------
(* The theorems *)

\* Every variable has its type, for any number of rules and requests.
THEOREM RulesTyped == RulesSpec => []RulesTypeOK
<1>1. RulesInv => RulesTypeOK
  BY DEF RulesInv
<1> QED
  BY <1>1, RulesInvariant, PTL

\* The list has no cycle and holds exactly the allocated rules, however appends, removals,
\* dumps and dying readers interleave.
THEOREM RulesSound == RulesSpec => []ListSound
<1>1. RulesInv => ListSound
  BY DEF RulesInv
<1> QED
  BY <1>1, RulesInvariant, PTL

\* Counting from a rule that another request put behind the head, or unlinked, comes out
\* short: only then is a dump's buffer too small.
LEMMA OverrunsOvertaken ==
    ASSUME RulesInv, NEW a \in Admin, FormOverruns(a)
    PROVE  a \in Overtaken
<1>1. formHead[a] # NotForming /\ CountsFewer(formHead[a])
  BY DEF FormOverruns, FormDone
<1>2. formHead[a] # Head1
  <2>1. ruleList \in Seq(Cell)
    BY DEF RulesInv, RulesTypeOK
  <2>2. ruleList # <<>> => ruleList[1] \in Cell
    BY <2>1
  <2> QED
    BY <1>1, <2>2, RulesAssumption DEF CountsFewer, Head1
<1> QED
  BY <1>1, <1>2 DEF Overtaken

\* A rule lives until a removal of its name, and once a reader has died none comes or goes,
\* but for the one step in which a dump that was overtaken writes past its buffer: that
\* changes a rule, and frees none.
THEOREM RemovalFrees == RulesSpec => OnlyRemovalFrees
<1> DEFINE Keeps == \A c \in Cell : rule'[c] # rule[c] =>
                        \/ overrun' /\ Overtaken # {} /\ rule[c] # NoRule /\ rule'[c] # NoRule
                        \/ /\ ~leaked
                           /\ rule[c] # NoRule => writer # NoAdmin /\ c \in condemned
<1>1. ASSUME RulesInv, [RulesNext]_ruleVars PROVE [Keeps]_ruleVars
  <2>1. ASSUME NEW a \in Admin, NEW c \in Cell, NEW r \in RuleValue,
               NEW after \in Name \cup {NoName},
               AppendAtHead(a, c, r, after) \/ AppendAfter(a, c, r, after)
        PROVE  Keeps
    <3>1. /\ ~leaked /\ rule[c] = NoRule
          /\ rule' = [rule EXCEPT ![c] = r]
      BY <2>1 DEF AppendAtHead, AppendAfter, Insert, Granted, CanWrite
    <3> QED
      BY <1>1, <3>1 DEF RulesInv, RulesTypeOK
  <2>2. ASSUME NEW a \in Admin, RemoveOne(a) PROVE Keeps
    <3>1. /\ writer = a /\ a # NoAdmin
          /\ \E d \in condemned : rule' = [rule EXCEPT ![d] = NoRule]
      BY <2>2, RulesAssumption DEF RemoveOne
    <3> QED
      BY <1>1, <3>1 DEF RulesInv, RulesTypeOK, WriterAlive
  <2>3. CASE rule' = rule
    BY <2>3
  <2>4. ASSUME NEW a \in Admin, FormOverruns(a) PROVE Keeps
    <3>1. overrun' /\ Overtaken # {}
      BY <1>1, <2>4, OverrunsOvertaken DEF FormOverruns
    <3> QED
      BY <1>1, <2>4, <3>1, OverrunInv
  <2> QED
    BY <1>1, <2>1, <2>2, <2>3, <2>4
    DEF RulesNext, Request, Serve, RemoveStart, RemoveDone, AppendFails, WaitToWrite,
        FormHead, FormAllFWRules, FormFaults, MatchKills, ruleVars
<1>2. [][Keeps]_ruleVars <=> OnlyRemovalFrees
  BY DEF OnlyRemovalFrees
<1> HIDE DEF Keeps
<1> QED
  BY <1>1, <1>2, RulesInvariant, PTL DEF RulesSpec

\* The rule that decides about a packet is replaced only by its own removal or by a new
\* rule ahead of it.
THEOREM VerdictsStable == RulesSpec => DecisionStable
<1> DEFINE Stable ==
               ~overrun' => \A k \in Key, c \in Cell :
                   /\ Decides(k, c) /\ rule'[c] # NoRule
                   /\ \A d \in Cell : rule[d] = NoRule /\ rule'[d] # NoRule => ~Decides(k, d)'
                   => Decides(k, c)'
<1>1. ASSUME RulesInv, [RulesNext]_ruleVars PROVE [Stable]_ruleVars
  <2> DEFINE New(k) ==
                 \A d \in Cell : rule[d] = NoRule /\ rule'[d] # NoRule => ~Decides(k, d)'
  <2> SUFFICES ASSUME ~overrun', NEW k \in Key, NEW d \in Cell,
                      Decides(k, d), rule'[d] # NoRule, New(k)
               PROVE  Decides(k, d)'
    OBVIOUS
  <2>1. ASSUME NEW a \in Admin, NEW c \in Cell, NEW r \in RuleValue,
               NEW p \in 1..(Len(ruleList) + 1), Insert(a, c, r, p)
        PROVE  Decides(k, d)'
    <3>1. rule[c] = NoRule /\ rule'[c] # NoRule
      BY <1>1, <2>1, RulesAssumption DEF Insert, RulesInv, RulesTypeOK
    <3> QED
      BY <1>1, <2>1, <3>1, InsertStable
  <2>2. ASSUME NEW a \in Admin, NEW c \in Cell, NEW r \in RuleValue,
               NEW after \in Name \cup {NoName},
               AppendAtHead(a, c, r, after) \/ AppendAfter(a, c, r, after)
        PROVE  Decides(k, d)'
    <3>1. ruleList \in Seq(Cell) /\ Len(ruleList) \in Nat /\ Positions = 1..Len(ruleList)
      BY <1>1, LenProperties DEF RulesInv, RulesTypeOK, Positions
    <3>2. \E p \in 1..(Len(ruleList) + 1) : Insert(a, c, r, p)
      <4>1. CASE AppendAtHead(a, c, r, after)
        BY <3>1, <4>1 DEF AppendAtHead
      <4>2. CASE AppendAfter(a, c, r, after)
        <5>1. PICK i \in Positions : Insert(a, c, r, i + 1)
          BY <4>2 DEF AppendAfter, Named
        <5> QED
          BY <3>1, <5>1
      <4> QED
        BY <2>2, <4>1, <4>2
    <3> QED
      BY <2>1, <3>2
  <2>3. ASSUME NEW a \in Admin, RemoveOne(a) PROVE Decides(k, d)'
    BY <1>1, <2>3, RemoveStable
  <2>4. CASE UNCHANGED <<ruleList, rule>>
    BY <2>4 DEF Decides, FirstMatch, Positions
  <2> HIDE DEF New
  <2>5. ASSUME NEW a \in Admin, Request(a) PROVE Decides(k, d)'
    BY <2>2, <2>4, <2>5 DEF Request, RemoveStart, AppendFails, WaitToWrite, FormHead
  <2>6. ASSUME NEW a \in Admin, Serve(a) PROVE Decides(k, d)'
    BY <2>3, <2>4, <2>6 DEF Serve, RemoveDone, FormAllFWRules, FormOverruns, FormFaults
  <2>7. ASSUME NEW h \in Key, MatchKills(h) PROVE Decides(k, d)'
    BY <2>4, <2>7 DEF MatchKills
  <2>8. CASE UNCHANGED ruleVars
    BY <2>4, <2>8 DEF ruleVars
  <2> QED
    BY <1>1, <2>5, <2>6, <2>7, <2>8 DEF RulesNext
<1>2. [][Stable]_ruleVars <=> DecisionStable
  BY DEF DecisionStable
<1> HIDE DEF Stable
<1> QED
  BY <1>1, <1>2, RulesInvariant, PTL DEF RulesSpec

--------------------------------------------------------------------------------
(* How many rules a removal takes *)

\* Whether removeFWRules takes the rule at i, if M are the positions of its name and f says
\* what it took before.
TakesAt(f, M, i) == i \in M /\ ((\A j \in 1..(i - 1) : j \in M) \/ ~f[i - 1])

\* What a removal takes can be settled position by position, however long the list is.
LEMMA WalkExists ==
    ASSUME NEW M, NEW N \in Nat
    PROVE  \E f \in [1..N -> BOOLEAN] : \A i \in 1..N : f[i] <=> TakesAt(f, M, i)
<1> DEFINE Walk(n) == \E f \in [1..n -> BOOLEAN] : \A i \in 1..n : f[i] <=> TakesAt(f, M, i)
           S == {n \in Nat : Walk(n)}
<1>1. Walk(0)
  <2>1. [i \in 1..0 |-> TRUE] \in [1..0 -> BOOLEAN] /\ 1..0 = {}
    OBVIOUS
  <2> QED
    BY <2>1
<1>2. ASSUME NEW n \in Nat, Walk(n) PROVE Walk(n + 1)
  <2>1. PICK f \in [1..n -> BOOLEAN] : \A i \in 1..n : f[i] <=> TakesAt(f, M, i)
    BY <1>2
  <2> DEFINE g == [i \in 1..(n + 1) |-> IF i = n + 1 THEN TakesAt(f, M, n + 1) ELSE f[i]]
  <2>2. TakesAt(f, M, n + 1) \in BOOLEAN
    BY DEF TakesAt
  <2>3. g \in [1..(n + 1) -> BOOLEAN]
    BY <2>2
  <2>4. /\ g[n + 1] = TakesAt(f, M, n + 1)
        /\ \A i \in 1..n : g[i] = f[i]
    OBVIOUS
  <2> HIDE DEF g
  <2>5. ASSUME NEW i \in 1..(n + 1) PROVE TakesAt(g, M, i) <=> TakesAt(f, M, i)
    <3>1. CASE i = 1
      <4>1. 1..(i - 1) = {}
        BY <3>1
      <4> QED
        BY <4>1 DEF TakesAt
    <3>2. CASE i # 1
      <4>1. g[i - 1] = f[i - 1]
        BY <2>4, <3>2
      <4> QED
        BY <4>1 DEF TakesAt
    <3> QED
      BY <3>1, <3>2
  <2>6. \A i \in 1..(n + 1) : g[i] <=> TakesAt(g, M, i)
    <3> SUFFICES ASSUME NEW i \in 1..(n + 1) PROVE g[i] <=> TakesAt(g, M, i)
      OBVIOUS
    <3>1. CASE i = n + 1
      BY <2>4, <2>5, <3>1
    <3>2. CASE i # n + 1
      <4>1. i \in 1..n
        BY <3>2
      <4> QED
        BY <2>1, <2>4, <2>5, <4>1
    <3> QED
      BY <3>1, <3>2
  <2> QED
    BY <2>3, <2>6
<1> HIDE DEF Walk
<1>3. 0 \in S /\ \A n \in Nat : n \in S => n + 1 \in S
  BY <1>1, <1>2
<1>4. N \in S
  <2> HIDE DEF S
  <2> QED
    BY <1>3, InductionOnNat
<1> QED
  BY <1>4 DEF Walk

\* removeFWRules takes no rule of another name, and the one ahead of each that it leaves.
LEMMA UnlinksFacts ==
    ASSUME ruleList \in Seq(Cell), NEW n
    PROVE  /\ Unlinks(n) \subseteq Named(n)
           /\ \A i \in Named(n) \ Unlinks(n) : i # 1 /\ i - 1 \in Unlinks(n)
<1> DEFINE N == Len(ruleList)
           M == Named(n)
           Chosen(f) == f = [i \in Positions |-> TakesAt(f, M, i)]
           u == CHOOSE f : Chosen(f)
<1>1. N \in Nat /\ Positions = 1..N /\ M \subseteq 1..N
  BY LenProperties DEF Positions, Named
<1>2. \E f : Chosen(f)
  <2> HIDE DEF M, N
  <2>1. PICK f \in [1..N -> BOOLEAN] : \A i \in 1..N : f[i] <=> TakesAt(f, M, i)
    BY <1>1, WalkExists
  <2>2. \A i \in 1..N : TakesAt(f, M, i) \in BOOLEAN
    BY DEF TakesAt
  <2>3. \A i \in 1..N : f[i] = TakesAt(f, M, i)
    BY <2>1, <2>2
  <2>4. Chosen(f)
    BY <1>1, <2>1, <2>3, Zenon
  <2> QED
    BY <2>4
<1>3. Chosen(u)
  <2> HIDE DEF Chosen
  <2> QED
    BY <1>2
<1>4. Unlinks(n) = {i \in Positions : u[i]}
  BY DEF Unlinks, TakesAt
<1> HIDE DEF u, M, N
<1>5. \A i \in 1..N : u[i] = TakesAt(u, M, i)
  BY <1>1, <1>3, Zenon
<1>6. \A i \in 1..N : u[i] <=> TakesAt(u, M, i)
  BY <1>5
<1>7. ASSUME NEW i \in M, ~u[i] PROVE i # 1 /\ i - 1 \in 1..N /\ u[i - 1]
  <2>1. i \in 1..N
    BY <1>1
  <2>2. ~(\A j \in 1..(i - 1) : j \in M) /\ u[i - 1]
    BY <1>6, <1>7, <2>1 DEF TakesAt
  <2>3. i # 1
    BY <2>2
  <2> QED
    BY <1>1, <2>1, <2>2, <2>3
<1>8. \A i \in 1..N : u[i] => i \in M
  BY <1>6 DEF TakesAt
<1> QED
  BY <1>1, <1>4, <1>7, <1>8 DEF M

\* A removal that starts condemns rules of its name only, the leading ones and at least
\* half of all of them, however many there are.
THEOREM RemovalsHalve == RulesSpec => RemovalHalves
<1> DEFINE Halves(n) == /\ \A c \in condemned' : rule[c].name = n
                        /\ 2 * Cardinality(condemned') >= Cardinality(Named(n))
                        /\ 1 \in Named(n) => ruleList[1] \in condemned'
           Body == \A a \in Admin, n \in Name : RemoveStart(a, n) => Halves(n)
<1>1. ASSUME RulesInv, NEW a \in Admin, NEW n \in Name, RemoveStart(a, n) PROVE Halves(n)
  <2> DEFINE U == Unlinks(n)
             M == Named(n)
             C == {ruleList[i] : i \in U}
  <2>1. ruleList \in Seq(Cell) /\ \A i, j \in Positions : ruleList[i] = ruleList[j] => i = j
    BY <1>1 DEF RulesInv, RulesTypeOK, ListSound
  <2>2. condemned' = C
    BY <1>1 DEF RemoveStart
  <2>3. U \subseteq M /\ \A i \in M \ U : i # 1 /\ i - 1 \in U
    BY <2>1, UnlinksFacts
  <2>4. M \subseteq Positions /\ Positions \subseteq Int /\ IsFiniteSet(M)
    <3>1. Len(ruleList) \in Nat /\ Positions = 1..Len(ruleList)
      BY <2>1, LenProperties DEF Positions
    <3>2. IsFiniteSet(1..Len(ruleList)) /\ M \subseteq Positions
      BY <3>1, FS_Interval DEF Named
    <3> QED
      BY <3>1, <3>2, FS_Subset
  <2>5. \A c \in C : rule[c].name = n
    BY <2>3 DEF Named
  <2>6. 1 \in M => ruleList[1] \in C
    BY <2>3
  <2> HIDE DEF U, M
  <2>7. IsFiniteSet(U) /\ IsFiniteSet(M \ U)
    BY <2>3, <2>4, FS_Subset
  <2>8. Cardinality(M \ U) <= Cardinality(U)
    <3> DEFINE ahead == [i \in M \ U |-> i - 1]
    <3>1. ahead \in Injection(M \ U, U)
      <4>1. \A i \in M \ U : i \in Int /\ i - 1 \in U
        BY <2>3, <2>4
      <4>2. ahead \in [M \ U -> U]
        BY <4>1
      <4>3. \A i, j \in M \ U : ahead[i] = ahead[j] => i = j
        BY <4>1
      <4> QED
        BY <4>2, <4>3 DEF Injection, IsInjective
    <3> HIDE DEF ahead
    <3> QED
      BY <2>7, <3>1, FS_Injection
  <2>9. Cardinality(C) = Cardinality(U) /\ IsFiniteSet(C)
    <3> DEFINE cells == [i \in U |-> ruleList[i]]
    <3>1. cells \in Bijection(U, C)
      BY <2>1, <2>3, <2>4 DEF Bijection, Injection, Surjection, IsInjective
    <3> HIDE DEF cells, C
    <3> QED
      BY <2>7, <3>1, FS_Bijection DEF ExistsBijection
  <2>10. 2 * Cardinality(C) >= Cardinality(M)
    <3>1. M = U \cup (M \ U) /\ U \cap (M \ U) = {}
      BY <2>3
    <3>2. Cardinality(M) = Cardinality(U) + Cardinality(M \ U) - Cardinality({})
      BY <2>7, <3>1, FS_Union
    <3>3. Cardinality({}) = 0 /\ Cardinality(U) \in Nat /\ Cardinality(M \ U) \in Nat
      BY <2>7, FS_EmptySet, FS_CardinalityType
    <3> QED
      BY <2>8, <2>9, <3>2, <3>3
  <2> QED
    BY <2>2, <2>5, <2>6, <2>10 DEF M
<1>2. RulesInv /\ [RulesNext]_ruleVars => [Body]_ruleVars
  BY <1>1
<1>3. [][Body]_ruleVars <=> RemovalHalves
  BY DEF RemovalHalves
<1> HIDE DEF Body
<1> QED
  BY <1>2, <1>3, RulesInvariant, PTL DEF RulesSpec

================================================================================
