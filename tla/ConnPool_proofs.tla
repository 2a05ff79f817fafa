--------------------------- MODULE ConnPool_proofs ---------------------------
(* Proofs about ConnPool, for every number of slots, keys, buckets and callers. *)
EXTENDS ConnPool, SequenceLemmas, FiniteSetTheorems

--------------------------------------------------------------------------------
(* Sweeps.  Everything a sweep does to a bucket follows from this lemma: the    *)
(* surviving chain holds exactly the nodes that were not freed, each once.      *)

\* A sweep frees only linked nodes that it was meant for.
LEMMA DoomedAreLinked ==
    ASSUME TypeOK, ChainIntegrity, NEW S
    PROVE  Doomed(S) \subseteq S \cap Linked
  BY DEF Doomed, First, TypeOK, ChainIntegrity, Linked

\* A node of a bucket is freed exactly when it is the first one meant.
LEMMA DoomedInBucket ==
    ASSUME TypeOK, ChainIntegrity, NEW S, NEW b \in Bucket, NEW i \in DOMAIN chain[b]
    PROVE  chain[b][i] \in Doomed(S) <=> First(b, i, S)
<1>1. chain[b][i] \in Slot
  BY DEF TypeOK
<1>2. First(b, i, S) => chain[b][i] \in Doomed(S)
  BY <1>1 DEF Doomed
<1>3. ASSUME chain[b][i] \in Doomed(S)
      PROVE  First(b, i, S)
  <2>1. PICK a \in Bucket : \E j \in DOMAIN chain[a] :
                            First(a, j, S) /\ chain[b][i] = chain[a][j]
    BY <1>3 DEF Doomed
  <2>2. PICK j \in DOMAIN chain[a] : First(a, j, S) /\ chain[b][i] = chain[a][j]
    BY <2>1
  <2>3. a = b /\ i = j
    BY <2>2 DEF ChainIntegrity
  <2> QED
    BY <2>2, <2>3
<1> QED
  BY <1>2, <1>3

\* A bucket has at most one first node to free.
LEMMA FirstUnique ==
    ASSUME TypeOK, NEW S, NEW b \in Bucket, NEW i, NEW j, First(b, i, S), First(b, j, S)
    PROVE  i = j
<1>1. /\ i \in DOMAIN chain[b] /\ j \in DOMAIN chain[b]
      /\ i <= j /\ j <= i
  BY DEF First
<1>2. DOMAIN chain[b] \subseteq Int
  BY LenProperties DEF TypeOK
<1> QED
  BY <1>1, <1>2

\* A bucket after a sweep: the nodes that were not freed, each once, in their order,
\* and no other.
LEMMA SweptBucket ==
    ASSUME TypeOK, ChainIntegrity, NEW S, Sweep(S), NEW b \in Bucket
    PROVE  /\ chain'[b] \in Seq(Slot)
           /\ \A j \in DOMAIN chain'[b] : \E i \in DOMAIN chain[b] :
                  chain'[b][j] = chain[b][i] /\ chain[b][i] \notin Doomed(S)
           /\ \A i \in DOMAIN chain[b] : chain[b][i] \notin Doomed(S) =>
                  \E j \in DOMAIN chain'[b] : chain'[b][j] = chain[b][i]
           /\ \A j, k \in DOMAIN chain'[b] : chain'[b][j] = chain'[b][k] => j = k
           /\ \A j, k \in DOMAIN chain'[b] : \A i, m \in DOMAIN chain[b] :
                  chain'[b][j] = chain[b][i] /\ chain'[b][k] = chain[b][m] /\ i <= m => j <= k
<1>1. chain[b] \in Seq(Slot) /\ DOMAIN chain[b] = 1..Len(chain[b]) /\ Len(chain[b]) \in Nat
  BY LenProperties DEF TypeOK
<1>2. \A i, j \in DOMAIN chain[b] : chain[b][i] = chain[b][j] => i = j
  BY DEF ChainIntegrity
<1>3. CASE ~ \E i \in DOMAIN chain[b] : First(b, i, S)
  <2>1. chain'[b] = chain[b]
    BY <1>3 DEF Sweep, Freed, Unlinked
  <2>2. \A i \in DOMAIN chain[b] : chain[b][i] \notin Doomed(S)
    BY <1>3, DoomedInBucket
  <2> QED
    BY <1>1, <1>2, <2>1, <2>2
<1>4. CASE \E i \in DOMAIN chain[b] : First(b, i, S)
  <2>1. PICK i \in DOMAIN chain[b] : First(b, i, S) /\ chain'[b] = RemoveAt(chain[b], i)
    BY <1>4 DEF Sweep, Freed, Unlinked
  <2> DEFINE q == chain[b]
             r == RemoveAt(chain[b], i)
  <2>2. /\ r \in Seq(Slot) /\ Len(r) = Len(q) - 1
        /\ \A j \in 1..(Len(q) - 1) : r[j] = IF j < i THEN q[j] ELSE q[j + 1]
    BY <1>1, RemoveAtFacts
  <2>3. DOMAIN r = 1..(Len(q) - 1)
    BY <2>2, LenProperties
  <2>4. \A j \in DOMAIN q : q[j] \in Doomed(S) <=> j = i
    BY <2>1, DoomedInBucket, FirstUnique
  <2> DEFINE from(j) == IF j < i THEN j ELSE j + 1
             to(j) == IF j < i THEN j ELSE j - 1
  <2>5. \A j \in DOMAIN r : from(j) \in DOMAIN q /\ from(j) # i /\ r[j] = q[from(j)]
    BY <1>1, <2>2, <2>3
  <2>6. \A j \in DOMAIN q : j # i => to(j) \in DOMAIN r /\ from(to(j)) = j
    BY <1>1, <2>3
  <2>7. \A j, k \in DOMAIN r : from(j) <= from(k) => j <= k
    BY <1>1, <2>2, <2>3
  <2>8. \A j, k \in DOMAIN r : from(j) = from(k) => j = k
    BY <1>1, <2>2, <2>3
  <2>9. \A j, k \in DOMAIN q : q[j] = q[k] => j = k
    BY <1>2
  <2> HIDE DEF q, r, from, to
  <2>10. \A j \in DOMAIN r : \E m \in DOMAIN q : r[j] = q[m] /\ q[m] \notin Doomed(S)
    BY <2>4, <2>5
  <2>11. \A m \in DOMAIN q : q[m] \notin Doomed(S) => \E j \in DOMAIN r : r[j] = q[m]
    BY <2>1, <2>4, <2>5, <2>6 DEF q
  <2>12. \A j, k \in DOMAIN r : r[j] = r[k] => j = k
    BY <2>5, <2>9, <2>8
  <2>13. \A j, k \in DOMAIN r : \A l, m \in DOMAIN q :
             r[j] = q[l] /\ r[k] = q[m] /\ l <= m => j <= k
    BY <2>5, <2>7, <2>9
  <2>14. chain'[b] = r /\ chain[b] = q
    BY <2>1 DEF q, r
  <2> QED
    BY <2>2, <2>10, <2>11, <2>12, <2>14, <2>13
<1> QED
  BY <1>3, <1>4

--------------------------------------------------------------------------------
(* The inductive invariant.  None of the three safety invariants is inductive   *)
(* alone: that a sweep keeps the count needs the chains to be without           *)
(* repetitions, that an insertion keeps the chains without repetitions needs    *)
(* the node to be in no chain yet, which is what its owner's being alone says.  *)

PoolInv == TypeOK /\ ChainIntegrity /\ FreshOwned /\ CountExact

\* A sequence with an element put before its head, as hlist_add_head does.
LEMMA ConsFacts ==
    ASSUME NEW S, NEW q \in Seq(S), NEW e \in S
    PROVE  /\ <<e>> \o q \in Seq(S)
           /\ DOMAIN (<<e>> \o q) = 1..(Len(q) + 1)
           /\ (<<e>> \o q)[1] = e
           /\ \A i \in DOMAIN q : i \in Int /\ (<<e>> \o q)[i + 1] = q[i]
           /\ \A j \in DOMAIN (<<e>> \o q) : j # 1 =>
                  j - 1 \in DOMAIN q /\ (<<e>> \o q)[j] = q[j - 1]
<1>1. <<e>> \in Seq(S) /\ Len(<<e>>) = 1 /\ <<e>>[1] = e
  OBVIOUS
<1>2. Len(q) \in Nat /\ DOMAIN q = 1..Len(q)
  BY LenProperties
<1>3. /\ <<e>> \o q \in Seq(S)
      /\ Len(<<e>> \o q) = 1 + Len(q)
      /\ \A i \in 1..(1 + Len(q)) : (<<e>> \o q)[i] = IF i <= 1 THEN <<e>>[i] ELSE q[i - 1]
  BY <1>1, ConcatProperties, Zenon
<1> DEFINE r == <<e>> \o q
<1>4. DOMAIN r = 1..(Len(q) + 1)
  BY <1>2, <1>3, LenProperties
<1>5. \A i \in 1..(1 + Len(q)) : r[i] = IF i <= 1 THEN <<e>>[i] ELSE q[i - 1]
  BY <1>3
<1> HIDE DEF r
<1>6. r[1] = e
  BY <1>1, <1>2, <1>5
<1>7. \A i \in DOMAIN q : i \in Int /\ r[i + 1] = q[i]
  BY <1>2, <1>5
<1>8. \A j \in DOMAIN r : j # 1 => j - 1 \in DOMAIN q /\ r[j] = q[j - 1]
  BY <1>2, <1>4, <1>5
<1> QED
  BY <1>3, <1>4, <1>6, <1>7, <1>8 DEF r

\* The linked nodes can be counted.
LEMMA LinkedFinite ==
    ASSUME TypeOK
    PROVE  IsFiniteSet(Linked) /\ Cardinality(Linked) \in Nat
  BY PoolAssumption, FS_Subset, FS_CardinalityType DEF Linked

\* PoolInv looks at no more than these.
LEMMA PoolInvUnchanged ==
    ASSUME PoolInv, UNCHANGED <<nodes, timer, contexts>>, oops' \in BOOLEAN
    PROVE  PoolInv'
  BY DEF PoolInv, TypeOK, ChainIntegrity, FreshOwned, CountExact, Linked, nodes, contexts

\* conn_init leaves an empty and sound pool.
LEMMA InitInv == PoolInit => PoolInv
<1> SUFFICES ASSUME PoolInit PROVE PoolInv
  OBVIOUS
<1>1. TypeOK
  <2>1. /\ chain \in [Bucket -> Seq(Slot)] /\ count \in Int
        /\ slab \in [Slot -> {"free", "fresh", "linked"}]
        /\ key \in [Slot -> Key \cup {NoKey}]
    BY DEF PoolInit
  <2>2. ttl \in [Slot -> 0..Expires] /\ timer \in 0..Interval
    BY PoolAssumption DEF PoolInit
  <2>3. /\ pc \in [Ctx -> {"idle", "lookup", "refresh", "use", "miss", "link", "form"}]
        /\ pkt \in [Ctx -> Key \cup {NoKey}] /\ ptr \in [Ctx -> Slot \cup {NoSlot}]
        /\ snap \in [Ctx -> Int]
        /\ \A c \in Ctx : pc[c] = "idle"
    BY DEF PoolInit
  <2>4. oops \in BOOLEAN
    BY Zenon DEF PoolInit
  <2> QED
    BY <2>1, <2>2, <2>3, <2>4 DEF TypeOK
<1>2. Linked = {} /\ \A b \in Bucket : DOMAIN chain[b] = {}
  BY DEF PoolInit, Linked
<1>3. ChainIntegrity
  BY <1>2 DEF ChainIntegrity
<1>4. FreshOwned
  BY DEF PoolInit, FreshOwned
<1>5. CountExact
  BY <1>2, FS_EmptySet DEF CountExact, PoolInit
<1> QED
  BY <1>1, <1>3, <1>4, <1>5 DEF PoolInv

\* A context that is not at "link" before or after a step, over an unchanged table.
LEMMA MoveInv ==
    ASSUME PoolInv, NEW c \in Ctx, TypeOK', UNCHANGED nodes,
           pc[c] # "link", pc'[c] # "link",
           \A d \in Ctx \ {c} : pc'[d] = pc[d] /\ pkt'[d] = pkt[d] /\ ptr'[d] = ptr[d]
    PROVE  PoolInv'
<1>1. ChainIntegrity'
  BY DEF PoolInv, nodes, ChainIntegrity, Linked
<1>2. CountExact'
  BY DEF PoolInv, nodes, CountExact, Linked
<1>3. FreshOwned'
  BY DEF PoolInv, nodes, FreshOwned
<1> QED
  BY <1>1, <1>2, <1>3 DEF PoolInv

--------------------------------------------------------------------------------
(* One lemma per action that writes the table. *)

\* addConnExpires, even through a stale pointer, keeps the pool sound.
LEMMA RefreshInv ==
    ASSUME PoolInv, NEW c \in Ctx, Refresh(c)
    PROVE  PoolInv'
<1>1. ttl' \in [Slot -> 0..Expires]
  <2>1. Expires \in 0..Expires
    BY PoolAssumption
  <2>2. ttl \in [Slot -> 0..Expires]
    BY DEF PoolInv, TypeOK
  <2>3. ttl' = ttl \/ ttl' = [ttl EXCEPT ![ptr[c]] = Expires]
    BY DEF Refresh
  <2> QED
    BY <2>1, <2>2, <2>3
<1>2. TypeOK'
  BY <1>1 DEF PoolInv, TypeOK, Refresh, Goto
<1>3. ChainIntegrity' /\ CountExact'
  BY DEF PoolInv, Refresh, ChainIntegrity, CountExact, Linked
<1>4. FreshOwned'
  BY DEF PoolInv, TypeOK, Refresh, Goto, FreshOwned
<1> QED
  BY <1>2, <1>3, <1>4 DEF PoolInv

\* addConn's allocation keeps the pool sound.
LEMMA AllocInv ==
    ASSUME PoolInv, NEW c \in Ctx, NEW s \in Slot, Alloc(c, s)
    PROVE  PoolInv'
<1>1. ttl' \in [Slot -> 0..Expires]
  <2>1. Expires \in 0..Expires
    BY PoolAssumption
  <2> QED
    BY <2>1 DEF Alloc, PoolInv, TypeOK
<1>2. TypeOK'
  BY <1>1 DEF PoolInv, TypeOK, Alloc, Goto
<1>3. Linked' = Linked
  BY DEF PoolInv, TypeOK, Alloc, Linked
<1>4. CountExact'
  BY <1>3 DEF PoolInv, CountExact, Alloc
<1>5. ChainIntegrity'
  <2>1. /\ chain' = chain
        /\ \A x \in Slot : x # s => slab'[x] = slab[x] /\ key'[x] = key[x]
        /\ slab[s] = "free"
    BY DEF PoolInv, TypeOK, Alloc
  <2>2. \A b \in Bucket : \A i \in DOMAIN chain[b] :
            chain[b][i] \in Slot /\ chain[b][i] # s
    BY <2>1 DEF PoolInv, TypeOK, ChainIntegrity
  <2>3. \A x \in Linked : x \in Slot /\ x # s
    BY <2>1 DEF Linked
  <2> QED
    BY <1>3, <2>1, <2>2, <2>3 DEF PoolInv, ChainIntegrity
<1>6. FreshOwned'
  <2>1. \A d \in Ctx : pc[d] = "link" => slab[ptr[d]] = "fresh" /\ ptr[d] # s
    BY DEF PoolInv, TypeOK, FreshOwned, Alloc
  <2> QED
    BY <2>1 DEF PoolInv, TypeOK, FreshOwned, Alloc, Goto
<1> QED
  BY <1>2, <1>4, <1>5, <1>6 DEF PoolInv

\* myhash_add keeps the pool sound and its count right.
LEMMA LinkInv ==
    ASSUME PoolInv, NEW c \in Ctx, Link(c)
    PROVE  PoolInv'
<1> DEFINE p == ptr[c]
           b == HashOf[pkt[c]]
<1>1. /\ p \in Slot /\ slab[p] = "fresh" /\ pkt[c] \in Key /\ key[p] = pkt[c]
      /\ b \in Bucket
  BY PoolAssumption DEF PoolInv, TypeOK, FreshOwned, Link, Goto
<1>2. /\ chain' = [chain EXCEPT ![b] = <<p>> \o chain[b]]
      /\ slab' = [slab EXCEPT ![p] = "linked"]
      /\ count' = count + 1
      /\ key' = key
  BY DEF Link
<1>3. chain[b] \in Seq(Slot)
  BY <1>1 DEF PoolInv, TypeOK
<1>4. /\ chain'[b] \in Seq(Slot)
      /\ 1 \in DOMAIN chain'[b] /\ chain'[b][1] = p
      /\ \A i \in DOMAIN chain[b] : i \in Int /\ i + 1 \in DOMAIN chain'[b]
                                    /\ chain'[b][i + 1] = chain[b][i]
      /\ \A j \in DOMAIN chain'[b] : j \in Int /\ (j # 1 =>
              j - 1 \in DOMAIN chain[b] /\ chain'[b][j] = chain[b][j - 1])
  <2>1. chain'[b] = <<p>> \o chain[b]
    BY <1>1, <1>2 DEF PoolInv, TypeOK
  <2>2. Len(chain[b]) \in Nat /\ DOMAIN chain[b] = 1..Len(chain[b])
    BY <1>3, LenProperties
  <2> HIDE DEF p, b
  <2> QED
    BY <1>1, <1>3, <2>1, <2>2, ConsFacts
<1>5. \A a \in Bucket : a # b => chain'[a] = chain[a]
  BY <1>2 DEF PoolInv, TypeOK
<1>6. \A a \in Bucket : \A i \in DOMAIN chain[a] : chain[a][i] # p
  BY <1>1 DEF PoolInv, ChainIntegrity
<1>7. Linked' = Linked \cup {p} /\ p \notin Linked
  BY <1>1, <1>2 DEF PoolInv, TypeOK, Linked
<1> HIDE DEF p, b
<1>8. TypeOK'
  <2>1. chain' \in [Bucket -> Seq(Slot)]
    BY <1>1, <1>2, <1>4, <1>5 DEF PoolInv, TypeOK
  <2> QED
    BY <1>1, <1>2, <2>1 DEF PoolInv, TypeOK, Link, Goto, Return
<1>9. ChainIntegrity'
  <2>1. ASSUME NEW a \in Bucket, NEW d \in Bucket, NEW i \in DOMAIN chain'[a],
               NEW j \in DOMAIN chain'[d], chain'[a][i] = chain'[d][j]
        PROVE  a = d /\ i = j
    <3>1. \A x \in Bucket : \A m \in DOMAIN chain'[x] :
              \/ x = b /\ m = 1 /\ chain'[x][m] = p
              \/ /\ \E n \in DOMAIN chain[x] : chain'[x][m] = chain[x][n]
                 /\ chain'[x][m] # p
      BY <1>4, <1>5, <1>6
    <3>2. CASE chain'[a][i] = p
      BY <3>1, <3>2, <2>1
    <3>3. CASE chain'[a][i] # p
      <4>1. ~(a = b /\ i = 1) /\ ~(d = b /\ j = 1)
        BY <3>3, <1>4, <2>1
      <4>2. a = d
        BY <3>1, <3>3, <2>1 DEF PoolInv, ChainIntegrity
      <4>3. CASE a = b
        <5>1. /\ i - 1 \in DOMAIN chain[b] /\ j - 1 \in DOMAIN chain[b]
              /\ chain[b][i - 1] = chain[b][j - 1] /\ i \in Int /\ j \in Int
          BY <4>1, <4>2, <4>3, <1>4, <2>1
        <5>2. i - 1 = j - 1
          BY <1>1, <5>1 DEF PoolInv, ChainIntegrity
        <5> QED
          BY <4>2, <5>1, <5>2
      <4>4. CASE a # b
        BY <4>2, <4>4, <1>5, <2>1 DEF PoolInv, ChainIntegrity
      <4> QED
        BY <4>3, <4>4
    <3> QED
      BY <3>2, <3>3
  <2>2. ASSUME NEW a \in Bucket, NEW i \in DOMAIN chain'[a]
        PROVE  LET s == chain'[a][i] IN
               slab'[s] = "linked" /\ key'[s] \in Key /\ HashOf[key'[s]] = a
    <3>1. CASE a = b /\ i = 1
      BY <3>1, <1>1, <1>2, <1>4 DEF b, PoolInv, TypeOK
    <3>2. CASE ~(a = b /\ i = 1)
      <4>1. \E j \in DOMAIN chain[a] : chain'[a][i] = chain[a][j]
        BY <3>2, <1>4, <1>5
      <4>2. PICK j \in DOMAIN chain[a] : chain'[a][i] = chain[a][j]
        BY <4>1
      <4>3. /\ slab[chain[a][j]] = "linked" /\ key[chain[a][j]] \in Key
            /\ HashOf[key[chain[a][j]]] = a /\ chain[a][j] \in Slot
        BY DEF PoolInv, ChainIntegrity, TypeOK
      <4> QED
        BY <4>2, <4>3, <1>2 DEF PoolInv, TypeOK
    <3> QED
      BY <3>1, <3>2
  <2>3. ASSUME NEW s \in Linked'
        PROVE  key'[s] \in Key /\ \E i \in DOMAIN chain'[HashOf[key'[s]]] :
                   chain'[HashOf[key'[s]]][i] = s
    <3>1. CASE s = p
      BY <3>1, <1>1, <1>2, <1>4 DEF b
    <3>2. CASE s # p
      <4>1. s \in Linked
        BY <3>2, <1>7
      <4>2. key[s] \in Key /\ \E i \in DOMAIN chain[HashOf[key[s]]] : chain[HashOf[key[s]]][i] = s
        BY <4>1 DEF PoolInv, ChainIntegrity
      <4>3. HashOf[key[s]] \in Bucket
        BY <4>2, PoolAssumption
      <4>4. \A a \in Bucket : \A i \in DOMAIN chain[a] :
                \E j \in DOMAIN chain'[a] : chain'[a][j] = chain[a][i]
        BY <1>4, <1>5
      <4>5. \E j \in DOMAIN chain'[HashOf[key[s]]] : chain'[HashOf[key[s]]][j] = s
        BY <4>2, <4>3, <4>4
      <4> QED
        BY <4>2, <4>5, <1>2
    <3> QED
      BY <3>1, <3>2
  <2> QED
    BY <2>1, <2>2, <2>3 DEF ChainIntegrity
<1>10. FreshOwned'
  <2>1. /\ pc' = [pc EXCEPT ![c] = "idle"] /\ pc[c] = "link"
        /\ pkt' = [pkt EXCEPT ![c] = NoKey] /\ ptr' = [ptr EXCEPT ![c] = NoSlot]
    BY DEF Link, Goto, Return
  <2>2. \A d \in Ctx : d # c => pc'[d] = pc[d] /\ ptr'[d] = ptr[d] /\ pkt'[d] = pkt[d]
    BY <2>1 DEF PoolInv, TypeOK
  <2>3. pc'[c] = "idle"
    BY <2>1 DEF PoolInv, TypeOK
  <2>4. \A d \in Ctx : d # c /\ pc[d] = "link" => ptr[d] # p
    BY <2>1 DEF PoolInv, FreshOwned, p
  <2>5. \A s \in Slot : slab'[s] = IF s = p THEN "linked" ELSE slab[s]
    BY <1>2 DEF PoolInv, TypeOK
  <2>6. ptr[c] = p
    BY DEF p
  <2>7. \A d \in Ctx : pc[d] = "link" => ptr[d] \in Slot
    BY DEF PoolInv, TypeOK
  <2> QED
    BY <1>2, <2>1, <2>2, <2>3, <2>4, <2>5, <2>6, <2>7 DEF PoolInv, FreshOwned
<1>11. CountExact'
  <2>1. Cardinality(Linked') = Cardinality(Linked) + 1
    BY <1>7, LinkedFinite, FS_AddElement DEF PoolInv
  <2> QED
    BY <1>2, <2>1 DEF PoolInv, CountExact
<1> QED
  BY <1>8, <1>9, <1>10, <1>11 DEF PoolInv

\* Every sweep, by the timer or for a rule, keeps the pool sound and its count right.
LEMMA SweepInv ==
    ASSUME PoolInv, NEW S, Sweep(S), UNCHANGED <<contexts, oops>>, timer' \in 0..Interval
    PROVE  PoolInv'
<1> DEFINE D == Doomed(S)
<1>1. D \subseteq Linked /\ D \subseteq Slot
  BY DoomedAreLinked DEF PoolInv, Linked
<1>2. /\ slab' = [s \in Slot |-> IF s \in D THEN "free" ELSE slab[s]]
      /\ key' = [s \in Slot |-> IF s \in D THEN NoKey ELSE key[s]]
      /\ ttl' = [s \in Slot |-> IF s \in D THEN 0 ELSE ttl[s]]
      /\ count' = count - Cardinality(D)
  BY DEF Sweep, Freed, Unlinked
<1>3. Linked' = Linked \ D
  BY <1>1, <1>2 DEF Linked
<1>4. IsFiniteSet(D) /\ Cardinality(D) \in Nat /\ IsFiniteSet(Linked)
      /\ Cardinality(Linked) \in Nat
  BY <1>1, LinkedFinite, FS_Subset, FS_CardinalityType DEF PoolInv
<1>5. \A b \in Bucket :
          /\ chain'[b] \in Seq(Slot)
          /\ \A j \in DOMAIN chain'[b] : \E i \in DOMAIN chain[b] :
                 chain'[b][j] = chain[b][i] /\ chain[b][i] \notin D
          /\ \A i \in DOMAIN chain[b] : chain[b][i] \notin D =>
                 \E j \in DOMAIN chain'[b] : chain'[b][j] = chain[b][i]
          /\ \A j, k \in DOMAIN chain'[b] : chain'[b][j] = chain'[b][k] => j = k
  BY SweptBucket DEF PoolInv
<1>6. chain' = [b \in Bucket |-> chain'[b]]
  BY DEF Sweep, Freed, Unlinked
<1> HIDE DEF D
<1>7. TypeOK'
  <2>1. chain' \in [Bucket -> Seq(Slot)]
    BY <1>5, <1>6
  <2>2. ttl' \in [Slot -> 0..Expires]
    BY <1>2, PoolAssumption DEF PoolInv, TypeOK
  <2>3. key' \in [Slot -> Key \cup {NoKey}] /\ slab' \in [Slot -> {"free", "fresh", "linked"}]
    BY <1>2 DEF PoolInv, TypeOK
  <2>4. count' \in Int
    BY <1>2, <1>4 DEF PoolInv, TypeOK
  <2> QED
    BY <2>1, <2>2, <2>3, <2>4 DEF PoolInv, TypeOK, contexts
<1>8. ChainIntegrity'
  <2>1. ASSUME NEW a \in Bucket, NEW d \in Bucket, NEW i \in DOMAIN chain'[a],
               NEW j \in DOMAIN chain'[d], chain'[a][i] = chain'[d][j]
        PROVE  a = d /\ i = j
    <3>1. PICK m \in DOMAIN chain[a] : chain'[a][i] = chain[a][m]
      BY <1>5
    <3>2. PICK n \in DOMAIN chain[d] : chain'[d][j] = chain[d][n]
      BY <1>5
    <3>3. chain[a][m] = chain[d][n]
      BY <2>1, <3>1, <3>2
    <3>4. a = d
      BY <3>3 DEF PoolInv, ChainIntegrity
    <3> QED
      BY <2>1, <3>4, <1>5
  <2>2. ASSUME NEW a \in Bucket, NEW i \in DOMAIN chain'[a]
        PROVE  LET s == chain'[a][i] IN
               slab'[s] = "linked" /\ key'[s] \in Key /\ HashOf[key'[s]] = a
    <3>1. PICK m \in DOMAIN chain[a] : chain'[a][i] = chain[a][m] /\ chain[a][m] \notin D
      BY <1>5
    <3>2. /\ chain[a][m] \in Slot /\ slab[chain[a][m]] = "linked"
          /\ key[chain[a][m]] \in Key /\ HashOf[key[chain[a][m]]] = a
      BY DEF PoolInv, TypeOK, ChainIntegrity
    <3> QED
      BY <3>1, <3>2, <1>2
  <2>3. ASSUME NEW s \in Linked'
        PROVE  key'[s] \in Key /\ \E i \in DOMAIN chain'[HashOf[key'[s]]] :
                   chain'[HashOf[key'[s]]][i] = s
    <3>1. s \in Linked /\ s \notin D /\ s \in Slot
      BY <1>3 DEF Linked
    <3>2. key'[s] = key[s] /\ key[s] \in Key /\ HashOf[key[s]] \in Bucket
      BY <3>1, <1>2, PoolAssumption DEF PoolInv, ChainIntegrity
    <3>3. PICK i \in DOMAIN chain[HashOf[key[s]]] : chain[HashOf[key[s]]][i] = s
      BY <3>1 DEF PoolInv, ChainIntegrity
    <3>4. \E j \in DOMAIN chain'[HashOf[key[s]]] : chain'[HashOf[key[s]]][j] = s
      BY <3>1, <3>2, <3>3, <1>5
    <3> QED
      BY <3>2, <3>4
  <2> QED
    BY <2>1, <2>2, <2>3 DEF ChainIntegrity
<1>9. FreshOwned'
  <2>1. /\ \A s \in Slot : slab'[s] = "fresh" <=> slab[s] = "fresh"
        /\ \A s \in Slot : slab[s] = "fresh" => key'[s] = key[s]
    BY <1>1, <1>2 DEF Linked
  <2>2. \A c \in Ctx : pc[c] = "link" => ptr[c] \in Slot /\ slab[ptr[c]] = "fresh"
    BY DEF PoolInv, TypeOK, FreshOwned
  <2>3. pc' = pc /\ ptr' = ptr /\ pkt' = pkt
    BY DEF contexts
  <2>4. \A c \in Ctx : pc[c] = "link" => key'[ptr[c]] = pkt[c]
    <3>1. \A c \in Ctx : pc[c] = "link" => key[ptr[c]] = pkt[c]
      BY DEF PoolInv, FreshOwned
    <3> QED
      BY <2>1, <2>2, <3>1
  <2>5. \A s \in Slot : slab'[s] = "fresh" <=> \E c \in Ctx : pc[c] = "link" /\ ptr[c] = s
    <3>1. \A s \in Slot : slab[s] = "fresh" <=> \E c \in Ctx : pc[c] = "link" /\ ptr[c] = s
      BY DEF PoolInv, FreshOwned
    <3> QED
      BY <2>1, <3>1, Zenon
  <2> QED
    BY <2>3, <2>4, <2>5 DEF PoolInv, FreshOwned
<1>10. CountExact'
  <2>1. Cardinality(Linked \ D) = Cardinality(Linked) - Cardinality(Linked \cap D)
    BY <1>4, FS_Difference
  <2>2. Linked \cap D = D
    BY <1>1
  <2> QED
    BY <1>2, <1>3, <1>4, <2>1, <2>2 DEF PoolInv, CountExact
<1> QED
  BY <1>7, <1>8, <1>9, <1>10 DEF PoolInv

\* The passage of time keeps the pool sound.
LEMMA TickInv ==
    ASSUME PoolInv, Tick
    PROVE  PoolInv'
<1>1. ttl' \in [Slot -> 0..Expires] /\ timer' \in 0..Interval
  <2>1. \A s \in Slot : ttl[s] \in Int /\ 0 <= ttl[s] /\ ttl[s] <= Expires
    BY DEF PoolInv, TypeOK
  <2>2. Expires \in Nat /\ Interval \in Nat /\ timer \in 0..Interval
    BY PoolAssumption DEF PoolInv, TypeOK
  <2>3. \A s \in Slot : (IF ttl[s] > 0 THEN ttl[s] - 1 ELSE 0) \in 0..Expires
    BY <2>1, <2>2
  <2> QED
    BY <2>2, <2>3 DEF Tick
<1>2. TypeOK'
  BY <1>1 DEF PoolInv, TypeOK, Tick, contexts
<1>3. ChainIntegrity' /\ CountExact'
  BY DEF PoolInv, Tick, ChainIntegrity, CountExact, Linked
<1>4. FreshOwned'
  BY DEF PoolInv, Tick, FreshOwned, contexts
<1> QED
  BY <1>2, <1>3, <1>4 DEF PoolInv

--------------------------------------------------------------------------------
(* Every step of the pool preserves the invariant. *)

\* PoolInv is inductive.
LEMMA NextInv == PoolInv /\ [PoolNext]_poolVars => PoolInv'
<1> SUFFICES ASSUME PoolInv, [PoolNext]_poolVars PROVE PoolInv'
  OBVIOUS
<1> USE DEF PoolInv
<1>1. ASSUME NEW c \in Ctx, NEW k \in Key, Call(c, k) PROVE PoolInv'
  <2>1. TypeOK'
    BY <1>1 DEF TypeOK, Call, Goto, nodes
  <2> QED
    BY <1>1, <2>1, MoveInv DEF Call, Goto, TypeOK
<1>2. ASSUME NEW c \in Ctx, NEW s \in Slot, LookupHit(c, s) PROVE PoolInv'
  <2>1. TypeOK'
    BY <1>2 DEF TypeOK, LookupHit, Goto, nodes
  <2> QED
    BY <1>2, <2>1, MoveInv DEF LookupHit, Goto, TypeOK
<1>3. ASSUME NEW c \in Ctx, LookupMiss(c) PROVE PoolInv'
  <2>1. TypeOK'
    BY <1>3 DEF TypeOK, LookupMiss, Goto, nodes
  <2> QED
    BY <1>3, <2>1, MoveInv DEF LookupMiss, Goto, TypeOK
<1>4. ASSUME NEW c \in Ctx, Refresh(c) PROVE PoolInv'
  BY <1>4, RefreshInv
<1>5. ASSUME NEW c \in Ctx, Use(c) PROVE PoolInv'
  <2>1. TypeOK'
    BY <1>5 DEF TypeOK, Use, Goto, Return, nodes
  <2> QED
    BY <1>5, <2>1, MoveInv DEF Use, Goto, Return, TypeOK
<1>6. ASSUME NEW c \in Ctx, Reject(c) PROVE PoolInv'
  <2>1. TypeOK'
    BY <1>6 DEF TypeOK, Reject, Goto, Return, nodes
  <2> QED
    BY <1>6, <2>1, MoveInv DEF Reject, Goto, Return, TypeOK
<1>7. ASSUME NEW c \in Ctx, NEW s \in Slot, Alloc(c, s) PROVE PoolInv'
  BY <1>7, AllocInv
<1>8. ASSUME NEW c \in Ctx, AllocFails(c) PROVE PoolInv'
  <2>1. TypeOK'
    BY <1>8 DEF TypeOK, AllocFails, Goto, Return, nodes
  <2> QED
    BY <1>8, <2>1, MoveInv DEF AllocFails, Goto, Return, TypeOK
<1>9. ASSUME NEW c \in Ctx, Link(c) PROVE PoolInv'
  BY <1>9, LinkInv
<1>10. ASSUME NEW c \in Ctx, FormConns(c) PROVE PoolInv'
  <2>1. TypeOK'
    BY <1>10 DEF TypeOK, FormConns, Goto, Return, nodes
  <2> QED
    BY <1>10, <2>1, MoveInv DEF FormConns, Goto, Return, TypeOK
<1>11. ASSUME NEW c \in Ctx, FormCount(c) PROVE PoolInv'
  <2>1. TypeOK'
    BY <1>11 DEF TypeOK, FormCount, Goto, nodes
  <2> QED
    BY <1>11, <2>1, MoveInv DEF FormCount, Goto, TypeOK
<1>12. ASSUME \/ \E c \in Ctx : IndexFaults(c) \/ FormOverruns(c)
              \/ WalkFaults \/ Panic
       PROVE  PoolInv'
  BY <1>12, PoolInvUnchanged DEF IndexFaults, FormOverruns, WalkFaults, Panic
<1>13. ASSUME TimerFire PROVE PoolInv'
  <2>1. Sweep(Expired) /\ UNCHANGED <<contexts, oops>> /\ timer' \in 0..Interval
    BY <1>13, PoolAssumption DEF TimerFire
  <2> QED
    BY <2>1, SweepInv
<1>14. ASSUME NEW K \in EraseSets, EraseConnRelated(K) PROVE PoolInv'
  <2>1. Sweep(Related(K)) /\ UNCHANGED <<contexts, oops>> /\ timer' \in 0..Interval
    BY <1>14 DEF EraseConnRelated, TypeOK
  <2> QED
    BY <2>1, SweepInv
<1>15. ASSUME Tick PROVE PoolInv'
  BY <1>15, TickInv
<1>16. ASSUME UNCHANGED poolVars PROVE PoolInv'
  BY <1>16, PoolInvUnchanged DEF poolVars, TypeOK
<1> QED
  BY <1>1, <1>2, <1>3, <1>4, <1>5, <1>6, <1>7, <1>8, <1>9, <1>10, <1>11, <1>12, <1>13,
     <1>14, <1>15, <1>16 DEF PoolNext, PoolStep, Work

\* The pool's structure is never damaged: every node is in the chain of its key or in
\* nobody's reach but its owner's, and the count is right, whatever the callers hold.
THEOREM PoolStructure == PoolSpec => [](TypeOK /\ ChainIntegrity /\ FreshOwned /\ CountExact)
<1>1. PoolInit => PoolInv
  BY InitInv
<1>2. PoolInv /\ [PoolNext]_poolVars => PoolInv'
  BY NextInv
<1>3. PoolInv => TypeOK /\ ChainIntegrity /\ FreshOwned /\ CountExact
  BY DEF PoolInv
<1> QED
  BY <1>1, <1>2, <1>3, PTL DEF PoolSpec

\* Every variable of the pool has its type, for any number of contexts and slots.
THEOREM PoolTyped == PoolSpec => []TypeOK
  BY PoolStructure, PTL

\* A node that addConn is still building belongs to one context and has its packet's key.
THEOREM NodesOwned == PoolSpec => []FreshOwned
  BY PoolStructure, PTL

\* ctable->count, which sizes the answer of formAllConns, is the number of linked nodes.
THEOREM CountHonest == PoolSpec => []CountExact
  BY PoolStructure, PTL

--------------------------------------------------------------------------------
(* The bound on duplicates. *)

\* The copies of a connection, and the contexts that missed it, can be counted.
LEMMA CopiesFinite ==
    ASSUME TypeOK, NEW k
    PROVE  /\ IsFiniteSet(LinkedOf(k)) /\ Cardinality(LinkedOf(k)) \in Nat
           /\ IsFiniteSet(Missed(k)) /\ Cardinality(Missed(k)) \in Nat
           /\ Cardinality(Missed(k)) <= Cardinality(Ctx) /\ Cardinality(Ctx) \in Nat
<1>1. IsFiniteSet(Ctx) /\ Cardinality(Ctx) \in Nat
  BY PoolAssumption, FS_CardinalityType
<1>2. Missed(k) \subseteq Ctx
  BY DEF Missed
<1>3. IsFiniteSet(Missed(k)) /\ Cardinality(Missed(k)) \in Nat
      /\ Cardinality(Missed(k)) <= Cardinality(Ctx)
  BY <1>1, <1>2, FS_Subset, FS_CardinalityType
<1>4. LinkedOf(k) \subseteq Linked
  BY DEF LinkedOf
<1>5. IsFiniteSet(LinkedOf(k)) /\ Cardinality(LinkedOf(k)) \in Nat
  BY <1>4, LinkedFinite, FS_Subset, FS_CardinalityType
<1> QED
  BY <1>1, <1>3, <1>5

\* Steps that add neither a copy of k nor a context that missed it.
LEMMA BoundShrinks ==
    ASSUME PoolInv, PoolInv', NEW k, LinkedOf(k)' \subseteq LinkedOf(k),
           Missed(k)' \subseteq Missed(k),
           Cardinality(LinkedOf(k)) + Cardinality(Missed(k)) <= Cardinality(Ctx)
    PROVE  Cardinality(LinkedOf(k)') + Cardinality(Missed(k)') <= Cardinality(Ctx)
<1>1. /\ IsFiniteSet(LinkedOf(k)) /\ Cardinality(LinkedOf(k)) \in Nat
      /\ IsFiniteSet(Missed(k)) /\ Cardinality(Missed(k)) \in Nat
      /\ Cardinality(Ctx) \in Nat
  BY CopiesFinite DEF PoolInv
<1>2. /\ IsFiniteSet(LinkedOf(k)') /\ Cardinality(LinkedOf(k)') <= Cardinality(LinkedOf(k))
      /\ IsFiniteSet(Missed(k)') /\ Cardinality(Missed(k)') <= Cardinality(Missed(k))
  BY <1>1, FS_Subset
<1>3. Cardinality(LinkedOf(k)') \in Nat /\ Cardinality(Missed(k)') \in Nat
  BY <1>2, FS_CardinalityType
<1> QED
  BY <1>1, <1>2, <1>3

\* A lookup that finds no node proves that no copy is linked.
LEMMA NoHitsNoCopies ==
    ASSUME PoolInv, NEW k \in Key, Hits(k) = {}
    PROVE  LinkedOf(k) = {}
  BY DEF PoolInv, ChainIntegrity, LinkedOf, Hits

\* A lookup that misses keeps the bound: no copy is linked, and the context
\* itself was not counted before.
LEMMA MissBound ==
    ASSUME PoolInv, PoolInv', BoundedDuplicates, NEW c \in Ctx, LookupMiss(c)
    PROVE  BoundedDuplicates'
<1> SUFFICES ASSUME "lookup" \notin MayFail, NEW k \in Key
             PROVE  Cardinality(LinkedOf(k)') + Cardinality(Missed(k)') <= Cardinality(Ctx)
  BY DEF BoundedDuplicates
<1>1. LinkedOf(k)' = LinkedOf(k)
  BY DEF LookupMiss, nodes, LinkedOf, Linked
<1>2. CASE k = pkt[c]
  <2>1. LinkedOf(k)' = {}
    BY <1>1, <1>2, NoHitsNoCopies DEF LookupMiss
  <2>2. Cardinality(Missed(k)') \in Nat /\ Cardinality(Missed(k)') <= Cardinality(Ctx)
    <3>1. Missed(k)' \subseteq Ctx
      BY DEF Missed
    <3> QED
      BY <3>1, PoolAssumption, FS_Subset, FS_CardinalityType
  <2> QED
    BY <2>1, <2>2, FS_EmptySet
<1>3. CASE k # pkt[c]
  <2>1. Missed(k)' = Missed(k)
    BY <1>3 DEF LookupMiss, Goto, Missed, PoolInv, TypeOK
  <2> QED
    BY <1>1, <2>1, BoundShrinks DEF BoundedDuplicates
<1> QED
  BY <1>2, <1>3

\* An insertion trades one context that missed for one copy.
LEMMA LinkBound ==
    ASSUME PoolInv, PoolInv', BoundedDuplicates, NEW c \in Ctx, Link(c)
    PROVE  BoundedDuplicates'
<1> SUFFICES ASSUME "lookup" \notin MayFail, NEW k \in Key
             PROVE  Cardinality(LinkedOf(k)') + Cardinality(Missed(k)') <= Cardinality(Ctx)
  BY DEF BoundedDuplicates
<1> DEFINE p == ptr[c]
<1>1. /\ p \in Slot /\ slab[p] = "fresh" /\ key[p] = pkt[c] /\ pkt[c] \in Key /\ pc[c] = "link"
      /\ slab' = [slab EXCEPT ![p] = "linked"] /\ key' = key
      /\ pc' = [pc EXCEPT ![c] = "idle"] /\ pkt' = [pkt EXCEPT ![c] = NoKey]
  BY DEF PoolInv, TypeOK, FreshOwned, Link, Goto, Return
<1> HIDE DEF p
<1>2. Linked' = Linked \cup {p} /\ p \notin Linked
  BY <1>1 DEF PoolInv, TypeOK, Linked
<1>3. Missed(k)' = Missed(k) \ {c}
  BY <1>1 DEF PoolInv, TypeOK, Missed
<1>4. Cardinality(LinkedOf(k)) + Cardinality(Missed(k)) <= Cardinality(Ctx)
  BY DEF BoundedDuplicates
<1>5. CASE k = pkt[c]
  <2>1. LinkedOf(k)' = LinkedOf(k) \cup {p} /\ p \notin LinkedOf(k)
    BY <1>1, <1>2, <1>5 DEF LinkedOf
  <2>2. c \in Missed(k)
    BY <1>1, <1>5 DEF Missed
  <2>3. /\ IsFiniteSet(LinkedOf(k)) /\ Cardinality(LinkedOf(k)) \in Nat
        /\ IsFiniteSet(Missed(k)) /\ Cardinality(Missed(k)) \in Nat
        /\ Cardinality(Ctx) \in Nat
    BY CopiesFinite DEF PoolInv
  <2>4. Cardinality(LinkedOf(k)') = Cardinality(LinkedOf(k)) + 1
    BY <2>1, <2>3, FS_AddElement
  <2>5. Cardinality(Missed(k)') = Cardinality(Missed(k)) - 1
    BY <1>3, <2>2, <2>3, FS_RemoveElement
  <2> QED
    BY <1>4, <2>3, <2>4, <2>5
<1>6. CASE k # pkt[c]
  <2>1. LinkedOf(k)' = LinkedOf(k)
    BY <1>1, <1>2, <1>6 DEF LinkedOf
  <2> QED
    BY <1>3, <1>4, <2>1, BoundShrinks
<1> QED
  BY <1>5, <1>6

\* A sweep only removes copies.
LEMMA SweepBound ==
    ASSUME PoolInv, PoolInv', BoundedDuplicates, NEW S, Sweep(S), UNCHANGED contexts
    PROVE  BoundedDuplicates'
<1> SUFFICES ASSUME "lookup" \notin MayFail, NEW k \in Key
             PROVE  Cardinality(LinkedOf(k)') + Cardinality(Missed(k)') <= Cardinality(Ctx)
  BY DEF BoundedDuplicates
<1>1. LinkedOf(k)' \subseteq LinkedOf(k)
  BY PoolAssumption DEF Sweep, Freed, Unlinked, LinkedOf, Linked
<1>2. Missed(k)' = Missed(k)
  BY DEF Missed, contexts
<1> QED
  BY <1>1, <1>2, BoundShrinks DEF BoundedDuplicates

\* Steps that touch neither slab nor key, and bring nobody to "miss" or "link".
LEMMA QuietBound ==
    ASSUME PoolInv, PoolInv', BoundedDuplicates, UNCHANGED <<slab, key>>,
           \A d \in Ctx : pc'[d] \in {"miss", "link"} =>
               pc[d] \in {"miss", "link"} /\ pkt'[d] = pkt[d]
    PROVE  BoundedDuplicates'
<1> SUFFICES ASSUME "lookup" \notin MayFail, NEW k \in Key
             PROVE  Cardinality(LinkedOf(k)') + Cardinality(Missed(k)') <= Cardinality(Ctx)
  BY DEF BoundedDuplicates
<1>1. LinkedOf(k)' = LinkedOf(k)
  BY DEF LinkedOf, Linked
<1>2. Missed(k)' \subseteq Missed(k)
  BY DEF Missed
<1> QED
  BY <1>1, <1>2, BoundShrinks DEF BoundedDuplicates

\* An allocation links nothing.
LEMMA AllocBound ==
    ASSUME PoolInv, PoolInv', BoundedDuplicates, NEW c \in Ctx, NEW s \in Slot, Alloc(c, s)
    PROVE  BoundedDuplicates'
<1> SUFFICES ASSUME "lookup" \notin MayFail, NEW k \in Key
             PROVE  Cardinality(LinkedOf(k)') + Cardinality(Missed(k)') <= Cardinality(Ctx)
  BY DEF BoundedDuplicates
<1>1. LinkedOf(k)' \subseteq LinkedOf(k)
  BY DEF Alloc, PoolInv, TypeOK, LinkedOf, Linked
<1>2. Missed(k)' = Missed(k)
  BY DEF Alloc, Goto, PoolInv, TypeOK, Missed
<1> QED
  BY <1>1, <1>2, BoundShrinks DEF BoundedDuplicates

\* The bound on the copies is inductive, given a sound pool.
LEMMA NextBound == PoolInv /\ BoundedDuplicates /\ [PoolNext]_poolVars => BoundedDuplicates'
<1> SUFFICES ASSUME PoolInv, BoundedDuplicates, [PoolNext]_poolVars PROVE BoundedDuplicates'
  OBVIOUS
<1>1. PoolInv'
  BY NextInv
<1> DEFINE Quietly == /\ UNCHANGED <<slab, key>>
                      /\ \A d \in Ctx : pc'[d] \in {"miss", "link"} =>
                             pc[d] \in {"miss", "link"} /\ pkt'[d] = pkt[d]
<1>2. Quietly => BoundedDuplicates'
  BY <1>1, QuietBound
<1>3. pc \in [Ctx -> {"idle", "lookup", "refresh", "use", "miss", "link", "form"}]
      /\ pkt \in [Ctx -> Key \cup {NoKey}]
  BY DEF PoolInv, TypeOK
<1>4. ASSUME NEW c \in Ctx, NEW k \in Key, Call(c, k) PROVE Quietly
  BY <1>3, <1>4 DEF Call, Goto, nodes
<1>5. ASSUME NEW c \in Ctx, \/ \E s \in Slot : LookupHit(c, s)
                            \/ Refresh(c) \/ FormCount(c)
      PROVE  Quietly
  BY <1>3, <1>5 DEF LookupHit, Refresh, FormCount, Goto, nodes
<1>6. ASSUME NEW c \in Ctx, Use(c) \/ Reject(c) \/ AllocFails(c) \/ FormConns(c)
      PROVE  Quietly
  BY <1>3, <1>6 DEF Use, Reject, AllocFails, FormConns, Goto, Return, nodes
<1>7. ASSUME NEW c \in Ctx, LookupMiss(c) PROVE BoundedDuplicates'
  BY <1>1, <1>7, MissBound
<1>8. ASSUME NEW c \in Ctx, NEW s \in Slot, Alloc(c, s) PROVE BoundedDuplicates'
  BY <1>1, <1>8, AllocBound
<1>9. ASSUME NEW c \in Ctx, Link(c) PROVE BoundedDuplicates'
  BY <1>1, <1>9, LinkBound
<1>10. ASSUME \/ \E c \in Ctx : IndexFaults(c) \/ FormOverruns(c)
              \/ WalkFaults \/ Panic \/ Tick \/ UNCHANGED poolVars
       PROVE  Quietly
  BY <1>10 DEF IndexFaults, FormOverruns, WalkFaults, Panic, Tick, poolVars, nodes, contexts
<1>11. ASSUME TimerFire \/ \E K \in EraseSets : EraseConnRelated(K)
       PROVE  BoundedDuplicates'
  BY <1>1, <1>11, SweepBound DEF TimerFire, EraseConnRelated
<1> HIDE DEF Quietly
<1> QED
  BY <1>2, <1>4, <1>5, <1>6, <1>7, <1>8, <1>9, <1>10, <1>11 DEF PoolNext, PoolStep, Work

\* However many contexts race on one connection, its copies never outnumber them.
THEOREM DuplicatesBounded == PoolSpec => []BoundedDuplicates
<1>1. PoolInit => PoolInv /\ BoundedDuplicates
  <2> SUFFICES ASSUME PoolInit PROVE PoolInv /\ BoundedDuplicates
    OBVIOUS
  <2>1. PoolInv
    BY InitInv
  <2>2. \A k \in Key : LinkedOf(k) = {} /\ Missed(k) = {}
    BY DEF PoolInit, LinkedOf, Linked, Missed
  <2>3. Cardinality(Ctx) \in Nat
    BY PoolAssumption, FS_CardinalityType
  <2> QED
    BY <2>1, <2>2, <2>3, FS_EmptySet DEF BoundedDuplicates
<1>2. PoolInv /\ BoundedDuplicates /\ [PoolNext]_poolVars => PoolInv' /\ BoundedDuplicates'
  BY NextInv, NextBound
<1> QED
  BY <1>1, <1>2, PTL DEF PoolSpec

--------------------------------------------------------------------------------
(* What a step may never do.  None of these needs a further invariant: a fresh   *)
(* node is in no chain, and a sweep keeps the order of what it leaves.           *)

\* A step that touches neither the chains nor the keys leaves every answer alone.
LEMMA AnswersUnmoved ==
    ASSUME NEW k, NEW s, Answers(k, s), chain' = chain, key' = key
    PROVE  Answers(k, s)'
  BY DEF Answers, Hits

\* So does the allocation of a node, which no chain holds yet.
LEMMA AnswersAlloc ==
    ASSUME PoolInv, NEW k \in Key, NEW s \in Slot, Answers(k, s),
           NEW c \in Ctx, NEW r \in Slot, Alloc(c, r)
    PROVE  Answers(k, s)'
<1>1. chain' = chain /\ slab[r] = "free" /\ key' = [key EXCEPT ![r] = pkt[c]]
  BY DEF Alloc
<1>2. HashOf[k] \in Bucket
  BY PoolAssumption
<1>3. \A i \in DOMAIN chain[HashOf[k]] :
          chain[HashOf[k]][i] \in Slot /\ key'[chain[HashOf[k]][i]] = key[chain[HashOf[k]][i]]
  BY <1>1, <1>2 DEF PoolInv, TypeOK, ChainIntegrity
<1> QED
  BY <1>1, <1>3 DEF Answers, Hits

\* A new copy goes to the head, before the one that answers.
LEMMA AnswersLink ==
    ASSUME PoolInv, NEW k \in Key, NEW s \in Slot, Answers(k, s), NEW c \in Ctx, Link(c)
    PROVE  Answers(k, s)'
<1> DEFINE h == HashOf[k]
           b == HashOf[pkt[c]]
           p == ptr[c]
<1>1. /\ h \in Bucket /\ b \in Bucket /\ p \in Slot
      /\ chain[b] \in Seq(Slot) /\ key' = key
      /\ chain' = [chain EXCEPT ![b] = <<p>> \o chain[b]]
  BY PoolAssumption DEF PoolInv, TypeOK, Link, Goto
<1>2. CASE h # b
  <2>1. chain'[h] = chain[h]
    BY <1>1, <1>2 DEF PoolInv, TypeOK
  <2> QED
    BY <1>1, <2>1 DEF Answers, Hits
<1>3. CASE h = b
  <2> DEFINE q == chain[h]
             r == <<p>> \o chain[h]
  <2>1. chain'[h] = r
    BY <1>1, <1>3 DEF PoolInv, TypeOK
  <2>2. /\ DOMAIN q = 1..Len(q) /\ Len(q) \in Nat /\ DOMAIN r = 1..(Len(q) + 1)
        /\ \A i \in DOMAIN q : r[i + 1] = q[i]
        /\ \A j \in DOMAIN r : j # 1 => j - 1 \in DOMAIN q /\ r[j] = q[j - 1]
    BY <1>1, <1>3, ConsFacts, LenProperties
  <2> HIDE DEF r
  <2>3. PICK i \in DOMAIN q : /\ s = q[i] /\ key[q[i]] = k
                              /\ \A j \in DOMAIN q : key[q[j]] = k => j <= i
    BY DEF Answers, Hits
  <2>4. i + 1 \in DOMAIN r /\ r[i + 1] = s /\ key[r[i + 1]] = k
    BY <2>2, <2>3
  <2>5. \A j \in DOMAIN r : key[r[j]] = k => j <= i + 1
    BY <2>2, <2>3
  <2>6. Hits(k)' = {j \in DOMAIN r : key[r[j]] = k}
    BY <1>1, <2>1 DEF Hits
  <2> QED
    BY <2>1, <2>4, <2>5, <2>6 DEF Answers
<1> QED
  BY <1>2, <1>3

\* A sweep that spares the answering node brings no other one behind it.
LEMMA AnswersSweep ==
    ASSUME PoolInv, NEW k \in Key, NEW s \in Slot, Answers(k, s), NEW S, Sweep(S),
           slab'[s] = "linked"
    PROVE  Answers(k, s)'
<1> DEFINE q == chain[HashOf[k]]
           r == chain'[HashOf[k]]
<1>1. HashOf[k] \in Bucket
  BY PoolAssumption
<1>2. /\ \A j \in DOMAIN r : \E i \in DOMAIN q : r[j] = q[i] /\ q[i] \notin Doomed(S)
      /\ \A i \in DOMAIN q : q[i] \notin Doomed(S) => \E j \in DOMAIN r : r[j] = q[i]
      /\ \A j, l \in DOMAIN r : \A i, m \in DOMAIN q :
             r[j] = q[i] /\ r[l] = q[m] /\ i <= m => j <= l
  BY <1>1, SweptBucket DEF PoolInv
<1>3. \A i \in DOMAIN q : q[i] \in Slot
  BY <1>1 DEF PoolInv, TypeOK
<1>4. s \notin Doomed(S) /\ \A t \in Slot : t \notin Doomed(S) => key'[t] = key[t]
  BY DEF Sweep, Freed
<1> HIDE DEF q, r
<1>5. PICK i \in DOMAIN q : /\ s = q[i] /\ key[q[i]] = k
                            /\ \A m \in DOMAIN q : key[q[m]] = k => m <= i
  BY DEF Answers, Hits, q
<1>6. PICK j \in DOMAIN r : r[j] = q[i]
  BY <1>2, <1>4, <1>5
<1>7. key'[r[j]] = k
  BY <1>3, <1>4, <1>5, <1>6
<1>8. \A l \in DOMAIN r : key'[r[l]] = k => l <= j
  BY <1>2, <1>3, <1>4, <1>5, <1>6
<1> QED
  BY <1>5, <1>6, <1>7, <1>8 DEF Answers, Hits, r

\* The copies of a connection never shadow the one that answers.
THEOREM OldestGoesOn == PoolSpec => OldestAnswers
<1>1. ASSUME PoolInv, PoolNext, NEW k \in Key, NEW s \in Slot, Answers(k, s), slab'[s] = "linked"
      PROVE  Answers(k, s)'
  <2>1. ASSUME UNCHANGED <<chain, key>> PROVE Answers(k, s)'
    BY <1>1, <2>1, AnswersUnmoved
  <2>2. ASSUME NEW c \in Ctx, Work(c) PROVE Answers(k, s)'
    <3>1. CASE (\E r \in Slot : LookupHit(c, r)) \/ LookupMiss(c) \/ Refresh(c)
      BY <2>1, <3>1 DEF LookupHit, LookupMiss, Refresh, nodes
    <3>2. CASE Use(c) \/ Reject(c) \/ AllocFails(c) \/ FormConns(c)
      BY <2>1, <3>2 DEF Use, Reject, AllocFails, FormConns, nodes
    <3>3. CASE (\E r \in Slot : Alloc(c, r)) \/ Link(c)
      BY <1>1, <3>3, AnswersAlloc, AnswersLink
    <3> QED
      BY <2>2, <3>1, <3>2, <3>3 DEF Work
  <2>3. ASSUME NEW S, Sweep(S) PROVE Answers(k, s)'
    BY <1>1, <2>3, AnswersSweep
  <2>4. ASSUME NEW c \in Ctx, \/ \E l \in Key : Call(c, l)
                              \/ IndexFaults(c) \/ FormCount(c) \/ FormOverruns(c)
        PROVE  Answers(k, s)'
    BY <2>1, <2>4 DEF Call, IndexFaults, FormCount, FormOverruns, nodes
  <2>5. CASE WalkFaults \/ Panic \/ Tick
    BY <2>1, <2>5 DEF WalkFaults, Panic, Tick, nodes
  <2> QED
    BY <1>1, <2>2, <2>3, <2>4, <2>5 DEF PoolNext, PoolStep, TimerFire, EraseConnRelated
<1>2. PoolInit => PoolInv
  BY InitInv
<1>3. PoolInv /\ [PoolNext]_poolVars => PoolInv'
  BY NextInv
<1> DEFINE Kept == \A k \in Key, s \in Slot :
                       Answers(k, s) /\ slab'[s] = "linked" => Answers(k, s)'
<1>4. PoolInv /\ [PoolNext]_poolVars => [Kept]_poolVars
  BY <1>1
<1>5. [][Kept]_poolVars <=> OldestAnswers
  BY DEF OldestAnswers
<1> HIDE DEF Kept
<1> QED
  BY <1>2, <1>3, <1>4, <1>5, PTL DEF PoolSpec

\* Only a link makes a key known, and it is the key of its caller's packet.
LEMMA LinkAdmits ==
    ASSUME PoolInv, PoolNext \/ UNCHANGED poolVars, NEW k \in Key,
           LinkedOf(k) = {}, LinkedOf(k)' # {}
    PROVE  \E c \in Ctx : Link(c) /\ pkt[c] = k
<1> USE DEF PoolInv
<1>1. PICK s \in Slot : slab'[s] = "linked" /\ key'[s] = k /\ ~(slab[s] = "linked" /\ key[s] = k)
  BY DEF LinkedOf, Linked
<1>2. k # NoKey
  BY PoolAssumption
<1>3. ASSUME NEW S, Sweep(S) PROVE FALSE
  <2>1. s \notin Doomed(S)
    BY <1>1, <1>3 DEF Sweep, Freed
  <2> QED
    BY <1>1, <1>3, <2>1 DEF Sweep, Freed
<1>4. ASSUME NEW c \in Ctx, NEW r \in Slot, Alloc(c, r) PROVE FALSE
  <2>1. CASE s = r
    BY <1>1, <1>4, <2>1 DEF Alloc, TypeOK
  <2>2. CASE s # r
    BY <1>1, <1>4, <2>2 DEF Alloc, TypeOK
  <2> QED
    BY <2>1, <2>2
<1>5. ASSUME NEW c \in Ctx, Link(c) PROVE pkt[c] = k
  <2>1. key' = key /\ slab' = [slab EXCEPT ![ptr[c]] = "linked"] /\ pc[c] = "link"
    BY <1>5 DEF Link, Goto
  <2>2. s = ptr[c]
    BY <1>1, <2>1 DEF TypeOK
  <2> QED
    BY <1>1, <2>1, <2>2 DEF FreshOwned
<1>6. ASSUME slab' = slab /\ key' = key PROVE FALSE
  BY <1>1, <1>6
<1>7. ASSUME NEW c \in Ctx, Work(c) PROVE Link(c)
  <2>1. CASE (\E r \in Slot : LookupHit(c, r)) \/ LookupMiss(c) \/ Refresh(c)
    BY <1>6, <2>1 DEF LookupHit, LookupMiss, Refresh, nodes
  <2>2. CASE Use(c) \/ Reject(c) \/ AllocFails(c) \/ FormConns(c)
    BY <1>6, <2>2 DEF Use, Reject, AllocFails, FormConns, nodes
  <2>3. CASE \E r \in Slot : Alloc(c, r)
    BY <1>4, <2>3
  <2> QED
    BY <1>7, <2>1, <2>2, <2>3 DEF Work
<1>8. ASSUME NEW c \in Ctx, NEW k2 \in Key, Call(c, k2) PROVE FALSE
  BY <1>6, <1>8 DEF Call, nodes
<1>9. CASE Panic \/ Tick \/ UNCHANGED poolVars
  BY <1>6, <1>9 DEF Panic, Tick, nodes, poolVars
<1> QED
  BY <1>3, <1>5, <1>6, <1>7, <1>8, <1>9
  DEF PoolNext, PoolStep, IndexFaults, FormCount, FormOverruns, TimerFire,
      EraseConnRelated, WalkFaults, nodes

\* While a node stays linked only the passage of time shortens its life.
LEMMA LivesGrow ==
    ASSUME PoolInv, PoolNext, NEW s \in Slot,
           slab[s] = "linked", slab'[s] = "linked", ttl'[s] < ttl[s]
    PROVE  Tick
<1> USE DEF PoolInv
<1>1. ttl[s] \in 0..Expires
  BY DEF TypeOK
<1>2. ASSUME ttl'[s] = ttl[s] PROVE FALSE
  BY <1>1, <1>2
<1>3. ASSUME NEW c \in Ctx, Refresh(c) PROVE FALSE
  BY <1>1, <1>2, <1>3, PoolAssumption DEF Refresh, Goto, TypeOK
<1>4. ASSUME NEW c \in Ctx, NEW r \in Slot, Alloc(c, r) PROVE FALSE
  BY <1>2, <1>4 DEF Alloc, TypeOK
<1>5. ASSUME NEW S, Sweep(S) PROVE FALSE
  BY <1>2, <1>5 DEF Sweep, Freed
<1>6. ASSUME NEW c \in Ctx, Work(c) PROVE FALSE
  <2>1. CASE (\E r \in Slot : LookupHit(c, r)) \/ LookupMiss(c) \/ Use(c) \/ Reject(c)
    BY <1>2, <2>1 DEF LookupHit, LookupMiss, Use, Reject, nodes
  <2>2. CASE AllocFails(c) \/ Link(c) \/ FormConns(c)
    BY <1>2, <2>2 DEF AllocFails, Link, FormConns, nodes
  <2> QED
    BY <1>3, <1>4, <1>6, <2>1, <2>2 DEF Work
<1>7. ASSUME NEW c \in Ctx, \/ \E l \in Key : Call(c, l)
                            \/ IndexFaults(c) \/ FormCount(c) \/ FormOverruns(c)
      PROVE  FALSE
  BY <1>2, <1>7 DEF Call, IndexFaults, FormCount, FormOverruns, nodes
<1>8. CASE WalkFaults \/ Panic
  BY <1>2, <1>8 DEF WalkFaults, Panic, nodes
<1> QED
  BY <1>5, <1>6, <1>7, <1>8 DEF PoolNext, PoolStep, TimerFire, EraseConnRelated

\* A stale pointer neither revives a connection nor shortens a life: no dead key comes
\* back but by a caller that has its packet in hand.
THEOREM StaleIsHarmless == PoolSpec => StaleWritesOnlyExtend
<1> DEFINE Extends ==
               /\ \A k \in Key : LinkedOf(k) = {} /\ LinkedOf(k)' # {} =>
                      \E c \in Ctx : pc[c] = "link" /\ pkt[c] = k /\ pc'[c] = "idle"
               /\ \A s \in Slot :
                      slab[s] = "linked" /\ slab'[s] = "linked" /\ ttl'[s] < ttl[s] => Tick
<1>1. PoolInv /\ [PoolNext]_poolVars => [Extends]_poolVars
  <2> SUFFICES ASSUME PoolInv, PoolNext PROVE Extends
    OBVIOUS
  <2>1. ASSUME NEW k \in Key, LinkedOf(k) = {}, LinkedOf(k)' # {}
        PROVE  \E c \in Ctx : pc[c] = "link" /\ pkt[c] = k /\ pc'[c] = "idle"
    <3>1. PICK c \in Ctx : Link(c) /\ pkt[c] = k
      BY <2>1, LinkAdmits
    <3> QED
      BY <3>1 DEF Link, Goto, PoolInv, TypeOK
  <2> QED
    BY <2>1, LivesGrow
<1>2. PoolInit => PoolInv
  BY InitInv
<1>3. PoolInv /\ [PoolNext]_poolVars => PoolInv'
  BY NextInv
<1>4. [][Extends]_poolVars <=> StaleWritesOnlyExtend
  BY DEF StaleWritesOnlyExtend
<1> HIDE DEF Extends
<1> QED
  BY <1>1, <1>2, <1>3, <1>4, PTL DEF PoolSpec

--------------------------------------------------------------------------------
(* ConnPool implements ConnTracker: from outside the pool keeps leases, whatever    *)
(* races, stale pointers, copies and failing allocations do inside.                 *)

\* Among the copies of a connection one has the longest life.
LEMMA LongestLife ==
    ASSUME TypeOK, NEW k, LinkedOf(k) # {}
    PROVE  \E s \in LinkedOf(k) : \A t \in LinkedOf(k) : ttl[t] <= ttl[s]
<1> DEFINE spent == {Expires - ttl[s] : s \in LinkedOf(k)}
<1>1. Expires \in Nat /\ \A s \in LinkedOf(k) : ttl[s] \in 0..Expires
  BY PoolAssumption DEF TypeOK, LinkedOf, Linked
<1>2. spent \in SUBSET Nat /\ spent # {}
  BY <1>1
<1>3. PICK n \in spent : \A m \in spent : n <= m
  <2> HIDE DEF spent
  <2> QED
    BY <1>2, LeastNumber
<1>4. PICK s \in LinkedOf(k) : n = Expires - ttl[s]
  BY <1>3
<1>5. \A t \in LinkedOf(k) : Expires - ttl[s] <= Expires - ttl[t]
  BY <1>3, <1>4
<1> QED
  BY <1>1, <1>5

\* n is what is left of the lease of k.
IsLease(k, n) ==
    \/ LinkedOf(k) = {} /\ n = -1
    \/ /\ \E s \in LinkedOf(k) : ttl[s] = n
       /\ \A s \in LinkedOf(k) : ttl[s] <= n

\* Every connection has exactly one lease.
LEMMA LeaseFacts ==
    ASSUME TypeOK, NEW k \in Key
    PROVE  /\ IsLease(k, LeaseOf(k))
           /\ LeaseOf(k) \in -1..Expires
           /\ LeaseOf(k) = -1 <=> LinkedOf(k) = {}
           /\ \A n : IsLease(k, n) => n = LeaseOf(k)
<1>1. Expires \in Nat /\ \A s \in LinkedOf(k) : ttl[s] \in 0..Expires
  BY PoolAssumption DEF TypeOK, LinkedOf, Linked
<1>2. CASE LinkedOf(k) = {}
  BY <1>1, <1>2 DEF IsLease, LeaseOf
<1>3. CASE LinkedOf(k) # {}
  <2>1. PICK s \in LinkedOf(k) : \A t \in LinkedOf(k) : ttl[t] <= ttl[s]
    BY <1>3, LongestLife
  <2>2. \E n \in 0..Expires : /\ \E t \in LinkedOf(k) : ttl[t] = n
                              /\ \A t \in LinkedOf(k) : ttl[t] <= n
    BY <1>1, <2>1
  <2>3. /\ LeaseOf(k) \in 0..Expires
        /\ \E t \in LinkedOf(k) : ttl[t] = LeaseOf(k)
        /\ \A t \in LinkedOf(k) : ttl[t] <= LeaseOf(k)
    BY <1>3, <2>2 DEF LeaseOf
  <2>4. \A n : IsLease(k, n) => n = LeaseOf(k)
    BY <1>1, <1>3, <2>3 DEF IsLease
  <2> QED
    BY <1>1, <1>3, <2>3, <2>4 DEF IsLease
<1> QED
  BY <1>2, <1>3

\* What is known of a connection's lease.
LeaseKnown(k) ==
    /\ IsLease(k, LeaseOf(k))
    /\ LeaseOf(k) \in -1..Expires
    /\ LeaseOf(k) = -1 <=> LinkedOf(k) = {}
    /\ \A n : IsLease(k, n) => n = LeaseOf(k)

\* Before a step and after it every connection has a lease.
LEMMA LeasesKnown ==
    /\ TypeOK => \A k \in Key : LeaseKnown(k)
    /\ TypeOK' => (\A k \in Key : LeaseKnown(k))'
<1>1. TypeOK => \A k \in Key : LeaseKnown(k)
  BY LeaseFacts DEF LeaseKnown
<1> QED
  BY <1>1, PTL

--------------------------------------------------------------------------------
(* Step by step *)

\* Whatever leaves the copies of a connection and their lives alone keeps its lease.
LEMMA LeaseKept ==
    ASSUME TypeOK, TypeOK', NEW k \in Key, LinkedOf(k)' = LinkedOf(k),
           \A s \in LinkedOf(k) : ttl'[s] = ttl[s]
    PROVE  LeaseOf(k)' = LeaseOf(k)
<1>1. IsLease(k, LeaseOf(k))
  BY LeasesKnown DEF LeaseKnown
<1>2. \A n : IsLease(k, n) => (\/ LinkedOf(k)' = {} /\ n = -1
                              \/ /\ \E s \in LinkedOf(k)' : ttl'[s] = n
                                 /\ \A s \in LinkedOf(k)' : ttl'[s] <= n)
  BY DEF IsLease
<1>3. LeaseKnown(k)'
  BY LeasesKnown
<1> QED
  BY <1>1, <1>2, <1>3 DEF LeaseKnown, IsLease

\* A step after which every lease is what it was is a stutter of the tracker.
LEMMA Stutters ==
    ASSUME TypeOK, TypeOK', UNCHANGED <<slab, key>>,
           \A s \in Linked : key[s] \in Key => ttl'[s] = ttl[s]
    PROVE  UNCHANGED [k \in Key |-> LeaseOf(k)]
<1>1. ASSUME NEW k \in Key PROVE LeaseOf(k)' = LeaseOf(k)
  BY <1>1, LeaseKept DEF LinkedOf, Linked
<1> QED
  BY <1>1

\* A step that changes one lease admits its connection or renews it.
LEMMA OneLease ==
    ASSUME NEW k \in Key, \A l \in Key : l # k => LeaseOf(l)' = LeaseOf(l)
    PROVE  /\ LeaseOf(k) = -1 /\ LeaseOf(k)' \in 0..Expires => Tracker!Admit(k)
           /\ LeaseOf(k) >= 0 /\ LeaseOf(k)' \in LeaseOf(k)..Expires => Tracker!Renew(k)
<1> DEFINE L == [l \in Key |-> LeaseOf(l)]
<1>1. L' = [L EXCEPT ![k] = LeaseOf(k)'] /\ L[k] = LeaseOf(k)
  OBVIOUS
<1> HIDE DEF L
<1>2. LeaseOf(k) = -1 => ~ (L[k] >= 0)
  BY <1>1
<1>3. LeaseOf(k) = -1 /\ LeaseOf(k)' \in 0..Expires =>
          ~ (L[k] >= 0) /\ \E n \in 0..Expires : L' = [L EXCEPT ![k] = n]
  BY <1>1, <1>2
<1>4. LeaseOf(k) >= 0 /\ LeaseOf(k)' \in LeaseOf(k)..Expires =>
          L[k] >= 0 /\ \E n \in L[k]..Expires : L' = [L EXCEPT ![k] = n]
  BY <1>1
<1> QED
  BY <1>3, <1>4 DEF L, Tracker!Admit, Tracker!Renew, Tracker!Known

\* addConnExpires renews the lease of the connection whose node it hits, whoever's that is.
LEMMA RefreshRenews ==
    ASSUME PoolInv, TypeOK', NEW c \in Ctx, Refresh(c)
    PROVE  \/ \E k \in Key : Tracker!Renew(k)
           \/ UNCHANGED [k \in Key |-> LeaseOf(k)]
<1> USE DEF PoolInv
<1>1. PICK p \in Slot : ptr[c] = p /\ UNCHANGED <<slab, key>> /\ Expires \in Nat
  BY PoolAssumption DEF Refresh, Goto, TypeOK
<1>2. \A s \in Slot : s # p => ttl'[s] = ttl[s]
  BY <1>1 DEF Refresh, TypeOK
<1>3. CASE p \notin Linked
  BY <1>1, <1>2, <1>3, Stutters DEF Linked
<1>4. CASE p \in Linked
  <2>1. PICK k \in Key : key[p] = k /\ p \in LinkedOf(k) /\ ttl'[p] = Expires
    BY <1>1, <1>4 DEF ChainIntegrity, LinkedOf, Linked, Refresh, TypeOK
  <2>2. ASSUME NEW l \in Key, l # k PROVE LeaseOf(l)' = LeaseOf(l)
    <3>1. LinkedOf(l)' = LinkedOf(l) /\ \A s \in LinkedOf(l) : ttl'[s] = ttl[s]
      BY <1>1, <1>2, <2>1, <2>2 DEF LinkedOf, Linked
    <3> QED
      BY <3>1, LeaseKept
  <2>3. LeaseKnown(k) /\ LeaseKnown(k)'
    BY <2>1, LeasesKnown
  <2>4. p \in LinkedOf(k)'
    BY <1>1, <2>1 DEF LinkedOf, Linked
  <2>5. LeaseOf(k) \in 0..Expires /\ LeaseOf(k)' \in LeaseOf(k)..Expires
    BY <1>1, <2>1, <2>3, <2>4 DEF LeaseKnown, IsLease
  <2>6. Tracker!Renew(k)
    BY <1>1, <2>2, <2>5, OneLease
  <2> QED
    BY <2>1, <2>6
<1> QED
  BY <1>3, <1>4

\* A node under construction carries no lease yet.
LEMMA AllocStutters ==
    ASSUME PoolInv, TypeOK', NEW c \in Ctx, NEW r \in Slot, Alloc(c, r)
    PROVE  UNCHANGED [k \in Key |-> LeaseOf(k)]
<1> USE DEF PoolInv
<1>1. r \notin Linked /\ Linked' = Linked
      /\ \A s \in Linked : key'[s] = key[s] /\ ttl'[s] = ttl[s]
  BY DEF Alloc, TypeOK, Linked
<1>2. ASSUME NEW k \in Key PROVE LeaseOf(k)' = LeaseOf(k)
  BY <1>1, LeaseKept DEF LinkedOf
<1> QED
  BY <1>2

\* myhash_add admits a connection, or renews one that another caller had added meanwhile.
LEMMA LinkAdmitsOrRenews ==
    ASSUME PoolInv, TypeOK', NEW c \in Ctx, Link(c)
    PROVE  \E k \in Key : Tracker!Admit(k) \/ Tracker!Renew(k)
<1> USE DEF PoolInv
<1>1. PICK p \in Slot, k \in Key :
          /\ slab[p] = "fresh" /\ key[p] = k
          /\ key' = key /\ ttl' = ttl /\ slab' = [slab EXCEPT ![p] = "linked"]
  BY DEF Link, Goto, TypeOK, FreshOwned
<1>2. LinkedOf(k)' = LinkedOf(k) \cup {p}
  BY <1>1 DEF LinkedOf, Linked, TypeOK
<1>3. ASSUME NEW l \in Key, l # k PROVE LeaseOf(l)' = LeaseOf(l)
  <2>1. LinkedOf(l)' = LinkedOf(l)
    BY <1>1, <1>3 DEF LinkedOf, Linked, TypeOK
  <2> QED
    BY <1>1, <2>1, LeaseKept
<1>4. LeaseKnown(k) /\ LeaseKnown(k)'
  BY <1>1, LeasesKnown
<1>5. Expires \in Nat /\ ttl[p] \in 0..Expires
  BY <1>1, PoolAssumption DEF TypeOK
<1>6. LeaseOf(k)' \in 0..Expires /\ LeaseOf(k)' >= LeaseOf(k)
  BY <1>1, <1>2, <1>4, <1>5 DEF LeaseKnown, IsLease
<1>7. CASE LeaseOf(k) = -1
  BY <1>3, <1>6, <1>7, OneLease
<1>8. CASE LeaseOf(k) # -1
  <2>1. LeaseOf(k) \in 0..Expires /\ LeaseOf(k)' \in LeaseOf(k)..Expires
    BY <1>4, <1>5, <1>6, <1>8 DEF LeaseKnown
  <2> QED
    BY <1>3, <1>5, <2>1, OneLease
<1> QED
  BY <1>7, <1>8

\* The copies of a connection after a sweep.
LEMMA SweptCopies ==
    ASSUME PoolInv, NEW S, Sweep(S), NEW k \in Key
    PROVE  /\ LinkedOf(k)' = LinkedOf(k) \ Doomed(S)
           /\ \A s \in LinkedOf(k)' : ttl'[s] = ttl[s]
           /\ Doomed(S) \subseteq S
<1>1. Doomed(S) \subseteq S \cap Linked
  BY DoomedAreLinked DEF PoolInv
<1> QED
  BY <1>1 DEF PoolInv, TypeOK, Sweep, Freed, LinkedOf, Linked

\* Whatever a sweep takes, no lease grows.
LEMMA SweptLease ==
    ASSUME PoolInv, TypeOK', NEW S, Sweep(S), NEW k \in Key
    PROVE  LeaseOf(k)' \in -1..Expires /\ LeaseOf(k)' <= LeaseOf(k)
<1>1. LeaseKnown(k) /\ LeaseKnown(k)' /\ Expires \in Nat
  BY LeasesKnown, PoolAssumption DEF PoolInv
<1>2. LinkedOf(k)' \subseteq LinkedOf(k) /\ \A s \in LinkedOf(k)' : ttl'[s] = ttl[s]
  BY SweptCopies
<1>3. CASE LinkedOf(k)' = {}
  BY <1>1, <1>3 DEF LeaseKnown
<1>4. CASE LinkedOf(k)' # {}
  BY <1>1, <1>2, <1>4 DEF LeaseKnown, IsLease
<1> QED
  BY <1>3, <1>4

\* The timer's sweep forgets connections whose lease is spent, and changes no other lease.
LEMMA TimerForgets ==
    ASSUME PoolInv, TypeOK', Sweep(Expired)
    PROVE  \E K \in SUBSET Tracker!Known : Tracker!Forget(K)
<1> DEFINE L == [k \in Key |-> LeaseOf(k)]
<1>1. PICK gone \in SUBSET Key :
          \A k \in Key : k \in gone <=> LeaseOf(k) >= 0 /\ LeaseOf(k)' = -1
  <2>1. {k \in Key : LeaseOf(k) >= 0 /\ LeaseOf(k)' = -1} \in SUBSET Key
    OBVIOUS
  <2> QED
    BY <2>1
<1>2. ASSUME NEW k \in Key
      PROVE  /\ k \in gone => LeaseOf(k) = 0
             /\ k \notin gone => LeaseOf(k)' = LeaseOf(k)
  <2>1. LeaseKnown(k) /\ LeaseKnown(k)' /\ Expires \in Nat
    BY LeasesKnown, PoolAssumption DEF PoolInv
  <2>2. /\ LinkedOf(k)' \subseteq LinkedOf(k) /\ \A s \in LinkedOf(k)' : ttl'[s] = ttl[s]
        /\ \A s \in LinkedOf(k) \ LinkedOf(k)' : ttl[s] = 0
    BY SweptCopies DEF Expired
  <2>3. \A s \in LinkedOf(k) : ttl[s] \in 0..Expires
    BY DEF PoolInv, TypeOK, LinkedOf, Linked
  <2>4. CASE LinkedOf(k)' = {}
    BY <1>1, <2>1, <2>2, <2>4 DEF LeaseKnown, IsLease
  <2>5. CASE LinkedOf(k)' # {}
    BY <1>1, <2>1, <2>2, <2>3, <2>5 DEF LeaseKnown, IsLease
  <2> QED
    BY <2>4, <2>5
<1>3. \A k \in gone : L[k] = 0
  <2>1. \A k \in Key : k \in gone => L[k] = 0
    BY <1>2
  <2> QED
    BY <2>1
<1>4. L' = [k \in Key |-> IF k \in gone THEN -1 ELSE L[k]]
  BY <1>1, <1>2
<1>5. gone \in SUBSET {k \in Key : L[k] >= 0}
  BY <1>1
<1> QED
  BY <1>3, <1>4, <1>5 DEF Tracker!Forget, Tracker!Known

\* An erase lowers leases of the keys it covers, and changes no other lease.
LEMMA ErasesLower ==
    ASSUME PoolInv, TypeOK', NEW K \in EraseSets, Sweep(Related(K))
    PROVE  Tracker!Erase(K)
<1> DEFINE L == [k \in Key |-> LeaseOf(k)]
           left == [k \in K |-> LeaseOf(k)']
<1>1. K \subseteq Key
  BY PoolAssumption
<1>2. \A k \in K : LeaseOf(k)' \in -1..Expires /\ LeaseOf(k)' <= LeaseOf(k)
  BY <1>1, SweptLease
<1>3. ASSUME NEW k \in Key, k \notin K PROVE LeaseOf(k)' = LeaseOf(k)
  <2>1. LinkedOf(k)' = LinkedOf(k) /\ \A s \in LinkedOf(k) : ttl'[s] = ttl[s]
    BY <1>3, SweptCopies DEF Related, LinkedOf
  <2> QED
    BY <2>1, LeaseKept DEF PoolInv
<1>4. left \in [K -> -1..Expires] /\ \A k \in K : left[k] <= L[k]
  BY <1>1, <1>2
<1>5. L' = [k \in Key |-> IF k \in K THEN left[k] ELSE L[k]]
  BY <1>3
<1> QED
  BY <1>4, <1>5 DEF Tracker!Erase

\* When jiffies advances every lease that is not spent gets shorter.
LEMMA TickElapses ==
    ASSUME PoolInv, TypeOK', Tick
    PROVE  Tracker!Elapse
<1>1. ASSUME NEW k \in Key
      PROVE  LeaseOf(k)' = IF LeaseOf(k) > 0 THEN LeaseOf(k) - 1 ELSE LeaseOf(k)
  <2>1. LeaseKnown(k) /\ LeaseKnown(k)' /\ Expires \in Nat
    BY LeasesKnown, PoolAssumption DEF PoolInv
  <2>2. LinkedOf(k)' = LinkedOf(k)
    BY DEF Tick, LinkedOf, Linked
  <2>3. \A s \in LinkedOf(k) : /\ ttl[s] \in 0..Expires
                               /\ ttl'[s] = IF ttl[s] > 0 THEN ttl[s] - 1 ELSE 0
    BY DEF Tick, PoolInv, TypeOK, LinkedOf, Linked
  <2> QED
    BY <2>1, <2>2, <2>3 DEF LeaseKnown, IsLease
<1> QED
  BY <1>1 DEF Tracker!Elapse

--------------------------------------------------------------------------------
(* The refinement *)

\* A sound pool's step is a step of the tracker or leaves the leases alone.
LEMMA StepsOfTracker ==
    ASSUME PoolInv, [PoolNext]_poolVars
    PROVE  Tracker!TrackerNext \/ UNCHANGED [k \in Key |-> LeaseOf(k)]
<1> DEFINE Goal == Tracker!TrackerNext \/ UNCHANGED [k \in Key |-> LeaseOf(k)]
<1>1. TypeOK /\ TypeOK'
  BY NextInv DEF PoolInv
<1>2. ASSUME UNCHANGED <<slab, key, ttl>> PROVE Goal
  BY <1>1, <1>2, Stutters
<1>3. ASSUME NEW c \in Ctx, Work(c) PROVE Goal
  <2>1. CASE (\E r \in Slot : LookupHit(c, r)) \/ LookupMiss(c) \/ Use(c)
    BY <1>2, <2>1 DEF LookupHit, LookupMiss, Use, nodes
  <2>2. CASE Reject(c) \/ AllocFails(c) \/ FormConns(c)
    BY <1>2, <2>2 DEF Reject, AllocFails, FormConns, nodes
  <2>3. CASE Refresh(c)
    BY <1>1, <2>3, RefreshRenews DEF Tracker!TrackerNext
  <2>4. CASE \E r \in Slot : Alloc(c, r)
    BY <1>1, <2>4, AllocStutters
  <2>5. CASE Link(c)
    BY <1>1, <2>5, LinkAdmitsOrRenews DEF Tracker!TrackerNext
  <2> QED
    BY <1>3, <2>1, <2>2, <2>3, <2>4, <2>5 DEF Work
<1>4. ASSUME NEW c \in Ctx, \/ \E l \in Key : Call(c, l)
                            \/ IndexFaults(c) \/ FormCount(c) \/ FormOverruns(c)
      PROVE  Goal
  BY <1>2, <1>4 DEF Call, IndexFaults, FormCount, FormOverruns, nodes
<1>5. CASE WalkFaults \/ Panic \/ UNCHANGED poolVars
  BY <1>2, <1>5 DEF WalkFaults, Panic, nodes, poolVars
<1>6. CASE TimerFire
  BY <1>1, <1>6, TimerForgets DEF TimerFire, Tracker!TrackerNext
<1>7. CASE \E K \in EraseSets : EraseConnRelated(K)
  BY <1>1, <1>7, ErasesLower DEF EraseConnRelated, Tracker!TrackerNext
<1>8. CASE Tick
  BY <1>1, <1>8, TickElapses DEF Tracker!TrackerNext
<1> HIDE DEF Goal
<1> QED
  BY <1>3, <1>4, <1>5, <1>6, <1>7, <1>8 DEF PoolNext, PoolStep, Goal

\* Through races, stale pointers, copies and failing allocations the pool keeps the
\* tracker's promise.
THEOREM PoolKeepsLeases == PoolSpec => ImplementsTracker
<1>1. PoolInit => Tracker!TrackerInit
  BY DEF PoolInit, Tracker!TrackerInit, LeaseOf, LinkedOf, Linked
<1>2. PoolInv /\ [PoolNext]_poolVars => [Tracker!TrackerNext]_([k \in Key |-> LeaseOf(k)])
  BY StepsOfTracker
<1>3. PoolInit => PoolInv
  BY InitInv
<1>4. PoolInv /\ [PoolNext]_poolVars => PoolInv'
  BY NextInv
<1> QED
  BY <1>1, <1>2, <1>3, <1>4, PTL DEF PoolSpec, ImplementsTracker, Tracker!TrackerSpec
================================================================================
