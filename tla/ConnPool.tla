------------------------------- MODULE ConnPool -------------------------------
(***************************************************************************)
(* The connection pool of the kernel module: firewall_module/source/       *)
(* connect.c over firewall_module/source/myhash.c.  The pool is a chained  *)
(* hash table of kzalloc'ed nodes behind one rwlock, connLock.  Packet     *)
(* contexts look a connection up (hasConn), refresh or use what they found *)
(* AFTER the lock is dropped, or insert a new node (addConn); a timer      *)
(* sweeps expired nodes (updateConn), rule changes sweep related ones      *)
(* (eraseConnRelated), and netlink requests dump the table (formAllConns). *)
(*                                                                         *)
(* A critical section of connLock is one action; everything the code does  *)
(* outside the lock is a step of its own.  Time is counted in ticks of     *)
(* CONN_ROLL_INTERVAL / Interval seconds.                                  *)
(***************************************************************************)
EXTENDS Integers, FiniteSets, SequencesExt

CONSTANTS
    Slot,       \* connectionNode-sized cells of the slab
    Key,        \* connection keys: (saddr, daddr, sport << 16 | dport)
    Bucket,     \* the hash table's buckets
    HashOf,     \* Key -> Bucket: myhash_JEN over the 12-byte index
    Ctx,        \* concurrent callers: softirqs of the CPUs, local output, netlink
    NoSlot,     \* the NULL pointer
    NoKey,      \* no packet in hand, or no node in the slot
    Expires,    \* CONN_EXPIRES, in ticks
    Interval,   \* CONN_ROLL_INTERVAL, in ticks
    EraseSets,  \* sets of keys the rules handed to eraseConnRelated can cover
    MayFail     \* the allocations and accesses that can go wrong in this instance

\* "lookup": myhash_find cannot allocate its probe; "index": createindex returns
\* NULL; "node": addConn's kzalloc fails though a slot is free; "walk": a freed
\* node's next pointer is garbage; "overrun": a dump longer than its buffer hits
\* memory that matters; "panic": a caller dies outside the pool and the kernel with it.
Failures == {"lookup", "index", "node", "walk", "overrun", "panic"}

ASSUME PoolAssumption ==
    /\ IsFiniteSet(Slot) /\ IsFiniteSet(Key) /\ IsFiniteSet(Ctx)
    /\ NoSlot \notin Slot /\ NoKey \notin Key
    /\ HashOf \in [Key -> Bucket]
    /\ Expires \in Nat \ {0} /\ Interval \in Nat \ {0}
    /\ EraseSets \subseteq SUBSET Key
    /\ MayFail \subseteq Failures

VARIABLES
    chain,   \* Bucket -> sequence of slots, head of the hlist first
    count,   \* ctable->count
    slab,    \* state of each slot: "free", "fresh" (allocated, not linked), "linked"
    key,     \* node->key, NoKey in a free slot
    ttl,     \* node->expires - jiffies, floored at 0
    timer,   \* ticks until conn_timer is due
    pc,      \* where each context stands
    pkt,     \* key of the packet the context is handling
    ptr,     \* the node pointer the context holds
    snap,    \* the count formAllConns read before it took the lock
    oops     \* a fault under connLock: the kernel died, or nobody gets the lock again

nodes    == <<chain, count, slab, key, ttl>>
contexts == <<pc, pkt, ptr, snap>>
poolVars == <<nodes, timer, contexts, oops>>

--------------------------------------------------------------------------------
(* The table as its readers see it. *)

Linked == {s \in Slot : slab[s] = "linked"}

LinkedOf(k) == {s \in Linked : key[s] = k}

\* Slip: a lookup that skips what the timer has not swept yet.
HitsUnexpired(k) == {i \in DOMAIN chain[HashOf[k]] :
                        key[chain[HashOf[k]][i]] = k /\ ttl[chain[HashOf[k]][i]] > 0}

\* Positions of the nodes of bucket b's chain that carry key k.
Hits(k) == {i \in DOMAIN chain[HashOf[k]] : key[chain[HashOf[k]][i]] = k}

\* Slip: a lookup that stops at its first match.
AnswersFirst(k, s) ==
    \E i \in Hits(k) :
        /\ s = chain[HashOf[k]][i]
        /\ \A j \in Hits(k) : i <= j

\* myhash_find does not stop at a match: the LAST matching node of the chain wins.
Answers(k, s) ==
    \E i \in Hits(k) :
        /\ s = chain[HashOf[k]][i]
        /\ \A j \in Hits(k) : j <= i

\* Position i holds the first node of bucket b that is in S.
First(b, i, S) ==
    /\ i \in DOMAIN chain[b] /\ chain[b][i] \in S
    /\ \A j \in DOMAIN chain[b] : chain[b][j] \in S => i <= j

\* A sweep walks with the plain (not _safe) iterator and frees under its feet:
\* hash_del leaves next = NULL in the freed node, so the walk of a bucket ends
\* at its first deletion.
Doomed(S) == {s \in Slot : \E b \in Bucket : \E i \in DOMAIN chain[b] :
                               First(b, i, S) /\ s = chain[b][i]}

\* Slip: off by one tick.
ExpiredEarly == {s \in Linked : ttl[s] <= 1}

\* checkTimer: jiffies >= expires.
Expired == {s \in Linked : ttl[s] = 0}

\* getMatched on a node, the rule's protocol being IPPROTO_IP.
Related(K) == {s \in Linked : key[s] \in K}

--------------------------------------------------------------------------------
PoolInit ==
    /\ chain = [b \in Bucket |-> <<>>]
    /\ count = 0
    /\ slab = [s \in Slot |-> "free"]
    /\ key = [s \in Slot |-> NoKey]
    /\ ttl = [s \in Slot |-> 0]
    /\ timer = Interval
    /\ pc = [c \in Ctx |-> "idle"]
    /\ pkt = [c \in Ctx |-> NoKey]
    /\ ptr = [c \in Ctx |-> NoSlot]
    /\ snap = [c \in Ctx |-> 0]
    /\ oops = FALSE

\* Context c, at program point `at`, moves on to `to`.
Goto(c, at, to) == ~oops /\ pc[c] = at /\ pc' = [pc EXCEPT ![c] = to]

\* Context c returns to whoever called it and forgets what it held.
Return(c) ==
    /\ pkt' = [pkt EXCEPT ![c] = NoKey]
    /\ ptr' = [ptr EXCEPT ![c] = NoSlot]
    /\ snap' = [snap EXCEPT ![c] = 0]

\* A packet enters a hook, which asks for its connection.
Call(c, k) ==
    /\ Goto(c, "idle", "lookup")
    /\ pkt' = [pkt EXCEPT ![c] = k]
    /\ UNCHANGED <<nodes, timer, ptr, snap, oops>>

\* Slip: the result is not assigned.
LookupHitLosesNode(c, s) ==
    /\ Goto(c, "lookup", "refresh")
    /\ Answers(pkt[c], s)
    /\ UNCHANGED <<nodes, timer, pkt, ptr, snap, oops>>

\* hasConn under read_lock: a node answers.
LookupHit(c, s) ==
    /\ Goto(c, "lookup", "refresh")
    /\ Answers(pkt[c], s)
    /\ ptr' = [ptr EXCEPT ![c] = s]
    /\ UNCHANGED <<nodes, timer, pkt, snap, oops>>

\* hasConn under read_lock: nothing answers, or myhash_find could not allocate
\* its probe and returns the same NULL.
LookupMiss(c) ==
    /\ Goto(c, "lookup", "miss")
    /\ Hits(pkt[c]) = {} \/ "lookup" \in MayFail
    /\ UNCHANGED <<nodes, timer, pkt, ptr, snap, oops>>

\* Slip: a refresh by the other constant of structs.h.
RefreshShort(c) ==
    /\ Goto(c, "refresh", "use")
    /\ ttl' = IF slab[ptr[c]] = "free" THEN ttl ELSE [ttl EXCEPT ![ptr[c]] = Interval]
    /\ UNCHANGED <<chain, count, slab, key, timer, pkt, ptr, snap, oops>>

\* addConnExpires: the pointer found under the read lock is written under the
\* write lock, whatever became of the node in between.  A write into a free slot
\* leaves nothing behind (kzalloc clears it).
Refresh(c) ==
    /\ Goto(c, "refresh", "use")
    /\ ttl' = IF slab[ptr[c]] = "free" THEN ttl ELSE [ttl EXCEPT ![ptr[c]] = Expires]
    /\ UNCHANGED <<chain, count, slab, key, timer, pkt, ptr, snap, oops>>

\* The hook reads needLog or natType through the pointer and lets the packet go.
Use(c) ==
    /\ Goto(c, "use", "idle")
    /\ Return(c)
    /\ UNCHANGED <<nodes, timer, oops>>

\* The hook has no connection and does not add one.
Reject(c) ==
    /\ Goto(c, "miss", "idle")
    /\ Return(c)
    /\ UNCHANGED <<nodes, timer, oops>>

\* Slip: a node is handed out that another caller is still filling in.
AllocShared(c, s) ==
    /\ Goto(c, "miss", "link")
    /\ slab[s] \in {"free", "fresh"}
    /\ slab' = [slab EXCEPT ![s] = "fresh"]
    /\ key' = [key EXCEPT ![s] = pkt[c]]
    /\ ttl' = [ttl EXCEPT ![s] = Expires]
    /\ ptr' = [ptr EXCEPT ![c] = s]
    /\ UNCHANGED <<chain, count, timer, pkt, snap, oops>>

\* addConn: kzalloc and the fields of the node, before the lock is taken.
Alloc(c, s) ==
    /\ Goto(c, "miss", "link")
    /\ slab[s] = "free"
    /\ slab' = [slab EXCEPT ![s] = "fresh"]
    /\ key' = [key EXCEPT ![s] = pkt[c]]
    /\ ttl' = [ttl EXCEPT ![s] = Expires]
    /\ ptr' = [ptr EXCEPT ![c] = s]
    /\ UNCHANGED <<chain, count, timer, pkt, snap, oops>>

\* addConn: kzalloc fails, the connection is not tracked.
AllocFails(c) ==
    /\ Goto(c, "miss", "idle")
    /\ "node" \in MayFail \/ \A s \in Slot : slab[s] # "free"
    /\ Return(c)
    /\ UNCHANGED <<nodes, timer, oops>>

\* addConn under write_lock: myhash_add counts the node and puts it at the head
\* of its bucket.  Nobody looks whether the key is there already.
Link(c) ==
    /\ Goto(c, "link", "idle")
    /\ LET b == HashOf[pkt[c]] IN chain' = [chain EXCEPT ![b] = <<ptr[c]>> \o @]
    /\ count' = count + 1
    /\ slab' = [slab EXCEPT ![ptr[c]] = "linked"]
    /\ Return(c)
    /\ UNCHANGED <<key, ttl, timer, oops>>

\* createindex returns NULL and myhash_JEN reads through it, under connLock.
IndexFaults(c) ==
    /\ ~oops /\ "index" \in MayFail
    /\ pc[c] \in {"lookup", "link"}
    /\ oops' = TRUE
    /\ UNCHANGED <<nodes, timer, contexts>>

\* myhash_del: kfree, and hash_del.
Freed(S) ==
    /\ slab' = [s \in Slot |-> IF s \in Doomed(S) THEN "free" ELSE slab[s]]
    /\ key' = [s \in Slot |-> IF s \in Doomed(S) THEN NoKey ELSE key[s]]
    /\ ttl' = [s \in Slot |-> IF s \in Doomed(S) THEN 0 ELSE ttl[s]]

Unlinked(S) ==
    chain' = [b \in Bucket |->
                 IF \E i \in DOMAIN chain[b] : First(b, i, S)
                 THEN RemoveAt(chain[b], CHOOSE i \in DOMAIN chain[b] : First(b, i, S))
                 ELSE chain[b]]

\* Slips: myhash_del without hash_del, and without count--.
SweepKeepsChain(S) == Freed(S) /\ chain' = chain /\ count' = count - Cardinality(Doomed(S))
SweepForgetsCount(S) == Freed(S) /\ Unlinked(S) /\ count' = count

\* One sweep over all buckets: myhash_del for the first node of S in each.
Sweep(S) == Freed(S) /\ Unlinked(S) /\ count' = count - Cardinality(Doomed(S))

\* Slip: the timer is not armed again.
TimerFireOnce ==
    /\ ~oops /\ timer = 0
    /\ Sweep(Expired)
    /\ timer' = -1
    /\ UNCHANGED <<contexts, oops>>

\* conn_timer_callback: updateConn, then mod_timer.
TimerFire ==
    /\ ~oops /\ timer = 0
    /\ Sweep(Expired)
    /\ timer' = Interval
    /\ UNCHANGED <<contexts, oops>>

\* eraseConnRelated for a rule that covers the keys K, all protocols.
EraseConnRelated(K) ==
    /\ ~oops
    /\ Sweep(Related(K))
    /\ UNCHANGED <<timer, contexts, oops>>

\* The same sweeps where the memory of the freed node was reused or poisoned
\* before its next pointer is read.
WalkFaults ==
    /\ ~oops /\ "walk" \in MayFail
    /\ \/ timer = 0 /\ Doomed(Expired) # {}
       \/ \E K \in EraseSets : Doomed(Related(K)) # {}
    /\ oops' = TRUE
    /\ UNCHANGED <<nodes, timer, contexts>>

\* formAllConns reads the count, then waits for the lock.
FormCount(c) ==
    /\ Goto(c, "idle", "form")
    /\ snap' = [snap EXCEPT ![c] = count]
    /\ UNCHANGED <<nodes, timer, pkt, ptr, oops>>

\* formAllConns under read_lock: sizes the answer by the snapshot, copies every node.
FormConns(c) ==
    /\ Goto(c, "form", "idle")
    /\ Return(c)
    /\ UNCHANGED <<nodes, timer, oops>>

\* formAllConns copies more nodes than the buffer sized by the snapshot can hold.
FormOverruns(c) ==
    /\ ~oops /\ "overrun" \in MayFail
    /\ pc[c] = "form" /\ snap[c] < Cardinality(Linked)
    /\ oops' = TRUE
    /\ UNCHANGED <<nodes, timer, contexts>>

\* Some hook panics while it works on something else than the pool.
Panic ==
    /\ ~oops /\ "panic" \in MayFail
    /\ oops' = TRUE
    /\ UNCHANGED <<nodes, timer, contexts>>

\* jiffies advances.
Tick ==
    /\ ~oops
    /\ ttl' = [s \in Slot |-> IF ttl[s] > 0 THEN ttl[s] - 1 ELSE 0]
    /\ timer' = IF timer > 0 THEN timer - 1 ELSE timer
    /\ UNCHANGED <<chain, count, slab, key, contexts, oops>>

--------------------------------------------------------------------------------
\* What a context does once it has been called.
Work(c) ==
    \/ \E s \in Slot : LookupHit(c, s)
    \/ LookupMiss(c)
    \/ Refresh(c)
    \/ Use(c)
    \/ Reject(c)
    \/ \E s \in Slot : Alloc(c, s)
    \/ AllocFails(c)
    \/ Link(c)
    \/ FormConns(c)

\* Everything but the passage of time.
PoolStep ==
    \/ \E c \in Ctx, k \in Key : Call(c, k)
    \/ \E c \in Ctx : Work(c)
    \/ \E c \in Ctx : IndexFaults(c)
    \/ \E c \in Ctx : FormCount(c)
    \/ \E c \in Ctx : FormOverruns(c)
    \/ TimerFire
    \/ \E K \in EraseSets : EraseConnRelated(K)
    \/ WalkFaults
    \/ Panic

PoolNext == PoolStep \/ Tick

PoolSpec == PoolInit /\ [][PoolNext]_poolVars

--------------------------------------------------------------------------------
(* Safety. *)

\* The type invariant.
TypeOK ==
    /\ chain \in [Bucket -> Seq(Slot)]
    /\ count \in Int
    /\ slab \in [Slot -> {"free", "fresh", "linked"}]
    /\ key \in [Slot -> Key \cup {NoKey}]
    /\ ttl \in [Slot -> 0..Expires]
    /\ timer \in 0..Interval
    /\ pc \in [Ctx -> {"idle", "lookup", "refresh", "use", "miss", "link", "form"}]
    /\ pkt \in [Ctx -> Key \cup {NoKey}]
    /\ ptr \in [Ctx -> Slot \cup {NoSlot}]
    /\ snap \in [Ctx -> Int]
    /\ oops \in BOOLEAN
    /\ \A c \in Ctx : pc[c] \in {"lookup", "refresh", "use", "miss", "link"} => pkt[c] \in Key
    /\ \A c \in Ctx : pc[c] \in {"refresh", "use", "link"} => ptr[c] \in Slot

\* No node is reachable twice, every reachable node is allocated and hangs in the
\* bucket its key hashes to, and no linked node is unreachable: the sweeps free
\* exactly what they unlink (myhash_del), whatever the contexts hold meanwhile.
ChainIntegrity ==
    /\ \A a, b \in Bucket : \A i \in DOMAIN chain[a], j \in DOMAIN chain[b] :
            chain[a][i] = chain[b][j] => a = b /\ i = j
    /\ \A b \in Bucket : \A i \in DOMAIN chain[b] :
            LET s == chain[b][i] IN
            slab[s] = "linked" /\ key[s] \in Key /\ HashOf[key[s]] = b
    /\ \A s \in Linked : key[s] \in Key /\ \E i \in DOMAIN chain[HashOf[key[s]]] :
            chain[HashOf[key[s]]][i] = s

\* A node between kzalloc and myhash_add belongs to exactly one context, which
\* holds it for the packet whose key the node carries: no sweep and no other
\* context can free, link or adopt it, and none leaks.
FreshOwned ==
    /\ \A s \in Slot : slab[s] = "fresh" <=> \E c \in Ctx : pc[c] = "link" /\ ptr[c] = s
    /\ \A c, d \in Ctx : pc[c] = "link" /\ pc[d] = "link" /\ ptr[c] = ptr[d] => c = d
    /\ \A c \in Ctx : pc[c] = "link" => key[ptr[c]] = pkt[c]

\* ctable->count, which sizes the answer of formAllConns, is the number of linked
\* nodes: count++ and count-- under the lock match the links and unlinks.
CountExact == count = Cardinality(Linked)

\* Contexts that have looked k up in vain and may still insert it.
Missed(k) == {c \in Ctx : pc[c] \in {"miss", "link"} /\ pkt[c] = k}

\* Nothing keeps two contexts from inserting the same connection, but the check
\* before the insertion bounds the copies: the nodes of a key and the contexts
\* that already missed it are never more than the contexts there are (unless
\* lookups fail for lack of memory, when nothing bounds them).
BoundedDuplicates ==
    "lookup" \notin MayFail =>
        \A k \in Key : Cardinality(LinkedOf(k)) + Cardinality(Missed(k)) <= Cardinality(Ctx)

\* A later copy never shadows an earlier one: the node that answers for a key goes
\* on answering for it until it is itself freed, so its needLog and natType stay
\* the ones the hooks see.
OldestAnswers ==
    [][\A k \in Key, s \in Slot :
          Answers(k, s) /\ slab'[s] = "linked" => Answers(k, s)']_poolVars

\* A pointer held from an earlier lookup never brings a dead connection back, and
\* never shortens the life of the node it hits: a key enters the pool only by the
\* insertion of a context that is handling it, and apart from the passage of time
\* a node's remaining life only grows while the node stays linked.
StaleWritesOnlyExtend ==
    [][/\ \A k \in Key : LinkedOf(k) = {} /\ LinkedOf(k)' # {} =>
               \E c \in Ctx : pc[c] = "link" /\ pkt[c] = k /\ pc'[c] = "idle"
       /\ \A s \in Slot : slab[s] = "linked" /\ slab'[s] = "linked" /\ ttl'[s] < ttl[s] =>
               Tick]_poolVars

--------------------------------------------------------------------------------
(* The pool implements the abstract tracker: what is left of a connection's     *)
(* lease is the longest life among the nodes that carry its key.                *)

LeaseOf(k) ==
    IF LinkedOf(k) = {} THEN -1
    ELSE CHOOSE n \in 0..Expires :
            /\ \E s \in LinkedOf(k) : ttl[s] = n
            /\ \A s \in LinkedOf(k) : ttl[s] <= n

Tracker == INSTANCE ConnTracker WITH lease <- [k \in Key |-> LeaseOf(k)]

\* Through races, stale pointers, duplicates and failing allocations the pool still
\* keeps the tracker's promise: a connection leaves only when its lease has run out
\* or an erase covers it, and no lease shrinks but by the passage of time.
ImplementsTracker == Tracker!TrackerSpec

--------------------------------------------------------------------------------
(* Liveness. *)

\* No packet and no dump is using the pool.
Quiet == \A c \in Ctx : pc[c] = "idle"

\* When traffic stops for good the timer empties the pool, although each of its
\* sweeps removes at most one node per bucket.
QuiescentDrains == <>[](Quiet /\ ~oops) => <>[](Linked = {})

--------------------------------------------------------------------------------
(* What a comment of the code says of the pool, and the code does not do.        *)

\* connect.c, hasConn: "reset the timeout" of the connection that was found.
RefreshesTheFound ==
    [][\A c \in Ctx : pc[c] = "refresh" /\ pc'[c] = "use" =>
          slab[ptr[c]] = "linked" /\ key[ptr[c]] = pkt[c]]_poolVars
================================================================================
