-------------------------------- MODULE FWRules --------------------------------
(***************************************************************************)
(* The filter rules of the kernel module: firewall_module/source/FWRules.c,*)
(* a singly linked list of kzalloc'ed rules behind the rwlock FWRuleLock.  *)
(* Netlink requests append, remove and dump rules, each in the context of  *)
(* the process that sent it; packet contexts look for the first rule that  *)
(* matches (matchFWRules).  A rule's masks, port ranges and protocol are   *)
(* the set of packet keys it covers (getMatched).                          *)
(*                                                                         *)
(* A critical section of FWRuleLock is one action, but removeFWRules is    *)
(* not: it holds the lock while it hands each removed rule to the          *)
(* connection pool, whose own lock it takes and drops every time.          *)
(* A request that does not get the lock at once waits for it, spinning;    *)
(* the kernel's queued rwlock lets no process read past it, but softirqs.  *)
(***************************************************************************)
EXTENDS Integers, FiniteSets, SequencesExt

CONSTANTS
    Cell,       \* FWRule-sized cells of the slab
    Name,       \* rule names
    NoName,     \* the empty string: insert at the head
    Key,        \* packet keys
    CoverSets,  \* the sets of keys that rules can cover
    Admin,      \* netlink requests in progress
    NoCell,     \* the NULL pointer
    NoRule,     \* contents of a free cell
    NoAdmin     \* nobody holds FWRuleLock for writing

Action == {"accept", "drop"}

RuleValue == [name : Name, covers : CoverSets, action : Action]

ASSUME RulesAssumption ==
    /\ NoCell \notin Cell /\ NoName \notin Name /\ NoAdmin \notin Admin
    /\ NoRule \notin RuleValue
    /\ CoverSets \subseteq SUBSET Key

VARIABLES
    ruleList,  \* the cells from ruleHead on
    rule,      \* contents of each cell
    writer,    \* the request that holds FWRuleLock for writing
    condemned, \* cells removeFWRules has yet to unlink
    waiting,   \* the requests that spin in write_lock(&FWRuleLock)
    leaked,    \* a task died in a critical section and left FWRuleLock read-locked
    formHead,  \* per request: ruleHead as formAllFWRules read it before locking
    overrun    \* a dump wrote past its buffer: the model ends here

ruleVars == <<ruleList, rule, writer, condemned, waiting, leaked, formHead, overrun>>

\* formHead of a request that is not dumping the rules.
NotForming == "none"

--------------------------------------------------------------------------------
Positions == DOMAIN ruleList

Named(n) == {i \in Positions : rule[ruleList[i]].name = n}

\* getMatched along the list: position i holds the first rule that covers k.
FirstMatch(k, i) ==
    /\ i \in Positions /\ k \in rule[ruleList[i]].covers
    /\ \A j \in Positions : k \in rule[ruleList[j]].covers => i <= j

\* The rule that decides about packets with key k, if one does.
Decides(k, c) == \E i \in Positions : FirstMatch(k, i) /\ c = ruleList[i]

Matched(k) == \E i \in Positions : k \in rule[ruleList[i]].covers

\* Slip: without the first loop the head is never removed.
UnlinksNoHead(n) ==
    LET unlinked[i \in Positions] == i \in Named(n) /\ i > 1 /\ ~unlinked[i - 1]
    IN {i \in Positions : unlinked[i]}

\* What removeFWRules(n) unlinks.  Its first loop takes every leading match; the
\* second one looks only at the successor of a rule it keeps, and steps over the
\* rule that follows one it unlinked.
Unlinks(n) ==
    LET unlinked[i \in Positions] ==
            /\ i \in Named(n)
            /\ (\A j \in 1..(i - 1) : j \in Named(n)) \/ ~unlinked[i - 1]
    IN {i \in Positions : unlinked[i]}

Head1 == IF ruleList = <<>> THEN NoCell ELSE ruleList[1]

--------------------------------------------------------------------------------
RulesInit ==
    /\ ruleList = <<>>
    /\ rule = [c \in Cell |-> NoRule]
    /\ writer = NoAdmin
    /\ condemned = {}
    /\ waiting = {}
    /\ leaked = FALSE
    /\ formHead = [a \in Admin |-> NotForming]
    /\ overrun = FALSE

\* Requests are served one after the other by the process that sends them.
Serving(a) == writer # a /\ formHead[a] = NotForming

\* read_lock in a softirq, which overtakes the writers that wait.
CanReadInSoftirq == writer = NoAdmin /\ ~overrun

\* read_lock in a process, which queues behind them.  Which comes first makes no
\* difference to a reader unless the writer waits for a lock that a dead one keeps:
\* then neither gets in.
CanRead == CanReadInSoftirq /\ (leaked => waiting = {})

\* Slip: a lock that a dead reader does not keep.
CanWriteAnyway == writer = NoAdmin /\ ~overrun

CanWrite == writer = NoAdmin /\ ~leaked /\ ~overrun

\* write_lock of an append or a removal that finds the lock taken.
WaitToWrite(a) ==
    /\ Serving(a) /\ a \notin waiting /\ ~CanWrite
    /\ waiting' = waiting \cup {a}
    /\ UNCHANGED <<ruleList, rule, writer, condemned, leaked, formHead, overrun>>

Granted(a) == Serving(a) /\ CanWrite /\ waiting' = waiting \ {a}

\* Slip: the wrong pointer is linked in.
InsertDangling(a, c, r, i) ==
    /\ Granted(a)
    /\ rule[c] = NoRule
    /\ rule' = [rule EXCEPT ![c] = r]
    /\ ruleList' = InsertAt(ruleList, i, NoCell)
    /\ UNCHANGED <<writer, condemned, leaked, formHead, overrun>>

\* appendFWRules found its place: the new rule r gets cell c and position i.
Insert(a, c, r, i) ==
    /\ Granted(a)
    /\ rule[c] = NoRule
    /\ rule' = [rule EXCEPT ![c] = r]
    /\ ruleList' = InsertAt(ruleList, i, c)
    /\ UNCHANGED <<writer, condemned, leaked, formHead, overrun>>

\* Slip: the new head does not point to the old one.
AppendAtHeadAlone(a, c, r, after) ==
    /\ ruleList = <<>> \/ after = NoName
    /\ Granted(a)
    /\ rule[c] = NoRule
    /\ rule' = [rule EXCEPT ![c] = r]
    /\ ruleList' = <<c>>
    /\ UNCHANGED <<writer, condemned, leaked, formHead, overrun>>

\* appendFWRules into an empty list, whatever name it is told to follow, or with
\* no name to follow: the rule becomes the head.
AppendAtHead(a, c, r, after) ==
    /\ ruleList = <<>> \/ after = NoName
    /\ Insert(a, c, r, 1)

\* appendFWRules behind the first rule of that name ...
AppendAfter(a, c, r, after) ==
    /\ ruleList # <<>>
    /\ \E i \in Named(after) :
        /\ \A j \in Named(after) : i <= j
        /\ Insert(a, c, r, i + 1)

\* ... which there is not: the new rule is freed again and the request fails.
AppendFails(a, after) ==
    /\ ruleList # <<>> /\ Named(after) = {}
    /\ Granted(a)
    /\ UNCHANGED <<ruleList, rule, writer, condemned, leaked, formHead, overrun>>

\* removeFWRules takes the lock; what it will unlink is settled by the list.
RemoveStart(a, n) ==
    /\ Granted(a)
    /\ writer' = a
    /\ condemned' = {ruleList[i] : i \in Unlinks(n)}
    /\ UNCHANGED <<ruleList, rule, leaked, formHead, overrun>>

\* Slip: what is unlinked is not freed.
RemoveOneLeaks(a) ==
    /\ writer = a
    /\ \E i \in Positions :
        /\ ruleList[i] \in condemned
        /\ ruleList' = RemoveAt(ruleList, i)
        /\ condemned' = condemned \ {ruleList[i]}
    /\ UNCHANGED <<rule, writer, waiting, leaked, formHead, overrun>>

\* One turn of its loops: unlink a rule, hand it to eraseConnRelated, free it.
RemoveOne(a) ==
    /\ writer = a
    /\ \E i \in Positions :
        /\ ruleList[i] \in condemned
        /\ \A j \in 1..(i - 1) : ruleList[j] \notin condemned
        /\ ruleList' = RemoveAt(ruleList, i)
        /\ rule' = [rule EXCEPT ![ruleList[i]] = NoRule]
        /\ condemned' = condemned \ {ruleList[i]}
    /\ UNCHANGED <<writer, waiting, leaked, formHead, overrun>>

\* removeFWRules drops the lock and returns.
RemoveDone(a) ==
    /\ writer = a /\ condemned = {}
    /\ writer' = NoAdmin
    /\ UNCHANGED <<ruleList, rule, condemned, waiting, leaked, formHead, overrun>>

\* formAllFWRules reads ruleHead into r, then asks for the lock.
FormHead(a) ==
    /\ Serving(a) /\ a \notin waiting
    /\ formHead' = [formHead EXCEPT ![a] = Head1]
    /\ UNCHANGED <<ruleList, rule, writer, condemned, waiting, leaked, overrun>>

\* formAllFWRules gets the lock and returns.
FormDone(a) ==
    /\ formHead[a] # NotForming /\ CanRead
    /\ formHead' = [formHead EXCEPT ![a] = NotForming]
    /\ UNCHANGED <<writer, condemned, waiting>>

\* Slip: the walk stops ahead of the last rule.
CountsOneFewer(h) == ruleList # <<>>

\* The rules from h on may be fewer than those from ruleHead on: one was put ahead
\* of h, or h is freed memory, from which the walk goes on somewhere.
CountsFewer(h) ==
    IF h = NoCell THEN ruleList # <<>> ELSE h # Head1 /\ Len(ruleList) > 1

\* It counts the rules from r on and copies those from ruleHead on, or has no memory.
FormAllFWRules(a) ==
    /\ FormDone(a)
    /\ UNCHANGED <<ruleList, rule, leaked, overrun>>

\* It counts fewer than it copies.  What follows its buffer in the slab may be a
\* rule, whose fields become anything.
FormOverruns(a) ==
    /\ FormDone(a) /\ CountsFewer(formHead[a])
    /\ overrun' = TRUE
    /\ \/ rule' = rule
       \/ \E i \in Positions, r \in RuleValue : rule' = [rule EXCEPT ![ruleList[i]] = r]
    /\ UNCHANGED <<ruleList, leaked>>

\* The walk from a rule that was freed meanwhile runs into foreign memory and the
\* request's process dies under the lock.
FormFaults(a) ==
    /\ formHead[a] \in Cell /\ rule[formHead[a]] = NoRule
    /\ FormDone(a)
    /\ leaked' = TRUE
    /\ UNCHANGED <<ruleList, rule, overrun>>

\* matchFWRules in a process's context finds a rule and stores it through the NULL
\* pointer hook_main gave it: the process dies under the lock.
MatchKills(k) ==
    /\ CanRead /\ Matched(k)
    /\ leaked' = TRUE
    /\ UNCHANGED <<ruleList, rule, writer, condemned, waiting, formHead, overrun>>

--------------------------------------------------------------------------------
Request(a) ==
    \/ \E c \in Cell, r \in RuleValue, after \in Name \cup {NoName} :
           AppendAtHead(a, c, r, after) \/ AppendAfter(a, c, r, after)
    \/ \E n \in Name : AppendFails(a, n) \/ RemoveStart(a, n)
    \/ WaitToWrite(a)
    \/ FormHead(a)

Serve(a) ==
    RemoveOne(a) \/ RemoveDone(a) \/ FormAllFWRules(a) \/ FormOverruns(a) \/ FormFaults(a)

RulesNext ==
    \/ \E a \in Admin : Request(a) \/ Serve(a)
    \/ \E k \in Key : MatchKills(k)

RulesSpec == RulesInit /\ [][RulesNext]_ruleVars

--------------------------------------------------------------------------------
(* Safety. *)

\* The type invariant.
RulesTypeOK ==
    /\ ruleList \in Seq(Cell)
    /\ rule \in [Cell -> RuleValue \cup {NoRule}]
    /\ writer \in Admin \cup {NoAdmin}
    /\ condemned \subseteq Cell
    /\ waiting \subseteq Admin
    /\ leaked \in BOOLEAN /\ overrun \in BOOLEAN
    /\ formHead \in [Admin -> Cell \cup {NoCell, NotForming}]

\* The list is free of cycles and holds exactly the allocated rules: removal frees
\* what it unlinks and nothing else, and a failed append leaks nothing.
ListSound ==
    /\ \A i, j \in Positions : ruleList[i] = ruleList[j] => i = j
    /\ \A c \in Cell : rule[c] # NoRule <=> \E i \in Positions : ruleList[i] = c
    /\ \A c \in condemned : rule[c] # NoRule

\* First match wins, and edits respect it: the rule that decides about a packet is
\* replaced only when it is itself removed or a rule is added ahead of it, so
\* neither an insertion behind it nor the removal of others changes its verdict, as
\* long as no dump has written into the rules.
DecisionStable ==
    [][~overrun' => \A k \in Key, c \in Cell :
          /\ Decides(k, c) /\ rule'[c] # NoRule
          /\ \A d \in Cell : rule[d] = NoRule /\ rule'[d] # NoRule => ~Decides(k, d)'
          => Decides(k, c)']_ruleVars

\* A removal touches only rules of its name, and though it may leave some of them
\* it takes the leading ones and at least half of all: repeating it gets them all.
RemovalHalves ==
    [][\A a \in Admin, n \in Name : RemoveStart(a, n) =>
          /\ \A c \in condemned' : rule[c].name = n
          /\ 2 * Cardinality(condemned') >= Cardinality(Named(n))
          /\ 1 \in Named(n) => ruleList[1] \in condemned']_ruleVars

\* Dumps that other requests overtook at the head of the list.
Overtaken == {a \in Admin : formHead[a] \notin {NotForming, Head1}}

\* A rule lives, unchanged, until a removal of its name, and once a reader has died
\* none disappears or appears.  It takes one dump that was overtaken to undo this: by
\* a rule put at the head after it read ruleHead, or the removal of the one it read;
\* that dump overwrites a rule, and frees none.
OnlyRemovalFrees ==
    [][\A c \in Cell : rule'[c] # rule[c] =>
          \/ overrun' /\ Overtaken # {} /\ rule[c] # NoRule /\ rule'[c] # NoRule
          \/ /\ ~leaked
             /\ rule[c] # NoRule => writer # NoAdmin /\ c \in condemned]_ruleVars

================================================================================
