--------------------------------- MODULE Locks ---------------------------------
(***************************************************************************)
(* The rwlocks of the kernel module and the contexts that take them:       *)
(* connLock (connect.c), FWRuleLock (FWRules.c), natRuleLock (nat.c) and   *)
(* logLock (FWLogs.c), all taken with plain read_lock and write_lock.      *)
(* Netlink requests and locally sent packets run in process context,       *)
(* received packets and the pool's timer in softirqs.  As no section       *)
(* disables softirqs, one may interrupt the process of its CPU anywhere,   *)
(* and the process stands still until the softirq is done.                 *)
(*                                                                         *)
(* A function of the module is the sequence of its lock operations; what   *)
(* it does in between is left out, but for one thing: createindex          *)
(* (myhash.c) allocates with GFP_KERNEL under connLock.  There a process   *)
(* may sleep with the lock held, and others have its CPU.  Elsewhere under *)
(* a lock, and waiting for one, a process keeps its CPU from the others.   *)
(* (In a softirq the kernel forbids that allocation to wait: what becomes  *)
(* of a CPU where one does is left out.)                                   *)
(***************************************************************************)
EXTENDS Integers, FiniteSets, SequencesExt

CONSTANTS
    Cpu,
    Task,       \* what tells the processes of a CPU apart: none leaves its CPU
    NoOne,      \* nobody holds the lock for writing
    MaxErased,  \* bound: rules that one removal hands to the pool
    MaxBusy     \* bound: contexts that are in the module at once

ASSUME LocksAssumption ==
    /\ "softirq" \notin Task /\ NoOne \notin Cpu \X (Task \cup {"softirq"})
    /\ MaxErased \in Nat /\ MaxBusy \in Nat

Lock == {"connLock", "FWRuleLock", "natRuleLock", "logLock"}

Process == Cpu \X Task
Softirq == Cpu \X {"softirq"}
Context == Process \cup Softirq

VARIABLES
    todo,     \* per context: the lock operations its function has still to do
    asking,   \* contexts that wait for the lock of their next operation
    queue,    \* per lock: who waits in line for it
    readers,  \* per lock: who holds it for reading
    writer,   \* per lock: who holds it for writing
    asleep    \* processes that wait for memory in createindex, or for a CPU after it

vars == <<todo, asking, queue, readers, writer, asleep>>

--------------------------------------------------------------------------------
(* The functions of the module. *)

\* An unlock "allocates" when createindex is called before it in its section.
Op == [act : {"read", "write", "unlock"}, lock : Lock, allocates : {FALSE}]
          \cup [act : {"unlock"}, lock : {"connLock"}, allocates : {TRUE}]

Section(a, l, alloc) ==
    <<[act |-> a, lock |-> l, allocates |-> FALSE],
      [act |-> "unlock", lock |-> l, allocates |-> alloc]>>

Read(l)  == Section("read", l, FALSE)
Write(l) == Section("write", l, FALSE)

\* Section p with the operations q inside.
Around(p, q) == <<p[1]>> \o q \o <<p[2]>>

\* hasConn under connLock: myhash_find builds an index of its own.
Find == Section("read", "connLock", TRUE)

\* addConn under connLock: so does myhash_add.
Add == Section("write", "connLock", TRUE)

\* hook_main and hook_nat_in know the connection: hasConn, addConnExpires.
HookHit == Find \o Write("connLock")

\* Slip: the miss is made to last by keeping connLock until the node is in.
HookNewAtomic == Around(Write("connLock"), Read("FWRuleLock"))

\* hook_main admits a new connection: hasConn, matchFWRules, addConn.
HookNew == Find \o Read("FWRuleLock") \o Add

\* hook_main drops a packet (hook_nat_in, for an unknown one, does only the first half).
HookDrop == Find \o Read("FWRuleLock")

\* insertLog, and updateLog when the list is full.  No tracked connection has needLog
\* set, but hook_main reads it through a pointer that may be stale by then.
InsertLog == Write("logLock") \o Write("logLock")

\* conn_timer_callback.
Timer == Write("connLock")

\* eraseConnRelated, once for each of n rules.
EraseConns(n) ==
    [i \in 1..(2 * n) |-> IF i % 2 = 1 THEN Write("connLock")[1] ELSE Write("connLock")[2]]

\* removeFWRules that finds n rules.
RemoveFWRules(n) == Around(Write("FWRuleLock"), EraseConns(n))

\* Slip: the early return of index 0 forgets the lock.
DeleteNATKeepsLock(n) ==
    IF n = 0 THEN <<Write("natRuleLock")[1]>> ELSE Around(Write("natRuleLock"), EraseConns(n))

\* deleteNATRule: index 0 or none erases nothing, another index one rule's connections.
DeleteNATRule(n) == Around(Write("natRuleLock"), EraseConns(n))

\* Every path of appendFWRules, the early returns and the failed lookup included.
AppendFWRules == Write("FWRuleLock")

AddNATRule == Write("natRuleLock")

\* dealWithSetAction, for a default action other than ACCEPT.
DealWithSetAction == EraseConns(1)

\* The dumps.
FormAllFWRules == Read("FWRuleLock")
FormAllConns == Read("connLock")
FormAllNATRules == Read("natRuleLock")
FormAllLogItems == Read("logLock")

Packets == {HookHit, HookHit \o InsertLog, HookNew, HookDrop}

\* processUserRequest.
Requests ==
    {AppendFWRules, AddNATRule, DealWithSetAction,
     FormAllFWRules, FormAllConns, FormAllNATRules, FormAllLogItems}
    \cup {RemoveFWRules(n) : n \in 0..MaxErased} \cup {DeleteNATRule(n) : n \in 0..1}

Functions(c) == IF c \in Softirq THEN Packets \cup {Timer} ELSE Packets \cup Requests

--------------------------------------------------------------------------------
(* The contexts. *)

Active(c) == todo[c] # <<>>

\* Who has the CPU of process c before c: its softirq, and while c sleeps in
\* createindex any other process that is in the module.
Ahead(c) ==
    {d \in Context :
        /\ c \in Process /\ d[1] = c[1] /\ Active(d)
        /\ d \in Softirq \/ (d \in Process \ asleep /\ d # c /\ (c \in asleep \/ ~Active(c)))}

Displaced(c) == Ahead(c) # {}

Next1(c) == Head(todo[c])

\* The kernel's queued rwlock lets a reader in softirq context pass the line: it
\* is counted at once and waits only for the writer that holds the lock.
Overtakes(c) == c \in Softirq /\ Next1(c).act = "read"

\* Readers that wait out of line: no writer can get the lock before them.
Counted(l) == {c \in asking : Overtakes(c) /\ Next1(c).lock = l}

\* The lock is free for what c wants, waiters aside.
Grantable(c) ==
    LET l == Next1(c).lock IN
    /\ writer[l] = NoOne
    /\ Next1(c).act = "write" => readers[l] = {} /\ Counted(l) = {}

LocksInit ==
    /\ todo = [c \in Context |-> <<>>]
    /\ asking = {}
    /\ queue = [l \in Lock |-> <<>>]
    /\ readers = [l \in Lock |-> {}]
    /\ writer = [l \in Lock |-> NoOne]
    /\ asleep = {}

\* A request or a packet comes, or a softirq is raised.
Enter(c, f) ==
    /\ ~Active(c) /\ ~Displaced(c)
    /\ Cardinality({d \in Context : Active(d)}) < MaxBusy
    /\ todo' = [todo EXCEPT ![c] = f]
    /\ UNCHANGED <<asking, queue, readers, writer, asleep>>

\* c gets the lock it wants and goes on.
Acquire(c) ==
    LET l == Next1(c).lock IN
    /\ todo' = [todo EXCEPT ![c] = Tail(@)]
    /\ IF Next1(c).act = "read"
       THEN readers' = [readers EXCEPT ![l] = @ \cup {c}] /\ UNCHANGED writer
       ELSE writer' = [writer EXCEPT ![l] = c] /\ UNCHANGED readers

Running(c, acts) == Active(c) /\ ~Displaced(c) /\ c \notin asleep /\ Next1(c).act \in acts

\* read_lock or write_lock succeeds at once.
Take(c) ==
    /\ Running(c, {"read", "write"}) /\ c \notin asking
    /\ Grantable(c)
    /\ ~Overtakes(c) => queue[Next1(c).lock] = <<>>
    /\ Acquire(c)
    /\ UNCHANGED <<asking, queue, asleep>>

\* read_lock or write_lock starts to spin.
Spin(c) ==
    /\ Running(c, {"read", "write"}) /\ c \notin asking
    /\ Grantable(c) => ~Overtakes(c) /\ queue[Next1(c).lock] # <<>>
    /\ asking' = asking \cup {c}
    /\ queue' = IF Overtakes(c) THEN queue ELSE [queue EXCEPT ![Next1(c).lock] = Append(@, c)]
    /\ UNCHANGED <<todo, readers, writer, asleep>>

\* A waiter whose turn it is gets the lock.
Grant(c) ==
    /\ Running(c, {"read", "write"}) /\ c \in asking
    /\ Grantable(c)
    /\ ~Overtakes(c) => Head(queue[Next1(c).lock]) = c
    /\ Acquire(c)
    /\ asking' = asking \ {c}
    /\ queue' = IF Overtakes(c) THEN queue ELSE [queue EXCEPT ![Next1(c).lock] = Tail(@)]
    /\ UNCHANGED asleep

\* read_unlock or write_unlock.
Unlock(c) ==
    /\ Running(c, {"unlock"})
    /\ todo' = [todo EXCEPT ![c] = Tail(@)]
    /\ LET l == Next1(c).lock IN
        /\ readers' = [readers EXCEPT ![l] = @ \ {c}]
        /\ writer' = [writer EXCEPT ![l] = IF @ = c THEN NoOne ELSE @]
    /\ UNCHANGED <<asking, queue, asleep>>

\* createindex's kzalloc waits for memory: the process leaves the CPU under connLock.
Sleep(c) ==
    /\ c \in Process /\ Running(c, {"unlock"}) /\ Next1(c).allocates
    /\ asleep' = asleep \cup {c}
    /\ UNCHANGED <<todo, asking, queue, readers, writer>>

\* It has its memory, and the CPU again, which nobody takes from another process.
Wake(c) ==
    /\ c \in asleep /\ ~Displaced(c)
    /\ asleep' = asleep \ {c}
    /\ UNCHANGED <<todo, asking, queue, readers, writer>>

LocksNext ==
    \E c \in Context :
        \/ \E f \in Functions(c) : Enter(c, f)
        \/ Take(c)
        \/ Spin(c)
        \/ Grant(c)
        \/ Unlock(c)
        \/ Sleep(c)
        \/ Wake(c)

LocksSpec == LocksInit /\ [][LocksNext]_vars

--------------------------------------------------------------------------------
(* Safety. *)

Holds(c, l) == c \in readers[l] \/ writer[l] = c

\* The locks c has still to give back.
Owes(c) == {l \in Lock :
              \E i \in DOMAIN todo[c] :
                  /\ todo[c][i].act = "unlock" /\ todo[c][i].lock = l
                  /\ \A j \in 1..(i - 1) : todo[c][j].lock # l}

\* The type invariant, with what every function of the module must keep up: each
\* path gives back the locks it took, early returns included, and a writer is alone.
LocksTypeOK ==
    /\ todo \in [Context -> Seq(Op)]
    /\ asking \subseteq Context
    /\ queue \in [Lock -> Seq(Context)]
    /\ readers \in [Lock -> SUBSET Context]
    /\ writer \in [Lock -> Context \cup {NoOne}]
    /\ asleep \subseteq Process /\ asleep \cap asking = {}
    /\ \A c \in Context, l \in Lock : Holds(c, l) <=> l \in Owes(c)
    /\ \A l \in Lock : writer[l] # NoOne => readers[l] = {}
    /\ \A l \in Lock : ToSet(queue[l]) = {c \in asking : Next1(c).lock = l} \ Counted(l)

\* d stands before c in the line for l.
Before(d, c, l) ==
    \E i, j \in DOMAIN queue[l] : i < j /\ queue[l][i] = d /\ queue[l][j] = c

\* Whom c waits for: those who have its CPU; holders of the lock it wants that
\* exclude it, and those who stand before it.
WaitsFor(c) ==
    {d \in Context :
        \/ Active(c) /\ d \in Ahead(c)
        \/ /\ c \in asking
           /\ LET l == Next1(c).lock IN
               \/ writer[l] = d
               \/ Next1(c).act = "write" /\ d \in readers[l] \cup Counted(l)
               \/ Before(d, c, l)}

Waiting == {c \in Context : WaitsFor(c) # {}}

\* Contexts that wait for each other and will do so for ever.
Deadlocked(D) == D # {} /\ \A c \in D : WaitsFor(c) \cap D # {}

\* A process that lost its CPU, to a softirq that interrupted it or to another process
\* while it slept, and holds a lock the packets take or waits for one.
Wedged(c) ==
    /\ Displaced(c)
    /\ \E l \in Lock \ {"natRuleLock"} : Holds(c, l) \/ (c \in asking /\ Next1(c).lock = l)

\* The module can deadlock, but in two ways only: a softirq interrupts a process that
\* holds connLock, FWRuleLock or logLock or waits for one of them, or createindex's
\* allocation puts one to sleep that holds connLock.  The nesting of connLock in the
\* other locks, the lines of waiting writers and the readers that overtake them never
\* suffice, nor does an interrupt under natRuleLock alone: the _bh variants for those
\* three locks together with GFP_ATOMIC in createindex would rule deadlock out.
DeadlockNeedsLostCpu ==
    \A D \in SUBSET Waiting : Deadlocked(D) => \E c \in D : Wedged(c)
================================================================================
