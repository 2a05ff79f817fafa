# Verification of the Linux firewall module

TLA+ models of `src/firewall_module`, the configurations that check them with TLC, and proofs
that TLAPS checks. Every definition is translated from the C code; `PROJECT.json` maps it to the
lines it stands for. File names below are relative to `src/firewall_module/source/` unless a
directory is given.

## 1. The system

A kernel module (Makefile: `mod_install.c` and nine files of `source/`) filters IPv4 packets; a
command line client, `userApp/`, talks to it over a netlink socket.

| Component | State | Operations | Runs in |
|---|---|---|---|
| Connection pool: `connect.c` over `myhash.c` | hash table of `connectionNode`s, its count, `conn_timer`; rwlock `connLock` | `hasConn` (find, then refresh), `addConn`, `eraseConnRelated`, `updateConn` from the timer, `formAllConns` | hooks, timer softirq, netlink requests |
| Filter rules: `FWRules.c` | list from `ruleHead`; rwlock `FWRuleLock` | `appendFWRules`, `removeFWRules`, `formAllFWRules`, `matchFWRules` | hooks, requests |
| Hooks: `hook.c`, registered in `mod_install.c` | `DEFAULT_ACTION` | `hook_main` at PRE_ROUTING and POST_ROUTING, `hook_nat_in` at PRE_ROUTING after it | softirqs; the sender's process for local output |
| Requests: `userOp.c`, `netlink_k.c` | the netlink socket | nine request types, one answer each | the client's process, inside its `sendto` |
| NAT rules: `nat.c` | list from `natRuleHead`; rwlock `natRuleLock` | add at the head, delete by index, dump | requests |
| Logs: `FWLogs.c` | list of at most 100 records, `logNum`; rwlock `logLock` | `insertLog`, `updateLog` (trim), dump of the last n | hooks, requests |
| Load and unload: `mod_install.c`, `conn_init`, `conn_exit` | what is registered, the timer | `mod_init`, `mod_exit` | insmod, rmmod |
| Client: `userApp/` | none | commands and questions to a request, the exchange, the answer to a listing | user space |

How they interact. A hook asks the pool for the packet's connection; if there is none, it scans the
rules, takes the default action and, when that is to accept, adds the connection. Removing a rule
holds `FWRuleLock` and, rule by rule, erases the connections the rule covers under `connLock`;
deleting a NAT rule does the same under `natRuleLock`. A change of the default action calls the
pool with an erase rule. Dumps read a list under its lock and send it to the client. The timer
sweeps the pool every `CONN_ROLL_INTERVAL` seconds.

What is hard in this code, with the property each component must have:

* **Pool.** Lookup, refresh, use and insertion are separate critical sections, so nodes are freed
  while somebody holds their address, and two packets of one connection both insert it. Sweeps
  free the node their plain iterator stands on. Correct means: the table stays a table, the count
  stays exact, copies are bounded and harmless, and a connection leaves only when its time is up or
  an erase covers it.
* **Rules.** Edits shift the list under packets that scan it; a removal interleaves with nothing
  but must keep the list whole; a dump reads the head before it takes the lock. Correct means: the
  first matching rule decides, edits elsewhere do not change that, and nothing but a removal takes or
  changes a rule. The last does not hold altogether (section 3).
* **Hooks and requests.** The default action is read before the lookup that it is used after; a
  rule removal or the timer may act between two hooks of one packet. Correct means: every packet is
  decided, and after a switch to DROP only packets that were already past the switch get in.
* **Locks.** Four rwlocks, two of them nested around `connLock`, none taken with softirqs disabled,
  and an allocation that may sleep under `connLock`. Correct means: no deadlock, which does not hold
  (section 3).
* **NAT rules.** A deletion names a row of a listing that may be out of date, and row 0 of an empty
  list is read through NULL under the lock. Correct means: one rule goes, and it is the one the user
  saw, if nobody edited the list since.
* **Logs.** A list with a cap whose counter is read without the lock, and a trimming loop with three
  ways out. Correct means: the newest records are kept, and no more than the cap and the inserts in
  progress.
* **Load and unload.** Hooks and socket are live before the table exists; the timer callback re-arms
  itself while `conn_exit` deletes it. Correct means: nothing outlives the module's text, and nothing
  reads a table that is not there. Neither holds altogether (section 3).
* **Client and exchange.** The client waits without a timeout for an answer that may be lost or never
  formed; its structures differ from the kernel's. Correct means: a rule is kept, applied and listed as
  it was typed, and every request is answered. Neither holds altogether.

Left out: `statefulInspection.c` (not in the Makefile), `uthash.h` (vendored, unused), the two
demonstration modules. `setConnNAT` has no caller, so `natType` is `NAT_TYPE_NO` in every node and
the address translation of `hook_nat_in` takes a `natType` that is read through a pointer to memory
freed meanwhile (`hook.c:95`); `matchNATRule` and `genNATRule` have no caller either.

## 2. Modules

| Module | What it models |
|---|---|
| `ConnTracker` | abstract: a lease per connection, renewed by traffic, consumed by time, dropped when spent or erased |
| `ConnPool` | the pool: chains, nodes in their slab slots, callers with the pointers they hold, timer, faults |
| `FWRules` | the rule list, its lock, removals that take several steps, dumps |
| `PacketPath` | the hooks and the rule and default-action requests over `ConnPool` (EXTENDS) and `FWRules` (INSTANCE) |
| `Locks` | CPUs, processes that may sleep, softirqs and the four rwlocks, with each function's sequence of lock operations |
| `Lifecycle` | `mod_init` and `mod_exit` against packets, clients and the timer callback |
| `Logs` | the capped log list, its counter, the trimming loop, dumps |
| `Layout` | the structures that cross the socket, as either side's compiler lays them out |
| `Notation` | addresses, masks and port ranges between what is typed, the integers, and what is shown |
| `Exchange` | a request of any type and its answer between client and kernel, with the NAT rules and the locks it needs (over `Layout`) |
| `Client` | the commands, the requests they form, what the kernel hears of them, and the listings (over `Notation` and `Layout`) |
| `SequenceLemmas` | what `InsertAt`, `RemoveAt`, `Append` and `Tail` do, position by position; induction on the natural numbers |
| `ConnPool_proofs`, `FWRules_proofs`, `PacketPath_proofs`, `Contexts_proofs` (of `Locks` and `Lifecycle`), `Logs_proofs`, `Exchange_proofs`, `Client_proofs` | theorems (section 4) |
| `MCConnPool`, `MCFWRules`, `MCPacketPath`, `MCLocks`, `MCLifecycle`, `MCLogs`, `MCClient`, `MCExchange` | values of the constants for TLC |

Definitions whose comment begins with *Slip* are variants of the definition that follows them with
a plausible mistake in it. No specification uses them. They are the mutants of `PROJECT.json`:
each property is known to fail when its slip is put in place.

### ConnPool

A critical section of `connLock` is one action, and what the code does outside the lock is a step
of its own. A context is a caller of the pool: `Call`, then `LookupHit` or `LookupMiss`, then
`Refresh` and `Use`, or `Reject`, or `Alloc` and `Link`. `ptr[c]` is the node pointer it keeps
across locks. `slab` tells free, freshly allocated and linked nodes apart, so that a pointer to
freed memory and a slot that was reused are states of the model. `chain[b]` is a bucket, head first.

Three facts of the C code that are easy to miss shape the model:

* `myhash_find` goes on after a match, so the *last* node of the bucket with the key answers
  (`Answers`). With insertion at the head that is the oldest copy.
* `hash_del` clears the next pointer of the node it unlinks, and the sweeps walk on through the
  node they have just freed. While the freed memory is untouched, a sweep therefore ends a bucket
  at its first deletion: it takes the first doomed node of each bucket (`Doomed`, `First`). If the
  memory was reused or poisoned meanwhile, the walk runs into garbage: the fault `WalkFaults`.
* A refresh through a stale pointer writes one word, `expires`, of whatever is in the slot: nothing
  that lasts if the slot is free, the time of another connection if it was reused (`Refresh`).

Time counts in ticks: `ttl[s]` is `node->expires - jiffies` floored at 0, and `Expires` and
`Interval` stand for `CONN_EXPIRES` and `CONN_ROLL_INTERVAL`. The timer may be late. `oops`
is the state after a fault with `connLock` held or in a softirq: nothing more happens in the pool.
`MayFail` chooses the faults of an instance.

Abstracted: the key is a value, and the hash any function of it; a rule is the set of keys it
covers; the contents of nodes other than key and time are left out, and with them the text of dumps.

### FWRules

`ruleList` is the list, `rule` the contents of its cells. `RemoveStart` takes the lock and fixes
what the loops will unlink (the list cannot change while the lock is held), `RemoveOne` is one turn
with its erase, `RemoveDone` gives the lock back. `Unlinks` is the result of the two loops of
`removeFWRules`. The second loop advances even when it has just unlinked a successor, so of two
neighbours of the name that are not at the head it takes one. `leaked` says that a process died
under `read_lock`: writers wait for ever. `waiting` are the requests that spin in `write_lock`
(`WaitToWrite`). The kernel's queued rwlock lets a softirq read past them (`CanReadInSoftirq`) but puts
a process behind them (`CanRead`); who comes first makes a difference only behind a dead reader, where
neither gets in any more.

`FormHead` is the read of `ruleHead` that `formAllFWRules` makes before it takes the lock. If a rule was
put at the head since, or the one it read was freed, it may count fewer rules than it copies
(`CountsFewer`) and writes past its buffer (`FormOverruns`): the next cell of the slab may be a rule, whose
fields become anything. `overrun` records it, and the model ends there. A walk that starts in freed memory
may also kill its process under the lock (`FormFaults`).

### PacketPath

A packet has a route: in (PRE_ROUTING only), forwarded (PRE and POST_ROUTING), out (POST_ROUTING,
in the sender's process) or reply (POST_ROUTING, sent from a softirq). `EnterHook` reads `DEFAULT_ACTION` and calls the pool. `Scan` is
`matchFWRules`. Its result parameter is the NULL pointer that `hook_main` passes by value, so a match
writes through NULL under `FWRuleLock`: `MatchPanics` in a softirq, `MatchKills` when the sender's
process dies and leaves the lock read-held. A scan waits for `FWRuleLock` as its context does
(`MayScan`). Removals and SETAction requests take several steps, requests wait for the lock
(`WaitForRules`), and those of two administrators may overlap. The erase of a SETAction has
`.sport = .dport = -1`, which unpacks to the port range 65535..65535 (`MaxPorts`). `Known` leaves out
what `hook_nat_in` may read of `natType` in memory that was freed and reused.

`PacketPath` has the requests whose interleaving with packets matters; the others are in `Exchange`.

### Locks

`todo[c]` is what is left of the lock operations of the function that context `c` runs. A softirq
may start on a CPU at any time, also while its process holds a lock or spins for one, and freezes the
process until it is done. The lock is the kernel's queued rwlock: waiters stand in line, except that
a reader in softirq context is counted at once and waits only for the writer that holds the lock.

The kernel is one without preemption: a process in the module keeps its CPU until it leaves or sleeps.
It can sleep at one place under a lock: `createindex` (`myhash.c:4`) allocates with `GFP_KERNEL`,
in `hasConn` and `addConn` under `connLock` (`Find`, `Add`, the field `allocates`). `Sleep` takes it off
its CPU with the lock held, another process of the CPU enters (`Enter`, `Ahead`), and `Wake` brings it back
only when no other is in the module there. All other allocations under a lock are `GFP_ATOMIC`. A softirq
that calls `createindex` must not sleep, and what becomes of a CPU where it does is left out.
`insertLog` is among the packet functions because `hook_main` reads `needLog` through a
pointer that may be stale by then; no live node has it set.

### Lifecycle

`step` is what `mod_init` or `mod_exit` does next; one registration, `netlink_init`, `conn_init`, the
arming of the timer, and their counterparts are an action each. A packet is in a hook between
`EnterHook` and `LeaveHook`, a client's socket is open between `OpenSocket` and `CloseSocket`, and
`conn_timer_callback` takes three steps, `TimerFires`, `Sweep` and `Rearm`, so that each can fall
between any two of the unload's. Whoever reads through `ctable` while it is NULL ends in `fault`.
`stray` is a timer that is pending although its text is gone.

What is the kernel's is assumed as `mod_install.c` uses it: text is freed only when no packet is in a
hook (hooks run under RCU, and freeing waits for readers); an open socket holds a reference to the
module; `del_timer` takes out a pending timer and does not wait for a running callback; and text is
freed between two rounds of the timer, since they are `CONN_ROLL_INTERVAL` apart. The last of these is
generous to the code: a callback that is still running when its text goes is a fault that the model
leaves out, and the timer it leaves behind is the one it has.

### Logs

`logs` is the list from `logHead`, `logEnd` the record the pointer is at, `logNum` the counter; none of
them is computed from another, and that they agree is a property. A context inserts under the lock,
looks at `logNum` without it, takes the lock again and trims one record per `Trim`, whose cases are
those of the C loop: the last record, one before it, a lost head. Records are numbered as they are
inserted, so "the newest" and "no gap" can be said. In the code as it is a record is written only when
`needLog`, read through a pointer that may be stale, happens not to be zero; `Logs` takes any
context that calls `addLog`.

### Exchange

One client is: `Open`, `SendTo`, then in the same process the kernel's `Handle` and `NlSend` and, for a
SETAction, `Settle` (`dealWithSetAction`, after the message), then `Receive`. A `recvfrom` that fails
or cuts the answer short passes for a success (`Garbled`). `nl_recv` runs inside the client's `sendto`,
so its oops is the client's end, with whatever lock it holds. `Short` is `nl_recv`'s length test, decided by
the layouts. `lost` and `oops` are history: they say why a client waits. The NAT rules are here because
their rows are only meaningful against what a user was shown: `seen[c]` is that listing, or `OutOfDate`
once somebody edited the list.

Of the other parts there is what decides whether a request comes back: the lock it needs and the ways to
die under it. `dead` are the locks that nobody will release, `leaked` a `FWRuleLock` that a dead reader
keeps. They get lost by row 0 of an empty list (`DeleteOops`), by a walk of the connections that faults
(`EraseOops`, `SettleOops`, `PacketDies`), by a listing that runs into freed memory or past its buffer
(`ListOops`) and by a packet that matches a rule (`PacketDies`); and an edit that hangs for `connLock`
loses its own lock with it (`Hangs`). What an erase takes from the pool is a step of `ConnPool` for any
set of keys.

### Layout, Notation and Client

`Layout` gives each structure as a sequence of members with width and alignment, computes the offsets
for pointers of 4 and 8 bytes on both sides, and derives from them the sizes, the builds whose requests
are too short (`ShortBuilds`), and which members survive: `Kept` those that go from the client to the
kernel and back as opaque bytes, `Written` those that the kernel fills in itself, `Understood` those
that the kernel reads where the client put them. `InPlaceOf` says which members of the client the kernel finds
in the place of one of its own.

`Notation` holds the algorithms: `IPstr2IPint` with its dangling `else`, `IPint2IPstr`, the port
questions of `cmdAddRule` with the variables that `sscanf` leaves uninitialised (any value of
`Junk`), and the kernel's reading of the result in `ipcmp` and `getMatched`. An address is its dotted
numbers, an integer its four bytes, which are looked at bit by bit (`Bit`) where the code masks or shifts;
what is typed may be any address and any ports (`AddressText`, `PortText`). In `Client` a command with all its questions is one action, ending
in a refusal or a request; the kernel's answer is one more. `Heard` is the kernel's member of a filter rule:
the four bytes that the client has in its place, so that `SourceMatched`, `DestMatched` and `SportMatched` are
`getMatched` of what the kernel gets and not of what the client meant. Text on the screen is a record of columns;
a column whose members the two layouts do not agree on shows `Unreadable`.

## 3. Runs

| Run | Instance | Shows |
|---|---|---|
| `pool` | 3 slots, 3 keys, 2 buckets (two keys collide), 2 callers, all faults but a failing lookup | `TypeOK`, `ChainIntegrity`, `FreshOwned`, `CountExact`, `BoundedDuplicates`, `OldestAnswers`, `StaleWritesOnlyExtend`, and that the pool implements `ConnTracker` |
| `rules` | 3 cells, 2 names, 2 coverages, 2 requests | the list stays sound; the deciding rule stays the deciding one; a removal takes the leading and at least half of the rules of its name; only an overtaken dump overwrites a rule |
| `path` | 1 slot, 1 key, 2 packets in the hooks, 2 administrators, failing lookups | `PathTypeOK`, `DropClosesTheDoor` |
| `path_fair` | 2 slots and 2 keys in one bucket, 1 packet at a time, 1 administrator with two names, with fairness | every step is a step of `ConnPool` and of `FWRules`; every packet is decided, with one exception; the pool drains |
| `locks` | 2 CPUs with 2 processes each, 3 contexts at a time, all functions, removals of one rule | `LocksTypeOK`, `DeadlockNeedsLostCpu` |
| `lifecycle` | 2 packets, 2 clients, failing allocations, loads and unloads without end | `NoTableExplained`, `OnlyTheCallbackOutlives`, `SweepsGoOn`, `UnloadEnds` |
| `logs` | 3 packets, 1 client, a cap of 2, 7 records | `LogNumExact`, `CapOvershoot`, `NewestKept`, `ShownInOrder`, `BurstSettles` |
| `client` | both builds, all commands, special answers one at a time | `ClientTypeOK`, `RequestAsTyped`, `HeardOtherwise`, `ListedAsTyped` |
| `exchange` | both builds, 2 clients, 2 NAT rules, every allocation, send, receive and walk may fail | `SilenceExplained`, `DeletesAsShown`, `RequestsEnd` |
| `stale_refresh` | 2 slots, 2 keys, 2 callers | violates `RefreshesTheFound` |
| `match_kills` | 1 packet at a time | violates `MatchedPacketsSurvive` |
| `unanswered` | a 64-bit build on which nothing else fails | violates `EveryRequestAnswered` |

### What holds

*Pool.* However callers, timer, erases and dumps interleave, and whichever allocation fails, the table
stays well formed, a node under construction belongs to one caller, and the count is exact (the run
leaves failing lookups out, since copies are unbounded with them; the theorems cover them). Two contexts
can insert a connection twice, but copies and contexts about to add one are never more than the
contexts; and copies do no harm, since the oldest goes on answering. A stale refresh can lengthen
the life of some connection, never shorten one or bring one back. Seen from outside the pool keeps
leases (`ConnTracker`): this is the sense in which the races are benign, and it is weaker than one
might wish: a spent lease need not be forgotten promptly, and an erase need not take everything it
covers. When traffic stops the pool empties all the same.

*Hooks and rules.* After a switch of the default action to DROP, the only packets that can still bring
a connection in are those that were in a hook, past the read of `DEFAULT_ACTION`, at the switch. A
packet is never held up for ever by a removal or a full slab; by a dead reader a process's packet is, once
an edit waits behind that reader (`BehindTheDead`), and packets in softirqs are not. A verdict changes only
when its rule is removed or one goes before it, as long as no dump overruns its buffer; and such an
overrun takes a dump that another request overtook.

*Logs.* The look at `logNum` without the lock is harmless: the list is never longer than the cap and the
inserts in progress, no trim takes one record too many, and after a burst the list is at its cap
again.

*Load and unload.* An unload ends, however busy the hooks are, and of all that the module registers only
the timer can outlive it.

*Client.* An address of four numbers with a mask of 1 to 32, and a range of 16-bit ports in order, are in
the request as typed, in the client's own order of the members (`RequestAsTyped`); what the kernel makes
of them is under "What does not hold". A greater number is taken modulo 2^16, so that 70000-65535 is asked
for as 4464-65535; `RequestAsTyped` leaves such numbers out. A client that waits without end does so in
`recvfrom`, because its request or its answer was lost or too short (`SilenceExplained`), or in the
kernel, for a lock that a dead one keeps; `Unanswerable` lists which requests hang for which lock, and
`RequestsEnd` says that there are no others. A deletion takes the row that was shown, if nobody edited the
list since.

### What does not hold

Three counterexamples are runs and are listed under `findings`: the refresh that `connect.c:33`
announces may go to freed memory or to another connection; the first packet that a rule covers brings
down its context (`hook.c:13`, `:43`, `FWRules.c:40`); and on a 64-bit build the client's requests have
72 bytes where `nl_recv` wants 80, so that every one is dropped in silence and its client waits for ever.

The models show more, which the properties above state as bounds on what can go wrong:

* an erase leaves related connections behind (`connect.c:86` says it misses none): a sweep ends
  at its first hit in each bucket (`Doomed`);
* removal by name leaves rules of that name (`src/README.md:73`): of neighbours behind a rule that stays
  it takes every other one, which `RemovalHalves` bounds from below;
* "clear all connections" after a change of the default action (`userOp.c:31-35`) covers those with both
  ports 65535 (`MaxPorts`);
* a packet can be unknown to `hook_nat_in` (`hook.c:90`): the timer or an erase acts between two hooks;
* packets and requests that come before `conn_init` has made the table read through NULL, and so does
  everything if it could not be allocated (`NoTableExplained`);
* a dump of the filter rules that another request overtook at the head of the list writes past its buffer
  and may overwrite a rule (`FormOverruns`, `OnlyRemovalFrees`);
* once a process died with `FWRuleLock` read-held, the next edit waits for ever, and behind it every process
  that sends a packet or lists the rules (`BehindTheDead`, `Unanswerable`);
* a timer callback that runs during `conn_exit` arms the timer again, and it fires into freed text
  (`StrayFires`, `OnlyTheCallbackOutlives`);
* deleting row 0 of an empty NAT list kills the client and leaves `natRuleLock` held, so all later NAT
  requests spin (`DeleteOops`);
* an address typed without a mask has the mask of every address, one with mask 0 that of itself alone; a
  single port's upper end is what the stack held (`RequestAsTyped`);
* on a 32-bit build the kernel matches packets with other members than the client filled in. It takes the
  destination's mask for the range of the source ports, so that a rule for a destination of 1 to 31 bits
  matches no packet and any other only packets from port 0 or 65535; and it compares addresses with
  masks (`HeardOtherwise`). On a 64-bit build no request arrives at all;
* on a 32-bit build a listed rule has no readable source, only the first NAT rule and connection
  are readable, of a log record only the action, and its length is in the wrong byte order; the kernel
  itself reads nothing but the name of a rule in its place, and a name of 11 characters may be shown with
  other bytes behind it (`ListedAsTyped`).

*Deadlock.* The module can deadlock in two ways. A softirq that wants a lock its own CPU's process holds,
or stands in line for, spins for ever. And a process that sleeps in `createindex` keeps `connLock`: another
process of its CPU that wants the lock spins and never lets it wake. `DeadlockNeedsLostCpu` says that
there is no third among the contexts modelled: in every set of contexts that wait for each other there is
a process that lost its CPU, to a softirq or while it slept, and holds `connLock`, `FWRuleLock` or `logLock`
or waits for one of them. The nesting is sound, and the `_bh` variants of the calls for these three locks
together with `GFP_ATOMIC` in `createindex` would be enough. The counterpart with a process that *died* under a lock is in `FWRules`,
`PacketPath` and `Exchange`, not here.

### Bounds

Two callers suffice for every race of two critical sections; a third would add copies of
a connection, and the bound on those is proved for any number. Three slots in two buckets
give a bucket with a first, a middle and a last node, and exhaustion. `Expires = 2`, `Interval = 1`
distinguish fresh, ageing and expired nodes and let the timer fall before and after expiry; the
composed runs use 1 and 1. Three rules are the least in which the removal loop skips one behind a
rule it keeps. With one slot and one key `path` still has packets that collide on it, the full
slab and two packets at the switch; two administrators let two switches, or a switch and an edit,
overlap. `MaxErased` in `Locks` bounds the rules of one removal: each further
one repeats the same acquisition of `connLock`. Two processes on a CPU are a sleeper and the one that has
its CPU; `MaxBusy = 3` lets those two and their softirq, or contexts of both CPUs, be in the module at once, and
`DeadlocksLoseCpus` is proved without these bounds.

In `Lifecycle` two packets are one that keeps a hook busy while another comes, two clients one that holds
the module while another asks. In `Logs` three contexts over a cap of 2 (`MAX_LOG_LEN` is 100 in the
code) let two trim at once while the third inserts; `MaxInserts = 7` is twice what fills the list with
every context in the middle of its insert, and `MaxAsked = 3` is one more than the cap. In `Exchange`
two rules are a first row and one behind it, and two clients are a user and the one who edits under him
(`Asks`: the first makes requests of every type, the second edits and switches only); rows up to 2 are one
past the end. The order of longer lists is proved (`RowsDeleted`). In `Client`, `MaxNAT = 2`
distinguishes the first row of a listing from a later one; the special answers (masks
at and around every byte boundary, octets of 255, 256 and 257, too many numbers, ports out of order, names of 11
and 12 characters, ports beyond 65535) are given one at a time, since no two questions share anything but the request they end in;
`Stack` holds the values an uninitialised variable may have, at and next to the ports that are typed, and the
ports of the packets that `HeardOtherwise` asks about; `Probes` are addresses around those typed.
Nothing else is capped.

### Fairness

`FairPathSpec` (`path_fair`). A packet in a hook and a request being
served go on (weak fairness: kernel code runs to completion), jiffies advances, and the timer softirq
runs when it is due. Waiting for `FWRuleLock` as a reader has strong fairness on the scan: the queued
rwlock serves those that wait in turn, and softirqs ahead of them, so a reader is not overtaken for ever by
writers that come and go. A process behind a request that waits for a dead reader is never let in, with or
without fairness. Nothing is assumed about the arrival of packets or requests. These runs
have no nested interrupts and nobody sleeps in them, so the deadlocks of `Locks` do not occur; "every packet is
decided" means: unless a lock holder loses its CPU.

`LifeFairSpec`. The steps of `mod_exit`, of the callback and of a packet in a hook are kernel code that
goes on: weak fairness. `Free` has strong fairness: it waits for a moment without a packet in a hook and
without a running callback, moments that recur, and RCU guarantees that the wait for readers ends. Nobody has
to send packets, make requests or close a socket.

`LogsFairness`. Weak fairness for an insert that has the lock or needs none, strong fairness for taking it, since
the queued rwlock serves writers in turn. Nobody has to log.

`ExchFairness`. Weak fairness for the client's system calls and for what the kernel does in them, the erase
after a switch included (`Settle`). No user has to type, or to kill a client that waits, and nothing has to fail.

`CHECK_DEADLOCK FALSE` stands where the system really stops: after a fault with a lock held or in a
softirq (`pool`, `path`, `path_fair`, `match_kills`), after a dump overran its buffer or when all requests wait
for a dead reader (`rules`), in a deadlock (`locks`), after a fault of loading or unloading (`lifecycle`), and
when all clients spin on a lock that died with its holder (`exchange`).

*Symmetry* is used for slots and callers, cells and requests, CPUs and the processes of a CPU, which the
specifications treat alike, and never in the runs with liveness properties.

## 4. Proofs

Every theorem is for all values of the constants that satisfy the module's named assumption, and needs
nothing else. The assumptions say that the NULLs are no members of the sets they stand beside, that the sets of
slots, keys and callers are finite (they are counted), that the hash maps keys to buckets, and
which faults an instance has; those of `Client` say what kind of thing may be typed, and nothing of its values.

| Module | Theorems | Of the runs' properties |
|---|---|---|
| `ConnPool_proofs` | `PoolStructure`, `PoolTyped`, `NodesOwned`, `CountHonest`, `DuplicatesBounded`, `OldestGoesOn`, `StaleIsHarmless`, `PoolKeepsLeases` | `TypeOK`, `ChainIntegrity`, `FreshOwned`, `CountExact`, `BoundedDuplicates`, `OldestAnswers`, `StaleWritesOnlyExtend`, `ImplementsTracker` |
| `FWRules_proofs` | `RulesTyped`, `RulesSound`, `RemovalFrees`, `VerdictsStable`, `RemovalsHalve` | `RulesTypeOK`, `ListSound`, `OnlyRemovalFrees`, `DecisionStable`, `RemovalHalves` |
| `PacketPath_proofs` | `PathTypes`, `PathUsesPool`, `PathUsesRules`, `DoorCloses` | `PathTypeOK`, `ImplementsPool`, `ImplementsRules`, `DropClosesTheDoor` |
| `Logs_proofs` | `LogsTyped`, `LogsCounted`, `LogsBounded`, `LogsKeepNewest`, `LogsShownInOrder` | `LogsTypeOK`, `LogNumExact`, `CapOvershoot`, `NewestKept`, `ShownInOrder` |
| `Contexts_proofs` | `LocksTyped`, `DeadlocksLoseCpus`, `LifeTyped`, `WindowOnly`, `OnlyTheTimerOutlives`, `TimerStaysArmed` | `LocksTypeOK`, `DeadlockNeedsLostCpu`, `LifeTypeOK`, `NoTableExplained`, `OnlyTheCallbackOutlives`, `SweepsGoOn` |
| `Exchange_proofs` | `ExchangeTyped`, `OnlyLossSilences`, `RowsDeleted` | `ExchangeTypeOK`, `SilenceExplained`, `DeletesAsShown` |
| `Client_proofs` | `ClientTyped`, `RequestsAreTyped`, `RulesAreMisheard`, `ListingsAreTyped` | `ClientTypeOK`, `RequestAsTyped`, `HeardOtherwise`, `ListedAsTyped` |

**Pool.** The inductive invariant `PoolInv` is the conjunction of the four structural invariants; none of
the parts is inductive alone. `FreshOwned` is needed for `Link` to keep `ChainIntegrity` (the slot it puts
at the head is in no chain because it is fresh and the caller's own). `ChainIntegrity` is needed for a
sweep to keep `FreshOwned` (what it frees is linked, hence not fresh) and for the count (each bucket
loses at most one node and no node is in two). The work is in the sweep: `RemoveAtFacts` says what is
left of a sequence when a position is cut out, `SweptBucket` that the surviving chain of a bucket
holds exactly the nodes that were not freed, in their order, `SweepInv` puts the buckets together. There is
one lemma for each kind of step, and `NextInv` splits `PoolNext` into them.

`DuplicatesBounded`: copies of `k` and contexts that missed `k` are counted together.
A miss can only happen when no copy is there (`NoHitsNoCopies`, from `ChainIntegrity`), at which time
the sum is at most the number of contexts (`MissBound`); an insertion moves its context from one
summand to the other (`LinkBound`, which needs `FreshOwned`); sweeps and all other steps only lower
it (`SweepBound`, `QuietBound`, `AllocBound`). `OldestGoesOn` rests on the order: a new copy goes before the
one that answers (`AnswersLink`), and a sweep keeps the order of what it leaves (`AnswersSweep`).
`StaleIsHarmless` goes through the steps: only `Link` makes a key known (`LinkAdmits`), and
only `Tick` shortens a life (`LivesGrow`).

**Refinement of the tracker.** The lease of a connection is the longest life among its copies. That there is
a longest one among finitely many needs an induction, for which the well-foundedness of strict inclusion
on finite sets stands in (`LongestLife`). Each step of the pool then maps to one of the tracker: a refresh
renews whatever connection its slot belongs to by then (`RefreshRenews`), an insertion admits or renews
(`LinkAdmitsOrRenews`), the timer forgets exactly the connections whose last copy it takes (`TimerForgets`),
an erase lowers only leases it covers (`ErasesLower`), `Tick` is `Elapse`, and all the rest stutters.

**Rules.** `RulesInv` is `RulesTypeOK`, `ListSound` and `WriterAlive`: a process that died as a reader keeps
`FWRuleLock`, so nobody holds it for writing then, which `OnlyRemovalFrees` promises; what an overrun may
change it names, and that it takes an overtaken dump follows from `CountsFewer`.
`VerdictsStable` compares the first matching position before and after an edit, with `InsertAtFacts`
and `RemoveAtFacts`. `RemovalsHalve` is about the walk of `removeFWRules`, a recursive function of the position:
`WalkExists` shows by induction that there is such a function for a list of any length, and from it follows
(`UnlinksFacts`) that each rule of the name that is kept has one right before it that is taken. Pairing the
two gives the half.

**Composition.** `PathInv` is `PathTypeOK`, `PoolInv` and the rules' invariant, the last through an
`INSTANCE` of `FWRules_proofs` whose assumptions follow from `PathAssumption`. Each action of the hooks is
shown to be a step of the pool or to leave it alone (`StepsOfPool`), and the same for the rules
(`StepsOfRules`); so both refinements follow, and everything proved of the pool and the rules holds of
the composition. `DoorCloses` needs two facts on top: under DROP no step makes a context a straggler
(`NoNewStraggler`), and whoever links a node is one (`LinkersAreStragglers`).

**Logs.** `LogsInv` is `LogsTypeOK`, `LogNumExact` and `NewestKept`: that the counter and the end pointer are right
is what makes the cases of `Trim` for a lost head impossible. `CapOvershoot` is inductive given it, and
`ShownInOrder` needs in addition that nothing is shown that was not inserted (`ShownBorn`).
**Lifecycle.** The properties together with `Undone`, which says for each step of `mod_init` and `mod_exit`
what has been undone or not yet done. **Exchange.** `ClientInv` for each client, `ListInv` for the list, and
`Shapes`. What makes it inductive is `Fits`: the answer that the kernel forms, before it is sent, is one to the
client's request; and a lock is lost only for the reasons that `SilenceExplained` names, which every way to
die under one keeps. `RowsDeleted` rests on it too: what a user was shown, unless out of date, is the list itself, so
the row he names is the rule that `RemoveAtFacts` says is cut out.

**Locks.** The functions are sequences of lock operations of any length (`MaxErased` is any number), so the
invariant `LocksInv` cannot enumerate them. It speaks of what is left of a function, place by place: `OwedAt(s, i, l)`
says that at place `i` lock `l` is held, since the next thing done with it is to unlock it. Each lock is taken and
given back by turns (`Alternates`), nothing but `connLock` is taken under another lock (`Nests`), and a softirq holds
one lock at a time (`OneByOne`). That every function is so is shown by composing it from sections (`SectionWhole`,
`WholeConcat`, `ErasesWhole`, `AroundWhole`, `FunctionsWhole`); that what is left of one stays so is `SoundTail`. To
these come that a context holds just what it owes (`Balanced`), that a writer is alone, that a lock's line consists
of those who wait for it and do not overtake, and that who sleeps holds `connLock`. `DeadlockWedges` takes a deadlock in which
no process lost its CPU at one of the three locks and empties it lock by lock: who holds `connLock` waits for nothing (`HoldersAsk`), so nobody in the
deadlock can wait for it (`NobodyWaits`, which looks at who is first in the line); then nobody who waits holds
a lock, so none waits for `FWRuleLock` or `logLock`; then all wait for `natRuleLock`, which no softirq takes, and
somebody is first in that line too.

**Client.** `ClientInv` says that requests and lists hold what `cmdAddRule` and `cmdAddNATRule` make of some answers
that they do not refuse (`RuleFormed`, `NATFormed`), that what is on the screen was shown of the lists, which may have
grown since, and that a 64-bit build is never answered. The theorems then follow from lemmas about the
algorithms for every input: which bits a mask of `n` has (`OnesBits`), and that the mask is shown as it was typed
(`MaskShown`); which texts are refused (`QuadTaken`); what `sscanf` makes of ports (`PortsTyped`, `PortsHeld`); that the upper half
of a mask of 1 to 31 bits is a greater number than its lower half, so that as a range of ports it is empty (`HalvesOfMask`), from which,
with what stands in whose place (`RuleHeard`), follows what the kernel makes of a rule; and from the offsets of every member of the structures,
computed from the C rules (`LaidOut`, `KernelRule32` and its likes), which of them survive (`RuleKept`, `NATKept`,
`ConnWritten`, `LogWritten`) and which builds are too short (`ShortBuildsAre`). `Turned` is the arithmetic of a length
in the wrong byte order: it comes out right only if both its bytes are the same.

Induction is used in the form of sets (`InductionOnNat`: a set with 0 and with the successor of each of its
members has all numbers), which follows from the well-foundedness of `<`.

Only model-checked is liveness (`PacketsDecided`, `QuiescentDrains`, `UnloadEnds`, `BurstSettles`, `RequestsEnd`),
which needs `ENABLED`. Every invariant, every action property and both refinements of the passing runs are proved.

## 5. Not modelled, and what is left

* `jiffies` as a counter that wraps: `checkTimer` compares with `>=`, so near the wrap every node expires at
  once (`connect.c:9`). Time in `ConnPool` is what is left of a life and cannot wrap.
* The memory that `myhash_find` loses with every lookup (`myhash.c:53`): failing allocations are modelled, their
  cause is not.
* The length of a listing against the client's `MAX_PAYLOAD` (`netlink_u.c:82`), text and wire format,
  `printk`, the overrun of the client's name buffer by what is typed.
* `setConnNAT`, `matchNATRule` and `genNATRule` have no caller, so no node has a `natType` other than
  `NAT_TYPE_NO`. The translation in `hook_nat_in`, with its checksums, takes a `natType` read in memory that was
  freed and reused since `hasConn` (`hook.c:95`), and is left out.
* What a kernel does when a softirq sleeps in `createindex`, and what runs on after a dump overran its buffer.
* `statefulInspection.c` is not in the Makefile, `uthash.h` is vendored and not included by anything that is
  built, and `my_firewall.c` and `my_dev.c` are demonstrations that share nothing with the firewall.

Left on the plan: `Exchange` with more than one request per client in flight, should the client ever send one; the
composition of `Exchange` with `PacketPath`, in which the erase of a NAT deletion would be a step of the pool under
`natRuleLock`.
