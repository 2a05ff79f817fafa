------------------------------- MODULE PacketPath -------------------------------
(***************************************************************************)
(* The way of a packet through the firewall's netfilter hooks, with the    *)
(* requests that change the firewall under it: firewall_module/source/     *)
(* hook.c over the connection pool (ConnPool) and the rules (FWRules), the *)
(* rule and default-action requests of userOp.c, the hook registrations of *)
(* mod_install.c.                                                          *)
(*                                                                         *)
(* A packet that comes in passes hook_main at PRE_ROUTING, hook_nat_in at  *)
(* PRE_ROUTING and, when it is forwarded, hook_main again at POST_ROUTING; *)
(* one that the machine itself sends passes hook_main at POST_ROUTING only,*)
(* in the context of the sending process or, when it answers another, in a *)
(* softirq.  A step of a hook is a step of the pool, or the scan of the    *)
(* rules.                                                                  *)
(***************************************************************************)
EXTENDS ConnPool

CONSTANTS
    Packet,     \* kinds of packets: addresses, ports and protocol
    KeyOf,      \* Packet -> Key: the pool's key leaves the protocol out
    MaxPorts,   \* the keys with both ports 65535
    Routes,     \* the ways packets take in this instance: "in", "forward", "reply"
                \* in softirqs, "out" in processes
    Cell, Name, NoName, CoverSets, Admin, NoCell, NoRule, NoAdmin

VARIABLES
    ruleList, rule, writer, condemned, waiting, leaked, formHead, overrun,
    DEFAULT_ACTION,
    settling,   \* requests that have set DEFAULT_ACTION and will deal with it
    stage,      \* the hook each context is in, "none" between packets
    route,      \* the way its packet takes
    packet,     \* its packet
    action,     \* hook_main's local variable
    scanned     \* hook_main has scanned the rules without a match

Rules == INSTANCE FWRules WITH Key <- Packet

rulesVars == <<ruleList, rule, writer, condemned, waiting, leaked, formHead, overrun>>
pathVars == <<stage, route, packet, action, scanned>>
adminVars == <<DEFAULT_ACTION, settling>>
vars == <<poolVars, rulesVars, adminVars, pathVars>>

\* The keys of the connections a rule's masks and ports cover: eraseConnRelated
\* sets the rule's protocol to IPPROTO_IP, which matches any.
KeysOf(covers) == {KeyOf[p] : p \in covers}

ASSUME PathAssumption ==
    /\ KeyOf \in [Packet -> Key]
    /\ MaxPorts \subseteq Key
    /\ Routes \subseteq {"in", "forward", "reply", "out"}
    /\ "panic" \in MayFail
    /\ EraseSets = {KeysOf(covers) : covers \in CoverSets} \cup {MaxPorts}
    /\ CoverSets \subseteq SUBSET Packet
    /\ NoCell \notin Cell /\ NoName \notin Name /\ NoAdmin \notin Admin
    /\ NoRule \notin Rules!RuleValue

NoPacket == "none"

InMain(c) == stage[c] \in {"pre", "post"}

\* The hook that follows, for a packet that was accepted.
After(st, rt) ==
    IF st = "pre" THEN "nat"
    ELSE IF st = "nat" /\ rt = "forward" THEN "post"
    ELSE "none"

--------------------------------------------------------------------------------
PathInit ==
    /\ PoolInit
    /\ Rules!RulesInit
    /\ DEFAULT_ACTION = "accept"
    /\ settling = {}
    /\ stage = [c \in Ctx |-> "none"]
    /\ route = [c \in Ctx |-> "none"]
    /\ packet = [c \in Ctx |-> NoPacket]
    /\ action = [c \in Ctx |-> "accept"]
    /\ scanned = [c \in Ctx |-> FALSE]

\* Context c's packet leaves the hook it was in for stage st ("none": for good).
MoveTo(c, st) ==
    /\ stage' = [stage EXCEPT ![c] = st]
    /\ route' = IF st = "none" THEN [route EXCEPT ![c] = "none"] ELSE route
    /\ packet' = IF st = "none" THEN [packet EXCEPT ![c] = NoPacket] ELSE packet
    /\ action' = [action EXCEPT ![c] = "accept"]
    /\ scanned' = [scanned EXCEPT ![c] = FALSE]

Accept(c) == MoveTo(c, After(stage[c], route[c]))

Drop(c) == MoveTo(c, "none")

InPath == UNCHANGED <<rulesVars, adminVars>>

\* The stack hands a packet to its first hook, or to the next one.
Arrive(c, p, rt) ==
    /\ stage[c] = "none" /\ pc[c] = "idle" /\ ~oops
    /\ stage' = [stage EXCEPT ![c] = IF rt \in {"reply", "out"} THEN "post" ELSE "pre"]
    /\ route' = [route EXCEPT ![c] = rt]
    /\ packet' = [packet EXCEPT ![c] = p]
    /\ InPath
    /\ UNCHANGED <<poolVars, action, scanned>>

\* Slip: DEFAULT_ACTION is read for the first hook of a packet only.
EnterHookStale(c) ==
    /\ stage[c] # "none"
    /\ Call(c, KeyOf[packet[c]])
    /\ action' = IF stage[c] = "pre" THEN [action EXCEPT ![c] = DEFAULT_ACTION] ELSE action
    /\ InPath
    /\ UNCHANGED <<stage, route, packet, scanned>>

\* A hook starts: hook_main reads DEFAULT_ACTION, both ask for the connection.
EnterHook(c) ==
    /\ stage[c] # "none"
    /\ Call(c, KeyOf[packet[c]])
    /\ action' = IF InMain(c) THEN [action EXCEPT ![c] = DEFAULT_ACTION] ELSE action
    /\ InPath
    /\ UNCHANGED <<stage, route, packet, scanned>>

\* hasConn.
HasConn(c) ==
    /\ (\E s \in Slot : LookupHit(c, s)) \/ LookupMiss(c) \/ Refresh(c)
    /\ InPath
    /\ UNCHANGED pathVars

\* The connection is known.  hook_main accepts; hook_nat_in accepts too, for no
\* code ever sets a node's natType to anything but NAT_TYPE_NO.  (What hook_nat_in
\* reads in the memory of a node freed meanwhile may say NAT_TYPE_DEST, and then the
\* packet goes on with another destination: left out, packets keep their addresses.)
Known(c) ==
    /\ Use(c)
    /\ Accept(c)
    /\ InPath

\* hook_nat_in warns about an unknown connection, and accepts.
NatUnknown(c) ==
    /\ stage[c] = "nat"
    /\ Reject(c)
    /\ Accept(c)
    /\ InPath

\* read_lock(&FWRuleLock) lets the context in.
MayScan(c) == IF route[c] = "out" THEN Rules!CanRead ELSE Rules!CanReadInSoftirq

\* matchFWRules finds no rule for the packet.
NoMatch(c) ==
    /\ InMain(c) /\ pc[c] = "miss" /\ ~scanned[c] /\ ~oops
    /\ MayScan(c) /\ ~Rules!Matched(packet[c])
    /\ scanned' = [scanned EXCEPT ![c] = TRUE]
    /\ InPath
    /\ UNCHANGED <<poolVars, stage, route, packet, action>>

\* matchFWRules finds one and copies it through hook_main's NULL pointer: a panic
\* in a softirq.
MatchPanics(c) ==
    /\ InMain(c) /\ pc[c] = "miss" /\ ~scanned[c] /\ ~oops
    /\ MayScan(c) /\ Rules!Matched(packet[c])
    /\ oops' = TRUE
    /\ InPath
    /\ UNCHANGED <<nodes, timer, contexts, pathVars>>

\* Slip: the dying process leaves its packet in the hook.
MatchKillsInHook(c) ==
    /\ route[c] = "out" /\ InMain(c) /\ ~scanned[c] /\ pc[c] = "miss" /\ ~oops
    /\ Rules!MatchKills(packet[c])
    /\ Drop(c)
    /\ UNCHANGED <<poolVars, adminVars>>

\* The same in the context of the sending process: it dies with FWRuleLock held.
MatchKills(c) ==
    /\ route[c] = "out" /\ InMain(c) /\ ~scanned[c]
    /\ Rules!MatchKills(packet[c])
    /\ Reject(c)
    /\ Drop(c)
    /\ UNCHANGED adminVars

\* hook_main's default is to accept: addConn.
AddConn(c) ==
    /\ InMain(c) /\ scanned[c] /\ action[c] = "accept"
    /\ \E s \in Slot : Alloc(c, s)
    /\ InPath
    /\ UNCHANGED pathVars

\* addConn failed or is done: NF_ACCEPT.
AddConnReturns(c) ==
    /\ InMain(c) /\ scanned[c] /\ action[c] = "accept"
    /\ AllocFails(c) \/ Link(c)
    /\ Accept(c)
    /\ InPath

\* hook_main's default is to drop.
DropDefault(c) ==
    /\ InMain(c) /\ scanned[c] /\ action[c] = "drop"
    /\ Reject(c)
    /\ Drop(c)
    /\ InPath

--------------------------------------------------------------------------------
OffPath == UNCHANGED pathVars

Available(a) == a \notin settling /\ ~oops

\* REQ_ADDFWRule.
AddRule(a) ==
    /\ Available(a)
    /\ \E cell \in Cell, r \in Rules!RuleValue, after \in Name \cup {NoName} :
          Rules!AppendAtHead(a, cell, r, after) \/ Rules!AppendAfter(a, cell, r, after)
    /\ OffPath
    /\ UNCHANGED <<poolVars, adminVars>>

\* ... which names a rule to follow that does not exist.
AddRuleFails(a) ==
    /\ Available(a)
    /\ \E after \in Name : Rules!AppendFails(a, after)
    /\ OffPath
    /\ UNCHANGED <<poolVars, adminVars>>

\* Either request where it finds FWRuleLock taken.
WaitForRules(a) ==
    /\ Available(a)
    /\ Rules!WaitToWrite(a)
    /\ OffPath
    /\ UNCHANGED <<poolVars, adminVars>>

\* REQ_DELFWRule: takes the lock, removes rule by rule, drops the lock.
DelRule(a) ==
    /\ Available(a)
    /\ \E n \in Name : Rules!RemoveStart(a, n)
    /\ OffPath
    /\ UNCHANGED <<poolVars, adminVars>>

\* Slip: kfree comes before eraseConnRelated, which reads masks and ports in memory
\* that says anything by then.
DelRuleOneFreed(a, cell) ==
    /\ cell \in condemned
    /\ Rules!RemoveOne(a)
    /\ condemned' = condemned \ {cell}
    /\ \E K \in SUBSET Key : EraseConnRelated(K)
    /\ OffPath
    /\ UNCHANGED adminVars

DelRuleOne(a, cell) ==
    /\ cell \in condemned
    /\ Rules!RemoveOne(a)
    /\ condemned' = condemned \ {cell}
    /\ EraseConnRelated(KeysOf(rule[cell].covers))
    /\ OffPath
    /\ UNCHANGED adminVars

\* Slips: the lock is dropped between two removals, or never.
DelRuleDoneEarly(a) ==
    /\ ~oops /\ writer = a
    /\ writer' = NoAdmin
    /\ OffPath
    /\ UNCHANGED <<poolVars, adminVars, ruleList, rule, condemned, waiting, leaked,
                   formHead, overrun>>

DelRuleDoneNever(a) ==
    /\ ~oops /\ writer = a
    /\ OffPath
    /\ UNCHANGED <<poolVars, adminVars, rulesVars>>

DelRuleDone(a) ==
    /\ ~oops /\ Rules!RemoveDone(a)
    /\ OffPath
    /\ UNCHANGED <<poolVars, adminVars>>

\* REQ_SETAction stores the action and sends its answer ...
SetAction(a, act) ==
    /\ Available(a) /\ Rules!Serving(a) /\ a \notin waiting
    /\ DEFAULT_ACTION' = act
    /\ settling' = settling \cup {a}
    /\ OffPath
    /\ UNCHANGED <<poolVars, rulesVars>>

\* ... then calls dealWithSetAction with whatever DEFAULT_ACTION is by then.  Its
\* erase rule has no address masks, but .sport = .dport = -1 is the port range
\* 65535..65535.
DealWithSetAction(a) ==
    /\ a \in settling /\ ~oops
    /\ settling' = settling \ {a}
    /\ IF DEFAULT_ACTION # "accept" THEN EraseConnRelated(MaxPorts) ELSE UNCHANGED poolVars
    /\ OffPath
    /\ UNCHANGED <<rulesVars, DEFAULT_ACTION>>

\* The pool's own steps: the timer, the clock, and the faults of ConnPool.
Timer == TimerFire /\ OffPath /\ InPath

Clock == Tick /\ OffPath /\ InPath

PoolFaults == (WalkFaults \/ \E c \in Ctx : IndexFaults(c)) /\ OffPath /\ InPath

--------------------------------------------------------------------------------
\* matchFWRules, which waits for FWRuleLock.
Scan(c) == NoMatch(c) \/ MatchPanics(c) \/ MatchKills(c)

Hook(c) ==
    \/ EnterHook(c)
    \/ HasConn(c)
    \/ Known(c)
    \/ NatUnknown(c)
    \/ Scan(c)
    \/ AddConn(c)
    \/ AddConnReturns(c)
    \/ DropDefault(c)

\* What needs FWRuleLock for writing.
Edit(a) == AddRule(a) \/ AddRuleFails(a) \/ DelRule(a)

\* A request that is being served goes on: one that waits for FWRuleLock, too.
Serve(a) ==
    \/ a \in waiting /\ Edit(a)
    \/ \E cell \in Cell : DelRuleOne(a, cell)
    \/ DelRuleDone(a)
    \/ DealWithSetAction(a)

PathNext ==
    \/ \E c \in Ctx, p \in Packet, rt \in Routes : Arrive(c, p, rt)
    \/ \E c \in Ctx : Hook(c)
    \/ \E a \in Admin : Edit(a) \/ WaitForRules(a) \/ Serve(a)
    \/ \E a \in Admin, act \in Rules!Action : SetAction(a, act)
    \/ Timer
    \/ Clock
    \/ PoolFaults

PathSpec == PathInit /\ [][PathNext]_vars

\* Softirqs and processes that are in a hook or a request go on, the timer softirq
\* runs when it is due, and jiffies goes on.  A reader that waits for FWRuleLock
\* gets it when live writers come and go: the kernel's queued rwlock serves those that
\* wait in turn, and softirqs ahead of them.  Packets and requests come when they
\* please.
FairPathSpec ==
    /\ PathSpec
    /\ \A c \in Ctx : WF_vars(Hook(c)) /\ SF_vars(Scan(c))
    /\ \A a \in Admin : WF_vars(Serve(a))
    /\ WF_vars(Timer) /\ WF_vars(Clock)

--------------------------------------------------------------------------------
(* Safety. *)

\* The type invariant.
PathTypeOK ==
    /\ DEFAULT_ACTION \in Rules!Action /\ settling \subseteq Admin
    /\ stage \in [Ctx -> {"none", "pre", "nat", "post"}]
    /\ route \in [Ctx -> Routes \cup {"none"}]
    /\ packet \in [Ctx -> Packet \cup {NoPacket}]
    /\ action \in [Ctx -> Rules!Action] /\ scanned \in [Ctx -> BOOLEAN]
    /\ \A c \in Ctx : stage[c] # "none" => packet[c] \in Packet /\ route[c] \in Routes
    /\ \A c \in Ctx : pc[c] # "idle" => stage[c] # "none" /\ pkt[c] = KeyOf[packet[c]]

\* The hooks, the requests and the timer use the pool as ConnPool says: what is
\* checked and proved of the pool alone holds of the whole firewall.
ImplementsPool == PoolSpec

\* The hooks and the requests use the rules as FWRules says, with the erases of
\* removeFWRules, and the faults of matching packets, in between.
ImplementsRules == Rules!RulesSpec

\* Packets that will be let through, and tracked, if they are not known.
Stragglers ==
    {c \in Ctx : InMain(c) /\ action[c] = "accept" /\ pc[c] \in {"lookup", "miss", "link"}}

\* Once the default action is to drop, only packets already in a hook can still
\* bring a connection into the pool: their number only falls, at every hook the
\* default is read anew, and removals, faults and races let nobody else in.
DropClosesTheDoor ==
    [][DEFAULT_ACTION = "drop" /\ DEFAULT_ACTION' = "drop" =>
          /\ Stragglers' \subseteq Stragglers
          /\ \A k \in Key : LinkedOf(k) = {} /\ LinkedOf(k)' # {} =>
                 \E c \in Stragglers : pc[c] = "link" /\ pkt[c] = k]_vars

--------------------------------------------------------------------------------
(* Liveness. *)

\* A request that waits for FWRuleLock while a dead reader keeps it waits for ever, and
\* with it every process that sends a packet: read_lock queues behind the writer.
BehindTheDead(c) == route[c] = "out" /\ leaked /\ waiting # {}

\* Every packet is decided, with that one exception: neither the pool nor a removal
\* that holds FWRuleLock across its erases holds it up for ever, and what comes in or
\* is forwarded passes a lock that a dead reader keeps.
PacketsDecided ==
    \A c \in Ctx : stage[c] # "none" ~> stage[c] = "none" \/ oops \/ BehindTheDead(c)

--------------------------------------------------------------------------------
(* What the documentation says. *)

\* README: a rule's action, ACCEPT or DROP, is what happens to the packets it matches.
MatchedPacketsSurvive == ~oops /\ ~leaked
================================================================================
