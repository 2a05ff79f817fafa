--------------------------------- MODULE Client ---------------------------------
(***************************************************************************)
(* The command line client: main, cmdAddRule and cmdAddNATRule (main.c),   *)
(* the functions of Op.c that form a request, processKernelAnswer and the  *)
(* functions of display.c that show the answer; between them the kernel's  *)
(* two lists of rules, as far as the client's own requests write them, a   *)
(* record of addLog (FWLogs.c) and the connections of formAllConns.        *)
(*                                                                         *)
(* One action is one command, from main to the request or the refusal.     *)
(* The structures cross as bytes (Layout), so that what is listed is what  *)
(* the client finds at its own offsets in what the kernel kept.  How the   *)
(* exchange itself may fail is in Exchange, what an edit of the kernel's   *)
(* list may do to others in FWRules.                                       *)
(***************************************************************************)
EXTENDS Notation, Layout

CONSTANTS
    Words,       \* the sizes of a pointer of the builds
    TypedRule,   \* what may be answered to the questions of rule add
    TypedNAT,    \* what may be answered to the questions of nat add
    Junk,        \* what the stack may hold where a variable is not initialised
    Probe,       \* addresses of packets
    Packet,      \* packets that are logged or open a connection
    MaxNAT       \* bound: NAT rules, or connections, in the kernel; only one of its lists
                 \* has members at a time, and that of rules and the log have one at most

AddressText == [octets : Seq(Nat) \ {<<>>}, mask : Nat \cup {NoMask}]

PortText ==
    {AnyPorts} \cup [kind : {"one"}, lo : Nat] \cup [kind : {"range"}, lo : Nat, hi : Nat]

ASSUME ClientAssumption ==
    /\ Words \subseteq {4, 8}
    /\ Junk \subseteq 0..USHRT_MAX
    /\ MaxNAT \in Nat
    /\ \A t \in TypedRule : /\ {"src", "dst"} \subseteq DOMAIN t
                           /\ t.src \in AddressText /\ t.dst \in AddressText
                           /\ t.sport \in PortText /\ t.dport \in PortText
                           /\ t.name.len \in Nat /\ t.after.len \in Nat
    /\ \A t \in TypedNAT : /\ {"src", "nat"} \subseteq DOMAIN t
                          /\ t.src \in AddressText /\ t.nat \in AddressText
                          /\ t.ports \in PortText
    /\ \A p \in Packet : p.tot_len \in 0..USHRT_MAX /\ p.ihl \in 5..15

VARIABLES
    word,      \* the size of a pointer
    at,        \* where the client is
    typed,     \* what was typed (history)
    request,   \* the request that was formed
    rules,     \* the kernel's filter rules, as the client wrote them
    nats,      \* the kernel's NAT rules, as the client wrote them
    logs,      \* the log
    conns,     \* the connections
    screen     \* what the last command showed

clientVars == <<word, at, typed, request, rules, nats, logs, conns, screen>>

MAXRuleNameLen == 11

Nothing == [type |-> "nothing"]

Says(what) == [type |-> what]

ClientInit ==
    /\ word \in Words
    /\ at = "shell"
    /\ typed = Nothing /\ request = Nothing /\ screen = Nothing
    /\ rules = <<>> /\ nats = <<>> /\ logs = <<>> /\ conns = <<>>

lists == <<rules, nats, logs, conns>>

\* The lists that are not l are empty.
Alone(l) == \A i \in 1..4 : lists[i] # l => lists[i] = <<>>

\* The client prints why and is gone.
Refuse(what, why) ==
    /\ at = "shell"
    /\ typed' = what /\ screen' = Says(why)
    /\ UNCHANGED <<word, at, request, lists>>

\* The client calls user2kernel.
Ask(what, message) ==
    /\ at = "shell"
    /\ at' = "asking"
    /\ typed' = what /\ request' = message /\ screen' = Nothing
    /\ UNCHANGED <<word, lists>>

--------------------------------------------------------------------------------
(* Commands *)

\* What may stand for a name.  One of 11 characters has no terminator: strncpy copies 11
\* and the twelfth byte of the structure is what the stack held.
Names(n) ==
    {[text |-> n.text, ended |-> e] : e \in IF n.len < MAXRuleNameLen THEN {TRUE} ELSE BOOLEAN}

\* Slip: the ends of a range are not compared.
BadAnswerPorts(t, sport, dport) ==
    \/ t.after.len > MAXRuleNameLen
    \/ t.name.len \notin 1..MAXRuleNameLen
    \/ t.protocol \notin {"TCP", "UDP", "ICMP", "any"}

\* The questions of cmdAddRule that end the client with a word of its own.
BadAnswer(t, sport, dport) ==
    \/ t.after.len > MAXRuleNameLen
    \/ t.name.len \notin 1..MAXRuleNameLen
    \/ ~PortsOK(sport) \/ ~PortsOK(dport)
    \/ t.protocol \notin {"TCP", "UDP", "ICMP", "any"}

\* as is history: what was typed.
FilterRule(t, name, sport, dport) ==
    [as |-> t, name |-> name,
     saddr |-> Address(t.src), smask |-> Mask(t.src), sport |-> sport,
     daddr |-> Address(t.dst), dmask |-> Mask(t.dst), dport |-> dport,
     protocol |-> t.protocol, action |-> t.action, log |-> t.log]

\* rule add: cmdAddRule, addFilterRule
RuleAdd ==
    \E t \in TypedRule : \E sport \in Ports(t.sport, Junk), dport \in Ports(t.dport, Junk),
                           name \in Names(t.name), after \in Names(t.after) :
        IF BadAnswer(t, sport, dport) THEN Refuse(t, "EXIT")
        ELSE IF ~AddressOK(t.src) \/ ~AddressOK(t.dst) THEN Refuse(t, "WRONG_IP")
        ELSE Ask(t, [type |-> "REQ_ADDIPRule", ruleName |-> after,
                     rule |-> FilterRule(t, name, sport, dport)])

\* rule del: the name is an argument.
RuleDel ==
    \E n \in {t.name : t \in TypedRule} : \E name \in Names(n) :
        LET what == [type |-> "rule del", name |-> n]
        IN IF n.len > MAXRuleNameLen THEN Refuse(what, "EXIT")
           ELSE Ask(what, [type |-> "REQ_DELIPRule", ruleName |-> name])

\* rule default
RuleDefault ==
    \/ \E action \in {"NF_ACCEPT", "NF_DROP"} :
           Ask(Says("rule default"), [type |-> "REQ_SETAction", defaultAction |-> action])
    \/ Refuse(Says("rule default"), "EXIT")

\* Slip: the source's address is parsed first and the NAT address's mask overwrites its.
NATRecordSwapped(t, ports) ==
    [as |-> t, saddr |-> Address(t.src), smask |-> Mask(t.nat), daddr |-> Address(t.nat),
     sport |-> ports[1], dport |-> ports[2]]

\* natRule
NATRecord(t, ports) ==
    [as |-> t, saddr |-> Address(t.src), smask |-> Mask(t.src), daddr |-> Address(t.nat),
     sport |-> ports[1], dport |-> ports[2]]

\* nat add: cmdAddNATRule, addNATRule.  The mask of the NAT address goes to smask first
\* and the source's overwrites it.
NATAdd ==
    \E t \in TypedNAT : \E ports \in Ports(t.ports, Junk) :
        IF ~PortsOK(ports) THEN Refuse(t, "EXIT")
        ELSE IF ~AddressOK(t.nat) \/ ~AddressOK(t.src) THEN Refuse(t, "WRONG_IP")
        ELSE Ask(t, [type |-> "REQ_ADDNATRule", natRule |-> NATRecord(t, ports)])

\* nat del.  If no number was typed, num is what the stack held; bound: up to MaxNAT.
NATDel ==
    \E num \in -1..MaxNAT :
        IF num < 0 THEN Refuse(Says("nat del"), "NO_SUCH_RULE")
        ELSE Ask(Says("nat del"), [type |-> "REQ_DELNATRule", count |-> num])

\* The commands that list: show and list for the rules, show for the rest.
Show ==
    \E what \in {"REQ_GETAllIPRules", "REQ_GETNATRules", "REQ_GETAllConns", "REQ_GETAllIPLogs"} :
        Ask(Says("show"), Says(what))

\* wrongCommand, or a missing argument
WrongCommand == Refuse(Says("wrong"), "EXIT")

--------------------------------------------------------------------------------
(* The kernel's lists *)

\* strcmp: a name with no terminator runs into the bytes behind it.
SameName(a, b) == a.text = b.text /\ a.ended /\ b.ended

AppendFWRules ==
    /\ request.type = "REQ_ADDIPRule" /\ rules = <<>> /\ Alone(rules)
    /\ rules' = <<request.rule>>
    /\ UNCHANGED <<nats, logs, conns>>
    /\ screen' = Says("Success.")

\* There is one rule at most.
RemoveFWRules ==
    /\ request.type = "REQ_DELIPRule"
    /\ rules' = IF \E i \in DOMAIN rules : SameName(rules[i].name, request.ruleName)
                THEN <<>> ELSE rules
    /\ UNCHANGED <<nats, logs, conns>>
    /\ screen' = [type |-> "deleted", count |-> Len(rules) - Len(rules')]

AddNATRule ==
    /\ request.type = "REQ_ADDNATRule" /\ Len(nats) < MaxNAT /\ Alone(nats)
    /\ nats' = <<request.natRule>> \o nats
    /\ UNCHANGED <<rules, logs, conns>>
    /\ screen' = Says("Success.")

\* The list has a rule of that number; for the head of an empty list see Exchange.
DeleteNATRule ==
    /\ request.type = "REQ_DELNATRule" /\ ~(request.count = 0 /\ nats = <<>>)
    /\ LET hit == request.count < Len(nats)
       IN /\ nats' = IF hit THEN SubSeq(nats, 1, request.count) \o
                                 SubSeq(nats, request.count + 2, Len(nats))
                     ELSE nats
          /\ screen' = [type |-> "deleted", count |-> IF hit THEN 1 ELSE 0]
    /\ UNCHANGED <<rules, logs, conns>>

\* addLog: ports for TCP and UDP only; tot_len is not turned round from network order, and
\* the difference is an unsigned int of 4 bytes, of which the model keeps the lower 2.
LogItem(p, action) ==
    LET port(n) == IF p.protocol \in {"TCP", "UDP"} THEN n ELSE 0
        tot_len == (p.tot_len % 256) * 256 + p.tot_len \div 256
    IN [of |-> p, saddr |-> p.saddr, daddr |-> p.daddr,
        sport |-> port(p.sport), dport |-> port(p.dport), protocol |-> p.protocol,
        len |-> (tot_len - p.ihl * 4) % (USHRT_MAX + 1), action |-> action]

AddLog ==
    /\ at = "shell" /\ logs = <<>> /\ Alone(logs)
    /\ \E p \in Packet, action \in {0, 1} : logs' = <<LogItem(p, action)>>
    /\ UNCHANGED <<word, at, typed, request, rules, nats, conns, screen>>

\* addConn, as formAllConns reports it: natType is never anything but NAT_TYPE_NO.
AddConn ==
    /\ at = "shell" /\ Len(conns) < MaxNAT /\ Alone(conns)
    /\ \E p \in Packet : conns' = Append(conns, p)
    /\ UNCHANGED <<word, at, typed, request, rules, nats, logs, screen>>

--------------------------------------------------------------------------------
(* Answers *)

Unreadable == <<>>

\* The columns of a row are <<what to show, the members it is made of>>; a column with a
\* member that is not readable shows something else.
Columns(row, readable) ==
    [c \in DOMAIN row |-> IF row[c][2] \subseteq readable THEN <<row[c][1]>> ELSE Unreadable]

\* showRules, showOneRule
ShowRule(r, i) ==
    Columns([name |-> <<r.name, {"name"}>>,
             src |-> <<ShowAddress(r.saddr, r.smask), {"saddr", "smask"}>>,
             dst |-> <<ShowAddress(r.daddr, r.dmask), {"daddr", "dmask"}>>,
             sport |-> <<ShowPorts(r.sport), {"sport"}>>,
             dport |-> <<ShowPorts(r.dport), {"dport"}>>,
             protocol |-> <<r.protocol, {"protocol"}>>,
             action |-> <<IF r.action \in {0, 1} THEN r.action ELSE 2, {"action"}>>,
             log |-> <<IF r.log = 0 THEN 0 ELSE 1, {"log"}>>],
            Kept(KernelFWRule(word), ClientFWRule(word), i))

\* showNATRules
ShowNATRule(r, i) ==
    Columns([src |-> <<ShowAddress(r.saddr, r.smask), {"saddr", "smask"}>>,
             nat |-> <<r.daddr, {"daddr"}>>,
             ports |-> <<<<r.sport, r.dport>>, {"sport", "dport"}>>],
            Kept(KernelNATRule(word), ClientNATRecord(word), i))

\* IPint2IPstrWithPort: a port of 0 is left out.
WithPort(ip, port) == IF port = 0 THEN <<ip>> ELSE <<ip, port>>

\* showLogs, showOneLog
ShowLog(r, i) ==
    Columns([src |-> <<WithPort(r.saddr, r.sport), {"saddr", "sport"}>>,
             dst |-> <<WithPort(r.daddr, r.dport), {"daddr", "dport"}>>,
             protocol |-> <<r.protocol, {"protocol"}>>,
             len |-> <<r.len, {"len"}>>, action |-> <<r.action, {"action"}>>],
            Written(KernelLogItem(word), ClientLogItem(word), i))

\* showConns, showOneConn
ShowConn(r, i) ==
    Columns([src |-> <<WithPort(r.saddr, r.sport), {"saddr", "sport"}>>,
             dst |-> <<WithPort(r.daddr, r.dport), {"daddr", "dport"}>>,
             protocol |-> <<r.protocol, {"protocol"}>>],
            Written(ConnLog(KernelNATRule(word)), ConnLog(ClientNATRecord(word)), i))

\* processKernelAnswer, for the answers that are not said in a word.
Listing ==
    CASE request.type = "REQ_GETAllIPRules" -> [type |-> "RSP_IPRules", rows |-> [i \in DOMAIN rules |-> ShowRule(rules[i], i - 1)]]
      [] request.type = "REQ_GETNATRules" -> [type |-> "RSP_NATRules", rows |-> [i \in DOMAIN nats |-> ShowNATRule(nats[i], i - 1)]]
      [] request.type = "REQ_GETAllIPLogs" -> [type |-> "RSP_IPLogs", rows |-> [i \in DOMAIN logs |-> ShowLog(logs[i], i - 1)]]
      [] request.type = "REQ_GETAllConns" -> [type |-> "RSP_ConnLogs", rows |-> [i \in DOMAIN conns |-> ShowConn(conns[i], i - 1)]]
      [] request.type = "REQ_SETAction" -> [type |-> "RSP_MSG"]

ProcessKernelAnswer ==
    /\ request.type \in {"REQ_GETAllIPRules", "REQ_GETNATRules", "REQ_GETAllIPLogs",
                         "REQ_GETAllConns", "REQ_SETAction"}
    /\ screen' = Listing
    /\ UNCHANGED lists

\* nl_recv takes no request that is shorter than its own structure.
Taken == word \notin ShortBuilds

Answered ==
    /\ at = "asking" /\ Taken
    /\ \/ AppendFWRules \/ RemoveFWRules \/ AddNATRule \/ DeleteNATRule
       \/ ProcessKernelAnswer
    /\ at' = "shell" /\ typed' = Nothing /\ request' = Nothing
    /\ UNCHANGED word

\* The user gives up a client that waits; also the way out at the bounds.
Interrupted ==
    /\ at = "asking"
    /\ at' = "shell" /\ typed' = Nothing /\ request' = Nothing /\ screen' = Nothing
    /\ UNCHANGED <<word, lists>>

ClientNext ==
    \/ RuleAdd \/ RuleDel \/ RuleDefault \/ NATAdd \/ NATDel \/ Show \/ WrongCommand
    \/ Answered \/ Interrupted \/ AddLog \/ AddConn

ClientSpec == ClientInit /\ [][ClientNext]_clientVars

--------------------------------------------------------------------------------
(* What the kernel makes of a request for a filter rule *)

\* The four bytes of a member of the client's rule.
FourBytes(r, g) == IF g \in {"sport", "dport"} THEN RangeBytes(r[g]) ELSE r[g]

\* The kernel finds its member f where the client has another: its two addresses, their
\* masks and the source's ports each in the place of just one.
Heard(r, f) ==
    LET g == CHOOSE g \in InPlaceOf(KernelFWRule(word), ClientFWRule(word), f) : TRUE
    IN FourBytes(r, g)

\* getMatched, for these three.  The kernel's dport is the client's protocol and what its
\* stack held, its protocol the client's action.
SourceMatched(r, ip) == ipcmp(ip, Heard(r, "saddr"), Heard(r, "smask"))

DestMatched(r, ip) == ipcmp(ip, Heard(r, "daddr"), Heard(r, "dmask"))

SportMatched(r, port) == PortMatched(BytesRange(Heard(r, "sport")), port)

--------------------------------------------------------------------------------
(* Properties *)

\* What the client holds and the kernel keeps is of its type; what is asked was typed.
ClientTypeOK ==
    /\ at \in {"shell", "asking"} /\ word \in Words
    /\ at = "asking" <=> request # Nothing
    /\ Len(rules) <= 1 /\ Len(nats) <= MaxNAT
    /\ \A i \in DOMAIN rules : /\ rules[i].as.name.len \in 1..MAXRuleNameLen
                              /\ rules[i].saddr \in [1..4 -> 0..255]
                              /\ rules[i].daddr \in [1..4 -> 0..255]
                              /\ PortsOK(rules[i].sport) /\ PortsOK(rules[i].dport)
    /\ \A i \in DOMAIN nats : nats[i].sport \in 0..nats[i].dport

Quad(t) == Len(t.octets) = 4 /\ \A i \in 1..4 : t.octets[i] <= 255

\* The reference: how many bits a typed mask stands for.  (The dangling else of
\* IPstr2IPint: no mask covers every address, and a mask of 0 the one address.)
Prefix(t) == CASE t.mask = NoMask -> 0 [] t.mask = 0 -> 32 [] OTHER -> t.mask

\* ip and mask are what was typed: they have its numbers and just so many bits, and the
\* client shows them so.
HoldsAddress(t, ip, mask) ==
    Quad(t) =>
        /\ ip = t.octets
        /\ \A j \in 1..32 : Bit(mask, j) = IF j <= Prefix(t) THEN 1 ELSE 0
        /\ t.mask \in 1..32 => ShowAddress(ip, mask) = t

\* A range of numbers that fit in 16 bits.
ShortRange(t) == t.kind = "range" /\ t.lo <= USHRT_MAX /\ t.hi <= USHRT_MAX

ShownAs(t) == IF t.kind = "range" THEN ShowPorts(<<t.lo, t.hi>>) ELSE t

\* So is the range r.  Of a single port only the lower end is certain: sscanf leaves the
\* upper one as it was.
HoldsPorts(t, r) ==
    /\ t.kind = "any" \/ ShortRange(t) => ShowPorts(r) = ShownAs(t)
    /\ ShortRange(t) => t.lo <= t.hi
    /\ t.kind = "one" /\ t.lo <= USHRT_MAX => r[1] = t.lo /\ r[2] >= t.lo

\* A request for a rule holds what was typed, in the client's own order of its members:
\* addresses of four numbers up to 255 and their masks, and ports of 16 bits in order.  No
\* such address is refused.  What the kernel makes of the members is another matter.
RequestAsTyped ==
    /\ request.type = "REQ_ADDIPRule" =>
           LET r == request.rule
           IN /\ HoldsAddress(r.as.src, r.saddr, r.smask) /\ HoldsAddress(r.as.dst, r.daddr, r.dmask)
              /\ HoldsPorts(r.as.sport, r.sport) /\ HoldsPorts(r.as.dport, r.dport)
    /\ request.type = "REQ_ADDNATRule" =>
           LET r == request.natRule
           IN /\ HoldsAddress(r.as.src, r.saddr, r.smask)
              /\ HoldsPorts(r.as.ports, <<r.sport, r.dport>>)
    /\ screen.type = "WRONG_IP" =>
           \E f \in {"src", "dst", "nat"} \cap DOMAIN typed : ~Quad(typed[f]) \/ typed[f].mask > 32

\* What getMatched makes of a filter rule on a 32-bit build, where the request is taken: it
\* is not what was typed.  The mask of the destination is heard as the range of the source
\* ports, so that the rule matches no packet at all if 1 to 31 was typed behind the slash,
\* and none but from port 0 or 65535 otherwise.  A source is compared with the mask of the
\* source, at the ones of the destination's address; and if both ports were any, which is
\* how a rule for hosts alone is typed, a destination must end in 255.255.
HeardOtherwise ==
    request.type = "REQ_ADDIPRule" /\ Taken =>
        LET r == request.rule
            src == r.as.src
            dst == r.as.dst
        IN /\ \A p \in Junk : SportMatched(r, p) <=> \/ (Prefix(dst) = 0 /\ p = 0)
                                                    \/ (Prefix(dst) = 32 /\ p = USHRT_MAX)
           /\ Quad(src) /\ Quad(dst) =>
                  \A a \in Probe : SourceMatched(r, a) <=>
                      \A j \in 1..32 : Bit(dst.octets, j) = 1 =>
                                           Bit(a, j) = IF j <= Prefix(src) THEN 1 ELSE 0
           /\ r.as.sport.kind = "any" /\ r.as.dport.kind = "any" =>
                  \A a \in Probe : DestMatched(r, a) <=> \A j \in 17..32 : Bit(a, j) = 1

\* A name is shown as it was typed; behind one of 11 characters there may follow others.
NameShown(n, column) ==
    \E ended \in BOOLEAN : /\ column = <<[text |-> n.text, ended |-> ended]>>
                           /\ n.len < MAXRuleNameLen => ended

\* A listing shows the rules as they were typed and the traffic as it was, so far as the two
\* declarations of the structures agree.  On a 32-bit build all columns of a filter rule but
\* the source, over which the kernel writes its pointer, survive the way to the kernel and
\* back, though the kernel itself reads no member but the name in its place, and a name of
\* 11 characters may run on into the bytes behind it; of the NAT rules and the connections
\* the first row, behind which the rows have different lengths; and of a log record the
\* action alone, with a length in the wrong byte order.  On a 64-bit build nothing is ever
\* kept or answered.
ListedAsTyped ==
    /\ screen.type = "RSP_IPRules" => \A i \in DOMAIN screen.rows :
           LET row == screen.rows[i]
               t == rules[i].as
           IN /\ row.src = Unreadable
              /\ NameShown(t.name, row.name)
              /\ Quad(t.dst) /\ t.dst.mask \in 1..32 => row.dst = <<t.dst>>
              /\ t.sport.kind = "any" \/ ShortRange(t.sport) => row.sport = <<ShownAs(t.sport)>>
              /\ t.dport.kind = "any" \/ ShortRange(t.dport) => row.dport = <<ShownAs(t.dport)>>
              /\ row.protocol = <<t.protocol>>
              /\ t.action \in {0, 1} => row.action = <<t.action>>
              /\ t.log \in {0, 1} => row.log = <<t.log>>
              /\ {f \in Members(ClientFWRule(word)) :
                     Understood(KernelFWRule(word), ClientFWRule(word), f)} = {"name"}
    /\ screen.type = "RSP_NATRules" => \A i \in DOMAIN screen.rows :
           LET row == screen.rows[i]
               t == nats[i].as
           IN IF i = 1
              THEN /\ Quad(t.src) /\ t.src.mask \in 1..32 => row.src = <<t.src>>
                   /\ Quad(t.nat) => row.nat = <<t.nat.octets>>
                   /\ ShortRange(t.ports) => row.ports = <<<<t.ports.lo, t.ports.hi>>>>
              ELSE \A c \in DOMAIN row : row[c] = Unreadable
    /\ screen.type = "RSP_ConnLogs" => \A i \in DOMAIN screen.rows :
           LET row == screen.rows[i]
               p == conns[i]
           IN IF i = 1
              THEN /\ row.src = <<WithPort(p.saddr, p.sport)>> /\ row.dst = <<WithPort(p.daddr, p.dport)>>
                   /\ row.protocol = <<p.protocol>>
              ELSE \A c \in DOMAIN row : row[c] = Unreadable
    /\ screen.type = "RSP_IPLogs" => \A i \in DOMAIN screen.rows :
           LET row == screen.rows[i]
               p == logs[i].of
           IN /\ row.action = <<logs[i].action>>
              /\ row.src = Unreadable /\ row.dst = Unreadable /\ row.protocol = Unreadable
              /\ row.len = <<p.tot_len - p.ihl * 4>> => p.tot_len % 256 = p.tot_len \div 256
    /\ word = 8 => /\ rules = <<>> /\ nats = <<>>
                   /\ screen.type \in {"nothing", "EXIT", "WRONG_IP", "NO_SUCH_RULE"}
================================================================================
