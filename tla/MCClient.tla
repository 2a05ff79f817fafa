-------------------------------- MODULE MCClient --------------------------------
(* What is typed to the client, for TLC: one plain command and, one at a time, the    *)
(* answers that are special.                                                          *)
EXTENDS Client

Addr(octets, mask) == [octets |-> octets, mask |-> mask]

PlainAddr == Addr(<<10, 1, 2, 3>>, 24)

\* Masks of and around every byte; numbers at and above the limit; too few and too many numbers; a slash that
\* comes too early.
Addrs ==
    {Addr(<<10, 1, 2, 3>>, m) : m \in {NoMask, 0, 1, 8, 9, 15, 16, 17, 24, 25, 31, 32, 33}} \cup
    {Addr(<<255, 255, 255, 255>>, 32), Addr(<<0, 0, 0, 0>>, NoMask), Addr(<<0, 0, 0, 0>>, 0),
     Addr(<<10, 256, 2, 3>>, 24), Addr(<<10, 257, 2, 3>>, 24), Addr(<<10, 1, 2, 256>>, 32),
     Addr(<<10, 7>>, NoMask), Addr(<<10, 7>>, 8), Addr(<<1, 2, 3, 4, 5>>, NoMask)}

OnePort(n) == [kind |-> "one", lo |-> n]

PortRange(a, b) == [kind |-> "range", lo |-> a, hi |-> b]

PortTexts ==
    {AnyPorts, OnePort(80), PortRange(0, 65535), PortRange(20, 21), PortRange(80, 80),
     PortRange(90, 80), PortRange(100, 70000), PortRange(70000, 65535), OnePort(65600)}

NameOf(text, len) == [text |-> text, len |-> len]

TypedNames == {NameOf("web", 3), NameOf("elevenchars", 11), NameOf("twelve chars", 12)}

PlainRule ==
    [after |-> NameOf("", 0), name |-> NameOf("web", 3), src |-> PlainAddr, dst |-> PlainAddr,
     sport |-> AnyPorts, dport |-> PortRange(20, 21), protocol |-> "TCP", action |-> 0, log |-> 1]

Destinations ==
    {Addr(<<10, 1, 2, 3>>, m) : m \in {NoMask, 0, 1, 16, 17, 31, 32}} \cup
    {Addr(<<10, 1, 2, 256>>, 32), Addr(<<0, 0, 0, 0>>, NoMask)}

TypedRules ==
    {[PlainRule EXCEPT !.dport = AnyPorts, !.src = a, !.dst = d] : a \in {PlainAddr, Addr(<<10, 7>>, 8)}, d \in Destinations} \cup
    {[PlainRule EXCEPT !.src = a] : a \in Addrs} \cup {[PlainRule EXCEPT !.dst = a] : a \in Destinations} \cup
    {[PlainRule EXCEPT !.sport = p] : p \in PortTexts} \cup
    {[PlainRule EXCEPT !.dport = p] : p \in PortTexts} \cup
    {[PlainRule EXCEPT !.name = n] : n \in TypedNames} \cup {[PlainRule EXCEPT !.after = n] : n \in TypedNames} \cup
    {[PlainRule EXCEPT !.protocol = p] : p \in {"UDP", "ICMP", "any", "SCTP"}} \cup
    {[PlainRule EXCEPT !.action = a, !.log = l] : a \in 0..2, l \in 0..2}

PlainNAT == [src |-> PlainAddr, nat |-> Addr(<<192, 168, 52, 1>>, NoMask), ports |-> PortRange(1000, 2000)]

TypedNATs ==
    {PlainNAT, [PlainNAT EXCEPT !.src = Addr(<<10, 0, 0, 0>>, 8)], [PlainNAT EXCEPT !.ports = AnyPorts],
     [PlainNAT EXCEPT !.ports = PortRange(9, 8)], [PlainNAT EXCEPT !.ports = OnePort(80)],
     [PlainNAT EXCEPT !.nat = Addr(<<10, 1, 2, 3, 4>>, NoMask)],
     [PlainNAT EXCEPT !.src = Addr(<<300, 1, 2, 3>>, 8)]}

PacketOf(protocol, sport, dport, tot_len) ==
    [saddr |-> <<10, 1, 2, 3>>, daddr |-> <<47, 100, 10, 21>>, sport |-> sport, dport |-> dport,
     protocol |-> protocol, tot_len |-> tot_len, ihl |-> 5]

Packets == {PacketOf("TCP", 4000, 80, 60), PacketOf("ICMP", 0, 0, 84), PacketOf("UDP", 53, 53, 257)}

Builds == {4, 8}

\* The values of uninitialised variables, and the ports that are looked at.
Stack == {0, 20, 21, 79, 80, 81, 65535}

Probes ==
    {<<10, 1, 2, 3>>, <<10, 1, 2, 2>>, <<10, 1, 2, 131>>, <<10, 1, 3, 3>>, <<10, 1, 130, 3>>,
     <<10, 0, 2, 3>>, <<10, 129, 2, 3>>, <<11, 1, 2, 3>>, <<138, 1, 2, 3>>, <<0, 0, 0, 0>>,
     <<255, 255, 255, 0>>, <<10, 1, 2, 0>>, <<10, 1, 255, 255>>, <<10, 1, 255, 127>>}
================================================================================
