------------------------------ MODULE MCPacketPath ------------------------------
(* Small instances of PacketPath for TLC. *)
EXTENDS PacketPath, TLC

CONSTANTS s1, s2, b1, b2, c1, c2, k1, k2, tcp1, udp1, tcp2

\* Two packets of one address pair that differ in the protocol share a key.
KeyOfPacket == [p \in Packet |-> IF p = tcp2 THEN k2 ELSE k1]

Collide == [k \in Key |-> b1]

EachItsBucket == [k \in Key |-> IF k = k1 THEN b1 ELSE b2]

Covers == {{udp1}}
EraseSetsOfRules == {KeysOf(covers) : covers \in Covers} \cup {MaxPorts}

NoKeys == {}
OnlyPanic == {"panic"}
LookupFailures == {"panic", "lookup", "index"}
WalkFailures == {"panic", "walk"}

Interchangeable ==
    Permutations(Slot) \cup Permutations(Ctx) \cup Permutations(Admin)
=================================================================================
