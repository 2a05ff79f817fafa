--------------------------------- MODULE Layout ---------------------------------
(***************************************************************************)
(* The structures that cross the netlink socket, as the two sides declare  *)
(* them: firewall_module/headers/structs.h and userApp/structs.h.  Both    *)
(* are laid out by the same C rules, for words of W bytes (8 on x86-64, 4  *)
(* on a 32-bit build), and copied byte by byte.                            *)
(*                                                                         *)
(* A member is <<name, size, alignment>>.                                  *)
(***************************************************************************)
EXTENDS Integers, Sequences, FiniteSetsExt

u32(f) == <<f, 4, 4>>
u16(f) == <<f, 2, 2>>
u8(f) == <<f, 1, 1>>
Name12(f) == <<f, 12, 1>>
Pointer(f, W) == <<f, W, W>>

\* The FWRule of the kernel.
KernelFWRule(W) ==
    <<Name12("name"), Pointer("next", W), u32("saddr"), u32("smask"), u32("sport"),
      u32("daddr"), u32("dmask"), u32("dport"), u8("protocol"), u32("action"), u32("log")>>

\* The FWRule of the client.
ClientFWRule(W) ==
    <<Name12("name"), u32("saddr"), u32("smask"), u32("daddr"), u32("dmask"), u32("sport"),
      u32("dport"), u8("protocol"), u32("action"), u32("log"), Pointer("next", W)>>

\* NATRule
KernelNATRule(W) ==
    <<u32("saddr"), u32("smask"), u16("sport"), u32("daddr"), u16("dport"), u16("nowPort"),
      Pointer("next", W)>>

\* NATRecord
ClientNATRecord(W) ==
    <<u32("saddr"), u16("sport"), u32("daddr"), u16("dport"), u32("smask"), u16("nowPort"),
      Pointer("next", W)>>

\* The logItem of the kernel; its time is called tm as in the client's.
KernelLogItem(W) ==
    <<Pointer("tm", W), u32("saddr"), u16("sport"), u32("daddr"), u16("dport"), u8("protocol"),
      u32("len"), u32("action"), Pointer("next", W)>>

\* The logItem of the client.
ClientLogItem(W) ==
    <<Pointer("tm", W), u32("saddr"), u32("daddr"), u16("sport"), u16("dport"), u8("protocol"),
      u32("len"), u32("action"), Pointer("next", W)>>

--------------------------------------------------------------------------------
AlignUp(n, a) == ((n + a - 1) \div a) * a

Offsets(s) ==
    LET off[i \in DOMAIN s] ==
            IF i = 1 THEN 0 ELSE AlignUp(off[i - 1] + s[i - 1][2], s[i][3])
    IN off

Alignment(s) == Max({s[i][3] : i \in DOMAIN s})

SizeOf(s) == AlignUp(Offsets(s)[Len(s)] + s[Len(s)][2], Alignment(s))

\* ConnLog, with the NAT rule of either side in it.
ConnLog(nat) ==
    <<u32("saddr"), u32("daddr"), u16("sport"), u16("dport"), u8("protocol"), u32("natType"),
      <<"nat", SizeOf(nat), Alignment(nat)>>>>

\* sizeof(struct userRequest): the type, the name, and a union whose largest member is
\* the rule.
RequestSize(rule) == AlignUp(AlignUp(16, Alignment(rule)) + SizeOf(rule), Alignment(rule))

\* The builds on which the client's request is shorter than the kernel's structure.
ShortBuilds == {W \in {4, 8} : RequestSize(ClientFWRule(W)) < RequestSize(KernelFWRule(W))}

Extent(s, f) ==
    LET i == CHOOSE i \in DOMAIN s : s[i][1] = f
    IN Offsets(s)[i]..(Offsets(s)[i] + s[i][2] - 1)

Members(s) == {s[i][1] : i \in DOMAIN s} \ {"next"}

\* What the kernel, whose layout is k, has as f stands where the client, whose layout is w,
\* has f.
Understood(k, w, f) == Extent(k, f) = Extent(w, f)

\* The client's members that stand just where the kernel has its member f: one or none.
InPlaceOf(k, w, f) == {g \in Members(w) : Extent(w, g) = Extent(k, f)}

\* Rows are as long for the one as for the other, or there is but the one before row i,
\* counted from 0.
InStep(k, w, i) == i > 0 => SizeOf(k) = SizeOf(w)

\* The members that the client reads as the kernel wrote them, in row i of a listing.
Written(k, w, i) == {f \in Members(w) : InStep(k, w, i) /\ Understood(k, w, f)}

\* The members that the client reads as it sent them itself: the kernel keeps the bytes of
\* the request, as many as its own structure has, save those where it puts its next.
Kept(k, w, i) ==
    {f \in Members(w) : /\ InStep(k, w, i)
                        /\ Max(Extent(w, f)) < SizeOf(k)
                        /\ Extent(w, f) \cap Extent(k, "next") = {}}
================================================================================
