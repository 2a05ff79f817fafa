-------------------------------- MODULE Notation --------------------------------
(***************************************************************************)
(* How the client turns what is typed into a rule and a rule into what is  *)
(* shown: IPstr2IPint and IPint2IPstr of userApp/Op.c, the port ranges of  *)
(* cmdAddRule (userApp/main.c) and showOneRule (userApp/display.c); and    *)
(* what the kernel makes of the numbers: ipcmp (hook.c) and the port test  *)
(* of getMatched (FWRules.c).                                              *)
(*                                                                         *)
(* A typed address is the sequence of its dotted numbers with the number   *)
(* behind the slash, NoMask if there is no slash; other characters are     *)
(* refused at once and are not modelled.  An unsigned int that holds an    *)
(* address or a mask is the sequence of its four bytes, one that holds a   *)
(* packed port range the pair of its halves.                               *)
(***************************************************************************)
EXTENDS Integers, Sequences

NoMask == -1

Digits(n) == IF n < 10 THEN 1 ELSE IF n < 100 THEN 2 ELSE 3

\* The position of the slash.
Chars(octets) ==
    LET upTo[i \in 0..Len(octets)] ==
            IF i = 0 THEN 0 ELSE upTo[i - 1] + Digits(octets[i]) + (IF i > 1 THEN 1 ELSE 0)
    IN upTo[Len(octets)]

\* IPstr2IPint answers 0.  The test of an octet is tmp > 256.
AddressOK(t) ==
    /\ t.mask <= 32
    /\ t.mask # NoMask => Chars(t.octets) >= 7
    /\ Len(t.octets) <= 4
    /\ \A i \in DOMAIN t.octets : t.octets[i] <= 256

\* The address.  A number is shifted to its byte when the dot behind it is met, so the
\* last one stays in the lowest byte however few there are; and the ninth bit of 256 is
\* or'ed into the byte above.
Address(t) ==
    LET n == Len(t.octets)
        at[i \in 1..4] == IF i = 4 THEN t.octets[n] ELSE IF i < n THEN t.octets[i] ELSE 0
        carried(i) == i < 4 /\ at[i + 1] = 256
        low(i) == at[i] % 256
    IN [i \in 1..4 |-> IF carried(i) /\ low(i) % 2 = 0 THEN low(i) + 1 ELSE low(i)]

\* What the bits of a byte count, the highest first.
Weight == <<128, 64, 32, 16, 8, 4, 2, 1>>

\* Bit j of four bytes, from 1, the highest.
Bit(bytes, j) == (bytes[1 + (j - 1) \div 8] \div Weight[1 + ((j - 1) % 8)]) % 2

\* 0xFFFFFFFF << (32 - len), byte by byte.
Ones(len) ==
    [i \in 1..4 |-> LET bits == len - 8 * (i - 1)
                    IN IF bits <= 0 THEN 0 ELSE IF bits >= 8 THEN 255 ELSE 256 - Weight[bits]]

\* Slip: the shift loses a bit.
MaskShort(t) == IF t.mask \in {NoMask, 0} THEN Ones(0) ELSE Ones(t.mask - 1)

\* The mask.  The else of line 24 belongs to the if of line 23: a mask of 0 becomes all
\* ones, and no mask leaves the 0 that r_mask starts with.
Mask(t) == IF t.mask = NoMask THEN Ones(0) ELSE IF t.mask = 0 THEN Ones(32) ELSE Ones(t.mask)

\* IPint2IPstr: the mask is shown as 32 less its trailing zeros.
ShowAddress(ip, mask) ==
    LET ones == {j \in 1..32 : Bit(mask, j) = 1}
    IN [octets |-> ip,
        mask |-> IF ones = {} THEN 0 ELSE CHOOSE j \in ones : \A i \in ones : i <= j]

\* ipcmp: both and'ed with the mask are the same if they are so in each bit of the mask.
ipcmp(a, b, mask) == \A j \in 1..32 : Bit(mask, j) = 1 => Bit(a, j) = Bit(b, j)

--------------------------------------------------------------------------------
USHRT_MAX == 65535

AnyPorts == [kind |-> "any"]

\* The ranges that a text may become.  "%hu-%hu" takes each number modulo 2^16; if there
\* is no second one, max is what the stack held.
Ports(t, junk) ==
    CASE t.kind = "any" -> {<<0, USHRT_MAX>>}
      [] t.kind = "range" -> {<<t.lo % (USHRT_MAX + 1), t.hi % (USHRT_MAX + 1)>>}
      [] t.kind = "one" -> {t.lo % (USHRT_MAX + 1)} \X junk

PortsOK(r) == r[1] <= r[2]

\* The four bytes of a packed range, and what a packed range has for four bytes.
RangeBytes(r) == <<r[1] \div 256, r[1] % 256, r[2] \div 256, r[2] % 256>>

BytesRange(b) == <<256 * b[1] + b[2], 256 * b[3] + b[4]>>

\* Slip: the last port does not count.
PortMatchedBelow(r, p) == r[1] <= p /\ p < r[2]

\* getMatched, for one of the two ports.
PortMatched(r, p) == r[1] <= p /\ p <= r[2]

\* showOneRule
ShowPorts(r) ==
    IF r = <<0, USHRT_MAX>> THEN AnyPorts
    ELSE IF r[1] = r[2] THEN [kind |-> "one", lo |-> r[1]]
    ELSE [kind |-> "range", lo |-> r[1], hi |-> r[2]]
================================================================================
