----------------------------- MODULE Client_proofs -----------------------------
(* The client, for whatever is typed to it: what it asks for, what the kernel keeps and *)
(* what is listed.                                                                       *)
EXTENDS Client, SequenceLemmas

--------------------------------------------------------------------------------
(* Bits and masks *)

Bytes == [1..4 -> 0..255]

\* The mask of a length covers just so many bits, counted from the highest.
LEMMA OnesBits ==
    ASSUME NEW n \in 0..32, NEW j \in 1..32
    PROVE  Bit(Ones(n), j) = IF j <= n THEN 1 ELSE 0
<1>1. PICK k \in 0..3, r \in 1..8 : j = 8 * k + r
  <2>1. (j - 1) \div 8 \in 0..3 /\ 1 + ((j - 1) % 8) \in 1..8
    OBVIOUS
  <2>2. j = 8 * ((j - 1) \div 8) + (1 + ((j - 1) % 8))
    OBVIOUS
  <2> QED
    BY <2>1, <2>2
<1>2. (j - 1) \div 8 = k /\ 1 + ((j - 1) % 8) = r
  BY <1>1
<1> DEFINE byte == Ones(n)[1 + k]
           bits == n - 8 * k
<1>3. byte = IF bits <= 0 THEN 0 ELSE IF bits >= 8 THEN 255 ELSE 256 - Weight[bits]
  BY <1>1 DEF Ones
<1>4. Bit(Ones(n), j) = (byte \div Weight[r]) % 2
  BY <1>2 DEF Bit
<1>5. j <= n <=> r <= bits
  BY <1>1
<1> HIDE DEF byte
<1>6. CASE bits <= 0
  <2>1. byte = 0 /\ Weight[r] \in {128, 64, 32, 16, 8, 4, 2, 1}
    BY <1>3, <1>6 DEF Weight
  <2>2. (byte \div Weight[r]) % 2 = 0
    BY <2>1
  <2> QED
    BY <1>1, <1>4, <1>5, <1>6, <2>2
<1>7. CASE bits >= 8
  <2>1. byte = 255 /\ Weight[r] \in {128, 64, 32, 16, 8, 4, 2, 1}
    BY <1>3, <1>7 DEF Weight
  <2>2. (byte \div Weight[r]) % 2 = 1
    BY <2>1
  <2> QED
    BY <1>1, <1>4, <1>5, <1>7, <2>2
<1>8. CASE bits \in 1..7
  <2>1. byte = 256 - Weight[bits]
    BY <1>3, <1>8
  <2>2. (byte \div Weight[r]) % 2 = IF r <= bits THEN 1 ELSE 0
    <3> HIDE DEF bits
    <3>1. CASE r = 1
      BY <1>8, <2>1, <3>1 DEF Weight
    <3>2. CASE r = 2
      BY <1>8, <2>1, <3>2 DEF Weight
    <3>3. CASE r = 3
      BY <1>8, <2>1, <3>3 DEF Weight
    <3>4. CASE r = 4
      BY <1>8, <2>1, <3>4 DEF Weight
    <3>5. CASE r = 5
      BY <1>8, <2>1, <3>5 DEF Weight
    <3>6. CASE r = 6
      BY <1>8, <2>1, <3>6 DEF Weight
    <3>7. CASE r = 7
      BY <1>8, <2>1, <3>7 DEF Weight
    <3>8. CASE r = 8
      BY <1>8, <2>1, <3>8 DEF Weight
    <3> QED
      BY <1>1, <3>1, <3>2, <3>3, <3>4, <3>5, <3>6, <3>7, <3>8
  <2> QED
    BY <1>4, <1>5, <2>2
<1> QED
  BY <1>1, <1>6, <1>7, <1>8

\* A mask of 1 to 32 is shown as it was typed.
LEMMA MaskShown ==
    ASSUME NEW ip, NEW n \in 1..32
    PROVE  ShowAddress(ip, Ones(n)) = [octets |-> ip, mask |-> n]
<1> DEFINE ones == {j \in 1..32 : Bit(Ones(n), j) = 1}
           last == CHOOSE j \in ones : \A i \in ones : i <= j
<1>1. \A j \in 1..32 : Bit(Ones(n), j) = 1 <=> j <= n
  BY OnesBits
<1>2. ones = 1..n
  BY <1>1
<1>3. n \in ones /\ \A i \in ones : i <= n
  BY <1>2
<1>4. last \in ones /\ \A i \in ones : i <= last
  BY <1>3
<1>5. last = n
  BY <1>2, <1>3, <1>4
<1>6. ShowAddress(ip, Ones(n)) = [octets |-> ip, mask |-> IF ones = {} THEN 0 ELSE last]
  BY DEF ShowAddress
<1> QED
  BY <1>3, <1>5, <1>6

\* Of the range of all ports the upper two bytes are zeros and the lower two ones.
LEMMA AnyBits ==
    ASSUME NEW j \in 1..32
    PROVE  Bit(<<0, 0, 255, 255>>, j) = IF j >= 17 THEN 1 ELSE 0
<1>1. PICK k \in 0..3, r \in 1..8 : j = 8 * k + r
  <2>1. (j - 1) \div 8 \in 0..3 /\ 1 + ((j - 1) % 8) \in 1..8
    OBVIOUS
  <2>2. j = 8 * ((j - 1) \div 8) + (1 + ((j - 1) % 8))
    OBVIOUS
  <2> QED
    BY <2>1, <2>2
<1>2. (j - 1) \div 8 = k /\ 1 + ((j - 1) % 8) = r
  BY <1>1
<1> DEFINE byte == <<0, 0, 255, 255>>[1 + k]
<1>3. Bit(<<0, 0, 255, 255>>, j) = (byte \div Weight[r]) % 2
  BY <1>2 DEF Bit
<1>4. byte = IF k >= 2 THEN 255 ELSE 0
  BY <1>1
<1>5. Weight[r] \in {128, 64, 32, 16, 8, 4, 2, 1}
  BY <1>1 DEF Weight
<1> HIDE DEF byte
<1>6. (byte \div Weight[r]) % 2 = IF k >= 2 THEN 1 ELSE 0
  BY <1>4, <1>5
<1>7. k >= 2 <=> j >= 17
  BY <1>1
<1> QED
  BY <1>3, <1>6, <1>7

\* The upper half of a mask of 1 to 31 is above its lower half; those of no ones and of all
\* are the least and the largest number.
LEMMA HalvesOfMask ==
    ASSUME NEW n \in 0..32, NEW lo, NEW hi, BytesRange(Ones(n)) = <<lo, hi>>
    PROVE  /\ lo \in Nat /\ hi \in Nat
           /\ n = 0 => lo = 0 /\ hi = 0
           /\ n = 32 => lo = USHRT_MAX /\ hi = USHRT_MAX
           /\ n \in 1..31 => lo > hi
<1> DEFINE byte(i) == Ones(n)[i]
           bits(i) == n - 8 * (i - 1)
<1>1. lo = 256 * byte(1) + byte(2) /\ hi = 256 * byte(3) + byte(4)
  BY DEF BytesRange
<1>2. \A i \in 1..4 : byte(i) = IF bits(i) <= 0 THEN 0 ELSE IF bits(i) >= 8 THEN 255 ELSE 256 - Weight[bits(i)]
  BY DEF Ones
<1>3. \A k \in 1..7 : 256 - Weight[k] \in 128..254
  BY DEF Weight
<1> HIDE DEF byte
<1>4. \A i \in 1..4 : /\ byte(i) \in 0..255
                      /\ bits(i) <= 0 => byte(i) = 0
                      /\ bits(i) >= 8 => byte(i) = 255
                      /\ bits(i) \in 1..7 => byte(i) \in 128..254
  <2> SUFFICES ASSUME NEW i \in 1..4
               PROVE  /\ byte(i) \in 0..255
                      /\ bits(i) <= 0 => byte(i) = 0
                      /\ bits(i) >= 8 => byte(i) = 255
                      /\ bits(i) \in 1..7 => byte(i) \in 128..254
    OBVIOUS
  <2>1. bits(i) \in Int /\ (bits(i) <= 0 \/ bits(i) >= 8 \/ bits(i) \in 1..7)
    OBVIOUS
  <2> HIDE DEF bits
  <2> QED
    BY <1>2, <1>3, <2>1
<1>5. byte(1) \in 0..255 /\ byte(2) \in 0..255 /\ byte(3) \in 0..255 /\ byte(4) \in 0..255
  BY <1>4
<1>50. /\ byte(1) \in Nat /\ byte(2) \in Nat /\ byte(3) \in Nat /\ byte(4) \in Nat
       /\ byte(1) <= 255 /\ byte(2) <= 255 /\ byte(3) <= 255 /\ byte(4) <= 255
  BY <1>5
<1>6. bits(1) = n /\ bits(2) = n - 8 /\ bits(3) = n - 16 /\ bits(4) = n - 24
  OBVIOUS
<1> HIDE DEF bits
<1>7. /\ n <= 0 => byte(1) = 0
      /\ n >= 8 => byte(1) = 255
      /\ n \in 1..7 => byte(1) >= 128
  <2>1. /\ bits(1) <= 0 => byte(1) = 0
        /\ bits(1) >= 8 => byte(1) = 255
        /\ bits(1) \in 1..7 => byte(1) \in 128..254
    BY <1>4
  <2> QED
    BY <1>6, <2>1
<1>8. /\ n - 8 <= 0 => byte(2) = 0
      /\ n - 8 >= 8 => byte(2) = 255
  <2>1. /\ bits(2) <= 0 => byte(2) = 0
        /\ bits(2) >= 8 => byte(2) = 255
    BY <1>4
  <2> QED
    BY <1>6, <2>1
<1>9. /\ n - 16 <= 0 => byte(3) = 0
      /\ n - 16 >= 8 => byte(3) = 255
  <2>1. /\ bits(3) <= 0 => byte(3) = 0
        /\ bits(3) >= 8 => byte(3) = 255
    BY <1>4
  <2> QED
    BY <1>6, <2>1
<1>10. /\ n - 24 <= 0 => byte(4) = 0
       /\ n - 24 >= 8 => byte(4) = 255
       /\ n - 24 \in 1..7 => byte(4) <= 254
  <2>1. /\ bits(4) <= 0 => byte(4) = 0
        /\ bits(4) >= 8 => byte(4) = 255
        /\ bits(4) \in 1..7 => byte(4) \in 128..254
    BY <1>4
  <2> QED
    BY <1>6, <2>1
<1>11. ASSUME n = 0 PROVE lo = 0 /\ hi = 0
  BY <1>1, <1>7, <1>8, <1>9, <1>10, <1>11
<1>12. ASSUME n = 32 PROVE lo = USHRT_MAX /\ hi = USHRT_MAX
  BY <1>1, <1>7, <1>8, <1>9, <1>10, <1>12 DEF USHRT_MAX
<1>13. ASSUME n \in 1..16 PROVE lo > hi
  <2>1. byte(3) = 0 /\ byte(4) = 0
    BY <1>9, <1>10, <1>13
  <2>2. byte(1) >= 128
    BY <1>7, <1>13
  <2> QED
    BY <1>1, <1>50, <2>1, <2>2
<1>14. ASSUME n \in 17..31 PROVE lo > hi
  <2>1. byte(1) = 255 /\ byte(2) = 255
    BY <1>7, <1>8, <1>14
  <2>2. byte(4) <= 254
    BY <1>50, <1>10, <1>14
  <2> QED
    BY <1>1, <1>50, <2>1, <2>2
<1>15. lo \in Nat /\ hi \in Nat
  BY <1>1, <1>50
<1>16. n \in 1..31 => n \in 1..16 \/ n \in 17..31
  OBVIOUS
<1> QED
  BY <1>11, <1>12, <1>13, <1>14, <1>15, <1>16

\* An address as it is typed.
LEMMA TypedAddress ==
    ASSUME NEW t \in AddressText
    PROVE  /\ t = [octets |-> t.octets, mask |-> t.mask]
           /\ t.octets \in Seq(Nat) /\ t.octets # <<>> /\ Len(t.octets) \in Nat \ {0}
           /\ DOMAIN t.octets = 1..Len(t.octets)
           /\ \A i \in 1..Len(t.octets) : t.octets[i] \in Nat
           /\ t.mask \in Int /\ t.mask >= NoMask /\ NoMask = -1
<1>1. /\ t = [octets |-> t.octets, mask |-> t.mask]
      /\ t.octets \in Seq(Nat) /\ t.octets # <<>> /\ t.mask \in Nat \cup {NoMask}
  BY DEF AddressText
<1>2. Len(t.octets) \in Nat /\ DOMAIN t.octets = 1..Len(t.octets)
  BY <1>1, LenProperties
<1>3. Len(t.octets) # 0
  BY <1>1, EmptySeq
<1>4. \A i \in 1..Len(t.octets) : t.octets[i] \in Nat
  BY <1>1, ElementOfSeq
<1>5. t.mask \in Int /\ t.mask >= NoMask /\ NoMask = -1
  BY <1>1 DEF NoMask
<1> QED
  BY <1>1, <1>2, <1>3, <1>4, <1>5

\* The mask of an address that is not refused is that of a length.
LEMMA MaskIsOnes ==
    ASSUME NEW t \in AddressText, AddressOK(t)
    PROVE  /\ t.mask \in Int /\ t.mask >= NoMask /\ t.mask <= 32
           /\ t.mask = NoMask => Mask(t) = Ones(0)
           /\ t.mask = 0 => Mask(t) = Ones(32)
           /\ t.mask \notin {NoMask, 0} => Mask(t) = Ones(t.mask) /\ t.mask \in 1..32
<1>1. t.mask \in Int /\ t.mask >= NoMask /\ NoMask = -1
  BY TypedAddress
<1>2. t.mask <= 32
  BY DEF AddressOK
<1> QED
  BY <1>1, <1>2 DEF Mask

\* Four numbers up to 255 with the dots between them are at least seven characters.
LEMMA QuadLength ==
    ASSUME NEW s \in Seq(Nat), Len(s) = 4
    PROVE  Chars(s) >= 7
<1> DEFINE Step(f, i) == IF i = 0 THEN 0
                         ELSE f[i - 1] + Digits(s[i]) + (IF i > 1 THEN 1 ELSE 0)
           Counts(f) == f = [i \in 0..Len(s) |-> Step(f, i)]
           upTo == CHOOSE f : Counts(f)
           d(i) == Digits(s[i])
           g == [i \in 0..Len(s) |-> IF i = 0 THEN 0
                                     ELSE IF i = 1 THEN d(1)
                                     ELSE IF i = 2 THEN d(1) + d(2) + 1
                                     ELSE IF i = 3 THEN d(1) + d(2) + 1 + d(3) + 1
                                     ELSE d(1) + d(2) + 1 + d(3) + 1 + d(4) + 1]
<1>1. \A i \in 1..4 : d(i) \in 1..3
  BY DEF Digits
<1> HIDE DEF d
<1>2. \A i \in 0..Len(s) : g[i] = IF i = 0 THEN 0 ELSE g[i - 1] + d(i) + (IF i > 1 THEN 1 ELSE 0)
  BY <1>1
<1> USE DEF d
<1> HIDE DEF g
<1>3. Counts(g)
  <2>1. \A i \in 0..Len(s) : g[i] = Step(g, i)
    BY <1>2
  <2>2. g = [i \in 0..Len(s) |-> g[i]]
    BY DEF g
  <2> QED
    BY <2>1, <2>2
<1>4. Counts(upTo)
  BY <1>3
<1>5. Chars(s) = upTo[Len(s)]
  BY DEF Chars
<1> HIDE DEF upTo, d
<1>6. \A i \in 0..4 : upTo[i] = IF i = 0 THEN 0 ELSE upTo[i - 1] + d(i) + (IF i > 1 THEN 1 ELSE 0)
  BY <1>4 DEF d
<1>7. upTo[1] = 0 + d(1) + 0 /\ upTo[2] = upTo[1] + d(2) + 1
  BY <1>6
<1>8. upTo[3] = upTo[2] + d(3) + 1 /\ upTo[4] = upTo[3] + d(4) + 1
  BY <1>6
<1> QED
  BY <1>1, <1>5, <1>7, <1>8

\* Four numbers up to 255 are the bytes of the address.
LEMMA QuadIsAddress ==
    ASSUME NEW t \in AddressText, Quad(t)
    PROVE  Address(t) = t.octets /\ t.octets \in Bytes
<1>1. Len(t.octets) = 4 /\ \A i \in 1..4 : t.octets[i] <= 255 /\ t.octets[i] \in Nat
  BY TypedAddress DEF Quad
<1>2. \A i \in 1..4 : t.octets[i] \in 0..255
  BY <1>1
<1>3. t.octets \in Bytes
  <2>1. t.octets \in Seq(Nat)
    BY TypedAddress
  <2>2. t.octets \in [1..4 -> Nat]
    BY <1>1, <2>1, LenProperties
  <2> QED
    BY <1>2, <2>2 DEF Bytes
<1> DEFINE number == [i \in 1..4 |-> IF i = 4 THEN t.octets[4] ELSE IF i < 4 THEN t.octets[i] ELSE 0]
           carried(i) == i < 4 /\ number[i + 1] = 256
           low(i) == number[i] % 256
<1>4. Address(t) = [i \in 1..4 |-> IF carried(i) /\ low(i) % 2 = 0 THEN low(i) + 1 ELSE low(i)]
  BY <1>1 DEF Address
<1>5. \A i \in 1..4 : number[i] = t.octets[i]
  OBVIOUS
<1> HIDE DEF number
<1>6. ASSUME NEW i \in 1..4 PROVE ~carried(i) /\ low(i) = t.octets[i]
  <2>1. number[i] \in 0..255
    BY <1>2, <1>5
  <2>2. i < 4 => number[i + 1] # 256
    BY <1>2, <1>5
  <2>3. number[i] % 256 = number[i]
    BY <2>1
  <2> QED
    BY <1>5, <2>2, <2>3
<1> HIDE DEF carried, low
<1>7. Address(t) = [i \in 1..4 |-> t.octets[i]]
  BY <1>4, <1>6
<1> QED
  BY <1>3, <1>7 DEF Bytes

\* What the client takes for an address is four bytes.
LEMMA AddressIsBytes ==
    ASSUME NEW t \in AddressText, AddressOK(t)
    PROVE  Address(t) \in Bytes
<1> DEFINE n == Len(t.octets)
           number == [i \in 1..4 |-> IF i = 4 THEN t.octets[n] ELSE IF i < n THEN t.octets[i] ELSE 0]
           carried(i) == i < 4 /\ number[i + 1] = 256
           low(i) == number[i] % 256
<1>1. n \in Nat \ {0} /\ \A i \in 1..n : t.octets[i] \in Nat
  BY TypedAddress
<1>2. n <= 4
  BY DEF AddressOK
<1>3. \A i \in 1..4 : number[i] \in Nat
  BY <1>1, <1>2
<1>4. Address(t) = [i \in 1..4 |-> IF carried(i) /\ low(i) % 2 = 0 THEN low(i) + 1 ELSE low(i)]
  BY DEF Address
<1> HIDE DEF number, n
<1>5. \A i \in 1..4 : low(i) \in 0..255 /\ (low(i) % 2 = 0 => low(i) + 1 \in 0..255)
  BY <1>3
<1> HIDE DEF carried, low
<1> QED
  BY <1>4, <1>5 DEF Bytes

\* The mask of an address that is not refused has as many ones as it stands for.
LEMMA PrefixIs ==
    ASSUME NEW t \in AddressText, AddressOK(t)
    PROVE  Prefix(t) \in 0..32 /\ Mask(t) = Ones(Prefix(t))
<1>1. t.mask = NoMask \/ t.mask = 0 \/ t.mask \in 1..32
  BY MaskIsOnes
<1>2. CASE t.mask = NoMask
  BY <1>2, MaskIsOnes DEF Prefix
<1>3. CASE t.mask = 0
  BY <1>3, MaskIsOnes DEF Prefix, NoMask
<1>4. CASE t.mask \in 1..32
  <2>1. t.mask \notin {NoMask, 0}
    BY <1>4 DEF NoMask
  <2> QED
    BY <1>4, <2>1, MaskIsOnes DEF Prefix
<1> QED
  BY <1>1, <1>2, <1>3, <1>4

\* An address that is not refused holds what was typed.
LEMMA AddressHeld ==
    ASSUME NEW t \in AddressText, AddressOK(t)
    PROVE  HoldsAddress(t, Address(t), Mask(t))
<1> SUFFICES ASSUME Quad(t)
             PROVE  /\ Address(t) = t.octets
                    /\ \A j \in 1..32 : Bit(Mask(t), j) = IF j <= Prefix(t) THEN 1 ELSE 0
                    /\ t.mask \in 1..32 => ShowAddress(Address(t), Mask(t)) = t
  BY DEF HoldsAddress
<1>1. Address(t) = t.octets
  BY QuadIsAddress
<1>2. ASSUME t.mask \in 1..32 PROVE ShowAddress(Address(t), Mask(t)) = t
  <2>1. Mask(t) = Ones(t.mask)
    BY <1>2 DEF Mask, NoMask
  <2>2. t = [octets |-> t.octets, mask |-> t.mask]
    BY DEF AddressText
  <2> QED
    BY <1>1, <1>2, <2>1, <2>2, MaskShown
<1>3. \A j \in 1..32 : Bit(Mask(t), j) = IF j <= Prefix(t) THEN 1 ELSE 0
  BY PrefixIs, OnesBits
<1> QED
  BY <1>1, <1>2, <1>3

\* An address of four numbers up to 255 is refused for its mask alone.
LEMMA QuadTaken ==
    ASSUME NEW t \in AddressText, ~AddressOK(t)
    PROVE  ~Quad(t) \/ t.mask > 32
<1> SUFFICES ASSUME Quad(t), ~(t.mask > 32) PROVE FALSE
  OBVIOUS
<1>1. Len(t.octets) = 4 /\ \A i \in 1..4 : t.octets[i] <= 255 /\ t.octets[i] \in Nat
  BY TypedAddress DEF Quad
<1>2. Chars(t.octets) >= 7 /\ DOMAIN t.octets = 1..4 /\ t.mask \in Int
  BY <1>1, TypedAddress, QuadLength
<1>3. \A i \in 1..4 : t.octets[i] <= 256
  BY <1>1
<1> QED
  BY <1>1, <1>2, <1>3 DEF AddressOK

--------------------------------------------------------------------------------
(* Ports *)

\* An unsigned short has a largest value.
LEMMA ShortLimit == USHRT_MAX \in Nat \ {0}
  BY DEF USHRT_MAX

\* The ends of a range are 16-bit numbers, whatever is typed.
LEMMA PortsTyped ==
    ASSUME NEW t \in PortText, NEW r \in Ports(t, Junk)
    PROVE  /\ r = <<r[1], r[2]>> /\ r[1] \in 0..USHRT_MAX /\ r[2] \in 0..USHRT_MAX
           /\ t.kind = "any" => r = <<0, USHRT_MAX>> /\ t = AnyPorts
           /\ t.kind = "range" => r = <<t.lo % (USHRT_MAX + 1), t.hi % (USHRT_MAX + 1)>> /\ t.lo \in Nat /\ t.hi \in Nat
           /\ t.kind = "one" => r[1] = t.lo % (USHRT_MAX + 1) /\ t.lo \in Nat
<1> USE ShortLimit
<1>1. CASE t = AnyPorts
  <2>1. t.kind = "any"
    BY <1>1 DEF AnyPorts
  <2>2. r = <<0, USHRT_MAX>>
    BY <2>1 DEF Ports
  <2>3. r[1] = 0 /\ r[2] = USHRT_MAX
    BY <2>2
  <2>4. r[1] \in 0..USHRT_MAX /\ r[2] \in 0..USHRT_MAX
    BY <2>3
  <2>5. t.kind # "range" /\ t.kind # "one"
    BY <2>1
  <2>6. r = <<r[1], r[2]>>
    BY <2>2, <2>3
  <2>7. t.kind = "any" => r = <<0, USHRT_MAX>> /\ t = AnyPorts
    BY <1>1, <2>2, Zenon
  <2>8. t.kind = "range" => r = <<t.lo % (USHRT_MAX + 1), t.hi % (USHRT_MAX + 1)>> /\ t.lo \in Nat /\ t.hi \in Nat
    BY <2>5, Zenon
  <2>9. t.kind = "one" => r[1] = t.lo % (USHRT_MAX + 1) /\ t.lo \in Nat
    BY <2>5, Zenon
  <2> QED
    BY <2>4, <2>6, <2>7, <2>8, <2>9, Zenon
<1>2. CASE t \in [kind : {"one"}, lo : Nat]
  <2>1. t.kind = "one" /\ t.lo \in Nat
    BY <1>2
  <2>2. r \in {t.lo % (USHRT_MAX + 1)} \X Junk
    BY <2>1 DEF Ports
  <2>3. t.lo % (USHRT_MAX + 1) \in 0..USHRT_MAX
    BY <2>1
  <2>4. Junk \subseteq 0..USHRT_MAX
    BY ClientAssumption
  <2> DEFINE x == t.lo % (USHRT_MAX + 1)
             Short == 0..USHRT_MAX
  <2> HIDE DEF x, Short
  <2>5. r = <<r[1], r[2]>> /\ r[1] = x /\ r[2] \in Junk
    BY <2>2 DEF x
  <2>6. r[1] \in Short /\ r[2] \in Short
    BY <2>3, <2>4, <2>5 DEF x, Short
  <2>7. t.kind # "any" /\ t.kind # "range"
    BY <2>1
  <2>8. t.kind = "any" => r = <<0, USHRT_MAX>> /\ t = AnyPorts
    BY <2>7, Zenon
  <2>9. t.kind = "range" => r = <<t.lo % (USHRT_MAX + 1), t.hi % (USHRT_MAX + 1)>> /\ t.lo \in Nat /\ t.hi \in Nat
    BY <2>7, Zenon
  <2> QED
    BY <2>1, <2>5, <2>6, <2>8, <2>9, Zenon DEF x, Short
<1>3. CASE t \in [kind : {"range"}, lo : Nat, hi : Nat]
  <2>1. t.kind = "range" /\ t.lo \in Nat /\ t.hi \in Nat
    BY <1>3
  <2>2. r = <<t.lo % (USHRT_MAX + 1), t.hi % (USHRT_MAX + 1)>>
    BY <2>1 DEF Ports
  <2>3. t.lo % (USHRT_MAX + 1) \in 0..USHRT_MAX /\ t.hi % (USHRT_MAX + 1) \in 0..USHRT_MAX
    BY <2>1
  <2> QED
    BY <2>1, <2>2, <2>3
<1> QED
  BY <1>1, <1>2, <1>3 DEF PortText



\* A range of 16-bit numbers, and that of all ports, is kept and shown as it was typed.
LEMMA PortsShown ==
    ASSUME NEW t \in PortText, NEW r \in Ports(t, Junk)
    PROVE  /\ ShortRange(t) => r = <<t.lo, t.hi>>
           /\ t.kind = "any" \/ ShortRange(t) => ShowPorts(r) = ShownAs(t)
<1> USE ShortLimit
<1>1. ASSUME ShortRange(t) PROVE r = <<t.lo, t.hi>> /\ ShowPorts(r) = ShownAs(t)
  <2>1. /\ t.lo \in 0..USHRT_MAX /\ t.hi \in 0..USHRT_MAX /\ r = <<t.lo % (USHRT_MAX + 1), t.hi % (USHRT_MAX + 1)>>
        /\ t.kind = "range"
    BY <1>1, PortsTyped DEF ShortRange
  <2>2. t.lo % (USHRT_MAX + 1) = t.lo /\ t.hi % (USHRT_MAX + 1) = t.hi
    BY <2>1
  <2> QED
    BY <2>1, <2>2 DEF ShownAs
<1>2. ASSUME t.kind = "any" PROVE ShowPorts(r) = ShownAs(t)
  BY <1>2, PortsTyped DEF ShowPorts, ShownAs
<1> QED
  BY <1>1, <1>2

\* A range that is not refused holds what was typed.
LEMMA PortsHeld ==
    ASSUME NEW t \in PortText, NEW r \in Ports(t, Junk), PortsOK(r)
    PROVE  HoldsPorts(t, r)
<1> USE ShortLimit
<1>1. r[1] \in Nat /\ r[2] \in Nat /\ r[1] <= r[2]
  BY PortsTyped DEF PortsOK
<1>2. ASSUME ShortRange(t) PROVE t.lo <= t.hi
  <2>1. r[1] = t.lo /\ r[2] = t.hi
    BY <1>2, PortsShown
  <2> QED
    BY <1>1, <2>1
<1>3. ASSUME t.kind = "one", t.lo <= USHRT_MAX PROVE r[1] = t.lo /\ r[2] >= t.lo
  <2>1. t.lo \in 0..USHRT_MAX /\ r[1] = t.lo % (USHRT_MAX + 1)
    BY <1>3, PortsTyped
  <2>2. r[1] = t.lo
    BY <2>1
  <2> QED
    BY <1>1, <2>2
<1> QED
  BY <1>2, <1>3, PortsShown DEF HoldsPorts

--------------------------------------------------------------------------------
(* Layouts *)

\* n bytes from a on.
Span(a, n) == a..(a + n - 1)

\* The n members of s stand at the offsets o, and s is aligned to m bytes.
IsLayout(s, n, o, m) ==
    /\ DOMAIN s = 1..n /\ o = [i \in 1..n |-> o[i]]
    /\ \A i \in 1..n : o[i] = IF i = 1 THEN 0 ELSE AlignUp(o[i - 1] + s[i - 1][2], s[i][3])
    /\ \E i \in 1..n : s[i][3] = m
    /\ \A i \in 1..n : s[i][3] \in Int /\ s[i][3] <= m
    /\ \A i, j \in 1..n : s[i][1] = s[j][1] => i = j

\* A layout is known by its recurrence.
LEMMA LaidOut ==
    ASSUME NEW s, NEW N \in Nat, NEW o, NEW m, IsLayout(s, N, o, m)
    PROVE  Offsets(s) = o
<1>0. /\ DOMAIN s = 1..N /\ o = [i \in DOMAIN s |-> o[i]]
      /\ \A i \in DOMAIN s : o[i] = IF i = 1 THEN 0 ELSE AlignUp(o[i - 1] + s[i - 1][2], s[i][3])
  BY DEF IsLayout
<1> DEFINE Chosen(f) == f = [i \in DOMAIN s |->
                                IF i = 1 THEN 0 ELSE AlignUp(f[i - 1] + s[i - 1][2], s[i][3])]
           off == CHOOSE f : Chosen(f)
<1>1. Chosen(o)
  <2> DEFINE e(i) == IF i = 1 THEN 0 ELSE AlignUp(o[i - 1] + s[i - 1][2], s[i][3])
  <2>1. \A i \in DOMAIN s : o[i] = e(i)
    BY <1>0
  <2> HIDE DEF e
  <2>2. o = [i \in DOMAIN s |-> e(i)]
    BY <1>0, <2>1
  <2> QED
    BY <2>2 DEF e
<1>2. Chosen(off) /\ Offsets(s) = off
  BY <1>1 DEF Offsets
<1> HIDE DEF off
<1>3. \A i \in 1..N : off[i] = IF i = 1 THEN 0 ELSE AlignUp(off[i - 1] + s[i - 1][2], s[i][3])
  BY <1>0, <1>2
<1> DEFINE Same == {n \in Nat : n \in 1..N => off[n] = o[n]}
<1>4. Nat \subseteq Same
  <2>1. 0 \in Same
    OBVIOUS
  <2>2. ASSUME NEW n \in Same PROVE n + 1 \in Same
    <3> SUFFICES ASSUME n + 1 \in 1..N PROVE off[n + 1] = o[n + 1]
      OBVIOUS
    <3>1. CASE n = 0
      <4>1. off[1] = 0 /\ o[1] = 0
        <5>1. 1 \in 1..N
          BY <3>1
        <5> QED
          BY <1>0, <1>3, <5>1
      <4> QED
        BY <3>1, <4>1
    <3>2. CASE n # 0
      <4>1. n \in 1..N /\ n + 1 # 1 /\ (n + 1) - 1 = n
        BY <3>2
      <4>2. /\ off[n + 1] = AlignUp(off[n] + s[n][2], s[n + 1][3])
            /\ o[n + 1] = AlignUp(o[n] + s[n][2], s[n + 1][3])
        BY <1>0, <1>3, <4>1
      <4>3. off[n] = o[n]
        BY <2>2, <4>1
      <4> QED
        BY <4>2, <4>3
    <3> QED
      BY <3>1, <3>2
  <2> HIDE DEF Same
  <2> QED
    BY <2>1, <2>2, InductionOnNat
<1>5. ASSUME NEW i \in 1..N PROVE off[i] = o[i]
  <2>1. i \in Nat
    OBVIOUS
  <2>2. i \in Same
    BY <1>4, <2>1, Zenon
  <2> QED
    BY <2>2
<1>6. off = [i \in DOMAIN s |-> off[i]]
  BY <1>2
<1> QED
  BY <1>0, <1>2, <1>5, <1>6

\* Where a member stands whose name no other has.
LEMMA ExtentOf ==
    ASSUME NEW s, NEW i \in DOMAIN s, \A j \in DOMAIN s : s[j][1] = s[i][1] => j = i
    PROVE  Extent(s, s[i][1]) = Offsets(s)[i]..(Offsets(s)[i] + s[i][2] - 1)
  BY DEF Extent

\* A structure is aligned like the member that needs most.
LEMMA AlignmentIs ==
    ASSUME NEW s, NEW m \in Int, \E i \in DOMAIN s : s[i][3] = m,
           \A i \in DOMAIN s : s[i][3] \in Int /\ s[i][3] <= m
    PROVE  Alignment(s) = m
<1> DEFINE S == {s[i][3] : i \in DOMAIN s}
<1>1. m \in S /\ \A x \in S : x \in Int /\ x <= m
  OBVIOUS
<1> HIDE DEF S
<1>2. Max(S) \in S /\ \A x \in S : Max(S) >= x
  BY <1>1 DEF Max
<1>3. Max(S) = m
  <2>1. Max(S) \in Int /\ Max(S) <= m /\ Max(S) >= m
    BY <1>1, <1>2
  <2> QED
    BY <2>1
<1> QED
  BY <1>3 DEF Alignment, S

\* What follows for the structure and its members.
LEMMA LayoutFacts ==
    ASSUME NEW s, NEW n \in Nat, NEW o, NEW m \in Int, IsLayout(s, n, o, m), Len(s) = n
    PROVE  /\ Alignment(s) = m
           /\ SizeOf(s) = AlignUp(o[n] + s[n][2], m)
           /\ \A i \in 1..n : Extent(s, s[i][1]) = Span(o[i], s[i][2])
<1>1. Offsets(s) = o
  BY LaidOut
<1>2. Alignment(s) = m
  BY AlignmentIs DEF IsLayout
<1>3. ASSUME NEW i \in 1..n PROVE Extent(s, s[i][1]) = Span(o[i], s[i][2])
  <2>1. \A j \in DOMAIN s : s[j][1] = s[i][1] => j = i
    BY DEF IsLayout
  <2> QED
    BY <1>1, <2>1, ExtentOf DEF Span
<1> QED
  BY <1>1, <1>2, <1>3 DEF SizeOf

\* The kernel's rule on a 32-bit build.
LEMMA KernelRule32 ==
    ASSUME NEW s, s = KernelFWRule(4)
    PROVE  /\ SizeOf(s) = 52 /\ Alignment(s) = 4
           /\ Extent(s, "name") = Span(0, 12) /\ Extent(s, "next") = Span(12, 4)
           /\ Extent(s, "saddr") = Span(16, 4) /\ Extent(s, "smask") = Span(20, 4)
           /\ Extent(s, "sport") = Span(24, 4) /\ Extent(s, "daddr") = Span(28, 4)
           /\ Extent(s, "dmask") = Span(32, 4) /\ Extent(s, "dport") = Span(36, 4)
           /\ Extent(s, "protocol") = Span(40, 1) /\ Extent(s, "action") = Span(44, 4)
           /\ Extent(s, "log") = Span(48, 4)
           /\ {s[i][1] : i \in DOMAIN s} = {"name", "next", "saddr", "smask", "sport", "daddr",
                                              "dmask", "dport", "protocol", "action", "log"}
<1> DEFINE o == <<0, 12, 16, 20, 24, 28, 32, 36, 40, 44, 48>>
<1>1. s = <<<<"name", 12, 1>>, <<"next", 4, 4>>, <<"saddr", 4, 4>>,
           <<"smask", 4, 4>>, <<"sport", 4, 4>>, <<"daddr", 4, 4>>,
           <<"dmask", 4, 4>>, <<"dport", 4, 4>>, <<"protocol", 1, 1>>,
           <<"action", 4, 4>>, <<"log", 4, 4>>>>
  BY DEF KernelFWRule, u32, u16, u8, Name12, Pointer
<1>2. Len(s) = 11 /\ DOMAIN s = 1..11 /\ o = [i \in 1..11 |-> o[i]]
  BY <1>1
<1>3. \A i \in 1..11 : o[i] = IF i = 1 THEN 0 ELSE AlignUp(o[i - 1] + s[i - 1][2], s[i][3])
  BY <1>1 DEF AlignUp
<1>4. (\E i \in 1..11 : s[i][3] = 4) /\ \A i \in 1..11 : s[i][3] \in Int /\ s[i][3] <= 4
  BY <1>1
<1>5. \A i, j \in 1..11 : s[i][1] = s[j][1] => i = j
  BY <1>1
<1>6. IsLayout(s, 11, o, 4)
  <2> HIDE DEF o
  <2> QED
    BY <1>2, <1>3, <1>4, <1>5, Zenon DEF IsLayout
<1>7. /\ SizeOf(s) = AlignUp(o[11] + s[11][2], 4) /\ Alignment(s) = 4
      /\ \A i \in 1..11 : Extent(s, s[i][1]) = Span(o[i], s[i][2])
  <2>1. 11 \in Nat /\ 4 \in Int
    OBVIOUS
  <2> HIDE DEF o
  <2> QED
    BY <1>2, <1>6, <2>1, LayoutFacts, Zenon
<1>8. SizeOf(s) = 52
  BY <1>1, <1>7 DEF AlignUp
<1>9. /\ Extent(s, "name") = Span(0, 12) /\ Extent(s, "next") = Span(12, 4)
      /\ Extent(s, "saddr") = Span(16, 4) /\ Extent(s, "smask") = Span(20, 4)
      /\ Extent(s, "sport") = Span(24, 4) /\ Extent(s, "daddr") = Span(28, 4)
      /\ Extent(s, "dmask") = Span(32, 4) /\ Extent(s, "dport") = Span(36, 4)
      /\ Extent(s, "protocol") = Span(40, 1) /\ Extent(s, "action") = Span(44, 4)
      /\ Extent(s, "log") = Span(48, 4)
  BY <1>1, <1>7
<1>10. {s[i][1] : i \in DOMAIN s} = {"name", "next", "saddr", "smask", "sport", "daddr", "dmask", "dport",
           "protocol", "action", "log"}
  BY <1>1, <1>2
<1> QED
  BY <1>7, <1>8, <1>9, <1>10

\* The client's rule on a 32-bit build.
LEMMA ClientRule32 ==
    ASSUME NEW s, s = ClientFWRule(4)
    PROVE  /\ SizeOf(s) = 52 /\ Alignment(s) = 4
           /\ Extent(s, "name") = Span(0, 12) /\ Extent(s, "saddr") = Span(12, 4)
           /\ Extent(s, "smask") = Span(16, 4) /\ Extent(s, "daddr") = Span(20, 4)
           /\ Extent(s, "dmask") = Span(24, 4) /\ Extent(s, "sport") = Span(28, 4)
           /\ Extent(s, "dport") = Span(32, 4) /\ Extent(s, "protocol") = Span(36, 1)
           /\ Extent(s, "action") = Span(40, 4) /\ Extent(s, "log") = Span(44, 4)
           /\ Extent(s, "next") = Span(48, 4)
           /\ {s[i][1] : i \in DOMAIN s} = {"name", "saddr", "smask", "daddr", "dmask", "sport",
                                              "dport", "protocol", "action", "log", "next"}
<1> DEFINE o == <<0, 12, 16, 20, 24, 28, 32, 36, 40, 44, 48>>
<1>1. s = <<<<"name", 12, 1>>, <<"saddr", 4, 4>>, <<"smask", 4, 4>>,
           <<"daddr", 4, 4>>, <<"dmask", 4, 4>>, <<"sport", 4, 4>>,
           <<"dport", 4, 4>>, <<"protocol", 1, 1>>, <<"action", 4, 4>>,
           <<"log", 4, 4>>, <<"next", 4, 4>>>>
  BY DEF ClientFWRule, u32, u16, u8, Name12, Pointer
<1>2. Len(s) = 11 /\ DOMAIN s = 1..11 /\ o = [i \in 1..11 |-> o[i]]
  BY <1>1
<1>3. \A i \in 1..11 : o[i] = IF i = 1 THEN 0 ELSE AlignUp(o[i - 1] + s[i - 1][2], s[i][3])
  BY <1>1 DEF AlignUp
<1>4. (\E i \in 1..11 : s[i][3] = 4) /\ \A i \in 1..11 : s[i][3] \in Int /\ s[i][3] <= 4
  BY <1>1
<1>5. \A i, j \in 1..11 : s[i][1] = s[j][1] => i = j
  BY <1>1
<1>6. IsLayout(s, 11, o, 4)
  <2> HIDE DEF o
  <2> QED
    BY <1>2, <1>3, <1>4, <1>5, Zenon DEF IsLayout
<1>7. /\ SizeOf(s) = AlignUp(o[11] + s[11][2], 4) /\ Alignment(s) = 4
      /\ \A i \in 1..11 : Extent(s, s[i][1]) = Span(o[i], s[i][2])
  <2>1. 11 \in Nat /\ 4 \in Int
    OBVIOUS
  <2> HIDE DEF o
  <2> QED
    BY <1>2, <1>6, <2>1, LayoutFacts, Zenon
<1>8. SizeOf(s) = 52
  BY <1>1, <1>7 DEF AlignUp
<1>9. /\ Extent(s, "name") = Span(0, 12) /\ Extent(s, "saddr") = Span(12, 4)
      /\ Extent(s, "smask") = Span(16, 4) /\ Extent(s, "daddr") = Span(20, 4)
      /\ Extent(s, "dmask") = Span(24, 4) /\ Extent(s, "sport") = Span(28, 4)
      /\ Extent(s, "dport") = Span(32, 4) /\ Extent(s, "protocol") = Span(36, 1)
      /\ Extent(s, "action") = Span(40, 4) /\ Extent(s, "log") = Span(44, 4)
      /\ Extent(s, "next") = Span(48, 4)
  BY <1>1, <1>7
<1>10. {s[i][1] : i \in DOMAIN s} = {"name", "saddr", "smask", "daddr", "dmask", "sport", "dport", "protocol",
           "action", "log", "next"}
  BY <1>1, <1>2
<1> QED
  BY <1>7, <1>8, <1>9, <1>10

\* The kernel's rule on a 64-bit build.
LEMMA KernelRule64 ==
    ASSUME NEW s, s = KernelFWRule(8)
    PROVE  SizeOf(s) = 64 /\ Alignment(s) = 8
<1> DEFINE o == <<0, 16, 24, 28, 32, 36, 40, 44, 48, 52, 56>>
<1>1. s = <<<<"name", 12, 1>>, <<"next", 8, 8>>, <<"saddr", 4, 4>>,
           <<"smask", 4, 4>>, <<"sport", 4, 4>>, <<"daddr", 4, 4>>,
           <<"dmask", 4, 4>>, <<"dport", 4, 4>>, <<"protocol", 1, 1>>,
           <<"action", 4, 4>>, <<"log", 4, 4>>>>
  BY DEF KernelFWRule, u32, u16, u8, Name12, Pointer
<1>2. Len(s) = 11 /\ DOMAIN s = 1..11 /\ o = [i \in 1..11 |-> o[i]]
  BY <1>1
<1>3. \A i \in 1..11 : o[i] = IF i = 1 THEN 0 ELSE AlignUp(o[i - 1] + s[i - 1][2], s[i][3])
  BY <1>1 DEF AlignUp
<1>4. (\E i \in 1..11 : s[i][3] = 8) /\ \A i \in 1..11 : s[i][3] \in Int /\ s[i][3] <= 8
  BY <1>1
<1>5. \A i, j \in 1..11 : s[i][1] = s[j][1] => i = j
  BY <1>1
<1>6. IsLayout(s, 11, o, 8)
  <2> HIDE DEF o
  <2> QED
    BY <1>2, <1>3, <1>4, <1>5, Zenon DEF IsLayout
<1>7. /\ SizeOf(s) = AlignUp(o[11] + s[11][2], 8) /\ Alignment(s) = 8
      /\ \A i \in 1..11 : Extent(s, s[i][1]) = Span(o[i], s[i][2])
  <2>1. 11 \in Nat /\ 8 \in Int
    OBVIOUS
  <2> HIDE DEF o
  <2> QED
    BY <1>2, <1>6, <2>1, LayoutFacts, Zenon
<1>8. SizeOf(s) = 64
  BY <1>1, <1>7 DEF AlignUp
<1> QED
  BY <1>7, <1>8

\* The client's rule on a 64-bit build.
LEMMA ClientRule64 ==
    ASSUME NEW s, s = ClientFWRule(8)
    PROVE  SizeOf(s) = 56 /\ Alignment(s) = 8
<1> DEFINE o == <<0, 12, 16, 20, 24, 28, 32, 36, 40, 44, 48>>
<1>1. s = <<<<"name", 12, 1>>, <<"saddr", 4, 4>>, <<"smask", 4, 4>>,
           <<"daddr", 4, 4>>, <<"dmask", 4, 4>>, <<"sport", 4, 4>>,
           <<"dport", 4, 4>>, <<"protocol", 1, 1>>, <<"action", 4, 4>>,
           <<"log", 4, 4>>, <<"next", 8, 8>>>>
  BY DEF ClientFWRule, u32, u16, u8, Name12, Pointer
<1>2. Len(s) = 11 /\ DOMAIN s = 1..11 /\ o = [i \in 1..11 |-> o[i]]
  BY <1>1
<1>3. \A i \in 1..11 : o[i] = IF i = 1 THEN 0 ELSE AlignUp(o[i - 1] + s[i - 1][2], s[i][3])
  BY <1>1 DEF AlignUp
<1>4. (\E i \in 1..11 : s[i][3] = 8) /\ \A i \in 1..11 : s[i][3] \in Int /\ s[i][3] <= 8
  BY <1>1
<1>5. \A i, j \in 1..11 : s[i][1] = s[j][1] => i = j
  BY <1>1
<1>6. IsLayout(s, 11, o, 8)
  <2> HIDE DEF o
  <2> QED
    BY <1>2, <1>3, <1>4, <1>5, Zenon DEF IsLayout
<1>7. /\ SizeOf(s) = AlignUp(o[11] + s[11][2], 8) /\ Alignment(s) = 8
      /\ \A i \in 1..11 : Extent(s, s[i][1]) = Span(o[i], s[i][2])
  <2>1. 11 \in Nat /\ 8 \in Int
    OBVIOUS
  <2> HIDE DEF o
  <2> QED
    BY <1>2, <1>6, <2>1, LayoutFacts, Zenon
<1>8. SizeOf(s) = 56
  BY <1>1, <1>7 DEF AlignUp
<1> QED
  BY <1>7, <1>8

\* The kernel's NAT rule on a 32-bit build.
LEMMA KernelNAT32 ==
    ASSUME NEW s, s = KernelNATRule(4)
    PROVE  /\ SizeOf(s) = 24 /\ Alignment(s) = 4
           /\ Extent(s, "saddr") = Span(0, 4) /\ Extent(s, "smask") = Span(4, 4)
           /\ Extent(s, "sport") = Span(8, 2) /\ Extent(s, "daddr") = Span(12, 4)
           /\ Extent(s, "dport") = Span(16, 2) /\ Extent(s, "nowPort") = Span(18, 2)
           /\ Extent(s, "next") = Span(20, 4)
           /\ {s[i][1] : i \in DOMAIN s} = {"saddr", "smask", "sport", "daddr", "dport", "nowPort",
                                              "next"}
<1> DEFINE o == <<0, 4, 8, 12, 16, 18, 20>>
<1>1. s = <<<<"saddr", 4, 4>>, <<"smask", 4, 4>>, <<"sport", 2, 2>>,
           <<"daddr", 4, 4>>, <<"dport", 2, 2>>, <<"nowPort", 2, 2>>,
           <<"next", 4, 4>>>>
  BY DEF KernelNATRule, u32, u16, u8, Pointer
<1>2. Len(s) = 7 /\ DOMAIN s = 1..7 /\ o = [i \in 1..7 |-> o[i]]
  BY <1>1
<1>3. \A i \in 1..7 : o[i] = IF i = 1 THEN 0 ELSE AlignUp(o[i - 1] + s[i - 1][2], s[i][3])
  BY <1>1 DEF AlignUp
<1>4. (\E i \in 1..7 : s[i][3] = 4) /\ \A i \in 1..7 : s[i][3] \in Int /\ s[i][3] <= 4
  BY <1>1
<1>5. \A i, j \in 1..7 : s[i][1] = s[j][1] => i = j
  BY <1>1
<1>6. IsLayout(s, 7, o, 4)
  <2> HIDE DEF o
  <2> QED
    BY <1>2, <1>3, <1>4, <1>5, Zenon DEF IsLayout
<1>7. /\ SizeOf(s) = AlignUp(o[7] + s[7][2], 4) /\ Alignment(s) = 4
      /\ \A i \in 1..7 : Extent(s, s[i][1]) = Span(o[i], s[i][2])
  <2>1. 7 \in Nat /\ 4 \in Int
    OBVIOUS
  <2> HIDE DEF o
  <2> QED
    BY <1>2, <1>6, <2>1, LayoutFacts, Zenon
<1>8. SizeOf(s) = 24
  BY <1>1, <1>7 DEF AlignUp
<1>9. /\ Extent(s, "saddr") = Span(0, 4) /\ Extent(s, "smask") = Span(4, 4)
      /\ Extent(s, "sport") = Span(8, 2) /\ Extent(s, "daddr") = Span(12, 4)
      /\ Extent(s, "dport") = Span(16, 2) /\ Extent(s, "nowPort") = Span(18, 2)
      /\ Extent(s, "next") = Span(20, 4)
  BY <1>1, <1>7
<1>10. {s[i][1] : i \in DOMAIN s} = {"saddr", "smask", "sport", "daddr", "dport", "nowPort", "next"}
  BY <1>1, <1>2
<1> QED
  BY <1>7, <1>8, <1>9, <1>10

\* The client's NAT rule on a 32-bit build.
LEMMA ClientNAT32 ==
    ASSUME NEW s, s = ClientNATRecord(4)
    PROVE  /\ SizeOf(s) = 28 /\ Alignment(s) = 4
           /\ Extent(s, "saddr") = Span(0, 4) /\ Extent(s, "sport") = Span(4, 2)
           /\ Extent(s, "daddr") = Span(8, 4) /\ Extent(s, "dport") = Span(12, 2)
           /\ Extent(s, "smask") = Span(16, 4) /\ Extent(s, "nowPort") = Span(20, 2)
           /\ Extent(s, "next") = Span(24, 4)
           /\ {s[i][1] : i \in DOMAIN s} = {"saddr", "sport", "daddr", "dport", "smask", "nowPort",
                                              "next"}
<1> DEFINE o == <<0, 4, 8, 12, 16, 20, 24>>
<1>1. s = <<<<"saddr", 4, 4>>, <<"sport", 2, 2>>, <<"daddr", 4, 4>>,
           <<"dport", 2, 2>>, <<"smask", 4, 4>>, <<"nowPort", 2, 2>>,
           <<"next", 4, 4>>>>
  BY DEF ClientNATRecord, u32, u16, u8, Pointer
<1>2. Len(s) = 7 /\ DOMAIN s = 1..7 /\ o = [i \in 1..7 |-> o[i]]
  BY <1>1
<1>3. \A i \in 1..7 : o[i] = IF i = 1 THEN 0 ELSE AlignUp(o[i - 1] + s[i - 1][2], s[i][3])
  BY <1>1 DEF AlignUp
<1>4. (\E i \in 1..7 : s[i][3] = 4) /\ \A i \in 1..7 : s[i][3] \in Int /\ s[i][3] <= 4
  BY <1>1
<1>5. \A i, j \in 1..7 : s[i][1] = s[j][1] => i = j
  BY <1>1
<1>6. IsLayout(s, 7, o, 4)
  <2> HIDE DEF o
  <2> QED
    BY <1>2, <1>3, <1>4, <1>5, Zenon DEF IsLayout
<1>7. /\ SizeOf(s) = AlignUp(o[7] + s[7][2], 4) /\ Alignment(s) = 4
      /\ \A i \in 1..7 : Extent(s, s[i][1]) = Span(o[i], s[i][2])
  <2>1. 7 \in Nat /\ 4 \in Int
    OBVIOUS
  <2> HIDE DEF o
  <2> QED
    BY <1>2, <1>6, <2>1, LayoutFacts, Zenon
<1>8. SizeOf(s) = 28
  BY <1>1, <1>7 DEF AlignUp
<1>9. /\ Extent(s, "saddr") = Span(0, 4) /\ Extent(s, "sport") = Span(4, 2)
      /\ Extent(s, "daddr") = Span(8, 4) /\ Extent(s, "dport") = Span(12, 2)
      /\ Extent(s, "smask") = Span(16, 4) /\ Extent(s, "nowPort") = Span(20, 2)
      /\ Extent(s, "next") = Span(24, 4)
  BY <1>1, <1>7
<1>10. {s[i][1] : i \in DOMAIN s} = {"saddr", "sport", "daddr", "dport", "smask", "nowPort", "next"}
  BY <1>1, <1>2
<1> QED
  BY <1>7, <1>8, <1>9, <1>10

\* The kernel's log record on a 32-bit build.
LEMMA KernelLog32 ==
    ASSUME NEW s, s = KernelLogItem(4)
    PROVE  /\ SizeOf(s) = 32 /\ Alignment(s) = 4
           /\ Extent(s, "tm") = Span(0, 4) /\ Extent(s, "saddr") = Span(4, 4)
           /\ Extent(s, "sport") = Span(8, 2) /\ Extent(s, "daddr") = Span(12, 4)
           /\ Extent(s, "dport") = Span(16, 2) /\ Extent(s, "protocol") = Span(18, 1)
           /\ Extent(s, "len") = Span(20, 4) /\ Extent(s, "action") = Span(24, 4)
           /\ Extent(s, "next") = Span(28, 4)
           /\ {s[i][1] : i \in DOMAIN s} = {"tm", "saddr", "sport", "daddr", "dport", "protocol",
                                              "len", "action", "next"}
<1> DEFINE o == <<0, 4, 8, 12, 16, 18, 20, 24, 28>>
<1>1. s = <<<<"tm", 4, 4>>, <<"saddr", 4, 4>>, <<"sport", 2, 2>>,
           <<"daddr", 4, 4>>, <<"dport", 2, 2>>, <<"protocol", 1, 1>>,
           <<"len", 4, 4>>, <<"action", 4, 4>>, <<"next", 4, 4>>>>
  BY DEF KernelLogItem, u32, u16, u8, Pointer
<1>2. Len(s) = 9 /\ DOMAIN s = 1..9 /\ o = [i \in 1..9 |-> o[i]]
  BY <1>1
<1>3. \A i \in 1..9 : o[i] = IF i = 1 THEN 0 ELSE AlignUp(o[i - 1] + s[i - 1][2], s[i][3])
  BY <1>1 DEF AlignUp
<1>4. (\E i \in 1..9 : s[i][3] = 4) /\ \A i \in 1..9 : s[i][3] \in Int /\ s[i][3] <= 4
  BY <1>1
<1>5. \A i, j \in 1..9 : s[i][1] = s[j][1] => i = j
  BY <1>1
<1>6. IsLayout(s, 9, o, 4)
  <2> HIDE DEF o
  <2> QED
    BY <1>2, <1>3, <1>4, <1>5, Zenon DEF IsLayout
<1>7. /\ SizeOf(s) = AlignUp(o[9] + s[9][2], 4) /\ Alignment(s) = 4
      /\ \A i \in 1..9 : Extent(s, s[i][1]) = Span(o[i], s[i][2])
  <2>1. 9 \in Nat /\ 4 \in Int
    OBVIOUS
  <2> HIDE DEF o
  <2> QED
    BY <1>2, <1>6, <2>1, LayoutFacts, Zenon
<1>8. SizeOf(s) = 32
  BY <1>1, <1>7 DEF AlignUp
<1>9. /\ Extent(s, "tm") = Span(0, 4) /\ Extent(s, "saddr") = Span(4, 4)
      /\ Extent(s, "sport") = Span(8, 2) /\ Extent(s, "daddr") = Span(12, 4)
      /\ Extent(s, "dport") = Span(16, 2) /\ Extent(s, "protocol") = Span(18, 1)
      /\ Extent(s, "len") = Span(20, 4) /\ Extent(s, "action") = Span(24, 4)
      /\ Extent(s, "next") = Span(28, 4)
  BY <1>1, <1>7
<1>10. {s[i][1] : i \in DOMAIN s} = {"tm", "saddr", "sport", "daddr", "dport", "protocol", "len", "action",
           "next"}
  BY <1>1, <1>2
<1> QED
  BY <1>7, <1>8, <1>9, <1>10

\* The client's log record on a 32-bit build.
LEMMA ClientLog32 ==
    ASSUME NEW s, s = ClientLogItem(4)
    PROVE  /\ SizeOf(s) = 32 /\ Alignment(s) = 4
           /\ Extent(s, "tm") = Span(0, 4) /\ Extent(s, "saddr") = Span(4, 4)
           /\ Extent(s, "daddr") = Span(8, 4) /\ Extent(s, "sport") = Span(12, 2)
           /\ Extent(s, "dport") = Span(14, 2) /\ Extent(s, "protocol") = Span(16, 1)
           /\ Extent(s, "len") = Span(20, 4) /\ Extent(s, "action") = Span(24, 4)
           /\ Extent(s, "next") = Span(28, 4)
           /\ {s[i][1] : i \in DOMAIN s} = {"tm", "saddr", "daddr", "sport", "dport", "protocol",
                                              "len", "action", "next"}
<1> DEFINE o == <<0, 4, 8, 12, 14, 16, 20, 24, 28>>
<1>1. s = <<<<"tm", 4, 4>>, <<"saddr", 4, 4>>, <<"daddr", 4, 4>>,
           <<"sport", 2, 2>>, <<"dport", 2, 2>>, <<"protocol", 1, 1>>,
           <<"len", 4, 4>>, <<"action", 4, 4>>, <<"next", 4, 4>>>>
  BY DEF ClientLogItem, u32, u16, u8, Pointer
<1>2. Len(s) = 9 /\ DOMAIN s = 1..9 /\ o = [i \in 1..9 |-> o[i]]
  BY <1>1
<1>3. \A i \in 1..9 : o[i] = IF i = 1 THEN 0 ELSE AlignUp(o[i - 1] + s[i - 1][2], s[i][3])
  BY <1>1 DEF AlignUp
<1>4. (\E i \in 1..9 : s[i][3] = 4) /\ \A i \in 1..9 : s[i][3] \in Int /\ s[i][3] <= 4
  BY <1>1
<1>5. \A i, j \in 1..9 : s[i][1] = s[j][1] => i = j
  BY <1>1
<1>6. IsLayout(s, 9, o, 4)
  <2> HIDE DEF o
  <2> QED
    BY <1>2, <1>3, <1>4, <1>5, Zenon DEF IsLayout
<1>7. /\ SizeOf(s) = AlignUp(o[9] + s[9][2], 4) /\ Alignment(s) = 4
      /\ \A i \in 1..9 : Extent(s, s[i][1]) = Span(o[i], s[i][2])
  <2>1. 9 \in Nat /\ 4 \in Int
    OBVIOUS
  <2> HIDE DEF o
  <2> QED
    BY <1>2, <1>6, <2>1, LayoutFacts, Zenon
<1>8. SizeOf(s) = 32
  BY <1>1, <1>7 DEF AlignUp
<1>9. /\ Extent(s, "tm") = Span(0, 4) /\ Extent(s, "saddr") = Span(4, 4)
      /\ Extent(s, "daddr") = Span(8, 4) /\ Extent(s, "sport") = Span(12, 2)
      /\ Extent(s, "dport") = Span(14, 2) /\ Extent(s, "protocol") = Span(16, 1)
      /\ Extent(s, "len") = Span(20, 4) /\ Extent(s, "action") = Span(24, 4)
      /\ Extent(s, "next") = Span(28, 4)
  BY <1>1, <1>7
<1>10. {s[i][1] : i \in DOMAIN s} = {"tm", "saddr", "daddr", "sport", "dport", "protocol", "len", "action",
           "next"}
  BY <1>1, <1>2
<1> QED
  BY <1>7, <1>8, <1>9, <1>10

\* What the kernel reports of a connection on a 32-bit build.
LEMMA KernelConn32 ==
    ASSUME NEW s, s = ConnLog(KernelNATRule(4))
    PROVE  /\ SizeOf(s) = 44 /\ Alignment(s) = 4
           /\ Extent(s, "saddr") = Span(0, 4) /\ Extent(s, "daddr") = Span(4, 4)
           /\ Extent(s, "sport") = Span(8, 2) /\ Extent(s, "dport") = Span(10, 2)
           /\ Extent(s, "protocol") = Span(12, 1)
           /\ {s[i][1] : i \in DOMAIN s} = {"saddr", "daddr", "sport", "dport", "protocol", "natType",
                                              "nat"}
<1> DEFINE o == <<0, 4, 8, 10, 12, 16, 20>>
<1>1. s = <<<<"saddr", 4, 4>>, <<"daddr", 4, 4>>, <<"sport", 2, 2>>,
           <<"dport", 2, 2>>, <<"protocol", 1, 1>>, <<"natType", 4, 4>>,
           <<"nat", 24, 4>>>>
  BY KernelNAT32 DEF ConnLog, u32, u16, u8
<1>2. Len(s) = 7 /\ DOMAIN s = 1..7 /\ o = [i \in 1..7 |-> o[i]]
  BY <1>1
<1>3. \A i \in 1..7 : o[i] = IF i = 1 THEN 0 ELSE AlignUp(o[i - 1] + s[i - 1][2], s[i][3])
  BY <1>1 DEF AlignUp
<1>4. (\E i \in 1..7 : s[i][3] = 4) /\ \A i \in 1..7 : s[i][3] \in Int /\ s[i][3] <= 4
  BY <1>1
<1>5. \A i, j \in 1..7 : s[i][1] = s[j][1] => i = j
  BY <1>1
<1>6. IsLayout(s, 7, o, 4)
  <2> HIDE DEF o
  <2> QED
    BY <1>2, <1>3, <1>4, <1>5, Zenon DEF IsLayout
<1>7. /\ SizeOf(s) = AlignUp(o[7] + s[7][2], 4) /\ Alignment(s) = 4
      /\ \A i \in 1..7 : Extent(s, s[i][1]) = Span(o[i], s[i][2])
  <2>1. 7 \in Nat /\ 4 \in Int
    OBVIOUS
  <2> HIDE DEF o
  <2> QED
    BY <1>2, <1>6, <2>1, LayoutFacts, Zenon
<1>8. SizeOf(s) = 44
  BY <1>1, <1>7 DEF AlignUp
<1>9. /\ Extent(s, "saddr") = Span(0, 4) /\ Extent(s, "daddr") = Span(4, 4)
      /\ Extent(s, "sport") = Span(8, 2) /\ Extent(s, "dport") = Span(10, 2)
      /\ Extent(s, "protocol") = Span(12, 1)
  BY <1>1, <1>7
<1>10. {s[i][1] : i \in DOMAIN s} = {"saddr", "daddr", "sport", "dport", "protocol", "natType", "nat"}
  BY <1>1, <1>2
<1> QED
  BY <1>7, <1>8, <1>9, <1>10

\* What the client takes for a connection on a 32-bit build.
LEMMA ClientConn32 ==
    ASSUME NEW s, s = ConnLog(ClientNATRecord(4))
    PROVE  /\ SizeOf(s) = 48 /\ Alignment(s) = 4
           /\ Extent(s, "saddr") = Span(0, 4) /\ Extent(s, "daddr") = Span(4, 4)
           /\ Extent(s, "sport") = Span(8, 2) /\ Extent(s, "dport") = Span(10, 2)
           /\ Extent(s, "protocol") = Span(12, 1)
           /\ {s[i][1] : i \in DOMAIN s} = {"saddr", "daddr", "sport", "dport", "protocol", "natType",
                                              "nat"}
<1> DEFINE o == <<0, 4, 8, 10, 12, 16, 20>>
<1>1. s = <<<<"saddr", 4, 4>>, <<"daddr", 4, 4>>, <<"sport", 2, 2>>,
           <<"dport", 2, 2>>, <<"protocol", 1, 1>>, <<"natType", 4, 4>>,
           <<"nat", 28, 4>>>>
  BY ClientNAT32 DEF ConnLog, u32, u16, u8
<1>2. Len(s) = 7 /\ DOMAIN s = 1..7 /\ o = [i \in 1..7 |-> o[i]]
  BY <1>1
<1>3. \A i \in 1..7 : o[i] = IF i = 1 THEN 0 ELSE AlignUp(o[i - 1] + s[i - 1][2], s[i][3])
  BY <1>1 DEF AlignUp
<1>4. (\E i \in 1..7 : s[i][3] = 4) /\ \A i \in 1..7 : s[i][3] \in Int /\ s[i][3] <= 4
  BY <1>1
<1>5. \A i, j \in 1..7 : s[i][1] = s[j][1] => i = j
  BY <1>1
<1>6. IsLayout(s, 7, o, 4)
  <2> HIDE DEF o
  <2> QED
    BY <1>2, <1>3, <1>4, <1>5, Zenon DEF IsLayout
<1>7. /\ SizeOf(s) = AlignUp(o[7] + s[7][2], 4) /\ Alignment(s) = 4
      /\ \A i \in 1..7 : Extent(s, s[i][1]) = Span(o[i], s[i][2])
  <2>1. 7 \in Nat /\ 4 \in Int
    OBVIOUS
  <2> HIDE DEF o
  <2> QED
    BY <1>2, <1>6, <2>1, LayoutFacts, Zenon
<1>8. SizeOf(s) = 48
  BY <1>1, <1>7 DEF AlignUp
<1>9. /\ Extent(s, "saddr") = Span(0, 4) /\ Extent(s, "daddr") = Span(4, 4)
      /\ Extent(s, "sport") = Span(8, 2) /\ Extent(s, "dport") = Span(10, 2)
      /\ Extent(s, "protocol") = Span(12, 1)
  BY <1>1, <1>7
<1>10. {s[i][1] : i \in DOMAIN s} = {"saddr", "daddr", "sport", "dport", "protocol", "natType", "nat"}
  BY <1>1, <1>2
<1> QED
  BY <1>7, <1>8, <1>9, <1>10

--------------------------------------------------------------------------------
(* What survives the way between the two sides *)

\* Bytes in a row.
LEMMA SpanFacts ==
    ASSUME NEW a \in Nat, NEW n \in Nat \ {0}, NEW b \in Nat, NEW m \in Nat \ {0}
    PROVE  /\ Span(a, n) = Span(b, m) => a = b
           /\ Max(Span(a, n)) = a + n - 1
           /\ Span(a, n) \cap Span(b, m) = {} <=> a + n <= b \/ b + m <= a
<1>1. ASSUME Span(a, n) = Span(b, m) PROVE a = b
  <2>1. a \in Span(b, m) /\ b \in Span(a, n)
    BY <1>1 DEF Span
  <2> QED
    BY <2>1 DEF Span
<1>2. Max(Span(a, n)) = a + n - 1
  <2> DEFINE S == Span(a, n)
  <2>1. a + n - 1 \in S /\ \A x \in S : x \in Int /\ x <= a + n - 1
    BY DEF Span
  <2> HIDE DEF S
  <2>2. Max(S) \in S /\ \A x \in S : Max(S) >= x
    BY <2>1 DEF Max
  <2>3. Max(S) \in Int /\ Max(S) <= a + n - 1 /\ Max(S) >= a + n - 1
    BY <2>1, <2>2
  <2>4. Max(S) = a + n - 1
    BY <2>3
  <2> QED
    BY <2>4 DEF S
<1>3. ASSUME ~(a + n <= b \/ b + m <= a) PROVE Span(a, n) \cap Span(b, m) # {}
  <2>1. CASE a <= b
    <3>1. b \in Span(a, n) \cap Span(b, m)
      BY <1>3, <2>1 DEF Span
    <3> QED
      BY <3>1
  <2>2. CASE b <= a
    <3>1. a \in Span(a, n) \cap Span(b, m)
      BY <1>3, <2>2 DEF Span
    <3> QED
      BY <3>1
  <2> QED
    BY <2>1, <2>2
<1>4. ASSUME a + n <= b \/ b + m <= a PROVE Span(a, n) \cap Span(b, m) = {}
  BY <1>4 DEF Span
<1> QED
  BY <1>1, <1>2, <1>3, <1>4

\* A member that starts elsewhere is not understood.
LEMMA Misread ==
    ASSUME NEW k, NEW w, NEW f, NEW a \in Nat, NEW n \in Nat \ {0}, NEW b \in Nat, NEW m \in Nat \ {0},
           Extent(k, f) = Span(a, n), Extent(w, f) = Span(b, m), a # b
    PROVE  ~Understood(k, w, f)
  BY SpanFacts DEF Understood

\* A member is kept if it ends where the kernel's structure does or before, and clear of
\* the kernel's pointer.
LEMMA KeptIf ==
    ASSUME NEW k, NEW w, NEW i \in Nat, NEW f \in Members(w), InStep(k, w, i),
           NEW a \in Nat, NEW n \in Nat \ {0}, NEW b \in Nat, NEW m \in Nat \ {0},
           Extent(w, f) = Span(a, n), Extent(k, "next") = Span(b, m), SizeOf(k) \in Nat
    PROVE  f \in Kept(k, w, i) <=> a + n <= SizeOf(k) /\ (a + n <= b \/ b + m <= a)
<1>1. Max(Extent(w, f)) = a + n - 1
  BY SpanFacts
<1>2. Extent(w, f) \cap Extent(k, "next") = {} <=> a + n <= b \/ b + m <= a
  <2>1. Span(a, n) \cap Span(b, m) = {} <=> a + n <= b \/ b + m <= a
    BY SpanFacts
  <2> QED
    BY <2>1
<1> QED
  BY <1>1, <1>2 DEF Kept

\* On a 32-bit build the kernel keeps all of a rule but the source, and reads the name alone.
LEMMA RuleKept ==
    ASSUME NEW k, k = KernelFWRule(4), NEW w, w = ClientFWRule(4), NEW i \in Nat
    PROVE  /\ Kept(k, w, i) = Members(w) \ {"saddr"}
           /\ Members(w) = {"name", "saddr", "smask", "daddr", "dmask", "sport", "dport",
                            "protocol", "action", "log"}
           /\ {f \in Members(w) : Understood(k, w, f)} = {"name"}
<1>1. /\ SizeOf(k) = 52 /\ SizeOf(w) = 52 /\ Extent(k, "next") = Span(12, 4)
  BY KernelRule32, ClientRule32
<1>2. Members(w) = {"name", "saddr", "smask", "daddr", "dmask", "sport", "dport", "protocol", "action", "log"}
  BY ClientRule32 DEF Members
<1>3. InStep(k, w, i)
  BY <1>1 DEF InStep
<1>4. ~Understood(k, w, "saddr") /\ ~Understood(k, w, "smask")
  BY KernelRule32, ClientRule32, Misread
<1>5. ~Understood(k, w, "daddr") /\ ~Understood(k, w, "dmask")
  BY KernelRule32, ClientRule32, Misread
<1>6. ~Understood(k, w, "sport") /\ ~Understood(k, w, "dport")
  BY KernelRule32, ClientRule32, Misread
<1>7. ~Understood(k, w, "protocol") /\ ~Understood(k, w, "action") /\ ~Understood(k, w, "log")
  BY KernelRule32, ClientRule32, Misread
<1>8. Understood(k, w, "name")
  BY KernelRule32, ClientRule32 DEF Understood
<1> DEFINE kept(f) == f \in Kept(k, w, i)
<1>9. ASSUME NEW f \in Members(w), NEW a \in Nat, NEW n \in Nat \ {0}, Extent(w, f) = Span(a, n)
       PROVE  kept(f) <=> a + n <= 52 /\ (a + n <= 12 \/ 16 <= a)
  BY <1>1, <1>3, <1>9, KeptIf
<1> HIDE DEF kept
<1>10. kept("name") /\ ~kept("saddr")
  BY <1>2, <1>9, ClientRule32
<1>11. kept("smask") /\ kept("daddr") /\ kept("dmask")
  BY <1>2, <1>9, ClientRule32
<1>12. kept("sport") /\ kept("dport")
  BY <1>2, <1>9, ClientRule32
<1>13. kept("protocol") /\ kept("action") /\ kept("log")
  BY <1>2, <1>9, ClientRule32
<1> USE DEF kept
<1>14. Kept(k, w, i) = Members(w) \ {"saddr"}
  <2>1. Kept(k, w, i) \subseteq Members(w)
    BY DEF Kept
  <2> QED
    BY <1>2, <1>10, <1>11, <1>12, <1>13, <2>1
<1> QED
  BY <1>2, <1>4, <1>5, <1>6, <1>7, <1>8, <1>14

\* On a 32-bit build the first NAT rule is kept as the client has it; behind it nothing is.
LEMMA NATKept ==
    ASSUME NEW k, k = KernelNATRule(4), NEW w, w = ClientNATRecord(4), NEW i \in Nat
    PROVE  /\ i = 0 => {"saddr", "smask", "daddr", "sport", "dport"} \subseteq Kept(k, w, i)
           /\ i # 0 => Kept(k, w, i) = {}
<1>1. SizeOf(k) = 24 /\ SizeOf(w) = 28 /\ Extent(k, "next") = Span(20, 4)
  BY KernelNAT32, ClientNAT32
<1>2. ASSUME i # 0 PROVE Kept(k, w, i) = {}
  BY <1>1, <1>2 DEF Kept, InStep
<1>3. {"saddr", "smask", "daddr", "sport", "dport"} \subseteq Members(w)
  BY ClientNAT32 DEF Members
<1> DEFINE kept(f) == f \in Kept(k, w, i)
<1>4. ASSUME i = 0, NEW f \in Members(w), NEW a \in Nat, NEW n \in Nat \ {0}, Extent(w, f) = Span(a, n)
      PROVE  kept(f) <=> a + n <= 24 /\ (a + n <= 20 \/ 24 <= a)
  <2>1. InStep(k, w, i)
    BY <1>4 DEF InStep
  <2> QED
    BY <1>1, <1>4, <2>1, KeptIf
<1> HIDE DEF kept
<1>5. i = 0 => kept("saddr") /\ kept("smask") /\ kept("daddr")
  BY <1>3, <1>4, ClientNAT32
<1>6. i = 0 => kept("sport") /\ kept("dport")
  BY <1>3, <1>4, ClientNAT32
<1> QED
  BY <1>2, <1>5, <1>6 DEF kept

\* On a 32-bit build the first connection is read as it was written; behind it none is.
LEMMA ConnWritten ==
    ASSUME NEW k, k = ConnLog(KernelNATRule(4)), NEW w, w = ConnLog(ClientNATRecord(4)), NEW i \in Nat
    PROVE  /\ i = 0 => {"saddr", "daddr", "sport", "dport", "protocol"} \subseteq Written(k, w, i)
           /\ i # 0 => Written(k, w, i) = {}
<1>1. SizeOf(k) = 44 /\ SizeOf(w) = 48
  BY KernelConn32, ClientConn32
<1>2. {"saddr", "daddr", "sport", "dport", "protocol"} \subseteq Members(w)
  BY ClientConn32 DEF Members
<1>3. \A f \in {"saddr", "daddr", "sport", "dport", "protocol"} : Understood(k, w, f)
  BY KernelConn32, ClientConn32 DEF Understood
<1> QED
  BY <1>1, <1>2, <1>3 DEF Written, InStep

\* On a 32-bit build the client finds the length and the action of a log record, and neither
\* its ports nor its destination nor its protocol.
LEMMA LogWritten ==
    ASSUME NEW k, k = KernelLogItem(4), NEW w, w = ClientLogItem(4), NEW i \in Nat
    PROVE  /\ {"len", "action"} \subseteq Written(k, w, i)
           /\ Written(k, w, i) \cap {"sport", "daddr", "protocol"} = {}
<1>1. SizeOf(k) = 32 /\ SizeOf(w) = 32
  BY KernelLog32, ClientLog32
<1>2. {"len", "action"} \subseteq Members(w)
  BY ClientLog32 DEF Members
<1>3. Understood(k, w, "len") /\ Understood(k, w, "action")
  BY KernelLog32, ClientLog32 DEF Understood
<1>4. ~Understood(k, w, "sport") /\ ~Understood(k, w, "daddr") /\ ~Understood(k, w, "protocol")
  BY KernelLog32, ClientLog32, Misread
<1> QED
  BY <1>1, <1>2, <1>3, <1>4 DEF Written, InStep

\* The kernel takes the requests of a 32-bit build and those of no other.
LEMMA ShortBuildsAre == ShortBuilds = {8}
<1>1. RequestSize(KernelFWRule(4)) = 68 /\ RequestSize(ClientFWRule(4)) = 68
  BY KernelRule32, ClientRule32 DEF RequestSize, AlignUp
<1>2. RequestSize(KernelFWRule(8)) = 80 /\ RequestSize(ClientFWRule(8)) = 72
  BY KernelRule64, ClientRule64 DEF RequestSize, AlignUp
<1> QED
  BY <1>1, <1>2 DEF ShortBuilds

--------------------------------------------------------------------------------
(* The invariant *)

\* r is what cmdAddRule makes of some answers that it does not refuse.
RuleFormed(r) ==
    \E t \in TypedRule : \E sport \in Ports(t.sport, Junk), dport \in Ports(t.dport, Junk),
                           name \in Names(t.name) :
        /\ r = FilterRule(t, name, sport, dport)
        /\ ~BadAnswer(t, sport, dport) /\ AddressOK(t.src) /\ AddressOK(t.dst)

NATFormed(r) ==
    \E t \in TypedNAT : \E ports \in Ports(t.ports, Junk) :
        r = NATRecord(t, ports) /\ PortsOK(ports) /\ AddressOK(t.nat) /\ AddressOK(t.src)

\* What cmdAddNATRule makes of the answers that it does not refuse.
NATRecords ==
    {r \in UNION {{NATRecord(t, ports) : ports \in Ports(t.ports, Junk)} : t \in TypedNAT} : NATFormed(r)}

MessageFormed(m) ==
    /\ m.type = "REQ_ADDIPRule" => RuleFormed(m.rule)
    /\ m.type = "REQ_ADDNATRule" => m.natRule \in NATRecords
    /\ m.type = "REQ_DELNATRule" => m.count \in Nat

\* A request is formed of what was typed.
RequestFormed ==
    /\ at \in {"shell", "asking"} /\ word \in Words
    /\ at = "asking" <=> request # Nothing
    /\ MessageFormed(request)

\* The kernel keeps what was asked for.
RulesFormed == rules = <<>> \/ (rules = <<rules[1]>> /\ RuleFormed(rules[1]))

NATsFormed == nats \in Seq(NATRecords) /\ Len(nats) <= MaxNAT

TrafficFormed ==
    /\ logs = <<>> \/ (logs = <<logs[1]>> /\ \E p \in Packet, action \in {0, 1} : logs[1] = LogItem(p, action))
    /\ conns \in Seq(Packet)

\* What is on the screen was shown of these lists.
ScreenFormed ==
    /\ screen.type = "RSP_IPRules" => \A i \in DOMAIN screen.rows :
           i \in DOMAIN rules /\ screen.rows[i] = ShowRule(rules[i], i - 1)
    /\ screen.type = "RSP_NATRules" => \A i \in DOMAIN screen.rows :
           i \in DOMAIN nats /\ screen.rows[i] = ShowNATRule(nats[i], i - 1)
    /\ screen.type = "RSP_IPLogs" => \A i \in DOMAIN screen.rows :
           i \in DOMAIN logs /\ screen.rows[i] = ShowLog(logs[i], i - 1)
    /\ screen.type = "RSP_ConnLogs" => \A i \in DOMAIN screen.rows :
           i \in DOMAIN conns /\ screen.rows[i] = ShowConn(conns[i], i - 1)

\* Some address in what was typed is refused.
WrongAddress(what) ==
    \E f \in {"src", "dst", "nat"} \cap DOMAIN what : what[f] \in AddressText /\ ~AddressOK(what[f])

WordsFormed == screen.type = "WRONG_IP" => WrongAddress(typed)

\* On a 64-bit build nothing is ever answered.
NothingAnswered ==
    word = 8 => /\ rules = <<>> /\ nats = <<>>
                /\ screen.type \in {"nothing", "EXIT", "WRONG_IP", "NO_SUCH_RULE"}

ClientInv ==
    RequestFormed /\ RulesFormed /\ NATsFormed /\ TrafficFormed /\ ScreenFormed /\ WordsFormed /\ NothingAnswered

\* It holds of a shell at which nothing was typed.
LEMMA ClientStarts == ClientInit => ClientInv
<1> SUFFICES ASSUME ClientInit PROVE ClientInv
  OBVIOUS
<1>1. RequestFormed /\ RulesFormed /\ ScreenFormed /\ WordsFormed /\ NothingAnswered
  BY DEF ClientInit, Nothing, RequestFormed, MessageFormed, RulesFormed, ScreenFormed, WordsFormed, NothingAnswered
<1>2. NATsFormed /\ TrafficFormed
  BY ClientAssumption DEF ClientInit, NATsFormed, TrafficFormed
<1> QED
  BY <1>1, <1>2 DEF ClientInv

\* A refusal is a word, and WRONG_IP is said of an address that is refused.
LEMMA Refused ==
    ASSUME ClientInv, NEW what, NEW why \in {"EXIT", "WRONG_IP", "NO_SUCH_RULE"}, Refuse(what, why),
           why = "WRONG_IP" => WrongAddress(what)
    PROVE  ClientInv'
<1>1. UNCHANGED <<word, at, request, rules, nats, logs, conns>> /\ typed' = what /\ screen' = [type |-> why]
  BY DEF Refuse, lists, Says
<1>2. RequestFormed' /\ RulesFormed' /\ NATsFormed' /\ TrafficFormed'
  BY <1>1 DEF ClientInv, RequestFormed, RulesFormed, NATsFormed, TrafficFormed
<1>3. screen'.type = why
  BY <1>1
<1>4. ScreenFormed' /\ NothingAnswered'
  BY <1>1, <1>3 DEF ClientInv, ScreenFormed, NothingAnswered
<1>5. WordsFormed'
  BY <1>1, <1>3 DEF WordsFormed, WrongAddress
<1> QED
  BY <1>2, <1>4, <1>5 DEF ClientInv

\* A well formed request is asked and nothing is shown yet.
LEMMA Asked ==
    ASSUME ClientInv, NEW what, NEW m, m.type # "nothing", MessageFormed(m), Ask(what, m)
    PROVE  ClientInv'
<1>1. /\ UNCHANGED <<word, rules, nats, logs, conns>>
      /\ at' = "asking" /\ request' = m /\ screen' = [type |-> "nothing"]
  BY DEF Ask, lists, Nothing
<1>2. screen'.type = "nothing"
  BY <1>1
<1>3. m # Nothing
  BY DEF Nothing
<1>4. RequestFormed'
  BY <1>1, <1>3 DEF ClientInv, RequestFormed, MessageFormed
<1>5. RulesFormed' /\ NATsFormed' /\ TrafficFormed'
  BY <1>1 DEF ClientInv, RulesFormed, NATsFormed, TrafficFormed
<1>6. ScreenFormed' /\ WordsFormed' /\ NothingAnswered'
  BY <1>1, <1>2 DEF ClientInv, ScreenFormed, WordsFormed, NothingAnswered
<1> QED
  BY <1>4, <1>5, <1>6 DEF ClientInv

\* rule add
LEMMA RuleAddFormed == ClientInv /\ RuleAdd => ClientInv'
<1> SUFFICES ASSUME ClientInv, RuleAdd PROVE ClientInv'
  OBVIOUS
<1>1. PICK t \in TypedRule : \E sport \in Ports(t.sport, Junk), dport \in Ports(t.dport, Junk),
                               name \in Names(t.name), after \in Names(t.after) :
          IF BadAnswer(t, sport, dport) THEN Refuse(t, "EXIT")
          ELSE IF ~AddressOK(t.src) \/ ~AddressOK(t.dst) THEN Refuse(t, "WRONG_IP")
          ELSE Ask(t, [type |-> "REQ_ADDIPRule", ruleName |-> after,
                       rule |-> FilterRule(t, name, sport, dport)])
  BY Zenon DEF RuleAdd
<1>2. PICK sport \in Ports(t.sport, Junk), dport \in Ports(t.dport, Junk),
           name \in Names(t.name), after \in Names(t.after) :
          IF BadAnswer(t, sport, dport) THEN Refuse(t, "EXIT")
          ELSE IF ~AddressOK(t.src) \/ ~AddressOK(t.dst) THEN Refuse(t, "WRONG_IP")
          ELSE Ask(t, [type |-> "REQ_ADDIPRule", ruleName |-> after,
                       rule |-> FilterRule(t, name, sport, dport)])
  BY <1>1, Zenon
<1> DEFINE r == FilterRule(t, name, sport, dport)
           m == [type |-> "REQ_ADDIPRule", ruleName |-> after, rule |-> r]
<1>3. CASE BadAnswer(t, sport, dport)
  BY <1>2, <1>3, Refused
<1>4. CASE ~BadAnswer(t, sport, dport) /\ (~AddressOK(t.src) \/ ~AddressOK(t.dst))
  <2>1. Refuse(t, "WRONG_IP")
    BY <1>2, <1>4
  <2>2. {"src", "dst"} \subseteq DOMAIN t /\ t.src \in AddressText /\ t.dst \in AddressText
    BY ClientAssumption
  <2>3. WrongAddress(t)
    BY <1>4, <2>2 DEF WrongAddress
  <2> QED
    BY <2>1, <2>3, Refused
<1>5. CASE ~BadAnswer(t, sport, dport) /\ AddressOK(t.src) /\ AddressOK(t.dst)
  <2>1. Ask(t, m)
    BY <1>2, <1>5
  <2>2. RuleFormed(r)
    BY <1>5 DEF RuleFormed
  <2> HIDE DEF r
  <2>3. m.type = "REQ_ADDIPRule" /\ m.rule = r
    OBVIOUS
  <2> HIDE DEF m
  <2>4. MessageFormed(m)
    BY <2>2, <2>3 DEF MessageFormed
  <2> QED
    BY <2>1, <2>3, <2>4, Asked
<1> QED
  BY <1>3, <1>4, <1>5

\* nat add
LEMMA NATAddFormed == ClientInv /\ NATAdd => ClientInv'
<1> SUFFICES ASSUME ClientInv, NATAdd PROVE ClientInv'
  OBVIOUS
<1>1. PICK t \in TypedNAT : \E ports \in Ports(t.ports, Junk) :
          IF ~PortsOK(ports) THEN Refuse(t, "EXIT")
          ELSE IF ~AddressOK(t.nat) \/ ~AddressOK(t.src) THEN Refuse(t, "WRONG_IP")
          ELSE Ask(t, [type |-> "REQ_ADDNATRule", natRule |-> NATRecord(t, ports)])
  BY Zenon DEF NATAdd
<1>2. PICK ports \in Ports(t.ports, Junk) :
          IF ~PortsOK(ports) THEN Refuse(t, "EXIT")
          ELSE IF ~AddressOK(t.nat) \/ ~AddressOK(t.src) THEN Refuse(t, "WRONG_IP")
          ELSE Ask(t, [type |-> "REQ_ADDNATRule", natRule |-> NATRecord(t, ports)])
  BY <1>1, Zenon
<1> DEFINE r == NATRecord(t, ports)
           m == [type |-> "REQ_ADDNATRule", natRule |-> r]
<1>3. CASE ~PortsOK(ports)
  BY <1>2, <1>3, Refused
<1>4. CASE PortsOK(ports) /\ (~AddressOK(t.nat) \/ ~AddressOK(t.src))
  <2>1. Refuse(t, "WRONG_IP")
    BY <1>2, <1>4
  <2>2. {"src", "nat"} \subseteq DOMAIN t /\ t.src \in AddressText /\ t.nat \in AddressText
    BY ClientAssumption
  <2>3. WrongAddress(t)
    BY <1>4, <2>2 DEF WrongAddress
  <2> QED
    BY <2>1, <2>3, Refused
<1>5. CASE PortsOK(ports) /\ AddressOK(t.nat) /\ AddressOK(t.src)
  <2>1. Ask(t, m)
    BY <1>2, <1>5
  <2>2. NATFormed(r)
    BY <1>5 DEF NATFormed
  <2>3. r \in NATRecords
    BY <2>2 DEF NATRecords
  <2> HIDE DEF r
  <2>4. m.type = "REQ_ADDNATRule" /\ m.natRule = r
    OBVIOUS
  <2> HIDE DEF m
  <2>5. MessageFormed(m)
    BY <2>3, <2>4 DEF MessageFormed
  <2> QED
    BY <2>1, <2>4, <2>5, Asked
<1> QED
  BY <1>3, <1>4, <1>5

\* The commands that take no rule.
LEMMA OthersFormed ==
    ClientInv /\ (RuleDel \/ RuleDefault \/ NATDel \/ Show \/ WrongCommand) => ClientInv'
<1> SUFFICES ASSUME ClientInv, RuleDel \/ RuleDefault \/ NATDel \/ Show \/ WrongCommand
             PROVE  ClientInv'
  OBVIOUS
<1>1. CASE RuleDel
  <2>1. PICK n, name : \/ Refuse([type |-> "rule del", name |-> n], "EXIT")
                       \/ Ask([type |-> "rule del", name |-> n], [type |-> "REQ_DELIPRule", ruleName |-> name])
    BY <1>1 DEF RuleDel
  <2> DEFINE m == [type |-> "REQ_DELIPRule", ruleName |-> name]
  <2>2. m.type = "REQ_DELIPRule" /\ MessageFormed(m)
    BY DEF MessageFormed
  <2> QED
    BY <2>1, <2>2, Asked, Refused
<1>2. CASE RuleDefault
  <2>1. PICK action : Refuse(Says("rule default"), "EXIT")
                      \/ Ask(Says("rule default"), [type |-> "REQ_SETAction", defaultAction |-> action])
    BY <1>2 DEF RuleDefault
  <2> DEFINE m == [type |-> "REQ_SETAction", defaultAction |-> action]
  <2>2. m.type = "REQ_SETAction" /\ MessageFormed(m)
    BY DEF MessageFormed
  <2> QED
    BY <2>1, <2>2, Asked, Refused
<1>3. CASE NATDel
  <2>1. PICK num \in -1..MaxNAT : IF num < 0 THEN Refuse(Says("nat del"), "NO_SUCH_RULE")
                                  ELSE Ask(Says("nat del"), [type |-> "REQ_DELNATRule", count |-> num])
    BY <1>3 DEF NATDel
  <2> DEFINE m == [type |-> "REQ_DELNATRule", count |-> num]
  <2>2. CASE num < 0
    BY <2>1, <2>2, Refused
  <2>3. CASE ~(num < 0)
    <3>1. num \in Nat
      BY <2>3, ClientAssumption
    <3>2. m.type = "REQ_DELNATRule" /\ m.count = num
      OBVIOUS
    <3>3. Ask(Says("nat del"), m)
      BY <2>1, <2>3
    <3> HIDE DEF m
    <3>4. MessageFormed(m)
      BY <3>1, <3>2 DEF MessageFormed
    <3> QED
      BY <3>2, <3>3, <3>4, Asked
  <2> QED
    BY <2>2, <2>3
<1>4. CASE Show
  <2>1. PICK what \in {"REQ_GETAllIPRules", "REQ_GETNATRules", "REQ_GETAllConns", "REQ_GETAllIPLogs"} :
            Ask(Says("show"), [type |-> what])
    BY <1>4 DEF Show, Says
  <2> DEFINE m == [type |-> what]
  <2>2. m.type = what /\ MessageFormed(m)
    BY DEF MessageFormed
  <2> QED
    BY <2>1, <2>2, Asked
<1>5. CASE WrongCommand
  BY <1>5, Refused DEF WrongCommand
<1> QED
  BY <1>1, <1>2, <1>3, <1>4, <1>5

\* What an answer leaves alone: the request is done with, and the word is not WRONG_IP.
LEMMA AnsweredFormed ==
    ASSUME ClientInv, Answered, RulesFormed', NATsFormed', TrafficFormed', ScreenFormed',
           screen'.type # "WRONG_IP"
    PROVE  ClientInv'
<1>1. at' = "shell" /\ request' = Nothing /\ word' = word /\ word # 8
  BY ShortBuildsAre DEF Answered, Taken
<1>2. MessageFormed(Nothing)
  BY DEF MessageFormed, Nothing
<1>3. RequestFormed'
  BY <1>1, <1>2 DEF ClientInv, RequestFormed, MessageFormed
<1> QED
  BY <1>1, <1>3 DEF ClientInv, WordsFormed, NothingAnswered

\* The answers to a command about the rules.
LEMMA RulesAnswered ==
    ASSUME ClientInv, Answered, AppendFWRules \/ RemoveFWRules
    PROVE  ClientInv'
<1>1. UNCHANGED <<nats, logs, conns>>
  BY DEF AppendFWRules, RemoveFWRules
<1>2. NATsFormed' /\ TrafficFormed'
  BY <1>1 DEF ClientInv, NATsFormed, TrafficFormed
<1>3. RulesFormed'
  <2>1. CASE AppendFWRules
    <3>1. request.type = "REQ_ADDIPRule" /\ rules' = <<request.rule>>
      BY <2>1 DEF AppendFWRules
    <3>2. RuleFormed(request.rule)
      BY <3>1 DEF ClientInv, RequestFormed, MessageFormed
    <3> QED
      BY <3>1, <3>2 DEF RulesFormed, RuleFormed
  <2>2. CASE RemoveFWRules
    <3>1. rules' = <<>> \/ rules' = rules
      BY <2>2 DEF RemoveFWRules
    <3> QED
      BY <3>1 DEF ClientInv, RulesFormed, RuleFormed
  <2> QED
    BY <2>1, <2>2
<1>4. screen'.type \in {"Success.", "deleted"}
  BY DEF AppendFWRules, RemoveFWRules, Says
<1>5. ScreenFormed'
  BY <1>4 DEF ScreenFormed
<1> QED
  BY <1>2, <1>3, <1>4, <1>5, AnsweredFormed

\* The answers to a command about the NAT rules.
LEMMA NATsAnswered ==
    ASSUME ClientInv, Answered, AddNATRule \/ DeleteNATRule
    PROVE  ClientInv'
<1>1. UNCHANGED <<rules, logs, conns>>
  BY DEF AddNATRule, DeleteNATRule
<1>2. RulesFormed' /\ TrafficFormed'
  BY <1>1 DEF ClientInv, RulesFormed, TrafficFormed
<1>3. nats \in Seq(NATRecords) /\ Len(nats) <= MaxNAT /\ Len(nats) \in Nat /\ MaxNAT \in Nat
  BY ClientAssumption, LenProperties DEF ClientInv, NATsFormed
<1>4. NATsFormed'
  <2>1. CASE AddNATRule
    <3>1. /\ request.type = "REQ_ADDNATRule" /\ Len(nats) < MaxNAT
          /\ nats' = <<request.natRule>> \o nats
      BY <2>1 DEF AddNATRule
    <3> DEFINE one == <<request.natRule>>
    <3>2. request.natRule \in NATRecords
      BY <3>1 DEF ClientInv, RequestFormed, MessageFormed
    <3>3. one \in Seq(NATRecords) /\ Len(one) = 1
      BY <3>2
    <3> HIDE DEF one
    <3>4. one \o nats \in Seq(NATRecords) /\ Len(one \o nats) = 1 + Len(nats)
      BY <1>3, <3>3, ConcatProperties
    <3>5. nats' \in Seq(NATRecords) /\ Len(nats') <= MaxNAT
      BY <1>3, <3>1, <3>4 DEF one
    <3> QED
      BY <3>5 DEF NATsFormed, NATRecords, NATFormed
  <2>2. CASE DeleteNATRule
    <3>1. CASE nats' = nats
      BY <1>3, <3>1 DEF NATsFormed, NATRecords, NATFormed
    <3>2. CASE nats' # nats
      <4> DEFINE c == request.count
                 n == Len(nats)
                 before == SubSeq(nats, 1, c)
                 behind == SubSeq(nats, c + 2, n)
      <4>1. request.type = "REQ_DELNATRule" /\ c < n /\ nats' = before \o behind
        BY <2>2, <3>2 DEF DeleteNATRule
      <4>2. c \in Nat
        BY <4>1 DEF ClientInv, RequestFormed, MessageFormed
      <4> HIDE DEF c
      <4>3. before \in Seq(NATRecords) /\ Len(before) = c
        BY <1>3, <4>1, <4>2, SubSeqProperties
      <4>4. behind \in Seq(NATRecords) /\ Len(behind) = n - c - 1
        <5>1. CASE c + 2 <= n
          BY <1>3, <4>1, <4>2, <5>1, SubSeqProperties
        <5>2. CASE c + 1 = n
          <6>1. behind = <<>>
            BY <1>3, <4>2, <5>2
          <6> QED
            BY <1>3, <4>2, <5>2, <6>1
        <5> QED
          BY <1>3, <4>1, <4>2, <5>1, <5>2
      <4> HIDE DEF before, behind, n
      <4>5. nats' \in Seq(NATRecords) /\ Len(nats') = Len(before) + Len(behind)
        BY <4>1, <4>3, <4>4, ConcatProperties
      <4>6. Len(nats') <= MaxNAT
        BY <1>3, <4>2, <4>3, <4>4, <4>5 DEF n
      <4> QED
        BY <4>5, <4>6 DEF NATsFormed, NATRecords, NATFormed
    <3> QED
      BY <3>1, <3>2
  <2> QED
    BY <2>1, <2>2
<1>5. screen'.type \in {"Success.", "deleted"}
  BY DEF AddNATRule, DeleteNATRule, Says
<1>6. ScreenFormed'
  BY <1>5 DEF ScreenFormed
<1> QED
  BY <1>2, <1>4, <1>5, <1>6, AnsweredFormed

\* The listings show the lists as they are.
LEMMA ListingsFormed ==
    ASSUME ClientInv, Answered, ProcessKernelAnswer
    PROVE  ClientInv'
<1>1. UNCHANGED <<word, rules, nats, logs, conns>> /\ screen' = Listing
  BY DEF ProcessKernelAnswer, lists, Answered
<1>2. RulesFormed' /\ NATsFormed' /\ TrafficFormed'
  BY <1>1 DEF ClientInv, RulesFormed, NATsFormed, TrafficFormed
<1>3. ScreenFormed' /\ screen'.type # "WRONG_IP"
  <2>1. CASE request.type = "REQ_GETAllIPRules"
    <3>1. screen' = [type |-> "RSP_IPRules", rows |-> [i \in DOMAIN rules |-> ShowRule(rules[i], i - 1)]]
      BY <1>1, <2>1 DEF Listing
    <3>2. /\ screen'.type = "RSP_IPRules" /\ DOMAIN screen'.rows = DOMAIN rules
          /\ \A i \in DOMAIN rules : screen'.rows[i] = ShowRule(rules[i], i - 1)
      BY <3>1, Zenon
    <3> QED
      BY <1>1, <3>2 DEF ScreenFormed, ShowRule
  <2>2. CASE request.type = "REQ_GETNATRules"
    <3>1. screen' = [type |-> "RSP_NATRules", rows |-> [i \in DOMAIN nats |-> ShowNATRule(nats[i], i - 1)]]
      BY <1>1, <2>2 DEF Listing
    <3>2. /\ screen'.type = "RSP_NATRules" /\ DOMAIN screen'.rows = DOMAIN nats
          /\ \A i \in DOMAIN nats : screen'.rows[i] = ShowNATRule(nats[i], i - 1)
      BY <3>1, Zenon
    <3> QED
      BY <1>1, <3>2 DEF ScreenFormed, ShowNATRule
  <2>3. CASE request.type = "REQ_GETAllIPLogs"
    <3>1. screen' = [type |-> "RSP_IPLogs", rows |-> [i \in DOMAIN logs |-> ShowLog(logs[i], i - 1)]]
      BY <1>1, <2>3 DEF Listing
    <3>2. /\ screen'.type = "RSP_IPLogs" /\ DOMAIN screen'.rows = DOMAIN logs
          /\ \A i \in DOMAIN logs : screen'.rows[i] = ShowLog(logs[i], i - 1)
      BY <3>1, Zenon
    <3> QED
      BY <1>1, <3>2 DEF ScreenFormed, ShowLog
  <2>4. CASE request.type = "REQ_GETAllConns"
    <3>1. screen' = [type |-> "RSP_ConnLogs", rows |-> [i \in DOMAIN conns |-> ShowConn(conns[i], i - 1)]]
      BY <1>1, <2>4 DEF Listing
    <3>2. /\ screen'.type = "RSP_ConnLogs" /\ DOMAIN screen'.rows = DOMAIN conns
          /\ \A i \in DOMAIN conns : screen'.rows[i] = ShowConn(conns[i], i - 1)
      BY <3>1, Zenon
    <3> QED
      BY <1>1, <3>2 DEF ScreenFormed, ShowConn
  <2>5. CASE request.type = "REQ_SETAction"
    <3>1. screen'.type = "RSP_MSG"
      BY <1>1, <2>5 DEF Listing
    <3> QED
      BY <3>1 DEF ScreenFormed
  <2> QED
    BY <2>1, <2>2, <2>3, <2>4, <2>5 DEF ProcessKernelAnswer
<1> QED
  BY <1>2, <1>3, AnsweredFormed

\* The client is interrupted, or there is traffic: what was shown remains of the lists.
LEMMA RestFormed == ClientInv /\ (Interrupted \/ AddLog \/ AddConn \/ UNCHANGED clientVars) => ClientInv'
<1> SUFFICES ASSUME ClientInv, Interrupted \/ AddLog \/ AddConn \/ UNCHANGED clientVars
             PROVE  ClientInv'
  OBVIOUS
<1>1. CASE Interrupted
  <2>1. /\ at' = "shell" /\ request' = Nothing /\ screen'.type = "nothing"
        /\ UNCHANGED <<word, rules, nats, logs, conns>>
    BY <1>1 DEF Interrupted, lists, Nothing
  <2>2. MessageFormed(Nothing)
    BY DEF MessageFormed, Nothing
  <2>3. RequestFormed'
    BY <2>1, <2>2 DEF ClientInv, RequestFormed, MessageFormed
  <2>4. RulesFormed' /\ NATsFormed' /\ TrafficFormed'
    BY <2>1 DEF ClientInv, RulesFormed, NATsFormed, TrafficFormed
  <2>5. ScreenFormed' /\ WordsFormed' /\ NothingAnswered'
    BY <2>1 DEF ClientInv, ScreenFormed, WordsFormed, NothingAnswered
  <2> QED
    BY <2>3, <2>4, <2>5 DEF ClientInv
<1>2. CASE AddLog
  <2>1. UNCHANGED <<word, at, typed, request, rules, nats, conns, screen>> /\ logs = <<>>
    BY <1>2 DEF AddLog
  <2>2. PICK p \in Packet, action \in {0, 1} : logs' = <<LogItem(p, action)>>
    BY <1>2 DEF AddLog
  <2>3. RequestFormed' /\ RulesFormed' /\ NATsFormed' /\ WordsFormed' /\ NothingAnswered'
    BY <2>1 DEF ClientInv, RequestFormed, RulesFormed, NATsFormed, WordsFormed, NothingAnswered
  <2>4. logs' = <<logs'[1]>> /\ logs'[1] = LogItem(p, action)
    BY <2>2
  <2>5. TrafficFormed'
    BY <2>1, <2>4 DEF ClientInv, TrafficFormed
  <2>6. DOMAIN logs = {}
    BY <2>1
  <2>7. ScreenFormed'
    BY <2>1, <2>6 DEF ClientInv, ScreenFormed, ShowRule, ShowNATRule, ShowConn
  <2> QED
    BY <2>3, <2>5, <2>7 DEF ClientInv
<1>3. CASE AddConn
  <2>1. UNCHANGED <<word, at, typed, request, rules, nats, logs, screen>>
    BY <1>3 DEF AddConn
  <2>2. PICK p \in Packet : conns' = Append(conns, p)
    BY <1>3 DEF AddConn
  <2>3. RequestFormed' /\ RulesFormed' /\ NATsFormed' /\ WordsFormed' /\ NothingAnswered'
    BY <2>1 DEF ClientInv, RequestFormed, RulesFormed, NATsFormed, WordsFormed, NothingAnswered
  <2>4. conns \in Seq(Packet) /\ Len(conns) \in Nat /\ DOMAIN conns = 1..Len(conns)
    BY LenProperties DEF ClientInv, TrafficFormed
  <2>5. /\ conns' \in Seq(Packet) /\ DOMAIN conns \subseteq DOMAIN conns'
        /\ \A i \in DOMAIN conns : conns'[i] = conns[i]
    BY <2>2, <2>4, AppendProperties, LenProperties
  <2>6. TrafficFormed'
    BY <2>1, <2>5 DEF ClientInv, TrafficFormed
  <2>7. ScreenFormed'
    BY <2>1, <2>5 DEF ClientInv, ScreenFormed, ShowRule, ShowNATRule, ShowLog, ShowConn
  <2> QED
    BY <2>3, <2>6, <2>7 DEF ClientInv
<1>4. CASE UNCHANGED clientVars
  <2>1. UNCHANGED <<word, at, typed, request, rules, nats, logs, conns, screen>>
    BY <1>4 DEF clientVars
  <2>2. RequestFormed' /\ RulesFormed' /\ NATsFormed' /\ TrafficFormed' /\ WordsFormed' /\ NothingAnswered'
    BY <2>1 DEF ClientInv, RequestFormed, RulesFormed, NATsFormed, TrafficFormed, WordsFormed, NothingAnswered
  <2>3. ScreenFormed'
    BY <2>1 DEF ClientInv, ScreenFormed, ShowRule, ShowNATRule, ShowLog, ShowConn
  <2> QED
    BY <2>2, <2>3 DEF ClientInv
<1> QED
  BY <1>1, <1>2, <1>3, <1>4

\* The client's invariant.
LEMMA ClientInvariant == ClientSpec => []ClientInv
<1>1. ClientInv /\ [ClientNext]_clientVars => ClientInv'
  <2> SUFFICES ASSUME ClientInv, [ClientNext]_clientVars PROVE ClientInv'
    OBVIOUS
  <2>1. CASE RuleAdd
    BY <2>1, RuleAddFormed
  <2>2. CASE NATAdd
    BY <2>2, NATAddFormed
  <2>3. CASE RuleDel \/ RuleDefault \/ NATDel \/ Show \/ WrongCommand
    BY <2>3, OthersFormed
  <2>4. CASE Answered
    BY <2>4, RulesAnswered, NATsAnswered, ListingsFormed DEF Answered
  <2>5. CASE Interrupted \/ AddLog \/ AddConn \/ UNCHANGED clientVars
    BY <2>5, RestFormed
  <2> QED
    BY <2>1, <2>2, <2>3, <2>4, <2>5 DEF ClientNext
<1> QED
  BY <1>1, ClientStarts, PTL DEF ClientSpec

--------------------------------------------------------------------------------
(* What the invariant says of a rule *)

\* A filter rule holds what was typed, in the client's way.
LEMMA FormedRule ==
    ASSUME NEW r, RuleFormed(r)
    PROVE  /\ r.as.src \in AddressText /\ AddressOK(r.as.src)
           /\ r.as.dst \in AddressText /\ AddressOK(r.as.dst)
           /\ r.as.sport \in PortText /\ r.sport \in Ports(r.as.sport, Junk) /\ PortsOK(r.sport)
           /\ r.as.dport \in PortText /\ r.dport \in Ports(r.as.dport, Junk) /\ PortsOK(r.dport)
           /\ r.as.name.len \in 1..MAXRuleNameLen /\ r.name \in Names(r.as.name)
           /\ r.saddr = Address(r.as.src) /\ r.smask = Mask(r.as.src)
           /\ r.daddr = Address(r.as.dst) /\ r.dmask = Mask(r.as.dst)
           /\ r.protocol = r.as.protocol /\ r.action = r.as.action /\ r.log = r.as.log
<1>1. PICK t \in TypedRule : \E sport \in Ports(t.sport, Junk), dport \in Ports(t.dport, Junk),
                               name \in Names(t.name) :
          /\ r = FilterRule(t, name, sport, dport)
          /\ ~BadAnswer(t, sport, dport) /\ AddressOK(t.src) /\ AddressOK(t.dst)
  BY Zenon DEF RuleFormed
<1>2. PICK sport \in Ports(t.sport, Junk), dport \in Ports(t.dport, Junk), name \in Names(t.name) :
          /\ r = FilterRule(t, name, sport, dport)
          /\ ~BadAnswer(t, sport, dport) /\ AddressOK(t.src) /\ AddressOK(t.dst)
  BY <1>1, Zenon
<1>3. /\ r.as = t /\ r.name = name /\ r.sport = sport /\ r.dport = dport
      /\ r.saddr = Address(t.src) /\ r.smask = Mask(t.src)
      /\ r.daddr = Address(t.dst) /\ r.dmask = Mask(t.dst)
      /\ r.protocol = t.protocol /\ r.action = t.action /\ r.log = t.log
  BY <1>2 DEF FilterRule
<1>4. PortsOK(sport) /\ PortsOK(dport) /\ t.name.len \in 1..MAXRuleNameLen
  BY <1>2 DEF BadAnswer
<1>5. t.src \in AddressText /\ t.dst \in AddressText /\ t.sport \in PortText /\ t.dport \in PortText
  BY ClientAssumption
<1> QED
  BY <1>2, <1>3, <1>4, <1>5

\* So does a NAT rule.
LEMMA FormedNAT ==
    ASSUME NEW r \in NATRecords
    PROVE  /\ r.as.src \in AddressText /\ AddressOK(r.as.src)
           /\ r.as.nat \in AddressText /\ AddressOK(r.as.nat)
           /\ r.as.ports \in PortText /\ <<r.sport, r.dport>> \in Ports(r.as.ports, Junk)
           /\ PortsOK(<<r.sport, r.dport>>)
           /\ r.saddr = Address(r.as.src) /\ r.smask = Mask(r.as.src) /\ r.daddr = Address(r.as.nat)
<1>1. NATFormed(r)
  BY DEF NATRecords
<1>2. PICK t \in TypedNAT : \E ports \in Ports(t.ports, Junk) :
          r = NATRecord(t, ports) /\ PortsOK(ports) /\ AddressOK(t.nat) /\ AddressOK(t.src)
  BY <1>1, Zenon DEF NATFormed
<1>3. PICK ports \in Ports(t.ports, Junk) :
          r = NATRecord(t, ports) /\ PortsOK(ports) /\ AddressOK(t.nat) /\ AddressOK(t.src)
  BY <1>2, Zenon
<1>4. t.src \in AddressText /\ t.nat \in AddressText /\ t.ports \in PortText
  BY ClientAssumption
<1>5. ports = <<ports[1], ports[2]>>
  BY <1>4, PortsTyped
<1>6. /\ r.as = t /\ r.sport = ports[1] /\ r.dport = ports[2]
      /\ r.saddr = Address(t.src) /\ r.smask = Mask(t.src) /\ r.daddr = Address(t.nat)
  BY <1>3 DEF NATRecord
<1> QED
  BY <1>3, <1>4, <1>5, <1>6

\* Whatever is typed, what the client holds and the kernel keeps is of its type.
THEOREM ClientTyped == ClientSpec => []ClientTypeOK
<1>1. ClientInv => ClientTypeOK
  <2> SUFFICES ASSUME ClientInv PROVE ClientTypeOK
    OBVIOUS
  <2>1. at \in {"shell", "asking"} /\ word \in Words /\ (at = "asking" <=> request # Nothing)
    BY DEF ClientInv, RequestFormed
  <2>2. Len(rules) <= 1 /\ \A i \in DOMAIN rules : RuleFormed(rules[i])
    <3>1. CASE rules = <<>>
      BY <3>1
    <3>2. CASE rules = <<rules[1]>> /\ RuleFormed(rules[1])
      <4>1. DOMAIN rules = {1} /\ Len(rules) = 1
        BY <3>2
      <4> QED
        BY <3>2, <4>1
    <3> QED
      BY <3>1, <3>2 DEF ClientInv, RulesFormed
  <2>3. ASSUME NEW i \in DOMAIN rules
        PROVE  /\ rules[i].as.name.len \in 1..MAXRuleNameLen
               /\ rules[i].saddr \in [1..4 -> 0..255]
               /\ rules[i].daddr \in [1..4 -> 0..255]
               /\ PortsOK(rules[i].sport) /\ PortsOK(rules[i].dport)
    <3> DEFINE r == rules[i]
    <3>1. RuleFormed(r)
      BY <2>2
    <3> HIDE DEF r
    <3>2. r.saddr \in Bytes /\ r.daddr \in Bytes
      BY <3>1, FormedRule, AddressIsBytes
    <3> QED
      BY <3>1, <3>2, FormedRule DEF Bytes, r
  <2>4. nats \in Seq(NATRecords) /\ Len(nats) <= MaxNAT
    BY DEF ClientInv, NATsFormed
  <2>5. ASSUME NEW i \in DOMAIN nats PROVE nats[i].sport \in 0..nats[i].dport
    <3> DEFINE r == nats[i]
               ports == <<r.sport, r.dport>>
    <3>1. r \in NATRecords
      BY <2>4, ElementOfSeq, LenProperties
    <3> HIDE DEF r
    <3>2. ports \in Ports(r.as.ports, Junk) /\ PortsOK(ports) /\ r.as.ports \in PortText
      BY <3>1, FormedNAT
    <3>3. ports[1] \in 0..USHRT_MAX /\ ports[2] \in 0..USHRT_MAX /\ ports[1] <= ports[2]
      BY <3>2, PortsTyped DEF PortsOK
    <3>4. r.sport \in 0..r.dport
      BY <3>3, ShortLimit
    <3> QED
      BY <3>4 DEF r
  <2> QED
    BY <2>1, <2>2, <2>3, <2>4, <2>5 DEF ClientTypeOK
<1> QED
  BY <1>1, ClientInvariant, PTL

\* Whatever is typed, a request for a rule holds just that in the client's order of the
\* members, and no address that is written as it should be is refused.
THEOREM RequestsAreTyped == ClientSpec => []RequestAsTyped
<1>1. ClientInv => RequestAsTyped
  <2> SUFFICES ASSUME ClientInv PROVE RequestAsTyped
    OBVIOUS
  <2>1. ASSUME request.type = "REQ_ADDIPRule", NEW r, r = request.rule
        PROVE  /\ HoldsAddress(r.as.src, r.saddr, r.smask) /\ HoldsAddress(r.as.dst, r.daddr, r.dmask)
               /\ HoldsPorts(r.as.sport, r.sport) /\ HoldsPorts(r.as.dport, r.dport)
    <3>1. RuleFormed(r)
      BY <2>1 DEF ClientInv, RequestFormed, MessageFormed
    <3>2. HoldsPorts(r.as.sport, r.sport) /\ HoldsPorts(r.as.dport, r.dport)
      BY <3>1, FormedRule, PortsHeld
    <3>3. HoldsAddress(r.as.src, r.saddr, r.smask) /\ HoldsAddress(r.as.dst, r.daddr, r.dmask)
      BY <3>1, FormedRule, AddressHeld
    <3> QED
      BY <3>2, <3>3
  <2>2. ASSUME request.type = "REQ_ADDNATRule", NEW r, r = request.natRule
        PROVE  /\ HoldsAddress(r.as.src, r.saddr, r.smask)
               /\ HoldsPorts(r.as.ports, <<r.sport, r.dport>>)
    <3>1. r \in NATRecords
      BY <2>2 DEF ClientInv, RequestFormed, MessageFormed
    <3> QED
      BY <3>1, FormedNAT, AddressHeld, PortsHeld
  <2>3. ASSUME screen.type = "WRONG_IP"
        PROVE  \E f \in {"src", "dst", "nat"} \cap DOMAIN typed : ~Quad(typed[f]) \/ typed[f].mask > 32
    <3>1. PICK f \in {"src", "dst", "nat"} \cap DOMAIN typed :
              typed[f] \in AddressText /\ ~AddressOK(typed[f])
      BY <2>3 DEF ClientInv, WordsFormed, WrongAddress
    <3> QED
      BY <3>1, QuadTaken
  <2> QED
    BY <2>1, <2>2, <2>3 DEF RequestAsTyped
<1> QED
  BY <1>1, ClientInvariant, PTL

\* On a 32-bit build the kernel has its addresses, their masks and the source's ports each
\* where the client has the member that follows it in the client's order.
LEMMA RuleHeard ==
    ASSUME NEW r, word = 4
    PROVE  /\ Heard(r, "saddr") = r.smask /\ Heard(r, "smask") = r.daddr
           /\ Heard(r, "sport") = r.dmask
           /\ Heard(r, "daddr") = RangeBytes(r.sport) /\ Heard(r, "dmask") = RangeBytes(r.dport)
<1> DEFINE k == KernelFWRule(4)
           w == ClientFWRule(4)
           Others == {"name", "saddr", "smask", "daddr", "dmask", "sport", "dport", "protocol", "action", "log"}
<1>1. Members(w) = Others
  BY RuleKept
<1>2. ASSUME NEW f, NEW g \in Others, NEW a \in Nat, Extent(k, f) = Span(a, 4), Extent(w, g) = Span(a, 4),
             \A h \in Others \ {g} :
                 \E b \in Nat, m \in Nat \ {0} : Extent(w, h) = Span(b, m) /\ b # a
      PROVE  Heard(r, f) = FourBytes(r, g)
  <2>1. \A h \in Others \ {g} : Extent(w, h) # Extent(k, f)
    BY <1>2, SpanFacts
  <2>2. InPlaceOf(k, w, f) = {g}
    BY <1>1, <1>2, <2>1 DEF InPlaceOf
  <2>3. (CHOOSE h \in InPlaceOf(k, w, f) : TRUE) = g
    BY <2>2
  <2> QED
    BY <2>3 DEF Heard
<1> DEFINE At(h, b, m) == Extent(w, h) = Span(b, m)
<1>3. /\ At("name", 0, 12) /\ At("saddr", 12, 4) /\ At("smask", 16, 4) /\ At("daddr", 20, 4)
      /\ At("dmask", 24, 4) /\ At("sport", 28, 4) /\ At("dport", 32, 4) /\ At("protocol", 36, 1)
      /\ At("action", 40, 4) /\ At("log", 44, 4)
  BY ClientRule32
<1>4. /\ Extent(k, "saddr") = Span(16, 4) /\ Extent(k, "smask") = Span(20, 4)
      /\ Extent(k, "sport") = Span(24, 4) /\ Extent(k, "daddr") = Span(28, 4)
      /\ Extent(k, "dmask") = Span(32, 4)
  BY KernelRule32
<1> DEFINE start == [h \in Others |->
               CASE h = "name" -> 0 [] h = "saddr" -> 12 [] h = "smask" -> 16 [] h = "daddr" -> 20
                 [] h = "dmask" -> 24 [] h = "sport" -> 28 [] h = "dport" -> 32
                 [] h = "protocol" -> 36 [] h = "action" -> 40 [] h = "log" -> 44]
<1>5. \A h \in Others : start[h] \in Nat /\ \E m \in Nat \ {0} : At(h, start[h], m)
  <2> HIDE DEF At
  <2>1. /\ start["name"] = 0 /\ start["saddr"] = 12 /\ start["smask"] = 16 /\ start["daddr"] = 20
        /\ start["dmask"] = 24 /\ start["sport"] = 28 /\ start["dport"] = 32
        /\ start["protocol"] = 36 /\ start["action"] = 40 /\ start["log"] = 44
    OBVIOUS
  <2> HIDE DEF start
  <2> QED
    BY <1>3, <2>1
<1>6. \A h, g \in Others : h # g => start[h] # start[g]
  OBVIOUS
<1>7. start["smask"] = 16 /\ start["daddr"] = 20 /\ start["dmask"] = 24 /\ start["sport"] = 28 /\ start["dport"] = 32
  OBVIOUS
<1> HIDE DEF start
<1>8. \A g \in Others : \A h \in Others \ {g} :
          \E b \in Nat, m \in Nat \ {0} : Extent(w, h) = Span(b, m) /\ b # start[g]
  BY <1>5, <1>6
<1> HIDE DEF Others
<1>9. Heard(r, "saddr") = FourBytes(r, "smask") /\ Heard(r, "smask") = FourBytes(r, "daddr")
  BY <1>2, <1>3, <1>4, <1>7, <1>8 DEF Others
<1>10. Heard(r, "sport") = FourBytes(r, "dmask")
  BY <1>2, <1>3, <1>4, <1>7, <1>8 DEF Others
<1>11. Heard(r, "daddr") = FourBytes(r, "sport") /\ Heard(r, "dmask") = FourBytes(r, "dport")
  BY <1>2, <1>3, <1>4, <1>7, <1>8 DEF Others
<1> QED
  BY <1>9, <1>10, <1>11 DEF FourBytes

\* Whatever is typed, the kernel hears the mask of the destination as source ports, compares
\* a source with the mask of the source, and a destination with the ports.
THEOREM RulesAreMisheard == ClientSpec => []HeardOtherwise
<1>1. ASSUME ClientInv, request.type = "REQ_ADDIPRule", Taken, NEW r, r = request.rule
      PROVE  LET src == r.as.src
                 dst == r.as.dst
             IN /\ \A p \in Junk : SportMatched(r, p) <=> \/ (Prefix(dst) = 0 /\ p = 0)
                                                         \/ (Prefix(dst) = 32 /\ p = USHRT_MAX)
                /\ Quad(src) /\ Quad(dst) =>
                       \A a \in Probe : SourceMatched(r, a) <=>
                           \A j \in 1..32 : Bit(dst.octets, j) = 1 =>
                                                Bit(a, j) = IF j <= Prefix(src) THEN 1 ELSE 0
                /\ r.as.sport.kind = "any" /\ r.as.dport.kind = "any" =>
                       \A a \in Probe : DestMatched(r, a) <=> \A j \in 17..32 : Bit(a, j) = 1
  <2> DEFINE src == r.as.src
             dst == r.as.dst
  <2>1. word = 4
    BY <1>1, ShortBuildsAre, ClientAssumption DEF ClientInv, RequestFormed, Taken
  <2>2. RuleFormed(r)
    BY <1>1 DEF ClientInv, RequestFormed, MessageFormed
  <2>3. /\ src \in AddressText /\ AddressOK(src) /\ dst \in AddressText /\ AddressOK(dst)
        /\ r.smask = Mask(src) /\ r.daddr = Address(dst) /\ r.dmask = Mask(dst)
    BY <2>2, FormedRule
  <2> HIDE DEF src, dst
  <2>4. ASSUME NEW p \in Junk
        PROVE  SportMatched(r, p) <=> \/ (Prefix(dst) = 0 /\ p = 0)
                                      \/ (Prefix(dst) = 32 /\ p = USHRT_MAX)
    <3> DEFINE n == Prefix(dst)
               range == BytesRange(Ones(n))
    <3>1. n \in 0..32 /\ Heard(r, "sport") = Ones(n)
      BY <2>1, <2>3, PrefixIs, RuleHeard
    <3>2. range = <<range[1], range[2]>>
      BY DEF BytesRange
    <3> HIDE DEF n, range
    <3>3. /\ range[1] \in Nat /\ range[2] \in Nat
          /\ n = 0 => range[1] = 0 /\ range[2] = 0
          /\ n = 32 => range[1] = USHRT_MAX /\ range[2] = USHRT_MAX
          /\ n \in 1..31 => range[1] > range[2]
      BY <3>1, <3>2, HalvesOfMask DEF range
    <3>4. SportMatched(r, p) <=> range[1] <= p /\ p <= range[2]
      BY <3>1 DEF SportMatched, PortMatched, range
    <3>5. p \in Nat /\ p <= USHRT_MAX
      BY ClientAssumption, ShortLimit
    <3>6. n = 0 \/ n = 32 \/ n \in 1..31
      BY <3>1
    <3>7. SportMatched(r, p) <=> (n = 0 /\ p = 0) \/ (n = 32 /\ p = USHRT_MAX)
      BY <3>3, <3>4, <3>5, <3>6, ShortLimit
    <3> QED
      BY <3>7 DEF n
  <2>5. ASSUME Quad(src), Quad(dst), NEW a \in Probe
        PROVE  SourceMatched(r, a) <=>
                   \A j \in 1..32 : Bit(dst.octets, j) = 1 =>
                                        Bit(a, j) = IF j <= Prefix(src) THEN 1 ELSE 0
    <3>1. Heard(r, "saddr") = Mask(src) /\ Heard(r, "smask") = dst.octets
      BY <2>1, <2>3, <2>5, QuadIsAddress, RuleHeard
    <3>2. \A j \in 1..32 : Bit(Mask(src), j) = IF j <= Prefix(src) THEN 1 ELSE 0
      BY <2>3, PrefixIs, OnesBits
    <3> QED
      BY <3>1, <3>2 DEF SourceMatched, ipcmp
  <2>6. ASSUME r.as.sport.kind = "any", r.as.dport.kind = "any", NEW a \in Probe
        PROVE  DestMatched(r, a) <=> \A j \in 17..32 : Bit(a, j) = 1
    <3>1. r.sport = <<0, USHRT_MAX>> /\ r.dport = <<0, USHRT_MAX>>
      BY <2>2, <2>6, FormedRule, PortsTyped
    <3>2. RangeBytes(<<0, USHRT_MAX>>) = <<0, 0, 255, 255>>
      BY DEF RangeBytes, USHRT_MAX
    <3>3. Heard(r, "daddr") = <<0, 0, 255, 255>> /\ Heard(r, "dmask") = <<0, 0, 255, 255>>
      BY <2>1, <3>1, <3>2, RuleHeard
    <3>4. \A j \in 1..32 : Bit(<<0, 0, 255, 255>>, j) = IF j >= 17 THEN 1 ELSE 0
      BY AnyBits
    <3> QED
      BY <3>3, <3>4 DEF DestMatched, ipcmp
  <2> QED
    BY <2>4, <2>5, <2>6 DEF src, dst
<1>2. ClientInv => HeardOtherwise
  BY <1>1 DEF HeardOtherwise
<1> QED
  BY <1>2, ClientInvariant, PTL

--------------------------------------------------------------------------------
(* The listings *)

\* A column all of whose members are readable shows them; one of which some are not shows
\* something else.
LEMMA ColumnShown ==
    ASSUME NEW row, NEW readable, NEW c \in DOMAIN row
    PROVE  /\ row[c][2] \subseteq readable => Columns(row, readable)[c] = <<row[c][1]>>
           /\ ~(row[c][2] \subseteq readable) => Columns(row, readable)[c] = Unreadable
  BY DEF Columns

\* A filter rule is listed as it was typed but for its source.
LEMMA RuleListed ==
    ASSUME NEW r, RuleFormed(r), NEW i \in Nat, word = 4
    PROVE  LET row == ShowRule(r, i)
               t == r.as
           IN /\ row.src = Unreadable
              /\ NameShown(t.name, row.name)
              /\ Quad(t.dst) /\ t.dst.mask \in 1..32 => row.dst = <<t.dst>>
              /\ t.sport.kind = "any" \/ ShortRange(t.sport) => row.sport = <<ShownAs(t.sport)>>
              /\ t.dport.kind = "any" \/ ShortRange(t.dport) => row.dport = <<ShownAs(t.dport)>>
              /\ row.protocol = <<t.protocol>>
              /\ t.action \in {0, 1} => row.action = <<t.action>>
              /\ t.log \in {0, 1} => row.log = <<t.log>>
<1> DEFINE k == KernelFWRule(4)
           w == ClientFWRule(4)
           kept == Kept(k, w, i)
           src == <<ShowAddress(r.saddr, r.smask), {"saddr", "smask"}>>
           dst == <<ShowAddress(r.daddr, r.dmask), {"daddr", "dmask"}>>
           sport == <<ShowPorts(r.sport), {"sport"}>>
           dport == <<ShowPorts(r.dport), {"dport"}>>
           action == <<IF r.action \in {0, 1} THEN r.action ELSE 2, {"action"}>>
           log == <<IF r.log = 0 THEN 0 ELSE 1, {"log"}>>
           row == [name |-> <<r.name, {"name"}>>, src |-> src, dst |-> dst, sport |-> sport,
                   dport |-> dport, protocol |-> <<r.protocol, {"protocol"}>>, action |-> action, log |-> log]
<1>1. kept = {"name", "smask", "daddr", "dmask", "sport", "dport", "protocol", "action", "log"}
  BY RuleKept
<1>2. ShowRule(r, i) = Columns(row, kept)
  BY DEF ShowRule
<1>3. /\ DOMAIN row = {"name", "src", "dst", "sport", "dport", "protocol", "action", "log"}
      /\ row["name"] = <<r.name, {"name"}>> /\ row["src"] = src /\ row["dst"] = dst
      /\ row["sport"] = sport /\ row["dport"] = dport /\ row["protocol"] = <<r.protocol, {"protocol"}>>
      /\ row["action"] = action /\ row["log"] = log
  OBVIOUS
<1> HIDE DEF kept, row
<1> DEFINE shown == Columns(row, kept)
<1>4. shown["src"] = Unreadable
  <2>1. src[2] = {"saddr", "smask"}
    OBVIOUS
  <2> HIDE DEF src
  <2>2. ~(row["src"][2] \subseteq kept) /\ "src" \in DOMAIN row
    BY <1>1, <1>3, <2>1
  <2> QED
    BY <2>2, ColumnShown
<1>5. /\ shown["name"] = <<r.name>> /\ shown["protocol"] = <<r.protocol>>
      /\ shown["dst"] = <<dst[1]>> /\ shown["sport"] = <<sport[1]>> /\ shown["dport"] = <<dport[1]>>
      /\ shown["action"] = <<action[1]>> /\ shown["log"] = <<log[1]>>
  <2>1. /\ dst[2] = {"daddr", "dmask"} /\ sport[2] = {"sport"} /\ dport[2] = {"dport"}
        /\ action[2] = {"action"} /\ log[2] = {"log"}
    OBVIOUS
  <2> HIDE DEF dst, sport, dport, action, log
  <2>2. \A c \in {"name", "protocol", "dst", "sport", "dport", "action", "log"} :
            row[c][2] \subseteq kept /\ c \in DOMAIN row
    BY <1>1, <1>3, <2>1
  <2>3. \A c \in {"name", "protocol", "dst", "sport", "dport", "action", "log"} : shown[c] = <<row[c][1]>>
    BY <2>2, ColumnShown
  <2> QED
    BY <1>3, <2>3
<1> DEFINE t == r.as
<1>6. NameShown(t.name, <<r.name>>)
  <2>1. r.name \in Names(t.name)
    BY FormedRule
  <2> QED
    BY <2>1 DEF Names, NameShown
<1>7. ASSUME Quad(t.dst), t.dst.mask \in 1..32 PROVE dst[1] = t.dst
  BY <1>7, FormedRule, AddressHeld DEF HoldsAddress
<1>8. /\ t.sport.kind = "any" \/ ShortRange(t.sport) => sport[1] = ShownAs(t.sport)
      /\ t.dport.kind = "any" \/ ShortRange(t.dport) => dport[1] = ShownAs(t.dport)
  BY FormedRule, PortsShown
<1>9. /\ t.action \in {0, 1} => action[1] = t.action
      /\ t.log \in {0, 1} => log[1] = t.log
      /\ r.protocol = t.protocol
  BY FormedRule
<1> HIDE DEF dst, sport, dport, action, log
<1>10. shown = ShowRule(r, i)
  BY <1>2
<1> HIDE DEF shown
<1> QED
  BY <1>4, <1>5, <1>6, <1>7, <1>8, <1>9, <1>10

\* The first NAT rule is listed as it was typed, the rows behind it are not.
LEMMA NATListed ==
    ASSUME NEW r \in NATRecords, NEW i \in Nat, word = 4
    PROVE  LET row == ShowNATRule(r, i)
               t == r.as
           IN IF i = 0
              THEN /\ Quad(t.src) /\ t.src.mask \in 1..32 => row.src = <<t.src>>
                   /\ Quad(t.nat) => row.nat = <<t.nat.octets>>
                   /\ ShortRange(t.ports) => row.ports = <<<<t.ports.lo, t.ports.hi>>>>
              ELSE \A c \in DOMAIN row : row[c] = Unreadable
<1> DEFINE kept == Kept(KernelNATRule(4), ClientNATRecord(4), i)
           src == <<ShowAddress(r.saddr, r.smask), {"saddr", "smask"}>>
           ports == <<<<r.sport, r.dport>>, {"sport", "dport"}>>
           row == [src |-> src, nat |-> <<r.daddr, {"daddr"}>>, ports |-> ports]
           shown == Columns(row, kept)
           t == r.as
<1>1. ShowNATRule(r, i) = shown
  BY DEF ShowNATRule
<1>2. /\ DOMAIN row = {"src", "nat", "ports"} /\ DOMAIN shown = DOMAIN row
      /\ row["src"] = src /\ row["nat"] = <<r.daddr, {"daddr"}>> /\ row["ports"] = ports
      /\ src[2] = {"saddr", "smask"} /\ ports[2] = {"sport", "dport"}
      /\ src[1] = ShowAddress(r.saddr, r.smask) /\ ports[1] = <<r.sport, r.dport>>
  BY DEF Columns
<1>3. /\ i = 0 => {"saddr", "smask", "daddr", "sport", "dport"} \subseteq kept
      /\ i # 0 => kept = {}
  BY NATKept
<1> HIDE DEF kept, row, src, ports
<1>4. CASE i = 0
  <2>1. \A c \in {"src", "nat", "ports"} : row[c][2] \subseteq kept
    BY <1>2, <1>3, <1>4
  <2>2. \A c \in {"src", "nat", "ports"} : shown[c] = <<row[c][1]>>
    BY <1>2, <2>1, ColumnShown
  <2> HIDE DEF shown
  <2>3. shown.src = <<src[1]>> /\ shown.nat = <<r.daddr>> /\ shown.ports = <<ports[1]>>
    BY <1>2, <2>2
  <2>4. ASSUME Quad(t.src), t.src.mask \in 1..32 PROVE src[1] = t.src
    BY <1>2, <2>4, FormedNAT, AddressHeld DEF HoldsAddress
  <2>5. ASSUME Quad(t.nat) PROVE r.daddr = t.nat.octets
    BY <2>5, FormedNAT, QuadIsAddress
  <2>6. ASSUME ShortRange(t.ports) PROVE ports[1] = <<t.ports.lo, t.ports.hi>>
    BY <1>2, <2>6, FormedNAT, PortsShown
  <2> QED
    BY <1>1, <1>4, <2>3, <2>4, <2>5, <2>6
<1>5. CASE i # 0
  <2>1. \A c \in DOMAIN row : ~(row[c][2] \subseteq kept)
    BY <1>2, <1>3, <1>5
  <2>2. \A c \in DOMAIN shown : shown[c] = Unreadable
    BY <1>2, <2>1, ColumnShown
  <2> HIDE DEF shown
  <2> QED
    BY <1>1, <1>5, <2>2
<1> QED
  BY <1>4, <1>5

\* The first connection is listed as it is, the rows behind it are not.
LEMMA ConnListed ==
    ASSUME NEW p, NEW i \in Nat, word = 4
    PROVE  LET row == ShowConn(p, i)
           IN IF i = 0
              THEN /\ row.src = <<WithPort(p.saddr, p.sport)>> /\ row.dst = <<WithPort(p.daddr, p.dport)>>
                   /\ row.protocol = <<p.protocol>>
              ELSE \A c \in DOMAIN row : row[c] = Unreadable
<1> DEFINE written == Written(ConnLog(KernelNATRule(4)), ConnLog(ClientNATRecord(4)), i)
           src == <<WithPort(p.saddr, p.sport), {"saddr", "sport"}>>
           dst == <<WithPort(p.daddr, p.dport), {"daddr", "dport"}>>
           row == [src |-> src, dst |-> dst, protocol |-> <<p.protocol, {"protocol"}>>]
           shown == Columns(row, written)
<1>1. ShowConn(p, i) = shown
  BY DEF ShowConn
<1>2. /\ DOMAIN row = {"src", "dst", "protocol"} /\ DOMAIN shown = DOMAIN row
      /\ row["src"] = src /\ row["dst"] = dst /\ row["protocol"] = <<p.protocol, {"protocol"}>>
      /\ src[2] = {"saddr", "sport"} /\ dst[2] = {"daddr", "dport"}
      /\ src[1] = WithPort(p.saddr, p.sport) /\ dst[1] = WithPort(p.daddr, p.dport)
  BY DEF Columns
<1>3. /\ i = 0 => {"saddr", "daddr", "sport", "dport", "protocol"} \subseteq written
      /\ i # 0 => written = {}
  BY ConnWritten
<1> HIDE DEF written, row, src, dst
<1>4. CASE i = 0
  <2>1. \A c \in {"src", "dst", "protocol"} : row[c][2] \subseteq written
    BY <1>2, <1>3, <1>4
  <2>2. \A c \in {"src", "dst", "protocol"} : shown[c] = <<row[c][1]>>
    BY <1>2, <2>1, ColumnShown
  <2> HIDE DEF shown
  <2>3. shown.src = <<src[1]>> /\ shown.dst = <<dst[1]>> /\ shown.protocol = <<p.protocol>>
    BY <1>2, <2>2
  <2> QED
    BY <1>1, <1>2, <1>4, <2>3
<1>5. CASE i # 0
  <2>1. \A c \in DOMAIN row : ~(row[c][2] \subseteq written)
    BY <1>2, <1>3, <1>5
  <2>2. \A c \in DOMAIN shown : shown[c] = Unreadable
    BY <1>2, <2>1, ColumnShown
  <2> HIDE DEF shown
  <2> QED
    BY <1>1, <1>5, <2>2
<1> QED
  BY <1>4, <1>5

\* A length in the wrong byte order is right only if both its bytes are the same.
LEMMA Turned ==
    ASSUME NEW n \in Nat, n <= USHRT_MAX, NEW h \in Nat,
           (((n % 256) * 256 + n \div 256) - h) % (USHRT_MAX + 1) = n - h
    PROVE  n % 256 = n \div 256
<1> DEFINE low == n % 256
           high == n \div 256
           x == (low * 256 + high) - h
<1>1. low \in Nat /\ low < 256 /\ high \in Nat /\ n = 256 * high + low
  OBVIOUS
<1>2. n < 65536 /\ x % 65536 = n - h
  BY DEF USHRT_MAX
<1> HIDE DEF low, high
<1>3. x \in Int /\ high < 256
  BY <1>1, <1>2
<1>4. PICK q \in Int : x = 65536 * q + (n - h)
  <2> HIDE DEF x
  <2>1. x = 65536 * (x \div 65536) + (x % 65536) /\ x \div 65536 \in Int
    BY <1>3
  <2> QED
    BY <1>2, <2>1
<1>5. 255 * (low - high) = 65536 * q
  BY <1>1, <1>4
<1>6. q = 0
  BY <1>1, <1>3, <1>5
<1>7. low = high
  BY <1>1, <1>5, <1>6
<1> QED
  BY <1>7 DEF low, high

\* A log record is listed with its action and with its length in the wrong byte order.
LEMMA LogListed ==
    ASSUME NEW p \in Packet, NEW action \in {0, 1}, NEW i \in Nat, word = 4
    PROVE  LET row == ShowLog(LogItem(p, action), i)
           IN /\ row.action = <<action>>
              /\ row.src = Unreadable /\ row.dst = Unreadable /\ row.protocol = Unreadable
              /\ row.len = <<p.tot_len - p.ihl * 4>> => p.tot_len % 256 = p.tot_len \div 256
<1> DEFINE r == LogItem(p, action)
           written == Written(KernelLogItem(4), ClientLogItem(4), i)
           src == <<WithPort(r.saddr, r.sport), {"saddr", "sport"}>>
           dst == <<WithPort(r.daddr, r.dport), {"daddr", "dport"}>>
           row == [src |-> src, dst |-> dst, protocol |-> <<r.protocol, {"protocol"}>>,
                   len |-> <<r.len, {"len"}>>, action |-> <<r.action, {"action"}>>]
           shown == Columns(row, written)
           turned == (((p.tot_len % 256) * 256 + p.tot_len \div 256) - p.ihl * 4) % (USHRT_MAX + 1)
<1>1. r.action = action /\ r.len = turned
  BY DEF LogItem
<1> HIDE DEF r, turned
<1>2. ShowLog(r, i) = shown
  BY DEF ShowLog
<1>3. /\ DOMAIN row = {"src", "dst", "protocol", "len", "action"}
      /\ row["src"] = src /\ row["dst"] = dst /\ row["protocol"] = <<r.protocol, {"protocol"}>>
      /\ row["len"] = <<r.len, {"len"}>> /\ row["action"] = <<r.action, {"action"}>>
      /\ src[2] = {"saddr", "sport"} /\ dst[2] = {"daddr", "dport"}
  OBVIOUS
<1>4. {"len", "action"} \subseteq written /\ written \cap {"sport", "daddr", "protocol"} = {}
  BY LogWritten
<1> HIDE DEF written, row, src, dst
<1>5. /\ \A c \in {"len", "action"} : row[c][2] \subseteq written
      /\ \A c \in {"src", "dst", "protocol"} : ~(row[c][2] \subseteq written)
  BY <1>3, <1>4
<1>6. /\ \A c \in {"len", "action"} : shown[c] = <<row[c][1]>>
      /\ \A c \in {"src", "dst", "protocol"} : shown[c] = Unreadable
  BY <1>3, <1>5, ColumnShown
<1> HIDE DEF shown
<1>7. shown.action = <<action>> /\ shown.len = <<turned>>
  BY <1>1, <1>3, <1>6
<1>8. shown.src = Unreadable /\ shown.dst = Unreadable /\ shown.protocol = Unreadable
  BY <1>6
<1>9. ASSUME turned = p.tot_len - p.ihl * 4 PROVE p.tot_len % 256 = p.tot_len \div 256
  <2>1. p.tot_len \in Nat /\ p.tot_len <= USHRT_MAX /\ p.ihl * 4 \in Nat
    BY ClientAssumption, ShortLimit
  <2> QED
    BY <1>9, <2>1, Turned DEF turned
<1>10. shown.len = <<p.tot_len - p.ihl * 4>> => turned = p.tot_len - p.ihl * 4
  BY <1>7
<1> QED
  BY <1>2, <1>7, <1>8, <1>9, <1>10 DEF r

\* Whatever was typed and whatever traffic there was, a listing shows it so far as the two
\* declarations of the structures agree, and no further.
THEOREM ListingsAreTyped == ClientSpec => []ListedAsTyped
<1>1. ClientInv => ListedAsTyped
  <2> SUFFICES ASSUME ClientInv PROVE ListedAsTyped
    OBVIOUS
  <2>1. word \in {4, 8}
    BY ClientAssumption DEF ClientInv, RequestFormed
  <2>2. screen.type \in {"RSP_IPRules", "RSP_NATRules", "RSP_ConnLogs", "RSP_IPLogs"} => word = 4
    BY <2>1 DEF ClientInv, NothingAnswered
  <2>3. ASSUME screen.type = "RSP_IPRules", NEW i \in DOMAIN screen.rows
        PROVE  LET row == screen.rows[i]
                   t == rules[i].as
               IN /\ row.src = Unreadable
                  /\ NameShown(t.name, row.name)
                  /\ Quad(t.dst) /\ t.dst.mask \in 1..32 => row.dst = <<t.dst>>
                  /\ t.sport.kind = "any" \/ ShortRange(t.sport) => row.sport = <<ShownAs(t.sport)>>
                  /\ t.dport.kind = "any" \/ ShortRange(t.dport) => row.dport = <<ShownAs(t.dport)>>
                  /\ row.protocol = <<t.protocol>>
                  /\ t.action \in {0, 1} => row.action = <<t.action>>
                  /\ t.log \in {0, 1} => row.log = <<t.log>>
                  /\ {f \in Members(ClientFWRule(word)) :
                         Understood(KernelFWRule(word), ClientFWRule(word), f)} = {"name"}
    <3>1. i \in DOMAIN rules /\ screen.rows[i] = ShowRule(rules[i], i - 1)
      BY <2>3 DEF ClientInv, ScreenFormed
    <3>2. rules = <<rules[1]>> /\ RuleFormed(rules[1])
      BY <3>1 DEF ClientInv, RulesFormed
    <3>3. i = 1
      BY <3>1, <3>2
    <3>4. RuleFormed(rules[i]) /\ i - 1 \in Nat /\ word = 4
      BY <2>2, <2>3, <3>2, <3>3
    <3>5. {f \in Members(ClientFWRule(word)) :
              Understood(KernelFWRule(word), ClientFWRule(word), f)} = {"name"}
      BY <3>4, RuleKept
    <3> QED
      BY <3>1, <3>4, <3>5, RuleListed
  <2>4. ASSUME screen.type = "RSP_NATRules", NEW i \in DOMAIN screen.rows
        PROVE  LET row == screen.rows[i]
                   t == nats[i].as
               IN IF i = 1
                  THEN /\ Quad(t.src) /\ t.src.mask \in 1..32 => row.src = <<t.src>>
                       /\ Quad(t.nat) => row.nat = <<t.nat.octets>>
                       /\ ShortRange(t.ports) => row.ports = <<<<t.ports.lo, t.ports.hi>>>>
                  ELSE \A c \in DOMAIN row : row[c] = Unreadable
    <3>1. i \in DOMAIN nats /\ screen.rows[i] = ShowNATRule(nats[i], i - 1)
      BY <2>4 DEF ClientInv, ScreenFormed
    <3>2. nats \in Seq(NATRecords) /\ DOMAIN nats = 1..Len(nats) /\ Len(nats) \in Nat
      BY LenProperties DEF ClientInv, NATsFormed
    <3>3. i - 1 \in Nat /\ (i = 1 <=> i - 1 = 0)
      BY <3>1, <3>2
    <3>4. nats[i] \in NATRecords /\ word = 4
      BY <2>2, <2>4, <3>1, <3>2, ElementOfSeq
    <3> QED
      BY <3>1, <3>3, <3>4, NATListed
  <2>5. ASSUME screen.type = "RSP_ConnLogs", NEW i \in DOMAIN screen.rows
        PROVE  LET row == screen.rows[i]
                   p == conns[i]
               IN IF i = 1
                  THEN /\ row.src = <<WithPort(p.saddr, p.sport)>> /\ row.dst = <<WithPort(p.daddr, p.dport)>>
                       /\ row.protocol = <<p.protocol>>
                  ELSE \A c \in DOMAIN row : row[c] = Unreadable
    <3>1. i \in DOMAIN conns /\ screen.rows[i] = ShowConn(conns[i], i - 1) /\ word = 4
      BY <2>2, <2>5 DEF ClientInv, ScreenFormed
    <3>2. conns \in Seq(Packet) /\ DOMAIN conns = 1..Len(conns) /\ Len(conns) \in Nat
      BY LenProperties DEF ClientInv, TrafficFormed
    <3>3. i - 1 \in Nat /\ (i = 1 <=> i - 1 = 0)
      BY <3>1, <3>2
    <3> DEFINE row == ShowConn(conns[i], i - 1)
               p == conns[i]
    <3>4. IF i = 1
          THEN /\ row.src = <<WithPort(p.saddr, p.sport)>> /\ row.dst = <<WithPort(p.daddr, p.dport)>>
               /\ row.protocol = <<p.protocol>>
          ELSE \A c \in DOMAIN row : row[c] = Unreadable
      <4>1. word = 4 /\ i - 1 \in Nat
        BY <3>1, <3>3
      <4> QED
        BY <3>3, <4>1, ConnListed
    <3> QED
      BY <3>1, <3>4
  <2>6. ASSUME screen.type = "RSP_IPLogs", NEW i \in DOMAIN screen.rows
        PROVE  LET row == screen.rows[i]
                   p == logs[i].of
               IN /\ row.action = <<logs[i].action>>
                  /\ row.src = Unreadable /\ row.dst = Unreadable /\ row.protocol = Unreadable
                  /\ row.len = <<p.tot_len - p.ihl * 4>> => p.tot_len % 256 = p.tot_len \div 256
    <3>1. i \in DOMAIN logs /\ screen.rows[i] = ShowLog(logs[i], i - 1) /\ word = 4
      BY <2>2, <2>6 DEF ClientInv, ScreenFormed
    <3>2. PICK p \in Packet, action \in {0, 1} : logs = <<logs[1]>> /\ logs[1] = LogItem(p, action)
      BY <3>1 DEF ClientInv, TrafficFormed
    <3>3. i = 1
      BY <3>1, <3>2
    <3>4. logs[i].of = p /\ logs[i].action = action
      BY <3>2, <3>3 DEF LogItem
    <3>5. screen.rows[i] = ShowLog(LogItem(p, action), 0)
      BY <3>1, <3>2, <3>3
    <3> QED
      BY <3>1, <3>4, <3>5, LogListed
  <2>7. word = 8 => /\ rules = <<>> /\ nats = <<>>
                    /\ screen.type \in {"nothing", "EXIT", "WRONG_IP", "NO_SUCH_RULE"}
    BY DEF ClientInv, NothingAnswered
  <2> QED
    BY <2>3, <2>4, <2>5, <2>6, <2>7, Zenon DEF ListedAsTyped
<1> QED
  BY <1>1, ClientInvariant, PTL

================================================================================
