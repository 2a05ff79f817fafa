\* Two packets in flight while two administrators change the rules and the default; lookups may fail.
SPECIFICATION PathSpec
CONSTANTS
    s1 = s1  s2 = s2  b1 = b1  b2 = b2  c1 = c1  c2 = c2  k1 = k1  k2 = k2
    tcp1 = tcp1  udp1 = udp1  tcp2 = tcp2
    Slot = {s1}
    Key = {k1}
    Bucket = {b1}
    HashOf <- EachItsBucket
    Ctx = {c1, c2}
    NoSlot = NoSlot
    NoKey = NoKey
    Expires = 1
    Interval = 1
    EraseSets <- EraseSetsOfRules
    MayFail <- LookupFailures
    Packet = {tcp1, udp1}
    KeyOf <- KeyOfPacket
    MaxPorts <- NoKeys
    Routes = {"forward", "out"}
    Cell = {r1}
    Name = {"web"}
    NoName = ""
    CoverSets <- Covers
    Admin = {a1, a2}
    NoCell = NoCell
    NoRule = NoRule
    NoAdmin = NoAdmin
SYMMETRY Interchangeable
CHECK_DEADLOCK FALSE
INVARIANT PathTypeOK
PROPERTY DropClosesTheDoor
