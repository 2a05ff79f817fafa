\* A packet meets a rule that covers it.
SPECIFICATION PathSpec
CONSTANTS
    s1 = s1  s2 = s2  b1 = b1  b2 = b2  c1 = c1  c2 = c2  k1 = k1  k2 = k2
    tcp1 = tcp1  udp1 = udp1  tcp2 = tcp2
    Slot = {s1, s2}
    Key = {k1, k2}
    Bucket = {b1, b2}
    HashOf <- EachItsBucket
    Ctx = {c1}
    NoSlot = NoSlot
    NoKey = NoKey
    Expires = 1
    Interval = 1
    EraseSets <- EraseSetsOfRules
    MayFail <- OnlyPanic
    Packet = {tcp1, udp1, tcp2}
    KeyOf <- KeyOfPacket
    MaxPorts <- NoKeys
    Routes = {"in", "forward", "out"}
    Cell = {r1}
    Name = {"web"}
    NoName = ""
    CoverSets <- Covers
    Admin = {a1}
    NoCell = NoCell
    NoRule = NoRule
    NoAdmin = NoAdmin
CHECK_DEADLOCK FALSE
INVARIANT MatchedPacketsSurvive
