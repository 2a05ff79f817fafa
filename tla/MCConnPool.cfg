\* Two contexts race over three keys, two of which share a bucket; everything but a lookup may fail.
SPECIFICATION PoolSpec
CONSTANTS
    s1 = s1  s2 = s2  s3 = s3
    k1 = k1  k2 = k2  k3 = k3  b1 = b1  b2 = b2  c1 = c1  c2 = c2
    Slot = {s1, s2, s3}
    Key = {k1, k2, k3}
    Bucket = {b1, b2}
    HashOf <- TwoBuckets
    Ctx = {c1, c2}
    NoSlot = NoSlot
    NoKey = NoKey
    Expires = 2
    Interval = 1
    EraseSets <- EraseSetsAll
    MayFail <- AllButLookup
SYMMETRY Interchangeable
CHECK_DEADLOCK FALSE
INVARIANTS TypeOK ChainIntegrity FreshOwned CountExact BoundedDuplicates
PROPERTIES OldestAnswers StaleWritesOnlyExtend ImplementsTracker
