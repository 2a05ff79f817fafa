\* Three packets log up to seven records into a list capped at two while a client dumps it.
SPECIFICATION LogsFairSpec
CONSTANTS
    c1 = c1  c2 = c2  c3 = c3  u1 = u1
    Ctx <- Ctx3
    Client = {u1}
    NoCtx = NoCtx
    MAX_LOG_LEN = 2
    MaxInserts = 7
    MaxAsked = 3
INVARIANTS LogsTypeOK LogNumExact CapOvershoot NewestKept
PROPERTIES ShownInOrder BurstSettles
