\* The module is loaded and unloaded again and again under two packets, two clients
\* and the timer; allocations may fail.  A fault stops the machine.
SPECIFICATION LifeFairSpec
CONSTANTS
    p1 = p1  p2 = p2  u1 = u1  u2 = u2
    Packet <- Packets2
    Client <- Clients2
    MayFail = TRUE
INVARIANTS LifeTypeOK NoTableExplained OnlyTheCallbackOutlives SweepsGoOn
PROPERTY UnloadEnds
CHECK_DEADLOCK FALSE
