\* A 64-bit build on which nothing else fails.
SPECIFICATION ExchSpec
CONSTANTS
    c1 = c1  c2 = c2  r1 = r1  r2 = r2
    Client <- Clients2
    Rule <- Rules2
    Asks <- AsksAll
    Words <- Builds64
    MayFail = FALSE
PROPERTY EveryRequestAnswered
