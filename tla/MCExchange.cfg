\* Two users, one who does all there is and one who only edits, on builds of 4 and of 8
\* byte pointers; everything that can fail may.  When both hang in the kernel nothing need
\* move any more, and once both locks died with their holders nothing does.
SPECIFICATION ExchSpec
CONSTANTS
    c1 = c1  c2 = c2  r1 = r1  r2 = r2
    Client <- Clients2
    Rule <- Rules2
    Asks <- AsksAll
    Words <- AllBuilds
    MayFail = TRUE
INVARIANTS ExchangeTypeOK SilenceExplained
PROPERTIES DeletesAsShown RequestsEnd
CHECK_DEADLOCK FALSE
