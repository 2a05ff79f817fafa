\* Two requests edit and dump three rules of two names and two coverages.
SPECIFICATION RulesSpec
CONSTANTS
    r1 = r1  r2 = r2  r3 = r3  a1 = a1  a2 = a2  k1 = k1  k2 = k2
    Cell <- Cells3
    Name = {"web", "ssh"}
    NoName = ""
    Key = {k1, k2}
    CoverSets <- Covers
    Admin = {a1, a2}
    NoCell = NoCell
    NoRule = NoRule
    NoAdmin = NoAdmin
SYMMETRY Interchangeable
CHECK_DEADLOCK FALSE
INVARIANTS RulesTypeOK ListSound
PROPERTIES DecisionStable RemovalHalves OnlyRemovalFrees
