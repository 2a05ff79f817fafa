\* One client after the other, on builds of 4 and of 8 byte pointers.
SPECIFICATION ClientSpec
CONSTANTS
    Words <- Builds
    TypedRule <- TypedRules
    TypedNAT <- TypedNATs
    Junk <- Stack
    Probe <- Probes
    Packet <- Packets
    MaxNAT = 2
INVARIANTS ClientTypeOK RequestAsTyped HeardOtherwise ListedAsTyped
