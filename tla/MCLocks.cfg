\* Two CPUs, each with two processes and its softirqs, three of them at a time in the module, over all its functions.
SPECIFICATION LocksSpec
CONSTANTS
    cpu1 = cpu1  cpu2 = cpu2  task1 = task1  task2 = task2
    Cpu = {cpu1, cpu2}
    Task = {task1, task2}
    NoOne = NoOne
    MaxErased = 1
    MaxBusy = 3
SYMMETRY Interchangeable
CHECK_DEADLOCK FALSE
INVARIANTS LocksTypeOK DeadlockNeedsLostCpu
