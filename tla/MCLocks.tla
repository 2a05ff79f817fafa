-------------------------------- MODULE MCLocks --------------------------------
(* Two CPUs for Locks, each with two processes. *)
EXTENDS Locks, TLC

CONSTANTS cpu1, cpu2, task1, task2

Interchangeable == Permutations(Cpu) \cup Permutations(Task)
=================================================================================
