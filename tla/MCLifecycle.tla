------------------------------ MODULE MCLifecycle ------------------------------
(* A small instance of Lifecycle for TLC. *)
EXTENDS Lifecycle

CONSTANTS p1, p2, u1, u2

Packets2 == {p1, p2}

Clients2 == {u1, u2}
================================================================================
