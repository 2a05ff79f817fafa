--------------------------------- MODULE MCLogs ---------------------------------
(* A small instance of Logs for TLC. *)
EXTENDS Logs

CONSTANTS c1, c2, c3, u1

Ctx3 == {c1, c2, c3}
================================================================================
