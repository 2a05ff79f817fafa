------------------------------- MODULE MCExchange -------------------------------
(* A small instance of Exchange for TLC. *)
EXTENDS Exchange

CONSTANTS c1, c2, r1, r2

Clients2 == {c1, c2}

Rules2 == {r1, r2}

\* One who does all there is, and one who only edits.
AsksAll == (c1 :> RequestTypes) @@
           (c2 :> Edits \cup {"REQ_ADDNATRule", "REQ_DELNATRule", "REQ_SETAction"})

AllBuilds == {4, 8}

Builds64 == {8}
================================================================================
