----------------------------- MODULE ConnTracker -----------------------------
(***************************************************************************)
(* What the connection pool promises its users, whatever happens inside:   *)
(* every tracked connection holds a lease of at most Expires ticks, which  *)
(* traffic renews and time consumes; it is forgotten when the lease is     *)
(* spent, never before - unless an erase, made for a set of keys a rule    *)
(* covers, takes it or falls back to what an older node has left of it.    *)
(* There is no promise that a spent lease is forgotten promptly, nor that  *)
(* an erase takes everything it covers: connect.c keeps neither.           *)
(***************************************************************************)
EXTENDS Integers

CONSTANTS Key, Expires, EraseSets

VARIABLE lease   \* Key -> remaining ticks, -1 when the connection is unknown

Known == {k \in Key : lease[k] >= 0}

TrackerInit == lease = [k \in Key |-> -1]

\* An unknown connection is admitted.
Admit(k) ==
    /\ k \notin Known
    /\ \E n \in 0..Expires : lease' = [lease EXCEPT ![k] = n]

\* A known connection's lease is prolonged, spent or not.
Renew(k) ==
    /\ k \in Known
    /\ \E n \in lease[k]..Expires : lease' = [lease EXCEPT ![k] = n]

\* Connections whose leases are spent are forgotten, as many as it pleases.
Forget(S) ==
    /\ \A k \in S : lease[k] = 0
    /\ lease' = [k \in Key |-> IF k \in S THEN -1 ELSE lease[k]]

\* An erase for the keys K: the leases in K drop or stay, no other one changes.
Erase(K) ==
    \E left \in [K -> -1..Expires] :
        /\ \A k \in K : left[k] <= lease[k]
        /\ lease' = [k \in Key |-> IF k \in K THEN left[k] ELSE lease[k]]

\* Time passes.
Elapse == lease' = [k \in Key |-> IF lease[k] > 0 THEN lease[k] - 1 ELSE lease[k]]

TrackerNext ==
    \/ \E k \in Key : Admit(k) \/ Renew(k)
    \/ \E S \in SUBSET Known : Forget(S)
    \/ \E K \in EraseSets : Erase(K)
    \/ Elapse

TrackerSpec == TrackerInit /\ [][TrackerNext]_lease
===============================================================================
