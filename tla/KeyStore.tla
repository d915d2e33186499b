------------------------------ MODULE KeyStore ------------------------------
(***************************************************************************)
(* What a KMS promises about its key material, whatever makes it refill:   *)
(* a draw takes exactly the keys it asked for or nothing at all, and the   *)
(* store never holds more than its capacity.                               *)
(***************************************************************************)
EXTENDS Naturals

CONSTANTS
    Capacity,       \* keys the store can hold
    Draws           \* sizes a draw may have

VARIABLE stored     \* keys available

Init == stored \in 0 .. Capacity

\* A draw of n keys is served in full.
Grant(n) ==
    /\ n <= stored
    /\ stored' = stored - n

\* Keys produced by the KMS itself.
Restock ==
    \E m \in stored .. Capacity : stored' = m

Next == Restock \/ \E n \in Draws : Grant(n)

Spec == Init /\ [][Next]_stored
=============================================================================
