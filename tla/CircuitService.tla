--------------------------- MODULE CircuitService ---------------------------
(***************************************************************************)
(* What the adapter promises to ONOS, whatever services, timeouts and      *)
(* audit writes lie in between: a request is answered at most once, it     *)
(* costs its key material at most once, from one KMS, and it is answered   *)
(* 200 only after its keys were taken.                                     *)
(***************************************************************************)
EXTENDS Integers

CONSTANTS
    Requests,       \* virtual circuit requests
    NumKeys,        \* keys each asks for
    Kms,            \* key management systems
    InitStored      \* keys each KMS starts with

VARIABLES
    stored,         \* keys left in each KMS
    drawn,          \* keys each request has cost
    answer          \* what ONOS was told

Init ==
    /\ stored = InitStored
    /\ drawn = [r \in Requests |-> 0]
    /\ answer = [r \in Requests |-> "none"]

Spend(r, k) ==
    /\ drawn[r] = 0
    /\ answer[r] # "200"
    /\ NumKeys[r] \in 1 .. stored[k]
    /\ stored' = [stored EXCEPT ![k] = @ - NumKeys[r]]
    /\ drawn' = [drawn EXCEPT ![r] = NumKeys[r]]
    /\ UNCHANGED answer

Answer(r, code) ==
    /\ answer[r] = "none"
    /\ code = "200" => drawn[r] = NumKeys[r]
    /\ answer' = [answer EXCEPT ![r] = code]
    /\ UNCHANGED <<stored, drawn>>

\* A gateway that crashes cuts several connections at once.
Cut ==
    /\ \E R \in SUBSET {r \in Requests : answer[r] = "none"} :
          answer' = [r \in Requests |-> IF r \in R THEN "gone" ELSE answer[r]]
    /\ UNCHANGED <<stored, drawn>>

Next ==
    \/ \E r \in Requests :
          \/ \E k \in Kms : Spend(r, k)
          \/ \E code \in {"200", "502", "503"} : Answer(r, code)
    \/ Cut

Spec == Init /\ [][Next]_<<stored, drawn, answer>>
=============================================================================
