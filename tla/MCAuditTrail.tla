---------------------------- MODULE MCAuditTrail ----------------------------
(***************************************************************************)
(* Constants for model checking AuditTrail.                                *)
(***************************************************************************)
EXTENDS AuditTrail, MCAdapterChain

\* The rows of other requests, and those an earlier run of r1 has left: it was
\* answered over another path, some seconds before this one began.
Foreign == <<Row("other", "request_received", -40, 0), Row("other", "path_computed", -39, 3)>>
Earlier == [i \in 1 .. 8 |-> Row(r1, Sequence[i], i - 20, 4)]

SomeTables == {Foreign, Foreign \o Earlier}

\* The audit log answers at once, or carries the write out after the service
\* has given up on it, if at all.
AuditLog == {After(0, "ok"), After(2, "late")}
=============================================================================
