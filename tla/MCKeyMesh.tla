------------------------------ MODULE MCKeyMesh ------------------------------
(***************************************************************************)
(* Constants for model checking KeyMesh.                                   *)
(***************************************************************************)
EXTENDS KeyMesh, TLC

CONSTANTS r1, r2

\* Two circuits from two KMEs, whose broadcasts wait for each other's source
\* first, to one KME or to a KME and a simulated KMS; or a simulated source.
SomeEndpoints == {(r1 :> <<"a", "c">>) @@ (r2 :> <<"b", "c">>),
                  (r1 :> <<"a", "c">>) @@ (r2 :> <<"b", "d">>),
                  (r1 :> <<"a", "d">>) @@ (r2 :> <<"d", "c">>)}

Backends == [k \in {"a", "b", "c"} |-> "ndks"] @@ ("d" :> "mock")
FullMesh == ("a" :> <<"b", "c">>) @@ ("b" :> <<"a", "c">>) @@ ("c" :> <<"a", "b">>)
\* One KME has only just started.
AlmostWarm == ("a" :> {}) @@ ("b" :> {"a", "c"}) @@ ("c" :> {"a", "b"})

\* The default registry: every city is simulated.
Simulated   == {r1 :> <<"d", "e">>}
AllBackends == [k \in {"d", "e"} |-> "mock"]
Nobody      == << >>
=============================================================================
