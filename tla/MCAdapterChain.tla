--------------------------- MODULE MCAdapterChain ---------------------------
(***************************************************************************)
(* Constants for model checking AdapterChain.                              *)
(***************************************************************************)
EXTENDS AdapterChain, TLC

CONSTANT r1

After(d, res) == [delay |-> d, result |-> res]

OneKey  == (r1 :> 1)

\* A path with a relay, a path within one node, none, one through a node without
\* a KMS and one from a KMS that has no keys left.
AllRoutes == {<<"a", "b", "c">>, <<"a">>, <<>>, <<"a", "d">>, <<"b", "c">>}
RelayRoute == {<<"a", "b", "c">>}

BothWays == {"endpoints_resolved", "resolution_failed"}
Resolves == {"endpoints_resolved"}

KmsNodes == {"a", "b", "c"}
Stock == ("a" :> 2) @@ ("b" :> 0) @@ ("c" :> 3)

Prompt == {After(0, "ok")}

\* The callee is reached at once, as late as two timeouts allow, or not at all.
SlowConnect == {After(0, "ok"), After(6, "ok"), After(0, "failed")}

\* The KMS answers, refuses or hangs; a hung call may still take effect.
HungKms == {After(0, "ok"), After(0, "failed"), After(3, "late")}
PromptKms == {After(0, "ok"), After(1, "ok"), After(0, "failed")}
HttpSource == {After(0, "ok"), After(0, "failed"), After(0, "empty")}
AnySource == HttpSource \cup {After(0, "raised")}

\* The audit log does not answer: each write takes one whole audit timeout.
HungAudit == {After(3, "failed")}
=============================================================================
