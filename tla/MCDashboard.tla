----------------------------- MODULE MCDashboard -----------------------------
(***************************************************************************)
(* Constants for model checking Dashboard: two ways from Milano to         *)
(* Venezia, one over a relay whose pool earns a penalty, and a link that   *)
(* may be added.                                                           *)
(***************************************************************************)
EXTENDS Dashboard

Order == <<"milano", "verona", "parma", "venezia">>

Ends == "mp" :> {"milano", "parma"} @@ "pv" :> {"parma", "venezia"} @@
        "mo" :> {"milano", "verona"} @@ "ov" :> {"verona", "venezia"} @@
        "po" :> {"parma", "verona"}

AllLinks == DOMAIN Ends
Main == AllLinks \ {"po"}

\* The nearer of the two relays does not lead to the better path.
Cost == [e \in AllLinks |-> CASE e = "pv" -> 3 [] e \in {"ov", "po"} -> 2 [] OTHER -> 1]

Pools == "milano" :> 92 @@ "venezia" :> 86 @@ "parma" :> 90 @@ "verona" :> 34

\* A relay below the limit for transit, and a source short of keys.
PoolChanges == {<<"verona", 8>>, <<"milano", 30>>}
=============================================================================
