----------------------------- MODULE MCSessions -----------------------------
(***************************************************************************)
(* Instances of Sessions: a client that initializes and two requests beside *)
(* it, of the pairs that meet in the table.                                *)
(***************************************************************************)
EXTENDS Sessions, TLC

CONSTANTS r1, r2, r3
Beside == {<<"call", "DELETE">>, <<"GET", "GET">>,
           <<"GET", "DELETE">>, <<"malformed", "ping">>}
MCPlans == {r1 :> "initialize" @@ r2 :> p[1] @@ r3 :> p[2] : p \in Beside}
LatePlans == {r1 :> "initialize" @@ r2 :> "GET" @@ r3 :> "ping"}
=============================================================================
