------------------------------ MODULE MCControl ------------------------------
(* A path of two domains and a sender, on a small instance.                *)
EXTENDS Control

Layered(theoretical, configured, measured, reserved) ==
    "theoretical" :> theoretical @@ "configured" :> configured
        @@ "measured_service" :> measured @@ "reserved" :> reserved

\* Bounds of different layers with and without a reservation, and none at all.
MCProfiles ==
    {Layered(5, 4, 3, 1), Layered(Unknown, 1, 2, Unknown),
     Layered(Unknown, Unknown, Unknown, Unknown)}

\* Paths with both orders of the domains and one that has been removed.
MCPaths == {<<1>>, <<1, 2>>, <<2, 1>>, <<3, 2>>, <<2, 3>>, << >>}
=============================================================================
