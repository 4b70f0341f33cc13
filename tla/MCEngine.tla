------------------------------- MODULE MCEngine -------------------------------
(* The whole engine on small instances. *)
EXTENDS Engine, TLC

\* Profiles that differ in which bounds they have.
Bounded(theoretical, configured, measured, reserved) ==
    "theoretical" :> theoretical @@ "configured" :> configured
        @@ "measured_service" :> measured @@ "reserved" :> reserved

MCProfiles == {Bounded(14, 12, Unknown, 2)}
=============================================================================
