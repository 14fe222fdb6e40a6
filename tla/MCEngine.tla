------------------------------ MODULE MCEngine ------------------------------
(***************************************************************************)
(* Instances of Engine for TLC: one provider that requires satellites (the *)
(* GPS provider) and one that does not.                                    *)
(***************************************************************************)
EXTENDS Engine

CONSTANTS gps, net, s1, s2

OneProvider  == <<gps>>
TwoProviders == <<gps, net>>
TwoKinds     == <<"position", "velocity">>
=============================================================================
