--------------------------- MODULE MCNetworkStack ---------------------------
(***************************************************************************)
(* Instances of NetworkStack for TLC: one device of each relevant type and *)
(* access points of the first.                                             *)
(***************************************************************************)
EXTENDS NetworkStack

OneWifi == [a \in APs |-> CHOOSE d \in Wifis : TRUE]
=============================================================================
