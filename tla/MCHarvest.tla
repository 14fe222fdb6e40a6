----------------------------- MODULE MCHarvest -----------------------------
(***************************************************************************)
(* Instances of Harvest for TLC: two providers report at the same time.    *)
(***************************************************************************)
EXTENDS Harvest
=============================================================================
