------------------------------ MODULE MCGpsHal ------------------------------
(***************************************************************************)
(* An instance of GpsHal for TLC.  Two handle values are enough to reuse   *)
(* an address; one thread of each kind is enough for a start and a stop,   *)
(* a callback, a recovery and the watchdog to overlap.  GpsHalProofs has   *)
(* the safety properties for any number of each.                           *)
(***************************************************************************)
EXTENDS GpsHal
=============================================================================
