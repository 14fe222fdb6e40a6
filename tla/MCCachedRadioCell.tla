------------------------ MODULE MCCachedRadioCell ------------------------
(***************************************************************************)
(* The instance of CachedRadioCell for TLC: a problematic modem.           *)
(***************************************************************************)
EXTENDS CachedRadioCell
=============================================================================
