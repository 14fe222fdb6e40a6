---------------------------- MODULE MCRadioStack ----------------------------
(***************************************************************************)
(* The instance of RadioStack for TLC: one modem.                          *)
(***************************************************************************)
EXTENDS RadioStack

CONSTANT m1
=============================================================================
