----------------------------- MODULE MCQtSource -----------------------------
(***************************************************************************)
(* Instances of QtSource for TLC.                                          *)
(***************************************************************************)
EXTENDS QtSource
=============================================================================
