--------------------------- MODULE MCSessionStore ---------------------------
(***************************************************************************)
(* Instances of SessionStore for TLC: two processes of one application.    *)
(***************************************************************************)
EXTENDS SessionStore

OneApp == [c \in Clients |-> "app"]
=============================================================================
