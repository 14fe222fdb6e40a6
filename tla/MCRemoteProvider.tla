-------------------------- MODULE MCRemoteProvider --------------------------
(***************************************************************************)
(* Instances of RemoteProvider for TLC.                                    *)
(***************************************************************************)
EXTENDS RemoteProvider
=============================================================================
