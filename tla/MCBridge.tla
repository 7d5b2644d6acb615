------------------------------ MODULE MCBridge ------------------------------
(***************************************************************************)
(* Small instances of the Herdr bridge for TLC.                            *)
(***************************************************************************)
EXTENDS Bridge, TLC
=============================================================================
