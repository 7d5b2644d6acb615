--------------------------- MODULE MCBridgeInput ---------------------------
(***************************************************************************)
(* A small instance of the Herdr bridge's way in for TLC.                  *)
(***************************************************************************)
EXTENDS BridgeInput, TLC
=============================================================================
