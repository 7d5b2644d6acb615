---------------------------- MODULE MCLifecycle -----------------------------
(***************************************************************************)
(* Small instances of one agent's life for TLC.                            *)
(***************************************************************************)
EXTENDS Lifecycle

CONSTANT c1
=============================================================================
