------------------------------- MODULE MCHub -------------------------------
(***************************************************************************)
(* Small instances of the runner for TLC.                                  *)
(***************************************************************************)
EXTENDS Hub, TLC

CONSTANTS a1, a2

\* Attachments with the same credential are interchangeable.
Symmetry == Permutations({a1, a2})
=============================================================================
