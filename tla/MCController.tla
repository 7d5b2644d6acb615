---------------------------- MODULE MCController ----------------------------
(***************************************************************************)
(* Small instances of the controller's queue for TLC.                      *)
(***************************************************************************)
EXTENDS Controller, TLC

CONSTANTS i1, i2, w1, w2, loop, g1

\* Agents, workers, and callers other than the resync loop are interchangeable.
Symmetry ==
    Permutations(Agents) \cup Permutations(Workers) \cup Permutations(Callers \ {ResyncLoop})
=============================================================================
