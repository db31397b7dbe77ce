---------------------------- MODULE CallEngineMC ----------------------------
(* Small instances of CallEngine for TLC, and the symmetry of the calls.    *)
EXTENDS CallEngine, TLC

Symmetry == Permutations(Calls)
=============================================================================
