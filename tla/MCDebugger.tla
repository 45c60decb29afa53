----------------------------- MODULE MCDebugger -----------------------------
(* A guest that visits two program counters.                                *)
EXTENDS Debugger, TLC

Symmetry == Permutations(PCs)

=============================================================================
