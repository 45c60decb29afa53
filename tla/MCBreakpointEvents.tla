------------------------- MODULE MCBreakpointEvents -------------------------
(* Two clients on one hub; their tasks are alike.                           *)
EXTENDS BreakpointEventsInv, TLC

Symmetry == Permutations(Clients)

=============================================================================
