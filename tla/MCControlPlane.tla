--------------------------- MODULE MCControlPlane ---------------------------
(* Two classic models, one with a dock; a key that the stick presses too in   *)
(* one of its modes.                                                        *)
EXTENDS ControlPlane, TLC

CONSTANTS m1, m2, k1, kempston, sinclair, c1, c2

StickOf == kempston :> {} @@ sinclair :> {k1}

Symmetric == Permutations({c1, c2})

=============================================================================
