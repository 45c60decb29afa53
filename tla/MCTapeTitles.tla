---------------------------- MODULE MCTapeTitles ----------------------------
(* Two tapes that ZXInfo knows, and one that is in the catalogue as well.   *)
EXTENDS TapeTitles, TLC

CONSTANTS f1, f2, f3, s1, s2, s3

Contents == f1 :> s1 @@ f2 :> s2 @@ f3 :> s3

=============================================================================
