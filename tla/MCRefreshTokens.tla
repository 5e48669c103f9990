-------------------------- MODULE MCRefreshTokens ---------------------------
(* RefreshTokens with one or two requests at a time. *)
EXTENDS RefreshTokens, TLC

Symmetry == Permutations(Workers)

=============================================================================
