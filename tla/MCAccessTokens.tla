---------------------------- MODULE MCAccessTokens ----------------------------
(* Small instances of AccessTokens for TLC. *)
EXTENDS AccessTokens, TLC

Symmetry == Permutations(Kid) \cup Permutations(Proc) \cup Permutations(Req)

=============================================================================
