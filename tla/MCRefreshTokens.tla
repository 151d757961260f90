--------------------------- MODULE MCRefreshTokens ---------------------------
(* Small instances of RefreshTokens for TLC. *)
EXTENDS RefreshTokens, TLC

Symmetry == Permutations(Token) \cup Permutations(Worker) \cup Permutations(User)

=============================================================================
