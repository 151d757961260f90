--------------------------- MODULE MCAuthorizeFlow ---------------------------
(* Small instances of AuthorizeFlow for TLC. *)
EXTENDS AuthorizeFlow, TLC

Symmetry == Permutations(User) \cup Permutations(App) \cup Permutations(Tab)

=============================================================================
