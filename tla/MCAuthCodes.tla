----------------------------- MODULE MCAuthCodes -----------------------------
(* Small instances of AuthCodes for TLC. *)
EXTENDS AuthCodes, TLC

Symmetry == Permutations(Code) \cup Permutations(Worker)
              \cup Permutations(Redirect) \cup Permutations(Verifier)

=============================================================================
