---------------------------- MODULE MCWebSession ----------------------------
(* Small instances of WebSession for TLC. *)
EXTENDS WebSession, TLC

\* Bounds: a second login only in one tab that has no copy, and at most two
\* refreshes, sign-ins and sign-outs under way.
Few ==
  /\ \/ Cardinality(begun) <= 1
     \/ /\ copied = {} /\ reused = {}
        /\ Cardinality({k \in Tab : page[k].at # "closed"}) <= 1
  /\ Cardinality(fetches) + Cardinality({k \in Tab : job[k] # NoJob}) <= 2

Symmetry == Permutations(Tab) \cup Permutations(Login)

=============================================================================
