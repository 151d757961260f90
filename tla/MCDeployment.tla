---------------------------- MODULE MCDeployment ----------------------------
(* Small instances of Deployment for TLC. *)
EXTENDS Deployment

\* Three settings of a deployment: the provider and the API with roles of
\* their own, one with a reader endpoint, and the API as the master.
MCInit ==
  /\ Init
  /\ <<stack, split, scoped>> \in {<<"auth", TRUE, TRUE>>, <<"api", FALSE, TRUE>>,
                                  <<"api", FALSE, FALSE>>}

MCSpec == MCInit /\ [][Next]_vars /\ Fairness

=============================================================================
