--------------------------- MODULE MCRegistrations ---------------------------
(* Small instances of Registrations for TLC. *)
EXTENDS Registrations

CONSTANTS u1, u2, s1, profile

\* The demo client, without email.
Demo == [uris |-> {u1, u2}, scopes |-> {"offline_access", "profile"},
         types |-> {"code"}, grants |-> GrantType]

\* A registration that allows less.
MCClientForm ==
  {Demo,
   [uris |-> {u1}, scopes |-> {"offline_access"}, types |-> {"code"},
    grants |-> {"authorization_code"}]}

MCAsked == {{"openid", "offline_access", "profile"}, {"openid"}}

\* The seeding leaves the demo accounts of env.go.
MCInit ==
  /\ Init
  /\ log = <<[client |-> Public(Demo), user |-> NewUser(profile, s1)]>>

MCSpec == MCInit /\ [][Next]_vars

=============================================================================
