----------------------------- MODULE SingleGrant -----------------------------
(***************************************************************************)
(* What a client may rely on when it redeems authorization codes (the      *)
(* contract for Save and Consume that domain/authcode states and           *)
(* RunAuthCodeRepositoryContract, of infra/repotest, tries on each store): *)
(* a code that was issued is answered with tokens at most once, and only   *)
(* to a request that presents what the code was bound to.  It may be lost  *)
(* at any time.                                                            *)
(***************************************************************************)

CONSTANTS
  Code,
  Binding   \* what a code is bound to: client, redirect_uri, challenge

VARIABLES
  open,     \* <<code, binding>>: codes that may still be answered
  granted,  \* <<code, binding>>: the requests answered with tokens
  used      \* the codes ever issued

vars == <<open, granted, used>>

Init ==
  /\ open = {}
  /\ granted = {}
  /\ used = {}

\* Save: the code is found with all that it is bound to.
Issue(c, b) ==
  /\ c \notin used
  /\ open' = open \cup {<<c, b>>}
  /\ used' = used \cup {c}
  /\ UNCHANGED granted

\* Consume succeeds once for a code, whoever races for it.
Redeem(c, b) ==
  /\ <<c, b>> \in open
  /\ open' = open \ {<<c, b>>}
  /\ granted' = granted \cup {<<c, b>>}
  /\ UNCHANGED used

\* Expiry, eviction and purge, and a Consume whose request then fails.
Drop ==
  /\ open' \subseteq open
  /\ UNCHANGED <<granted, used>>

Next ==
  \/ \E c \in Code, b \in Binding : Issue(c, b) \/ Redeem(c, b)
  \/ Drop

Spec == Init /\ [][Next]_vars

=============================================================================
