---------------------------- MODULE RotationChain ----------------------------
(***************************************************************************)
(* What a client of the refresh-token store may rely on: the contract for  *)
(* Save, Rotate and RevokeFamily that domain/refreshtoken states and       *)
(* RunRefreshTokenRepositoryContract (infra/repotest) tries on each store, *)
(* without tables, transactions, requests or clocks.                       *)
(*                                                                         *)
(* A family starts with one redeemable token.  Redeeming it replaces it,   *)
(* in one step, by one new token of the same family.  Redeemable tokens    *)
(* may be dropped (revoked, expired, purged) at any time, and a token that *)
(* was redeemed or dropped is never redeemable again.                      *)
(***************************************************************************)

CONSTANT Token

VARIABLES
  live,    \* <<family, token>>: the tokens that can be redeemed
  heir,    \* <<old, new>>: the redemptions so far
  handed   \* the tokens ever handed out

vars == <<live, heir, handed>>

Init ==
  /\ live = {}
  /\ heir = {}
  /\ handed = {}

\* Save of the first token, which names the family: it is found unconsumed.
Start(f) ==
  /\ f \notin handed
  /\ live' = live \cup {<<f, f>>}
  /\ handed' = handed \cup {f}
  /\ UNCHANGED heir

\* Rotate succeeds once for a token, whoever races for it: the old one is not
\* redeemable from then on, and the new one is.
Redeem(f, old, new) ==
  /\ <<f, old>> \in live
  /\ new \notin handed
  /\ live' = (live \ {<<f, old>>}) \cup {<<f, new>>}
  /\ heir' = heir \cup {<<old, new>>}
  /\ handed' = handed \cup {new}

\* RevokeFamily, expiry, eviction and purge: never undone.
Drop ==
  /\ live' \subseteq live
  /\ UNCHANGED <<heir, handed>>

Next ==
  \/ \E f \in Token : Start(f)
  \/ \E f, old, new \in Token : Redeem(f, old, new)
  \/ Drop

Spec == Init /\ [][Next]_vars

=============================================================================
