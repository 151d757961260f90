--------------------------- MODULE AuthCodesProofs ---------------------------
(***************************************************************************)
(* Proofs about AuthCodes.  The argument: a code whose row is stored has   *)
(* led to nothing yet; Consume's DELETE hands it to one request, which is  *)
(* the only one that can go on with it; an answer ends that request.       *)
(***************************************************************************)
EXTENDS AuthCodes, TLAPS

-----------------------------------------------------------------------------
(* The inductive invariant. *)

\* Rows are never changed.
RowsAsIssued ==
  \A c \in Stored : c \in DOMAIN issued /\ codes[c] = issued[c]

\* A request under way has a code that was issued, with its row as issued,
\* and presents what the code is bound to.
RequestsAsIssued ==
  \A w \in Worker :
    ~ At(w, "idle") =>
      /\ req[w].code \in DOMAIN issued
      /\ req[w].found = issued[req[w].code]
      /\ req[w].shown = issued[req[w].code].bound

\* Whoever claims a code is alone, and has not been answered.
ClaimIsExclusive ==
  \A w \in Worker, c \in Code :
    Claims(w, c) =>
      /\ c \notin Stored
      /\ answers[c] = 0
      /\ req[w].step # "answer" => families[c] = 0
      /\ \A v \in Worker : Claims(v, c) => v = w

UnissuedIsUnused ==
  \A c \in Code \ DOMAIN issued : answers[c] = 0 /\ families[c] = 0

StoredIsUnused ==
  \A c \in Stored : answers[c] = 0 /\ families[c] = 0

IInv ==
  /\ TypeOK
  /\ RowsAsIssued
  /\ RequestsAsIssued
  /\ ClaimIsExclusive
  /\ UnissuedIsUnused
  /\ StoredIsUnused
  /\ SingleUse
  /\ GrantedAsBound

-----------------------------------------------------------------------------
(* Lemmas about the helpers. *)

\* Delete(S) takes the rows of S out of the table and keeps the others.
LEMMA DeleteRows ==
  ASSUME NEW S, Delete(S)
  PROVE  Stored' = Stored \ S /\ \A c \in Stored' : codes'[c] = codes[c]
BY DEF Delete, Stored, Restrict

\* Become(w, r) touches no other worker.
LEMMA BecomeOne ==
  ASSUME TypeOK, NEW w \in Worker, NEW r \in Request, Become(w, r)
  PROVE  /\ req' \in [Worker -> Request]
         /\ req'[w] = r
         /\ \A v \in Worker \ {w} : req'[v] = req[v]
BY DEF TypeOK, Become

LEMMA IdleRequest == Idle \in Request
BY DEF Idle, Request, Steps

\* A request that ends keeps the invariant, also when rows go with it.
LEMMA FinishPreserves ==
  ASSUME IInv, NEW w \in Worker, Finish(w),
         Stored' \subseteq Stored, \A c \in Stored' : codes'[c] = codes[c],
         UNCHANGED <<now, issued, granted, answers, families>>
  PROVE  IInv'
<1>1. /\ req' \in [Worker -> Request]
      /\ req'[w] = Idle
      /\ \A v \in Worker \ {w} : req'[v] = req[v]
  BY BecomeOne, IdleRequest DEF IInv, Finish
<1>2. TypeOK'
  BY <1>1 DEF IInv, TypeOK
<1>3. RequestsAsIssued'
  BY <1>1 DEF IInv, RequestsAsIssued, At, Idle
<1>4. \A v \in Worker, c \in Code : Claims(v, c)' => v # w /\ Claims(v, c)
  BY <1>1 DEF Claims, Idle
<1>5. ClaimIsExclusive'
  BY <1>1, <1>4 DEF IInv, ClaimIsExclusive
<1>6. RowsAsIssued' /\ StoredIsUnused'
  BY DEF IInv, RowsAsIssued, StoredIsUnused
<1> QED
  BY <1>2, <1>3, <1>5, <1>6 DEF IInv, UnissuedIsUnused, SingleUse, GrantedAsBound

\* Taking rows out of the table keeps the invariant.
LEMMA DeletePreserves ==
  ASSUME IInv, NEW S, Delete(S),
         UNCHANGED <<now, req, issued, granted, answers, families>>
  PROVE  IInv'
<1>1. Stored' \subseteq Stored /\ \A c \in Stored' : codes'[c] = codes[c]
  BY DeleteRows
<1>2. TypeOK'
  BY <1>1 DEF IInv, TypeOK
<1>3. RowsAsIssued'
  BY <1>1 DEF IInv, RowsAsIssued
<1>4. ClaimIsExclusive'
  BY <1>1 DEF IInv, ClaimIsExclusive, Claims
<1>5. StoredIsUnused'
  BY <1>1 DEF IInv, StoredIsUnused
<1> QED
  BY <1>2, <1>3, <1>4, <1>5 DEF IInv, RequestsAsIssued, At, UnissuedIsUnused,
     SingleUse, GrantedAsBound

-----------------------------------------------------------------------------
(* One lemma per kind of step. *)

LEMMA InitEstablishes ==
  Init => IInv
<1> SUFFICES ASSUME Init PROVE IInv
  OBVIOUS
<1>1. Stored = {} /\ DOMAIN issued = {}
  BY DEF Init, Stored
<1>2. \A w \in Worker : req[w] = Idle
  BY DEF Init
<1>3. TypeOK
  BY <1>1, IdleRequest DEF Init, TypeOK
<1> QED
  BY <1>1, <1>2, <1>3 DEF Init, IInv, RowsAsIssued, RequestsAsIssued,
     ClaimIsExclusive, UnissuedIsUnused, StoredIsUnused, SingleUse,
     GrantedAsBound, At, Claims, Idle

LEMMA IssuePreserves ==
  ASSUME IInv, NEW c \in Code, NEW b \in Binding, NEW offline \in BOOLEAN,
         Issue(c, b, offline)
  PROVE  IInv'
<1> DEFINE row == [bound |-> b, offline |-> offline, expires |-> now + TTL]
<1>1. row \in Row
  BY AuthCodesAssumption DEF IInv, TypeOK, Row
<1>2. /\ Stored' = Stored \cup {c}
      /\ codes'[c] = row
      /\ \A d \in Stored \ {c} : codes'[d] = codes[d]
  BY DEF Issue, Stored
<1>3. /\ DOMAIN issued' = DOMAIN issued \cup {c}
      /\ issued'[c] = row
      /\ \A d \in DOMAIN issued \ {c} : issued'[d] = issued[d]
      /\ c \notin DOMAIN issued
  BY DEF Issue
<1> HIDE DEF row
<1>4. UNCHANGED <<now, req, granted, answers, families>>
  BY DEF Issue
<1>5. \A v \in Worker : ~ Claims(v, c)
  BY <1>3 DEF IInv, RequestsAsIssued, Claims, At
<1>6. TypeOK'
  BY <1>1, <1>2, <1>3, <1>4 DEF IInv, TypeOK
<1>7. RowsAsIssued'
  BY <1>2, <1>3 DEF IInv, RowsAsIssued
<1>8. RequestsAsIssued'
  BY <1>3, <1>4 DEF IInv, RequestsAsIssued, At
<1>9. ClaimIsExclusive'
  BY <1>2, <1>4, <1>5 DEF IInv, ClaimIsExclusive, Claims
<1>10. UnissuedIsUnused' /\ StoredIsUnused'
  BY <1>2, <1>3, <1>4 DEF IInv, UnissuedIsUnused, StoredIsUnused
<1>11. GrantedAsBound'
  BY <1>3, <1>4 DEF IInv, GrantedAsBound
<1> QED
  BY <1>4, <1>6, <1>7, <1>8, <1>9, <1>10, <1>11 DEF IInv, SingleUse

LEMMA FindPreserves ==
  ASSUME IInv, NEW w \in Worker, NEW c \in Code, NEW b \in Binding, Find(w, c, b)
  PROVE  IInv'
<1> DEFINE r == [step |-> "consume", code |-> c, shown |-> b, found |-> codes[c]]
<1>1. c \in Stored /\ codes[c].bound = b /\ codes[c] \in Row
  <2>1. c \in Stored /\ codes[c] \in Row
    BY DEF Find, Active, IInv, TypeOK
  <2>2. codes[c].bound \in Binding
    BY <2>1 DEF Row
  <2>3. /\ codes[c].bound.redirect = b.redirect
        /\ codes[c].bound.client = b.client
        /\ codes[c].bound.verifier = b.verifier
    BY DEF Find, Verify, VerifyChallenge
  <2>4. codes[c].bound = b
    BY <2>2, <2>3 DEF Binding
  <2> QED
    BY <2>1, <2>4
<1>2. r \in Request
  BY <1>1 DEF Request, Steps
<1>3. /\ req' \in [Worker -> Request]
      /\ req'[w] = r
      /\ \A v \in Worker \ {w} : req'[v] = req[v]
  BY <1>2, BecomeOne DEF Find, IInv
<1>4. UNCHANGED <<now, codes, issued, granted, answers, families>>
  BY DEF Find
<1>5. TypeOK'
  BY <1>3, <1>4 DEF IInv, TypeOK, Stored
<1>6. RequestsAsIssued'
  BY <1>1, <1>3, <1>4 DEF IInv, RequestsAsIssued, RowsAsIssued, At
<1>7. \A v \in Worker, d \in Code : Claims(v, d)' => v # w /\ Claims(v, d)
  BY <1>3 DEF Claims
<1>8. ClaimIsExclusive'
  BY <1>3, <1>4, <1>7 DEF IInv, ClaimIsExclusive, Stored
<1> QED
  BY <1>4, <1>5, <1>6, <1>8 DEF IInv, RowsAsIssued, UnissuedIsUnused,
     StoredIsUnused, SingleUse, GrantedAsBound, Stored

\* Consume: the row goes and one request claims the code, or there was none.
LEMMA ConsumePreserves ==
  ASSUME IInv, NEW w \in Worker, Consume(w)
  PROVE  IInv'
<1> DEFINE c == req[w].code
<1>1. UNCHANGED <<now, issued, granted, answers, families>>
  BY DEF Consume
<1>2. Stored' = Stored \ {c} /\ \A d \in Stored' : codes'[d] = codes[d]
  BY DeleteRows DEF Consume
<1>3. CASE c \notin Stored
  <2>1. Finish(w)
    BY <1>3 DEF Consume
  <2> QED
    BY <1>1, <1>2, <2>1, FinishPreserves
<1>4. CASE c \in Stored
  <2> DEFINE r == [req[w] EXCEPT !.step = "judge"]
  <2>1. At(w, "consume") /\ Become(w, r)
    BY <1>4 DEF Consume, Goto
  <2>2. r \in Request /\ r.step = "judge" /\ r.code = c
        /\ r.found = req[w].found /\ r.shown = req[w].shown
    BY DEF IInv, TypeOK, Request, Steps
  <2>3. /\ req' \in [Worker -> Request]
        /\ req'[w] = r
        /\ \A v \in Worker \ {w} : req'[v] = req[v]
    BY <2>1, <2>2, BecomeOne DEF IInv
  <2> HIDE DEF r
  <2>4. TypeOK'
    BY <1>1, <1>2, <2>3 DEF IInv, TypeOK
  <2>5. RowsAsIssued'
    BY <1>1, <1>2 DEF IInv, RowsAsIssued
  <2>6. RequestsAsIssued'
    BY <1>1, <2>1, <2>2, <2>3 DEF IInv, RequestsAsIssued, At
  <2>7. \A v \in Worker, d \in Code :
          Claims(v, d)' => (v = w /\ d = c) \/ (v # w /\ Claims(v, d))
    BY <2>2, <2>3 DEF Claims
  <2>8. answers[c] = 0 /\ families[c] = 0 /\ \A v \in Worker : ~ Claims(v, c)
    BY <1>4 DEF IInv, StoredIsUnused, ClaimIsExclusive, TypeOK
  <2>9. ClaimIsExclusive'
    BY <1>1, <1>2, <2>3, <2>7, <2>8 DEF IInv, ClaimIsExclusive
  <2>10. UnissuedIsUnused' /\ StoredIsUnused' /\ SingleUse' /\ GrantedAsBound'
    BY <1>1, <1>2 DEF IInv, UnissuedIsUnused, StoredIsUnused, SingleUse,
       GrantedAsBound
  <2> QED
    BY <2>4, <2>5, <2>6, <2>9, <2>10 DEF IInv
<1> QED
  BY <1>3, <1>4

\* A claim that goes on is the same claim.
LEMMA GotoKeepsClaims ==
  ASSUME IInv, NEW w \in Worker, NEW step \in {"save", "answer"},
         req[w].step \in {"judge", "save"}, Goto(w, step)
  PROVE  /\ req' \in [Worker -> Request]
         /\ req'[w].step = step /\ req'[w].code = req[w].code
         /\ req'[w].found = req[w].found /\ req'[w].shown = req[w].shown
         /\ \A v \in Worker \ {w} : req'[v] = req[v]
         /\ \A v \in Worker, c \in Code : Claims(v, c)' <=> Claims(v, c)
<1> DEFINE r == [req[w] EXCEPT !.step = step]
<1>1. r \in Request /\ r.step = step /\ r.code = req[w].code
      /\ r.found = req[w].found /\ r.shown = req[w].shown
  BY DEF IInv, TypeOK, Request, Steps
<1>2. /\ req' \in [Worker -> Request]
      /\ req'[w] = r
      /\ \A v \in Worker \ {w} : req'[v] = req[v]
  BY <1>1, BecomeOne DEF Goto, IInv
<1> QED
  BY <1>1, <1>2 DEF Claims

LEMMA JudgePreserves ==
  ASSUME IInv, NEW w \in Worker, Judge(w)
  PROVE  IInv'
<1>1. UNCHANGED <<now, codes, issued, granted, answers, families>>
  BY DEF Judge
<1>2. CASE Finish(w)
  BY <1>1, <1>2, FinishPreserves DEF Stored
<1>3. ASSUME NEW step \in {"save", "answer"}, Goto(w, step)
      PROVE  IInv'
  <2>1. At(w, "judge")
    BY DEF Judge
  <2>2. /\ req' \in [Worker -> Request]
        /\ req'[w].step = step /\ req'[w].code = req[w].code
        /\ req'[w].found = req[w].found /\ req'[w].shown = req[w].shown
        /\ \A v \in Worker \ {w} : req'[v] = req[v]
        /\ \A v \in Worker, c \in Code : Claims(v, c)' <=> Claims(v, c)
    BY <1>3, <2>1, GotoKeepsClaims DEF At
  <2>3. TypeOK'
    BY <1>1, <2>2 DEF IInv, TypeOK, Stored
  <2>4. RequestsAsIssued'
    BY <1>1, <2>1, <2>2 DEF IInv, RequestsAsIssued, At
  <2>5. ClaimIsExclusive'
    BY <1>1, <2>1, <2>2 DEF IInv, ClaimIsExclusive, Stored, At, Claims
  <2> QED
    BY <1>1, <2>3, <2>4, <2>5 DEF IInv, RowsAsIssued, UnissuedIsUnused,
       StoredIsUnused, SingleUse, GrantedAsBound, Stored
<1>4. Finish(w) \/ Goto(w, "save") \/ Goto(w, "answer")
  BY DEF Judge
<1> QED
  BY <1>2, <1>3, <1>4

LEMMA SavePreserves ==
  ASSUME IInv, NEW w \in Worker, Save(w)
  PROVE  IInv'
<1> DEFINE c == req[w].code
<1>1. UNCHANGED <<now, codes, issued, granted, answers>>
  BY DEF Save
<1>2. At(w, "save") /\ Goto(w, "answer")
  BY DEF Save
<1>3. c \in DOMAIN issued /\ c \in Code
  BY <1>2 DEF IInv, RequestsAsIssued, TypeOK, At
<1>4. families' \in [Code -> Nat] /\ families'[c] = families[c] + 1
      /\ \A d \in Code \ {c} : families'[d] = families[d]
  BY <1>3 DEF Save, IInv, TypeOK
<1>5. Claims(w, c) /\ families[c] = 0 /\ c \notin Stored
  BY <1>2, <1>3 DEF IInv, ClaimIsExclusive, Claims, At
<1>6. /\ req' \in [Worker -> Request]
      /\ req'[w].step = "answer" /\ req'[w].code = req[w].code
      /\ req'[w].found = req[w].found /\ req'[w].shown = req[w].shown
      /\ \A v \in Worker \ {w} : req'[v] = req[v]
      /\ \A v \in Worker, d \in Code : Claims(v, d)' <=> Claims(v, d)
  BY <1>2, GotoKeepsClaims DEF At
<1>7. TypeOK'
  BY <1>1, <1>4, <1>6 DEF IInv, TypeOK, Stored
<1>8. RequestsAsIssued'
  BY <1>1, <1>2, <1>6 DEF IInv, RequestsAsIssued, At
<1>9. ClaimIsExclusive'
  <2> SUFFICES ASSUME NEW v \in Worker, NEW d \in Code, Claims(v, d)'
               PROVE  /\ d \notin Stored'
                      /\ answers'[d] = 0
                      /\ req'[v].step # "answer" => families'[d] = 0
                      /\ \A u \in Worker : Claims(u, d)' => u = v
    BY DEF ClaimIsExclusive
  <2>1. Claims(v, d)
    BY <1>6
  <2>2. d \notin Stored' /\ answers'[d] = 0 /\ \A u \in Worker : Claims(u, d)' => u = v
    BY <1>1, <1>6, <2>1 DEF IInv, ClaimIsExclusive, Stored
  <2>3. CASE v = w
    BY <1>6, <2>2, <2>3
  <2>4. CASE v # w
    <3>1. d # c
      BY <1>5, <2>1, <2>4 DEF IInv, ClaimIsExclusive
    <3> QED
      BY <1>4, <1>6, <2>1, <2>2, <2>4, <3>1 DEF IInv, ClaimIsExclusive
  <2> QED
    BY <2>3, <2>4
<1>10. UnissuedIsUnused' /\ StoredIsUnused'
  BY <1>1, <1>3, <1>4, <1>5 DEF IInv, UnissuedIsUnused, StoredIsUnused, Stored, TypeOK
<1>11. SingleUse'
  BY <1>1, <1>4, <1>5 DEF IInv, SingleUse
<1> QED
  BY <1>1, <1>7, <1>8, <1>9, <1>10, <1>11 DEF IInv, RowsAsIssued, GrantedAsBound, Stored

LEMMA AnswerPreserves ==
  ASSUME IInv, NEW w \in Worker, Answer(w)
  PROVE  IInv'
<1> DEFINE c == req[w].code
<1>1. UNCHANGED <<now, codes, issued, families>>
  BY DEF Answer
<1>2. At(w, "answer") /\ Finish(w)
  BY DEF Answer
<1>3. c \in DOMAIN issued /\ c \in Code /\ req[w].shown = issued[c].bound
      /\ issued[c].bound \in Binding
  BY <1>2 DEF IInv, RequestsAsIssued, TypeOK, At, Row
<1>4. answers' \in [Code -> Nat] /\ answers'[c] = answers[c] + 1
      /\ \A d \in Code \ {c} : answers'[d] = answers[d]
  BY <1>3 DEF Answer, IInv, TypeOK
<1>5. granted' = granted \cup {<<c, req[w].shown>>}
  BY DEF Answer
<1>6. Claims(w, c) /\ answers[c] = 0 /\ c \notin Stored
      /\ \A v \in Worker : Claims(v, c) => v = w
  BY <1>2, <1>3 DEF IInv, ClaimIsExclusive, Claims, At
<1>7. /\ req' \in [Worker -> Request]
      /\ req'[w] = Idle
      /\ \A v \in Worker \ {w} : req'[v] = req[v]
  BY <1>2, BecomeOne, IdleRequest DEF IInv, Finish
<1>8. \A v \in Worker, d \in Code : Claims(v, d)' => v # w /\ d # c /\ Claims(v, d)
  BY <1>6, <1>7 DEF Claims, Idle
<1>9. TypeOK'
  BY <1>1, <1>3, <1>4, <1>5, <1>7 DEF IInv, TypeOK, Stored
<1>10. RequestsAsIssued'
  BY <1>1, <1>7 DEF IInv, RequestsAsIssued, At, Idle
<1>11. ClaimIsExclusive'
  BY <1>1, <1>4, <1>7, <1>8 DEF IInv, ClaimIsExclusive, Stored
<1>12. UnissuedIsUnused' /\ StoredIsUnused'
  BY <1>1, <1>3, <1>4, <1>6 DEF IInv, UnissuedIsUnused, StoredIsUnused, Stored, TypeOK
<1>13. SingleUse'
  BY <1>1, <1>4, <1>6 DEF IInv, SingleUse
<1>14. GrantedAsBound'
  BY <1>1, <1>3, <1>5 DEF IInv, GrantedAsBound
<1> QED
  BY <1>1, <1>9, <1>10, <1>11, <1>12, <1>13, <1>14 DEF IInv, RowsAsIssued, Stored

LEMMA StepPreserves ==
  IInv /\ [Next]_vars => IInv'
<1> SUFFICES ASSUME IInv, [Next]_vars PROVE IInv'
  OBVIOUS
<1>1. ASSUME NEW c \in Code, NEW b \in Binding, NEW offline \in BOOLEAN,
             Issue(c, b, offline)
      PROVE  IInv'
  BY <1>1, IssuePreserves
<1>2. ASSUME NEW w \in Worker, NEW c \in Code, FindNothing(w, c)
      PROVE  IInv'
  BY <1>2, DeletePreserves DEF FindNothing
<1>3. ASSUME NEW w \in Worker, NEW c \in Code, NEW b \in Binding, Find(w, c, b)
      PROVE  IInv'
  BY <1>3, FindPreserves
<1>4. ASSUME NEW w \in Worker, Proceed(w)
      PROVE  IInv'
  BY <1>4, ConsumePreserves, JudgePreserves, SavePreserves, AnswerPreserves
     DEF Proceed
<1>5. ASSUME NEW w \in Worker, Fail(w)
      PROVE  IInv'
  BY <1>5, FinishPreserves DEF Fail, Stored
<1>6. CASE Purge
  BY <1>6, DeletePreserves DEF Purge
<1>7. CASE Tick
  <2>1. now' \in Nat
    BY <1>7 DEF Tick, IInv, TypeOK
  <2> QED
    BY <1>7, <2>1 DEF Tick, IInv, TypeOK, RowsAsIssued, RequestsAsIssued,
       ClaimIsExclusive, UnissuedIsUnused, StoredIsUnused, SingleUse,
       GrantedAsBound, Stored, At, Claims
<1>8. CASE UNCHANGED vars
  BY <1>8 DEF vars, IInv, TypeOK, RowsAsIssued, RequestsAsIssued,
     ClaimIsExclusive, UnissuedIsUnused, StoredIsUnused, SingleUse,
     GrantedAsBound, Stored, At, Claims
<1> QED
  BY <1>1, <1>2, <1>3, <1>4, <1>5, <1>6, <1>7, <1>8 DEF Next

-----------------------------------------------------------------------------
(* The theorems. *)

\* The inductive invariant holds in every reachable state.
THEOREM Invariance == Spec => []IInv
<1>1. Init => IInv
  BY InitEstablishes
<1>2. IInv /\ [Next]_vars => IInv'
  BY StepPreserves
<1> QED
  BY <1>1, <1>2, PTL DEF Spec

\* Types, for any codes, workers, clients and bounds.
THEOREM TypeCorrect == Spec => []TypeOK
<1>1. IInv => TypeOK
  BY DEF IInv
<1> QED
  BY <1>1, Invariance, PTL

\* However many token requests race for a code (Consume, authorizationCodeGrant),
\* it is answered with tokens at most once and starts at most one family.
THEOREM OneAnswerPerCode == Spec => []SingleUse
<1>1. IInv => SingleUse
  BY DEF IInv
<1> QED
  BY <1>1, Invariance, PTL

\* A code whose row is stored has led to nothing and is claimed by nobody.
THEOREM OpenCodeUnused == Spec => []OpenIsUnused
<1>1. IInv => OpenIsUnused
  BY DEF IInv, OpenIsUnused, StoredIsUnused, ClaimIsExclusive, TypeOK
<1> QED
  BY <1>1, Invariance, PTL

\* Tokens only go to a request that presents what the code was bound to.
THEOREM BindingKept == Spec => []GrantedAsBound
<1>1. IInv => GrantedAsBound
  BY DEF IInv
<1> QED
  BY <1>1, Invariance, PTL

-----------------------------------------------------------------------------
(* AuthCodes implements SingleGrant. *)

\* The codes that are open in the contract.
Held == {d \in DOMAIN issued : d \in Stored \/ \E w \in Worker : Claims(w, d)}

OpenPairs == {<<c, issued[c].bound>> : c \in Held}

\* A step that opens no code is a Drop of the contract.
LEMMA DropStep ==
  ASSUME Held' \subseteq Held, UNCHANGED <<issued, granted>>
  PROVE  Contract!Drop
<1>1. OpenPairs' \subseteq OpenPairs
  BY DEF OpenPairs
<1> QED
  BY <1>1 DEF Contract!Drop, OpenPairs, Held

\* What is open shrinks when rows and claims only go.
LEMMA HeldShrinks ==
  ASSUME UNCHANGED issued, Stored' \subseteq Stored,
         \A w \in Worker, c \in Code : Claims(w, c)' => Claims(w, c) \/ c \in Stored,
         DOMAIN issued \subseteq Code
  PROVE  Held' \subseteq Held
BY DEF Held

LEMMA ClaimsUnchanged ==
  UNCHANGED req => \A w \in Worker, c \in Code : Claims(w, c)' <=> Claims(w, c)
BY DEF Claims

LEMMA IssueOpens ==
  ASSUME IInv, NEW c \in Code, NEW b \in Binding, NEW offline \in BOOLEAN,
         Issue(c, b, offline)
  PROVE  Contract!Issue(c, b)
<1>1. /\ c \notin DOMAIN issued
      /\ DOMAIN issued' = DOMAIN issued \cup {c}
      /\ issued'[c].bound = b
      /\ \A d \in DOMAIN issued : issued'[d] = issued[d]
      /\ Stored' = Stored \cup {c}
      /\ UNCHANGED <<req, granted>>
  BY DEF Issue, Stored
<1>2. \A w \in Worker, d \in DOMAIN issued : Claims(w, d)' <=> Claims(w, d)
  BY <1>1 DEF Claims
<1>3. Held' = Held \cup {c}
  BY <1>1, <1>2 DEF Held
<1>4. \A d \in Held : issued'[d] = issued[d]
  BY <1>1 DEF Held
<1>5. OpenPairs' = OpenPairs \cup {<<c, b>>}
  BY <1>1, <1>3, <1>4 DEF OpenPairs
<1> QED
  BY <1>1, <1>5 DEF Contract!Issue, OpenPairs, Held

LEMMA AnswerRedeems ==
  ASSUME IInv, NEW w \in Worker, Answer(w), NEW c \in Code, NEW b \in Binding,
         c = req[w].code, b = req[w].shown
  PROVE  Contract!Redeem(c, b)
<1>1. At(w, "answer") /\ Become(w, Idle) /\ UNCHANGED <<codes, issued>>
      /\ granted' = granted \cup {<<c, b>>}
  BY DEF Answer, Finish
<1>2. c \in DOMAIN issued /\ b = issued[c].bound
  BY <1>1 DEF IInv, RequestsAsIssued, TypeOK, At
<1>3. Claims(w, c) /\ c \notin Stored /\ \A v \in Worker : Claims(v, c) => v = w
  BY <1>1, <1>2 DEF IInv, ClaimIsExclusive, Claims, At
<1>4. \A v \in Worker, d \in Code : Claims(v, d)' <=> Claims(v, d) /\ d # c
  <2> SUFFICES ASSUME NEW v \in Worker, NEW d \in Code
               PROVE  Claims(v, d)' <=> Claims(v, d) /\ d # c
    OBVIOUS
  <2>1. req'[w] = Idle /\ \A u \in Worker \ {w} : req'[u] = req[u]
    BY <1>1, IdleRequest, BecomeOne DEF IInv
  <2>2. CASE v = w
    BY <2>1, <2>2 DEF Claims, Idle
  <2>3. CASE v # w
    BY <1>3, <2>1, <2>3 DEF Claims
  <2> QED
    BY <2>2, <2>3
<1>5. Held' = Held \ {c}
  BY <1>1, <1>3, <1>4 DEF Held, IInv, TypeOK, Stored
<1>6. c \in Held
  BY <1>2, <1>3 DEF Held
<1>7. OpenPairs' = OpenPairs \ {<<c, b>>}
  BY <1>1, <1>2, <1>5 DEF OpenPairs
<1>8. <<c, b>> \in OpenPairs
  BY <1>2, <1>6 DEF OpenPairs
<1> QED
  BY <1>1, <1>7, <1>8 DEF Contract!Redeem, OpenPairs, Held

\* Every concurrent behaviour of the table and its requests is one of the
\* contract: Save of a code is Issue, the answer is Redeem, and deletions and
\* failures are Drop.
THEOREM Refinement == Spec => ContractSpec
<1>1. Init => Contract!Init
  BY DEF Init, Contract!Init
<1>2. ASSUME IInv, [Next]_vars
      PROVE  Contract!Next \/ UNCHANGED Contract!vars
  <2> USE <1>2
  <2>1. TypeOK /\ DOMAIN issued \subseteq Code
    BY DEF IInv, TypeOK
  <2>2. ASSUME NEW c \in Code, NEW b \in Binding, NEW offline \in BOOLEAN,
               Issue(c, b, offline)
        PROVE  Contract!Next
    BY <2>2, IssueOpens DEF Contract!Next
  <2>3. ASSUME NEW S, Delete(S), UNCHANGED <<req, issued, granted>>
        PROVE  Contract!Next
    <3>1. Stored' \subseteq Stored
      BY <2>3, DeleteRows
    <3>2. Held' \subseteq Held
      BY <2>1, <2>3, <3>1, ClaimsUnchanged, HeldShrinks
    <3> QED
      BY <2>3, <3>2, DropStep DEF Contract!Next
  <2>4. ASSUME NEW w \in Worker, NEW r, Become(w, r), UNCHANGED <<issued, granted>>,
               Stored' \subseteq Stored,
               \A c \in Code : r.step \in {"judge", "save", "answer"} /\ r.code = c
                                 => Claims(w, c) \/ c \in Stored
        PROVE  Contract!Next
    <3>1. \A v \in Worker, c \in Code : Claims(v, c)' => Claims(v, c) \/ c \in Stored
      <4> SUFFICES ASSUME NEW v \in Worker, NEW c \in Code, Claims(v, c)', ~ Claims(v, c)
                   PROVE  c \in Stored
        OBVIOUS
      <4>1. v = w /\ r.step \in {"judge", "save", "answer"} /\ r.code = c
        BY <2>1, <2>4 DEF TypeOK, Become, Claims
      <4> QED
        BY <2>4, <4>1
    <3>2. Held' \subseteq Held
      BY <2>1, <2>4, <3>1, HeldShrinks
    <3> QED
      BY <2>4, <3>2, DropStep DEF Contract!Next
  <2>5. ASSUME NEW w \in Worker, NEW c \in Code, NEW b \in Binding, Find(w, c, b)
        PROVE  Contract!Next
    BY <2>4, <2>5 DEF Find, Stored
  <2>6. ASSUME NEW w \in Worker, Finish(w), UNCHANGED <<issued, granted>>,
               Stored' \subseteq Stored
        PROVE  Contract!Next
    BY <2>4, <2>6 DEF Finish, Idle
  <2>7. ASSUME NEW w \in Worker, NEW step \in {"judge", "save", "answer"},
               Goto(w, step), UNCHANGED <<issued, granted>>, Stored' \subseteq Stored,
               req[w].code \in Stored \/ Claims(w, req[w].code)
        PROVE  Contract!Next
    <3> DEFINE r == [req[w] EXCEPT !.step = step]
    <3>1. Become(w, r) /\ r.code = req[w].code
      BY <2>1, <2>7 DEF Goto, TypeOK, Request
    <3> HIDE DEF r
    <3> QED
      BY <2>4, <2>7, <3>1
  <2>8. ASSUME NEW w \in Worker, Consume(w)
        PROVE  Contract!Next
    <3>1. UNCHANGED <<issued, granted>> /\ Stored' \subseteq Stored
      BY <2>8, DeleteRows DEF Consume
    <3> QED
      BY <2>6, <2>7, <2>8, <3>1 DEF Consume
  <2>9. ASSUME NEW w \in Worker, Judge(w)
        PROVE  Contract!Next
    <3>1. UNCHANGED <<issued, granted>> /\ Stored' \subseteq Stored
          /\ Claims(w, req[w].code)
      BY <2>9 DEF Judge, Stored, Claims, At
    <3> QED
      BY <2>6, <2>7, <2>9, <3>1 DEF Judge
  <2>10. ASSUME NEW w \in Worker, Save(w)
         PROVE  Contract!Next
    <3>1. UNCHANGED <<issued, granted>> /\ Stored' \subseteq Stored
          /\ Claims(w, req[w].code)
      BY <2>10 DEF Save, Stored, Claims, At
    <3> QED
      BY <2>7, <2>10, <3>1 DEF Save
  <2>11. ASSUME NEW w \in Worker, Answer(w)
         PROVE  Contract!Next
    <3>1. PICK c \in Code, b \in Binding : c = req[w].code /\ b = req[w].shown
      BY <2>11 DEF Answer, At, IInv, RequestsAsIssued, TypeOK, Row
    <3>2. Contract!Redeem(c, b)
      BY <2>11, <3>1, AnswerRedeems
    <3> QED
      BY <3>2 DEF Contract!Next
  <2>12. CASE Tick \/ UNCHANGED vars
    <3>1. UNCHANGED <<codes, req, issued, granted>>
      BY <2>12 DEF Tick, vars
    <3> QED
      BY <3>1 DEF Contract!vars, Stored, Claims
  <2>13. ASSUME NEW w \in Worker, NEW c \in Code, FindNothing(w, c)
         PROVE  Contract!Next
    BY <2>3, <2>13 DEF FindNothing
  <2>14. CASE Purge
    BY <2>3, <2>14 DEF Purge
  <2>15. ASSUME NEW w \in Worker, Fail(w)
         PROVE  Contract!Next
    BY <2>6, <2>15 DEF Fail, Stored
  <2> QED
    BY <2>2, <2>5, <2>8, <2>9, <2>10, <2>11, <2>12, <2>13, <2>14, <2>15
       DEF Next, Proceed
<1>3. IInv /\ [Next]_vars => [Contract!Next]_(Contract!vars)
  BY <1>2
<1> QED
  BY <1>1, <1>3, Invariance, PTL DEF Spec, ContractSpec, Contract!Spec

=============================================================================
