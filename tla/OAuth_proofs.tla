---------------------------- MODULE OAuth_proofs ----------------------------
(***************************************************************************)
(* Theorems about OAuth, for any number of hand-shakes, codes, requests    *)
(* and users, any lifetime of states, and under all faults.                *)
(***************************************************************************)
EXTENDS OAuth, TLAPS

-----------------------------------------------------------------------------
(* Types.                                                                   *)

Issued == [state: States, owner: Users, redirect: Redirects, used: BOOLEAN]

(* The absent values are none of the others. *)
LEMMA Distinct == NoGrant \notin Grant /\ Unissued \notin Issued
BY ConstantsAssumption DEF NoGrant, Grant, Unissued, Issued

(* A code that came with a request is one that GitHub issued, or invented;  *)
(* a token was bought with one that was issued.                             *)
HoldsCode == \A c \in Calls :
  /\ calls[c].code \in Codes => codes[calls[c].code] \in Issued
  /\ calls[c].at = "user" => calls[c].code \in Codes

TInv == TypeOK /\ HoldsCode

CallsType ==
  [at: {"new", "exchange", "user", "done", "failed", "broken"},
   state: States \cup {Nothing}, code: Codes \cup {Nothing, Invented},
   redirect: Redirects \cup {NoRedirect}]

LEMMA TypeInit == Init => TInv
<1> SUFFICES ASSUME Init PROVE TInv
  OBVIOUS
<1>1. TypeOK
  BY ConstantsAssumption DEF Init, TypeOK, NewCall
<1>2. HoldsCode
  BY ConstantsAssumption DEF Init, HoldsCode, NewCall
<1> QED BY <1>1, <1>2 DEF TInv

LEMMA TypeStep == TInv /\ [Next]_vars => TInv'
<1> SUFFICES ASSUME TInv, [Next]_vars PROVE TInv'
  OBVIOUS
<1> USE ConstantsAssumption DEF TInv
<1>0. TypeOK /\ codes \in [Codes -> Issued \cup {Unissued}]
  BY DEF TypeOK, Issued
<1>1. ASSUME NEW s \in States, NEW r \in Redirects \cup {NoRedirect}, NEW u \in Hints,
             CreateOauthStart(s, r, u)
      PROVE  TInv'
  <2> DEFINE g == [redirect |-> Or(r, DefaultRedirect), hint |-> u, expires |-> now + TTL]
  <2>1. g \in Grant
    BY <1>1 DEF CreateOauthStart, Grant, Or, TypeOK
  <2>2. states' = [states EXCEPT ![s] = g] /\ started' = [started EXCEPT ![s] = g]
    BY <1>1 DEF CreateOauthStart, TypeOK
  <2> HIDE DEF g
  <2> QED BY <1>1, <2>1, <2>2 DEF CreateOauthStart, TypeOK, HoldsCode
<1>2. ASSUME NEW k \in Codes, NEW s \in States, NEW u \in Users, Authorize(k, s, u)
      PROVE  TInv'
  <2> DEFINE i == [state |-> s, owner |-> u, redirect |-> started[s].redirect, used |-> FALSE]
  <2>1. i \in Issued
    BY <1>2 DEF Authorize, TypeOK, Grant, Issued
  <2>2. codes' = [codes EXCEPT ![k] = i]
    BY <1>2 DEF Authorize
  <2> HIDE DEF i
  <2>3. TypeOK'
    BY <1>2, <2>1, <2>2 DEF Authorize, TypeOK, Issued
  <2>4. HoldsCode'
    <3> SUFFICES ASSUME NEW c \in Calls, calls[c].code \in Codes
                 PROVE  codes'[calls[c].code] \in Issued
      BY <1>2 DEF Authorize, HoldsCode
    <3>1. codes[calls[c].code] \in Issued
      BY DEF HoldsCode
    <3> QED BY <1>0, <2>1, <2>2, <3>1
  <2> QED BY <2>3, <2>4
<1>3. ASSUME NEW c \in Calls, NEW k \in Codes \cup {Invented}, NEW s \in States,
             NEW r \in Redirects \cup {NoRedirect}, Accept(c, k, s, r)
      PROVE  TInv'
  <2> DEFINE q == Or(r, states[s].redirect)
             new == [at |-> "exchange", state |-> s, code |-> k, redirect |-> q]
  <2>1. k \in Codes => codes[k] \in Issued
    BY <1>0, <1>3 DEF Accept, Presented
  <2>2. states[s] \in Grant
    BY <1>3 DEF Accept, Acceptable, TypeOK
  <2>3. q \in Redirects \cup {NoRedirect}
    BY <2>2 DEF Or, Grant
  <2>4. calls' = [calls EXCEPT ![c] = new]
    BY <1>3 DEF Accept, LetIn
  <2> HIDE DEF q
  <2>5. TypeOK'
    <3>1. calls' \in [Calls -> CallsType]
      BY <2>3, <2>4 DEF TypeOK, CallsType
    <3>2. states' \in [States -> Grant \cup {NoGrant}]
      BY <1>3 DEF Accept, TypeOK
    <3> QED BY <1>3, <3>1, <3>2 DEF Accept, TypeOK, CallsType
  <2>6. HoldsCode'
    <3>1. /\ codes' = codes /\ calls'[c].code = k /\ calls'[c].at = "exchange"
          /\ \A d \in Calls \ {c} : calls'[d] = calls[d]
      BY <1>3, <2>4 DEF Accept, TypeOK
    <3> QED BY <2>1, <3>1 DEF HoldsCode
  <2> QED BY <2>5, <2>6
<1>4. ASSUME NEW c \in Calls, NEW s \in States, NEW r \in Redirects \cup {NoRedirect},
             Refuse(c, s, r)
      PROVE  TInv'
  BY <1>4 DEF Refuse, Ended, TypeOK, HoldsCode
<1>5. ASSUME NEW c \in Calls, NEW s \in States, ConsumeRaises(c, s) PROVE TInv'
  BY <1>5 DEF ConsumeRaises, Ended, TypeOK, HoldsCode
<1>6. ASSUME NEW c \in Calls, Exchange(c) \/ ExchangeFails(c) PROVE TInv'
  <2> DEFINE k == calls[c].code
             i == [codes[k] EXCEPT !.used = TRUE]
  <2>1. codes' = codes \/ (k \in Codes /\ codes' = [codes EXCEPT ![k] = i])
    BY <1>6 DEF Exchange, ExchangeFails, Use, Redeemable
  <2>2. k \in Codes => i \in Issued
    BY DEF HoldsCode, Issued
  <2> HIDE DEF i, k
  <2>3. codes' \in [Codes -> Issued \cup {Unissued}]
    BY <1>0, <2>1, <2>2
  <2>4. \E at \in {"user", "failed", "broken"} :
          /\ calls' = [calls EXCEPT ![c] = [calls[c] EXCEPT !.at = at]]
          /\ at = "user" => calls[c].code \in Codes
    BY <1>6 DEF Exchange, ExchangeFails, Ended, Redeemable
  <2>5. /\ calls' \in [Calls -> CallsType]
        /\ \A d \in Calls : /\ calls'[d].code = calls[d].code
                            /\ calls'[d].at = "user" => calls[d].at = "user" \/ calls[d].code \in Codes
    BY <2>4 DEF TypeOK, CallsType
  <2>6. \A l \in Codes : codes[l] \in Issued => codes'[l] \in Issued
    BY <1>0, <2>1, <2>2
  <2>7. HoldsCode'
    BY <2>5, <2>6 DEF HoldsCode
  <2> QED BY <1>6, <2>3, <2>5, <2>7 DEF Exchange, ExchangeFails, TypeOK, Issued, CallsType
<1>7. ASSUME NEW c \in Calls, StoreToken(c) PROVE TInv'
  <2>1. calls' = [calls EXCEPT ![c] = [calls[c] EXCEPT !.at = "done"]]
    BY <1>7 DEF StoreToken, Ended
  <2>2. /\ calls' \in [Calls -> CallsType]
        /\ \A d \in Calls : /\ calls'[d].code = calls[d].code
                            /\ calls'[d].at = "user" => calls[d].at = "user"
    BY <2>1 DEF TypeOK, CallsType
  <2>3. stored' \in [Users -> Codes \cup {Nothing, ByHand}]
    BY <1>7 DEF StoreToken, TypeOK, HoldsCode
  <2> QED BY <1>7, <2>2, <2>3 DEF StoreToken, TypeOK, HoldsCode, CallsType
<1>8. ASSUME NEW c \in Calls, StoreFails(c) PROVE TInv'
  BY <1>8 DEF StoreFails, Ended, TypeOK, HoldsCode
<1>9. ASSUME NEW u \in Users, StoreOauthToken(u) PROVE TInv'
  BY <1>9 DEF StoreOauthToken, TypeOK, HoldsCode
<1>10. CASE Crash
  <2>1. /\ calls' = [d \in Calls |-> IF calls[d].at \in {"exchange", "user"}
                                     THEN [calls[d] EXCEPT !.at = "broken"] ELSE calls[d]]
        /\ UNCHANGED <<states, stored, now, started, codes>>
    BY <1>10 DEF Crash
  <2>2. calls' \in [Calls -> CallsType]
    BY <2>1 DEF TypeOK, CallsType
  <2>3. \A d \in Calls : calls'[d].code = calls[d].code /\ calls'[d].at # "user"
    BY <2>1 DEF TypeOK, CallsType
  <2> QED BY <2>1, <2>2, <2>3 DEF TypeOK, HoldsCode, CallsType
<1>11. CASE Tick
  BY <1>11 DEF Tick, TypeOK, HoldsCode
<1>12. CASE UNCHANGED vars
  BY <1>12 DEF vars, TypeOK, HoldsCode
<1> QED
  BY <1>1, <1>2, <1>3, <1>4, <1>5, <1>6, <1>7, <1>8, <1>9, <1>10, <1>11, <1>12
  DEF Next, Callback

(* Every variable keeps its shape in every reachable state. *)
THEOREM TypeCorrect == Spec => []TypeOK
<1>1. TInv => TypeOK
  BY DEF TInv
<1> QED BY <1>1, TypeInit, TypeStep, PTL DEF Spec

-----------------------------------------------------------------------------
(* A state is consumed in the vault before a code goes to GitHub, and is    *)
(* never issued again: so it lets one request in, with the URI it was       *)
(* started with, and whoever spent a code was let in with another state.    *)

Consumed(s) == started[s] \in Grant /\ states[s] = NoGrant
Exchanging(c) == calls[c].at = "exchange"
Waiting(c) == calls[c].at \in {"exchange", "user"}
Admitted(c) == calls[c].state # Nothing

Origin == \A k \in Codes : codes[k] \in Issued =>
  /\ started[codes[k].state] \in Grant
  /\ codes[k].redirect = started[codes[k].state].redirect
Copied == \A s \in States : states[s] \in Grant => states[s] = started[s]
AdmittedOnce == \A c \in Calls : Admitted(c) => Consumed(calls[c].state)
RedirectKept == \A c \in Calls :
  Admitted(c) => calls[c].redirect = started[calls[c].state].redirect
WaitersAdmitted == \A c \in Calls : Waiting(c) => Admitted(c)
SpentByCall == \A k \in Codes : codes[k].used =>
  \E d \in Calls : calls[d].code = k /\ Admitted(d) /\ ~Exchanging(d)
HasBought == \A c \in Calls : calls[c].at = "user" => codes[calls[c].code].used

Core ==
  /\ Origin /\ Copied
  /\ AdmittedOnce /\ RedirectKept /\ WaitersAdmitted /\ OneTokenPerState
  /\ SpentByCall /\ HasBought

IInv == TInv /\ Core /\ TokensBelongToOwner

LEMMA SafetyInit == Init => IInv
<1> SUFFICES ASSUME Init PROVE IInv
  OBVIOUS
<1>1. TInv
  BY TypeInit
<1>2. \A k \in Codes : codes[k] \notin Issued /\ ~codes[k].used
  BY Distinct DEF Init, Unissued
<1>3. \A c \in Calls : calls[c].at = "new" /\ calls[c].state = Nothing
  BY DEF Init, NewCall
<1>4. \A s \in States : states[s] \notin Grant
  BY Distinct DEF Init
<1>5. Core
  BY <1>2, <1>3, <1>4
  DEF Core, Origin, Copied, AdmittedOnce, RedirectKept, WaitersAdmitted, OneTokenPerState,
      SpentByCall, HasBought, Waiting, Admitted
<1>6. TokensBelongToOwner
  BY ConstantsAssumption DEF Init, TokensBelongToOwner
<1> QED BY <1>1, <1>5, <1>6 DEF IInv

(* What a request was let in with never changes, and only letting in takes  *)
(* it to GitHub.                                                            *)
Carries(c) ==
  /\ calls'[c].state = calls[c].state /\ calls'[c].code = calls[c].code
  /\ calls'[c].redirect = calls[c].redirect
  /\ Exchanging(c)' => Exchanging(c)
  /\ Waiting(c)' => Waiting(c)

LEMMA CarriedOn ==
  ASSUME Core, TInv, started' = started, \A c \in Calls : Carries(c),
         \A s \in States : states'[s] \in {states[s], NoGrant}
  PROVE  /\ Copied' /\ AdmittedOnce' /\ RedirectKept' /\ WaitersAdmitted' /\ OneTokenPerState'
         /\ \A c \in Calls : (Admitted(c)' <=> Admitted(c)) /\ (Exchanging(c)' => Exchanging(c))
<1>1. \A c \in Calls : /\ calls'[c].state = calls[c].state
                       /\ calls'[c].redirect = calls[c].redirect
                       /\ Admitted(c)' <=> Admitted(c)
                       /\ Waiting(c)' => Waiting(c)
                       /\ Exchanging(c)' => Exchanging(c)
  BY DEF Carries, Admitted
<1>2. \A c \in Calls : Admitted(c) => calls[c].state \in States
  BY DEF TInv, TypeOK, Admitted
<1>3. \A s \in States : Consumed(s) => started'[s] \in Grant /\ states'[s] = NoGrant
  BY DEF Consumed
<1>4. Copied'
  BY Distinct DEF Core, Copied
<1>5. AdmittedOnce'
  <2>1. \A c \in Calls : Admitted(c) =>
          started'[calls[c].state] \in Grant /\ states'[calls[c].state] = NoGrant
    BY <1>2, <1>3 DEF Core, AdmittedOnce
  <2> QED BY <1>1, <2>1 DEF AdmittedOnce, Consumed
<1>6. RedirectKept'
  BY <1>1 DEF Core, RedirectKept
<1>7. WaitersAdmitted'
  BY <1>1 DEF Core, WaitersAdmitted
<1>8. OneTokenPerState'
  BY <1>1 DEF Core, OneTokenPerState
<1> QED BY <1>1, <1>4, <1>5, <1>6, <1>7, <1>8

(* Steps that only end requests and remove states from the vault.           *)
LEMMA Withdrawing ==
  ASSUME Core, TInv, codes' = codes, started' = started, \A c \in Calls : Carries(c),
         \A c \in Calls : calls'[c].at = "user" => calls[c].at = "user",
         \A s \in States : states'[s] \in {states[s], NoGrant}
  PROVE  Core'
<1>1. /\ Copied' /\ AdmittedOnce' /\ RedirectKept' /\ WaitersAdmitted' /\ OneTokenPerState'
      /\ \A c \in Calls : (Admitted(c)' <=> Admitted(c)) /\ (Exchanging(c)' => Exchanging(c))
  BY CarriedOn
<1>2. Origin'
  BY DEF Core, Origin
<1>3. SpentByCall'
  BY <1>1 DEF Core, SpentByCall, Carries
<1>4. HasBought'
  BY DEF Core, HasBought, Carries
<1> QED BY <1>1, <1>2, <1>3, <1>4 DEF Core

(* GitHub marks the code of a request used, and the request leaves          *)
(* "exchange".                                                              *)
LEMMA Buying ==
  ASSUME Core, TInv, NEW c \in Calls, Exchanging(c), calls[c].code \in Codes,
         codes' = Use(calls[c].code), states' = states, started' = started,
         NEW at \in {"user", "failed", "broken"}, calls' = Ended(c, at)
  PROVE  Core'
<1> DEFINE k == calls[c].code
<1>1. codes[k] \in Issued /\ Admitted(c)
  BY DEF TInv, HoldsCode, Core, WaitersAdmitted, Waiting, Exchanging
<1>2. /\ codes \in [Codes -> Issued \cup {Unissued}]
      /\ codes' = [codes EXCEPT ![k] = [codes[k] EXCEPT !.used = TRUE]]
  BY DEF TInv, TypeOK, Issued, Use
<1>3. \A l \in Codes :
        /\ codes'[l].state = codes[l].state /\ codes'[l].redirect = codes[l].redirect
        /\ codes'[l] \in Issued <=> codes[l] \in Issued
        /\ l # k => codes'[l].used = codes[l].used
        /\ l = k => codes'[l].used
  <2> SUFFICES ASSUME NEW l \in Codes
               PROVE  /\ codes'[l].state = codes[l].state /\ codes'[l].redirect = codes[l].redirect
                      /\ codes'[l] \in Issued <=> codes[l] \in Issued
                      /\ l # k => codes'[l].used = codes[l].used
                      /\ l = k => codes'[l].used
    OBVIOUS
  <2>1. CASE l = k
    <3> DEFINE i == [codes[k] EXCEPT !.used = TRUE]
    <3>1. i \in Issued /\ i.state = codes[k].state /\ i.redirect = codes[k].redirect /\ i.used
      BY <1>1 DEF Issued
    <3>2. codes'[k] = i
      BY <1>1, <1>2
    <3> QED BY <1>1, <2>1, <3>1, <3>2
  <2>2. CASE l # k
    BY <1>2, <2>2
  <2> QED BY <2>1, <2>2
<1>4. /\ \A d \in Calls \ {c} : calls'[d] = calls[d]
      /\ calls'[c].at = at /\ calls'[c].code = k
      /\ calls'[c].state = calls[c].state /\ calls'[c].redirect = calls[c].redirect
  <2>1. calls' = [calls EXCEPT ![c] = [calls[c] EXCEPT !.at = at]]
    BY DEF Ended
  <2>2. /\ DOMAIN calls = Calls
        /\ calls[c] = [at |-> calls[c].at, state |-> calls[c].state, code |-> k,
                       redirect |-> calls[c].redirect]
    BY DEF TInv, TypeOK
  <2> QED BY <2>1, <2>2
<1>5. \A d \in Calls : Carries(d)
  BY <1>4 DEF Carries, Exchanging, Waiting
<1>6. /\ Copied' /\ AdmittedOnce' /\ RedirectKept' /\ WaitersAdmitted' /\ OneTokenPerState'
      /\ \A d \in Calls : (Admitted(d)' <=> Admitted(d)) /\ (Exchanging(d)' => Exchanging(d))
  BY <1>5, CarriedOn
<1> HIDE DEF k
<1>7. Origin'
  BY <1>3 DEF Core, Origin
<1>8. SpentByCall'
  <2> SUFFICES ASSUME NEW l \in Codes, codes'[l].used
               PROVE  \E d \in Calls : calls'[d].code = l /\ Admitted(d)' /\ ~Exchanging(d)'
    BY DEF SpentByCall
  <2>1. CASE l = k
    BY <1>1, <1>4, <1>6, <2>1 DEF Exchanging
  <2>2. CASE l # k
    <3>1. PICK d \in Calls : calls[d].code = l /\ Admitted(d) /\ ~Exchanging(d)
      BY <1>3, <2>2 DEF Core, SpentByCall
    <3> QED BY <1>5, <1>6, <3>1 DEF Carries
  <2> QED BY <2>1, <2>2
<1>9. HasBought'
  <2> SUFFICES ASSUME NEW d \in Calls, calls'[d].at = "user" PROVE codes'[calls'[d].code].used
    BY DEF HasBought
  <2>1. CASE d = c
    BY <1>3, <1>4, <2>1 DEF k
  <2>2. CASE d # c
    <3>1. calls'[d] = calls[d] /\ calls[d].code \in Codes /\ codes[calls[d].code].used
      BY <1>4, <2>2 DEF Core, HasBought, TInv, HoldsCode
    <3> QED BY <1>3, <3>1
  <2> QED BY <2>1, <2>2
<1> QED BY <1>6, <1>7, <1>8, <1>9 DEF Core

LEMMA Starting ==
  ASSUME Core, TInv, NEW s \in States, NEW r \in Redirects \cup {NoRedirect},
         NEW u \in Hints, CreateOauthStart(s, r, u)
  PROVE  Core'
<1>1. /\ started[s] \notin Grant
      /\ codes' = codes /\ calls' = calls
      /\ \A t \in States \ {s} : states'[t] = states[t] /\ started'[t] = started[t]
      /\ states'[s] = started'[s]
  BY Distinct DEF CreateOauthStart, TInv, TypeOK
<1>2. \A k \in Codes : codes[k] \in Issued => codes[k].state \in States \ {s}
  BY <1>1 DEF Core, Origin, Issued
<1>3. \A c \in Calls : Admitted(c) => calls[c].state \in States \ {s}
  BY <1>1 DEF Core, AdmittedOnce, Consumed, Admitted, TInv, TypeOK
<1>4. \A c \in Calls : (Admitted(c)' <=> Admitted(c)) /\ (Waiting(c)' <=> Waiting(c))
  BY <1>1 DEF Admitted, Waiting
<1>5. Origin'
  BY <1>1, <1>2 DEF Core, Origin
<1>6. Copied'
  BY <1>1 DEF Core, Copied
<1>7. AdmittedOnce'
  BY <1>1, <1>3, <1>4 DEF Core, AdmittedOnce, Consumed
<1>8. RedirectKept'
  BY <1>1, <1>3, <1>4 DEF Core, RedirectKept
<1>9. WaitersAdmitted'
  BY <1>4 DEF Core, WaitersAdmitted
<1>10. OneTokenPerState' /\ SpentByCall' /\ HasBought'
  BY <1>1 DEF Core, OneTokenPerState, SpentByCall, HasBought, Admitted, Exchanging
<1> QED BY <1>5, <1>6, <1>7, <1>8, <1>9, <1>10 DEF Core

LEMMA Authorizing ==
  ASSUME Core, TInv, NEW k \in Codes, NEW s \in States, NEW u \in Users, Authorize(k, s, u)
  PROVE  Core'
<1>1. /\ calls' = calls /\ states' = states /\ started' = started
      /\ started[s] \in Grant
      /\ codes[k] = Unissued
      /\ \A l \in Codes \ {k} : codes'[l] = codes[l]
      /\ codes'[k].state = s /\ codes'[k].redirect = started[s].redirect /\ ~codes'[k].used
  BY DEF Authorize, TInv, TypeOK
<1>2. Origin'
  <2> SUFFICES ASSUME NEW l \in Codes, codes'[l] \in Issued
               PROVE  /\ started[codes'[l].state] \in Grant
                      /\ codes'[l].redirect = started[codes'[l].state].redirect
    BY <1>1 DEF Origin
  <2>1. CASE l = k
    BY <1>1, <2>1
  <2>2. CASE l # k
    BY <1>1, <2>2 DEF Core, Origin
  <2> QED BY <2>1, <2>2
<1>3. Copied' /\ AdmittedOnce' /\ RedirectKept' /\ WaitersAdmitted' /\ OneTokenPerState'
  BY <1>1 DEF Core, Copied, AdmittedOnce, RedirectKept, WaitersAdmitted, OneTokenPerState,
              Admitted, Consumed, Waiting
<1>4. SpentByCall'
  BY <1>1 DEF Core, SpentByCall, Admitted, Exchanging
<1>5. HasBought'
  <2>1. \A c \in Calls : calls[c].at = "user" => calls[c].code \in Codes \ {k}
    BY <1>1, Distinct DEF TInv, HoldsCode
  <2> QED BY <1>1, <2>1 DEF Core, HasBought
<1> QED BY <1>2, <1>3, <1>4, <1>5 DEF Core

LEMMA Accepting ==
  ASSUME Core, TInv, NEW c \in Calls, NEW k \in Codes \cup {Invented}, NEW s \in States,
         NEW r \in Redirects \cup {NoRedirect}, Accept(c, k, s, r)
  PROVE  Core'
<1> DEFINE q == Or(r, states[s].redirect)
<1>1. states[s] \in Grant /\ states[s] = started[s] /\ r \in {NoRedirect, states[s].redirect}
  BY DEF Accept, Acceptable, Core, Copied, TInv, TypeOK
<1>2. q = started[s].redirect
  BY <1>1 DEF Or
<1>3. /\ codes' = codes /\ started' = started
      /\ \A t \in States \ {s} : states'[t] = states[t]
      /\ states'[s] = NoGrant
      /\ \A d \in Calls \ {c} : calls'[d] = calls[d]
      /\ calls'[c] = [at |-> "exchange", state |-> s, code |-> k, redirect |-> q]
      /\ calls[c] = NewCall
  BY DEF Accept, Presented, LetIn, TInv, TypeOK
<1>4. ~Consumed(s) /\ started'[s] \in Grant /\ states'[s] = NoGrant
  BY <1>1, <1>3, Distinct DEF Consumed
<1>5. \A d \in Calls : Admitted(d) => calls[d].state \in States \ {s}
  BY <1>4 DEF Core, AdmittedOnce, Admitted, TInv, TypeOK
<1>6. ~Admitted(c) /\ calls[c].at = "new"
  BY <1>3 DEF Admitted, NewCall
<1> HIDE DEF q
<1>7. \A d \in Calls \ {c} : /\ Admitted(d)' <=> Admitted(d)
                             /\ Waiting(d)' <=> Waiting(d)
                             /\ Exchanging(d)' <=> Exchanging(d)
  BY <1>3 DEF Admitted, Waiting, Exchanging
<1>8. Admitted(c)'
  BY <1>3, ConstantsAssumption DEF Admitted
<1>9. Origin'
  BY <1>3 DEF Core, Origin
<1>10. Copied'
  BY <1>3, Distinct DEF Core, Copied
<1>11. AdmittedOnce'
  <2> SUFFICES ASSUME NEW d \in Calls, Admitted(d)' PROVE Consumed(calls[d].state)'
    BY DEF AdmittedOnce
  <2>1. CASE d = c
    BY <1>3, <1>4, <2>1 DEF Consumed
  <2>2. CASE d # c
    BY <1>3, <1>5, <1>7, <2>2 DEF Core, AdmittedOnce, Consumed
  <2> QED BY <2>1, <2>2
<1>12. RedirectKept'
  <2> SUFFICES ASSUME NEW d \in Calls, Admitted(d)'
               PROVE  calls'[d].redirect = started[calls'[d].state].redirect
    BY <1>3 DEF RedirectKept
  <2>1. CASE d = c
    BY <1>2, <1>3, <2>1
  <2>2. CASE d # c
    BY <1>3, <1>7, <2>2 DEF Core, RedirectKept
  <2> QED BY <2>1, <2>2
<1>13. WaitersAdmitted'
  BY <1>7, <1>8 DEF Core, WaitersAdmitted
<1>14. OneTokenPerState'
  <2> SUFFICES ASSUME NEW d \in Calls, NEW e \in Calls,
                      calls'[d].state # Nothing, calls'[d].state = calls'[e].state
               PROVE  d = e
    BY DEF OneTokenPerState
  <2>1. calls'[c].state = s /\ \A f \in Calls \ {c} : calls'[f].state = calls[f].state
    BY <1>3
  <2>2. \A f \in Calls \ {c} : calls'[f].state # s
    BY <1>5, <2>1, ConstantsAssumption DEF Admitted
  <2> QED BY <2>1, <2>2 DEF Core, OneTokenPerState
<1>15. SpentByCall'
  <2> SUFFICES ASSUME NEW l \in Codes, codes[l].used
               PROVE  \E d \in Calls : calls'[d].code = l /\ Admitted(d)' /\ ~Exchanging(d)'
    BY <1>3 DEF SpentByCall
  <2>1. PICK d \in Calls : calls[d].code = l /\ Admitted(d) /\ ~Exchanging(d)
    BY DEF Core, SpentByCall
  <2> QED BY <1>3, <1>6, <1>7, <2>1
<1>16. HasBought'
  BY <1>3 DEF Core, HasBought
<1> QED BY <1>9, <1>10, <1>11, <1>12, <1>13, <1>14, <1>15, <1>16 DEF Core

(* No step changes the owner of a code or takes back that it was used.      *)
LEMMA CodesKept ==
  ASSUME TInv, TInv', [Next]_vars, NEW k \in Codes, codes[k].used
  PROVE  codes'[k].used /\ codes'[k].owner = codes[k].owner
<1>1. codes \in [Codes -> Issued \cup {Unissued}] /\ codes[k] # Unissued
  BY DEF TInv, TypeOK, Issued, Unissued
<1>2. ASSUME NEW l \in Codes, NEW s \in States, NEW u \in Users, Authorize(l, s, u)
      PROVE  codes'[k] = codes[k]
  BY <1>1, <1>2 DEF Authorize
<1>3. ASSUME NEW c \in Calls, Exchange(c) \/ ExchangeFails(c)
      PROVE  codes'[k].used /\ codes'[k].owner = codes[k].owner
  <2>1. codes' = codes \/ codes' = Use(calls[c].code)
    BY <1>3 DEF Exchange, ExchangeFails
  <2>2. CASE codes' = Use(calls[c].code)
    <3>1. CASE calls[c].code = k
      <4>1. codes[k] \in Issued /\ codes'[k] = [codes[k] EXCEPT !.used = TRUE]
        BY <1>1, <2>2, <3>1 DEF Use
      <4> QED BY <4>1 DEF Issued
    <3>2. CASE calls[c].code # k
      BY <1>1, <2>2, <3>2 DEF Use
    <3> QED BY <3>1, <3>2
  <2> QED BY <2>1, <2>2
<1>4. CASE codes' = codes
  BY <1>4
<1> QED
  BY <1>2, <1>3, <1>4
  DEF Next, Callback, vars, CreateOauthStart, Accept, Refuse, ConsumeRaises, StoreToken,
      StoreFails, StoreOauthToken, Crash, Tick

LEMMA Ending ==
  ASSUME TInv, NEW c \in Calls, NEW at \in {"done", "failed", "broken"}, calls' = Ended(c, at)
  PROVE  \A d \in Calls : Carries(d) /\ (calls'[d].at = "user" => calls[d].at = "user")
<1>1. calls \in [Calls -> CallsType] /\ calls' = [calls EXCEPT ![c] = [calls[c] EXCEPT !.at = at]]
  BY DEF TInv, TypeOK, CallsType, Ended
<1>2. \A d \in Calls : /\ calls'[d].state = calls[d].state /\ calls'[d].code = calls[d].code
                       /\ calls'[d].redirect = calls[d].redirect
                       /\ calls'[d].at = calls[d].at \/ calls'[d].at = at
  BY <1>1 DEF CallsType
<1> QED BY <1>2 DEF Carries, Exchanging, Waiting

LEMMA SafetyStep == IInv /\ [Next]_vars => IInv'
<1> SUFFICES ASSUME IInv, [Next]_vars PROVE IInv'
  OBVIOUS
<1>1. TInv /\ TInv' /\ Core
  BY TypeStep DEF IInv
<1>2. Core'
  <2>1. ASSUME NEW s \in States, NEW r \in Redirects \cup {NoRedirect}, NEW u \in Hints,
               CreateOauthStart(s, r, u)
        PROVE  Core'
    BY <1>1, <2>1, Starting
  <2>2. ASSUME NEW k \in Codes, NEW s \in States, NEW u \in Users, Authorize(k, s, u)
        PROVE  Core'
    BY <1>1, <2>2, Authorizing
  <2>3. ASSUME NEW c \in Calls, NEW k \in Codes \cup {Invented}, NEW s \in States,
               NEW r \in Redirects \cup {NoRedirect}, Accept(c, k, s, r)
        PROVE  Core'
    BY <1>1, <2>3, Accepting
  <2>4. ASSUME NEW c \in Calls, NEW s \in States, NEW r \in Redirects \cup {NoRedirect},
               Refuse(c, s, r) \/ ConsumeRaises(c, s)
        PROVE  Core'
    <3>1. /\ calls' = Ended(c, "failed") \/ calls' = Ended(c, "broken")
          /\ codes' = codes /\ started' = started
          /\ \A t \in States : states'[t] \in {states[t], NoGrant}
      BY <1>1, <2>4 DEF Refuse, ConsumeRaises, TInv, TypeOK
    <3> QED BY <1>1, <3>1, Ending, Withdrawing
  <2>5. ASSUME NEW c \in Calls, Exchange(c) PROVE Core'
    BY <1>1, <2>5, Buying DEF Exchange, Exchanging, Redeemable
  <2>6. ASSUME NEW c \in Calls, ExchangeFails(c) PROVE Core'
    <3>1. CASE Redeemable(c) /\ codes' = Use(calls[c].code)
      BY <1>1, <2>6, <3>1, Buying DEF ExchangeFails, Exchanging, Redeemable
    <3>2. CASE codes' = codes
      <4>1. /\ calls' = Ended(c, "failed") \/ calls' = Ended(c, "broken")
            /\ states' = states /\ started' = started
        BY <2>6 DEF ExchangeFails
      <4> QED BY <1>1, <3>2, <4>1, Ending, Withdrawing
    <3> QED BY <2>6, <3>1, <3>2 DEF ExchangeFails
  <2>7. ASSUME NEW c \in Calls, StoreToken(c) \/ StoreFails(c) PROVE Core'
    <3>1. /\ calls' = Ended(c, "done") \/ calls' = Ended(c, "broken")
          /\ codes' = codes /\ states' = states /\ started' = started
      BY <2>7 DEF StoreToken, StoreFails
    <3> QED BY <1>1, <3>1, Ending, Withdrawing
  <2>8. CASE Crash
    <3>1. \A c \in Calls : Carries(c) /\ (calls'[c].at = "user" => calls[c].at = "user")
      BY <1>1, <2>8 DEF Crash, Carries, Exchanging, Waiting, TInv, TypeOK
    <3> QED BY <1>1, <2>8, <3>1, Withdrawing DEF Crash
  <2>9. CASE Tick \/ UNCHANGED vars \/ \E u \in Users : StoreOauthToken(u)
    <3>1. calls' = calls /\ codes' = codes /\ started' = started /\ states' = states
      BY <2>9 DEF Tick, vars, StoreOauthToken
    <3>2. \A c \in Calls : Carries(c)
      BY <3>1 DEF Carries, Exchanging, Waiting
    <3> QED BY <1>1, <3>1, <3>2, Withdrawing
  <2> QED
    BY <2>1, <2>2, <2>3, <2>4, <2>5, <2>6, <2>7, <2>8, <2>9 DEF Next, Callback
<1>3. TokensBelongToOwner'
  <2> SUFFICES ASSUME NEW u \in Users, stored'[u] \in Codes
               PROVE  codes'[stored'[u]].owner = u /\ codes'[stored'[u]].used
    BY DEF TokensBelongToOwner
  <2>1. CASE stored'[u] = stored[u]
    BY <1>1, <2>1, CodesKept DEF IInv, TokensBelongToOwner
  <2>2. ASSUME NEW c \in Calls, StoreToken(c), stored'[u] # stored[u]
        PROVE  codes'[stored'[u]].owner = u /\ codes'[stored'[u]].used
    <3>1. u = codes[calls[c].code].owner /\ stored'[u] = calls[c].code /\ codes' = codes
      BY <1>1, <2>2 DEF StoreToken, TInv, TypeOK
    <3>2. codes[calls[c].code].used
      BY <1>1, <2>2 DEF StoreToken, Core, HasBought
    <3> QED BY <3>1, <3>2
  <2>3. ASSUME NEW v \in Users, StoreOauthToken(v) PROVE stored'[u] = stored[u]
    BY <1>1, <2>3, ConstantsAssumption DEF StoreOauthToken, TInv, TypeOK
  <2> QED
    BY <2>1, <2>2, <2>3
    DEF Next, Callback, vars, CreateOauthStart, Authorize, Accept, Refuse, ConsumeRaises,
        Exchange, ExchangeFails, StoreFails, Crash, Tick
<1> QED BY <1>1, <1>2, <1>3 DEF IInv

LEMMA SafetyInvariant == Spec => []IInv
<1> QED BY SafetyInit, SafetyStep, PTL DEF Spec

(* A state lets one callback through, under all faults and whichever codes  *)
(* come with it (_consume_oauth_state).                                     *)
THEOREM StatesBuyOnce == Spec => []OneTokenPerState
<1>1. IInv => OneTokenPerState
  BY DEF IInv, Core
<1> QED BY <1>1, SafetyInvariant, PTL

(* What goes to GitHub with its own state is a code that GitHub accepts, or *)
(* one that came with another state as well (complete_oauth_callback).      *)
THEOREM CodesAreGood == Spec => []CodeIsGood
<1>1. IInv => CodeIsGood
  <2> SUFFICES ASSUME IInv, NEW c \in Calls, Exchanging(c), Matched(c), ~Redeemable(c)
               PROVE  CameElsewhere(c)
    BY DEF CodeIsGood, Exchanging
  <2> DEFINE k == calls[c].code
  <2>1. k \in Codes /\ codes[k] \in Issued /\ codes[k].state = calls[c].state /\ Admitted(c)
    BY DEF IInv, TInv, HoldsCode, Matched, Core, WaitersAdmitted, Waiting, Exchanging
  <2>2. calls[c].redirect = codes[k].redirect
    BY <2>1 DEF IInv, Core, RedirectKept, Origin
  <2>3. codes[k].used
    BY <2>1, <2>2 DEF Redeemable
  <2>4. PICK d \in Calls : calls[d].code = k /\ Admitted(d) /\ ~Exchanging(d)
    BY <2>1, <2>3 DEF IInv, Core, SpentByCall
  <2>5. calls[d].state # calls[c].state
    BY <2>1, <2>4 DEF IInv, Core, OneTokenPerState, Admitted
  <2> QED BY <2>4, <2>5 DEF CameElsewhere
<1> QED BY <1>1, SafetyInvariant, PTL

(* A token is stored for the user who authorized it. *)
THEOREM TokensAreTheOwners == Spec => []TokensBelongToOwner
<1>1. IInv => TokensBelongToOwner
  BY DEF IInv
<1> QED BY <1>1, SafetyInvariant, PTL

=============================================================================
