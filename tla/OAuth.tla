------------------------------- MODULE OAuth --------------------------------
(***************************************************************************)
(* backend/app/github_service.py: the OAuth hand-shake with GitHub.        *)
(*                                                                         *)
(* /api/github/oauth/start puts a state into the vault and answers with a  *)
(* URL; the user authorizes there, GitHub redirects the browser to         *)
(* /api/github/oauth/callback with a code; the callback consumes the state *)
(* without an await and then awaits GitHub twice, for the token and for    *)
(* the user's profile, before it stores the token.  Callbacks interleave   *)
(* at these awaits; browsers repeat them; users authorize a URL again.     *)
(***************************************************************************)
EXTENDS Integers, FiniteSets

CONSTANTS
  States,     \* OAuth states (random strings)
  Codes,      \* codes GitHub may issue; the token bought with one has its name
  Calls,      \* callback requests
  Users,      \* GitHub logins
  Hints,      \* the owner hints that come with a start
  Redirects,  \* redirect URIs
  NoRedirect, \* the query parameter or the setting is not there
  DefaultRedirect, \* GITHUB_OAUTH_REDIRECT_URI
  Nothing,    \* no state, no code, no token
  Invented,   \* a code that GitHub does not know
  ByHand,     \* a token that came with POST /api/oauth/token
  TTL,        \* OAUTH_STATE_TTL_SECONDS, in ticks
  Faults,     \* what may go wrong, out of FaultKinds
  MaxTime     \* bound on the clock

FaultKinds == {"crash",   \* the process is killed
               "raise",   \* a vault write raises and leaves the file as it was
               "github"}  \* GitHub refuses, times out or answers nonsense

ASSUME ConstantsAssumption ==
  /\ NoRedirect \notin Redirects
  /\ DefaultRedirect \in Redirects \cup {NoRedirect}
  /\ Hints \subseteq Users
  /\ Nothing \notin States /\ Nothing \notin Codes /\ Nothing \notin Users
  /\ Invented \notin Codes /\ Invented # Nothing
  /\ ByHand \notin Codes /\ ByHand # Nothing
  /\ TTL \in Nat /\ MaxTime \in Nat
  /\ Faults \subseteq FaultKinds

VARIABLES
  states,   \* "github_oauth_state::<state>" in the vault
  stored,   \* "oauth::github::<owner>" in the vault: the token
  calls,    \* the callback requests: where they are, and what they were let in with
  now,      \* the clock
  started,  \* history: the URL that was handed out for a state
  codes     \* external: what GitHub knows of its codes

vars == <<states, stored, calls, now, started, codes>>

-----------------------------------------------------------------------------
Grant == [redirect: Redirects, hint: Hints, expires: Nat]
NoGrant == [redirect |-> NoRedirect, hint |-> Nothing, expires |-> 0]

Unissued == [state |-> Nothing, owner |-> Nothing, redirect |-> NoRedirect, used |-> FALSE]

(* A request moves from "new" to "exchange" (awaits the token), "user"      *)
(* (awaits the profile) and "done"; it ends as "failed" when it is refused  *)
(* and as "broken" when GitHub, the vault or the process fails.             *)
NewCall == [at |-> "new", state |-> Nothing, code |-> Nothing, redirect |-> NoRedirect]
Ended(c, at) == [calls EXCEPT ![c] = [calls[c] EXCEPT !.at = at]]
LetIn(c, k, s, r) ==
  calls' = [calls EXCEPT ![c] = [at |-> "exchange", state |-> s, code |-> k, redirect |-> r]]

Or(r, default) == IF r = NoRedirect THEN default ELSE r

(* GitHub's side: a code can be used once, and for its redirect URI. *)
Redeemable(c) ==
  LET k == calls[c].code
  IN k \in Codes /\ ~codes[k].used /\ calls[c].redirect = codes[k].redirect
Use(k) == [codes EXCEPT ![k] = [codes[k] EXCEPT !.used = TRUE]]

Init ==
  /\ states = [s \in States |-> NoGrant]
  /\ stored = [u \in Users |-> Nothing]
  /\ calls = [c \in Calls |-> NewCall]
  /\ now = 0
  /\ started = [s \in States |-> NoGrant]
  /\ codes = [k \in Codes |-> Unissued]

-----------------------------------------------------------------------------
(* Mutated form: the URI of the request is not completed by the setting. *)
CreateUnresolved(s, r, u) ==
  /\ started[s] = NoGrant
  /\ states' = [states EXCEPT ![s] = [redirect |-> r, hint |-> u, expires |-> now + TTL]]
  /\ started' = [started EXCEPT ![s] = states'[s]]
  /\ UNCHANGED <<stored, calls, now, codes>>

(* create_oauth_start *)
CreateOauthStart(s, r, u) ==
  /\ started[s] = NoGrant
  /\ Or(r, DefaultRedirect) # NoRedirect
  /\ states' = [states EXCEPT ![s] =
       [redirect |-> Or(r, DefaultRedirect), hint |-> u, expires |-> now + TTL]]
  /\ started' = [started EXCEPT ![s] = states'[s]]
  /\ UNCHANGED <<stored, calls, now, codes>>

(* External: a user follows the URL of s, maybe for the second time, and    *)
(* GitHub issues a code.                                                    *)
Authorize(k, s, u) ==
  /\ started[s] # NoGrant
  /\ codes[k] = Unissued
  /\ codes' = [codes EXCEPT ![k] =
       [state |-> s, owner |-> u, redirect |-> started[s].redirect, used |-> FALSE]]
  /\ UNCHANGED <<states, stored, calls, now, started>>

-----------------------------------------------------------------------------
(* complete_oauth_callback up to its first await: _consume_oauth_state      *)
(* reads the state, deletes it whatever it is, then judges it.  The route   *)
(* takes code, state and URI as three query parameters and compares nothing *)
(* with the code: any state may come with a code of another hand-shake, a   *)
(* spent one or one that GitHub never issued.                               *)

(* Mutated form: no comparison of the URIs. *)
AcceptableAnyRedirect(s, r) ==
  /\ states[s] # NoGrant
  /\ now <= states[s].expires

Acceptable(s, r) ==
  /\ states[s] # NoGrant
  /\ now <= states[s].expires
  /\ r \in {NoRedirect, states[s].redirect}

Presented(c, k) == calls[c] = NewCall /\ (k \in Codes => codes[k] # Unissued)

(* Mutated form: an accepted state is left in the vault. *)
AcceptAndKeep(c, k, s, r) ==
  /\ Presented(c, k) /\ Acceptable(s, r)
  /\ LetIn(c, k, s, Or(r, states[s].redirect))
  /\ UNCHANGED <<states, stored, now, started, codes>>

Accept(c, k, s, r) ==
  /\ Presented(c, k) /\ Acceptable(s, r)
  /\ states' = [states EXCEPT ![s] = NoGrant]
  /\ LetIn(c, k, s, Or(r, states[s].redirect))
  /\ UNCHANGED <<stored, now, started, codes>>

(* Nobody looks at the code of a request that is refused. *)
Refuse(c, s, r) ==
  /\ calls[c] = NewCall /\ ~Acceptable(s, r)
  /\ states' = [states EXCEPT ![s] = NoGrant]
  /\ calls' = Ended(c, "failed")
  /\ UNCHANGED <<stored, now, started, codes>>

(* vault.delete raises: the request fails and the state stays. *)
ConsumeRaises(c, s) ==
  /\ "raise" \in Faults
  /\ calls[c] = NewCall
  /\ states[s] # NoGrant
  /\ calls' = Ended(c, "broken")
  /\ UNCHANGED <<states, stored, now, started, codes>>

-----------------------------------------------------------------------------
(* _exchange_oauth_code: GitHub sells the token, or does not.  When the     *)
(* answer is lost the code is spent all the same.                           *)
Exchange(c) ==
  /\ calls[c].at = "exchange"
  /\ Redeemable(c)
  /\ codes' = Use(calls[c].code)
  /\ calls' = Ended(c, "user")
  /\ UNCHANGED <<states, stored, now, started>>

ExchangeFails(c) ==
  /\ calls[c].at = "exchange"
  /\ Redeemable(c) => "github" \in Faults
  /\ \/ UNCHANGED codes
     \/ Redeemable(c) /\ codes' = Use(calls[c].code)
  /\ calls' = Ended(c, IF Redeemable(c) THEN "broken" ELSE "failed")
  /\ UNCHANGED <<states, stored, now, started>>

(* Mutated form: the token goes to the owner that was hinted at the start. *)
StoreForHint(c) ==
  /\ calls[c].at = "user"
  /\ stored' = [stored EXCEPT ![started[calls[c].state].hint] = calls[c].code]
  /\ calls' = Ended(c, "done")
  /\ UNCHANGED <<states, now, started, codes>>

(* _fetch_user answers with the login, then _store_token. *)
StoreToken(c) ==
  /\ calls[c].at = "user"
  /\ stored' = [stored EXCEPT ![codes[calls[c].code].owner] = calls[c].code]
  /\ calls' = Ended(c, "done")
  /\ UNCHANGED <<states, now, started, codes>>

(* _fetch_user fails, or the vault raises. *)
StoreFails(c) ==
  /\ calls[c].at = "user"
  /\ Faults \cap {"github", "raise"} # {}
  /\ calls' = Ended(c, "broken")
  /\ UNCHANGED <<states, stored, now, started, codes>>

(* POST /api/oauth/token of main.py writes the same keys. *)
StoreOauthToken(u) ==
  /\ stored' = [stored EXCEPT ![u] = ByHand]
  /\ UNCHANGED <<states, calls, now, started, codes>>

(* A kill ends the requests in progress; the service keeps nothing else in  *)
(* memory, so that the restart changes nothing.                             *)
Crash ==
  /\ "crash" \in Faults
  /\ calls' = [c \in Calls |-> IF calls[c].at \in {"exchange", "user"}
                               THEN [calls[c] EXCEPT !.at = "broken"] ELSE calls[c]]
  /\ UNCHANGED <<states, stored, now, started, codes>>

Tick ==
  /\ now < MaxTime
  /\ now' = now + 1
  /\ UNCHANGED <<states, stored, calls, started, codes>>

-----------------------------------------------------------------------------
Callback(c) ==
  \/ \E s \in States, r \in Redirects \cup {NoRedirect} :
       Refuse(c, s, r) \/ \E k \in Codes \cup {Invented} : Accept(c, k, s, r)
  \/ \E s \in States : ConsumeRaises(c, s)
  \/ Exchange(c) \/ ExchangeFails(c) \/ StoreToken(c) \/ StoreFails(c)

Next ==
  \/ \E s \in States, r \in Redirects \cup {NoRedirect}, u \in Hints : CreateOauthStart(s, r, u)
  \/ \E k \in Codes, s \in States, u \in Users : Authorize(k, s, u)
  \/ \E c \in Calls : Callback(c)
  \/ \E u \in Users : StoreOauthToken(u)
  \/ Crash \/ Tick

Spec == Init /\ [][Next]_vars

(* httpx gives every request to GitHub 12 seconds, so that an await ends. *)
Answered(c) == Exchange(c) \/ ExchangeFails(c) \/ StoreToken(c) \/ StoreFails(c)
FairSpec == Spec /\ \A c \in Calls : WF_vars(Answered(c))

-----------------------------------------------------------------------------
(* Properties.                                                              *)

(* Every variable keeps its shape; in particular each state in the vault    *)
(* names a redirect URI (create_oauth_start).                               *)
TypeOK ==
  /\ states \in [States -> Grant \cup {NoGrant}]
  /\ stored \in [Users -> Codes \cup {Nothing, ByHand}]
  /\ calls \in [Calls -> [at: {"new", "exchange", "user", "done", "failed", "broken"},
                          state: States \cup {Nothing}, code: Codes \cup {Nothing, Invented},
                          redirect: Redirects \cup {NoRedirect}]]
  /\ now \in Nat
  /\ started \in [States -> Grant \cup {NoGrant}]
  /\ codes \in [Codes -> [state: States, owner: Users, redirect: Redirects, used: BOOLEAN]
                         \cup {Unissued}]

(* A state lets one callback through to GitHub, whichever codes come with   *)
(* it, although users authorize its URL again, browsers repeat callbacks    *)
(* and callbacks interleave (_consume_oauth_state deletes before the first  *)
(* await): no state buys two tokens.                                        *)
OneTokenPerState ==
  \A c, d \in Calls : calls[c].state # Nothing /\ calls[c].state = calls[d].state => c = d

(* The callback has the code and the state of one redirection by GitHub.    *)
Matched(c) == calls[c].code \in Codes /\ codes[calls[c].code].state = calls[c].state

(* The code also came with the state of another hand-shake.                 *)
CameElsewhere(c) ==
  \E d \in Calls : calls[d].code = calls[c].code /\ calls[d].state # calls[c].state

(* A callback that turns to GitHub with the code of its own hand-shake is   *)
(* accepted there, unless somebody used the code with another state as      *)
(* well: its repetitions never spend the code, and the URI sent along is    *)
(* the one the code was issued for, whether the request named one or not    *)
(* (_consume_oauth_state and the `or' of complete_oauth_callback).          *)
CodeIsGood ==
  \A c \in Calls :
    calls[c].at = "exchange" /\ Matched(c) => Redeemable(c) \/ CameElsewhere(c)

(* The token under an owner's key was bought by that owner's authorization, *)
(* though another owner may have been hinted and callbacks of several       *)
(* owners are under way (_fetch_user, _store_token).                        *)
TokensBelongToOwner ==
  \A u \in Users : stored[u] \in Codes =>
    codes[stored[u]].owner = u /\ codes[stored[u]].used

(* A callback whose state was accepted and that has the code of its own    *)
(* hand-shake ends with the token stored, unless GitHub, the vault or the   *)
(* process breaks under it or the code also came with another state: its    *)
(* own repetitions never make GitHub refuse it (complete_oauth_callback).   *)
Connects ==
  \A c \in Calls :
    calls[c].at = "exchange" /\ Matched(c)
      ~> calls[c].at \in {"done", "broken"} \/ CameElsewhere(c)

=============================================================================
