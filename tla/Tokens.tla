------------------------------- MODULE Tokens -------------------------------
(***************************************************************************)
(* backend/app/security.py: TokenService, which signs access and refresh   *)
(* tokens, exchanges refresh tokens and rotates the signing key.           *)
(*                                                                         *)
(* Its methods are free of awaits, so requests do not interleave; but each *)
(* writes the vault up to four times, and the process may be killed or the *)
(* vault may raise between two writes.  So a request in progress is a      *)
(* frame that goes through the writes one by one, while only the clock     *)
(* and a kill can come in between.                                         *)
(***************************************************************************)
EXTENDS Integers, Sequences, FiniteSets

CONSTANTS
  Pairs,        \* ids of the token pairs that may be signed
  Login,        \* not a pair: what a pair got from /api/auth/token stems from
  RefreshTTL,   \* refresh_token_ttl_hours, in ticks
  MaxPrevious,  \* token_max_previous_keys
  Faults,       \* what may go wrong, out of FaultKinds
  MaxKeys,      \* bound on the number of rotations of the signing key
  MaxTime       \* bound on the clock

FaultKinds == {"crash",  \* the process is killed
               "raise",  \* vault.set raises and leaves the file as it was
               "lost"}   \* the answer does not reach the client

ASSUME ConstantsAssumption ==
  /\ Login \notin Pairs
  /\ RefreshTTL \in Int
  /\ MaxPrevious \in Nat \ {0}
  /\ Faults \subseteq FaultKinds
  /\ MaxKeys \in Nat /\ MaxTime \in Nat

VARIABLES
  up,        \* whether the process runs
  signing,   \* self._signing_state
  saved,     \* "jwt_signing_state" in the vault
  sessions,  \* the refresh tokens under "refresh_sessions" in the vault
  frame,     \* the request in progress
  now,       \* the clock
  pairs,     \* history: the pairs signed so far
  held,      \* history: the pairs a client received
  spent,     \* history: the refresh tokens whose removal was saved
  keys,      \* history: number of signing keys made
  unsaved    \* history: whether a new signing key could not be saved

vault == <<saved, sessions>>
history == <<pairs, held, spent, keys, unsaved>>
vars == <<up, signing, vault, frame, now, history>>

-----------------------------------------------------------------------------
(* Signing keys are numbered in the order they are made, 0 being the one    *)
(* made from SECRET_KEY.                                                    *)

SigningState ==
  {s \in [current: Nat, previous: Seq(Nat)] : Len(s.previous) <= MaxPrevious}
InitialSigning == [current |-> 0, previous |-> <<>>]
Absent == [current |-> 0 - 1, previous |-> <<>>]  \* no such key in the vault

(* _signing_keys_by_id *)
Known(s) == {s.current} \cup {s.previous[i] : i \in 1..Len(s.previous)}

(* Mutated form: the list is not cut. *)
RotatedUncut(s) == [current |-> keys, previous |-> <<s.current>> \o s.previous]

Cut(q) == IF Len(q) > MaxPrevious THEN SubSeq(q, 1, MaxPrevious) ELSE q

Rotated(s) == [current |-> keys, previous |-> Cut(<<s.current>> \o s.previous)]

-----------------------------------------------------------------------------
(* Tokens.  A pair is known by one id: its access and its refresh token are *)
(* signed with the same key at the same instant; `from' is the refresh token *)
(* it was exchanged for, `root' the first pair of its login.                *)

Unsigned == [key |-> 0, born |-> 0, from |-> Login, root |-> Login]
Signed == {p \in Pairs : pairs[p].root # Login}

(* PyJWT refuses a token when exp <= now, _load_refresh_sessions drops a    *)
(* session unless exp > now.                                                *)
Fresh(p) == now < pairs[p].born + RefreshTTL

(* Mutated form: sessions end one tick early. *)
LiveTooShort == {p \in sessions : now + 1 < pairs[p].born + RefreshTTL}

Live == {p \in sessions : Fresh(p)}

(* _decode_token: some known key verifies the signature, and it is in time. *)
Decodes(p) == pairs[p].key \in Known(signing) /\ Fresh(p)

Idle == [at |-> "idle", token |-> Login]

(* A method that loads the sessions writes them back first when some have   *)
(* expired, then writes its own change: either write may fail.              *)
SaveFails == "raise" \in Faults /\ sessions' \in {sessions, Live}

-----------------------------------------------------------------------------
Init ==
  /\ up = FALSE
  /\ signing = InitialSigning
  /\ saved = Absent
  /\ sessions = {}
  /\ frame = Idle
  /\ now = 0
  /\ pairs = [p \in Pairs |-> Unsigned]
  /\ held = {} /\ spent = {}
  /\ keys = 1 /\ unsaved = FALSE

(* __init__ and _load_signing_state; when the first write raises the        *)
(* process does not come up.                                                *)
Boot ==
  /\ ~up
  /\ \/ /\ saved # Absent
        /\ signing' = saved /\ up' = TRUE
        /\ UNCHANGED saved
     \/ /\ saved = Absent
        /\ saved' = InitialSigning
        /\ signing' = InitialSigning /\ up' = TRUE
  /\ UNCHANGED <<sessions, frame, now, history>>

(* A kill, maybe between the two writes of a method. *)
Crash ==
  /\ "crash" \in Faults
  /\ up
  /\ up' = FALSE
  /\ frame' = Idle
  /\ \/ UNCHANGED sessions
     \/ frame.at \in {"pop", "store"} /\ sessions' = Live
  /\ UNCHANGED <<signing, saved, now, history>>

Tick ==
  /\ now < MaxTime
  /\ now' = now + 1
  /\ UNCHANGED <<up, signing, vault, frame, history>>

-----------------------------------------------------------------------------
(* POST /api/auth/token: the login goes straight to issue_token_pair. *)
BeginLogin ==
  /\ up /\ frame = Idle
  /\ frame' = [at |-> "sign", token |-> Login]
  /\ UNCHANGED <<up, signing, vault, now, history>>

(* POST /api/auth/refresh: rotate_refresh_token decodes the token; one that *)
(* does not decode is answered with 401 and changes nothing.                *)
BeginRefresh(p) ==
  /\ up /\ frame = Idle
  /\ p \in held
  /\ Decodes(p)
  /\ frame' = [at |-> "pop", token |-> p]
  /\ UNCHANGED <<up, signing, vault, now, history>>

(* Mutated form: the shortened table is not saved. *)
PopUnsaved ==
  /\ frame.at = "pop"
  /\ frame.token \in Live
  /\ sessions' = Live
  /\ spent' = spent \cup {frame.token}
  /\ frame' = [frame EXCEPT !.at = "sign"]
  /\ UNCHANGED <<up, signing, saved, now, pairs, held, keys, unsaved>>

(* sessions.pop and _save_refresh_sessions. *)
Pop ==
  /\ frame.at = "pop"
  /\ frame.token \in Live
  /\ sessions' = Live \ {frame.token}
  /\ spent' = spent \cup {frame.token}
  /\ frame' = [frame EXCEPT !.at = "sign"]
  /\ UNCHANGED <<up, signing, saved, now, pairs, held, keys, unsaved>>

(* The token was exchanged before, or it expired since it was decoded. *)
PopRefused ==
  /\ frame.at = "pop"
  /\ frame.token \notin Live
  /\ sessions' = Live
  /\ frame' = Idle
  /\ UNCHANGED <<up, signing, saved, now, history>>

PopFails ==
  /\ frame.at = "pop"
  /\ SaveFails
  /\ frame' = Idle
  /\ UNCHANGED <<up, signing, saved, now, history>>

(* issue_token_pair, up to its first use of the vault. *)
Sign(p) ==
  /\ frame.at = "sign"
  /\ p \notin Signed
  /\ pairs' = [pairs EXCEPT ![p] =
       [key |-> signing.current, born |-> now, from |-> frame.token,
        root |-> IF frame.token = Login THEN p ELSE pairs[frame.token].root]]
  /\ frame' = [at |-> "store", token |-> p]
  /\ UNCHANGED <<up, signing, vault, now, held, spent, keys, unsaved>>

(* The rest of issue_token_pair, and the answer. *)
Store ==
  /\ frame.at = "store"
  /\ sessions' = Live \cup {frame.token}
  /\ \/ held' = held \cup {frame.token}
     \/ "lost" \in Faults /\ UNCHANGED held
  /\ frame' = Idle
  /\ UNCHANGED <<up, signing, saved, now, pairs, spent, keys, unsaved>>

StoreFails ==
  /\ frame.at = "store"
  /\ SaveFails
  /\ frame' = Idle
  /\ UNCHANGED <<up, signing, saved, now, history>>

(* Mutated form: the new keys are not persisted. *)
RotateSigningKeyUnsaved ==
  /\ up /\ frame = Idle
  /\ keys <= MaxKeys
  /\ signing' = Rotated(signing)
  /\ keys' = keys + 1
  /\ UNCHANGED <<up, vault, frame, now, pairs, held, spent, unsaved>>

(* rotate_signing_key: the state in memory is changed before it is saved,   *)
(* and stays changed when the vault raises.                                 *)
RotateSigningKey ==
  /\ up /\ frame = Idle
  /\ keys <= MaxKeys
  /\ signing' = Rotated(signing)
  /\ keys' = keys + 1
  /\ \/ saved' = signing' /\ UNCHANGED unsaved
     \/ "raise" \in Faults /\ UNCHANGED saved /\ unsaved' = TRUE
  /\ UNCHANGED <<up, sessions, frame, now, pairs, held, spent>>

-----------------------------------------------------------------------------
Request ==
  \/ BeginLogin \/ \E p \in Pairs : BeginRefresh(p)
  \/ Pop \/ PopRefused \/ PopFails
  \/ \E p \in Pairs : Sign(p)
  \/ Store \/ StoreFails
  \/ RotateSigningKey

Next == Boot \/ Crash \/ Tick \/ Request

Spec == Init /\ [][Next]_vars

-----------------------------------------------------------------------------
(* Properties.                                                              *)

Pair == [key: Nat, born: Nat, from: Pairs \cup {Login}, root: Pairs \cup {Login}]

(* Every variable keeps its shape, and at most token_max_previous_keys old  *)
(* keys are kept (TokenService).                                            *)
TypeOK ==
  /\ up \in BOOLEAN
  /\ signing \in SigningState
  /\ saved \in SigningState \cup {Absent}
  /\ sessions \subseteq Pairs
  /\ frame \in [at: {"idle", "pop", "sign", "store"}, token: Pairs \cup {Login}]
  /\ frame.at \in {"pop", "store"} => frame.token \in Pairs
  /\ now \in Nat
  /\ pairs \in [Pairs -> Pair]
  /\ held \subseteq Pairs /\ spent \subseteq Pairs
  /\ keys \in Nat /\ unsaved \in BOOLEAN

(* A refresh token buys at most one new pair, whatever raises or is killed  *)
(* between the removal of its session and the answer                        *)
(* (rotate_refresh_token: "Refresh token is invalid or already rotated").   *)
RefreshOnce ==
  \A p, q \in Signed : pairs[p].from # Login /\ pairs[p].from = pairs[q].from => p = q

(* A login never forks: of all the refresh tokens that stem from it, at     *)
(* most one can be exchanged (sessions of issue_token_pair and              *)
(* rotate_refresh_token).                                                   *)
OneSessionPerLogin ==
  \A p, q \in sessions : pairs[p].root = pairs[q].root => p = q

(* A refresh token that a client holds has its session until it is          *)
(* exchanged or expires, so nothing else gets it refused: no request of     *)
(* another client, no failing write and no restart removes the session.     *)
RefusedOnlyIfSpent == \A p \in held : Fresh(p) /\ p \notin spent => p \in sessions

(* As long as every new signing key could be saved: a token can be verified *)
(* for exactly token_max_previous_keys rotations after it was signed, also  *)
(* when the process was restarted in between.  Neither does a restart       *)
(* invalidate tokens, nor does an old key come back (rotate_signing_key,    *)
(* _load_signing_state).  A key that could not be saved is gone after the   *)
(* next restart, with the tokens it signed (security.py:345).               *)
KeyWindow ==
  up /\ ~unsaved =>
    \A p \in Signed :
      pairs[p].key \in Known(signing) <=> pairs[p].key + MaxPrevious >= signing.current

=============================================================================
