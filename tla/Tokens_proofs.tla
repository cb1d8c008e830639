---------------------------- MODULE Tokens_proofs ----------------------------
(***************************************************************************)
(* Theorems about Tokens, for every number of pairs, every lifetime, every *)
(* number of kept keys and every set of faults unless one is excluded.     *)
(***************************************************************************)
EXTENDS Tokens, SequenceTheorems, TLAPS

-----------------------------------------------------------------------------
(* The list of previous keys.                                               *)

(* Rotated: the current key goes to the front of the list, which is cut.    *)
LEMMA RotatedFields ==
  ASSUME NEW s \in SigningState, keys \in Nat, MaxPrevious \in Nat \ {0}
  PROVE  LET n == Len(s.previous) + 1
             r == Rotated(s)
         IN /\ r \in SigningState
            /\ r.current = keys
            /\ Len(r.previous) = IF n > MaxPrevious THEN MaxPrevious ELSE n
            /\ \A i \in 1..Len(r.previous) :
                 r.previous[i] = IF i = 1 THEN s.current ELSE s.previous[i - 1]
<1> DEFINE front == <<s.current>>
           q == front \o s.previous
           n == Len(s.previous) + 1
<1>1. /\ s.current \in Nat /\ s.previous \in Seq(Nat)
      /\ Len(s.previous) \in Nat /\ Len(s.previous) <= MaxPrevious
  BY LenProperties DEF SigningState
<1>2. front \in Seq(Nat) /\ Len(front) = 1 /\ front[1] = s.current
  BY <1>1
<1>3. /\ q \in Seq(Nat)
      /\ Len(q) = n
      /\ \A i \in 1..n : q[i] = IF i = 1 THEN s.current ELSE s.previous[i - 1]
  BY <1>1, <1>2, ConcatProperties
<1>4. Rotated(s) = [current |-> keys, previous |-> Cut(q)]
  BY DEF Rotated
<1> HIDE DEF q, front
<1>5. CASE n > MaxPrevious
  <2>1. Cut(q) = SubSeq(q, 1, MaxPrevious)
    BY <1>3, <1>5 DEF Cut
  <2> DEFINE c == SubSeq(q, 1, MaxPrevious)
  <2>2. /\ c \in Seq(Nat)
        /\ Len(c) = MaxPrevious
        /\ \A i \in 1..MaxPrevious : c[i] = q[i]
    <3>1. 1 \in 1..Len(q) + 1 /\ MaxPrevious \in 0..Len(q) /\ MaxPrevious >= 1
      BY <1>1, <1>3, <1>5
    <3> QED BY <1>3, <3>1, SubSeqProperties
  <2>3. Rotated(s) = [current |-> keys, previous |-> c]
    BY <1>4, <2>1
  <2> HIDE DEF c
  <2> QED BY <1>1, <1>3, <1>5, <2>2, <2>3 DEF SigningState
<1>6. CASE ~(n > MaxPrevious)
  <2>1. Cut(q) = q
    BY <1>3, <1>6 DEF Cut
  <2> QED BY <1>1, <1>3, <1>4, <1>6, <2>1 DEF SigningState
<1> QED BY <1>5, <1>6

-----------------------------------------------------------------------------
(* Types.                                                                   *)

LEMMA TypeInit == Init => TypeOK
<1> SUFFICES ASSUME Init PROVE TypeOK
  OBVIOUS
<1>1. signing \in SigningState
  BY ConstantsAssumption, EmptySeq DEF Init, SigningState, InitialSigning
<1>2. frame \in [at: {"idle", "pop", "sign", "store"}, token: Pairs \cup {Login}]
  BY DEF Init, Idle
<1>3. pairs \in [Pairs -> Pair]
  <2>1. Unsigned \in [key: Nat, born: Nat, from: Pairs \cup {Login}, root: Pairs \cup {Login}]
    BY DEF Unsigned
  <2> QED BY <2>1 DEF Init, Pair
<1> QED BY <1>1, <1>2, <1>3 DEF Init, TypeOK, Idle

LEMMA TypeStep == TypeOK /\ [Next]_vars => TypeOK'
<1> SUFFICES ASSUME TypeOK, [Next]_vars PROVE TypeOK'
  OBVIOUS
<1> USE ConstantsAssumption
<1>1. CASE Boot
  <2>1. InitialSigning \in SigningState
    BY EmptySeq DEF InitialSigning, SigningState
  <2> QED BY <1>1, <2>1 DEF Boot, TypeOK, history, Absent
<1>2. CASE Crash
  BY <1>2 DEF Crash, TypeOK, history, Idle, Live
<1>3. CASE Tick
  BY <1>3 DEF Tick, TypeOK, history, vault
<1>4. CASE BeginLogin
  BY <1>4 DEF BeginLogin, TypeOK, history, vault
<1>5. ASSUME NEW p \in Pairs, BeginRefresh(p) PROVE TypeOK'
  BY <1>5 DEF BeginRefresh, TypeOK, history, vault
<1>6. CASE Pop
  <2>1. frame.token \in Pairs
    BY <1>6 DEF Pop, TypeOK, Live
  <2> QED BY <1>6, <2>1 DEF Pop, TypeOK, Live
<1>7. CASE PopRefused
  BY <1>7 DEF PopRefused, TypeOK, history, Idle, Live
<1>8. CASE PopFails
  BY <1>8 DEF PopFails, SaveFails, TypeOK, history, Idle, Live
<1>9. ASSUME NEW p \in Pairs, Sign(p) PROVE TypeOK'
  <2>1. frame.token \in Pairs \cup {Login} /\ signing.current \in Nat
    BY DEF TypeOK, SigningState
  <2>2. pairs' \in [Pairs -> Pair]
    BY <1>9, <2>1 DEF Sign, TypeOK, Pair
  <2> QED BY <1>9, <2>2 DEF Sign, TypeOK, vault
<1>10. CASE Store
  BY <1>10, ConstantsAssumption DEF Store, TypeOK, Idle, Live
<1>11. CASE StoreFails
  BY <1>11 DEF StoreFails, SaveFails, TypeOK, history, Idle, Live
<1>12. CASE RotateSigningKey
  <2>1. signing' \in SigningState
    BY <1>12, RotatedFields DEF RotateSigningKey, TypeOK
  <2>2. unsaved' \in BOOLEAN
    BY <1>12 DEF RotateSigningKey, TypeOK
  <2>3. /\ UNCHANGED <<up, sessions, frame, now, pairs, held, spent>>
        /\ saved' \in {signing', saved} /\ keys' = keys + 1
    BY <1>12 DEF RotateSigningKey
  <2> QED BY <2>1, <2>2, <2>3 DEF TypeOK
<1>13. CASE UNCHANGED vars
  BY <1>13 DEF vars, vault, history, TypeOK
<1> QED
  BY <1>1, <1>2, <1>3, <1>4, <1>5, <1>6, <1>7, <1>8, <1>9, <1>10, <1>11, <1>12, <1>13
  DEF Next, Request

(* Every variable keeps its shape in every reachable state. *)
THEOREM TypeCorrect == Spec => []TypeOK
<1>1. Init => TypeOK
  BY TypeInit
<1>2. TypeOK /\ [Next]_vars => TypeOK'
  BY TypeStep
<1> QED BY <1>1, <1>2, PTL DEF Spec

-----------------------------------------------------------------------------
(* Exchanging refresh tokens.  What makes the exchange safe is that a token *)
(* is spent in the vault before its successor is signed: a spent token has  *)
(* no session, whatever was signed in exchange for a token finds it spent,  *)
(* and between the two writes the login is carried by the frame alone.      *)

(* The refresh tokens that stand for a login: those with a session, and the *)
(* one whose exchange is under way.                                         *)
Bearers ==
  {p \in Pairs : p \in sessions \/ (frame.at \in {"sign", "store"} /\ frame.token = p)}

Exchanged(p) == \E q \in Signed : pairs[q].from = p

FrameInv ==
  /\ frame.at = "pop" => frame.token \in Signed
  /\ frame.at = "sign" /\ frame.token # Login =>
       frame.token \in spent /\ ~Exchanged(frame.token)
  /\ frame.at = "store" =>
       frame.token \in Signed /\ frame.token \notin sessions \cup spent

SessionInv ==
  /\ sessions \subseteq Signed /\ held \subseteq Signed /\ spent \subseteq Signed
  /\ sessions \cap spent = {}
  /\ \A p \in Signed : pairs[p].from # Login => pairs[p].from \in spent
  /\ \A p \in Signed : pairs[p].root \in Signed
  /\ \A p, q \in Bearers : pairs[p].root = pairs[q].root => p = q

IInv == TypeOK /\ FrameInv /\ SessionInv /\ RefreshOnce /\ RefusedOnlyIfSpent

LEMMA IInvInit == Init => IInv
<1> SUFFICES ASSUME Init PROVE IInv
  OBVIOUS
<1>1. TypeOK
  BY TypeInit
<1>2. Signed = {} /\ Bearers = {}
  BY DEF Init, Signed, Unsigned, Bearers, Idle
<1> QED
  BY <1>1, <1>2
  DEF Init, IInv, FrameInv, SessionInv, RefreshOnce, RefusedOnlyIfSpent, Idle

(* Steps that sign nothing, hand out nothing and add neither a session nor  *)
(* a bearer keep the invariant, if what loses its session is spent or has   *)
(* expired.                                                                 *)
LEMMA Shrinking ==
  ASSUME IInv, TypeOK', FrameInv',
         pairs' = pairs, held' = held, now' \in Nat, now' >= now,
         sessions' \subseteq sessions, Bearers' \subseteq Bearers,
         spent \subseteq spent', spent' \subseteq Signed, sessions' \cap spent' = {},
         \A p \in sessions \ sessions' : p \in spent' \/ ~Fresh(p)
  PROVE  IInv'
<1>1. Signed' = Signed
  BY DEF Signed
<1>2. SessionInv'
  BY <1>1 DEF IInv, SessionInv
<1>3. RefreshOnce'
  BY <1>1 DEF IInv, RefreshOnce
<1>4. RefusedOnlyIfSpent'
  <2> SUFFICES ASSUME NEW p \in held, Fresh(p)', p \notin spent' PROVE p \in sessions'
    BY DEF RefusedOnlyIfSpent
  <2>1. p \in Pairs /\ pairs[p].born \in Nat /\ now \in Nat /\ RefreshTTL \in Int
    BY ConstantsAssumption DEF IInv, TypeOK, Pair
  <2>2. Fresh(p)
    BY <2>1 DEF Fresh
  <2> QED BY <2>2 DEF IInv, RefusedOnlyIfSpent
<1> QED BY <1>2, <1>3, <1>4 DEF IInv

LEMMA ClockIsNat == TypeOK => now \in Nat /\ now >= now
BY DEF TypeOK

LEMMA IInvStep == IInv /\ [Next]_vars => IInv'
<1> SUFFICES ASSUME IInv, [Next]_vars PROVE IInv'
  OBVIOUS
<1>0. TypeOK /\ TypeOK' /\ now \in Nat /\ now >= now
  BY TypeStep, ClockIsNat DEF IInv
<1>1. CASE Boot
  <2>1. FrameInv' /\ Bearers' = Bearers
    BY <1>1 DEF Boot, history, IInv, FrameInv, Signed, Exchanged, Bearers
  <2> QED BY <1>0, <1>1, <2>1, Shrinking DEF Boot, history, IInv, SessionInv
<1>2. CASE Crash
  <2>1. FrameInv' /\ Bearers' \subseteq Bearers
    BY <1>2 DEF Crash, history, FrameInv, Bearers, Idle, Live
  <2>2. \A p \in sessions \ sessions' : ~Fresh(p)
    BY <1>2 DEF Crash, Live
  <2>3. sessions' \subseteq sessions
    BY <1>2 DEF Crash, Live
  <2> QED BY <1>0, <1>2, <2>1, <2>2, <2>3, Shrinking DEF Crash, history, IInv, SessionInv
<1>3. CASE Tick
  <2>1. FrameInv' /\ Bearers' = Bearers
    BY <1>3 DEF Tick, history, vault, IInv, FrameInv, Signed, Exchanged, Bearers
  <2>2. now' >= now /\ now' \in Nat
    BY <1>0, <1>3 DEF Tick
  <2> QED BY <1>0, <1>3, <2>1, <2>2, Shrinking DEF Tick, history, vault, IInv, SessionInv
<1>4. CASE BeginLogin
  <2>1. FrameInv'
    BY <1>4 DEF BeginLogin, FrameInv
  <2>2. Bearers' \subseteq Bearers
    BY <1>4, ConstantsAssumption DEF BeginLogin, vault, Bearers
  <2> QED BY <1>0, <1>4, <2>1, <2>2, Shrinking
          DEF BeginLogin, history, vault, IInv, SessionInv
<1>5. ASSUME NEW p \in Pairs, BeginRefresh(p) PROVE IInv'
  <2>1. FrameInv'
    BY <1>5 DEF BeginRefresh, history, vault, FrameInv, IInv, SessionInv, Signed
  <2>2. Bearers' \subseteq Bearers
    BY <1>5 DEF BeginRefresh, vault, Bearers
  <2> QED BY <1>0, <1>5, <2>1, <2>2, Shrinking
          DEF BeginRefresh, history, vault, IInv, SessionInv
<1>6. CASE Pop
  <2> DEFINE t == frame.token
  <2>1. t \in sessions /\ t \in Signed /\ t \notin spent
    BY <1>6 DEF Pop, Live, IInv, SessionInv
  <2>2. ~Exchanged(t)
    <3> SUFFICES ASSUME NEW q \in Signed, pairs[q].from = t PROVE FALSE
      BY DEF Exchanged
    <3>1. t # Login
      BY <2>1, ConstantsAssumption DEF Signed
    <3> QED BY <2>1, <3>1 DEF IInv, SessionInv
  <2>4. FrameInv'
    BY <1>6, <2>2 DEF Pop, FrameInv, Exchanged, Signed, TypeOK
  <2>5. Bearers' \subseteq Bearers
    BY <1>6, <2>1 DEF Pop, Bearers, Live
  <2>6. \A p \in sessions \ sessions' : p \in spent' \/ ~Fresh(p)
    BY <1>6 DEF Pop, Live
  <2>7. sessions' \subseteq sessions /\ sessions' \cap spent' = {}
    BY <1>6 DEF Pop, Live, IInv, SessionInv
  <2>8. spent \subseteq spent' /\ spent' \subseteq Signed
    BY <1>6, <2>1 DEF Pop, IInv, SessionInv
  <2> QED BY <1>0, <1>6, <2>4, <2>5, <2>6, <2>7, <2>8, Shrinking DEF Pop
<1>7. CASE PopRefused
  <2>1. FrameInv' /\ Bearers' \subseteq Bearers
    BY <1>7 DEF PopRefused, history, FrameInv, Bearers, Idle, Live
  <2>2. \A p \in sessions \ sessions' : ~Fresh(p)
    BY <1>7 DEF PopRefused, Live
  <2>3. sessions' \subseteq sessions
    BY <1>7 DEF PopRefused, Live
  <2> QED BY <1>0, <1>7, <2>1, <2>2, <2>3, Shrinking
          DEF PopRefused, history, IInv, SessionInv
<1>8. CASE PopFails \/ StoreFails
  <2>1. frame' = Idle /\ sessions' \in {sessions, Live} /\ UNCHANGED <<now, history>>
    BY <1>8 DEF PopFails, StoreFails, SaveFails
  <2>2. FrameInv' /\ Bearers' \subseteq Bearers
    BY <2>1 DEF FrameInv, Bearers, Idle, Live
  <2>3. sessions' \subseteq sessions /\ \A p \in sessions \ sessions' : ~Fresh(p)
    BY <2>1 DEF Live
  <2> QED BY <1>0, <2>1, <2>2, <2>3, Shrinking DEF history, IInv, SessionInv
<1>9. ASSUME NEW p \in Pairs, Sign(p) PROVE IInv'
  <2> DEFINE t == frame.token
             record == [key |-> signing.current, born |-> now, from |-> t,
                        root |-> IF t = Login THEN p ELSE pairs[t].root]
  <2>1. /\ frame.at = "sign" /\ p \notin Signed
        /\ pairs' = [pairs EXCEPT ![p] = record]
        /\ frame' = [at |-> "store", token |-> p]
        /\ UNCHANGED <<now, sessions, held, spent>>
    BY <1>9 DEF Sign, vault
  <2>2. pairs \in [Pairs -> Pair] /\ t \in Pairs \cup {Login}
    BY DEF IInv, TypeOK
  <2>3. /\ pairs'[p] = record
        /\ \A q \in Pairs : q # p => pairs'[q] = pairs[q]
    BY <2>1, <2>2
  <2>4. t # Login => t \in spent /\ t \in Signed /\ t \notin sessions /\ ~Exchanged(t)
    BY <2>1 DEF IInv, FrameInv, SessionInv
  <2>5. pairs'[p].root # Login /\ pairs'[p].from = t
    BY <2>3, <2>4, ConstantsAssumption DEF Signed
  <2>6. Signed' = Signed \cup {p}
    BY <2>3, <2>5 DEF Signed
  <2>7. \A q \in Signed : q # p /\ q \in Pairs /\ pairs'[q] = pairs[q]
    BY <2>1, <2>3 DEF Signed
  <2>8. p \notin sessions /\ p \notin spent /\ p \notin held
    BY <2>1 DEF IInv, SessionInv
  <2>9. FrameInv'
    BY <2>1, <2>6, <2>8 DEF FrameInv
  <2>10. SessionInv'
    <3>1. \A q \in Signed' : pairs'[q].from # Login => pairs'[q].from \in spent'
      BY <2>1, <2>4, <2>5, <2>6, <2>7 DEF IInv, SessionInv
    <3>2. \A q \in Signed' : pairs'[q].root \in Signed'
      BY <2>3, <2>4, <2>6, <2>7 DEF IInv, SessionInv
    <3>3. ASSUME NEW q \in sessions PROVE pairs'[q].root # pairs'[p].root
      <4>1. q \in Signed /\ pairs[q].root \in Signed /\ pairs'[q] = pairs[q]
        BY <2>7 DEF IInv, SessionInv
      <4>2. CASE t = Login
        BY <2>1, <2>3, <4>1, <4>2
      <4>3. CASE t # Login
        <5>1. t \in Bearers /\ q \in Bearers
          BY <2>1, <2>2, <4>1, <4>3 DEF Bearers, Signed
        <5>2. q # t
          BY <2>4, <4>3
        <5> QED BY <2>3, <4>1, <4>3, <5>1, <5>2 DEF IInv, SessionInv
      <4> QED BY <4>2, <4>3
    <3>4. Bearers' = sessions \cup {p}
      BY <2>1 DEF Bearers, IInv, TypeOK
    <3>5. \A q, r \in sessions : pairs'[q].root = pairs'[r].root => q = r
      BY <2>7 DEF IInv, SessionInv, Bearers, Signed
    <3>6. \A q, r \in Bearers' : pairs'[q].root = pairs'[r].root => q = r
      BY <3>3, <3>4, <3>5
    <3> QED BY <2>1, <2>6, <3>1, <3>2, <3>6 DEF IInv, SessionInv
  <2>11. RefreshOnce'
    <3>1. \A q \in Signed : pairs[q].from = t => t = Login
      BY <2>4 DEF Exchanged
    <3> QED BY <2>5, <2>6, <2>7, <3>1 DEF IInv, RefreshOnce
  <2>12. RefusedOnlyIfSpent'
    <3>1. \A q \in held : q \in Signed
      BY DEF IInv, SessionInv
    <3>2. \A q \in held : Fresh(q)' <=> Fresh(q)
      BY <2>1, <2>7, <3>1 DEF Fresh
    <3> QED BY <2>1, <3>2 DEF IInv, RefusedOnlyIfSpent
  <2> QED BY <1>0, <2>9, <2>10, <2>11, <2>12 DEF IInv
<1>10. CASE Store
  <2> DEFINE t == frame.token
  <2>1. /\ frame.at = "store"
        /\ sessions' = Live \cup {t}
        /\ held' \in {held, held \cup {t}}
        /\ frame' = Idle
        /\ UNCHANGED <<now, pairs, spent>>
    BY <1>10 DEF Store
  <2>2. t \in Signed /\ t \in Pairs /\ t \notin spent
    BY <2>1 DEF IInv, FrameInv, TypeOK
  <2>3. Signed' = Signed
    BY <2>1 DEF Signed
  <2>4. FrameInv'
    BY <2>1 DEF FrameInv, Idle
  <2>5. Bearers' \subseteq Bearers
    BY <2>1, <2>2 DEF Bearers, Live, Idle
  <2>6. SessionInv'
    BY <2>1, <2>2, <2>3, <2>5 DEF IInv, SessionInv, Live
  <2>7. RefreshOnce'
    BY <2>1, <2>3 DEF IInv, RefreshOnce
  <2>8. RefusedOnlyIfSpent'
    BY <2>1 DEF IInv, RefusedOnlyIfSpent, Live, Fresh
  <2> QED BY <1>0, <2>4, <2>6, <2>7, <2>8 DEF IInv
<1>12. CASE RotateSigningKey
  <2>1. FrameInv' /\ Bearers' = Bearers
    BY <1>12 DEF RotateSigningKey, IInv, FrameInv, Signed, Exchanged, Bearers
  <2> QED BY <1>0, <1>12, <2>1, Shrinking DEF RotateSigningKey, IInv, SessionInv
<1>13. CASE UNCHANGED vars
  <2>1. FrameInv' /\ Bearers' = Bearers
    BY <1>13 DEF vars, vault, history, IInv, FrameInv, Signed, Exchanged, Bearers
  <2> QED BY <1>0, <1>13, <2>1, Shrinking DEF vars, vault, history, IInv, SessionInv
<1> QED
  BY <1>1, <1>2, <1>3, <1>4, <1>5, <1>6, <1>7, <1>8, <1>9, <1>10, <1>12, <1>13
  DEF Next, Request

LEMMA IInvHolds == Spec => []IInv
<1>1. IInv /\ [Next]_vars => IInv'
  BY IInvStep
<1> QED BY IInvInit, <1>1, PTL DEF Spec

(* A refresh token buys at most one pair: the pair it bought finds it spent *)
(* when it is signed, and the step that spends a token is taken only while  *)
(* the token has a session.                                                 *)
THEOREM RefreshHappensOnce == Spec => []RefreshOnce
<1>1. IInv => RefreshOnce
  BY DEF IInv
<1> QED BY IInvHolds, <1>1, PTL

(* A login never has two sessions. *)
THEOREM LoginsDoNotFork == Spec => []OneSessionPerLogin
<1>1. IInv => OneSessionPerLogin
  BY DEF IInv, SessionInv, OneSessionPerLogin, Bearers, Signed
<1> QED BY IInvHolds, <1>1, PTL

(* The session of an unexpired refresh token that a client holds and nobody *)
(* has exchanged is kept, whatever failed for whomever before.              *)
THEOREM RefusalsAreDeserved == Spec => []RefusedOnlyIfSpent
<1>1. IInv => RefusedOnlyIfSpent
  BY DEF IInv
<1> QED BY IInvHolds, <1>1, PTL

-----------------------------------------------------------------------------
(* The key window.  As long as every rotation was saved, memory and vault   *)
(* agree on the keys, and the kept keys are the last ones made, newest      *)
(* first.                                                                   *)

Consecutive(s) ==
  /\ s.current = keys - 1
  /\ Len(s.previous) = IF s.current > MaxPrevious THEN MaxPrevious ELSE s.current
  /\ \A i \in 1..Len(s.previous) : s.previous[i] = s.current - i

KeysSaved ==
  /\ TypeOK
  /\ IF saved = Absent
     THEN ~up /\ keys = 1 /\ Signed = {} /\ frame = Idle
     ELSE Consecutive(saved) /\ (up => signing = saved)
  /\ ~up => frame = Idle
  /\ \A p \in Signed : pairs[p].key < keys

LEMMA KeysSavedInit == Init => KeysSaved
<1> SUFFICES ASSUME Init PROVE KeysSaved
  OBVIOUS
<1>1. Signed = {}
  BY DEF Init, Signed, Unsigned
<1> QED BY <1>1, TypeInit DEF Init, KeysSaved

LEMMA AbsentIsNoState == Absent \notin SigningState
BY DEF Absent, SigningState

(* The steps that leave the keys alone. *)
LEMMA KeysUntouched ==
  ASSUME KeysSaved, TypeOK', UNCHANGED <<up, signing, saved, keys, pairs>>,
         ~up => frame' = Idle
  PROVE  KeysSaved'
<1>1. Signed' = Signed
  BY DEF Signed
<1>2. saved' = saved /\ keys' = keys /\ signing' = signing
  OBVIOUS
<1>3. Consecutive(saved)' <=> Consecutive(saved)
  BY <1>2 DEF Consecutive
<1> QED BY <1>1, <1>2, <1>3 DEF KeysSaved

LEMMA KeysSavedStep ==
  ASSUME KeysSaved, [Next]_vars, ~unsaved'
  PROVE  KeysSaved'
<1>0. TypeOK /\ TypeOK'
  BY TypeStep DEF KeysSaved
<1>1. CASE Boot
  <2>1. Signed' = Signed /\ ~up /\ frame = Idle /\ frame' = Idle /\ keys' = keys
    BY <1>1 DEF Boot, history, Signed, KeysSaved
  <2>2. CASE saved # Absent
    <3>1. signing' = saved /\ saved' = saved
      BY <1>1, <2>2 DEF Boot
    <3>2. Consecutive(saved)'
      BY <2>1, <2>2, <3>1 DEF Consecutive, KeysSaved
    <3> QED BY <1>0, <1>1, <2>1, <2>2, <3>1, <3>2 DEF KeysSaved, Boot, history, Absent
  <2>3. CASE saved = Absent
    <3>1. signing' = InitialSigning /\ saved' = InitialSigning
      BY <1>1, <2>3 DEF Boot
    <3>2. keys = 1 /\ Signed = {}
      BY <2>3 DEF KeysSaved
    <3>3. Consecutive(saved)'
      <4>1. saved'.current = 0 /\ Len(saved'.previous) = 0
        BY <3>1 DEF InitialSigning
      <4> QED BY <2>1, <3>2, <4>1, ConstantsAssumption DEF Consecutive
    <3>4. saved' # Absent
      BY <3>1 DEF InitialSigning, Absent
    <3> QED BY <1>0, <1>1, <2>1, <3>1, <3>2, <3>3, <3>4 DEF KeysSaved, Boot, history
  <2> QED BY <2>2, <2>3
<1>2. CASE Crash
  <2>1. UNCHANGED <<signing, saved, keys, pairs>> /\ up /\ ~up' /\ frame' = Idle
    BY <1>2 DEF Crash, history
  <2>2. saved # Absent
    BY <2>1 DEF KeysSaved
  <2>3. Signed' = Signed
    BY <2>1 DEF Signed
  <2>4. Consecutive(saved)'
    BY <2>1, <2>2 DEF Consecutive, KeysSaved
  <2> QED BY <1>0, <2>1, <2>2, <2>3, <2>4 DEF KeysSaved
<1>3. CASE Tick
  BY <1>0, <1>3, KeysUntouched DEF Tick, vault, history, KeysSaved
<1>4. CASE BeginLogin
  BY <1>0, <1>4, KeysUntouched DEF BeginLogin, vault, history
<1>5. ASSUME NEW p \in Pairs, BeginRefresh(p) PROVE KeysSaved'
  BY <1>0, <1>5, KeysUntouched DEF BeginRefresh, vault, history
<1>6. CASE Pop
  <2>1. up
    BY <1>6 DEF Pop, KeysSaved, Idle
  <2> QED BY <1>0, <1>6, <2>1, KeysUntouched DEF Pop
<1>7. CASE PopRefused \/ PopFails \/ StoreFails
  BY <1>0, <1>7, KeysUntouched DEF PopRefused, PopFails, StoreFails, history
<1>8. CASE Store
  <2>1. frame' = Idle
    BY <1>8 DEF Store
  <2> QED BY <1>0, <1>8, <2>1, KeysUntouched DEF Store
<1>9. ASSUME NEW p \in Pairs, Sign(p) PROVE KeysSaved'
  <2>1. /\ UNCHANGED <<up, signing, saved, keys>>
        /\ frame # Idle
        /\ p \notin Signed
    BY <1>9 DEF Sign, vault, Idle
  <2>2. up /\ saved # Absent /\ signing = saved /\ Consecutive(saved)
    BY <2>1 DEF KeysSaved
  <2>3. pairs'[p].key = signing.current /\ \A q \in Pairs : q # p => pairs'[q] = pairs[q]
    BY <1>9 DEF Sign, KeysSaved, TypeOK
  <2>4. signing.current < keys
    BY <1>0, <2>2 DEF Consecutive, TypeOK
  <2>5. \A q \in Signed' : pairs'[q].key < keys'
    BY <2>1, <2>3, <2>4 DEF Signed, KeysSaved
  <2>6. Consecutive(saved)'
    BY <2>1, <2>2 DEF Consecutive
  <2> QED BY <1>0, <2>1, <2>2, <2>5, <2>6 DEF KeysSaved
<1>10. CASE RotateSigningKey
  <2>1. /\ up /\ up' /\ frame = Idle /\ frame' = Idle
        /\ signing' = Rotated(signing) /\ saved' = signing'
        /\ keys' = keys + 1 /\ pairs' = pairs
    BY <1>10 DEF RotateSigningKey
  <2>2. signing \in SigningState /\ keys \in Nat /\ Consecutive(signing)
    BY <2>1 DEF KeysSaved, TypeOK
  <2>3. saved' # Absent
    BY <1>0, <2>1, AbsentIsNoState DEF TypeOK
  <2>4. Consecutive(saved)'
    <3> DEFINE s == signing
               r == Rotated(signing)
    <3>1. /\ r.current = keys
          /\ Len(r.previous) = IF Len(s.previous) + 1 > MaxPrevious
                               THEN MaxPrevious ELSE Len(s.previous) + 1
          /\ \A i \in 1..Len(r.previous) :
               r.previous[i] = IF i = 1 THEN s.current ELSE s.previous[i - 1]
      BY <2>2, RotatedFields, ConstantsAssumption
    <3>2. s.current \in Nat /\ Len(s.previous) \in Nat
      BY <2>2, LenProperties DEF SigningState
    <3>3. /\ s.current = keys - 1
          /\ Len(s.previous) = IF s.current > MaxPrevious THEN MaxPrevious ELSE s.current
          /\ \A i \in 1..Len(s.previous) : s.previous[i] = s.current - i
      BY <2>2 DEF Consecutive
    <3> HIDE DEF s, r
    <3>4. Len(r.previous) = IF r.current > MaxPrevious THEN MaxPrevious ELSE r.current
      BY <2>2, <3>1, <3>2, <3>3, ConstantsAssumption
    <3>5. ASSUME NEW i \in 1..Len(r.previous) PROVE r.previous[i] = r.current - i
      <4>1. CASE i = 1
        BY <2>2, <3>1, <3>3, <4>1
      <4>2. CASE i # 1
        <5>1. i - 1 \in 1..Len(s.previous)
          BY <3>1, <3>2, <4>2, ConstantsAssumption
        <5>2. s.previous[i - 1] = s.current - (i - 1)
          BY <3>3, <5>1
        <5> QED BY <2>2, <3>1, <3>2, <3>3, <4>2, <5>2
      <4> QED BY <4>1, <4>2
    <3>6. r.current = keys' - 1
      BY <2>1, <2>2, <3>1
    <3>7. saved' = r
      BY <2>1 DEF r
    <3> QED BY <3>4, <3>5, <3>6, <3>7 DEF Consecutive
  <2>5. \A p \in Signed' : pairs'[p].key < keys'
    BY <2>1, <2>2 DEF KeysSaved, Signed, TypeOK, Pair
  <2> QED BY <1>0, <2>1, <2>3, <2>4, <2>5 DEF KeysSaved
<1>11. CASE UNCHANGED vars
  BY <1>0, <1>11, KeysUntouched DEF vars, vault, history, KeysSaved
<1> QED
  BY <1>1, <1>2, <1>3, <1>4, <1>5, <1>6, <1>7, <1>8, <1>9, <1>10, <1>11
  DEF Next, Request

KeysInv == ~unsaved => KeysSaved

LEMMA UnsavedStays ==
  ASSUME [Next]_vars, ~unsaved'
  PROVE  ~unsaved
BY DEF Next, Request, Boot, Crash, Tick, BeginLogin, BeginRefresh, Pop, PopRefused,
       PopFails, Sign, Store, StoreFails, RotateSigningKey, vars, history

LEMMA KeysSavedGivesWindow == KeysInv => KeyWindow
<1> SUFFICES ASSUME KeysSaved, up, NEW p \in Signed
             PROVE  pairs[p].key \in Known(signing) <=> pairs[p].key + MaxPrevious >= signing.current
  BY DEF KeyWindow, KeysInv
<1> DEFINE k == pairs[p].key
           c == signing.current
           n == Len(signing.previous)
<1>1. signing = saved /\ Consecutive(signing)
  BY DEF KeysSaved
<1>2. k \in Nat /\ c \in Nat /\ n \in Nat /\ k <= c /\ MaxPrevious \in Nat \ {0}
  <2>1. k \in Nat /\ c \in Nat /\ keys \in Nat /\ k < keys /\ n \in Nat
    BY LenProperties DEF KeysSaved, TypeOK, Pair, Signed, SigningState
  <2> QED BY <1>1, <2>1, ConstantsAssumption DEF Consecutive
<1>3. n = IF c > MaxPrevious THEN MaxPrevious ELSE c
  BY <1>1 DEF Consecutive
<1>4. k \in Known(signing) <=> k = c \/ \E i \in 1..n : k = c - i
  BY <1>1 DEF Known, Consecutive
<1> HIDE DEF k, c, n
<1>5. (\E i \in 1..n : k = c - i) <=> (k < c /\ k + MaxPrevious >= c)
  <2>1. ASSUME k < c, k + MaxPrevious >= c PROVE \E i \in 1..n : k = c - i
    <3>1. c - k \in 1..n
      BY <1>2, <1>3, <2>1
    <3> QED BY <1>2, <3>1
  <2>2. ASSUME NEW i \in 1..n, k = c - i PROVE k < c /\ k + MaxPrevious >= c
    BY <1>2, <1>3, <2>2
  <2> QED BY <2>1, <2>2
<1> QED BY <1>2, <1>4, <1>5 DEF k, c

(* As long as every rotation was saved, a token can be verified for exactly *)
(* token_max_previous_keys rotations after its key was replaced, kills and  *)
(* restarts included, with every set of faults.                             *)
THEOREM KeysLastTheirWindow == Spec => []KeyWindow
<1>1. Init => KeysInv
  BY KeysSavedInit DEF KeysInv
<1>2. KeysInv /\ [Next]_vars => KeysInv'
  <2> SUFFICES ASSUME KeysInv, [Next]_vars, ~unsaved'
               PROVE  KeysSaved'
    BY DEF KeysInv
  <2>1. ~unsaved
    BY UnsavedStays
  <2> QED BY <2>1, KeysSavedStep DEF KeysInv
<1>3. KeysInv => KeyWindow
  BY KeysSavedGivesWindow
<1> QED BY <1>1, <1>2, <1>3, PTL DEF Spec

=============================================================================
