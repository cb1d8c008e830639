--------------------------- MODULE Repository_proofs ---------------------------
(***************************************************************************)
(* Theorems about Repository, for every set of requests, pull requests,    *)
(* users and calls, every seed, limit and number of kills.                 *)
(***************************************************************************)
EXTENDS Repository, SequenceTheorems, FiniteSetTheorems, WellFoundedInduction, TLAPS

-----------------------------------------------------------------------------
(* The inductive invariant.                                                 *)

RepoCalls == (Reads \ {"jobs"}) \cup RepoWrites

EffectType == [by : Requests, call : Call, where : {"local", "gone", "github"}]
Outcomes == {"unsaid", "merged", "not merged"}
AuditType == [by : Requests, op : Reads \cup Writes, outcome : Outcomes]

UnderWay == {"waiting", "served", "moved", "refused"}

Shaped ==
  /\ demo \in BOOLEAN
  /\ requests = [r \in Requests |->
       [at |-> requests[r].at, call |-> requests[r].call, answer |-> requests[r].answer,
        shown |-> requests[r].shown, knew |-> requests[r].knew]]
  /\ travel \subseteq Requests
  /\ effects \subseteq EffectType
  /\ audit \subseteq AuditType

(* A call has an answer when it is done, and not before; and in demo mode   *)
(* none is under way.                                                       *)
AnswersSound ==
  \A r \in Requests :
    /\ requests[r].at \in {"idle", "done"} \cup UnderWay
    /\ requests[r].at \in UnderWay => ~demo
    /\ requests[r].at # "done" => requests[r].answer = "none"
    /\ requests[r].at = "done" => requests[r].answer \in Answers \ {"none"}
    /\ requests[r].at # "idle" => requests[r].call \in Call

(* A call that is on its way to GitHub was admitted, and has changed        *)
(* nothing yet; its client waits for it, or was told that the server failed. *)
TravelSound ==
  \A r \in travel :
    /\ \/ requests[r].at = "waiting"
       \/ requests[r].at = "done" /\ requests[r].answer = "5xx"
    /\ Failure(demo, requests[r].call) = "none"
    /\ Ask(requests[r].call) = "github"
    /\ \A e \in effects : e.by # r

(* What changed, changed for an admitted write that has not been refused.   *)
EffectsSound ==
  \A e \in effects :
    /\ requests[e.by].at \in {"served", "done"}
    /\ requests[e.by].answer \in {"none", "200", "5xx"}
    /\ requests[e.by].call = e.call /\ e.call.op \in Writes
    /\ Failure(demo, e.call) = "none"
    /\ e.where = "github" => Ask(e.call) = "github"

(* A write that GitHub has served has changed something.                    *)
ServedSound ==
  \A r \in Requests :
    requests[r].at = "served" /\ requests[r].call.op \in RepoWrites =>
      \E e \in effects : e.by = r

IInv ==
  /\ Shaped /\ AnswersSound /\ TravelSound /\ EffectsSound /\ ServedSound
  /\ AuditMatchesEffects

-----------------------------------------------------------------------------
(* What the invariant says about a call.                                    *)

(* Who is admitted, is allowed to.                                          *)
LEMMA AdmittedIsAuthorised ==
  ASSUME NEW d \in BOOLEAN, NEW c \in Call, Failure(d, c) = "none"
  PROVE  /\ c.who = "none" \/ (c.who \in Roles /\ (c.op \in Writes => c.csrf))
         /\ c.who = "none" => d /\ c.op \notin {"rotate_key", "plugin", "store_token"}
         /\ ~d /\ c.op \in {"invite", "remove"} => c.who = "admin"
         /\ ~d /\ c.op = "merge" => c.who \in {"operator", "admin"}
         /\ c.op \in {"rotate_key", "plugin"} => c.who = "admin"
<1>1. /\ c.who \in Callers /\ c.op \in Reads \cup Writes /\ c.csrf \in BOOLEAN
  BY DEF Call
<1>2. AuthFailure(d, c.op, c.who, c.csrf) = "none" /\ RoleFailure(d, c.op, c.who) = "none"
  BY DEF Failure
<1>3. /\ ~(c.who = "none" /\ (c.op \in Guarded \/ ~d))
      /\ c.who # "bad"
      /\ ~(c.who \in Roles /\ c.op \in Writes /\ ~c.csrf)
  BY <1>2 DEF AuthFailure, Roles
<1>4. c.op \in Guarded \/ ~d => ~(Level(c.who) < Level(Required(c.op)))
  BY <1>2 DEF RoleFailure
<1>5. c.who \in {"none", "viewer", "operator", "admin"}
  BY <1>1, <1>3 DEF Callers, Roles
<1>6. /\ Level("none") = 0 /\ Level("viewer") = 10
      /\ Level("operator") = 20 /\ Level("admin") = 30
  BY DEF Level
<1>7. c.op \in Guarded \/ ~d =>
        /\ c.op \in {"invite", "remove", "rotate_key", "plugin"} => c.who = "admin"
        /\ c.op = "merge" => c.who \in {"operator", "admin"}
  BY <1>4, <1>5, <1>6 DEF Required
<1> QED BY <1>3, <1>5, <1>7 DEF Guarded, Roles

(* In demo mode no call goes to GitHub.                                     *)
LEMMA DemoAsksNobody ==
  ASSUME NEW c, Ask(c) = "github"
  PROVE  ~demo
BY DEF Ask, ProviderName
-----------------------------------------------------------------------------
(* What the actions do to the calls.                                        *)

LEMMA EndsAtOnceDoes ==
  ASSUME Shaped, NEW r \in Requests, NEW c, NEW answer, NEW shown,
         EndsAtOnce(r, c, answer, shown)
  PROVE  /\ requests'[r].at = "done" /\ requests'[r].call = c /\ requests'[r].answer = answer
         /\ \A s \in Requests \ {r} : requests'[s] = requests[s]
         /\ requests' = [s \in Requests |->
              [at |-> requests'[s].at, call |-> requests'[s].call,
               answer |-> requests'[s].answer,
               shown |-> requests'[s].shown, knew |-> requests'[s].knew]]
BY DEF Shaped, EndsAtOnce

LEMMA EndsDoes ==
  ASSUME Shaped, NEW r \in Requests, NEW answer, NEW shown, Ends(r, answer, shown)
  PROVE  /\ requests'[r].at = "done" /\ requests'[r].call = requests[r].call
         /\ requests'[r].answer = answer /\ requests'[r].shown = shown
         /\ requests'[r].knew = requests[r].knew
         /\ \A s \in Requests \ {r} : requests'[s] = requests[s]
         /\ requests' = [s \in Requests |->
              [at |-> requests'[s].at, call |-> requests'[s].call,
               answer |-> requests'[s].answer,
               shown |-> requests'[s].shown, knew |-> requests'[s].knew]]
<1> DEFINE q == requests[r]
           one == [q EXCEPT !.at = "done"]
           two == [one EXCEPT !.answer = answer]
           new == [two EXCEPT !.shown = shown]
<1>1. requests' = [requests EXCEPT ![r] = new]
  BY DEF Ends, Shaped
<1>2. q = [at |-> q.at, call |-> q.call, answer |-> q.answer, shown |-> q.shown, knew |-> q.knew]
  BY DEF Shaped
<1> HIDE DEF q
<1>3. one = [at |-> "done", call |-> q.call, answer |-> q.answer, shown |-> q.shown, knew |-> q.knew]
  BY <1>2
<1> HIDE DEF one
<1>4. two = [at |-> "done", call |-> q.call, answer |-> answer, shown |-> q.shown, knew |-> q.knew]
  BY <1>3
<1> HIDE DEF two
<1>5. new = [at |-> "done", call |-> q.call, answer |-> answer, shown |-> shown, knew |-> q.knew]
  BY <1>4
<1>6. /\ new.at = "done" /\ new.call = q.call /\ new.answer = answer
      /\ new.shown = shown /\ new.knew = q.knew
      /\ new = [at |-> new.at, call |-> new.call, answer |-> new.answer,
                shown |-> new.shown, knew |-> new.knew]
  BY <1>5
<1> HIDE DEF new
<1> QED BY <1>1, <1>6 DEF Shaped, q

LEMMA RepliedDoes ==
  ASSUME Shaped, NEW r \in Requests, NEW reply, NEW shown, Replied(r, reply, shown)
  PROVE  /\ requests'[r].at = IF requests[r].at = "waiting" THEN reply ELSE requests[r].at
         /\ requests'[r].call = requests[r].call /\ requests'[r].answer = requests[r].answer
         /\ requests'[r].shown = IF requests[r].at = "waiting" THEN shown ELSE requests[r].shown
         /\ requests'[r].knew = requests[r].knew
         /\ \A s \in Requests \ {r} : requests'[s] = requests[s]
         /\ requests' = [s \in Requests |->
              [at |-> requests'[s].at, call |-> requests'[s].call,
               answer |-> requests'[s].answer,
               shown |-> requests'[s].shown, knew |-> requests'[s].knew]]
<1> DEFINE q == requests[r]
           new == IF q.at = "waiting" THEN [q EXCEPT !.at = reply, !.shown = shown] ELSE q
<1>1. requests' = [requests EXCEPT ![r] = new]
  BY DEF Replied
<1>2. q = [at |-> q.at, call |-> q.call, answer |-> q.answer, shown |-> q.shown, knew |-> q.knew]
  BY DEF Shaped
<1>3. /\ new.at = IF q.at = "waiting" THEN reply ELSE q.at
      /\ new.call = q.call /\ new.answer = q.answer
      /\ new.shown = IF q.at = "waiting" THEN shown ELSE q.shown
      /\ new.knew = q.knew
      /\ new = [at |-> new.at, call |-> new.call, answer |-> new.answer,
                shown |-> new.shown, knew |-> new.knew]
  BY <1>2
<1> HIDE DEF new
<1> QED BY <1>1, <1>3 DEF Shaped

LEMMA FailureIsAnswer ==
  ASSUME NEW d, NEW c, Failure(d, c) # "none"
  PROVE  Failure(d, c) \in {"400", "401", "403", "404"}
BY DEF Failure, AuthFailure, RoleFailure

LEMMA InitHolds == Init => IInv
<1> SUFFICES ASSUME Init PROVE IInv
  OBVIOUS
<1>1. /\ \A r \in Requests : requests[r] = Idle
      /\ travel = {} /\ audit = {} /\ effects = {}
  BY DEF Init
<1>2. Shaped
  BY <1>1, RepositoryAssumption DEF Init, Shaped, Idle
<1>3. AnswersSound /\ ServedSound
  BY <1>1 DEF AnswersSound, ServedSound, Idle, UnderWay
<1> QED BY <1>1, <1>2, <1>3 DEF IInv, TravelSound, EffectsSound, AuditMatchesEffects

(* A call that is answered at once: when something has changed for it, the  *)
(* answer is a success that is audited, or an error of the server.          *)
LEMMA AtOnceHolds ==
  ASSUME IInv, NEW r \in Requests, NEW c \in Call, Is(r, "idle"), NEW answer, NEW shown,
         EndsAtOnce(r, c, answer, shown), answer \in Answers \ {"none"},
         NEW new, new \in {{}, {[by |-> r, call |-> c, where |-> "local"]}},
         NEW record \in SUBSET AuditType,
         \A a \in record : a.by = r /\ (Claims(a) => new # {}),
         new # {} => /\ answer \in {"200", "5xx"} /\ Failure(demo, c) = "none"
                     /\ c.op \in Writes
                     /\ c.op \in RepoWrites /\ answer = "200" =>
                          \E a \in record : a.by = r /\ Confirms(a),
         effects' = effects \cup new, audit' = audit \cup record, UNCHANGED <<demo, travel>>
  PROVE  IInv'
<1>1. /\ requests'[r].at = "done" /\ requests'[r].call = c /\ requests'[r].answer = answer
      /\ \A s \in Requests \ {r} : requests'[s] = requests[s]
      /\ requests' = [s \in Requests |->
           [at |-> requests'[s].at, call |-> requests'[s].call,
            answer |-> requests'[s].answer,
            shown |-> requests'[s].shown, knew |-> requests'[s].knew]]
  BY EndsAtOnceDoes DEF IInv
<1>2. \A e \in new : e \in EffectType /\ e.by = r /\ e.call = c /\ e.where = "local"
  BY DEF EffectType
<1>3. \A e \in effects : e \in EffectType /\ e.by \in Requests \ {r}
  BY DEF IInv, Shaped, EffectsSound, EffectType, Is
<1>4. r \notin travel /\ travel \subseteq Requests
  BY DEF IInv, Shaped, TravelSound, Is
<1>5. Shaped'
  BY <1>1, <1>2 DEF IInv, Shaped
<1>6. AnswersSound'
  BY <1>1 DEF IInv, AnswersSound, UnderWay
<1>7. TravelSound'
  <2> SUFFICES ASSUME NEW s \in travel
               PROVE  /\ \/ requests[s].at = "waiting"
                         \/ requests[s].at = "done" /\ requests[s].answer = "5xx"
                      /\ Failure(demo, requests[s].call) = "none"
                      /\ Ask(requests[s].call) = "github"
                      /\ \A e \in effects' : e.by # s
    BY <1>1, <1>4 DEF TravelSound, Ask
  <2> QED BY <1>2, <1>4 DEF IInv, TravelSound
<1>8. EffectsSound'
  <2> SUFFICES ASSUME NEW e \in effects'
               PROVE  /\ requests'[e.by].at \in {"served", "done"}
                      /\ requests'[e.by].answer \in {"none", "200", "5xx"}
                      /\ requests'[e.by].call = e.call /\ e.call.op \in Writes
                      /\ Failure(demo, e.call) = "none"
                      /\ e.where = "github" => Ask(e.call) = "github"
    BY DEF EffectsSound, Ask
  <2>1. CASE e \in effects
    BY <2>1, <1>1, <1>3 DEF IInv, EffectsSound
  <2>2. CASE e \in new
    BY <2>2, <1>1, <1>2
  <2> QED BY <2>1, <2>2
<1>9. ServedSound'
  BY <1>1 DEF IInv, ServedSound
<1>10. AuditMatchesEffects'
  <2>1. \A a \in audit' : Claims(a) => \E e \in effects' : e.by = a.by
    BY <1>2 DEF IInv, AuditMatchesEffects
  <2>2. ASSUME NEW e \in effects', e.call.op \in RepoWrites, requests'[e.by].answer = "200"
        PROVE  \E a \in audit' : a.by = e.by /\ Confirms(a)
    <3>1. CASE e \in effects
      BY <3>1, <2>2, <1>1, <1>3 DEF IInv, AuditMatchesEffects
    <3>2. CASE e \in new
      BY <3>2, <2>2, <1>1, <1>2
    <3> QED BY <3>1, <3>2
  <2> QED BY <2>1, <2>2 DEF AuditMatchesEffects, Claims, Confirms
<1> QED BY <1>5, <1>6, <1>7, <1>8, <1>9, <1>10 DEF IInv
LEMMA NothingChangedHolds ==
  ASSUME IInv, NEW r \in Requests, NEW c \in Call, Is(r, "idle"), NEW answer, NEW shown,
         EndsAtOnce(r, c, answer, shown), answer \in Answers \ {"none"},
         UNCHANGED <<demo, travel, audit, effects>>
  PROVE  IInv'
<1>1. /\ {} \in {{}, {[by |-> r, call |-> c, where |-> "local"]}}
      /\ {} \in SUBSET AuditType
      /\ effects' = effects \cup {} /\ audit' = audit \cup {}
  OBVIOUS
<1> QED BY <1>1, AtOnceHolds

LEMMA RefuseHolds ==
  ASSUME IInv, NEW r \in Requests, NEW c \in Call, Refuse(r, c)
  PROVE  IInv'
<1>1. Failure(demo, c) \in Answers \ {"none"}
  BY FailureIsAnswer DEF Refuse, Answers
<1>2. /\ Is(r, "idle") /\ EndsAtOnce(r, c, Failure(demo, c), <<>>)
      /\ UNCHANGED <<demo, travel, effects, audit>>
  BY DEF Refuse
<1> QED BY <1>1, <1>2, NothingChangedHolds

LEMMA OtherRouteHolds ==
  ASSUME IInv, NEW r \in Requests, NEW c \in Call, OtherRoute(r, c)
  PROVE  IInv'
<1>1. /\ Is(r, "idle") /\ Failure(demo, c) = "none"
      /\ EndsAtOnce(r, c, "200", <<>>) /\ UNCHANGED <<demo, travel, audit>>
  BY DEF OtherRoute, Admitted
<1>2. c.op \notin RepoWrites /\ (c.op # "jobs" => c.op \in Writes)
  BY DEF OtherRoute, Writes, RepoWrites
<1>3. "200" \in Answers \ {"none"}
  BY DEF Answers
<1>4. CASE c.op = "jobs"
  <2>1. UNCHANGED effects
    BY <1>4 DEF OtherRoute
  <2> QED BY <1>1, <1>3, <2>1, NothingChangedHolds
<1>5. CASE c.op # "jobs"
  <2> DEFINE new == {[by |-> r, call |-> c, where |-> "local"]}
  <2>1. effects' = effects \cup new /\ audit' = audit \cup {}
    BY <1>1, <1>5 DEF OtherRoute, Effect
  <2>2. /\ new \in {{}, {[by |-> r, call |-> c, where |-> "local"]}}
        /\ {} \in SUBSET AuditType
    OBVIOUS
  <2> HIDE DEF new
  <2> QED BY <1>1, <1>2, <1>3, <1>5, <2>1, <2>2, AtOnceHolds
<1> QED BY <1>4, <1>5

LEMMA LocalReadHolds ==
  ASSUME IInv, NEW r \in Requests, NEW c \in Call, LocalRead(r, c)
  PROVE  IInv'
<1> DEFINE shown == CASE c.op \notin {"pulls", "legacy"} -> <<>>
                      [] Ask(c) = "legacy" -> LegacyShown
                      [] OTHER -> LocalShown(c)
<1>1. /\ Is(r, "idle") /\ EndsAtOnce(r, c, "200", shown)
      /\ UNCHANGED <<demo, travel, audit, effects>>
  BY DEF LocalRead, Admitted
<1> HIDE DEF shown
<1>2. "200" \in Answers \ {"none"}
  BY DEF Answers
<1> QED BY <1>1, <1>2, NothingChangedHolds

LEMMA LocalChangeHolds ==
  ASSUME IInv, NEW r \in Requests, NEW c \in Call, c.op \in RepoWrites,
         NEW found \in BOOLEAN, NEW changed, LocalChange(r, c, found, changed)
  PROVE  IInv'
<1> DEFINE new == IF found THEN {[by |-> r, call |-> c, where |-> "local"]} ELSE {}
           line == [by |-> r, op |-> c.op, outcome |-> Outcome(c, found)]
<1>1. /\ Is(r, "idle") /\ Failure(demo, c) = "none" /\ UNCHANGED <<demo, travel>>
      /\ c.op \in Writes
  BY DEF LocalChange, Admitted, Writes
<1>2. effects' = effects \cup new
  BY DEF LocalChange, Effect
<1>3. line \in AuditType
  BY DEF AuditType, Outcomes, Outcome, Call
<1>4. CASE demo /\ ~found
  <2>1. EndsAtOnce(r, c, "404", <<>>) /\ UNCHANGED <<audit, effects>>
    BY <1>4 DEF LocalChange
  <2>2. "404" \in Answers \ {"none"}
    BY DEF Answers
  <2> QED BY <2>1, <2>2, <1>1, NothingChangedHolds
<1>5. CASE ~(demo /\ ~found) /\ EndsAtOnce(r, c, "200", <<>>) /\ Audited(r, c, found)
  <2>1. audit' = audit \cup {line}
    BY <1>5 DEF Audited
  <2>2. /\ line.by = r /\ (line.outcome = "merged" => found)
        /\ (line.outcome = "not merged" => ~found) /\ (found <=> new # {})
    BY DEF Outcome
  <2> HIDE DEF new, line
  <2>3. \A a \in {line} : a.by = r /\ (Claims(a) => new # {})
    BY <1>5, <2>2 DEF Claims
  <2> DEFINE record == {line}
  <2> HIDE DEF record
  <2>7. new # {} => /\ "200" \in {"200", "5xx"} /\ Failure(demo, c) = "none"
                    /\ c.op \in Writes
                    /\ c.op \in RepoWrites /\ "200" = "200" =>
                         \E a \in record : a.by = r /\ Confirms(a)
    BY <1>1, <2>2 DEF record, Confirms
  <2>4. new \in {{}, {[by |-> r, call |-> c, where |-> "local"]}}
    BY DEF new
  <2>5. {line} \in SUBSET AuditType
    BY <1>3
  <2>6. "200" \in Answers \ {"none"}
    BY DEF Answers
  <2>8. /\ record \in SUBSET AuditType /\ audit' = audit \cup record
        /\ \A a \in record : a.by = r /\ (Claims(a) => new # {})
    BY <2>1, <2>3, <2>5 DEF record
  <2> QED BY <1>1, <1>2, <1>5, <2>4, <2>6, <2>7, <2>8, AtOnceHolds
<1>6. CASE EndsAtOnce(r, c, "5xx", <<>>) /\ UNCHANGED audit
  <2> HIDE DEF new
  <2>1. new \in {{}, {[by |-> r, call |-> c, where |-> "local"]}}
    BY DEF new
  <2> DEFINE record == {}
  <2>2. /\ record \in SUBSET AuditType /\ audit' = audit \cup record
        /\ \A a \in record : a.by = r /\ (Claims(a) => new # {})
    BY <1>6
  <2> HIDE DEF record
  <2>3. "5xx" \in Answers \ {"none"}
    BY DEF Answers
  <2>4. new # {} => /\ "5xx" \in {"200", "5xx"} /\ Failure(demo, c) = "none"
                    /\ c.op \in Writes
                    /\ c.op \in RepoWrites /\ "5xx" = "200" =>
                         \E a \in record : a.by = r /\ Confirms(a)
    BY <1>1
  <2> QED BY <1>1, <1>2, <1>6, <2>1, <2>2, <2>3, <2>4, AtOnceHolds
<1> QED BY <1>4, <1>5, <1>6 DEF LocalChange

LEMMA NotServedHolds ==
  ASSUME IInv, NEW r \in Requests, NEW c \in Call, NotServed(r, c)
  PROVE  IInv'
<1>1. PICK answer \in {"501", "401"} : EndsAtOnce(r, c, answer, <<>>)
  BY DEF NotServed
<1>2. Is(r, "idle") /\ UNCHANGED <<demo, travel, audit, effects>>
  BY DEF NotServed, Admitted
<1>3. answer \in Answers \ {"none"}
  BY DEF Answers
<1> QED BY <1>1, <1>2, <1>3, NothingChangedHolds
LEMMA SendHolds ==
  ASSUME IInv, NEW r \in Requests, NEW c \in Call, Send(r, c)
  PROVE  IInv'
<1>1. /\ requests'[r].at = "waiting" /\ requests'[r].call = c /\ requests'[r].answer = "none"
      /\ \A s \in Requests \ {r} : requests'[s] = requests[s]
      /\ requests' = [s \in Requests |->
           [at |-> requests'[s].at, call |-> requests'[s].call,
            answer |-> requests'[s].answer,
            shown |-> requests'[s].shown, knew |-> requests'[s].knew]]
  BY DEF Send, IInv, Shaped
<1>2. /\ requests[r].at = "idle" /\ Failure(demo, c) = "none" /\ Ask(c) = "github"
      /\ travel' = travel \cup {r} /\ UNCHANGED <<demo, effects, audit>>
  BY DEF Send, Admitted, Is
<1>0. ~demo
  BY <1>2, DemoAsksNobody
<1>3. \A e \in effects : e.by \in Requests \ {r}
  BY <1>2 DEF IInv, Shaped, EffectsSound, EffectType
<1>4. travel \subseteq Requests \ {r}
  BY <1>2 DEF IInv, Shaped, TravelSound
<1>5. Shaped'
  BY <1>1, <1>2 DEF IInv, Shaped
<1>6. AnswersSound'
  BY <1>0, <1>1, <1>2 DEF IInv, AnswersSound, UnderWay
<1>7. TravelSound'
  <2> SUFFICES ASSUME NEW s \in travel \cup {r}
               PROVE  /\ \/ requests'[s].at = "waiting"
                         \/ requests'[s].at = "done" /\ requests'[s].answer = "5xx"
                      /\ Failure(demo, requests'[s].call) = "none"
                      /\ Ask(requests'[s].call) = "github"
                      /\ \A e \in effects : e.by # s
    BY <1>2 DEF TravelSound, Ask
  <2>1. CASE s = r
    BY <2>1, <1>1, <1>2, <1>3
  <2>2. CASE s \in travel
    BY <2>2, <1>1, <1>4 DEF IInv, TravelSound
  <2> QED BY <2>1, <2>2
<1>8. EffectsSound'
  BY <1>1, <1>2, <1>3 DEF IInv, EffectsSound, Ask
<1>9. ServedSound'
  BY <1>1, <1>2 DEF IInv, ServedSound
<1>10. AuditMatchesEffects'
  BY <1>1, <1>2, <1>3 DEF IInv, AuditMatchesEffects, Claims, Confirms
<1> QED BY <1>5, <1>6, <1>7, <1>8, <1>9, <1>10 DEF IInv

(* A call that is under way goes on: GitHub acts on it or not, or it ends.  *)
(* One that has changed something ends with a success that is audited, or   *)
(* with an error of the server; one that still travels does not succeed.    *)
LEMMA GoesOnHolds ==
  ASSUME IInv, NEW r \in Requests, Shaped', requests'[r].call = requests[r].call,
         \A s \in Requests \ {r} : requests'[s] = requests[s],
         demo' = demo, travel' \subseteq travel, effects \subseteq effects',
         audit \subseteq audit', AnswersSound',
         r \in travel' =>
           /\ effects' = effects
           /\ requests'[r].at = "done" /\ requests'[r].answer = "5xx",
         \A e \in effects' \ effects :
           /\ e.by = r /\ e.call = requests[r].call /\ e.call.op \in Writes
           /\ r \in travel \ travel',
         (\E e \in effects' : e.by = r) =>
           /\ requests'[r].at \in {"served", "done"}
           /\ requests'[r].answer \in {"none", "200", "5xx"},
         requests'[r].at = "served" /\ requests[r].call.op \in RepoWrites =>
           \E e \in effects' : e.by = r,
         \A a \in audit' \ audit :
           a.by = r /\ (Claims(a) => \E e \in effects' : e.by = r),
         requests'[r].answer = "200" /\ requests[r].call.op \in RepoWrites
           /\ (\E e \in effects' : e.by = r) =>
             \E a \in audit' : a.by = r /\ Confirms(a)
  PROVE  IInv'
<1>1. \A e \in effects : e.by \in Requests
  BY DEF IInv, Shaped, EffectType
<1>2. travel \subseteq Requests
  BY DEF IInv, Shaped
<1>3. TravelSound'
  <2> SUFFICES ASSUME NEW s \in travel'
               PROVE  /\ \/ requests'[s].at = "waiting"
                         \/ requests'[s].at = "done" /\ requests'[s].answer = "5xx"
                      /\ Failure(demo, requests'[s].call) = "none"
                      /\ Ask(requests'[s].call) = "github"
                      /\ \A e \in effects' : e.by # s
    BY DEF TravelSound, Ask
  <2>1. s \in travel /\ requests'[s].call = requests[s].call
    BY <1>2
  <2>2. /\ Failure(demo, requests[s].call) = "none" /\ Ask(requests[s].call) = "github"
        /\ requests[s].at = "waiting" \/ (requests[s].at = "done" /\ requests[s].answer = "5xx")
        /\ \A e \in effects : e.by # s
    BY <2>1 DEF IInv, TravelSound
  <2>3. CASE s = r
    BY <2>3, <2>1, <2>2
  <2>4. CASE s # r
    BY <2>4, <1>2, <2>1, <2>2
  <2> QED BY <2>3, <2>4
<1>4. EffectsSound'
  <2> SUFFICES ASSUME NEW e \in effects'
               PROVE  /\ requests'[e.by].at \in {"served", "done"}
                      /\ requests'[e.by].answer \in {"none", "200", "5xx"}
                      /\ requests'[e.by].call = e.call /\ e.call.op \in Writes
                      /\ Failure(demo, e.call) = "none"
                      /\ e.where = "github" => Ask(e.call) = "github"
    BY DEF EffectsSound, Ask
  <2>1. CASE e \in effects
    <3>1. /\ requests[e.by].at \in {"served", "done"}
          /\ requests[e.by].answer \in {"none", "200", "5xx"}
          /\ requests[e.by].call = e.call /\ e.call.op \in Writes
          /\ Failure(demo, e.call) = "none"
          /\ e.where = "github" => Ask(e.call) = "github"
      BY <2>1 DEF IInv, EffectsSound
    <3>2. CASE e.by = r
      BY <3>1, <3>2
    <3>3. CASE e.by # r
      BY <3>1, <3>3, <2>1, <1>1
    <3> QED BY <3>2, <3>3
  <2>2. CASE e \notin effects
    <3>1. e.by = r /\ e.call = requests[r].call /\ e.call.op \in Writes /\ r \in travel
      BY <2>2
    <3>2. Failure(demo, requests[r].call) = "none" /\ Ask(requests[r].call) = "github"
      BY <3>1 DEF IInv, TravelSound
    <3> QED BY <3>1, <3>2
  <2> QED BY <2>1, <2>2
<1>5. ServedSound'
  BY DEF IInv, ServedSound
<1>6. AuditMatchesEffects'
  <2>1. \A a \in audit' : Claims(a) => \E e \in effects' : e.by = a.by
    BY DEF IInv, AuditMatchesEffects
  <2>2. ASSUME NEW e \in effects', e.call.op \in RepoWrites, requests'[e.by].answer = "200"
        PROVE  \E a \in audit' : a.by = e.by /\ Confirms(a)
    <3>1. CASE e.by = r
      <4>1. requests[r].call.op \in RepoWrites
        BY <1>4, <2>2, <3>1 DEF EffectsSound
      <4> QED BY <2>2, <3>1, <4>1
    <3>2. CASE e.by # r
      BY <3>2, <2>2, <1>1 DEF IInv, AuditMatchesEffects
    <3> QED BY <3>1, <3>2
  <2> QED BY <2>1, <2>2 DEF AuditMatchesEffects, Claims, Confirms
<1> QED BY <1>3, <1>4, <1>5, <1>6 DEF IInv
LEMMA HubServesHolds ==
  ASSUME IInv, NEW r \in Requests, HubServes(r)
  PROVE  IInv'
<1> DEFINE c == requests[r].call
           e0 == [by |-> r, call |-> c, where |-> "github"]
<1>1. /\ r \in travel /\ travel' = travel \ {r} /\ UNCHANGED <<demo, audit>>
      /\ IF c.op \in RepoWrites THEN effects' = effects \cup {e0} ELSE effects' = effects
      /\ Replied(r, "served", HubShown(c))
  BY DEF HubServes, Effect
<1>2. /\ requests'[r].at = IF requests[r].at = "waiting" THEN "served" ELSE requests[r].at
      /\ requests'[r].call = c /\ requests'[r].answer = requests[r].answer
      /\ \A s \in Requests \ {r} : requests'[s] = requests[s]
      /\ requests' = [s \in Requests |->
           [at |-> requests'[s].at, call |-> requests'[s].call,
            answer |-> requests'[s].answer,
            shown |-> requests'[s].shown, knew |-> requests'[s].knew]]
  BY <1>1, RepliedDoes DEF IInv
<1>3. /\ \A e \in effects : e.by # r
      /\ \/ requests[r].at = "waiting" /\ requests[r].answer = "none"
         \/ requests[r].at = "done" /\ requests[r].answer = "5xx"
      /\ c \in Call
  BY <1>1 DEF IInv, TravelSound, AnswersSound
<1>4. e0 \in EffectType /\ e0.by = r /\ e0.call = c
  BY <1>3 DEF EffectType
<1>5. AnswersSound'
  BY <1>1, <1>2, <1>3 DEF IInv, AnswersSound, UnderWay
<1> HIDE DEF e0, c
<1>6. Shaped'
  BY <1>1, <1>2, <1>4 DEF IInv, Shaped
<1>7. /\ \A e \in effects' \ effects : e.by = r /\ e.call = c /\ e.call.op \in Writes
      /\ effects \subseteq effects'
      /\ c.op \in RepoWrites => \E e \in effects' : e.by = r
  BY <1>1, <1>4 DEF Writes
<1>8. /\ requests'[r].at \in {"served", "done"} /\ requests'[r].answer \in {"none", "5xx"}
      /\ audit' = audit /\ r \notin travel' /\ r \in travel /\ travel' \subseteq travel
  BY <1>1, <1>2, <1>3
<1> QED BY <1>1, <1>2, <1>5, <1>6, <1>7, <1>8, GoesOnHolds DEF c

(* GitHub answers without having done anything.                             *)
LEMMA HubDeclinesHolds ==
  ASSUME IInv, NEW r \in Requests, HubRefuses(r) \/ HubRedirects(r)
  PROVE  IInv'
<1>1. PICK reply \in {"refused", "moved"} :
        /\ r \in travel /\ travel' = travel \ {r} /\ UNCHANGED <<demo, audit, effects>>
        /\ Replied(r, reply, <<>>)
  BY DEF HubRefuses, HubRedirects
<1>2. /\ requests'[r].at = IF requests[r].at = "waiting" THEN reply ELSE requests[r].at
      /\ requests'[r].call = requests[r].call /\ requests'[r].answer = requests[r].answer
      /\ \A s \in Requests \ {r} : requests'[s] = requests[s]
      /\ requests' = [s \in Requests |->
           [at |-> requests'[s].at, call |-> requests'[s].call,
            answer |-> requests'[s].answer,
            shown |-> requests'[s].shown, knew |-> requests'[s].knew]]
  BY <1>1, RepliedDoes DEF IInv
<1>3. /\ \A e \in effects : e.by # r
      /\ \/ requests[r].at = "waiting" /\ requests[r].answer = "none"
         \/ requests[r].at = "done" /\ requests[r].answer = "5xx"
  BY <1>1 DEF IInv, TravelSound, AnswersSound
<1>4. AnswersSound'
  BY <1>1, <1>2, <1>3 DEF IInv, AnswersSound, UnderWay
<1>5. Shaped'
  BY <1>1, <1>2 DEF IInv, Shaped
<1>6. requests'[r].at # "served"
  BY <1>1, <1>2, <1>3
<1> QED BY <1>1, <1>2, <1>3, <1>4, <1>5, <1>6, GoesOnHolds

LEMMA HubLosesHolds ==
  ASSUME IInv, NEW r \in Requests, HubLoses(r)
  PROVE  IInv'
<1>1. travel' = travel \ {r} /\ UNCHANGED <<demo, requests, audit, effects>>
  BY DEF HubLoses
<1>2. Shaped'
  BY <1>1 DEF IInv, Shaped
<1>3. AnswersSound' /\ ServedSound' /\ AuditMatchesEffects'
  BY <1>1 DEF IInv, AnswersSound, ServedSound, AuditMatchesEffects, Claims, Confirms
<1>4. TravelSound' /\ EffectsSound'
  BY <1>1 DEF IInv, TravelSound, EffectsSound, Ask
<1> QED BY <1>2, <1>3, <1>4 DEF IInv

(* The end of a call that is under way: one that was redirected may be told *)
(* as a success, and audited.                                               *)
LEMMA EndsHolds ==
  ASSUME IInv, NEW r \in Requests, requests[r].at \in UnderWay,
         NEW answer, NEW shown, Ends(r, answer, shown), answer \in Answers \ {"none"},
         UNCHANGED <<demo, travel, effects>>,
         r \in travel => answer = "5xx",
         requests[r].at = "served" => answer \in {"200", "5xx"},
         NEW record \in SUBSET AuditType, audit' = audit \cup record,
         \A a \in record :
           a.by = r /\ (Claims(a) => /\ requests[r].at = "served"
                                    /\ requests[r].call.op \in RepoWrites),
         answer = "200" /\ requests[r].at = "served" /\ requests[r].call.op \in RepoWrites =>
           \E a \in record : a.by = r /\ Confirms(a)
  PROVE  IInv'
<1>1. /\ requests'[r].at = "done" /\ requests'[r].call = requests[r].call
      /\ requests'[r].answer = answer
      /\ \A s \in Requests \ {r} : requests'[s] = requests[s]
      /\ requests' = [s \in Requests |->
           [at |-> requests'[s].at, call |-> requests'[s].call,
            answer |-> requests'[s].answer,
            shown |-> requests'[s].shown, knew |-> requests'[s].knew]]
  BY EndsDoes DEF IInv
<1>0. requests[r].call \in Call
  BY DEF IInv, AnswersSound, UnderWay
<1>2. AnswersSound'
  BY <1>0, <1>1 DEF IInv, AnswersSound, UnderWay
<1>3. Shaped'
  BY <1>1 DEF IInv, Shaped
<1>4. (\E e \in effects : e.by = r) => requests[r].at = "served"
  BY DEF IInv, EffectsSound, UnderWay
<1>5. \A a \in audit' \ audit :
        a.by = r /\ (Claims(a) => \E e \in effects' : e.by = r)
  BY DEF IInv, ServedSound
<1>6. (\E e \in effects' : e.by = r) =>
        /\ requests'[r].at \in {"served", "done"}
        /\ requests'[r].answer \in {"none", "200", "5xx"}
  BY <1>1, <1>4
<1>7. \A e \in effects' \ effects :
        /\ e.by = r /\ e.call = requests[r].call /\ e.call.op \in Writes
        /\ r \in travel \ travel'
  OBVIOUS
<1>8. requests'[r].answer = "200" /\ requests[r].call.op \in RepoWrites
        /\ (\E e \in effects' : e.by = r) =>
          \E a \in audit' : a.by = r /\ Confirms(a)
  BY <1>1, <1>4
<1>9. /\ effects \subseteq effects' /\ audit \subseteq audit' /\ travel' \subseteq travel
      /\ effects' = effects /\ requests'[r].at # "served"
      /\ r \in travel' => requests'[r].at = "done" /\ requests'[r].answer = "5xx"
  BY <1>1
<1> QED BY <1>1, <1>2, <1>3, <1>5, <1>6, <1>7, <1>8, <1>9, GoesOnHolds

LEMMA AnswerHolds ==
  ASSUME IInv, NEW r \in Requests, Answer(r)
  PROVE  IInv'
<1> DEFINE c == requests[r].call
           Line(merged) == [by |-> r, op |-> c.op, outcome |-> Outcome(c, merged)]
           Record(merged) == IF c.op \in RepoWrites THEN {Line(merged)} ELSE {}
<1>1. requests[r].at \in {"served", "moved", "refused"} /\ UNCHANGED <<demo, travel, effects>>
  BY DEF Answer, Is
<1>2. r \notin travel /\ requests[r].at \in UnderWay
  BY <1>1 DEF IInv, TravelSound, UnderWay
<1>3. {"200", "4xx", "5xx"} \subseteq Answers \ {"none"}
  BY DEF Answers
<1>4. c \in Call /\ ~demo
  BY <1>1, <1>2 DEF IInv, AnswersSound
<1>5. /\ \A merged \in BOOLEAN : Line(merged) \in AuditType /\ Line(merged).by = r
      /\ Confirms(Line(TRUE)) /\ ~Claims(Line(FALSE))
  BY <1>4 DEF AuditType, Outcomes, Outcome, Call, Claims, Confirms
<1> HIDE DEF Line
<1>6. /\ Record(TRUE) \in SUBSET AuditType /\ Record(FALSE) \in SUBSET AuditType
      /\ \A a \in Record(TRUE) : a.by = r /\ c.op \in RepoWrites
      /\ \A a \in Record(FALSE) : a.by = r /\ ~Claims(a)
      /\ c.op \in RepoWrites => \E a \in Record(TRUE) : a.by = r /\ Confirms(a)
  BY <1>5
<1>7. CASE requests[r].at = "served"
  <2>1. audit' = audit \cup Record(TRUE) /\ Ends(r, "200", Items(requests[r]))
    BY <1>7 DEF Answer, Audited, Is, Line
  <2> DEFINE record == Record(TRUE)
  <2>2. /\ record \in SUBSET AuditType /\ audit' = audit \cup record
        /\ \A a \in record : a.by = r /\ c.op \in RepoWrites
        /\ c.op \in RepoWrites => \E a \in record : a.by = r /\ Confirms(a)
    BY <1>6, <2>1
  <2> HIDE DEF record, Record
  <2> QED BY <1>1, <1>2, <1>3, <1>7, <2>1, <2>2, EndsHolds
<1>8. CASE requests[r].at = "moved"
  <2>1. PICK answer \in {"200", "5xx"} :
          /\ audit' = audit \cup Record(FALSE) /\ Ends(r, answer, <<>>)
    <3>1. CASE c.op \in RepoWrites
      BY <1>8, <3>1 DEF Answer, Audited, Is, Line
    <3>2. CASE c.op \notin RepoWrites
      BY <1>8, <3>2 DEF Answer, Is
    <3> QED BY <3>1, <3>2
  <2> DEFINE record == Record(FALSE)
  <2>2. /\ record \in SUBSET AuditType /\ audit' = audit \cup record
        /\ \A a \in record : a.by = r /\ ~Claims(a)
    BY <1>6, <2>1
  <2> HIDE DEF record, Record
  <2> QED BY <1>1, <1>2, <1>3, <1>8, <2>1, <2>2, EndsHolds
<1>9. CASE requests[r].at = "refused"
  <2>1. Ends(r, "4xx", <<>>) /\ audit' = audit
    BY <1>9 DEF Answer, Is
  <2>2. {} \in SUBSET AuditType /\ audit' = audit \cup {}
    BY <2>1
  <2> QED BY <1>1, <1>2, <1>3, <1>9, <2>1, <2>2, EndsHolds
<1> QED BY <1>1, <1>7, <1>8, <1>9

LEMMA BreakHolds ==
  ASSUME IInv, NEW r \in Requests, Break(r)
  PROVE  IInv'
<1>1. /\ requests[r].at \in UnderWay /\ Ends(r, "5xx", <<>>)
      /\ UNCHANGED <<demo, travel, effects, audit>>
  BY DEF Break, UnderWay
<1>2. "5xx" \in Answers \ {"none"}
  BY DEF Answers
<1>3. {} \in SUBSET AuditType /\ audit' = audit \cup {}
  BY <1>1
<1> QED BY <1>1, <1>2, <1>3, EndsHolds
(* A kill forgets where things have changed, and nothing else about them.   *)
LEMMA KillHolds ==
  ASSUME IInv, Kill
  PROVE  IInv'
<1> DEFINE Gone(e) == [e EXCEPT !.where = IF @ = "local" THEN "gone" ELSE @]
<1>1. /\ \A r \in Requests :
           IF requests[r].at \in {"idle", "done"} THEN requests'[r] = requests[r]
           ELSE /\ requests'[r].at = "done" /\ requests'[r].answer = "5xx"
                /\ requests'[r].call = requests[r].call
      /\ requests' = [s \in Requests |->
           [at |-> requests'[s].at, call |-> requests'[s].call,
            answer |-> requests'[s].answer,
            shown |-> requests'[s].shown, knew |-> requests'[s].knew]]
  <2> DEFINE Cut(r) == [requests[r] EXCEPT !.at = "done", !.answer = "5xx"]
  <2>1. \A r \in Requests :
          /\ Cut(r).at = "done" /\ Cut(r).answer = "5xx" /\ Cut(r).call = requests[r].call
          /\ Cut(r) = [at |-> Cut(r).at, call |-> Cut(r).call, answer |-> Cut(r).answer,
                       shown |-> Cut(r).shown, knew |-> Cut(r).knew]
    <3> SUFFICES ASSUME NEW r \in Requests
                 PROVE  /\ Cut(r).at = "done" /\ Cut(r).answer = "5xx"
                        /\ Cut(r).call = requests[r].call
                        /\ Cut(r) = [at |-> Cut(r).at, call |-> Cut(r).call,
                                     answer |-> Cut(r).answer,
                                     shown |-> Cut(r).shown, knew |-> Cut(r).knew]
      OBVIOUS
    <3> DEFINE q == requests[r]
    <3>1. q = [at |-> q.at, call |-> q.call, answer |-> q.answer,
               shown |-> q.shown, knew |-> q.knew]
      BY DEF IInv, Shaped
    <3>2. Cut(r) = [q EXCEPT !.at = "done", !.answer = "5xx"]
      OBVIOUS
    <3> HIDE DEF q, Cut
    <3>3. Cut(r) = [at |-> "done", call |-> q.call, answer |-> "5xx",
                    shown |-> q.shown, knew |-> q.knew]
      BY <3>1, <3>2
    <3> QED BY <3>3 DEF q
  <2>2. requests' = [r \in Requests |->
          IF requests[r].at \in {"idle", "done"} THEN requests[r] ELSE Cut(r)]
    BY DEF Kill
  <2> HIDE DEF Cut
  <2> QED BY <2>1, <2>2 DEF IInv, Shaped
<1>2. /\ \A e \in effects : /\ Gone(e) \in EffectType
                            /\ Gone(e).by = e.by /\ Gone(e).call = e.call
                            /\ Gone(e).where = "github" => e.where = "github"
      /\ \A e \in effects : e.by \in Requests
  BY DEF IInv, Shaped, EffectType
<1>3. effects' = {Gone(e) : e \in effects} /\ UNCHANGED <<demo, travel, audit>>
  BY DEF Kill
<1> HIDE DEF Gone
<1>4. \A e \in effects' : \E x \in effects : /\ e.by = x.by /\ e.call = x.call
                                             /\ e.where = "github" => x.where = "github"
  BY <1>2, <1>3
<1>5. \A x \in effects : \E e \in effects' : e.by = x.by
  BY <1>2, <1>3
<1>6. Shaped'
  BY <1>1, <1>2, <1>3 DEF IInv, Shaped
<1>7. AnswersSound'
  BY <1>1, <1>3 DEF IInv, AnswersSound, Answers, UnderWay
<1>8. TravelSound'
  <2> SUFFICES ASSUME NEW r \in travel
               PROVE  /\ \/ requests'[r].at = "waiting"
                         \/ requests'[r].at = "done" /\ requests'[r].answer = "5xx"
                      /\ Failure(demo, requests'[r].call) = "none"
                      /\ Ask(requests'[r].call) = "github"
                      /\ \A e \in effects' : e.by # r
    BY <1>3 DEF TravelSound, Ask
  <2>1. r \in Requests
    BY DEF IInv, Shaped
  <2> QED BY <2>1, <1>1, <1>4 DEF IInv, TravelSound
<1>9. EffectsSound'
  <2> SUFFICES ASSUME NEW e \in effects'
               PROVE  /\ requests'[e.by].at \in {"served", "done"}
                      /\ requests'[e.by].answer \in {"none", "200", "5xx"}
                      /\ requests'[e.by].call = e.call /\ e.call.op \in Writes
                      /\ Failure(demo, e.call) = "none"
                      /\ e.where = "github" => Ask(e.call) = "github"
    BY <1>3 DEF EffectsSound, Ask
  <2>1. PICK x \in effects : /\ e.by = x.by /\ e.call = x.call
                             /\ e.where = "github" => x.where = "github"
    BY <1>4
  <2>2. x.by \in Requests
    BY <1>2
  <2>3. /\ requests[x.by].at \in {"served", "done"}
        /\ requests[x.by].answer \in {"none", "200", "5xx"}
        /\ requests[x.by].call = x.call /\ x.call.op \in Writes
        /\ Failure(demo, x.call) = "none"
        /\ x.where = "github" => Ask(x.call) = "github"
    BY DEF IInv, EffectsSound
  <2> QED BY <2>1, <2>2, <2>3, <1>1
<1>10. ServedSound'
  BY <1>1 DEF IInv, AnswersSound, UnderWay, ServedSound
<1>11. AuditMatchesEffects'
  <2>1. \A a \in audit : Claims(a) => \E e \in effects' : e.by = a.by
    BY <1>5 DEF IInv, AuditMatchesEffects
  <2>2. ASSUME NEW e \in effects', e.call.op \in RepoWrites, requests'[e.by].answer = "200"
        PROVE  \E a \in audit : a.by = e.by /\ Confirms(a)
    <3>1. PICK x \in effects : e.by = x.by /\ e.call = x.call
      BY <1>4
    <3>2. requests[x.by].answer = "200"
      BY <1>1, <1>2, <2>2, <3>1
    <3> QED BY <2>2, <3>1, <3>2 DEF IInv, AuditMatchesEffects
  <2> QED BY <1>3, <2>1, <2>2 DEF AuditMatchesEffects, Claims, Confirms
<1> QED BY <1>6, <1>7, <1>8, <1>9, <1>10, <1>11 DEF IInv

LEMMA NextHolds == IInv /\ [Next]_vars => IInv'
<1> SUFFICES ASSUME IInv, [Next]_vars PROVE IInv'
  OBVIOUS
<1>1. \A r \in Requests : Calls[r] \subseteq Call
  BY RepositoryAssumption
<1>2. ASSUME NEW r \in Requests, NEW c \in Call,
             \/ Refuse(r, c) \/ OtherRoute(r, c) \/ LocalRead(r, c) \/ NotServed(r, c)
             \/ Send(r, c)
      PROVE  IInv'
  BY <1>2, RefuseHolds, OtherRouteHolds, LocalReadHolds, NotServedHolds, SendHolds
<1>3. ASSUME NEW r \in Requests, NEW c \in Call,
             LocalMerge(r, c) \/ LocalInvite(r, c) \/ LocalRemove(r, c)
      PROVE  IInv'
  <2>1. CASE LocalMerge(r, c)
    <3>1. Contains(local.pulls, c.pull) \in BOOLEAN
      BY DEF Contains
    <3> QED BY <2>1, <3>1, LocalChangeHolds DEF LocalMerge, RepoWrites
  <2>2. CASE LocalInvite(r, c)
    BY <2>2, LocalChangeHolds DEF LocalInvite, RepoWrites
  <2>3. CASE LocalRemove(r, c)
    BY <2>3, LocalChangeHolds DEF LocalRemove, RepoWrites
  <2> QED BY <1>3, <2>1, <2>2, <2>3
<1>4. ASSUME NEW r \in Requests,
             \/ HubServes(r) \/ HubRefuses(r) \/ HubRedirects(r) \/ HubLoses(r)
             \/ Answer(r) \/ Break(r)
      PROVE  IInv'
  BY <1>4, HubServesHolds, HubDeclinesHolds, HubLosesHolds, AnswerHolds, BreakHolds
<1>5. CASE (\E p \in Pulls : HubCloses(p)) \/ UNCHANGED vars
  <2>1. UNCHANGED <<demo, requests, travel, audit, effects>>
    BY <1>5 DEF HubCloses, vars
  <2>2. Shaped' /\ AnswersSound' /\ ServedSound'
    BY <2>1 DEF IInv, Shaped, AnswersSound, ServedSound
  <2>3. TravelSound' /\ EffectsSound'
    BY <2>1 DEF IInv, TravelSound, EffectsSound, Ask
  <2>4. AuditMatchesEffects'
    BY <2>1 DEF IInv, AuditMatchesEffects, Claims, Confirms
  <2> QED BY <2>2, <2>3, <2>4 DEF IInv
<1> QED BY <1>1, <1>2, <1>3, <1>4, <1>5, KillHolds DEF Next

LEMMA Invariance == Spec => []IInv
BY InitHolds, NextHolds, PTL DEF Spec

-----------------------------------------------------------------------------
(* Whatever calls meet whichever others, on whatever data and with however  *)
(* many kills: what changes, changes for a caller whom the rules of the     *)
(* routes allow, and nothing changes at GitHub in demo mode (main.py:274).  *)
THEOREM ChangesAreAuthorised == Spec => []EffectsAuthorised
<1>1. IInv => EffectsAuthorised
  <2> SUFFICES ASSUME IInv, NEW e \in effects
               PROVE  LET c == e.call
                      IN /\ c.who = "none" \/ (c.who \in Roles /\ c.csrf)
                         /\ c.who = "none" => demo /\ c.op \notin {"rotate_key", "plugin", "store_token"}
                         /\ ~demo /\ c.op \in {"invite", "remove"} => c.who = "admin"
                         /\ ~demo /\ c.op = "merge" => c.who \in {"operator", "admin"}
                         /\ c.op \in {"rotate_key", "plugin"} => c.who = "admin"
                         /\ demo => e.where # "github"
    BY DEF EffectsAuthorised
  <2>1. e.call \in Call /\ demo \in BOOLEAN
    BY DEF IInv, Shaped, EffectType
  <2>2. e.call.op \in Writes
    BY DEF IInv, EffectsSound
  <2>3. Failure(demo, e.call) = "none" /\ (e.where = "github" => Ask(e.call) = "github")
    BY DEF IInv, EffectsSound
  <2> QED BY <2>1, <2>2, <2>3, AdmittedIsAuthorised, DemoAsksNobody
<1> QED BY <1>1, Invariance, PTL

(* A refusal can be relied on: nothing has changed on the caller's account, *)
(* and nothing will, though GitHub answers late, never, or after a kill.    *)
THEOREM RefusalsAreReliable == Spec => []RefusedMeansUnchanged
<1>1. IInv => RefusedMeansUnchanged
  BY DEF IInv, EffectsSound, RefusedMeansUnchanged
<1> QED BY <1>1, Invariance, PTL

(* The audit log claims no merge that did not happen, and in demo mode no   *)
(* change; and every change that was answered with success has its line, a  *)
(* merge as merged, though GitHub redirects, answers late or never, and the *)
(* log refuses a line (main.py:831, 977, github_service.py:107).            *)
THEOREM AuditTellsChanges == Spec => []AuditMatchesEffects
<1>1. IInv => AuditMatchesEffects
  BY DEF IInv
<1> QED BY <1>1, Invariance, PTL

-----------------------------------------------------------------------------
(* Numbers and lists.                                                       *)
(* A set of naturals that is not empty has a least element.                 *)
LEMMA LeastNat ==
  ASSUME NEW T \in SUBSET Nat, T # {}
  PROVE  \E n \in T : \A m \in T : n <= m
<1>1. IsWellFoundedOn(OpToRel(<, Nat), Nat)
  BY NatLessThanWellFounded
<1>2. PICK n \in T : ~ \E y \in T : <<y, n>> \in OpToRel(<, Nat)
  BY <1>1, WFMin
<1>3. \A y \in T : ~ (y < n)
  BY <1>2 DEF OpToRel
<1> QED BY <1>3

(* Induction on a set of naturals.                                          *)
LEMMA CountingUp ==
  ASSUME NEW n \in Nat, NEW A, 0 \in A, \A m \in 0..(n - 1) : m \in A => m + 1 \in A
  PROVE  \A m \in 0..n : m \in A
<1> DEFINE bad == {m \in 0..n : m \notin A}
<1>1. SUFFICES ASSUME bad # {} PROVE FALSE
  OBVIOUS
<1>2. PICK m \in bad : \A k \in bad : m <= k
  <2>1. bad \in SUBSET Nat
    OBVIOUS
  <2> HIDE DEF bad
  <2> QED BY <1>1, <2>1, LeastNat
<1>3. m \in 0..n /\ m \notin A /\ m # 0 /\ \A k \in 0..n : k \notin A => m <= k
  BY <1>2
<1>4. m - 1 \in 0..(n - 1) /\ m - 1 \in A /\ (m - 1) + 1 = m
  BY <1>3
<1> QED BY <1>3, <1>4

-----------------------------------------------------------------------------
(* FlattenSeq: joins[i] is what the first i lists make together.            *)

Joins(f, lists, n) ==
  f = [i \in 1..n |-> IF i = 1 THEN lists[i] ELSE f[i - 1] \o lists[i]]

LEMMA JoinsExist ==
  ASSUME NEW lists, NEW n \in Nat
  PROVE  \E f : Joins(f, lists, n)
<1> DEFINE bad == {m \in Nat : ~\E f : Joins(f, lists, m)}
<1>1. SUFFICES ASSUME bad # {} PROVE FALSE
  OBVIOUS
<1>2. PICK m \in bad : \A k \in bad : m <= k
  <2>1. bad \in SUBSET Nat
    OBVIOUS
  <2> HIDE DEF bad
  <2> QED BY <1>1, <2>1, LeastNat
<1>3. m # 0
  <2>1. Joins([k \in 1..0 |-> <<>>], lists, 0)
    BY DEF Joins
  <2> QED BY <2>1
<1>4. PICK f : Joins(f, lists, m - 1)
  BY <1>2, <1>3
<1> DEFINE g == [k \in 1..m |-> IF k < m THEN f[k]
                                ELSE IF m = 1 THEN lists[m] ELSE f[m - 1] \o lists[m]]
<1>5. Joins(g, lists, m)
  <2>1. \A k \in 1..(m - 1) : f[k] = IF k = 1 THEN lists[k] ELSE f[k - 1] \o lists[k]
    BY <1>4, <1>2 DEF Joins
  <2>2. \A k \in 1..m : g[k] = IF k = 1 THEN lists[k] ELSE g[k - 1] \o lists[k]
    BY <2>1, <1>2, <1>3
  <2>3. g = [k \in 1..m |-> g[k]]
    OBVIOUS
  <2> HIDE DEF g
  <2> QED BY <2>2, <2>3 DEF Joins
<1> QED BY <1>5

LEMMA FlattenIs ==
  ASSUME NEW T, NEW lists \in Seq(T), lists # <<>>
  PROVE  \E f : Joins(f, lists, Len(lists)) /\ FlattenSeq(lists) = f[Len(lists)]
<1> DEFINE F == CHOOSE f : Joins(f, lists, Len(lists))
<1>1. \E f : Joins(f, lists, Len(lists))
  BY JoinsExist, LenProperties
<1>2. Joins(F, lists, Len(lists))
  BY <1>1
<1>3. Len(lists) # 0
  OBVIOUS
<1>4. FlattenSeq(lists) = F[Len(lists)]
  BY <1>3, Zenon DEF FlattenSeq, Joins
<1> QED BY <1>2, <1>4

SameTo(s, t, n) == \A i \in 1..n : s[i] = t[i]

(* Two of them agree as far as their lists do.                              *)
LEMMA JoinsAgree ==
  ASSUME NEW n \in Nat, NEW m, m = n + 1, NEW s, NEW t, SameTo(s, t, n),
         NEW f, Joins(f, s, n), NEW g, Joins(g, t, m)
  PROVE  SameTo(f, g, n)
<1> DEFINE bad == {k \in 1..n : f[k] # g[k]}
<1>1. SUFFICES ASSUME bad # {} PROVE FALSE
  BY DEF SameTo
<1>2. PICK k \in bad : \A j \in bad : k <= j
  <2>1. bad \in SUBSET Nat
    OBVIOUS
  <2> HIDE DEF bad
  <2> QED BY <1>1, <2>1, LeastNat
<1>3. k \in 1..n /\ k \in 1..(n + 1) /\ s[k] = t[k]
  BY <1>2 DEF SameTo
<1>4. /\ f[k] = IF k = 1 THEN s[k] ELSE f[k - 1] \o s[k]
      /\ g[k] = IF k = 1 THEN t[k] ELSE g[k - 1] \o t[k]
  BY <1>3 DEF Joins
<1>5. k # 1 => k - 1 \in 1..n /\ k - 1 \notin bad
  BY <1>2
<1>6. k # 1 => f[k - 1] = g[k - 1]
  BY <1>5
<1> QED BY <1>2, <1>3, <1>4, <1>6

LEMMA FlattenEmpty == FlattenSeq(<<>>) = <<>>
<1>1. Len(<<>>) = 0
  OBVIOUS
<1> QED BY <1>1 DEF FlattenSeq

LEMMA FlattenOne ==
  ASSUME NEW T, NEW x \in Seq(T)
  PROVE  FlattenSeq(<<x>>) = x
<1>1. <<x>> \in Seq(Seq(T)) /\ <<x>> # <<>> /\ Len(<<x>>) = 1 /\ <<x>>[1] = x
  OBVIOUS
<1>2. PICK f : Joins(f, <<x>>, 1) /\ FlattenSeq(<<x>>) = f[1]
  BY <1>1, FlattenIs
<1> QED BY <1>1, <1>2 DEF Joins

LEMMA FlattenAppend ==
  ASSUME NEW T, NEW lists \in Seq(Seq(T)), NEW x \in Seq(T)
  PROVE  FlattenSeq(Append(lists, x)) = FlattenSeq(lists) \o x
<1> DEFINE more == Append(lists, x)
           n == Len(lists)
<1>1. /\ more \in Seq(Seq(T)) /\ more # <<>> /\ Len(more) = n + 1 /\ more[n + 1] = x
      /\ n \in Nat /\ \A i \in 1..n : more[i] = lists[i]
  BY AppendProperties, LenProperties
<1>2. CASE lists = <<>>
  <2>1. more = <<x>> /\ <<>> \o x = x
    BY <1>2
  <2> QED BY <2>1, <1>2, FlattenOne, FlattenEmpty
<1>3. CASE lists # <<>>
  <2> HIDE DEF more
  <2>1. PICK f : Joins(f, lists, n) /\ FlattenSeq(lists) = f[n]
    BY <1>3, FlattenIs
  <2>2. PICK g : Joins(g, more, n + 1) /\ FlattenSeq(more) = g[n + 1]
    BY <1>1, FlattenIs
  <2>3. n \in 1..n
    BY <1>3, <1>1
  <2> HIDE DEF n
  <2>7. n + 1 \in Nat /\ n <= n + 1
    BY <1>1
  <2>9. n \in Nat /\ SameTo(lists, more, n)
    BY <1>1 DEF SameTo
  <2>10. Joins(g, more, n + 1) /\ Joins(f, lists, n)
    BY <2>1, <2>2
  <2>8. SameTo(f, g, n)
    BY <2>9, <2>10, JoinsAgree
  <2>4. g[n] = f[n]
    BY <2>3, <2>8 DEF SameTo
  <2>5. n + 1 \in 1..(n + 1) /\ n + 1 # 1 /\ (n + 1) - 1 = n
    BY <2>3, <1>1
  <2>6. g[n + 1] = IF n + 1 = 1 THEN more[n + 1] ELSE g[(n + 1) - 1] \o more[n + 1]
    BY <2>2, <2>5 DEF Joins
  <2> QED BY <1>1, <2>1, <2>2, <2>4, <2>5, <2>6 DEF more
<1> QED BY <1>2, <1>3

(* Whatever holds of the first lists and lasts when one more comes, holds. *)
LEMMA PrefixGrows ==
  ASSUME NEW T, NEW lists \in Seq(T), NEW n \in 0..(Len(lists) - 1)
  PROVE  /\ SubSeq(lists, 1, n) \in Seq(T) /\ lists[n + 1] \in T
         /\ SubSeq(lists, 1, n + 1) = Append(SubSeq(lists, 1, n), lists[n + 1])
BY SubSeqProperties

(* k lists members of S at growing places of s, the first m of them.        *)
Picks(k, s, S, m) ==
  \E at \in [1..Len(k) -> 1..m] :
    /\ \A i \in 1..Len(k) : k[i] = s[at[i]] /\ k[i] \in S
    /\ \A i, j \in 1..Len(k) : i < j => at[i] < at[j]

LEMMA PicksEmpty ==
  ASSUME NEW s, NEW S, NEW k, Len(k) = 0
  PROVE  Picks(k, s, S, 0)
<1>1. \E at : at \in [1..0 -> 1..0]
  <2>1. [i \in 1..0 |-> 0] \in [1..0 -> 1..0]
    OBVIOUS
  <2> QED BY <2>1
<1>2. \A i \in 1..0 : FALSE
  OBVIOUS
<1> QED BY <1>1, <1>2 DEF Picks

LEMMA PicksOne ==
  ASSUME NEW T, NEW s \in Seq(T), NEW S, NEW m \in 0..(Len(s) - 1), NEW k \in Seq(T),
         Picks(k, s, S, m), s[m + 1] \in S
  PROVE  Picks(Append(k, s[m + 1]), s, S, m + 1)
<1> DEFINE n == Len(k)
           new == Append(k, s[m + 1])
<1>1. PICK at \in [1..n -> 1..m] :
        /\ \A i \in 1..n : k[i] = s[at[i]] /\ k[i] \in S
        /\ \A i, j \in 1..n : i < j => at[i] < at[j]
  BY DEF Picks
<1> DEFINE more == [i \in 1..(n + 1) |-> IF i <= n THEN at[i] ELSE m + 1]
<1>2. /\ Len(new) = n + 1 /\ n \in Nat /\ new[n + 1] = s[m + 1]
      /\ \A i \in 1..n : new[i] = k[i]
  OBVIOUS
<1> HIDE DEF new, n
<1>3. more \in [1..(n + 1) -> 1..(m + 1)]
  BY <1>1, <1>2
<1>4. /\ \A i \in 1..n : more[i] = at[i] /\ at[i] \in 1..m
      /\ more[n + 1] = m + 1 /\ m \in Nat
  BY <1>1, <1>2
<1> HIDE DEF more
<1>5. \A i \in 1..(n + 1) : i \in 1..n \/ i = n + 1
  BY <1>2
<1>6. ASSUME NEW i \in 1..(n + 1) PROVE new[i] = s[more[i]] /\ new[i] \in S
  <2>1. CASE i \in 1..n
    BY <1>1, <1>2, <1>4, <2>1
  <2>2. CASE i = n + 1
    BY <1>2, <1>4, <2>2
  <2> QED BY <1>5, <2>1, <2>2
<1>7. ASSUME NEW i \in 1..(n + 1), NEW j \in 1..(n + 1), i < j PROVE more[i] < more[j]
  <2>1. i \in 1..n
    BY <1>2, <1>7
  <2>2. CASE j \in 1..n
    BY <1>1, <1>7, <1>4, <2>1, <2>2
  <2>3. CASE j = n + 1
    BY <1>2, <1>4, <2>1, <2>3
  <2> QED BY <1>5, <2>2, <2>3
<1> QED BY <1>2, <1>3, <1>6, <1>7 DEF Picks, new

LEMMA PicksNone ==
  ASSUME NEW s, NEW S, NEW m \in Nat, NEW k, Picks(k, s, S, m)
  PROVE  Picks(k, s, S, m + 1)
<1>1. PICK at \in [1..Len(k) -> 1..m] :
        /\ \A i \in 1..Len(k) : k[i] = s[at[i]] /\ k[i] \in S
        /\ \A i, j \in 1..Len(k) : i < j => at[i] < at[j]
  BY DEF Picks
<1>2. at \in [1..Len(k) -> 1..(m + 1)]
  BY <1>1
<1> QED BY <1>1, <1>2 DEF Picks

(* What is kept of a list is some of it, in its order.                      *)
LEMMA KeptPicks ==
  ASSUME NEW T, NEW s \in Seq(T), NEW S
  PROVE  Kept(s, S) \in Seq(T) /\ Picks(Kept(s, S), s, S, Len(s))
<1> DEFINE bits == [i \in DOMAIN s |-> IF s[i] \in S THEN <<s[i]>> ELSE <<>>]
           First(m) == SubSeq(bits, 1, m)
           n == Len(s)
           A == {m \in 0..n : /\ FlattenSeq(First(m)) \in Seq(T)
                              /\ Picks(FlattenSeq(First(m)), s, S, m)}
<1>1. /\ n \in Nat /\ \A i \in 1..n : bits[i] = IF s[i] \in S THEN <<s[i]>> ELSE <<>>
      /\ bits \in Seq(Seq(T)) /\ Len(bits) = n /\ First(0) = <<>>
  <2>1. n \in Nat /\ DOMAIN s = 1..n /\ \A i \in 1..n : s[i] \in T
    OBVIOUS
  <2> HIDE DEF n
  <2>2. \A i \in 1..n : /\ bits[i] = IF s[i] \in S THEN <<s[i]>> ELSE <<>>
                        /\ bits[i] \in Seq(T)
    BY <2>1
  <2>3. bits \in [1..n -> Seq(T)]
    BY <2>1, <2>2
  <2> HIDE DEF bits
  <2>4. bits \in Seq(Seq(T)) /\ Len(bits) = n
    BY <2>1, <2>3
  <2>5. SubSeq(bits, 1, 0) = <<>>
    BY SubSeqEmpty
  <2> QED BY <2>1, <2>2, <2>4, <2>5
<1>2. bits = First(n)
  BY <1>1
<1> HIDE DEF bits
<1>3. 0 \in A
  <2> HIDE DEF First, n
  <2>1. FlattenSeq(First(0)) = <<>>
    BY <1>1, FlattenEmpty
  <2>2. <<>> \in Seq(T) /\ Picks(<<>>, s, S, 0)
    BY EmptySeq, PicksEmpty
  <2>3. 0 \in 0..n
    BY <1>1
  <2> QED BY <2>1, <2>2, <2>3
<1>4. ASSUME NEW m \in 0..(n - 1), m \in A PROVE m + 1 \in A
  <2>1. /\ First(m) \in Seq(Seq(T)) /\ bits[m + 1] \in Seq(T)
        /\ First(m + 1) = Append(First(m), bits[m + 1])
    BY <1>1, PrefixGrows
  <2>2. /\ FlattenSeq(First(m)) \in Seq(T) /\ Picks(FlattenSeq(First(m)), s, S, m)
        /\ m + 1 \in 0..n /\ m \in Nat /\ m + 1 \in 1..n
    BY <1>1, <1>4
  <2>3. bits[m + 1] = IF s[m + 1] \in S THEN <<s[m + 1]>> ELSE <<>>
    BY <1>1, <2>2
  <2> HIDE DEF First
  <2>4. PICK k \in Seq(T) : k = FlattenSeq(First(m))
    BY <2>2
  <2>5. FlattenSeq(First(m + 1)) = k \o bits[m + 1]
    BY <2>1, <2>4, FlattenAppend
  <2>6. CASE s[m + 1] \in S
    <3>1. s[m + 1] \in T
      BY <2>2
    <3>2. k \o <<s[m + 1]>> = Append(k, s[m + 1]) /\ Append(k, s[m + 1]) \in Seq(T)
      BY <3>1
    <3>3. Picks(Append(k, s[m + 1]), s, S, m + 1)
      BY <2>2, <2>4, <2>6, PicksOne
    <3> QED BY <2>2, <2>3, <2>5, <2>6, <3>2, <3>3
  <2>7. CASE s[m + 1] \notin S
    <3>1. k \o <<>> = k
      BY ConcatEmptySeq
    <3>2. Picks(k, s, S, m + 1)
      BY <2>2, <2>4, PicksNone
    <3> QED BY <2>2, <2>3, <2>5, <2>7, <3>1, <3>2
  <2> QED BY <2>6, <2>7
<1> HIDE DEF A, n, First
<1>5. \A m \in 0..n : m \in A
  BY <1>1, <1>3, <1>4, CountingUp
<1>6. n \in A
  BY <1>1, <1>5
<1>7. Kept(s, S) = FlattenSeq(bits)
  BY DEF Kept, bits
<1> QED BY <1>2, <1>6, <1>7 DEF A, n

LEMMA KeptMembers ==
  ASSUME NEW T, NEW s \in Seq(T), NEW S
  PROVE  /\ Kept(s, S) \in Seq(T)
         /\ \A i \in DOMAIN Kept(s, S) :
              Kept(s, S)[i] \in S /\ \E j \in DOMAIN s : Kept(s, S)[i] = s[j]
<1>1. Kept(s, S) \in Seq(T) /\ Picks(Kept(s, S), s, S, Len(s))
  BY KeptPicks
<1> QED BY <1>1 DEF Picks

LEMMA PageMembers ==
  ASSUME NEW T, NEW s \in Seq(T)
  PROVE  /\ Page(s) \in Seq(T)
         /\ \A i \in DOMAIN Page(s) : \E j \in DOMAIN s : Page(s)[i] = s[j]
<1> DEFINE n == IF Len(s) < Limit THEN Len(s) ELSE Limit
<1>1. n \in 0..Len(s) /\ n \in Nat
  BY RepositoryAssumption
<1>2. Page(s) = SubSeq(s, 1, n)
  BY DEF Page
<1> HIDE DEF n
<1>3. \A i \in 1..n : s[i] \in T /\ i \in DOMAIN s
  BY <1>1
<1>4. /\ SubSeq(s, 1, n) \in Seq(T) /\ Len(SubSeq(s, 1, n)) = n
      /\ \A i \in 1..n : SubSeq(s, 1, n)[i] = s[i]
  BY <1>1, <1>3, SubSeqProperties
<1> QED BY <1>2, <1>3, <1>4

LEMMA PullsListed == SetToSeq(Pulls) \in Seq(Pulls)
<1> DEFINE n == Cardinality(Pulls)
<1>1. n \in Nat /\ ExistsBijection(1..n, Pulls)
  BY RepositoryAssumption, FS_CardinalityType
<1> HIDE DEF n
<1>2. PICK f \in [1..n -> Pulls] : IsInjective(f)
  BY <1>1 DEF ExistsBijection, Bijection, Injection
<1>3. SetToSeq(Pulls) = CHOOSE g \in [1..n -> Pulls] : IsInjective(g)
  BY DEF SetToSeq, n
<1>4. SetToSeq(Pulls) \in [1..n -> Pulls]
  BY <1>2, <1>3
<1> QED BY <1>1, <1>4


(* Some of a list of pull requests: each is one of the list, and of S.      *)
LEMMA PageOfKept ==
  ASSUME NEW s \in Seq(Pulls), NEW S
  PROVE  /\ Page(Kept(s, S)) \in Seq(Pulls)
         /\ \A i \in DOMAIN Page(Kept(s, S)) : Page(Kept(s, S))[i] \in S
<1>1. Kept(s, S) \in Seq(Pulls) /\ \A i \in DOMAIN Kept(s, S) : Kept(s, S)[i] \in S
  BY KeptMembers
<1> QED BY <1>1, PageMembers

(* Nothing that is no pull request is on a list of them.                    *)
LEMMA NoIssues ==
  ASSUME NEW s \in Seq(Pulls)
  PROVE  Kept(s, ToSet(s) \ Pulls) = <<>>
<1> DEFINE k == Kept(s, ToSet(s) \ Pulls)
<1>1. k \in Seq(Pulls) /\ \A i \in DOMAIN k : k[i] \in ToSet(s) \ Pulls
  BY KeptMembers
<1> HIDE DEF k
<1>2. \A i \in DOMAIN k : k[i] \in Pulls
  BY <1>1
<1>3. Len(k) = 0
  BY <1>1, <1>2
<1> QED BY <1>1, <1>3 DEF k

-----------------------------------------------------------------------------
(* What the lists offer.                                                    *)

DataTyped ==
  /\ demo \in Modes /\ linked \in BOOLEAN
  /\ local = [pulls |-> local.pulls, status |-> local.status, people |-> local.people]
  /\ local.pulls \in Seq(Pulls) /\ local.status \in [Pulls -> {"open", "merged"}]
  /\ hub = [status |-> hub.status, people |-> hub.people]
  /\ hub.status \in [Pulls -> {"open", "closed", "merged"}]

Distinct(people) ==
  /\ people \in Seq(Collaborator)
  /\ \A i, k \in DOMAIN people : i # k => people[i].login # people[k].login

(* A merge lasts: here until a kill, at GitHub for ever.                    *)
MergesLast ==
  \A e \in effects : e.call.op = "merge" =>
    /\ e.where = "local" => local.status[e.call.pull] = "merged"
    /\ e.where = "github" => hub.status[e.call.pull] = "merged"

(* What a caller knew to be merged at GitHub is.                            *)
Knows(q) == \A p \in Pulls : <<"github", p>> \in q.knew => hub.status[p] = "merged"

(* A page on its way back from GitHub offers nothing that was known to be   *)
(* merged when it was asked for; nor does one that has come.                *)
Fresh(q, where) ==
  q.call.filter = "open" => \A i \in DOMAIN q.shown : <<where, q.shown[i]>> \notin q.knew

Where(q) == IF Ask(q.call) = "github" THEN "github" ELSE "local"

PageSound(q) ==
  /\ q.shown \in Seq(Pulls)
  /\ q.at \in UnderWay => Ask(q.call) = "github"
  /\ q.at = "served" => Fresh(q, "github")
  /\ q.at = "done" /\ q.answer = "200" /\ Ask(q.call) # "legacy" => Fresh(q, Where(q))

PagesSound == \A r \in Requests : Knows(requests[r]) /\ PageSound(requests[r])

ListInv == IInv /\ DataTyped /\ Distinct(local.people) /\ MergesLast /\ PagesSound

-----------------------------------------------------------------------------
(* The collaborators.                                                       *)

LEMMA UpsertedDistinct ==
  ASSUME NEW people, Distinct(people), NEW l \in Logins, NEW perm \in Permissions
  PROVE  Distinct(Upserted(people, l, perm))
<1> DEFINE new == [login |-> l, permission |-> perm]
           Given(x) == IF x.login = l THEN [x EXCEPT !.permission = perm] ELSE x
           up == [i \in DOMAIN people |-> Given(people[i])]
<1>1. new \in Collaborator /\ new.login = l
  BY DEF Collaborator
<1>2. \A x \in Collaborator : Given(x) \in Collaborator /\ Given(x).login = x.login
  BY DEF Collaborator
<1>3. people \in Seq(Collaborator) /\ \A i, k \in DOMAIN people : i # k => people[i].login # people[k].login
  BY DEF Distinct
<1>4. CASE \E i \in DOMAIN people : people[i].login = l
  <2>1. Upserted(people, l, perm) = up
    BY <1>4 DEF Upserted
  <2> HIDE DEF Given
  <2>2. \A i \in DOMAIN people : people[i] \in Collaborator
    BY <1>3
  <2>3. /\ DOMAIN up = DOMAIN people
        /\ \A i \in DOMAIN people : up[i] \in Collaborator /\ up[i].login = people[i].login
    BY <1>2, <2>2
  <2>4. up \in [1..Len(people) -> Collaborator]
    BY <1>3, <2>3
  <2> HIDE DEF up
  <2>5. up \in Seq(Collaborator)
    BY <1>3, <2>4
  <2> QED BY <1>3, <2>1, <2>3, <2>5 DEF Distinct
<1>5. CASE ~\E i \in DOMAIN people : people[i].login = l
  <2>1. Upserted(people, l, perm) = Append(people, new)
    BY <1>5 DEF Upserted
  <2> HIDE DEF new
  <2>2. /\ Append(people, new) \in Seq(Collaborator)
        /\ DOMAIN Append(people, new) = DOMAIN people \cup {Len(people) + 1}
        /\ Len(people) + 1 \notin DOMAIN people
        /\ Append(people, new)[Len(people) + 1] = new
        /\ \A i \in DOMAIN people : Append(people, new)[i] = people[i]
    BY <1>1, <1>3
  <2> QED BY <1>1, <1>3, <1>5, <2>1, <2>2 DEF Distinct
<1> QED BY <1>4, <1>5

LEMMA RemovedDistinct ==
  ASSUME NEW people, Distinct(people), NEW l
  PROVE  Distinct(Removed(people, l))
<1> DEFINE S == {x \in Collaborator : x.login # l}
           k == Kept(people, S)
<1>1. people \in Seq(Collaborator)
  BY DEF Distinct
<1>2. k \in Seq(Collaborator) /\ Picks(k, people, S, Len(people))
  BY <1>1, KeptPicks
<1>3. k = Removed(people, l)
  BY DEF Removed
<1> HIDE DEF k, S
<1>4. PICK at \in [1..Len(k) -> 1..Len(people)] :
        /\ \A i \in 1..Len(k) : k[i] = people[at[i]] /\ k[i] \in S
        /\ \A i, j \in 1..Len(k) : i < j => at[i] < at[j]
  BY <1>2 DEF Picks
<1>5. \A i, j \in 1..Len(k) : i # j =>
        /\ at[i] # at[j]
        /\ at[i] \in DOMAIN people /\ at[j] \in DOMAIN people
  <2>1. Len(k) \in Nat /\ Len(people) \in Nat /\ DOMAIN people = 1..Len(people)
    BY <1>1, <1>2
  <2>2. \A i, j \in 1..Len(k) : i # j => i < j \/ j < i
    BY <2>1
  <2> QED BY <1>4, <2>1, <2>2
<1>6. DOMAIN k = 1..Len(k)
  BY <1>2
<1>7. ASSUME NEW i \in DOMAIN k, NEW j \in DOMAIN k, i # j
      PROVE  k[i].login # k[j].login
  <2>1. k[i] = people[at[i]] /\ k[j] = people[at[j]]
    BY <1>4, <1>6, <1>7
  <2> QED BY <1>5, <1>6, <1>7, <2>1 DEF Distinct
<1> QED BY <1>2, <1>3, <1>7 DEF Distinct

-----------------------------------------------------------------------------
(* What the steps do to the lists.                                          *)

(* A client is told of what has happened.                                   *)
LEMMA ToldIsMerged ==
  ASSUME MergesLast, NEW p
  PROVE  /\ <<"github", p>> \in ToldMerged => hub.status[p] = "merged"
         /\ <<"local", p>> \in ToldMerged => local.status[p] = "merged"
BY DEF MergesLast, ToldMerged

(* Nothing that is merged at GitHub is opened again.                        *)
Stays == \A p \in Pulls : hub.status[p] = "merged" => hub'.status[p] = "merged"

LEMMA CallStays ==
  ASSUME PagesSound, Stays, demo' = demo, NEW r \in Requests, requests'[r] = requests[r]
  PROVE  (Knows(requests[r]) /\ PageSound(requests[r]))'
<1>1. Knows(requests[r]) /\ PageSound(requests[r])
  BY DEF PagesSound
<1>2. Knows(requests[r])'
  BY <1>1 DEF Knows, Stays
<1>3. PageSound(requests[r])'
  BY <1>1 DEF PageSound, UnderWay, Fresh, Where, Ask
<1> QED BY <1>2, <1>3

LEMMA ListsStay ==
  ASSUME DataTyped, Distinct(local.people), MergesLast,
         UNCHANGED <<demo, local, hub>>, linked' \in BOOLEAN,
         \A e \in effects' : e.call.op = "merge" => e \in effects
  PROVE  DataTyped' /\ Distinct(local.people)' /\ MergesLast'
BY DEF DataTyped, Distinct, MergesLast

(* A page that is given at once.                                            *)
LEMMA AtOncePages ==
  ASSUME ListInv, UNCHANGED <<demo, hub>>, NEW r \in Requests, NEW c \in Call, NEW answer,
         NEW shown \in Seq(Pulls), EndsAtOnce(r, c, answer, shown),
         answer = "200" /\ Ask(c) # "legacy" /\ c.filter = "open" =>
           \A i \in DOMAIN shown :
             <<IF Ask(c) = "github" THEN "github" ELSE "local", shown[i]>> \notin ToldMerged
  PROVE  PagesSound'
<1> DEFINE new == [at |-> "done", call |-> c, answer |-> answer, shown |-> shown,
                   knew |-> ToldMerged]
<1>1. requests' = [requests EXCEPT ![r] = new]
  BY DEF EndsAtOnce
<1>2. /\ new.at = "done" /\ new.call = c /\ new.answer = answer /\ new.shown = shown
      /\ new.knew = ToldMerged
  OBVIOUS
<1> HIDE DEF new
<1>3. requests'[r] = new /\ \A s \in Requests \ {r} : requests'[s] = requests[s]
  BY <1>1 DEF ListInv, IInv, Shaped
<1>4. Stays
  BY DEF Stays
<1>5. ASSUME NEW s \in Requests, s # r
      PROVE  (Knows(requests[s]) /\ PageSound(requests[s]))'
  BY <1>3, <1>4, <1>5, CallStays DEF ListInv
<1>6. Knows(requests[r])'
  BY <1>2, <1>3, ToldIsMerged DEF Knows, ListInv
<1>7. PageSound(requests[r])'
  BY <1>2, <1>3 DEF PageSound, UnderWay, Fresh, Where, Ask
<1> QED BY <1>5, <1>6, <1>7 DEF PagesSound

(* One that is empty.                                                       *)
LEMMA EmptyAtOnce ==
  ASSUME ListInv, UNCHANGED <<demo, hub>>, NEW r \in Requests, NEW c \in Call, NEW answer,
         EndsAtOnce(r, c, answer, <<>>)
  PROVE  PagesSound'
<1>1. <<>> \in Seq(Pulls) /\ DOMAIN <<>> = {}
  OBVIOUS
<1> QED BY <1>1, AtOncePages


-----------------------------------------------------------------------------
(* What the lists offer, kept by every step.                                *)

LEMMA ListInit == Init => ListInv
<1> SUFFICES ASSUME Init PROVE ListInv
  OBVIOUS
<1>1. IInv
  BY InitHolds
<1>2. Seed \in Seq(Collaborator) /\ <<>> \in Seq(Collaborator) /\ <<>> \in Seq(Pulls)
  BY RepositoryAssumption
<1>3. DataTyped
  BY <1>2, PullsListed DEF Init, DataTyped, Seeded
<1>4. Distinct(local.people)
  BY <1>2, RepositoryAssumption DEF Init, Seeded, Distinct
<1>5. \A r \in Requests : requests[r] = Idle
  BY DEF Init
<1>6. MergesLast /\ PagesSound
  BY <1>2, <1>5 DEF Init, MergesLast, PagesSound, Knows, PageSound, UnderWay, Idle
<1> QED BY <1>1, <1>3, <1>4, <1>6 DEF ListInv

LEMMA RefuseKeeps ==
  ASSUME ListInv, NEW r \in Requests, NEW c \in Call,
         Refuse(r, c) \/ NotServed(r, c) \/ OtherRoute(r, c)
  PROVE  DataTyped' /\ Distinct(local.people)' /\ MergesLast' /\ PagesSound'
<1>1. /\ UNCHANGED <<demo, local, hub>> /\ linked' \in BOOLEAN
      /\ \E answer : EndsAtOnce(r, c, answer, <<>>)
  BY DEF Refuse, NotServed, OtherRoute, ListInv, DataTyped
<1>2. \A e \in effects' : e.call.op = "merge" => e \in effects
  BY DEF Refuse, NotServed, OtherRoute, Effect, Writes, RepoWrites
<1>3. PagesSound'
  BY <1>1, EmptyAtOnce
<1> QED BY <1>1, <1>2, <1>3, ListsStay DEF ListInv

LEMMA LocalReadKeeps ==
  ASSUME ListInv, NEW r \in Requests, NEW c \in Call, LocalRead(r, c)
  PROVE  DataTyped' /\ Distinct(local.people)' /\ MergesLast' /\ PagesSound'
<1> DEFINE S == {p \in Pulls : c.filter \in {"all", local.status[p]}}
           shown == CASE c.op \notin {"pulls", "legacy"} -> <<>>
                      [] Ask(c) = "legacy" -> LegacyShown
                      [] OTHER -> LocalShown(c)
<1>1. /\ UNCHANGED <<demo, local, hub, linked, effects>>
      /\ Ask(c) \in {"demo", "legacy"} /\ EndsAtOnce(r, c, "200", shown)
  BY DEF LocalRead
<1>0. c.op \notin {"pulls", "legacy"} => Ask(c) # "legacy"
  BY DEF LocalRead, Admitted, Failure, Ask, Registered, RepoWrites
<1>2. /\ LocalShown(c) = Page(Kept(local.pulls, S)) /\ LegacyShown = Page(local.pulls)
      /\ local.pulls \in Seq(Pulls)
  BY DEF LocalShown, LegacyShown, ListInv, DataTyped
<1> HIDE DEF S
<1>3. /\ LegacyShown \in Seq(Pulls) /\ LocalShown(c) \in Seq(Pulls)
      /\ \A i \in DOMAIN LocalShown(c) : LocalShown(c)[i] \in S
  <2>1. LegacyShown \in Seq(Pulls)
    BY <1>2, PageMembers
  <2>2. /\ Page(Kept(local.pulls, S)) \in Seq(Pulls)
        /\ \A i \in DOMAIN Page(Kept(local.pulls, S)) : Page(Kept(local.pulls, S))[i] \in S
    BY <1>2, PageOfKept
  <2> QED BY <1>2, <2>1, <2>2
<1>4. /\ c.op \notin {"pulls", "legacy"} => shown = <<>>
      /\ c.op \in {"pulls", "legacy"} /\ Ask(c) = "legacy" => shown = LegacyShown
      /\ c.op \in {"pulls", "legacy"} /\ Ask(c) # "legacy" => shown = LocalShown(c)
  <2> USE <1>0
  <2>1. c.op \notin {"pulls", "legacy"} => shown = <<>>
    OBVIOUS
  <2>2. c.op \in {"pulls", "legacy"} /\ Ask(c) = "legacy" => shown = LegacyShown
    OBVIOUS
  <2>3. c.op \in {"pulls", "legacy"} /\ Ask(c) # "legacy" => shown = LocalShown(c)
    OBVIOUS
  <2> QED BY <2>1, <2>2, <2>3
<1>5. c.filter = "open" => \A p \in S : local.status[p] # "merged"
  BY DEF S, ListInv, DataTyped
<1> HIDE DEF shown
<1>6. <<>> \in Seq(Pulls) /\ DOMAIN <<>> = {}
  OBVIOUS
<1>7. shown \in Seq(Pulls)
  BY <1>3, <1>4, <1>6
<1>8. ASSUME c.filter = "open", Ask(c) # "legacy", NEW i \in DOMAIN shown
      PROVE  <<"local", shown[i]>> \notin ToldMerged
  <2>1. shown = LocalShown(c)
    BY <1>4, <1>6, <1>8
  <2>2. local.status[shown[i]] # "merged"
    BY <1>3, <1>5, <1>8, <2>1
  <2> QED BY <2>2, ToldIsMerged DEF ListInv
<1>9. PagesSound'
  <2>1. Ask(c) # "github"
    BY <1>1
  <2> QED BY <1>1, <1>7, <1>8, <2>1, AtOncePages
<1>10. linked' \in BOOLEAN
  BY <1>1 DEF ListInv, DataTyped
<1> QED BY <1>1, <1>9, <1>10, ListsStay DEF ListInv

(* A change of the demo data.                                               *)
LEMMA LocalMergeKeeps ==
  ASSUME ListInv, NEW r \in Requests, NEW c \in Call, LocalMerge(r, c)
  PROVE  DataTyped' /\ Distinct(local.people)' /\ MergesLast' /\ PagesSound'
<1> DEFINE new == [local EXCEPT !.status[c.pull] = "merged"]
           e0 == [by |-> r, call |-> c, where |-> "local"]
<1>1. /\ UNCHANGED <<demo, hub, linked>> /\ \E answer : EndsAtOnce(r, c, answer, <<>>)
      /\ \/ local' = new /\ effects' = effects \cup {e0}
         \/ UNCHANGED <<local, effects>>
  BY DEF LocalMerge, LocalChange, Effect
<1>2. /\ c.pull \in Pulls
      /\ local = [pulls |-> local.pulls, status |-> local.status, people |-> local.people]
      /\ local.status \in [Pulls -> {"open", "merged"}]
  BY DEF Call, ListInv, DataTyped
<1>3. /\ new.pulls = local.pulls /\ new.people = local.people
      /\ new = [pulls |-> new.pulls, status |-> new.status, people |-> new.people]
      /\ new.status \in [Pulls -> {"open", "merged"}]
      /\ new.status[c.pull] = "merged"
      /\ \A p \in Pulls : local.status[p] = "merged" => new.status[p] = "merged"
  BY <1>2
<1>4. e0.where = "local" /\ e0.call = c
  OBVIOUS
<1>5. PagesSound'
  BY <1>1, EmptyAtOnce
<1> HIDE DEF new, e0
<1>6. CASE UNCHANGED <<local, effects>>
  BY <1>1, <1>5, <1>6, ListsStay DEF ListInv, DataTyped
<1>7. CASE local' = new /\ effects' = effects \cup {e0}
  <2>1. DataTyped' /\ Distinct(local.people)'
    BY <1>1, <1>3, <1>7 DEF ListInv, DataTyped, Distinct
  <2>2. \A e \in effects : e.call \in Call
    BY DEF ListInv, IInv, Shaped, EffectType
  <2>3. \A e \in effects : e.call.op = "merge" => e.call.pull \in Pulls
    BY <2>2 DEF Call
  <2>4. MergesLast'
    BY <1>1, <1>3, <1>4, <1>7, <2>3 DEF ListInv, MergesLast
  <2> QED BY <1>5, <2>1, <2>4
<1> QED BY <1>1, <1>6, <1>7

LEMMA LocalPeopleKeeps ==
  ASSUME ListInv, NEW r \in Requests, NEW c \in Call, LocalInvite(r, c) \/ LocalRemove(r, c)
  PROVE  DataTyped' /\ Distinct(local.people)' /\ MergesLast' /\ PagesSound'
<1> DEFINE New(people) == [local EXCEPT !.people = people]
           up == Upserted(local.people, c.login, c.permission)
           rest == Removed(local.people, c.login)
<1>1. /\ UNCHANGED <<demo, hub, linked>> /\ \E answer : EndsAtOnce(r, c, answer, <<>>)
      /\ \A e \in effects' : e.call.op = "merge" => e \in effects
      /\ local' = New(up) \/ local' = New(rest) \/ UNCHANGED local
  <2> DEFINE e0 == [by |-> r, call |-> c, where |-> "local"]
  <2>1. UNCHANGED <<demo, hub, linked>> /\ \E answer : EndsAtOnce(r, c, answer, <<>>)
    BY DEF LocalInvite, LocalRemove, LocalChange
  <2>2. effects' = effects \/ effects' = effects \cup {e0}
    BY DEF LocalInvite, LocalRemove, LocalChange, Effect
  <2>3. c.op # "merge" /\ e0.call = c
    BY DEF LocalInvite, LocalRemove
  <2>4. local' = New(up) \/ local' = New(rest) \/ UNCHANGED local
    BY Zenon DEF LocalInvite, LocalRemove, LocalChange
  <2> HIDE DEF e0, New, up, rest
  <2> QED BY <2>1, <2>2, <2>3, <2>4
<1>2. /\ local = [pulls |-> local.pulls, status |-> local.status, people |-> local.people]
      /\ c.login \in Logins /\ c.permission \in Permissions
  BY DEF Call, ListInv, DataTyped
<1>3. \A people : New(people) = [pulls |-> local.pulls, status |-> local.status, people |-> people]
  BY <1>2
<1>4. PagesSound'
  BY <1>1, EmptyAtOnce
<1> HIDE DEF New
<1>5. PICK people : /\ Distinct(people)
                    /\ local' = [pulls |-> local.pulls, status |-> local.status, people |-> people]
  BY <1>1, <1>2, <1>3, UpsertedDistinct, RemovedDistinct DEF ListInv
<1>6. local'.people = people /\ local'.status = local.status /\ local'.pulls = local.pulls
  BY <1>5
<1>7. DataTyped' /\ Distinct(local.people)'
  BY <1>1, <1>5, <1>6 DEF ListInv, DataTyped, Distinct
<1>8. MergesLast'
  BY <1>1, <1>6 DEF ListInv, MergesLast
<1> QED BY <1>4, <1>7, <1>8

LEMMA SendKeeps ==
  ASSUME ListInv, NEW r \in Requests, NEW c \in Call, Send(r, c)
  PROVE  DataTyped' /\ Distinct(local.people)' /\ MergesLast' /\ PagesSound'
<1> DEFINE new == [at |-> "waiting", call |-> c, answer |-> "none", shown |-> <<>>,
                   knew |-> ToldMerged]
<1>1. /\ UNCHANGED <<demo, local, hub, linked, effects>> /\ Ask(c) = "github"
      /\ requests' = [requests EXCEPT ![r] = new]
  BY DEF Send
<1>2. /\ new.at = "waiting" /\ new.call = c /\ new.shown = <<>> /\ new.knew = ToldMerged
      /\ <<>> \in Seq(Pulls)
  OBVIOUS
<1> HIDE DEF new
<1>3. requests'[r] = new /\ \A s \in Requests \ {r} : requests'[s] = requests[s]
  BY <1>1 DEF ListInv, IInv, Shaped
<1>4. Stays
  BY <1>1 DEF Stays
<1>5. ASSUME NEW s \in Requests, s # r
      PROVE  (Knows(requests[s]) /\ PageSound(requests[s]))'
  BY <1>1, <1>3, <1>4, <1>5, CallStays DEF ListInv
<1>6. Knows(requests[r])'
  BY <1>1, <1>2, <1>3, ToldIsMerged DEF Knows, ListInv
<1>7. PageSound(requests[r])'
  BY <1>1, <1>2, <1>3 DEF PageSound, UnderWay, Fresh, Where, Ask
<1>8. PagesSound'
  BY <1>5, <1>6, <1>7 DEF PagesSound
<1>9. linked' \in BOOLEAN
  BY <1>1 DEF ListInv, DataTyped
<1> QED BY <1>1, <1>8, <1>9, ListsStay DEF ListInv

(* A call under way: what it knew stays, and its page is sound again.       *)
LEMMA CallMoves ==
  ASSUME ListInv, demo' = demo, Stays, NEW r \in Requests,
         \A s \in Requests \ {r} : requests'[s] = requests[s],
         requests'[r].knew = requests[r].knew, PageSound(requests[r])'
  PROVE  PagesSound'
<1>1. ASSUME NEW s \in Requests, s # r
      PROVE  (Knows(requests[s]) /\ PageSound(requests[s]))'
  BY <1>1, CallStays DEF ListInv
<1>2. Knows(requests[r])'
  BY DEF Knows, Stays, ListInv, PagesSound
<1> QED BY <1>1, <1>2 DEF PagesSound

LEMMA HubServesKeeps ==
  ASSUME ListInv, NEW r \in Requests, HubServes(r)
  PROVE  DataTyped' /\ Distinct(local.people)' /\ MergesLast' /\ PagesSound'
<1> DEFINE c == requests[r].call
           S == {p \in Pulls : HubListed(p, c.filter)}
           page == HubShown(c)
           e0 == [by |-> r, call |-> c, where |-> "github"]
<1>1. /\ r \in travel /\ UNCHANGED <<demo, local, linked>> /\ hub' = HubChanged(c)
      /\ c.op = "merge" => c.op \in RepoWrites
      /\ IF c.op \in RepoWrites THEN effects' = effects \cup {e0} ELSE effects' = effects
      /\ Replied(r, "served", page)
  BY DEF HubServes, Effect, RepoWrites
<1>2. /\ requests'[r].at = IF requests[r].at = "waiting" THEN "served" ELSE requests[r].at
      /\ requests'[r].call = c /\ requests'[r].answer = requests[r].answer
      /\ requests'[r].shown = IF requests[r].at = "waiting" THEN page ELSE requests[r].shown
      /\ requests'[r].knew = requests[r].knew
      /\ \A s \in Requests \ {r} : requests'[s] = requests[s]
  BY <1>1, RepliedDoes DEF ListInv, IInv
<1>3. c \in Call /\ (requests[r].at = "waiting" \/ requests[r].at = "done")
  BY <1>1 DEF ListInv, IInv, TravelSound, AnswersSound
<1>4. /\ c.pull \in Pulls /\ hub = [status |-> hub.status, people |-> hub.people]
      /\ hub.status \in [Pulls -> {"open", "closed", "merged"}]
  BY <1>3 DEF Call, ListInv, DataTyped
<1>5. /\ hub' = [status |-> hub'.status, people |-> hub'.people]
      /\ hub'.status \in [Pulls -> {"open", "closed", "merged"}]
      /\ \A p \in Pulls : hub.status[p] = "merged" => hub'.status[p] = "merged"
      /\ c.op = "merge" => hub'.status[c.pull] = "merged"
  <2>1. CASE c.op = "merge"
    <3>1. hub' = [hub EXCEPT !.status[c.pull] = "merged"]
      BY <1>1, <2>1 DEF HubChanged
    <3> HIDE DEF c
    <3> QED BY <1>4, <3>1
  <2>2. CASE c.op # "merge"
    <3>1. \E people : hub' = [hub EXCEPT !.people = people]
      <4>1. CASE c.op = "invite"
        BY <1>1, <4>1 DEF HubChanged
      <4>2. CASE c.op = "remove"
        BY <1>1, <4>2 DEF HubChanged
      <4>3. CASE c.op \notin {"invite", "remove"}
        <5>1. hub' = hub
          BY <1>1, <2>2, <4>3 DEF HubChanged
        <5>2. hub = [hub EXCEPT !.people = hub.people]
          BY <1>4
        <5> QED BY <5>1, <5>2
      <4> QED BY <4>1, <4>2, <4>3
    <3> QED BY <1>4, <2>2, <3>1
  <2> QED BY <2>1, <2>2
<1>6. page \in Seq(Pulls) /\ \A i \in DOMAIN page : page[i] \in S
  <2>1. CASE c.op \in {"pulls", "legacy", "issues"}
    <3>1. page = Page(Kept(SetToSeq(Pulls), S))
      BY <2>1 DEF HubShown
    <3> HIDE DEF S, page
    <3> QED BY <3>1, PullsListed, PageOfKept
  <2>2. CASE c.op \notin {"pulls", "legacy", "issues"}
    <3>1. page = <<>>
      BY <2>2 DEF HubShown
    <3> QED BY <3>1
  <2> QED BY <2>1, <2>2
<1>7. c.filter = "open" => \A p \in S : hub.status[p] # "merged"
  BY DEF HubListed
<1>8. e0.where = "github" /\ e0.call = c
  OBVIOUS
<1>9. Ask(c) = "github"
  BY <1>1 DEF ListInv, IInv, TravelSound
<1> HIDE DEF c, S, page, e0
<1>10. DataTyped' /\ Distinct(local.people)'
  BY <1>1, <1>5 DEF ListInv, DataTyped, Distinct
<1>11. MergesLast'
  <2>1. \A e \in effects : e.call.op = "merge" => e.call.pull \in Pulls
    BY DEF ListInv, IInv, Shaped, EffectType, Call
  <2>2. \A e \in effects' : e \in effects \/ (e.call = c /\ e.where = "github")
    BY <1>1, <1>8
  <2> QED BY <1>1, <1>5, <2>1, <2>2 DEF ListInv, MergesLast
<1>12. PageSound(requests[r])'
  <2>1. PageSound(requests[r]) /\ Knows(requests[r])
    BY DEF ListInv, PagesSound
  <2>2. CASE requests[r].at = "done"
    BY <1>1, <1>2, <2>1, <2>2 DEF PageSound, UnderWay, Fresh, Where, Ask, c
  <2>3. CASE requests[r].at = "waiting"
    <3>1. c.filter = "open" => \A i \in DOMAIN page : <<"github", page[i]>> \notin requests[r].knew
      BY <1>6, <1>7, <2>1 DEF Knows, S
    <3>2. Ask(requests[r].call)' = "github"
      BY <1>1, <1>2, <1>9 DEF Ask
    <3>3. requests'[r].at = "served" /\ requests'[r].shown = page
      BY <1>2, <2>3
    <3>4. Fresh(requests[r], "github")'
      BY <1>2, <3>1, <3>3 DEF Fresh
    <3> QED BY <1>6, <3>2, <3>3, <3>4 DEF PageSound, UnderWay
  <2> QED BY <1>3, <2>2, <2>3
<1>13. PagesSound'
  BY <1>1, <1>2, <1>5, <1>12, CallMoves DEF Stays
<1> QED BY <1>10, <1>11, <1>13

LEMMA HubDeclinesKeeps ==
  ASSUME ListInv, NEW r \in Requests, HubRefuses(r) \/ HubRedirects(r) \/ HubLoses(r)
  PROVE  DataTyped' /\ Distinct(local.people)' /\ MergesLast' /\ PagesSound'
<1>1. r \in travel /\ UNCHANGED <<demo, local, hub, linked, effects>>
  BY DEF HubRefuses, HubRedirects, HubLoses
<1>2. Stays /\ linked' \in BOOLEAN
  BY <1>1 DEF Stays, ListInv, DataTyped
<1>3. ASSUME HubLoses(r) PROVE PagesSound'
  BY <1>1, <1>2, <1>3, CallStays DEF HubLoses, PagesSound, ListInv
<1>4. ASSUME HubRefuses(r) \/ HubRedirects(r) PROVE PagesSound'
  <2>1. PICK reply \in {"refused", "moved"} :
          Replied(r, reply, <<>>) /\ Ask(requests[r].call) = "github"
    BY <1>4, <1>1 DEF HubRefuses, HubRedirects, ListInv, IInv, TravelSound
  <2>2. /\ requests'[r].at = IF requests[r].at = "waiting" THEN reply ELSE requests[r].at
        /\ requests'[r].call = requests[r].call /\ requests'[r].answer = requests[r].answer
        /\ requests'[r].shown = IF requests[r].at = "waiting" THEN <<>> ELSE requests[r].shown
        /\ requests'[r].knew = requests[r].knew
        /\ \A s \in Requests \ {r} : requests'[s] = requests[s]
    BY <2>1, RepliedDoes DEF ListInv, IInv
  <2>3. PageSound(requests[r]) /\ <<>> \in Seq(Pulls)
    BY DEF ListInv, PagesSound
  <2>4. CASE requests[r].at = "waiting"
    <3>1. PageSound(requests[r])'
      BY <1>1, <2>1, <2>2, <2>3, <2>4 DEF PageSound, UnderWay, Fresh, Where, Ask
    <3> QED BY <1>1, <1>2, <2>2, <3>1, CallMoves
  <2>5. CASE requests[r].at # "waiting"
    <3>0. requests[r].at = "done"
      BY <1>1, <2>5 DEF ListInv, IInv, TravelSound
    <3>1. PageSound(requests[r])'
      BY <1>1, <2>2, <2>3, <2>5, <3>0 DEF PageSound, UnderWay, Fresh, Where, Ask
    <3> QED BY <1>1, <1>2, <2>2, <3>1, CallMoves
  <2> QED BY <2>4, <2>5
<1>5. PagesSound'
  BY <1>3, <1>4
<1> QED BY <1>1, <1>2, <1>5, ListsStay DEF ListInv

LEMMA EndsKeeps ==
  ASSUME ListInv, NEW r \in Requests, Answer(r) \/ Break(r)
  PROVE  DataTyped' /\ Distinct(local.people)' /\ MergesLast' /\ PagesSound'
<1> DEFINE q == requests[r]
<1>1. UNCHANGED <<demo, local, hub, linked, effects>>
  BY DEF Answer, Break
<1>2. /\ Stays /\ linked' \in BOOLEAN /\ PageSound(q)
      /\ <<>> \in Seq(Pulls)
  BY <1>1 DEF Stays, ListInv, DataTyped, PagesSound
<1>3. PICK answer, shown :
        /\ Ends(r, answer, shown)
        /\ \/ q.at = "served" /\ answer = "200" /\ shown = Items(q)
           \/ shown = <<>>
  <2>1. \/ q.at = "served" /\ Ends(r, "200", Items(q))
        \/ Ends(r, "200", <<>>)
        \/ Ends(r, "4xx", <<>>)
        \/ Ends(r, "5xx", <<>>)
    BY DEF Answer, Break, Is
  <2> QED BY <2>1, Zenon
<1>4. /\ requests'[r].at = "done" /\ requests'[r].call = q.call
      /\ requests'[r].answer = answer /\ requests'[r].shown = shown
      /\ requests'[r].knew = q.knew
      /\ \A s \in Requests \ {r} : requests'[s] = requests[s]
  BY <1>3, EndsDoes DEF ListInv, IInv
<1>5. ASSUME shown = <<>> PROVE PageSound(requests[r])'
  <2>1. DOMAIN <<>> = {}
    OBVIOUS
  <2>2. \A where : Fresh(requests[r], where)'
    BY <1>4, <1>5, <2>1 DEF Fresh
  <2>3. requests'[r].shown \in Seq(Pulls)
    BY <1>2, <1>4, <1>5
  <2> QED BY <1>4, <2>2, <2>3 DEF PageSound, UnderWay
<1>6. ASSUME q.at = "served", answer = "200", shown = Items(q)
      PROVE  PageSound(requests[r])'
  <2>1. q.shown \in Seq(Pulls) /\ Ask(q.call) = "github" /\ Fresh(q, "github")
    BY <1>2, <1>6 DEF PageSound, UnderWay
  <2>2. CASE q.call.op = "issues"
    <3>1. shown = <<>>
      BY <1>6, <2>1, <2>2, NoIssues DEF Items
    <3> QED BY <1>2, <1>4, <3>1 DEF PageSound, UnderWay, Fresh, Where, Ask
  <2>3. CASE q.call.op # "issues"
    <3>1. shown = q.shown
      BY <1>6, <2>3 DEF Items
    <3> QED BY <1>1, <1>4, <2>1, <2>3, <3>1 DEF PageSound, UnderWay, Fresh, Where, Ask
  <2> QED BY <2>2, <2>3
<1>7. PageSound(requests[r])'
  BY <1>3, <1>5, <1>6
<1>8. PagesSound'
  BY <1>1, <1>2, <1>4, <1>7, CallMoves
<1> QED BY <1>1, <1>2, <1>8, ListsStay DEF ListInv

LEMMA HubClosesKeeps ==
  ASSUME ListInv, (\E p \in Pulls : HubCloses(p)) \/ UNCHANGED vars
  PROVE  DataTyped' /\ Distinct(local.people)' /\ MergesLast' /\ PagesSound'
<1>1. UNCHANGED <<demo, local, linked, effects, requests>>
  BY DEF HubCloses, vars
<1>2. /\ hub' = [status |-> hub'.status, people |-> hub'.people]
      /\ hub'.status \in [Pulls -> {"open", "closed", "merged"}]
      /\ Stays
  BY DEF HubCloses, vars, ListInv, DataTyped, Stays
<1>3. DataTyped' /\ Distinct(local.people)'
  BY <1>1, <1>2 DEF ListInv, DataTyped, Distinct
<1>4. MergesLast'
  <2>1. \A e \in effects : e.call.op = "merge" => e.call.pull \in Pulls
    BY DEF ListInv, IInv, Shaped, EffectType, Call
  <2> QED BY <1>1, <1>2, <2>1 DEF ListInv, MergesLast, Stays
<1>5. PagesSound'
  BY <1>1, <1>2, CallStays DEF ListInv, PagesSound
<1> QED BY <1>3, <1>4, <1>5

LEMMA KillKeeps ==
  ASSUME ListInv, Kill
  PROVE  DataTyped' /\ Distinct(local.people)' /\ MergesLast' /\ PagesSound'
<1> DEFINE Cut(q) == [q EXCEPT !.at = "done", !.answer = "5xx"]
           Gone(e) == [e EXCEPT !.where = IF @ = "local" THEN "gone" ELSE @]
<1>1. /\ UNCHANGED <<demo, hub, linked>> /\ local' = Seeded(demo)
      /\ effects' = {Gone(e) : e \in effects}
      /\ requests' = [r \in Requests |->
           IF requests[r].at \in {"idle", "done"} THEN requests[r] ELSE Cut(requests[r])]
  BY DEF Kill
<1>2. Seed \in Seq(Collaborator) /\ <<>> \in Seq(Collaborator) /\ <<>> \in Seq(Pulls)
  BY RepositoryAssumption
<1>3. DataTyped'
  BY <1>1, <1>2, PullsListed DEF ListInv, DataTyped, Seeded
<1>4. Distinct(local.people)'
  <2>1. local'.people \in {Seed, <<>>}
    BY <1>1 DEF Seeded
  <2>2. Distinct(Seed) /\ Distinct(<<>>)
    BY <1>2, RepositoryAssumption DEF Distinct
  <2>3. Distinct(local'.people)
    BY <2>1, <2>2
  <2> QED BY <2>3 DEF Distinct
<1>5. \A e \in effects : /\ Gone(e).call = e.call /\ Gone(e).where # "local"
                         /\ Gone(e).where = "github" => e.where = "github"
  BY DEF ListInv, IInv, Shaped, EffectType
<1> HIDE DEF Gone
<1>6. MergesLast'
  <2>1. \A e \in effects' : \E x \in effects :
          /\ e.call = x.call /\ e.where # "local"
          /\ e.where = "github" => x.where = "github"
    BY <1>1, <1>5
  <2>2. hub' = hub
    BY <1>1
  <2> QED BY <2>1, <2>2 DEF ListInv, MergesLast
<1>7. ASSUME NEW r \in Requests
      PROVE  (Knows(requests[r]) /\ PageSound(requests[r]))'
  <2> DEFINE q == requests[r]
  <2>1. CASE q.at \in {"idle", "done"}
    <3>1. requests'[r] = requests[r] /\ Stays
      BY <1>1, <2>1 DEF Stays
    <3> QED BY <1>1, <3>1, CallStays DEF ListInv
  <2>2. CASE q.at \notin {"idle", "done"}
    <3>1. q = [at |-> q.at, call |-> q.call, answer |-> q.answer,
               shown |-> q.shown, knew |-> q.knew]
      BY DEF ListInv, IInv, Shaped
    <3>2. requests'[r] = Cut(q)
      BY <1>1, <2>2
    <3>3. Knows(q) /\ PageSound(q)
      BY DEF ListInv, PagesSound
    <3> HIDE DEF q
    <3>4. /\ requests'[r].at = "done" /\ requests'[r].answer = "5xx"
          /\ requests'[r].shown = q.shown /\ requests'[r].knew = q.knew
      BY <3>1, <3>2
    <3> QED BY <1>1, <3>3, <3>4 DEF Knows, PageSound, UnderWay
  <2> QED BY <2>1, <2>2
<1>8. PagesSound'
  BY <1>7 DEF PagesSound
<1> QED BY <1>3, <1>4, <1>6, <1>8

LEMMA ListNext == ListInv /\ [Next]_vars => ListInv'
<1>1. SUFFICES ASSUME ListInv, [Next]_vars
               PROVE  DataTyped' /\ Distinct(local.people)' /\ MergesLast' /\ PagesSound'
  BY NextHolds DEF ListInv
<1>2. \A r \in Requests : Calls[r] \subseteq Call
  BY RepositoryAssumption
<1>3. ASSUME NEW r \in Requests, NEW c \in Call,
             \/ Refuse(r, c) \/ OtherRoute(r, c) \/ LocalRead(r, c) \/ NotServed(r, c)
             \/ LocalMerge(r, c) \/ LocalInvite(r, c) \/ LocalRemove(r, c) \/ Send(r, c)
      PROVE  DataTyped' /\ Distinct(local.people)' /\ MergesLast' /\ PagesSound'
  BY <1>3, <1>1, RefuseKeeps, LocalReadKeeps, LocalMergeKeeps, LocalPeopleKeeps, SendKeeps
<1>4. ASSUME NEW r \in Requests,
             \/ HubServes(r) \/ HubRefuses(r) \/ HubRedirects(r) \/ HubLoses(r)
             \/ Answer(r) \/ Break(r)
      PROVE  DataTyped' /\ Distinct(local.people)' /\ MergesLast' /\ PagesSound'
  BY <1>4, <1>1, HubServesKeeps, HubDeclinesKeeps, EndsKeeps
<1> QED BY <1>1, <1>2, <1>3, <1>4, HubClosesKeeps, KillKeeps DEF Next

LEMMA ListInvariance == Spec => []ListInv
BY ListInit, ListNext, PTL DEF Spec

(* Whatever is called: a request is answered once it is done and not        *)
(* before, a pull request has one of its states, and the demo data names a  *)
(* collaborator once, however often one is invited or removed               *)
(* (demo_service.py:151, 162).                                              *)
THEOREM TypeCorrect == Spec => []TypeOK
<1>1. ListInv => TypeOK
  BY DEF ListInv, IInv, Shaped, AnswersSound, UnderWay, DataTyped, Distinct, TypeOK, Answers
<1> QED BY <1>1, ListInvariance, PTL

(* A list of open pull requests never offers one that the caller could know *)
(* to be merged, whoever serves the list, however slowly GitHub answers and *)
(* whatever else is called or killed meanwhile (demo_service.py:104,        *)
(* main.py:831).                                                            *)
THEOREM MergedStaysHidden == Spec => []MergedIsNotOffered
<1>1. ListInv => MergedIsNotOffered
  BY DEF ListInv, PagesSound, PageSound, Fresh, Where, MergedIsNotOffered
<1> QED BY <1>1, ListInvariance, PTL

=============================================================================
