------------------------------ MODULE Repository ------------------------------
(***************************************************************************)
(* The repository routes of main.py, with the providers that serve them:   *)
(* demo data in memory (demo_service.py) and GitHub (github_service.py     *)
(* through git_providers.py).  What a demo provider does has no await; a   *)
(* call of GitHub travels: GitHub acts on it at some time, and its answer  *)
(* may come too late or never.                                             *)
(***************************************************************************)
EXTENDS Access, Sequences, FiniteSets, SequencesExt

CONSTANTS
  Requests,   \* calls of the routes
  Calls,      \* request -> the calls it may be: records of Call
  Modes,      \* values of DEMO_MODE
  Pulls,      \* pull requests
  Logins,     \* users
  Seed,       \* demo collaborators after seed()
  Limit,      \* the limit of a list
  MaxKills    \* bound on the number of kills

Permissions == {"pull", "push", "admin"}

Call == [op : Reads \cup Writes, who : Callers, csrf : BOOLEAN, hint : STRING,
         owner : BOOLEAN, pull : Pulls, filter : {"open", "closed", "all"},
         login : Logins, permission : Permissions]

Collaborator == [login : Logins, permission : Permissions]

ASSUME RepositoryAssumption ==
  /\ Calls \in [Requests -> SUBSET Call] /\ Modes \subseteq BOOLEAN
  /\ IsFiniteSet(Pulls)
  /\ Seed \in Seq(Collaborator)
  /\ \A i, k \in DOMAIN Seed : i # k => Seed[i].login # Seed[k].login
  /\ Limit \in Nat \ {0} /\ MaxKills \in Nat

VARIABLES
  demo,      \* DEMO_MODE
  local,     \* DemoDataService: the pull requests and collaborators of a repository
  hub,       \* GitHub's (external)
  linked,    \* whether the vault holds the GitHub token of the owner
  requests,  \* the calls: where they are, and what they were answered
  travel,    \* calls on their way to GitHub
  audit,     \* the calls with a line in the audit log, and what it says
  effects,   \* history: what changed for which call, where
  kills      \* number of kills so far

vars == <<demo, local, hub, linked, requests, travel, audit, effects, kills>>

-----------------------------------------------------------------------------
(* DemoDataService.  seed is called in demo mode only. *)

Seeded(mode) ==
  IF mode THEN [pulls |-> SetToSeq(Pulls), status |-> [p \in Pulls |-> "open"], people |-> Seed]
  ELSE [pulls |-> <<>>, status |-> [p \in Pulls |-> "open"], people |-> <<>>]

(* Mutated form: a collaborator is invited again. *)
UpsertedTwice(people, l, perm) == Append(people, [login |-> l, permission |-> perm])

Upserted(people, l, perm) ==
  IF \E i \in DOMAIN people : people[i].login = l
  THEN [i \in DOMAIN people |->
          IF people[i].login = l THEN [people[i] EXCEPT !.permission = perm] ELSE people[i]]
  ELSE Append(people, [login |-> l, permission |-> perm])

(* [x for x in s if x in S] *)
Kept(s, S) == FlattenSeq([i \in DOMAIN s |-> IF s[i] \in S THEN <<s[i]>> ELSE <<>>])

Removed(people, l) == Kept(people, {x \in Collaborator : x.login # l})

Page(s) == SubSeq(s, 1, IF Len(s) < Limit THEN Len(s) ELSE Limit)

(* Mutated form: every status is shown. *)
LocalShownAll(c) == Page(local.pulls)

(* DemoGitProvider.list_pull_requests.  "merged" is a status of its own.    *)
LocalShown(c) ==
  Page(Kept(local.pulls, {p \in Pulls : c.filter \in {"all", local.status[p]}}))

(* The legacy route without an owner does not filter. *)
LegacyShown == Page(local.pulls)

-----------------------------------------------------------------------------
Idle == [at |-> "idle", call |-> <<>>, answer |-> "none", shown |-> <<>>, knew |-> {}]

Init ==
  /\ demo \in Modes
  /\ local = Seeded(demo)
  /\ hub = [status |-> [p \in Pulls |-> "open"], people |-> [l \in Logins |-> "none"]]
  /\ linked \in BOOLEAN
  /\ requests = [r \in Requests |-> Idle]
  /\ travel = {} /\ audit = {} /\ effects = {} /\ kills = 0

(* Pull requests that a client has been told are merged, and where.         *)
ToldMerged ==
  {<<e.where, e.call.pull>> : e \in {x \in effects :
      x.call.op = "merge" /\ requests[x.by].answer = "200"}}

Is(r, at) == requests[r].at = at

Ends(r, answer, shown) ==
  requests' = [requests EXCEPT ![r].at = "done", ![r].answer = answer, ![r].shown = shown]

EndsAtOnce(r, c, answer, shown) ==
  requests' = [requests EXCEPT ![r] =
    [at |-> "done", call |-> c, answer |-> answer, shown |-> shown, knew |-> ToldMerged]]

Effect(r, c, where) == effects' = effects \cup {[by |-> r, call |-> c, where |-> where]}

(* The line of a merge says whether it was merged; the others carry no      *)
(* outcome.                                                                 *)
Outcome(c, merged) ==
  IF c.op # "merge" THEN "unsaid" ELSE IF merged THEN "merged" ELSE "not merged"

Audited(r, c, merged) ==
  audit' = audit \cup {[by |-> r, op |-> c.op, outcome |-> Outcome(c, merged)]}

(* A call that fails before anything is asked. *)
Refuse(r, c) ==
  /\ Is(r, "idle") /\ Failure(demo, c) # "none"
  /\ EndsAtOnce(r, c, Failure(demo, c), <<>>)
  /\ UNCHANGED <<demo, local, hub, linked, travel, audit, effects, kills>>

Admitted(r, c) == Is(r, "idle") /\ Failure(demo, c) = "none"

(* Routes that touch no repository; storing a GitHub token links its owner. *)
OtherRoute(r, c) ==
  /\ Admitted(r, c)
  /\ c.op \in (Writes \ RepoWrites) \cup {"jobs"}
  /\ linked' = (linked \/ c.op = "store_token")
  /\ IF c.op = "jobs" THEN UNCHANGED effects ELSE Effect(r, c, "local")
  /\ EndsAtOnce(r, c, "200", <<>>)
  /\ UNCHANGED <<demo, local, hub, travel, audit, kills>>

Ask(c) == IF c.op = "legacy" /\ demo /\ ~c.owner THEN "legacy" ELSE ProviderName(demo, c.hint)

LocalRead(r, c) ==
  /\ Admitted(r, c)
  /\ c.op \in Reads \ {"jobs"} /\ Ask(c) \in {"demo", "legacy"}
  /\ EndsAtOnce(r, c, "200",
       CASE c.op \notin {"pulls", "legacy"} -> <<>>
         [] Ask(c) = "legacy" -> LegacyShown
         [] OTHER -> LocalShown(c))
  /\ UNCHANGED <<demo, local, hub, linked, travel, audit, effects, kills>>

(* DemoGitProvider's writes.  What is not found is a 404 in demo mode only: *)
(* outside it, the call is answered and audited like any other.  The append *)
(* to the audit log may raise.                                              *)
LocalChange(r, c, found, new) ==
  /\ Admitted(r, c) /\ Ask(c) = "demo"
  /\ IF found
     THEN local' = new /\ Effect(r, c, "local")
     ELSE UNCHANGED <<local, effects>>
  /\ IF demo /\ ~found
     THEN EndsAtOnce(r, c, "404", <<>>) /\ UNCHANGED audit
     ELSE \/ EndsAtOnce(r, c, "200", <<>>) /\ Audited(r, c, found)
          \/ EndsAtOnce(r, c, "5xx", <<>>) /\ UNCHANGED audit
  /\ UNCHANGED <<demo, hub, linked, travel, kills>>

(* A pull request that is merged already is answered in the same way. *)
LocalMerge(r, c) ==
  /\ c.op = "merge"
  /\ LocalChange(r, c, Contains(local.pulls, c.pull),
                 [local EXCEPT !.status[c.pull] = "merged"])

LocalInvite(r, c) ==
  /\ c.op = "invite"
  /\ LocalChange(r, c, TRUE,
                 [local EXCEPT !.people = Upserted(@, c.login, c.permission)])

LocalRemove(r, c) ==
  /\ c.op = "remove"
  /\ LocalChange(r, c, \E i \in DOMAIN local.people : local.people[i].login = c.login,
                 [local EXCEPT !.people = Removed(@, c.login)])

(* GitLabGitProvider, and GitHub without a token in the vault. *)
NotServed(r, c) ==
  /\ Admitted(r, c)
  /\ c.op \in (Reads \ {"jobs"}) \cup RepoWrites
  /\ \/ Ask(c) = "gitlab" /\ EndsAtOnce(r, c, "501", <<>>)
     \/ Ask(c) = "github" /\ ~linked /\ EndsAtOnce(r, c, "401", <<>>)
  /\ UNCHANGED <<demo, local, hub, linked, travel, audit, effects, kills>>

(* _github_api_request up to its await. *)
Send(r, c) ==
  /\ Admitted(r, c)
  /\ c.op \in (Reads \ {"jobs"}) \cup RepoWrites
  /\ Ask(c) = "github" /\ linked
  /\ requests' = [requests EXCEPT ![r] =
       [at |-> "waiting", call |-> c, answer |-> "none", shown |-> <<>>, knew |-> ToldMerged]]
  /\ travel' = travel \cup {r}
  /\ UNCHANGED <<demo, local, hub, linked, audit, effects, kills>>

-----------------------------------------------------------------------------
(* GitHub (external).  A merged pull request counts as closed.              *)

HubChanged(c) ==
  CASE c.op = "merge" -> [hub EXCEPT !.status[c.pull] = "merged"]
    [] c.op = "invite" -> [hub EXCEPT !.people[c.login] = c.permission]
    [] c.op = "remove" -> [hub EXCEPT !.people[c.login] = "none"]
    [] OTHER -> hub

HubListed(p, filter) ==
  filter = "all" \/ (filter = "open") = (hub.status[p] = "open")

(* GitHub lists pull requests among the issues, too. *)
HubShown(c) ==
  IF c.op \in {"pulls", "legacy", "issues"}
  THEN Page(Kept(SetToSeq(Pulls), {p \in Pulls : HubListed(p, c.filter)})) ELSE <<>>

Replied(r, reply, shown) ==
  requests' = [requests EXCEPT ![r] =
    IF @.at = "waiting" THEN [@ EXCEPT !.at = reply, !.shown = shown] ELSE @]

HubServes(r) ==
  /\ r \in travel
  /\ LET c == requests[r].call
     IN /\ c.op = "merge" => hub.status[c.pull] = "open"
        /\ hub' = HubChanged(c)
        /\ IF c.op \in RepoWrites THEN Effect(r, c, "github") ELSE UNCHANGED effects
        /\ Replied(r, "served", HubShown(c))
  /\ travel' = travel \ {r}
  /\ UNCHANGED <<demo, local, linked, audit, kills>>

HubRefuses(r) ==
  /\ r \in travel
  /\ Replied(r, "refused", <<>>)
  /\ travel' = travel \ {r}
  /\ UNCHANGED <<demo, local, hub, linked, audit, effects, kills>>

(* A redirection, as for a repository that was renamed: httpx does not      *)
(* follow it, and nothing has changed.                                      *)
HubRedirects(r) ==
  /\ r \in travel
  /\ Replied(r, "moved", <<>>)
  /\ travel' = travel \ {r}
  /\ UNCHANGED <<demo, local, hub, linked, audit, effects, kills>>

HubLoses(r) ==
  /\ r \in travel
  /\ travel' = travel \ {r}
  /\ UNCHANGED <<demo, local, hub, linked, requests, audit, effects, kills>>

HubCloses(p) ==
  /\ hub.status[p] = "open"
  /\ hub' = [hub EXCEPT !.status[p] = "closed"]
  /\ UNCHANGED <<demo, local, linked, requests, travel, audit, effects, kills>>

-----------------------------------------------------------------------------
(* What the service makes of a page: it leaves out what is not an issue. *)
Items(q) == IF q.call.op = "issues" THEN Kept(q.shown, ToSet(q.shown) \ Pulls) ELSE q.shown

(* Mutated form: a merge that GitHub did not refuse is told as merged.      *)
AnswerHopeful(r) ==
  \/ /\ requests[r].at \in {"served", "moved"}
     /\ Ends(r, "200", Items(requests[r]))
     /\ IF requests[r].call.op \in RepoWrites
        THEN Audited(r, requests[r].call, TRUE) ELSE UNCHANGED audit
     /\ UNCHANGED <<demo, local, hub, linked, travel, effects, kills>>
  \/ /\ Is(r, "refused")
     /\ Ends(r, "4xx", <<>>)
     /\ UNCHANGED <<demo, local, hub, linked, travel, audit, effects, kills>>

(* The answer of GitHub arrives.  A status from 400 on is passed on.  What  *)
(* is below counts as success and is audited by the routes that write, a    *)
(* redirection, too; but its body is no list for the routes that read, and  *)
(* tells of no merge.                                                       *)
Answer(r) ==
  \/ /\ Is(r, "served")
     /\ Ends(r, "200", Items(requests[r]))
     /\ IF requests[r].call.op \in RepoWrites
        THEN Audited(r, requests[r].call, TRUE) ELSE UNCHANGED audit
     /\ UNCHANGED <<demo, local, hub, linked, travel, effects, kills>>
  \/ /\ Is(r, "moved")
     /\ IF requests[r].call.op \in RepoWrites
        THEN Ends(r, "200", <<>>) /\ Audited(r, requests[r].call, FALSE)
        ELSE Ends(r, "5xx", <<>>) /\ UNCHANGED audit
     /\ UNCHANGED <<demo, local, hub, linked, travel, effects, kills>>
  \/ /\ Is(r, "refused")
     /\ Ends(r, "4xx", <<>>)
     /\ UNCHANGED <<demo, local, hub, linked, travel, audit, effects, kills>>

(* Mutated form: an error of the transport is told as GitHub's refusal. *)
BreakAsRefusal(r) ==
  /\ requests[r].at \in {"waiting", "served", "moved", "refused"}
  /\ Ends(r, "4xx", <<>>)
  /\ UNCHANGED <<demo, local, hub, linked, travel, audit, effects, kills>>

(* httpx gives up or fails, the body is no JSON, or the audit append raises *)
(* (500 or 502): GitHub may have acted, or may act yet.                     *)
Break(r) ==
  /\ requests[r].at \in {"waiting", "served", "moved", "refused"}
  /\ Ends(r, "5xx", <<>>)
  /\ UNCHANGED <<demo, local, hub, linked, travel, audit, effects, kills>>

(* The process is killed and started again: demo data is as seeded, calls   *)
(* in progress are cut off, GitHub goes on.                                 *)
Kill ==
  /\ kills < MaxKills
  /\ kills' = kills + 1
  /\ local' = Seeded(demo)
  /\ requests' = [r \in Requests |->
       IF requests[r].at \in {"idle", "done"} THEN requests[r]
       ELSE [requests[r] EXCEPT !.at = "done", !.answer = "5xx"]]
  /\ effects' = {[e EXCEPT !.where = IF @ = "local" THEN "gone" ELSE @] : e \in effects}
  /\ UNCHANGED <<demo, hub, linked, travel, audit>>

Next ==
  \/ \E r \in Requests : Is(r, "idle") /\ \E c \in Calls[r] :
       Refuse(r, c) \/ OtherRoute(r, c) \/ LocalRead(r, c) \/ LocalMerge(r, c)
       \/ LocalInvite(r, c) \/ LocalRemove(r, c) \/ NotServed(r, c) \/ Send(r, c)
  \/ \E r \in Requests :
       HubServes(r) \/ HubRefuses(r) \/ HubRedirects(r) \/ HubLoses(r) \/ Answer(r) \/ Break(r)
  \/ \E p \in Pulls : HubCloses(p)
  \/ Kill

Spec == Init /\ [][Next]_vars

-----------------------------------------------------------------------------
(* Properties.                                                              *)

Answers == {"none", "200", "400", "401", "403", "404", "501", "4xx", "5xx"}

(* Every variable keeps its shape, and the demo data names every            *)
(* collaborator once however often it is invited (demo_service.py:151).     *)
TypeOK ==
  /\ demo \in Modes /\ linked \in BOOLEAN /\ travel \subseteq Requests
  /\ \A p \in Pulls : local.status[p] \in {"open", "merged"}
                    /\ hub.status[p] \in {"open", "closed", "merged"}
  /\ \A i, k \in DOMAIN local.people : i # k => local.people[i].login # local.people[k].login
  /\ \A r \in Requests :
       /\ requests[r].at \in {"idle", "waiting", "served", "moved", "refused", "done"}
       /\ requests[r].answer \in Answers
       /\ requests[r].answer = "none" <=> requests[r].at # "done"

(* What changed, changed for a caller whom the documented rules allow       *)
(* (docs/api.md:135, 150, 155, 27): outside demo mode one with the role; in *)
(* every mode one whose token, if there is one, verified and came with its  *)
(* CSRF header; and the guarded routes never for a caller without a token.  *)
(* In demo mode nothing changes at GitHub, even when a token is stored      *)
(* (main.py:274).                                                           *)
EffectsAuthorised ==
  \A e \in effects :
    LET c == e.call
    IN /\ c.who = "none" \/ (c.who \in Roles /\ c.csrf)
       /\ c.who = "none" => demo /\ c.op \notin {"rotate_key", "plugin", "store_token"}
       /\ ~demo /\ c.op \in {"invite", "remove"} => c.who = "admin"
       /\ ~demo /\ c.op = "merge" => c.who \in {"operator", "admin"}
       /\ c.op \in {"rotate_key", "plugin"} => c.who = "admin"
       /\ demo => e.where # "github"

(* A caller who is told that a call was refused may rely on it: nothing has *)
(* changed on its account, here or at GitHub, and nothing will.  (An error  *)
(* of the server, 5xx, promises nothing.)                                   *)
RefusedMeansUnchanged ==
  \A e \in effects : requests[e.by].answer \in {"none", "200", "5xx"}

(* Whether a line tells of a change; and whether it may stand for one.      *)
Claims(a) == demo \/ a.outcome = "merged"
Confirms(a) == a.outcome # "not merged"

(* The audit log claims no merge that did not happen, and in demo mode no   *)
(* change at all; and every change of a repository that was answered with   *)
(* success is in it, a merge as merged.  (Outside demo mode the line of an  *)
(* invitation or a removal says no more than that it was asked for: there   *)
(* is one also where nobody was found to remove, main.py:977, and where     *)
(* GitHub redirected, github_service.py:107.)                               *)
AuditMatchesEffects ==
  /\ \A a \in audit : Claims(a) => \E e \in effects : e.by = a.by
  /\ \A e \in effects :
       e.call.op \in RepoWrites /\ requests[e.by].answer = "200" =>
         \E a \in audit : a.by = e.by /\ Confirms(a)

(* A list of open pull requests that was asked for after a merge had been   *)
(* answered does not offer the merged one, by whichever provider and however *)
(* the calls travel.  (The legacy route without an owner does not filter.)  *)
MergedIsNotOffered ==
  \A r \in Requests :
    LET q == requests[r]
        where == IF Ask(q.call) = "github" THEN "github" ELSE "local"
    IN q.at = "done" /\ q.answer = "200" /\ Ask(q.call) # "legacy" /\ q.call.filter = "open" =>
         \A i \in DOMAIN q.shown : <<where, q.shown[i]>> \notin q.knew

(* Violated: the demo provider answers in demo mode only ("`demo` available *)
(* in demo mode", docs/api.md:100).                                         *)
DemoOnlyInDemoMode ==
  \A r \in Requests :
    Is(r, "done") /\ requests[r].answer = "200" /\ requests[r].call.op \in Reads \ {"jobs"}
      /\ Ask(requests[r].call) = "demo" => demo

=============================================================================
