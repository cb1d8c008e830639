-------------------------------- MODULE Access --------------------------------
(***************************************************************************)
(* backend/app/main.py: who may call which route, and which git provider   *)
(* serves it.  A caller is "none" (no credentials), "bad" (a token that    *)
(* does not verify) or the role in its token; `csrf' says whether the      *)
(* header matches the token.                                               *)
(***************************************************************************)
EXTENDS Naturals

Roles == {"viewer", "operator", "admin"}
Callers == {"none", "bad"} \cup Roles

(* ROLE_LEVELS *)
Level(who) ==
  CASE who = "viewer" -> 10 [] who = "operator" -> 20 [] who = "admin" -> 30 [] OTHER -> 0

Reads == {"repos", "pulls", "legacy", "issues", "people", "jobs"}
RepoWrites == {"merge", "invite", "remove"}
Writes == RepoWrites \cup {"agent", "review_job", "store_token", "rotate_key", "plugin"}

(* Routes whose dependency is require_role: no caller without a token, not  *)
(* even in demo mode.                                                       *)
Guarded == {"store_token", "rotate_key", "plugin"}

(* The role a route asks for, of every caller or, unless it is guarded,     *)
(* outside demo mode.                                                       *)
Required(op) ==
  CASE op \in {"invite", "remove", "rotate_key", "plugin"} -> "admin"
    [] op \in {"merge", "agent", "store_token"} -> "operator"
    [] OTHER -> "viewer"

(* Mutated form: the token of a demo caller is not held against its header. *)
AuthFailureDemo(demo, op, who, csrf) ==
  CASE who = "none" /\ (op \in Guarded \/ ~demo) -> "401"
    [] who = "bad" -> "401"
    [] who \in Roles /\ op \in Writes /\ ~csrf /\ ~demo -> "403"
    [] OTHER -> "none"

(* demo_or_viewer_context, and get_auth_context behind it and require_role. *)
AuthFailure(demo, op, who, csrf) ==
  CASE who = "none" /\ (op \in Guarded \/ ~demo) -> "401"
    [] who = "bad" -> "401"
    [] who \in Roles /\ op \in Writes /\ ~csrf -> "403"
    [] OTHER -> "none"

(* require_role, and ensure_role of the routes that call it outside demo.   *)
RoleFailure(demo, op, who) ==
  IF (op \in Guarded \/ ~demo) /\ Level(who) < Level(Required(op)) THEN "403" ELSE "none"

(* Mutated form: demo mode stands in for an empty hint only. *)
ProviderNameLiteral(demo, hint) ==
  IF hint = "" THEN (IF demo THEN "demo" ELSE "github") ELSE hint

(* resolve_git_provider_name, of a hint in lower case without blanks.       *)
ProviderName(demo, hint) ==
  IF demo /\ hint \in {"", "github", "auto"} THEN "demo"
  ELSE IF hint = "" THEN "github" ELSE hint

(* GitProviderRouter *)
Registered == {"github", "gitlab", "demo"}

(* What ends a call before a provider is asked, in the order of the routes. *)
Failure(demo, c) ==
  LET auth == AuthFailure(demo, c.op, c.who, c.csrf)
      role == RoleFailure(demo, c.op, c.who)
  IN IF auth # "none" THEN auth
     ELSE IF role # "none" THEN role
     ELSE IF c.op = "legacy" /\ ~c.owner THEN (IF demo THEN "none" ELSE "400")
     ELSE IF c.op \in (Reads \ {"jobs"}) \cup RepoWrites
               /\ ProviderName(demo, c.hint) \notin Registered THEN "404"
     ELSE "none"

=============================================================================
