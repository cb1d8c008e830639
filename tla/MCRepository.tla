----------------------------- MODULE MCRepository -----------------------------
(* Instances of Repository for TLC. *)
EXTENDS Repository, TLC

CONSTANTS p1, p2, u1, u2, q1, q2

Plain == [op |-> "pulls", who |-> "admin", csrf |-> TRUE, hint |-> "github", owner |-> TRUE,
          pull |-> p1, filter |-> "open", login |-> u1, permission |-> "push"]

(* Every route by every caller with every provider hint; the writing routes *)
(* also without the CSRF header, and the legacy one without an owner.       *)
As(op, who, hint) == [Plain EXCEPT !.op = op, !.who = who, !.hint = hint]
Hints == {"", "github", "auto", "demo", "gitlab"}
AccessCalls ==
  {As(op, who, hint) : op \in (Reads \ {"jobs"}) \cup RepoWrites, who \in Callers, hint \in Hints}
  \cup {As(op, who, "github") : op \in {"jobs"} \cup Writes, who \in Callers}
  \cup {[As(op, who, "github") EXCEPT !.csrf = FALSE] : op \in Writes, who \in Callers}
  \cup {[As("legacy", who, hint) EXCEPT !.owner = FALSE] : who \in Callers, hint \in Hints}

(* Calls that meet each other. *)
MeetingCalls ==
  {Plain, [Plain EXCEPT !.op = "merge"], [Plain EXCEPT !.op = "invite", !.login = u2],
   [Plain EXCEPT !.op = "remove", !.login = u2], [Plain EXCEPT !.op = "merge", !.pull = p2]}

(* Any call beside one of those. *)
AnyBesideMeeting == q1 :> AccessCalls @@ q2 :> MeetingCalls

MCSeed == <<[login |-> u1, permission |-> "admin"]>>

=============================================================================
