------------------------------ MODULE MCPlatform ------------------------------
(* Instances of Platform for TLC. *)
EXTENDS Platform

CONSTANTS r1, r2, h1, h2, h3

Plug(p, grant, args) ==
  [kind |-> "plugin", target |-> p, grant |-> grant, args |-> args]
Agent(a) == [kind |-> "agent", target |-> a, grant |-> "", args |-> ""]
Event(t) == [kind |-> "event", target |-> t, grant |-> "", args |-> ""]
Noop == [kind |-> "noop", target |-> "", grant |-> "", args |-> ""]
Odd == [kind |-> "odd", target |-> "", grant |-> "", args |-> ""]
Flow(w) == [kind |-> "workflow", target |-> w, grant |-> "", args |-> ""]

Publish0 == "event:publish"
MCAgents == {"reviewer"}
MCWorkflows ==
  [pipeline |-> <<Event("review.started"), Agent("reviewer"), Event("review.completed")>>,
   probe |-> <<Noop, Plug("sdk", Execute, "plain")>>,
   stray |-> <<Agent("nobody")>>,
   odd |-> <<Odd>>, listless |-> <<Plug("sdk", Execute, "notalist")>>]

(* A waiting wildcard subscriber; one that comes and goes after one that    *)
(* may raise; hooks that raise and publish.                                 *)
MCSubscribed == "*" :> <<h1>> @@ "agent.completed" :> <<h2, h3>> @@ "agent.started" :> <<>>
                @@ "plugin.post_execute" :> <<h2>>
MCJoins == {<<"agent.started", h3>>}
MCLeaves == {<<"agent.completed", h3>>}
MCHooked == "workflow.after_step" :> <<h3>> @@ "plugin.pre_execute" :> <<h2>>

MCSdk == "sdk" :> {Execute, Publish0}
Manifest(p, flat, grants) ==
  [plugin |-> p, flat |-> flat, named |-> TRUE, semver |-> TRUE, grants |-> grants]
MCFiles ==
  {Manifest("sdk", TRUE, {"network"}), Manifest("filed", TRUE, {Publish0}),
   Manifest("filed", FALSE, {Execute}),
   Manifest("unlisted", FALSE, {Execute}),
   [Manifest("listed", FALSE, {Publish0}) EXCEPT !.semver = FALSE],
   [Manifest("filed", FALSE, {}) EXCEPT !.named = FALSE]}

(* Two runs side by side, and every plugin call over every set of files.    *)
Asked(a, b) == r1 :> a @@ r2 :> b
Meetings == {Asked(Flow("probe"), Agent("reviewer")),
             Asked(Agent("reviewer"), Agent("reviewer")),
             Asked(Flow("pipeline"), Agent("nobody"))}
PluginAsks == {Plug(p, g, a) : p \in {"sdk", "listed", "filed", "unlisted"},
                               g \in {Execute, Publish0}, a \in {"plain", "newline"}}
              \cup {Plug("sdk", "network", "plain")}
FailingAsks == {Flow(w) : w \in {"stray", "odd", "listless", "missing"}}
MCInputs ==
  [asked : Meetings, files : {{}}]
  \cup [asked : {Asked(a, Agent("nobody")) : a \in PluginAsks}, files : SUBSET MCFiles]
  \cup [asked : {Asked(a, Flow("probe")) : a \in FailingAsks}, files : {{}}]

=============================================================================
