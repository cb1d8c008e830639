------------------------------- MODULE Platform -------------------------------
(***************************************************************************)
(* backend/app/platform: the event bus, the plugin framework with its      *)
(* sandbox, the agent framework and the workflow engine, and the routes of *)
(* main.py that start their runs.                                          *)
(*                                                                         *)
(* A run is a coroutine.  `todo' is what it still has to do: publish an    *)
(* event, call a handler, run a plugin.  All runs share one event loop:    *)
(* `turn' is the run that has it, and it is given up only where a handler, *)
(* a hook, a plugin or an agent really waits.                              *)
(***************************************************************************)
EXTENDS Naturals, Sequences, FiniteSets, SequencesExt

CONSTANTS
  Runs,        \* the calls of the three run routes
  Inputs,      \* what may be asked for, and over which manifests: see Init
  Workflows,   \* registered workflows: name -> sequence of steps
  Agents,      \* registered agents
  Files,       \* manifests that may lie in plugins_root: see ManifestFile
  Sdk,         \* registered SDK plugins: name -> permissions
  Allowlist,   \* PLUGIN_ALLOWLIST
  Enabled,     \* PLUGIN_SANDBOX_ENABLED
  Runnable,    \* plugins whose file is an executable inside plugins_root
  Plugins,     \* all plugin names that occur
  Handlers,    \* subscribers of the bus and hooks of extension points
  Async,       \* those that are coroutine functions and wait
  Raising,     \* those that may raise
  Echoing,     \* those that publish EchoTopic on the bus
  Subscribed,  \* topic or "*" -> handlers subscribed at the start, in order
  Hooked,      \* extension point -> hooks, in order
  Joins,       \* subscriptions <<topic, handler>> that are made later
  Leaves,      \* subscriptions that are taken back later
  MaxEvents,   \* EVENT_BUS_MAX_EVENTS
  MaxListed,   \* the largest limit of GET /api/platform/events
  None         \* no run

Execute == "plugin:execute"      \* PluginPermissions.EXECUTE
EchoTopic == "echo"

Ask == {a \in [kind : STRING, target : STRING, grant : STRING, args : STRING] :
          a.kind = "plugin" => a.target \in Plugins}

ManifestFile == [plugin : Plugins, flat : BOOLEAN, named : BOOLEAN,
                 semver : BOOLEAN, grants : SUBSET STRING]

ASSUME PlatformAssumption ==
  /\ None \notin Runs \cup STRING \cup {Execute} /\ "run" \notin Handlers
  /\ Files \subseteq ManifestFile
  /\ \A w \in DOMAIN Workflows : Workflows[w] \in Seq(Ask)
  /\ \A i \in Inputs :
       /\ i.asked \in [Runs -> Ask] /\ i.files \subseteq Files
       /\ \A r \in Runs : i.asked[r].kind \in {"agent", "workflow", "plugin"}
  /\ "*" \in DOMAIN Subscribed /\ EchoTopic \notin DOMAIN Subscribed
  /\ Subscribed \in [DOMAIN Subscribed -> Seq(Handlers)]
  /\ \A x \in DOMAIN Hooked : Hooked[x] \in Seq(Handlers)
  /\ Joins \cup Leaves \subseteq (DOMAIN Subscribed) \X Handlers
  /\ MaxEvents \in Nat \ {0} /\ MaxListed \in Nat \ {0}
  /\ DOMAIN Sdk \subseteq Plugins /\ Allowlist \subseteq Plugins
  /\ \A p \in DOMAIN Sdk : Sdk[p] \subseteq STRING

VARIABLES
  asked,       \* what each run was asked for
  files,       \* the manifests in plugins_root
  boot,        \* "files", "up", or "dead" when a manifest ends the process
  read,        \* the manifests that were read
  manifests,   \* PluginRegistry._manifests: plugin -> grants, or NoManifest
  subs,        \* AsyncEventBus._handlers
  recent,      \* AsyncEventBus._recent_events, as indexes of log
  turn,        \* the run that has the event loop, or None
  runs,        \* each run: where it is, its error, what it has to do
  audit,       \* what the route wrote about a plugin run
  log,         \* history: every event published, with the run and the author
  seen,        \* history: the events each handler was called with
  executed,    \* history: <<plugin, permission, run>> whose code was started
  moved        \* history: subscriptions made or taken back since the start

input == <<asked, files>>
registry == <<input, boot, read, manifests>>
bus == <<recent, log>>
vars == <<registry, subs, bus, turn, runs, audit, seen, executed, moved>>

-----------------------------------------------------------------------------
(* What a run has to do.  It is asked for by a record of kind, target,      *)
(* grant and args.                                                          *)

Publishing(t, who) == [op |-> "publish", topic |-> t, by |-> who]
Pub(t) == Publishing(t, "run")
Emit(x) == [op |-> "emit", point |-> x]
Steps(left) == [op |-> "steps", left |-> left]
Call(h, e) == [op |-> "call", who |-> h, event |-> e]
Return(h) == [op |-> "return", who |-> h]
Raise(e) == [op |-> "raise", error |-> e]

(* AgentFramework.run_agent. *)
AgentProgram(a) ==
  IF a \notin Agents THEN <<Raise("agent")>>
  ELSE <<Pub("agent.started"), [op |-> "handle"], Pub("agent.completed")>>

(* PluginFramework.run_plugin. *)
PluginProgram(p, grant, args) ==
  <<[op |-> "resolve", plugin |-> p, grant |-> grant],
    Pub("plugin.pre_execute"), Emit("plugin.pre_execute"),
    [op |-> "execute", plugin |-> p, grant |-> grant, args |-> args],
    Pub("plugin.post_execute"), Emit("plugin.post_execute")>>

(* WorkflowEngine._execute_step. *)
StepProgram(s) ==
  CASE s.kind = "event" -> <<Pub(s.target)>>
    [] s.kind = "agent" -> AgentProgram(s.target)
    [] s.kind = "plugin" ->
         IF s.args = "notalist" THEN <<Raise("workflow")>>
         ELSE PluginProgram(s.target, s.grant, s.args)
    [] s.kind = "noop" -> <<>>
    [] OTHER -> <<Raise("workflow")>>

(* WorkflowEngine.run_workflow. *)
WorkflowProgram(w) ==
  IF w \notin DOMAIN Workflows THEN <<Raise("workflow")>>
  ELSE <<Pub("workflow.started"), Steps(Workflows[w]), Pub("workflow.completed")>>

(* The routes run_agent, run_workflow and run_plugin. *)
Program(ask) ==
  CASE ask.kind = "agent" -> AgentProgram(ask.target)
    [] ask.kind = "workflow" -> WorkflowProgram(ask.target)
    [] ask.kind = "plugin" -> PluginProgram(ask.target, ask.grant, ask.args)

-----------------------------------------------------------------------------
NoManifest == {None}
Grants(p) == manifests[p]

Init ==
  /\ \E i \in Inputs : asked = i.asked /\ files = i.files
  /\ boot = "files" /\ read = {}
  /\ manifests = [p \in Plugins |-> NoManifest]
  /\ subs = Subscribed
  /\ recent = <<>> /\ log = <<>>
  /\ turn = None
  /\ runs = [r \in Runs |-> [at |-> "idle", error |-> "none", todo |-> <<>>]]
  /\ audit = [r \in Runs |-> "none"]
  /\ seen = [h \in Handlers |-> <<>>]
  /\ executed = {} /\ moved = {}

(* PluginRegistry.discover_manifests: the flat pattern first, and within a  *)
(* pattern the order of the directory.  A version that is not semver is     *)
(* skipped; a manifest without a name raises KeyError, which nobody catches *)
(* while the module is imported.                                            *)
Discover(f) ==
  /\ boot = "files"
  /\ f \in files \ read
  /\ ~f.flat => \A g \in files \ read : ~g.flat
  /\ read' = read \cup {f}
  /\ boot' = IF f.named THEN boot ELSE "dead"
  /\ manifests' = IF f.named /\ f.semver
                  THEN [manifests EXCEPT ![f.plugin] = f.grants] ELSE manifests
  /\ UNCHANGED <<input, subs, bus, turn, runs, audit, seen, executed, moved>>

(* Mutated form: the manifest of an SDK plugin does not replace a file's. *)
RegisterSdkKeeping ==
  /\ boot = "files" /\ read = files
  /\ boot' = "up"
  /\ manifests' = [p \in Plugins |-> IF p \in DOMAIN Sdk /\ Grants(p) = NoManifest
                                     THEN Sdk[p] ELSE Grants(p)]
  /\ UNCHANGED <<input, read, subs, bus, turn, runs, audit, seen, executed, moved>>

RegisterSdk ==
  /\ boot = "files" /\ read = files
  /\ boot' = "up"
  /\ manifests' = [p \in Plugins |-> IF p \in DOMAIN Sdk THEN Sdk[p] ELSE Grants(p)]
  /\ UNCHANGED <<input, read, subs, bus, turn, runs, audit, seen, executed, moved>>

-----------------------------------------------------------------------------
(* subscribe and unsubscribe, called by any code while no run has the loop. *)

Subscribe(t, h) ==
  /\ turn = None /\ <<t, h>> \in Joins \ moved
  /\ subs' = [subs EXCEPT ![t] = Append(@, h)]
  /\ moved' = moved \cup {<<t, h>>}
  /\ UNCHANGED <<registry, bus, turn, runs, audit, seen, executed>>

Unsubscribe(t, h) ==
  /\ turn = None /\ <<t, h>> \in Leaves \ moved
  /\ subs' = [subs EXCEPT ![t] = RemoveFirst(@, h)]
  /\ moved' = moved \cup {<<t, h>>}
  /\ UNCHANGED <<registry, bus, turn, runs, audit, seen, executed>>

-----------------------------------------------------------------------------
(* Steps of a run.                                                          *)

Begin(r) ==
  /\ boot = "up" /\ turn = None
  /\ runs[r].at = "idle"
  /\ turn' = r
  /\ runs' = [runs EXCEPT ![r] = [at |-> "busy", error |-> "none", todo |-> Program(asked[r])]]
  /\ UNCHANGED <<registry, subs, bus, audit, seen, executed, moved>>

Item(r) == Head(runs[r].todo)

At(r, op) ==
  /\ turn \in {r, None}
  /\ runs[r].at = "busy" /\ runs[r].todo # <<>>
  /\ Item(r).op = op

(* The run has still `todo' to do, and keeps the loop or gives it up. *)
GoesOn(r, todo, next) ==
  /\ runs' = [runs EXCEPT ![r].todo = todo]
  /\ turn' = next
  /\ UNCHANGED audit

Rest(r) == Tail(runs[r].todo)

(* An exception leaves every frame of the run.  run_plugin's route writes   *)
(* plugin_execution_blocked for a PluginFrameworkError, and nothing for     *)
(* another exception.                                                       *)
Fails(r, error) ==
  /\ runs' = [runs EXCEPT ![r] = [at |-> "failed", error |-> error, todo |-> <<>>]]
  /\ turn' = None
  /\ audit' = [audit EXCEPT ![r] = IF asked[r].kind = "plugin" /\ error = "plugin"
                                   THEN "blocked" ELSE @]

(* Mutated form: a topic with handlers of its own skips the wildcard ones. *)
CalledFirstMatch(t) ==
  IF t \in DOMAIN subs /\ subs[t] # <<>> THEN subs[t] ELSE subs["*"]

(* The handlers of a topic, then those of every topic. *)
Called(t) == (IF t \in DOMAIN subs THEN subs[t] ELSE <<>>) \o subs["*"]

Calls(t, e) == [i \in 1..Len(Called(t)) |-> Call(Called(t)[i], e)]

(* Mutated form: the history is not bounded. *)
NewestUnbounded(s) == s

(* Mutated form: the history refuses new events when it is full. *)
NewestKept(s) == IF Len(s) > MaxEvents THEN Front(s) ELSE s

(* deque(maxlen): appending to a full history drops its oldest event. *)
Newest(s) == SubSeq(s, IF Len(s) > MaxEvents THEN 2 ELSE 1, Len(s))

(* AsyncEventBus.recent_events, behind GET /api/platform/events. *)
RecentEvents(limit) ==
  LET size == Max({1, Min({limit, Len(recent)})})
  IN SubSeq(recent, Max({1, Len(recent) - size + 1}), Len(recent))

(* Mutated form: handlers are called while the lock is held, so a publish   *)
(* waits for every handler of another one.                                  *)
PublishLocked(r) ==
  /\ At(r, "publish")
  /\ \A q \in Runs : \A i \in 1..Len(runs[q].todo) :
       runs[q].todo[i].op \notin {"call", "return"}
  /\ log' = Append(log, [run |-> r, topic |-> Item(r).topic, by |-> Item(r).by])
  /\ recent' = Newest(Append(recent, Len(log) + 1))
  /\ GoesOn(r, Calls(Item(r).topic, Len(log) + 1) \o Rest(r), r)
  /\ UNCHANGED <<registry, subs, seen, executed, moved>>

(* AsyncEventBus.publish: the event enters the history under the lock, then *)
(* the handlers it had at that moment are awaited one after the other.      *)
Publish(r) ==
  /\ At(r, "publish")
  /\ log' = Append(log, [run |-> r, topic |-> Item(r).topic, by |-> Item(r).by])
  /\ recent' = Newest(Append(recent, Len(log) + 1))
  /\ GoesOn(r, Calls(Item(r).topic, Len(log) + 1) \o Rest(r), r)
  /\ UNCHANGED <<registry, subs, seen, executed, moved>>

(* A handler of the bus gets the event; a hook gets a payload (event 0).    *)
CallHandler(r) ==
  /\ At(r, "call")
  /\ LET h == Item(r).who
     IN /\ seen' = IF Item(r).event = 0 THEN seen
                   ELSE [seen EXCEPT ![h] = Append(@, Item(r).event)]
        /\ GoesOn(r, <<Return(h)>> \o Rest(r), IF h \in Async THEN None ELSE r)
  /\ UNCHANGED <<registry, subs, bus, executed, moved>>

(* Mutated form: what a handler raises is swallowed with the calls after it. *)
HandlerEndsQuietly(r) ==
  /\ At(r, "return")
  /\ LET h == Item(r).who
     IN \/ h \in Echoing /\ GoesOn(r, <<Publishing(EchoTopic, h)>> \o Rest(r), r)
        \/ h \notin Echoing /\ GoesOn(r, Rest(r), r)
        \/ h \in Raising /\ GoesOn(r, SelectSeq(Rest(r), LAMBDA s : s.op # "call"), r)
  /\ UNCHANGED <<registry, subs, bus, seen, executed, moved>>

HandlerEnds(r) ==
  /\ At(r, "return")
  /\ LET h == Item(r).who
     IN \/ h \in Echoing /\ GoesOn(r, <<Publishing(EchoTopic, h)>> \o Rest(r), r)
        \/ h \notin Echoing /\ GoesOn(r, Rest(r), r)
        \/ h \in Raising /\ Fails(r, "other")
  /\ UNCHANGED <<registry, subs, bus, seen, executed, moved>>

(* emit_extension_point: the callbacks one after the other. *)
EmitPoint(r) ==
  /\ At(r, "emit")
  /\ LET s == Item(r)
         hooks == IF s.point \in DOMAIN Hooked THEN Hooked[s.point] ELSE <<>>
     IN GoesOn(r, [i \in 1..Len(hooks) |-> Call(hooks[i], 0)] \o Rest(r), r)
  /\ UNCHANGED <<registry, subs, bus, seen, executed, moved>>

(* run_workflow's loop over the steps: the next one between its two points. *)
NextStep(r) ==
  /\ At(r, "steps")
  /\ LET left == Item(r).left
     IN GoesOn(r, IF left = <<>> THEN Rest(r)
                  ELSE <<Emit("workflow.before_step")>> \o StepProgram(Head(left))
                       \o <<Emit("workflow.after_step"), Steps(Tail(left))>> \o Rest(r), r)
  /\ UNCHANGED <<registry, subs, bus, seen, executed, moved>>

(* _resolve_manifest and _ensure_permission: an allowlisted plugin without  *)
(* a manifest gets the legacy one, which grants Execute.                    *)
Resolve(r) ==
  /\ At(r, "resolve")
  /\ LET s == Item(r)
         found == IF Grants(s.plugin) # NoManifest THEN Grants(s.plugin)
                  ELSE IF s.plugin \in Allowlist THEN {Execute} ELSE NoManifest
     IN /\ manifests' = [manifests EXCEPT ![s.plugin] = found]
        /\ IF s.grant \in found THEN GoesOn(r, Rest(r), r) ELSE Fails(r, "plugin")
  /\ UNCHANGED <<input, boot, read, subs, bus, seen, executed, moved>>

(* Mutated form: the allowlist is left to the framework. *)
SandboxAdmitsListed(s) == Enabled /\ s.plugin \in Runnable /\ s.args = "plain"

(* PluginSandbox.execute: the tests before the process is started. *)
SandboxAdmits(s) ==
  /\ Enabled
  /\ s.plugin \in Allowlist
  /\ s.plugin \in Runnable
  /\ s.args = "plain"

(* The code of the plugin runs: an SDK plugin in the process, where it may  *)
(* wait, another one as a subprocess for which the loop stands still.       *)
(* What it raises, its time-out included, becomes a PluginFrameworkError.   *)
ExecutePlugin(r) ==
  /\ At(r, "execute")
  /\ LET s == Item(r)
         runsCode == s.plugin \in DOMAIN Sdk \/ SandboxAdmits(s)
     IN /\ executed' = IF runsCode THEN executed \cup {<<s.plugin, s.grant, r>>}
                       ELSE executed
        /\ \/ /\ runsCode
              /\ \/ GoesOn(r, Rest(r), r)
                 \/ s.plugin \in DOMAIN Sdk /\ GoesOn(r, Rest(r), None)
           \/ Fails(r, "plugin")
  /\ UNCHANGED <<registry, subs, bus, seen, moved>>

(* Mutated form: a workflow goes on with its next step. *)
HandleAgentForgiving(r) ==
  /\ At(r, "handle")
  /\ \/ GoesOn(r, Rest(r), None)
     \/ GoesOn(r, Tail(Rest(r)), None)
  /\ UNCHANGED <<registry, subs, bus, seen, executed, moved>>

(* The handler of an agent waits for the model, and may raise. *)
HandleAgent(r) ==
  /\ At(r, "handle")
  /\ \/ GoesOn(r, Rest(r), None)
     \/ Fails(r, "other")
  /\ UNCHANGED <<registry, subs, bus, seen, executed, moved>>

RaiseError(r) ==
  /\ At(r, "raise")
  /\ Fails(r, Item(r).error)
  /\ UNCHANGED <<registry, subs, bus, seen, executed, moved>>

(* Everything is done: the route answers, and run_plugin's writes           *)
(* plugin_executed.                                                         *)
Finish(r) ==
  /\ turn \in {r, None}
  /\ runs[r].at = "busy" /\ runs[r].todo = <<>>
  /\ runs' = [runs EXCEPT ![r].at = "ok"]
  /\ turn' = None
  /\ audit' = [audit EXCEPT ![r] = IF asked[r].kind = "plugin" THEN "executed" ELSE @]
  /\ UNCHANGED <<registry, subs, bus, seen, executed, moved>>

-----------------------------------------------------------------------------
Step(r) ==
  \/ Publish(r) \/ CallHandler(r) \/ HandlerEnds(r) \/ EmitPoint(r) \/ NextStep(r)
  \/ Resolve(r) \/ ExecutePlugin(r) \/ HandleAgent(r) \/ RaiseError(r)
  \/ Finish(r)

Boot == RegisterSdk \/ \E f \in Files : Discover(f)

Next ==
  \/ Boot
  \/ \E t \in DOMAIN Subscribed, h \in Handlers : Subscribe(t, h) \/ Unsubscribe(t, h)
  \/ \E r \in Runs : Begin(r) \/ Step(r)

Spec == Init /\ [][Next]_vars

(* The event loop runs every ready coroutine, and handlers, hooks, plugins  *)
(* and agents end: each of the requests they make has a timeout.            *)
FairSpec == Spec /\ WF_vars(Boot) /\ \A r \in Runs : SF_vars(Step(r))

-----------------------------------------------------------------------------
(* Properties.                                                              *)

(* Events of run r that r published itself. *)
EventsOf(r) == {e \in DOMAIN log : log[e].run = r /\ log[e].by = "run"}

(* Subscriptions that have stood since the start. *)
Standing == {s \in (DOMAIN Subscribed) \X Handlers :
               Contains(Subscribed[s[1]], s[2]) /\ s \notin moved}

Due(h) == {e \in DOMAIN log : <<log[e].topic, h>> \in Standing \/ <<"*", h>> \in Standing}

(* A subscriber gets the events of a run in the order they were published,  *)
(* and misses at most the last one, when a handler before it raised and so  *)
(* ended the run; of a run that succeeded it has got all (event_bus.py,     *)
(* handlers are awaited inside publish).                                    *)
SubscribersMissOnlyTheLast ==
  \A h \in Handlers, r \in Runs :
    LET own == {i \in DOMAIN seen[h] : seen[h][i] \in EventsOf(r)}
        due == Due(h) \cap EventsOf(r)
    IN /\ \A i, k \in own : i < k => seen[h][i] <= seen[h][k]
       /\ \A e \in due \ ToSet(seen[h]) :
            /\ \A d \in EventsOf(r) : d <= e
            /\ runs[r].at # "ok"

(* GET /api/platform/events shows the completion of a run, with every limit *)
(* that it takes (main.py:1082), until as many newer events as the limit    *)
(* asks for, or as the history holds (the bounded deque), were published.   *)
AnsweredRunsAreShown ==
  \A r \in Runs : runs[r].at = "ok" =>
    \E e \in EventsOf(r) :
      /\ \A d \in EventsOf(r) : d <= e
      /\ \A limit \in 1..MaxListed :
           \/ Contains(RecentEvents(limit), e)
           \/ Len(log) >= e + limit \/ Len(log) >= e + MaxEvents

(* The code of a plugin is only started with a permission that was granted: *)
(* by the descriptor of an SDK plugin, whatever manifest lies in the plugin *)
(* directory; for an allowlisted executable by a manifest of the pattern    *)
(* read last, or, when no manifest counts, only Execute by the legacy one.  *)
Granted(p, grant) ==
  LET filed == {f \in files : f.plugin = p /\ f.named /\ f.semver}
      last == IF \A f \in filed : f.flat THEN filed ELSE {f \in filed : ~f.flat}
  IN IF p \in DOMAIN Sdk THEN grant \in Sdk[p]
     ELSE /\ Enabled /\ p \in Allowlist \cap Runnable
          /\ IF filed = {} THEN grant = Execute ELSE \E f \in last : grant \in f.grants

ExecutionsAreGranted == \A x \in executed : Granted(x[1], x[2])

(* Violated: a run that has ended and started the code of a plugin left an  *)
(* audit record ("Use audit logs to track plugin actions",                  *)
(* docs/plugin-development.md:86).  Only the route of plugins writes one.   *)
ExecutionsAreAudited ==
  \A x \in executed : runs[x[3]].at \in {"ok", "failed"} => audit[x[3]] # "none"

-----------------------------------------------------------------------------
(* What the kinds of run announce when nothing fails.                       *)

AgentTopics == <<"agent.started", "agent.completed">>
PluginTopics == <<"plugin.pre_execute", "plugin.post_execute">>
StepTopics(s) ==
  CASE s.kind = "event" -> <<s.target>>
    [] s.kind = "agent" -> AgentTopics
    [] s.kind = "plugin" -> PluginTopics
    [] OTHER -> <<>>

StepsTopics(left) == FlattenSeq([i \in 1..Len(left) |-> StepTopics(left[i])])

Topics(ask) ==
  CASE ask.kind = "agent" -> AgentTopics
    [] ask.kind = "plugin" -> PluginTopics
    [] OTHER ->
         <<"workflow.started">>
         \o (IF ask.target \notin DOMAIN Workflows THEN <<>>
             ELSE StepsTopics(Workflows[ask.target]))
         \o <<"workflow.completed">>

(* The topics of the events that r published itself.                        *)
TraceOf(r) ==
  FlattenSeq([i \in 1..Len(log) |->
    IF log[i].run = r /\ log[i].by = "run" THEN <<log[i].topic>> ELSE <<>>])

Announced ==
  ToSet(AgentTopics) \cup ToSet(PluginTopics) \cup {"workflow.started", "workflow.completed"}
  \cup {s.target : s \in UNION {ToSet(Workflows[w]) : w \in DOMAIN Workflows}}

Protocol == INSTANCE RunProtocol WITH
  Events <- Announced,
  expected <- [r \in Runs |-> Topics(asked[r])],
  trace <- [r \in Runs |-> TraceOf(r)],
  outcome <- [r \in Runs |-> IF runs[r].at \in {"ok", "failed"} THEN runs[r].at ELSE "open"]

(* Each run announces what its kind and its steps prescribe, in order, and  *)
(* is answered as successful only after all of it ("Event bus emits         *)
(* lifecycle events", docs/architecture.md).                                *)
KeepsProtocol == Protocol!Spec

(* A run that was begun is answered, also when handlers publish and wait    *)
(* (the lock of the bus is free while handlers run).                        *)
RunsEnd == \A r \in Runs : (runs[r].at = "busy") ~> (runs[r].at \in {"ok", "failed"})

=============================================================================
