---------------------------- MODULE Platform_proofs ----------------------------
(***************************************************************************)
(* Theorems about Platform, for any number of runs that share the event    *)
(* loop, all workflows, agents, plugins and manifests, and all subscribers *)
(* of the bus: waiting, raising and publishing ones.                       *)
(***************************************************************************)
EXTENDS Platform, SequenceTheorems, NaturalsInduction, WellFoundedInduction, TLAPS

-----------------------------------------------------------------------------
(* Types.                                                                   *)

(* All strings; the provers do not see that these are some of them.         *)
Names == STRING \cup
  {EchoTopic, "agent", "plugin", "workflow", "other", "none",
   "agent.started", "agent.completed", "plugin.pre_execute", "plugin.post_execute",
   "workflow.started", "workflow.completed", "workflow.before_step", "workflow.after_step"}

Items ==
  [op : {"publish"}, topic : Names, by : Handlers \cup {"run"}]
  \cup [op : {"emit"}, point : Names]
  \cup [op : {"call"}, who : Handlers, event : Nat]
  \cup [op : {"return"}, who : Handlers]
  \cup [op : {"raise"}, error : Names]
  \cup [op : {"handle"}]
  \cup [op : {"steps"}, left : Seq(Ask)]
  \cup [op : {"resolve"}, plugin : Plugins, grant : STRING]
  \cup [op : {"execute"}, plugin : Plugins, grant : STRING, args : STRING]

Published == [run : Runs, topic : Names, by : Handlers \cup {"run"}]
Run == [at : {"idle", "busy", "ok", "failed"}, error : Names, todo : Seq(Items)]

Typed ==
  /\ asked \in [Runs -> Ask]
  /\ \A r \in Runs : asked[r].kind \in {"agent", "workflow", "plugin"}
  /\ files \subseteq Files /\ read \subseteq files
  /\ boot \in {"files", "up", "dead"}
  /\ DOMAIN manifests = Plugins
  /\ subs \in [DOMAIN Subscribed -> Seq(Handlers)]
  /\ log \in Seq(Published)
  /\ runs \in [Runs -> Run]
  /\ seen \in [Handlers -> Seq(Nat)]
  /\ \A r \in Runs : runs[r].at # "idle" => boot = "up"

-----------------------------------------------------------------------------
(* Permissions: what a manifest grants has a source, and the code of a      *)
(* plugin is started three places after the test of its permission.         *)

Filed(p, from) == {f \in from : f.plugin = p /\ f.named /\ f.semver}

Newer(f, from) == f.flat => \A g \in from : g.flat

ManifestsSound ==
  /\ boot = "up" => read = files
  /\ (\E g \in read : ~g.flat) => \A f \in files : f.flat => f \in read
  /\ boot = "files" => \A p \in Plugins :
       \/ Filed(p, read) = {} /\ manifests[p] = NoManifest
       \/ \E f \in Filed(p, read) : manifests[p] = f.grants /\ Newer(f, Filed(p, read))
  /\ boot = "up" => \A p \in Plugins :
       \/ p \in DOMAIN Sdk /\ manifests[p] = Sdk[p]
       \/ p \notin DOMAIN Sdk /\ Filed(p, files) = {} /\ manifests[p] \in {NoManifest, {Execute}}
       \/ /\ p \notin DOMAIN Sdk
          /\ \E f \in Filed(p, files) : manifests[p] = f.grants /\ Newer(f, Filed(p, files))

Permits(m, x) == x.grant \in m[x.plugin]

Guarded(todo, m) ==
  \A i \in 1..Len(todo) : todo[i].op = "execute" =>
    \/ Permits(m, todo[i])
    \/ /\ i > 3 /\ todo[i - 3].op = "resolve"
       /\ todo[i - 3].plugin = todo[i].plugin /\ todo[i - 3].grant = todo[i].grant

RunsGuarded ==
  \A r \in Runs : runs[r].at = "busy" => Guarded(runs[r].todo, manifests)

GrantInv == Typed /\ ManifestsSound /\ RunsGuarded /\ ExecutionsAreGranted

-----------------------------------------------------------------------------
(* The history holds the newest events, and a run ends well only after it   *)
(* has published.                                                           *)

Own(x) == x.op = "publish" /\ x.by = "run"

Announces(todo) == \E i \in 1..Len(todo) : Own(todo[i]) \/ todo[i].op = "raise"

HistoryIsNewest ==
  /\ recent \in Seq(Nat)
  /\ Len(recent) = IF Len(log) <= MaxEvents THEN Len(log) ELSE MaxEvents
  /\ \A i \in 1..Len(recent) : recent[i] = Len(log) - Len(recent) + i

RunsAnnounce ==
  \A r \in Runs :
    /\ runs[r].at = "busy" => Announces(runs[r].todo) \/ EventsOf(r) # {}
    /\ runs[r].at = "ok" => EventsOf(r) # {}

ShownInv == Typed /\ HistoryIsNewest /\ RunsAnnounce

-----------------------------------------------------------------------------
(* Deliveries: the calls for an event of a run are made before the run      *)
(* publishes the next one.                                                  *)

Inner(x) == x.op \in {"call", "return"} \/ (x.op = "publish" /\ x.by # "run")

Latest(r, e) == \A d \in EventsOf(r) : d <= e

CallsFirst ==
  \A r \in Runs : \A i \in 1..Len(runs[r].todo) :
    LET x == runs[r].todo[i]
    IN x.op = "call" /\ x.event # 0 =>
         /\ x.event \in 1..Len(log) /\ log[x.event].run = r
         /\ log[x.event].by = "run" =>
              Latest(r, x.event) /\ \A k \in 1..(i - 1) : Inner(runs[r].todo[k])

SeenInOrder ==
  \A h \in Handlers :
    /\ \A i \in 1..Len(seen[h]) : seen[h][i] \in 1..Len(log)
    /\ \A r \in Runs : \A i, k \in 1..Len(seen[h]) :
         seen[h][i] \in EventsOf(r) /\ seen[h][k] \in EventsOf(r) /\ i < k =>
           seen[h][i] <= seen[h][k]

StandingAreSubscribed == \A s \in Standing : Contains(subs[s[1]], s[2])

Pending(r, h, e) ==
  runs[r].at = "busy" /\ \E i \in 1..Len(runs[r].todo) : runs[r].todo[i] = Call(h, e)

Delivered ==
  \A h \in Handlers, r \in Runs : \A e \in Due(h) \cap EventsOf(r) :
    \/ e \in ToSet(seen[h])
    \/ Pending(r, h, e)
    \/ runs[r].at = "failed" /\ Latest(r, e)

DueInv ==
  /\ Typed /\ CallsFirst /\ SeenInOrder /\ StandingAreSubscribed /\ Delivered
  /\ \A r \in Runs : runs[r].at = "idle" => EventsOf(r) = {}

-----------------------------------------------------------------------------
(* Numbers, and what is on the list of a run.                               *)

LEMMA LeastNat ==
  ASSUME NEW S, S \subseteq Nat, S # {}
  PROVE  \E n \in S : \A m \in S : n <= m
<1>1. IsWellFoundedOn(OpToRel(<, Nat), Nat)
  BY NatLessThanWellFounded
<1>2. PICK n \in S : ~ \E y \in S : <<y, n>> \in OpToRel(<, Nat)
  BY <1>1, WFMin
<1>3. \A y \in S : ~ (y < n)
  BY <1>2 DEF OpToRel
<1> QED BY <1>3

LEMMA PublishingIs ==
  ASSUME NEW t \in Names, NEW h \in Handlers \cup {"run"}
  PROVE  /\ Publishing(t, h) \in Items /\ Publishing(t, h).op = "publish"
         /\ Publishing(t, h).topic = t /\ Publishing(t, h).by = h
BY DEF Items, Publishing

LEMMA PubIs ==
  ASSUME NEW t \in Names
  PROVE  Pub(t) \in Items /\ Own(Pub(t)) /\ Pub(t).op = "publish"
BY PublishingIs DEF Pub, Own

LEMMA EmitIs ==
  ASSUME NEW x \in Names
  PROVE  Emit(x) \in Items /\ Emit(x).op = "emit"
BY DEF Items, Emit

LEMMA CallIs ==
  ASSUME NEW h \in Handlers, NEW e \in Nat
  PROVE  /\ Call(h, e) \in Items /\ Call(h, e).op = "call"
         /\ Call(h, e).who = h /\ Call(h, e).event = e
BY DEF Items, Call

LEMMA ReturnIs ==
  ASSUME NEW h \in Handlers
  PROVE  Return(h) \in Items /\ Return(h).op = "return"
BY DEF Items, Return

LEMMA RaiseIs ==
  ASSUME NEW x \in Names
  PROVE  Raise(x) \in Items /\ Raise(x).op = "raise"
BY DEF Items, Raise

LEMMA StepsIs ==
  ASSUME NEW s \in Seq(Ask)
  PROVE  Steps(s) \in Items /\ Steps(s).op = "steps"
BY DEF Items, Steps

LEMMA HandleIs == [op |-> "handle"] \in Items
BY DEF Items

LEMMA PluginItems ==
  ASSUME NEW p \in Plugins, NEW g \in STRING, NEW a \in STRING
  PROVE  /\ [op |-> "resolve", plugin |-> p, grant |-> g] \in Items
         /\ [op |-> "execute", plugin |-> p, grant |-> g, args |-> a] \in Items
BY DEF Items

LEMMA Kinds ==
  ASSUME NEW x \in Items
  PROVE  /\ x.op \in {"publish", "emit", "call", "return", "raise", "handle", "steps",
                      "resolve", "execute"}
         /\ x.op = "publish" => x.topic \in Names /\ x.by \in Handlers \cup {"run"}
         /\ x.op = "call" => x.who \in Handlers /\ x.event \in Nat
         /\ x.op = "return" => x.who \in Handlers
         /\ x.op = "raise" => x.error \in Names
         /\ x.op = "steps" => x.left \in Seq(Ask)
         /\ x.op \in {"resolve", "execute"} => x.plugin \in Plugins /\ x.grant \in STRING
BY DEF Items

LEMMA AskIs ==
  ASSUME NEW a \in Ask
  PROVE  /\ a.kind \in STRING /\ a.target \in STRING \cap Names /\ a.grant \in STRING
         /\ a.args \in STRING /\ (a.kind = "plugin" => a.target \in Plugins)
BY DEF Ask, Names

LEMMA ConcatIs ==
  ASSUME NEW S, NEW a \in Seq(S), NEW b \in Seq(S)
  PROVE  /\ a \o b \in Seq(S) /\ Len(a \o b) = Len(a) + Len(b)
         /\ Len(a) \in Nat /\ Len(b) \in Nat
         /\ \A i \in 1..Len(a) : (a \o b)[i] = a[i]
         /\ \A i \in 1..Len(b) : (a \o b)[Len(a) + i] = b[i]
OBVIOUS

(* The list after its first entry was replaced by f.                        *)
LEMMA Spliced ==
  ASSUME NEW s \in Seq(Items), s # <<>>, NEW f \in Seq(Items)
  PROVE  /\ f \o Tail(s) \in Seq(Items)
         /\ Len(s) \in Nat \ {0} /\ Len(f) \in Nat /\ Head(s) = s[1] /\ Head(s) \in Items
         /\ Len(f \o Tail(s)) = Len(f) + Len(s) - 1
         /\ \A i \in 1..Len(f) : (f \o Tail(s))[i] = f[i]
         /\ \A i \in 2..Len(s) : (f \o Tail(s))[Len(f) + i - 1] = s[i]
<1>1. /\ Tail(s) \in Seq(Items) /\ Len(Tail(s)) = Len(s) - 1 /\ Len(s) \in Nat \ {0}
      /\ Head(s) = s[1] /\ s[1] \in Items
      /\ \A i \in 1..(Len(s) - 1) : Tail(s)[i] = s[i + 1]
  OBVIOUS
<1> DEFINE t == Tail(s)
<1> HIDE DEF t
<1>2. /\ f \o t \in Seq(Items) /\ Len(f \o t) = Len(f) + Len(t)
      /\ \A i \in 1..Len(f) : (f \o t)[i] = f[i]
      /\ \A i \in 1..Len(t) : (f \o t)[Len(f) + i] = t[i]
  <2>1. t \in Seq(Items)
    BY <1>1 DEF t
  <2> QED BY <2>1
<1>3. ASSUME NEW i \in 2..Len(s) PROVE (f \o t)[Len(f) + i - 1] = s[i]
  <2>1. /\ i - 1 \in 1..Len(t) /\ Len(f) \in Nat /\ i \in Nat
        /\ Len(f) + (i - 1) = Len(f) + i - 1 /\ (i - 1) + 1 = i
    BY <1>1 DEF t
  <2>2. (f \o t)[Len(f) + (i - 1)] = t[i - 1]
    BY <1>2, <2>1
  <2>3. t[i - 1] = s[i]
    BY <1>1, <2>1 DEF t
  <2> QED BY <2>1, <2>2, <2>3
<1> QED BY <1>1, <1>2, <1>3 DEF t

-----------------------------------------------------------------------------
(* The programs.  A list may be put in front of another one if it calls no  *)
(* subscriber and runs a plugin only after its own test.                    *)

Tested(f) ==
  \A i \in 1..Len(f) : f[i].op = "execute" =>
    /\ i > 3 /\ f[i - 3].op = "resolve"
    /\ f[i - 3].plugin = f[i].plugin /\ f[i - 3].grant = f[i].grant

Silent(f) == \A i \in 1..Len(f) : f[i].op = "call" => f[i].event = 0

Blocks == {f \in Seq(Items) : Tested(f) /\ Silent(f)}

LEMMA OneItem ==
  ASSUME NEW x \in Items, x.op # "execute", x.op # "call"
  PROVE  <<x>> \in Blocks
<1>1. <<x>> \in Seq(Items) /\ Len(<<x>>) = 1 /\ <<x>>[1] = x
  OBVIOUS
<1> QED BY <1>1 DEF Blocks, Tested, Silent

LEMMA NoItem == <<>> \in Blocks
<1>1. <<>> \in Seq(Items) /\ Len(<<>>) = 0
  OBVIOUS
<1> QED BY <1>1 DEF Blocks, Tested, Silent

(* Programs are put together.                                               *)
LEMMA Joined ==
  ASSUME NEW f \in Blocks, NEW g \in Blocks
  PROVE  f \o g \in Blocks /\ Len(f \o g) = Len(f) + Len(g)
<1>1. /\ f \in Seq(Items) /\ g \in Seq(Items) /\ Len(f) \in Nat /\ Len(g) \in Nat
      /\ Tested(f) /\ Tested(g) /\ Silent(f) /\ Silent(g)
  BY DEF Blocks
<1> DEFINE t == f \o g
<1>2. /\ t \in Seq(Items) /\ Len(t) = Len(f) + Len(g)
      /\ \A i \in 1..Len(f) : t[i] = f[i]
      /\ \A i \in 1..Len(g) : t[Len(f) + i] = g[i]
  BY <1>1
<1> HIDE DEF t
<1>3. ASSUME NEW i \in 1..Len(t), i > Len(f)
      PROVE  /\ i - Len(f) \in 1..Len(g) /\ t[i] = g[i - Len(f)]
             /\ i - Len(f) > 3 => t[i - 3] = g[i - Len(f) - 3]
  <2>1. i - Len(f) \in 1..Len(g) /\ Len(f) + (i - Len(f)) = i
    BY <1>1, <1>2, <1>3
  <2>2. ASSUME i - Len(f) > 3
        PROVE  /\ i - Len(f) - 3 \in 1..Len(g)
               /\ Len(f) + (i - Len(f) - 3) = i - 3
    BY <1>1, <1>2, <1>3, <2>2
  <2> QED BY <1>2, <2>1, <2>2
<1>4. ASSUME NEW i \in 1..Len(t), i <= Len(f)
      PROVE  i \in 1..Len(f) /\ t[i] = f[i] /\ (i > 3 => t[i - 3] = f[i - 3])
  BY <1>1, <1>2, <1>4
<1>5. Tested(t)
  <2> SUFFICES ASSUME NEW i \in 1..Len(t), t[i].op = "execute"
               PROVE  /\ i > 3 /\ t[i - 3].op = "resolve"
                      /\ t[i - 3].plugin = t[i].plugin /\ t[i - 3].grant = t[i].grant
    BY DEF Tested
  <2>1. CASE i <= Len(f)
    BY <2>1, <1>1, <1>4 DEF Tested
  <2>2. CASE i > Len(f)
    <3> DEFINE k == i - Len(f)
    <3>1. k \in 1..Len(g) /\ t[i] = g[k] /\ (k > 3 => t[i - 3] = g[k - 3] /\ i > 3)
      BY <2>2, <1>1, <1>3
    <3> HIDE DEF k
    <3> QED BY <3>1, <1>1 DEF Tested
  <2> QED BY <2>1, <2>2, <1>1, <1>2
<1>6. Silent(t)
  <2> SUFFICES ASSUME NEW i \in 1..Len(t), t[i].op = "call" PROVE t[i].event = 0
    BY DEF Silent
  <2>1. CASE i <= Len(f)
    BY <2>1, <1>1, <1>4 DEF Silent
  <2>2. CASE i > Len(f)
    BY <2>2, <1>1, <1>3 DEF Silent
  <2> QED BY <2>1, <2>2, <1>1, <1>2
<1> QED BY <1>2, <1>5, <1>6 DEF Blocks, t

LEMMA AgentProgramIs ==
  ASSUME NEW a
  PROVE  AgentProgram(a) \in Blocks /\ Announces(AgentProgram(a))
<1>1. CASE a \notin Agents
  <2>1. Raise("agent") \in Items /\ Raise("agent").op = "raise"
    BY RaiseIs DEF Names
  <2>2. <<Raise("agent")>> \in Blocks
    BY <2>1, OneItem
  <2>3. Announces(<<Raise("agent")>>)
    BY <2>1 DEF Announces
  <2> QED BY <1>1, <2>2, <2>3 DEF AgentProgram
<1>2. CASE a \in Agents
  <2> DEFINE x == Pub("agent.started")
             y == [op |-> "handle"]
             z == Pub("agent.completed")
  <2>1. /\ x \in Items /\ y \in Items /\ z \in Items /\ Own(x)
        /\ x.op = "publish" /\ y.op = "handle" /\ z.op = "publish"
    BY PubIs, HandleIs DEF Names
  <2>2. AgentProgram(a) = <<x, y, z>>
    BY <1>2 DEF AgentProgram
  <2> HIDE DEF x, y, z
  <2>3. <<x, y, z>> \in Seq(Items) /\ Len(<<x, y, z>>) = 3
    BY <2>1
  <2>4. \A i \in 1..3 : <<x, y, z>>[i].op \in {"publish", "handle"}
    BY <2>1
  <2>5. Tested(<<x, y, z>>) /\ Silent(<<x, y, z>>)
    BY <2>3, <2>4 DEF Tested, Silent
  <2>6. Announces(<<x, y, z>>)
    BY <2>1, <2>3 DEF Announces
  <2> QED BY <2>2, <2>3, <2>5, <2>6 DEF Blocks
<1> QED BY <1>1, <1>2

LEMMA PluginProgramIs ==
  ASSUME NEW p \in Plugins, NEW grant \in STRING, NEW args \in STRING
  PROVE  PluginProgram(p, grant, args) \in Blocks /\ Announces(PluginProgram(p, grant, args))
<1> DEFINE u == [op |-> "resolve", plugin |-> p, grant |-> grant]
           v == Pub("plugin.pre_execute")
           w == Emit("plugin.pre_execute")
           x == [op |-> "execute", plugin |-> p, grant |-> grant, args |-> args]
           y == Pub("plugin.post_execute")
           z == Emit("plugin.post_execute")
           s == <<u, v, w, x, y, z>>
<1>1. /\ u \in Items /\ v \in Items /\ w \in Items /\ x \in Items /\ y \in Items /\ z \in Items
      /\ Own(v) /\ u.op = "resolve" /\ v.op = "publish" /\ w.op = "emit" /\ y.op = "publish"
      /\ z.op = "emit" /\ x.op = "execute" /\ x.plugin = u.plugin /\ x.grant = u.grant
  BY PubIs, EmitIs, PluginItems DEF Names
<1>2. PluginProgram(p, grant, args) = s
  BY DEF PluginProgram
<1> HIDE DEF u, v, w, x, y, z
<1>3. /\ s \in Seq(Items) /\ Len(s) = 6 /\ s[1] = u /\ s[2] = v /\ s[3] = w /\ s[4] = x
      /\ s[5] = y /\ s[6] = z
  BY <1>1
<1> HIDE DEF s
<1>4. \A i \in 1..6 : s[i].op # "call" /\ (s[i].op = "execute" => i = 4)
  BY <1>1, <1>3
<1>5. Tested(s)
  <2> SUFFICES ASSUME NEW i \in 1..6, s[i].op = "execute"
               PROVE  /\ i > 3 /\ s[i - 3].op = "resolve"
                      /\ s[i - 3].plugin = s[i].plugin /\ s[i - 3].grant = s[i].grant
    BY <1>3 DEF Tested
  <2>1. i = 4 /\ 4 - 3 = 1
    BY <1>4
  <2> QED BY <2>1, <1>1, <1>3
<1>6. Silent(s)
  BY <1>3, <1>4 DEF Silent
<1>7. Announces(s)
  BY <1>1, <1>3 DEF Announces
<1> QED BY <1>2, <1>3, <1>5, <1>6, <1>7 DEF Blocks

LEMMA StepProgramIs ==
  ASSUME NEW s \in Ask
  PROVE  StepProgram(s) \in Blocks
<1>1. Pub(s.target) \in Items /\ Raise("workflow") \in Items
      /\ Pub(s.target).op = "publish" /\ Raise("workflow").op = "raise"
  BY AskIs, PubIs, RaiseIs DEF Names
<1>2. CASE s.kind = "event"
  BY <1>1, <1>2, OneItem DEF StepProgram
<1>3. CASE s.kind = "agent"
  BY <1>3, AgentProgramIs DEF StepProgram
<1>4. CASE s.kind = "plugin"
  <2>1. s.target \in Plugins /\ s.grant \in STRING /\ s.args \in STRING
    BY <1>4, AskIs
  <2>2. StepProgram(s) = IF s.args = "notalist" THEN <<Raise("workflow")>>
                         ELSE PluginProgram(s.target, s.grant, s.args)
    BY <1>4 DEF StepProgram
  <2> QED BY <1>1, <2>1, <2>2, OneItem, PluginProgramIs
<1>5. CASE s.kind = "noop"
  BY <1>5, NoItem DEF StepProgram
<1>6. CASE s.kind \notin {"event", "agent", "plugin", "noop"}
  BY <1>1, <1>6, OneItem DEF StepProgram
<1> QED BY <1>2, <1>3, <1>4, <1>5, <1>6

LEMMA WorkflowProgramIs ==
  ASSUME NEW w
  PROVE  WorkflowProgram(w) \in Blocks /\ Announces(WorkflowProgram(w))
<1>1. CASE w \notin DOMAIN Workflows
  <2>1. Raise("workflow") \in Items /\ Raise("workflow").op = "raise"
    BY RaiseIs DEF Names
  <2>2. <<Raise("workflow")>> \in Blocks
    BY <2>1, OneItem
  <2>3. Announces(<<Raise("workflow")>>)
    BY <2>1 DEF Announces
  <2> QED BY <1>1, <2>2, <2>3 DEF WorkflowProgram
<1>2. CASE w \in DOMAIN Workflows
  <2> DEFINE x == Pub("workflow.started")
             y == Steps(Workflows[w])
             z == Pub("workflow.completed")
  <2>1. /\ x \in Items /\ y \in Items /\ z \in Items /\ Own(x)
        /\ x.op = "publish" /\ y.op = "steps" /\ z.op = "publish"
    BY <1>2, StepsIs, PubIs, PlatformAssumption DEF Names
  <2>2. WorkflowProgram(w) = <<x, y, z>>
    BY <1>2 DEF WorkflowProgram
  <2> HIDE DEF x, y, z
  <2>3. <<x, y, z>> \in Seq(Items) /\ Len(<<x, y, z>>) = 3
    BY <2>1
  <2>4. \A i \in 1..3 : <<x, y, z>>[i].op \in {"publish", "steps"}
    BY <2>1
  <2>5. Tested(<<x, y, z>>) /\ Silent(<<x, y, z>>)
    BY <2>3, <2>4 DEF Tested, Silent
  <2>6. Announces(<<x, y, z>>)
    BY <2>1, <2>3 DEF Announces
  <2> QED BY <2>2, <2>3, <2>5, <2>6 DEF Blocks
<1> QED BY <1>1, <1>2

LEMMA ProgramIs ==
  ASSUME NEW a \in Ask, a.kind \in {"agent", "workflow", "plugin"}
  PROVE  Program(a) \in Blocks /\ Announces(Program(a))
<1>1. CASE a.kind = "agent"
  BY <1>1, AgentProgramIs DEF Program
<1>2. CASE a.kind = "workflow"
  BY <1>2, WorkflowProgramIs DEF Program
<1>3. CASE a.kind = "plugin"
  <2>1. a.target \in Plugins /\ a.grant \in STRING /\ a.args \in STRING
    BY <1>3, AskIs
  <2> QED BY <1>3, <2>1, PluginProgramIs DEF Program
<1> QED BY <1>1, <1>2, <1>3

(* The calls of the handlers hs: a list as long as theirs.                  *)
LEMMA CallList ==
  ASSUME NEW hs \in Seq(Handlers), NEW e \in Nat
  PROVE  LET f == [i \in 1..Len(hs) |-> Call(hs[i], e)]
         IN /\ f \in Seq(Items) /\ Len(f) = Len(hs) /\ Len(f) \in Nat
            /\ \A i \in 1..Len(f) :
                 /\ f[i] = Call(hs[i], e) /\ f[i].op = "call" /\ f[i].event = e
                 /\ hs[i] \in Handlers
<1> DEFINE n == Len(hs)
           f == [i \in 1..n |-> Call(hs[i], e)]
<1>1. n \in Nat /\ n = Len(hs) /\ \A i \in 1..n : hs[i] \in Handlers
  OBVIOUS
<1>2. \A i \in 1..n : /\ Call(hs[i], e) \in Items /\ Call(hs[i], e).op = "call"
                      /\ Call(hs[i], e).event = e
  BY <1>1, CallIs
<1> HIDE DEF n
<1>3. f \in Seq(Items) /\ Len(f) = n
  BY <1>1, <1>2
<1>4. \A i \in 1..n : f[i] = Call(hs[i], e)
  OBVIOUS
<1> QED BY <1>1, <1>2, <1>3, <1>4 DEF n

LEMMA CalledIs ==
  ASSUME Typed, NEW t
  PROVE  /\ Called(t) \in Seq(Handlers)
         /\ \A h \in Handlers :
              (t \in DOMAIN Subscribed /\ Contains(subs[t], h)) \/ Contains(subs["*"], h) =>
                Contains(Called(t), h)
<1> DEFINE own == IF t \in DOMAIN subs THEN subs[t] ELSE <<>>
           all == subs["*"]
<1>1. own \in Seq(Handlers) /\ all \in Seq(Handlers) /\ DOMAIN subs = DOMAIN Subscribed
  BY PlatformAssumption DEF Typed
<1>2. Called(t) = own \o all
  BY DEF Called
<1>3. t \in DOMAIN Subscribed => own = subs[t]
  BY <1>1
<1> HIDE DEF own, all
<1>4. /\ own \o all \in Seq(Handlers) /\ Len(own \o all) = Len(own) + Len(all)
      /\ \A i \in 1..Len(own) : (own \o all)[i] = own[i]
      /\ \A i \in 1..Len(all) : (own \o all)[Len(own) + i] = all[i]
      /\ Len(own) \in Nat /\ Len(all) \in Nat
  BY <1>1
<1>5. ASSUME NEW h, Contains(own, h) PROVE Contains(own \o all, h)
  <2>1. PICK i \in 1..Len(own) : own[i] = h
    BY <1>5 DEF Contains
  <2>2. i \in 1..Len(own \o all) /\ (own \o all)[i] = h
    BY <1>4, <2>1
  <2> QED BY <2>2 DEF Contains
<1>6. ASSUME NEW h, Contains(all, h) PROVE Contains(own \o all, h)
  <2>1. PICK i \in 1..Len(all) : all[i] = h
    BY <1>6 DEF Contains
  <2>2. Len(own) + i \in 1..Len(own \o all) /\ (own \o all)[Len(own) + i] = h
    BY <1>4, <2>1
  <2> QED BY <2>2 DEF Contains
<1> QED BY <1>2, <1>3, <1>4, <1>5, <1>6 DEF all

-----------------------------------------------------------------------------
(* Lists of lists put one after the other.                                  *)

(* Induction on a set of naturals.                                          *)
LEMMA CountingUp ==
  ASSUME NEW n \in Nat, NEW A, 0 \in A, \A m \in 0..(n - 1) : m \in A => m + 1 \in A
  PROVE  \A m \in 0..n : m \in A
<1> DEFINE bad == {m \in 0..n : m \notin A}
<1>1. SUFFICES ASSUME bad # {} PROVE FALSE
  OBVIOUS
<1>2. PICK m \in bad : \A k \in bad : m <= k
  <2>1. bad \in SUBSET Nat
    OBVIOUS
  <2> HIDE DEF bad
  <2> QED BY <1>1, <2>1, LeastNat
<1>3. m \in 0..n /\ m \notin A /\ m # 0 /\ \A k \in 0..n : k \notin A => m <= k
  BY <1>2
<1>4. m - 1 \in 0..(n - 1) /\ m - 1 \in A /\ (m - 1) + 1 = m
  BY <1>3
<1> QED BY <1>3, <1>4

(* FlattenSeq: f[i] is what the first i lists make together.            *)

Flattens(f, lists, n) ==
  f = [i \in 1..n |-> IF i = 1 THEN lists[i] ELSE f[i - 1] \o lists[i]]

LEMMA FlattensExist ==
  ASSUME NEW lists, NEW n \in Nat
  PROVE  \E f : Flattens(f, lists, n)
<1> DEFINE bad == {m \in Nat : ~\E f : Flattens(f, lists, m)}
<1>1. SUFFICES ASSUME bad # {} PROVE FALSE
  OBVIOUS
<1>2. PICK m \in bad : \A k \in bad : m <= k
  <2>1. bad \in SUBSET Nat
    OBVIOUS
  <2> HIDE DEF bad
  <2> QED BY <1>1, <2>1, LeastNat
<1>3. m # 0
  <2>1. Flattens([k \in 1..0 |-> <<>>], lists, 0)
    BY DEF Flattens
  <2> QED BY <2>1
<1>4. PICK f : Flattens(f, lists, m - 1)
  BY <1>2, <1>3
<1> DEFINE g == [k \in 1..m |-> IF k < m THEN f[k]
                                ELSE IF m = 1 THEN lists[m] ELSE f[m - 1] \o lists[m]]
<1>5. Flattens(g, lists, m)
  <2>1. \A k \in 1..(m - 1) : f[k] = IF k = 1 THEN lists[k] ELSE f[k - 1] \o lists[k]
    BY <1>4, <1>2 DEF Flattens
  <2>2. \A k \in 1..m : g[k] = IF k = 1 THEN lists[k] ELSE g[k - 1] \o lists[k]
    BY <2>1, <1>2, <1>3
  <2>3. g = [k \in 1..m |-> g[k]]
    OBVIOUS
  <2> HIDE DEF g
  <2> QED BY <2>2, <2>3 DEF Flattens
<1> QED BY <1>5

LEMMA FlattenIs ==
  ASSUME NEW T, NEW lists \in Seq(T), lists # <<>>
  PROVE  \E f : Flattens(f, lists, Len(lists)) /\ FlattenSeq(lists) = f[Len(lists)]
<1> DEFINE F == CHOOSE f : Flattens(f, lists, Len(lists))
<1>1. \E f : Flattens(f, lists, Len(lists))
  BY FlattensExist, LenProperties
<1>2. Flattens(F, lists, Len(lists))
  BY <1>1
<1>3. Len(lists) # 0
  OBVIOUS
<1>4. FlattenSeq(lists) = F[Len(lists)]
  BY <1>3, Zenon DEF FlattenSeq, Flattens
<1> QED BY <1>2, <1>4

SameTo(s, t, n) == \A i \in 1..n : s[i] = t[i]

(* Two of them agree as far as their lists do.                              *)
LEMMA FlattensAgree ==
  ASSUME NEW n \in Nat, NEW m, m = n + 1, NEW s, NEW t, SameTo(s, t, n),
         NEW f, Flattens(f, s, n), NEW g, Flattens(g, t, m)
  PROVE  SameTo(f, g, n)
<1> DEFINE bad == {k \in 1..n : f[k] # g[k]}
<1>1. SUFFICES ASSUME bad # {} PROVE FALSE
  BY DEF SameTo
<1>2. PICK k \in bad : \A j \in bad : k <= j
  <2>1. bad \in SUBSET Nat
    OBVIOUS
  <2> HIDE DEF bad
  <2> QED BY <1>1, <2>1, LeastNat
<1>3. k \in 1..n /\ k \in 1..(n + 1) /\ s[k] = t[k]
  BY <1>2 DEF SameTo
<1>4. /\ f[k] = IF k = 1 THEN s[k] ELSE f[k - 1] \o s[k]
      /\ g[k] = IF k = 1 THEN t[k] ELSE g[k - 1] \o t[k]
  BY <1>3 DEF Flattens
<1>5. k # 1 => k - 1 \in 1..n /\ k - 1 \notin bad
  BY <1>2
<1>6. k # 1 => f[k - 1] = g[k - 1]
  BY <1>5
<1> QED BY <1>2, <1>3, <1>4, <1>6

LEMMA FlattenEmpty == FlattenSeq(<<>>) = <<>>
<1>1. Len(<<>>) = 0
  OBVIOUS
<1> QED BY <1>1 DEF FlattenSeq

LEMMA FlattenOne ==
  ASSUME NEW T, NEW x \in Seq(T)
  PROVE  FlattenSeq(<<x>>) = x
<1>1. <<x>> \in Seq(Seq(T)) /\ <<x>> # <<>> /\ Len(<<x>>) = 1 /\ <<x>>[1] = x
  OBVIOUS
<1>2. PICK f : Flattens(f, <<x>>, 1) /\ FlattenSeq(<<x>>) = f[1]
  BY <1>1, FlattenIs
<1> QED BY <1>1, <1>2 DEF Flattens

LEMMA FlattenAppend ==
  ASSUME NEW T, NEW lists \in Seq(Seq(T)), NEW x \in Seq(T)
  PROVE  FlattenSeq(Append(lists, x)) = FlattenSeq(lists) \o x
<1> DEFINE more == Append(lists, x)
           n == Len(lists)
<1>1. /\ more \in Seq(Seq(T)) /\ more # <<>> /\ Len(more) = n + 1 /\ more[n + 1] = x
      /\ n \in Nat /\ \A i \in 1..n : more[i] = lists[i]
  BY AppendProperties, LenProperties
<1>2. CASE lists = <<>>
  <2>1. more = <<x>> /\ <<>> \o x = x
    BY <1>2
  <2> QED BY <2>1, <1>2, FlattenOne, FlattenEmpty
<1>3. CASE lists # <<>>
  <2> HIDE DEF more
  <2>1. PICK f : Flattens(f, lists, n) /\ FlattenSeq(lists) = f[n]
    BY <1>3, FlattenIs
  <2>2. PICK g : Flattens(g, more, n + 1) /\ FlattenSeq(more) = g[n + 1]
    BY <1>1, FlattenIs
  <2>3. n \in 1..n
    BY <1>3, <1>1
  <2> HIDE DEF n
  <2>7. n + 1 \in Nat /\ n <= n + 1
    BY <1>1
  <2>9. n \in Nat /\ SameTo(lists, more, n)
    BY <1>1 DEF SameTo
  <2>10. Flattens(g, more, n + 1) /\ Flattens(f, lists, n)
    BY <2>1, <2>2
  <2>8. SameTo(f, g, n)
    BY <2>9, <2>10, FlattensAgree
  <2>4. g[n] = f[n]
    BY <2>3, <2>8 DEF SameTo
  <2>5. n + 1 \in 1..(n + 1) /\ n + 1 # 1 /\ (n + 1) - 1 = n
    BY <2>3, <1>1
  <2>6. g[n + 1] = IF n + 1 = 1 THEN more[n + 1] ELSE g[(n + 1) - 1] \o more[n + 1]
    BY <2>2, <2>5 DEF Flattens
  <2> QED BY <1>1, <2>1, <2>2, <2>4, <2>5, <2>6 DEF more
<1> QED BY <1>2, <1>3

(* Whatever holds of the first lists and lasts when one more comes, holds. *)
LEMMA PrefixGrows ==
  ASSUME NEW T, NEW lists \in Seq(T), NEW n \in 0..(Len(lists) - 1)
  PROVE  /\ SubSeq(lists, 1, n) \in Seq(T) /\ lists[n + 1] \in T
         /\ SubSeq(lists, 1, n + 1) = Append(SubSeq(lists, 1, n), lists[n + 1])
BY SubSeqProperties

LEMMA FlattenType ==
  ASSUME NEW T, NEW lists \in Seq(Seq(T))
  PROVE  FlattenSeq(lists) \in Seq(T)
<1> DEFINE First(m) == SubSeq(lists, 1, m)
           n == Len(lists)
           A == {m \in 0..n : FlattenSeq(First(m)) \in Seq(T)}
<1>1. lists = First(n) /\ n \in Nat /\ First(0) = <<>> /\ <<>> \in Seq(T)
  OBVIOUS
<1>2. 0 \in A
  <2> HIDE DEF First, n
  <2>1. FlattenSeq(First(0)) \in Seq(T)
    BY <1>1, FlattenEmpty
  <2> QED BY <1>1, <2>1
<1>3. ASSUME NEW m \in 0..(n - 1), m \in A PROVE m + 1 \in A
  <2>1. /\ First(m) \in Seq(Seq(T)) /\ lists[m + 1] \in Seq(T)
        /\ First(m + 1) = Append(First(m), lists[m + 1])
    BY PrefixGrows
  <2>2. FlattenSeq(First(m)) \in Seq(T) /\ m + 1 \in 0..n
    BY <1>1, <1>3
  <2> HIDE DEF First, n
  <2>3. FlattenSeq(First(m + 1)) = FlattenSeq(First(m)) \o lists[m + 1]
    BY <2>1, FlattenAppend
  <2>4. FlattenSeq(First(m + 1)) \in Seq(T)
    BY <2>1, <2>2, <2>3, ConcatProperties
  <2> QED BY <2>2, <2>4
<1> HIDE DEF A, n
<1>4. \A m \in 0..n : m \in A
  BY <1>1, <1>2, <1>3, CountingUp
<1>5. n \in A
  BY <1>1, <1>4
<1> QED BY <1>1, <1>5 DEF A

LEMMA ConcatAppend ==
  ASSUME NEW S, NEW s \in Seq(S), NEW a \in Seq(S), NEW e \in S
  PROVE  s \o Append(a, e) = Append(s \o a, e) /\ s \o a \in Seq(S)
OBVIOUS

LEMMA Regroup ==
  ASSUME NEW T
  PROVE  \A a, b, c \in Seq(T) : (a \o b) \o c = a \o (b \o c)
BY ConcatAssociative

LEMMA ConcatStep ==
  ASSUME NEW T, NEW s \in Seq(Seq(T)), NEW f \in Seq(Seq(T)), NEW x \in Seq(T),
         FlattenSeq(s \o f) = FlattenSeq(s) \o FlattenSeq(f)
  PROVE  FlattenSeq(s \o Append(f, x)) = FlattenSeq(s) \o FlattenSeq(Append(f, x))
<1>1. s \o Append(f, x) = Append(s \o f, x) /\ s \o f \in Seq(Seq(T))
  BY ConcatAppend
<1>2. FlattenSeq(Append(s \o f, x)) = FlattenSeq(s \o f) \o x
  BY <1>1, FlattenAppend
<1>3. FlattenSeq(Append(f, x)) = FlattenSeq(f) \o x
  BY FlattenAppend
<1>4. FlattenSeq(s) \in Seq(T) /\ FlattenSeq(f) \in Seq(T)
  BY FlattenType
<1>6. (FlattenSeq(s) \o FlattenSeq(f)) \o x = FlattenSeq(s) \o (FlattenSeq(f) \o x)
  BY <1>4, Regroup
<1> QED BY <1>1, <1>2, <1>3, <1>6

LEMMA FlattenConcat ==
  ASSUME NEW T, NEW s \in Seq(Seq(T)), NEW t \in Seq(Seq(T))
  PROVE  FlattenSeq(s \o t) = FlattenSeq(s) \o FlattenSeq(t)
<1> DEFINE First(m) == SubSeq(t, 1, m)
           n == Len(t)
           A == {m \in 0..n :
                   FlattenSeq(s \o First(m)) = FlattenSeq(s) \o FlattenSeq(First(m))}
<1>1. t = First(n) /\ n \in Nat /\ First(0) = <<>> /\ s \o <<>> = s
  OBVIOUS
<1>2. 0 \in A
  <2>1. FlattenSeq(s) \o <<>> = FlattenSeq(s)
    BY FlattenType, ConcatEmptySeq
  <2> HIDE DEF First, n
  <2>2. FlattenSeq(s \o First(0)) = FlattenSeq(s) \o FlattenSeq(First(0))
    BY <1>1, <2>1, FlattenEmpty
  <2> QED BY <1>1, <2>2
<1>3. ASSUME NEW m \in 0..(n - 1), m \in A PROVE m + 1 \in A
  <2>1. /\ First(m) \in Seq(Seq(T)) /\ t[m + 1] \in Seq(T)
        /\ First(m + 1) = Append(First(m), t[m + 1])
    BY PrefixGrows
  <2>2. FlattenSeq(s \o First(m)) = FlattenSeq(s) \o FlattenSeq(First(m)) /\ m + 1 \in 0..n
    BY <1>1, <1>3
  <2> HIDE DEF First, n
  <2>3. PICK x \in Seq(T) : x = t[m + 1]
    BY <2>1
  <2>4. PICK f \in Seq(Seq(T)) : f = First(m)
    BY <2>1
  <2>5. FlattenSeq(s \o Append(f, x)) = FlattenSeq(s) \o FlattenSeq(Append(f, x))
    BY <2>2, <2>4, ConcatStep
  <2>8. FlattenSeq(s \o First(m + 1)) = FlattenSeq(s) \o FlattenSeq(First(m + 1))
    BY <2>1, <2>2, <2>3, <2>4, <2>5
  <2> QED BY <2>2, <2>8
<1> HIDE DEF A, n
<1>4. \A m \in 0..n : m \in A
  BY <1>1, <1>2, <1>3, CountingUp
<1>5. n \in A
  BY <1>1, <1>4
<1> QED BY <1>1, <1>5 DEF A

LEMMA ListIs ==
  ASSUME NEW T, NEW n \in Nat, NEW f, f = [i \in 1..n |-> f[i]], \A i \in 1..n : f[i] \in T
  PROVE  f \in Seq(T) /\ Len(f) = n
<1>1. f \in [1..n -> T]
  OBVIOUS
<1> QED BY <1>1

LEMMA ConcatByPlace ==
  ASSUME NEW T, NEW a \in Seq(T), NEW b \in Seq(T), NEW c \in Seq(T),
         Len(c) = Len(a) + Len(b),
         \A i \in 1..Len(a) : c[i] = a[i], \A i \in 1..Len(b) : c[Len(a) + i] = b[i]
  PROVE  c = a \o b
<1> DEFINE d == a \o b
<1>1. /\ d \in Seq(T) /\ Len(d) = Len(a) + Len(b) /\ Len(a) \in Nat /\ Len(b) \in Nat
      /\ \A i \in 1..Len(a) : d[i] = a[i] /\ \A k \in 1..Len(b) : d[Len(a) + k] = b[k]
  BY ConcatIs
<1> HIDE DEF d
<1>2. ASSUME NEW i \in 1..Len(c) PROVE c[i] = d[i]
  <2>1. CASE i <= Len(a)
    BY <1>1, <2>1, ConcatIs DEF d
  <2>2. CASE i > Len(a)
    <3>1. i - Len(a) \in 1..Len(b) /\ Len(a) + (i - Len(a)) = i
      BY <1>1, <2>2
    <3>2. c[Len(a) + (i - Len(a))] = b[i - Len(a)]
      BY <3>1
    <3>3. d[Len(a) + (i - Len(a))] = b[i - Len(a)]
      BY <3>1, ConcatIs DEF d
    <3> QED BY <3>1, <3>2, <3>3
  <2> QED BY <2>1, <2>2, <1>1
<1>3. Len(c) = Len(d) /\ \A i \in 1..Len(c) : c[i] = d[i]
  BY <1>1, <1>2
<1> QED BY <1>1, <1>3, SeqEqual DEF d

LEMMA Two ==
  ASSUME NEW T, NEW x \in T, NEW y \in T
  PROVE  <<x, y>> = <<x>> \o <<y>>
<1> DEFINE a == <<x>>
           b == <<y>>
           c == <<x, y>>
<1>1. /\ a \in Seq(T) /\ b \in Seq(T) /\ c \in Seq(T)
      /\ Len(a) = 1 /\ Len(b) = 1 /\ Len(c) = 2
      /\ c[1] = a[1] /\ c[2] = b[1]
  OBVIOUS
<1> HIDE DEF a, b, c
<1>2. /\ Len(c) = Len(a) + Len(b) /\ \A i \in 1..Len(a) : c[i] = a[i]
      /\ \A i \in 1..Len(b) : c[Len(a) + i] = b[i]
  BY <1>1
<1>3. c = a \o b
  BY <1>1, <1>2, ConcatByPlace
<1> QED BY <1>3 DEF a, b, c

LEMMA Three ==
  ASSUME NEW T, NEW x \in T, NEW y \in T, NEW z \in T
  PROVE  <<x, y, z>> = <<x>> \o <<y, z>>
<1> DEFINE a == <<x>>
           b == <<y, z>>
           c == <<x, y, z>>
<1>1. /\ a \in Seq(T) /\ b \in Seq(T) /\ c \in Seq(T)
      /\ Len(a) = 1 /\ Len(b) = 2 /\ Len(c) = 3
      /\ c[1] = a[1] /\ c[2] = b[1] /\ c[3] = b[2]
  OBVIOUS
<1> HIDE DEF a, b, c
<1>2. /\ Len(c) = Len(a) + Len(b) /\ \A i \in 1..Len(a) : c[i] = a[i]
      /\ \A i \in 1..Len(b) : c[Len(a) + i] = b[i]
  BY <1>1
<1>3. c = a \o b
  BY <1>1, <1>2, ConcatByPlace
<1> QED BY <1>3 DEF a, b, c

LEMMA NothingAround ==
  ASSUME NEW T, NEW a \in Seq(T), NEW b \in Seq(T), NEW d, d = <<>>, NEW e, e = <<>>
  PROVE  a \o (e \o b) = a \o b /\ d \o (a \o e) = a
<1>1. e \o b = b /\ a \o e = a /\ d \o a = a
  BY ConcatEmptySeq
<1> QED BY <1>1

LEMMA FlattenNothing ==
  ASSUME NEW T, NEW lists \in Seq(Seq(T)), \A i \in 1..Len(lists) : lists[i] = <<>>
  PROVE  FlattenSeq(lists) = <<>>
<1> DEFINE First(m) == SubSeq(lists, 1, m)
           n == Len(lists)
           A == {m \in 0..n : FlattenSeq(First(m)) = <<>>}
<1>1. lists = First(n) /\ n \in Nat /\ First(0) = <<>> /\ <<>> \in Seq(T)
  OBVIOUS
<1>2. 0 \in A
  <2> HIDE DEF First, n
  <2>1. FlattenSeq(First(0)) = <<>>
    BY <1>1, FlattenEmpty
  <2> QED BY <1>1, <2>1
<1>3. ASSUME NEW m \in 0..(n - 1), m \in A PROVE m + 1 \in A
  <2>1. /\ First(m) \in Seq(Seq(T)) /\ lists[m + 1] \in Seq(T)
        /\ First(m + 1) = Append(First(m), lists[m + 1])
    BY PrefixGrows
  <2>2. FlattenSeq(First(m)) = <<>> /\ m + 1 \in 0..n /\ lists[m + 1] = <<>>
    BY <1>1, <1>3
  <2> HIDE DEF First, n
  <2>3. FlattenSeq(First(m + 1)) = FlattenSeq(First(m)) \o lists[m + 1]
    BY <2>1, FlattenAppend
  <2>4. FlattenSeq(First(m + 1)) = <<>>
    BY <1>1, <2>2, <2>3, ConcatEmptySeq
  <2> QED BY <2>2, <2>4
<1> HIDE DEF A, n
<1>4. \A m \in 0..n : m \in A
  BY <1>1, <1>2, <1>3, CountingUp
<1>5. n \in A
  BY <1>1, <1>4
<1> QED BY <1>1, <1>5 DEF A

-----------------------------------------------------------------------------
(* What a list will announce.                                               *)

ItemTopics(x) ==
  IF Own(x) THEN <<x.topic>> ELSE IF x.op = "steps" THEN StepsTopics(x.left) ELSE <<>>

Will(todo) == FlattenSeq([i \in 1..Len(todo) |-> ItemTopics(todo[i])])

Noise(x) == ~Own(x) /\ x.op \notin {"steps", "raise"}

(* The run fails before it announces anything.                              *)
Doomed(todo) ==
  \E k \in 1..Len(todo) : todo[k].op = "raise" /\ \A j \in 1..(k - 1) : Noise(todo[j])

LEMMA TopicsOfStep ==
  ASSUME NEW s \in Ask
  PROVE  StepTopics(s) \in Seq(Names)
<1>1. s.target \in Names
  BY AskIs
<1>2. <<s.target>> \in Seq(Names) /\ <<>> \in Seq(Names)
  BY <1>1
<1>3. AgentTopics \in Seq(Names) /\ PluginTopics \in Seq(Names)
  BY DEF AgentTopics, PluginTopics, Names
<1>4. CASE s.kind = "event"
  BY <1>2, <1>4 DEF StepTopics
<1>5. CASE s.kind = "agent"
  BY <1>3, <1>5 DEF StepTopics
<1>6. CASE s.kind = "plugin"
  BY <1>3, <1>6 DEF StepTopics
<1>7. CASE s.kind \notin {"event", "agent", "plugin"}
  BY <1>2, <1>7 DEF StepTopics
<1> QED BY <1>4, <1>5, <1>6, <1>7

(* The topics of a workflow's steps are those of its first one and of the   *)
(* other ones.                                                              *)
LEMMA TopicsOfSteps ==
  ASSUME NEW left \in Seq(Ask)
  PROVE  /\ StepsTopics(left) \in Seq(Names)
         /\ left = <<>> => StepsTopics(left) = <<>>
         /\ left # <<>> => StepsTopics(left) = StepTopics(Head(left)) \o StepsTopics(Tail(left))
<1> DEFINE of(s) == [i \in 1..Len(s) |-> StepTopics(s[i])]
<1>1. \A s \in Seq(Ask) : of(s) \in Seq(Seq(Names)) /\ Len(of(s)) = Len(s)
  <2> SUFFICES ASSUME NEW s \in Seq(Ask)
               PROVE  of(s) \in Seq(Seq(Names)) /\ Len(of(s)) = Len(s)
    OBVIOUS
  <2> DEFINE f == of(s)
  <2>1. Len(s) \in Nat /\ \A i \in 1..Len(s) : s[i] \in Ask
    OBVIOUS
  <2>2. f = [i \in 1..Len(s) |-> f[i]] /\ \A i \in 1..Len(s) : f[i] = StepTopics(s[i])
    OBVIOUS
  <2>3. \A i \in 1..Len(s) : f[i] \in Seq(Names)
    BY <2>1, <2>2, TopicsOfStep
  <2> HIDE DEF f
  <2>4. f \in Seq(Seq(Names)) /\ Len(f) = Len(s)
    BY <2>1, <2>2, <2>3, ListIs
  <2> QED BY <2>4 DEF f
<1>2. \A s : StepsTopics(s) = FlattenSeq(of(s))
  BY DEF StepsTopics
<1>3. StepsTopics(left) \in Seq(Names)
  <2> HIDE DEF of
  <2> QED BY <1>1, <1>2, FlattenType
<1>4. CASE left = <<>>
  <2>1. of(left) = <<>>
    BY <1>4
  <2> QED BY <1>2, <1>3, <1>4, <2>1, FlattenEmpty
<1>5. CASE left # <<>>
  <2> DEFINE x == StepTopics(Head(left))
             t == of(Tail(left))
             l == of(left)
  <2>1. /\ Head(left) \in Ask /\ Tail(left) \in Seq(Ask) /\ Len(left) \in Nat
        /\ Len(Tail(left)) = Len(left) - 1 /\ Head(left) = left[1]
        /\ \A i \in 1..Len(Tail(left)) : Tail(left)[i] = left[i + 1]
    BY <1>5
  <2>2. x \in Seq(Names) /\ t \in Seq(Seq(Names)) /\ Len(t) = Len(left) - 1
        /\ l \in Seq(Seq(Names)) /\ Len(l) = Len(left)
    BY <1>1, <2>1, TopicsOfStep
  <2>3. l[1] = x /\ \A i \in 1..Len(t) : l[i + 1] = t[i]
    <3>1. 1 \in 1..Len(left)
      BY <1>5
    <3>2. l[1] = x
      BY <2>1, <3>1
    <3>3. ASSUME NEW i \in 1..Len(t) PROVE l[i + 1] = t[i]
      <4>1. i \in 1..Len(Tail(left)) /\ i + 1 \in 1..Len(left)
        BY <2>1, <2>2
      <4>2. t[i] = StepTopics(Tail(left)[i]) /\ l[i + 1] = StepTopics(left[i + 1])
        BY <4>1
      <4> QED BY <2>1, <4>1, <4>2
    <3> QED BY <3>2, <3>3
  <2> HIDE DEF x, t, l, of
  <2>4. l = <<x>> \o t
    <3>1. <<x>> \in Seq(Seq(Names)) /\ Len(<<x>>) = 1 /\ <<x>>[1] = x
      BY <2>2
    <3>2. Len(l) = Len(<<x>>) + Len(t)
      BY <2>1, <2>2, <3>1
    <3>3. \A i \in 1..Len(<<x>>) : l[i] = <<x>>[i]
      BY <2>3, <3>1
    <3>4. \A i \in 1..Len(t) : l[Len(<<x>>) + i] = t[i]
      <4> SUFFICES ASSUME NEW i \in 1..Len(t) PROVE l[1 + i] = t[i]
        BY <3>1
      <4>1. 1 + i = i + 1
        OBVIOUS
      <4> QED BY <2>3, <4>1
    <3> QED BY <2>2, <3>1, <3>2, <3>3, <3>4, ConcatByPlace
  <2>5. FlattenSeq(<<x>> \o t) = FlattenSeq(<<x>>) \o FlattenSeq(t)
    <3>1. <<x>> \in Seq(Seq(Names))
      BY <2>2
    <3> QED BY <2>2, <3>1, FlattenConcat
  <2>6. FlattenSeq(<<x>>) = x
    BY <2>2, FlattenOne
  <2> QED BY <1>2, <1>3, <1>5, <2>4, <2>5, <2>6 DEF x, t, l
<1> QED BY <1>3, <1>4, <1>5

LEMMA ItemTopicsIs ==
  ASSUME NEW x \in Items
  PROVE  /\ ItemTopics(x) \in Seq(Names)
         /\ Noise(x) => ItemTopics(x) = <<>>
         /\ Own(x) => ItemTopics(x) = <<x.topic>> /\ x.topic \in Names
         /\ x.op = "steps" => ItemTopics(x) = StepsTopics(x.left) /\ x.left \in Seq(Ask)
<1>1. /\ Own(x) => x.topic \in Names
      /\ x.op = "steps" => x.left \in Seq(Ask) /\ StepsTopics(x.left) \in Seq(Names)
  BY Kinds, TopicsOfSteps DEF Own
<1>2. Own(x) => <<x.topic>> \in Seq(Names)
  BY <1>1
<1>3. <<>> \in Seq(Names)
  OBVIOUS
<1> QED BY <1>1, <1>2, <1>3 DEF ItemTopics, Noise, Own

(* What is announced for the entries of a list, in one list each.           *)
Each(todo) == [i \in 1..Len(todo) |-> ItemTopics(todo[i])]

LEMMA EachIs ==
  ASSUME NEW s \in Seq(Items)
  PROVE  /\ Each(s) \in Seq(Seq(Names)) /\ Len(Each(s)) = Len(s) /\ Len(s) \in Nat
         /\ \A i \in 1..Len(s) : s[i] \in Items /\ Each(s)[i] = ItemTopics(s[i])
         /\ Will(s) = FlattenSeq(Each(s)) /\ Will(s) \in Seq(Names)
<1> DEFINE f == Each(s)
<1>1. Len(s) \in Nat /\ \A i \in 1..Len(s) : s[i] \in Items
  OBVIOUS
<1>2. f = [i \in 1..Len(s) |-> f[i]] /\ \A i \in 1..Len(s) : f[i] = ItemTopics(s[i])
  BY DEF Each
<1>3. \A i \in 1..Len(s) : f[i] \in Seq(Names)
  BY <1>1, <1>2, ItemTopicsIs
<1>4. Will(s) = FlattenSeq(f)
  BY DEF Will, Each
<1> HIDE DEF f
<1>5. f \in Seq(Seq(Names)) /\ Len(f) = Len(s)
  BY <1>1, <1>2, <1>3, ListIs
<1>6. FlattenSeq(f) \in Seq(Names)
  BY <1>5, FlattenType
<1> QED BY <1>1, <1>2, <1>4, <1>5, <1>6 DEF f

LEMMA WillOfNothing == Will(<<>>) = <<>>
<1>1. Each(<<>>) = <<>>
  BY DEF Each
<1> QED BY <1>1, FlattenEmpty DEF Will, Each

LEMMA WillOfOne ==
  ASSUME NEW x \in Items
  PROVE  Will(<<x>>) = ItemTopics(x)
<1>1. <<x>> \in Seq(Items) /\ Len(<<x>>) = 1 /\ <<x>>[1] = x
  OBVIOUS
<1>2. ItemTopics(x) \in Seq(Names)
  BY ItemTopicsIs
<1> DEFINE t == ItemTopics(x)
           f == Each(<<x>>)
<1>3. f \in Seq(Seq(Names)) /\ Len(f) = 1 /\ f[1] = t /\ Will(<<x>>) = FlattenSeq(f)
  BY <1>1, EachIs
<1> HIDE DEF t, f
<1>4. f = <<t>>
  <2>1. <<t>> \in Seq(Seq(Names)) /\ Len(<<t>>) = 1 /\ <<t>>[1] = t
    BY <1>2 DEF t
  <2>2. \A i \in 1..Len(f) : f[i] = <<t>>[i]
    BY <1>3, <2>1
  <2> QED BY <1>3, <2>1, <2>2, SeqEqual
<1> QED BY <1>2, <1>3, <1>4, FlattenOne DEF t

LEMMA WillConcat ==
  ASSUME NEW a \in Seq(Items), NEW b \in Seq(Items)
  PROVE  Will(a \o b) = Will(a) \o Will(b)
<1> DEFINE c == a \o b
<1>1. /\ c \in Seq(Items) /\ Len(c) = Len(a) + Len(b) /\ Len(a) \in Nat /\ Len(b) \in Nat
      /\ \A i \in 1..Len(a) : c[i] = a[i]
      /\ \A i \in 1..Len(b) : c[Len(a) + i] = b[i]
  BY ConcatIs
<1> HIDE DEF c
<1>2. Each(c) = Each(a) \o Each(b)
  <2> DEFINE x == Each(a)
             y == Each(b)
             z == Each(c)
  <2>1. /\ x \in Seq(Seq(Names)) /\ y \in Seq(Seq(Names)) /\ z \in Seq(Seq(Names))
        /\ Len(x) = Len(a) /\ Len(y) = Len(b) /\ Len(z) = Len(c)
    BY <1>1, EachIs
  <2>2. \A i \in 1..Len(a) : z[i] = x[i]
    <3> SUFFICES ASSUME NEW i \in 1..Len(a) PROVE z[i] = x[i]
      OBVIOUS
    <3>1. i \in 1..Len(c)
      BY <1>1
    <3> QED BY <1>1, <3>1, EachIs
  <2>3. \A i \in 1..Len(b) : z[Len(a) + i] = y[i]
    <3> SUFFICES ASSUME NEW i \in 1..Len(b) PROVE z[Len(a) + i] = y[i]
      OBVIOUS
    <3>1. Len(a) + i \in 1..Len(c)
      BY <1>1
    <3>2. z[Len(a) + i] = ItemTopics(c[Len(a) + i]) /\ y[i] = ItemTopics(b[i])
      BY <1>1, <3>1, EachIs
    <3> QED BY <1>1, <3>2
  <2> HIDE DEF x, y, z
  <2>5. /\ Len(z) = Len(x) + Len(y)
        /\ \A i \in 1..Len(x) : z[i] = x[i]
        /\ \A i \in 1..Len(y) : z[Len(x) + i] = y[i]
    BY <1>1, <2>1, <2>2, <2>3
  <2>4. z = x \o y
    BY <2>1, <2>5, ConcatByPlace
  <2> QED BY <2>4 DEF x, y, z
<1>3. FlattenSeq(Each(a) \o Each(b)) = FlattenSeq(Each(a)) \o FlattenSeq(Each(b))
  BY EachIs, FlattenConcat
<1>4. /\ Will(c) = FlattenSeq(Each(c)) /\ Will(a) = FlattenSeq(Each(a))
      /\ Will(b) = FlattenSeq(Each(b))
  BY <1>1, EachIs
<1>5. Will(c) = Will(a) \o Will(b)
  BY <1>2, <1>3, <1>4
<1> QED BY <1>5 DEF c

LEMMA WillOfNoise ==
  ASSUME NEW s \in Seq(Items), \A i \in 1..Len(s) : Noise(s[i])
  PROVE  Will(s) = <<>>
<1>1. /\ Each(s) \in Seq(Seq(Names)) /\ Len(Each(s)) = Len(s)
      /\ Will(s) = FlattenSeq(Each(s))
  BY EachIs
<1>2. \A i \in 1..Len(Each(s)) : Each(s)[i] = <<>>
  BY <1>1, EachIs, ItemTopicsIs
<1> QED BY <1>1, <1>2, FlattenNothing

LEMMA WillOfFirst ==
  ASSUME NEW s \in Seq(Items), s # <<>>
  PROVE  Will(s) = ItemTopics(Head(s)) \o Will(Tail(s))
<1>1. Head(s) \in Items /\ Tail(s) \in Seq(Items) /\ s = <<Head(s)>> \o Tail(s)
  OBVIOUS
<1>2. <<Head(s)>> \in Seq(Items)
  BY <1>1
<1>3. Will(<<Head(s)>> \o Tail(s)) = Will(<<Head(s)>>) \o Will(Tail(s))
  BY <1>1, <1>2, WillConcat
<1> QED BY <1>1, <1>3, WillOfOne

LEMMA WillOfThree ==
  ASSUME NEW x \in Items, NEW y \in Items, NEW z \in Items
  PROVE  Will(<<x, y, z>>) = ItemTopics(x) \o (ItemTopics(y) \o ItemTopics(z))
<1>1. /\ <<x>> \in Seq(Items) /\ <<y>> \in Seq(Items) /\ <<z>> \in Seq(Items)
      /\ <<y, z>> \in Seq(Items)
  OBVIOUS
<1>4. <<x, y, z>> = <<x>> \o <<y, z>> /\ <<y, z>> = <<y>> \o <<z>>
  <2>1. <<x, y, z>> = <<x>> \o <<y, z>>
    BY Three, Zenon
  <2>2. <<y, z>> = <<y>> \o <<z>>
    BY Two, Zenon
  <2> QED BY <2>1, <2>2
<1>2. Will(<<x>> \o <<y, z>>) = Will(<<x>>) \o Will(<<y, z>>)
  BY <1>1, WillConcat
<1>3. Will(<<y>> \o <<z>>) = Will(<<y>>) \o Will(<<z>>)
  BY <1>1, WillConcat
<1> QED BY <1>2, <1>3, <1>4, WillOfOne

-----------------------------------------------------------------------------
(* What the programs announce, unless they fail before.                     *)

LEMMA DoomedGrows ==
  ASSUME NEW f \in Seq(Items), NEW t \in Seq(Items),
         Doomed(f) \/ (Doomed(t) /\ \A i \in 1..Len(f) : Noise(f[i]))
  PROVE  Doomed(f \o t)
<1> DEFINE c == f \o t
<1>1. /\ Len(c) = Len(f) + Len(t) /\ Len(f) \in Nat /\ Len(t) \in Nat
      /\ \A i \in 1..Len(f) : c[i] = f[i]
      /\ \A i \in 1..Len(t) : c[Len(f) + i] = t[i]
  BY ConcatIs
<1> HIDE DEF c
<1>2. CASE Doomed(f)
  <2>1. PICK k \in 1..Len(f) : f[k].op = "raise" /\ \A j \in 1..(k - 1) : Noise(f[j])
    BY <1>2 DEF Doomed
  <2>2. k \in 1..Len(c) /\ c[k] = f[k] /\ \A j \in 1..(k - 1) : c[j] = f[j]
    BY <1>1, <2>1
  <2>3. Doomed(c)
    BY <2>1, <2>2 DEF Doomed
  <2> QED BY <2>3 DEF c
<1>3. CASE Doomed(t) /\ \A i \in 1..Len(f) : Noise(f[i])
  <2>1. PICK k \in 1..Len(t) : t[k].op = "raise" /\ \A j \in 1..(k - 1) : Noise(t[j])
    BY <1>3 DEF Doomed
  <2>2. Len(f) + k \in 1..Len(c) /\ c[Len(f) + k].op = "raise"
    BY <1>1, <2>1
  <2>3. ASSUME NEW j \in 1..(Len(f) + k - 1) PROVE Noise(c[j])
    <3>1. CASE j <= Len(f)
      <4>1. j \in 1..Len(f)
        BY <1>1, <3>1
      <4> QED BY <1>1, <1>3, <4>1
    <3>2. CASE j > Len(f)
      <4>1. /\ j - Len(f) \in 1..(k - 1) /\ j - Len(f) \in 1..Len(t)
            /\ Len(f) + (j - Len(f)) = j
        BY <1>1, <2>1, <3>2
      <4>2. c[Len(f) + (j - Len(f))] = t[j - Len(f)]
        BY <1>1, <4>1
      <4> QED BY <2>1, <4>1, <4>2
    <3> QED BY <3>1, <3>2, <1>1, <2>1
  <2>4. Doomed(c)
    BY <2>2, <2>3 DEF Doomed
  <2> QED BY <2>4 DEF c
<1> QED BY <1>2, <1>3

LEMMA DoomedOne ==
  ASSUME NEW x \in Items, x.op = "raise"
  PROVE  Doomed(<<x>>)
<1>1. Len(<<x>>) = 1 /\ <<x>>[1] = x /\ 1..(1 - 1) = {} /\ 1 \in 1..1
  OBVIOUS
<1> QED BY <1>1 DEF Doomed

LEMMA AgentAnnounces ==
  ASSUME NEW a
  PROVE  Doomed(AgentProgram(a)) \/ Will(AgentProgram(a)) = AgentTopics
<1>1. CASE a \notin Agents
  <2>1. Raise("agent") \in Items /\ Raise("agent").op = "raise"
    BY RaiseIs DEF Names
  <2> QED BY <1>1, <2>1, DoomedOne DEF AgentProgram
<1>2. CASE a \in Agents
  <2> DEFINE x == Pub("agent.started")
             y == [op |-> "handle"]
             z == Pub("agent.completed")
  <2>1. /\ x \in Items /\ y \in Items /\ z \in Items /\ Own(x) /\ Own(z)
        /\ y.op = "handle" /\ x.topic = "agent.started" /\ z.topic = "agent.completed"
    BY PubIs, PublishingIs, HandleIs DEF Names, Pub
  <2>2. AgentProgram(a) = <<x, y, z>>
    BY <1>2 DEF AgentProgram
  <2> HIDE DEF x, y, z
  <2>3. Noise(y)
    BY <2>1 DEF Noise, Own
  <2>4. /\ ItemTopics(x) = <<x.topic>> /\ ItemTopics(y) = <<>> /\ ItemTopics(z) = <<z.topic>>
        /\ ItemTopics(x) \in Seq(Names) /\ ItemTopics(z) \in Seq(Names)
        /\ x.topic \in Names /\ z.topic \in Names
    BY <2>1, <2>3, ItemTopicsIs
  <2>5. Will(<<x, y, z>>) = ItemTopics(x) \o (ItemTopics(y) \o ItemTopics(z))
    BY <2>1, WillOfThree
  <2>6. Will(<<x, y, z>>) = ItemTopics(x) \o ItemTopics(z)
    BY <2>4, <2>5, NothingAround
  <2>7. <<x.topic>> \o <<z.topic>> = <<x.topic, z.topic>>
    BY <2>4, Two, Zenon
  <2>8. <<x.topic, z.topic>> = AgentTopics
    BY <2>1 DEF AgentTopics
  <2> QED BY <2>2, <2>4, <2>6, <2>7, <2>8
<1> QED BY <1>1, <1>2

LEMMA WillOfSix ==
  ASSUME NEW s \in Seq(Items), Len(s) = 6,
         Own(s[2]), Own(s[5]), Noise(s[1]), Noise(s[3]), Noise(s[4]), Noise(s[6])
  PROVE  Will(s) = <<s[2].topic, s[5].topic>>
<1> DEFINE u == s[1]
           v == s[2]
           w == s[3]
           x == s[4]
           y == s[5]
           z == s[6]
<1>1. /\ u \in Items /\ v \in Items /\ w \in Items
      /\ x \in Items /\ y \in Items /\ z \in Items
  OBVIOUS
<1>2. /\ s[1] = u /\ s[2] = v /\ s[3] = w /\ s[4] = x /\ s[5] = y /\ s[6] = z
      /\ Own(v) /\ Own(y) /\ Noise(u) /\ Noise(w) /\ Noise(x) /\ Noise(z)
  OBVIOUS
<1> HIDE DEF u, v, w, x, y, z
<1>3. /\ ItemTopics(u) = <<>> /\ ItemTopics(w) = <<>> /\ ItemTopics(x) = <<>>
      /\ ItemTopics(z) = <<>>
      /\ ItemTopics(v) = <<v.topic>> /\ ItemTopics(y) = <<y.topic>>
      /\ ItemTopics(v) \in Seq(Names) /\ ItemTopics(y) \in Seq(Names)
      /\ v.topic \in Names /\ y.topic \in Names
  BY <1>1, <1>2, ItemTopicsIs
<1> DEFINE a == <<u, v, w>>
           b == <<x, y, z>>
<1>4. Will(a) = ItemTopics(v) /\ Will(b) = ItemTopics(y)
  <2>1. Will(a) = ItemTopics(u) \o (ItemTopics(v) \o ItemTopics(w))
    <3>1. u \in Items /\ v \in Items /\ w \in Items
      BY <1>1
    <3> QED BY <3>1, WillOfThree
  <2>2. Will(b) = ItemTopics(x) \o (ItemTopics(y) \o ItemTopics(z))
    <3>1. x \in Items /\ y \in Items /\ z \in Items
      BY <1>1
    <3> QED BY <3>1, WillOfThree
  <2> HIDE DEF a, b
  <2>3. Will(a) = ItemTopics(v)
    BY <1>3, <2>1, NothingAround
  <2>4. Will(b) = ItemTopics(y)
    BY <1>3, <2>2, NothingAround
  <2> QED BY <2>3, <2>4
<1>5. /\ a \in Seq(Items) /\ b \in Seq(Items) /\ Len(a) = 3 /\ Len(b) = 3
      /\ a[1] = s[1] /\ a[2] = s[2] /\ a[3] = s[3]
      /\ b[1] = s[4] /\ b[2] = s[5] /\ b[3] = s[6]
  BY <1>1, <1>2
<1> HIDE DEF a, b
<1>6. s = a \o b
  <2>1. /\ Len(s) = Len(a) + Len(b) /\ \A i \in 1..Len(a) : s[i] = a[i]
        /\ \A i \in 1..Len(b) : s[Len(a) + i] = b[i]
    BY <1>5
  <2> QED BY <1>5, <2>1, ConcatByPlace
<1>7. Will(a \o b) = Will(a) \o Will(b)
  BY <1>5, WillConcat
<1>8. <<v.topic>> \o <<y.topic>> = <<v.topic, y.topic>>
  BY <1>3, Two, Zenon
<1> QED BY <1>2, <1>3, <1>4, <1>6, <1>7, <1>8

LEMMA PluginAnnounces ==
  ASSUME NEW p \in Plugins, NEW grant \in STRING, NEW args \in STRING
  PROVE  Will(PluginProgram(p, grant, args)) = PluginTopics
<1> DEFINE s == PluginProgram(p, grant, args)
           i1 == [op |-> "resolve", plugin |-> p, grant |-> grant]
           i2 == Pub("plugin.pre_execute")
           i3 == Emit("plugin.pre_execute")
           i4 == [op |-> "execute", plugin |-> p, grant |-> grant, args |-> args]
           i5 == Pub("plugin.post_execute")
           i6 == Emit("plugin.post_execute")
<1>1. /\ i1 \in Items /\ i2 \in Items /\ i3 \in Items /\ i4 \in Items /\ i5 \in Items
      /\ i6 \in Items /\ i1.op = "resolve" /\ i3.op = "emit" /\ i4.op = "execute"
      /\ i6.op = "emit" /\ Own(i2) /\ Own(i5)
      /\ i2.topic = "plugin.pre_execute" /\ i5.topic = "plugin.post_execute"
  BY PubIs, PublishingIs, EmitIs, PluginItems DEF Names, Pub
<1>2. s = <<i1, i2, i3, i4, i5, i6>>
  BY DEF PluginProgram
<1> HIDE DEF i1, i2, i3, i4, i5, i6, s
<1>3. Noise(i1) /\ Noise(i3) /\ Noise(i4) /\ Noise(i6)
  BY <1>1 DEF Noise, Own
<1>4. /\ s \in Seq(Items) /\ Len(s) = 6 /\ s[1] = i1 /\ s[2] = i2 /\ s[3] = i3
      /\ s[4] = i4 /\ s[5] = i5 /\ s[6] = i6
  <2>1. /\ i1 \in Items /\ i2 \in Items /\ i3 \in Items /\ i4 \in Items /\ i5 \in Items
        /\ i6 \in Items
    BY <1>1
  <2> QED BY <1>2, <2>1
<1>5. /\ Own(s[2]) /\ Own(s[5])
      /\ Noise(s[1]) /\ Noise(s[3]) /\ Noise(s[4]) /\ Noise(s[6])
  BY <1>1, <1>3, <1>4
<1>6. Will(s) = <<s[2].topic, s[5].topic>>
  BY <1>4, <1>5, WillOfSix
<1> QED BY <1>1, <1>4, <1>6 DEF s, PluginTopics

LEMMA StepAnnouncesTopics ==
  ASSUME NEW s \in Ask
  PROVE  Doomed(StepProgram(s)) \/ Will(StepProgram(s)) = StepTopics(s)
<1>1. Raise("workflow") \in Items /\ Raise("workflow").op = "raise"
  BY RaiseIs DEF Names
<1>2. Doomed(<<Raise("workflow")>>)
  BY <1>1, DoomedOne
<1>3. CASE s.kind = "event"
  <2> DEFINE x == Pub(s.target)
  <2>1. x \in Items /\ Own(x) /\ x.topic = s.target
    BY AskIs, PubIs, PublishingIs DEF Pub, Names
  <2>2. StepProgram(s) = <<x>> /\ StepTopics(s) = <<s.target>>
    BY <1>3 DEF StepProgram, StepTopics
  <2> HIDE DEF x
  <2> QED BY <2>1, <2>2, WillOfOne, ItemTopicsIs
<1>4. CASE s.kind = "agent"
  BY <1>4, AgentAnnounces DEF StepProgram, StepTopics
<1>5. CASE s.kind = "plugin"
  <2>1. s.target \in Plugins /\ s.grant \in STRING /\ s.args \in STRING
    BY <1>5, AskIs
  <2>2. StepProgram(s) = IF s.args = "notalist" THEN <<Raise("workflow")>>
                         ELSE PluginProgram(s.target, s.grant, s.args)
    BY <1>5 DEF StepProgram
  <2>3. StepTopics(s) = PluginTopics
    BY <1>5 DEF StepTopics
  <2> QED BY <1>2, <2>1, <2>2, <2>3, PluginAnnounces
<1>6. CASE s.kind = "noop"
  BY <1>6, WillOfNothing DEF StepProgram, StepTopics
<1>7. CASE s.kind \notin {"event", "agent", "plugin", "noop"}
  BY <1>2, <1>7 DEF StepProgram
<1> QED BY <1>3, <1>4, <1>5, <1>6, <1>7

LEMMA ProgramAnnounces ==
  ASSUME NEW a \in Ask, a.kind \in {"agent", "workflow", "plugin"}
  PROVE  Doomed(Program(a)) \/ Will(Program(a)) = Topics(a)
<1>1. CASE a.kind = "agent"
  BY <1>1, AgentAnnounces DEF Program, Topics
<1>2. CASE a.kind = "plugin"
  <2>1. a.target \in Plugins /\ a.grant \in STRING /\ a.args \in STRING
    BY <1>2, AskIs
  <2> QED BY <1>2, <2>1, PluginAnnounces DEF Program, Topics
<1>3. CASE a.kind = "workflow" /\ a.target \notin DOMAIN Workflows
  <2>1. Raise("workflow") \in Items /\ Raise("workflow").op = "raise"
    BY RaiseIs DEF Names
  <2>2. Doomed(<<Raise("workflow")>>)
    BY <2>1, DoomedOne
  <2> QED BY <1>3, <2>2 DEF Program, WorkflowProgram
<1>4. CASE a.kind = "workflow" /\ a.target \in DOMAIN Workflows
  <2> DEFINE w == Workflows[a.target]
             x == Pub("workflow.started")
             y == Steps(w)
             z == Pub("workflow.completed")
             t == StepsTopics(w)
  <2>1. w \in Seq(Ask)
    BY <1>4, PlatformAssumption
  <2>2. /\ x \in Items /\ y \in Items /\ z \in Items /\ Own(x) /\ Own(z)
        /\ y.op = "steps" /\ y.left = w
        /\ x.topic = "workflow.started" /\ z.topic = "workflow.completed"
    <3>1. x \in Items /\ Own(x) /\ x.topic = "workflow.started"
      BY PubIs, PublishingIs DEF Names, Pub
    <3>2. z \in Items /\ Own(z) /\ z.topic = "workflow.completed"
      BY PubIs, PublishingIs DEF Names, Pub
    <3>3. y \in Items /\ y.op = "steps" /\ y.left = w
      BY <2>1, StepsIs DEF Steps
    <3> QED BY <3>1, <3>2, <3>3
  <2>3. Program(a) = <<x, y, z>>
    BY <1>4 DEF Program, WorkflowProgram
  <2>4. Topics(a) = <<"workflow.started">> \o t \o <<"workflow.completed">>
    BY <1>4 DEF Topics
  <2> HIDE DEF w, x, y, z, t
  <2>5. /\ ItemTopics(x) = <<x.topic>> /\ ItemTopics(y) = t /\ ItemTopics(z) = <<z.topic>>
        /\ ItemTopics(x) \in Seq(Names) /\ ItemTopics(y) \in Seq(Names)
        /\ ItemTopics(z) \in Seq(Names)
    BY <2>2, ItemTopicsIs DEF t
  <2>6. Will(<<x, y, z>>) = ItemTopics(x) \o (ItemTopics(y) \o ItemTopics(z))
    BY <2>2, WillOfThree
  <2>7. ItemTopics(x) \o (ItemTopics(y) \o ItemTopics(z))
          = ItemTopics(x) \o ItemTopics(y) \o ItemTopics(z)
    BY <2>5, Regroup
  <2> QED BY <2>2, <2>3, <2>4, <2>5, <2>6, <2>7
<1> QED BY <1>1, <1>2, <1>3, <1>4

(* What takes the place of the steps of a workflow announces what they do.  *)
LEMMA StepsGoOn ==
  ASSUME NEW left \in Seq(Ask), left # <<>>,
         NEW a, a = <<Emit("workflow.before_step")>>,
         NEW b, b = StepProgram(Head(left)),
         NEW c, c = <<Emit("workflow.after_step"), Steps(Tail(left))>>
  PROVE  Doomed(a \o b \o c) \/ Will(a \o b \o c) = StepsTopics(left)
<1> DEFINE x == Emit("workflow.before_step")
           y == Emit("workflow.after_step")
           z == Steps(Tail(left))
<1>1. Head(left) \in Ask /\ Tail(left) \in Seq(Ask)
  OBVIOUS
<1>2. /\ x \in Items /\ y \in Items /\ z \in Items /\ x.op = "emit" /\ y.op = "emit"
      /\ z.op = "steps" /\ z.left = Tail(left)
  <2>1. x \in Items /\ y \in Items /\ x.op = "emit" /\ y.op = "emit"
    BY EmitIs DEF Names
  <2>2. z \in Items /\ z.op = "steps" /\ z.left = Tail(left)
    BY <1>1, StepsIs DEF Steps
  <2> QED BY <2>1, <2>2
<1>3. a = <<x>> /\ c = <<y, z>>
  OBVIOUS
<1> HIDE DEF x, y, z
<1>4. Noise(x) /\ Noise(y)
  BY <1>2 DEF Noise, Own
<1>5. a \in Seq(Items) /\ b \in Seq(Items) /\ c \in Seq(Items)
  BY <1>1, <1>2, <1>3, StepProgramIs DEF Blocks
<1>6. a \o b \in Seq(Items)
  BY <1>5, ConcatIs
<1>7. CASE Doomed(b)
  <2>1. Len(a) = 1 /\ a[1] = x
    BY <1>3
  <2>2. \A i \in 1..Len(a) : Noise(a[i])
    BY <1>4, <2>1
  <2>3. Doomed(a \o b)
    BY <1>5, <1>7, <2>2, DoomedGrows
  <2> QED BY <1>5, <1>6, <2>3, DoomedGrows
<1>8. CASE Will(b) = StepTopics(Head(left))
  <2>1. Will(a \o b \o c) = Will(a) \o Will(b) \o Will(c)
    <3>1. Will((a \o b) \o c) = Will(a \o b) \o Will(c)
      BY <1>5, <1>6, WillConcat
    <3>2. Will(a \o b) = Will(a) \o Will(b)
      BY <1>5, WillConcat
    <3> QED BY <3>1, <3>2
  <2>2. Will(a) = <<>>
    BY <1>2, <1>3, <1>4, WillOfOne, ItemTopicsIs
  <2>3. Will(c) = StepsTopics(Tail(left))
    <3>1. <<y, z>> = <<y>> \o <<z>>
      BY <1>2, Two, Zenon
    <3>2. <<y>> \in Seq(Items) /\ <<z>> \in Seq(Items)
      BY <1>2
    <3>3. Will(<<y>> \o <<z>>) = Will(<<y>>) \o Will(<<z>>)
      BY <3>2, WillConcat
    <3>4. Will(<<y>>) = <<>> /\ Will(<<z>>) = StepsTopics(Tail(left))
      BY <1>2, <1>4, WillOfOne, ItemTopicsIs
    <3>5. StepsTopics(Tail(left)) \in Seq(Names)
      BY <1>1, TopicsOfSteps
    <3>6. <<>> \o StepsTopics(Tail(left)) = StepsTopics(Tail(left))
      BY <3>5, ConcatEmptySeq
    <3> QED BY <1>3, <3>1, <3>3, <3>4, <3>6
  <2>4. Will(b) \in Seq(Names)
    BY <1>5, EachIs
  <2>5. <<>> \o Will(b) = Will(b)
    BY <2>4, ConcatEmptySeq
  <2>6. StepsTopics(left) = StepTopics(Head(left)) \o StepsTopics(Tail(left))
    BY TopicsOfSteps
  <2> QED BY <1>8, <2>1, <2>2, <2>3, <2>5, <2>6
<1>9. Doomed(b) \/ Will(b) = StepTopics(Head(left))
  BY <1>1, StepAnnouncesTopics
<1> QED BY <1>7, <1>8, <1>9

-----------------------------------------------------------------------------
(* The steps, told by what becomes of the list of the run.                  *)

RunsAfter(r, at, todo) ==
  /\ runs' \in [Runs -> Run] /\ runs'[r].at = at /\ runs'[r].todo = todo
  /\ \A q \in Runs \ {r} : runs'[q] = runs[q]

Goes(r, f) ==
  /\ runs[r].at = "busy" /\ runs[r].todo # <<>> /\ f \in Seq(Items)
  /\ RunsAfter(r, "busy", f \o Tail(runs[r].todo))

Publishes(r) ==
  /\ Item(r).op = "publish"
  /\ log' = Append(log, [run |-> r, topic |-> Item(r).topic, by |-> Item(r).by])
  /\ recent' = Newest(Append(recent, Len(log) + 1))
  /\ Goes(r, Calls(Item(r).topic, Len(log) + 1))
  /\ UNCHANGED seen

TurnsTo(r) ==
  /\ Item(r).op = "call"
  /\ seen' = IF Item(r).event = 0 THEN seen
             ELSE [seen EXCEPT ![Item(r).who] = Append(@, Item(r).event)]
  /\ Goes(r, <<Return(Item(r).who)>>)
  /\ UNCHANGED <<log, recent>>

(* What may take the place of an entry.                                     *)
Fits(x, f) ==
  IF x.op = "steps" THEN Doomed(f) \/ Will(f) = StepsTopics(x.left)
  ELSE \A i \in 1..Len(f) : Noise(f[i])

Moves(r) ==
  /\ Item(r).op \notin {"publish", "call", "raise"}
  /\ \E f \in Blocks :
       /\ Goes(r, f) /\ Fits(Item(r), f)
       /\ Inner(Item(r)) => \A i \in 1..Len(f) : Inner(f[i])
  /\ UNCHANGED <<log, recent, seen>>

Ends(r) ==
  /\ runs[r].at = "busy"
  /\ \/ RunsAfter(r, "failed", <<>>)
     \/ RunsAfter(r, "ok", <<>>) /\ runs[r].todo = <<>>
  /\ UNCHANGED <<log, recent, seen>>

LEMMA RunIs ==
  ASSUME Typed, NEW r \in Runs
  PROVE  /\ runs[r] \in Run /\ runs[r].todo \in Seq(Items)
         /\ runs[r].at \in {"idle", "busy", "ok", "failed"}
         /\ runs[r].todo # <<>> => Item(r) \in Items
BY DEF Typed, Run, Item

LEMMA GoesOnGoes ==
  ASSUME Typed, NEW r \in Runs, NEW f \in Seq(Items), NEW next,
         runs[r].at = "busy", runs[r].todo # <<>>, GoesOn(r, f \o Rest(r), next)
  PROVE  Goes(r, f)
<1> DEFINE todo == f \o Tail(runs[r].todo)
<1>1. todo \in Seq(Items)
  BY RunIs, Spliced
<1>2. runs' = [runs EXCEPT ![r].todo = todo]
  BY DEF GoesOn, Rest
<1> HIDE DEF todo
<1>3. RunsAfter(r, "busy", todo)
  BY <1>1, <1>2 DEF Typed, Run, RunsAfter
<1> QED BY <1>3 DEF Goes, todo

LEMMA RestGoes ==
  ASSUME Typed, NEW r \in Runs, NEW next,
         runs[r].at = "busy", runs[r].todo # <<>>, GoesOn(r, Rest(r), next)
  PROVE  Goes(r, <<>>)
<1>1. Rest(r) \in Seq(Items)
  BY RunIs DEF Rest
<1>2. <<>> \o Rest(r) = Rest(r) /\ <<>> \in Seq(Items)
  BY <1>1, ConcatEmptySeq, EmptySeq
<1> QED BY <1>2, GoesOnGoes

LEMMA FailsEnds ==
  ASSUME Typed, NEW r \in Runs, NEW error \in Names, Fails(r, error)
  PROVE  RunsAfter(r, "failed", <<>>)
<1> DEFINE new == [at |-> "failed", error |-> error, todo |-> <<>>]
<1>1. new \in Run /\ new.at = "failed" /\ new.todo = <<>>
  <2>1. <<>> \in Seq(Items)
    BY EmptySeq
  <2> QED BY <2>1 DEF Run
<1>2. runs' = [runs EXCEPT ![r] = new]
  BY DEF Fails
<1> HIDE DEF new
<1> QED BY <1>1, <1>2 DEF Typed, RunsAfter

LEMMA StepIs ==
  ASSUME Typed, NEW r \in Runs, Step(r)
  PROVE  /\ runs[r].at = "busy"
         /\ UNCHANGED <<asked, files, boot, read, subs, moved>>
         /\ Publishes(r) \/ TurnsTo(r) \/ Moves(r) \/ Ends(r)
<1>1. runs[r].at = "busy" /\ UNCHANGED <<asked, files, boot, read, subs, moved>>
  BY DEF Step, Publish, CallHandler, HandlerEnds, EmitPoint, NextStep, Resolve, ExecutePlugin,
         HandleAgent, RaiseError, Finish, At, registry, input
<1>2. runs[r].todo # <<>> => Item(r) \in Items
  BY RunIs
<1>3. CASE Publish(r)
  <2> DEFINE f == Calls(Item(r).topic, Len(log) + 1)
  <2>1. /\ Item(r).op = "publish" /\ runs[r].todo # <<>>
        /\ log' = Append(log, [run |-> r, topic |-> Item(r).topic, by |-> Item(r).by])
        /\ recent' = Newest(Append(recent, Len(log) + 1))
        /\ GoesOn(r, f \o Rest(r), r) /\ seen' = seen
    BY <1>3 DEF Publish, At
  <2>2. f \in Seq(Items)
    <3>1. Len(log) + 1 \in Nat
      BY DEF Typed
    <3> QED BY <3>1, CalledIs, CallList DEF Calls
  <2>3. Goes(r, f)
    BY <1>1, <2>1, <2>2, GoesOnGoes
  <2> QED BY <1>1, <2>1, <2>3 DEF Publishes
<1>4. CASE CallHandler(r)
  <2> DEFINE f == <<Return(Item(r).who)>>
  <2>1. /\ Item(r).op = "call" /\ runs[r].todo # <<>>
        /\ seen' = IF Item(r).event = 0 THEN seen
                   ELSE [seen EXCEPT ![Item(r).who] = Append(@, Item(r).event)]
        /\ \E next : GoesOn(r, f \o Rest(r), next)
        /\ UNCHANGED <<log, recent>>
    BY <1>4 DEF CallHandler, At, bus
  <2>2. f \in Seq(Items)
    BY <1>2, <2>1, Kinds, ReturnIs
  <2>3. Goes(r, f)
    BY <1>1, <2>1, <2>2, GoesOnGoes
  <2> QED BY <1>1, <2>1, <2>3 DEF TurnsTo
<1>5. CASE HandlerEnds(r)
  <2> DEFINE h == Item(r).who
             x == Publishing(EchoTopic, h)
  <2>1. Item(r).op = "return" /\ runs[r].todo # <<>> /\ UNCHANGED <<log, recent, seen>>
    BY <1>5 DEF HandlerEnds, At, bus
  <2>2. h \in Handlers
    BY <1>2, <2>1, Kinds
  <2>3. CASE GoesOn(r, <<x>> \o Rest(r), r)
    <3>1. x \in Items /\ x.op = "publish" /\ x.by = h
      <4>1. EchoTopic \in Names /\ h \in Handlers \cup {"run"}
        BY <2>2 DEF Names
      <4> QED BY <4>1, PublishingIs
    <3> HIDE DEF x
    <3>2. <<x>> \in Blocks /\ <<x>> \in Seq(Items)
      BY <3>1, OneItem
    <3>3. Goes(r, <<x>>)
      BY <1>1, <2>1, <2>3, <3>2, GoesOnGoes
    <3>4. \A i \in 1..Len(<<x>>) : Inner(<<x>>[i])
      BY <2>2, <3>1, PlatformAssumption DEF Inner
    <3>5. Len(<<x>>) = 1 /\ <<x>>[1] = x /\ Noise(x)
      BY <2>2, <3>1, PlatformAssumption DEF Noise, Own
    <3>6. Fits(Item(r), <<x>>)
      BY <2>1, <3>5 DEF Fits
    <3> QED BY <1>1, <2>1, <3>2, <3>3, <3>4, <3>6 DEF Moves
  <2>4. CASE GoesOn(r, Rest(r), r)
    <3>1. Goes(r, <<>>)
      BY <1>1, <2>1, <2>4, RestGoes
    <3>2. Len(<<>>) = 0
      OBVIOUS
    <3>3. Fits(Item(r), <<>>)
      BY <2>1, <3>2 DEF Fits
    <3> QED BY <1>1, <2>1, <3>1, <3>2, <3>3, NoItem DEF Moves
  <2>5. CASE Fails(r, "other")
    BY <1>1, <2>1, <2>5, FailsEnds DEF Ends, Names
  <2> QED BY <1>5, <2>3, <2>4, <2>5 DEF HandlerEnds
<1>6. CASE EmitPoint(r)
  <2> DEFINE hooks == IF Item(r).point \in DOMAIN Hooked THEN Hooked[Item(r).point] ELSE <<>>
             f == [i \in 1..Len(hooks) |-> Call(hooks[i], 0)]
  <2>1. /\ Item(r).op = "emit" /\ runs[r].todo # <<>> /\ UNCHANGED <<log, recent, seen>>
        /\ GoesOn(r, f \o Rest(r), r)
    BY <1>6 DEF EmitPoint, At, bus
  <2>2. hooks \in Seq(Handlers)
    BY PlatformAssumption
  <2> HIDE DEF hooks
  <2>3. f \in Seq(Items) /\ \A i \in 1..Len(f) : f[i].op = "call" /\ f[i].event = 0
    <3>1. f \in Seq(Items) /\ Len(f) = Len(hooks) /\ \A i \in 1..Len(hooks) : hooks[i] \in Handlers
      BY <2>2, CallList
    <3>2. \A i \in 1..Len(hooks) : Call(hooks[i], 0).op = "call" /\ Call(hooks[i], 0).event = 0
      BY <3>1, CallIs
    <3> QED BY <3>1, <3>2
  <2> HIDE DEF f
  <2>4. f \in Blocks
    BY <2>3 DEF Blocks, Tested, Silent
  <2>5. Goes(r, f)
    BY <1>1, <2>1, <2>3, GoesOnGoes
  <2>6. Fits(Item(r), f)
    <3>1. \A i \in 1..Len(f) : Noise(f[i])
      BY <2>3 DEF Noise, Own
    <3> QED BY <2>1, <3>1 DEF Fits
  <2> QED BY <1>1, <2>1, <2>4, <2>5, <2>6 DEF Moves, Inner
<1>7. CASE NextStep(r)
  <2> DEFINE left == Item(r).left
             a == <<Emit("workflow.before_step")>>
             b == StepProgram(Head(left))
             c == <<Emit("workflow.after_step"), Steps(Tail(left))>>
  <2>1. /\ Item(r).op = "steps" /\ runs[r].todo # <<>> /\ UNCHANGED <<log, recent, seen>>
        /\ GoesOn(r, IF left = <<>> THEN Rest(r) ELSE a \o b \o c \o Rest(r), r)
    BY <1>7 DEF NextStep, At, bus
  <2>2. left \in Seq(Ask)
    BY <1>2, <2>1, Kinds
  <2>3. CASE left = <<>>
    <3>1. Goes(r, <<>>)
      BY <1>1, <2>1, <2>3, RestGoes
    <3>2. Len(<<>>) = 0
      OBVIOUS
    <3>3. Fits(Item(r), <<>>)
      BY <2>1, <2>2, <2>3, WillOfNothing, TopicsOfSteps DEF Fits
    <3> QED BY <1>1, <2>1, <3>1, <3>2, <3>3, NoItem DEF Moves
  <2>4. CASE left # <<>>
    <3>1. Head(left) \in Ask /\ Tail(left) \in Seq(Ask)
      BY <2>2, <2>4
    <3>2. b \in Blocks
      BY <3>1, StepProgramIs
    <3>3. a \in Blocks
      BY EmitIs, OneItem DEF Names
    <3>4. c \in Blocks
      <4> DEFINE x == Emit("workflow.after_step")
                 y == Steps(Tail(left))
      <4>1. x \in Items /\ y \in Items /\ x.op = "emit" /\ y.op = "steps"
        BY <3>1, EmitIs, StepsIs DEF Names
      <4>2. c = <<x, y>>
        OBVIOUS
      <4> HIDE DEF x, y
      <4>3. /\ <<x, y>> \in Seq(Items) /\ Len(<<x, y>>) = 2
            /\ \A i \in 1..2 : <<x, y>>[i].op \in {"emit", "steps"}
        BY <4>1
      <4> QED BY <4>2, <4>3 DEF Blocks, Tested, Silent
    <3> DEFINE f == a \o b \o c
    <3>8. Doomed(f) \/ Will(f) = StepsTopics(left)
      BY <2>2, <2>4, StepsGoOn
    <3> HIDE DEF a, b, c
    <3>5. f \in Blocks
      BY <3>2, <3>3, <3>4, Joined
    <3>6. GoesOn(r, f \o Rest(r), r)
      BY <2>1, <2>4
    <3> HIDE DEF f
    <3>7. Goes(r, f)
      BY <1>1, <2>1, <3>5, <3>6, GoesOnGoes DEF Blocks
    <3>9. Fits(Item(r), f)
      BY <2>1, <3>8 DEF Fits
    <3> QED BY <1>1, <2>1, <3>5, <3>7, <3>9 DEF Moves, Inner
  <2> QED BY <2>3, <2>4
<1>8. CASE Resolve(r) \/ ExecutePlugin(r) \/ HandleAgent(r)
  <2>1. /\ Item(r).op \in {"resolve", "execute", "handle"} /\ runs[r].todo # <<>>
        /\ UNCHANGED <<log, recent, seen>>
        /\ \/ \E next : GoesOn(r, Rest(r), next)
           \/ \E error \in {"plugin", "other"} : Fails(r, error)
    BY <1>8 DEF Resolve, ExecutePlugin, HandleAgent, At, bus
  <2>2. CASE \E next : GoesOn(r, Rest(r), next)
    <3>1. Goes(r, <<>>)
      BY <1>1, <2>1, <2>2, RestGoes
    <3>2. Len(<<>>) = 0
      OBVIOUS
    <3>3. Fits(Item(r), <<>>)
      BY <2>1, <3>2 DEF Fits
    <3> QED BY <1>1, <2>1, <3>1, <3>2, <3>3, NoItem DEF Moves
  <2>3. CASE \E error \in {"plugin", "other"} : Fails(r, error)
    BY <1>1, <2>1, <2>3, FailsEnds DEF Ends, Names
  <2> QED BY <2>1, <2>2, <2>3
<1>9. CASE RaiseError(r)
  <2>1. /\ Item(r).op = "raise" /\ runs[r].todo # <<>> /\ UNCHANGED <<log, recent, seen>>
        /\ Fails(r, Item(r).error)
    BY <1>9 DEF RaiseError, At, bus
  <2>2. Item(r).error \in Names
    BY <1>2, <2>1, Kinds
  <2> QED BY <1>1, <2>1, <2>2, FailsEnds DEF Ends
<1>10. CASE Finish(r)
  <2>1. /\ runs[r].todo = <<>> /\ runs' = [runs EXCEPT ![r].at = "ok"]
        /\ UNCHANGED <<log, recent, seen>>
    BY <1>10 DEF Finish, bus
  <2>2. RunsAfter(r, "ok", <<>>)
    BY <2>1 DEF Typed, Run, RunsAfter
  <2> QED BY <1>1, <2>1, <2>2 DEF Ends
<1> QED BY <1>1, <1>3, <1>4, <1>5, <1>6, <1>7, <1>8, <1>9, <1>10 DEF Step

LEMMA BeginIs ==
  ASSUME Typed, NEW r \in Runs, Begin(r)
  PROVE  /\ runs[r].at = "idle" /\ boot = "up"
         /\ UNCHANGED <<asked, files, boot, read, manifests, subs, log, recent, seen, executed, moved>>
         /\ \E f \in Blocks :
              /\ Announces(f) /\ RunsAfter(r, "busy", f)
              /\ Doomed(f) \/ Will(f) = Topics(asked[r])
<1> DEFINE f == Program(asked[r])
           new == [at |-> "busy", error |-> "none", todo |-> f]
<1>1. /\ runs[r].at = "idle" /\ boot = "up" /\ runs' = [runs EXCEPT ![r] = new]
      /\ UNCHANGED <<asked, files, boot, read, manifests, subs, log, recent, seen, executed, moved>>
  BY DEF Begin, registry, input, bus
<1>2. f \in Blocks /\ Announces(f) /\ f \in Seq(Items)
  BY ProgramIs DEF Typed, Blocks
<1>5. Doomed(f) \/ Will(f) = Topics(asked[r])
  BY ProgramAnnounces DEF Typed
<1> HIDE DEF f
<1>3. new \in Run /\ new.at = "busy" /\ new.todo = f
  BY <1>2 DEF Run, Names
<1> HIDE DEF new
<1>4. RunsAfter(r, "busy", f)
  BY <1>1, <1>3 DEF Typed, RunsAfter
<1> QED BY <1>1, <1>2, <1>4, <1>5

LEMMA InitTyped == Init => Typed
<1> SUFFICES ASSUME Init PROVE Typed
  OBVIOUS
<1>1. PICK i \in Inputs : asked = i.asked /\ files = i.files
  BY DEF Init
<1>2. /\ asked \in [Runs -> Ask] /\ files \subseteq Files
      /\ \A r \in Runs : asked[r].kind \in {"agent", "workflow", "plugin"}
  BY <1>1, PlatformAssumption
<1>3. runs \in [Runs -> Run] /\ \A r \in Runs : runs[r].at = "idle"
  <2>1. [at |-> "idle", error |-> "none", todo |-> <<>>] \in Run
    <3>1. <<>> \in Seq(Items)
      OBVIOUS
    <3> QED BY <3>1 DEF Run, Names
  <2> QED BY <2>1 DEF Init
<1>4. log \in Seq(Published) /\ seen \in [Handlers -> Seq(Nat)]
  <2>1. <<>> \in Seq(Published) /\ <<>> \in Seq(Nat)
    OBVIOUS
  <2> QED BY <2>1 DEF Init
<1>5. subs \in [DOMAIN Subscribed -> Seq(Handlers)]
  BY PlatformAssumption DEF Init
<1> QED BY <1>2, <1>3, <1>4, <1>5 DEF Init, Typed

(* A subscriber that is taken from a list: the others stay.                 *)
LEMMA RemoveFirstKeeps ==
  ASSUME NEW S, NEW s \in Seq(S), NEW e
  PROVE  /\ RemoveFirst(s, e) \in Seq(S)
         /\ \A x \in S \ {e} : Contains(s, x) => Contains(RemoveFirst(s, e), x)
<1>1. CASE ~ \E i \in 1..Len(s) : s[i] = e
  BY <1>1 DEF RemoveFirst
<1>2. CASE \E i \in 1..Len(s) : s[i] = e
  <2> DEFINE I == {i \in 1..Len(s) : s[i] = e}
             k == Min(I)
             a == SubSeq(s, 1, k - 1)
             b == SubSeq(s, k + 1, Len(s))
  <2>1. SelectInSeq(s, LAMBDA v : v = e) = k
    BY <1>2 DEF SelectInSeq
  <2>2. RemoveFirst(s, e) = a \o b
    BY <1>2, <2>1 DEF RemoveFirst, RemoveAt
  <2>3. k \in I
    <3>1. I \subseteq Nat /\ I # {}
      BY <1>2
    <3> HIDE DEF I
    <3>2. \E n \in I : \A m \in I : n <= m
      BY <3>1, LeastNat
    <3> QED BY <3>2 DEF Min
  <2>4. k \in 1..Len(s) /\ s[k] = e /\ Len(s) \in Nat
    BY <2>3
  <2> HIDE DEF k, I
  <2>5. /\ a \in Seq(S) /\ Len(a) = k - 1 /\ \A i \in 1..(k - 1) : a[i] = s[i]
        /\ b \in Seq(S) /\ Len(b) = Len(s) - k /\ \A i \in 1..(Len(s) - k) : b[i] = s[k + i]
    <3>1. /\ a \in Seq(S) /\ Len(a) = k - 1 /\ \A i \in 1..(k - 1) : a[i] = s[i]
      BY <2>4
    <3>2. b \in Seq(S) /\ Len(b) = Len(s) - k /\ \A i \in 1..(Len(s) - k) : b[i] = s[k + i]
      BY <2>4
    <3> QED BY <3>1, <3>2
  <2> HIDE DEF a, b
  <2>6. /\ a \o b \in Seq(S) /\ Len(a \o b) = Len(a) + Len(b)
        /\ \A i \in 1..Len(a) : (a \o b)[i] = a[i]
        /\ \A i \in 1..Len(b) : (a \o b)[Len(a) + i] = b[i]
    <3>1. a \in Seq(S) /\ b \in Seq(S)
      BY <2>5
    <3> QED BY <3>1, ConcatIs
  <2>7. ASSUME NEW x \in S \ {e}, Contains(s, x) PROVE Contains(a \o b, x)
    <3>1. PICK i \in 1..Len(s) : s[i] = x
      BY <2>7 DEF Contains
    <3>2. CASE i < k
      <4>1. i \in 1..(k - 1) /\ Len(a) = k - 1 /\ Len(b) \in Nat /\ Len(a) \in Nat
        BY <2>4, <2>5, <3>1, <3>2
      <4>2. a[i] = x
        BY <2>5, <3>1, <4>1
      <4>3. i \in 1..Len(a \o b)
        BY <2>6, <4>1
      <4>4. (a \o b)[i] = x
        BY <2>6, <4>1, <4>2
      <4> QED BY <4>3, <4>4 DEF Contains
    <3>3. CASE i > k
      <4> DEFINE j == i - k
      <4>1. j \in 1..Len(b) /\ k + j = i /\ j \in 1..(Len(s) - k)
        BY <2>4, <2>5, <3>3
      <4> HIDE DEF j
      <4>2. b[j] = x
        BY <2>5, <3>1, <4>1
      <4>3. Len(a) + j \in 1..Len(a \o b) /\ (a \o b)[Len(a) + j] = x
        BY <2>4, <2>5, <2>6, <4>1, <4>2
      <4> QED BY <4>3 DEF Contains
    <3> QED BY <2>4, <2>7, <3>1, <3>2, <3>3
  <2> QED BY <2>2, <2>6, <2>7
<1> QED BY <1>1, <1>2

LEMMA MovingIs ==
  ASSUME Typed, NEW t \in DOMAIN Subscribed, NEW h \in Handlers,
         Subscribe(t, h) \/ Unsubscribe(t, h)
  PROVE  /\ subs' \in [DOMAIN Subscribed -> Seq(Handlers)] /\ moved' = moved \cup {<<t, h>>}
         /\ \A u \in DOMAIN Subscribed, g \in Handlers :
              <<u, g>> # <<t, h>> /\ Contains(subs[u], g) => Contains(subs'[u], g)
         /\ UNCHANGED <<asked, files, boot, read, manifests, log, recent, runs, seen, executed>>
<1>1. /\ moved' = moved \cup {<<t, h>>}
      /\ UNCHANGED <<asked, files, boot, read, manifests, log, recent, runs, seen, executed>>
      /\ \/ subs' = [subs EXCEPT ![t] = Append(@, h)]
         \/ subs' = [subs EXCEPT ![t] = RemoveFirst(@, h)]
  BY DEF Subscribe, Unsubscribe, registry, input, bus
<1>2. subs[t] \in Seq(Handlers)
  BY DEF Typed
<1>3. CASE subs' = [subs EXCEPT ![t] = Append(@, h)]
  <2> DEFINE s == subs[t]
             new == Append(s, h)
  <2>1. new \in Seq(Handlers) /\ \A g \in Handlers : Contains(s, g) => Contains(new, g)
    <3>1. s \in Seq(Handlers)
      BY <1>2
    <3> HIDE DEF s
    <3>2. /\ new \in Seq(Handlers) /\ Len(new) = Len(s) + 1 /\ Len(s) \in Nat
          /\ \A i \in 1..Len(s) : new[i] = s[i]
      BY <3>1
    <3> HIDE DEF new
    <3>3. 1..Len(s) \subseteq 1..Len(new)
      BY <3>2
    <3> QED BY <3>2, <3>3 DEF Contains
  <2>2. subs' = [subs EXCEPT ![t] = new]
    BY <1>3
  <2> HIDE DEF new
  <2>3. subs' \in [DOMAIN Subscribed -> Seq(Handlers)]
    BY <2>1, <2>2 DEF Typed
  <2>4. \A u \in DOMAIN Subscribed, g \in Handlers : Contains(subs[u], g) => Contains(subs'[u], g)
    BY <2>1, <2>2 DEF Typed
  <2> QED BY <1>1, <2>3, <2>4
<1>4. CASE subs' = [subs EXCEPT ![t] = RemoveFirst(@, h)]
  <2> DEFINE new == RemoveFirst(subs[t], h)
  <2>1. /\ new \in Seq(Handlers)
        /\ \A g \in Handlers \ {h} : Contains(subs[t], g) => Contains(new, g)
    BY <1>2, RemoveFirstKeeps
  <2>2. subs' = [subs EXCEPT ![t] = new]
    BY <1>4
  <2> HIDE DEF new
  <2>3. subs' \in [DOMAIN Subscribed -> Seq(Handlers)]
    BY <2>1, <2>2 DEF Typed
  <2>4. ASSUME NEW u \in DOMAIN Subscribed, NEW g \in Handlers,
               <<u, g>> # <<t, h>>, Contains(subs[u], g)
        PROVE  Contains(subs'[u], g)
    <3>1. CASE u = t
      BY <3>1, <2>1, <2>2, <2>4 DEF Typed
    <3>2. CASE u # t
      BY <3>2, <2>2, <2>4 DEF Typed
    <3> QED BY <3>1, <3>2
  <2> QED BY <1>1, <2>3, <2>4
<1> QED BY <1>1, <1>3, <1>4

LEMMA BootIs ==
  ASSUME Typed, Boot
  PROVE  /\ boot = "files" /\ read' \subseteq files /\ boot' \in {"files", "up", "dead"}
         /\ DOMAIN manifests' = Plugins
         /\ UNCHANGED <<asked, files, subs, log, recent, runs, seen, executed, moved>>
BY DEF Boot, RegisterSdk, Discover, input, bus, Typed

LEMMA StepTyped ==
  ASSUME Typed, NEW r \in Runs, Step(r)
  PROVE  Typed'
<1>1. /\ runs[r].at = "busy" /\ UNCHANGED <<asked, files, boot, read, subs, moved>>
      /\ Publishes(r) \/ TurnsTo(r) \/ Moves(r) \/ Ends(r)
  BY StepIs
<1>2. DOMAIN manifests' = Plugins
  BY DEF Typed, Step, Publish, CallHandler, HandlerEnds, EmitPoint, NextStep, Resolve,
         ExecutePlugin, HandleAgent, RaiseError, Finish, registry
<1>3. runs' \in [Runs -> Run] /\ \A q \in Runs : runs'[q].at # "idle" => boot = "up"
  <2>1. PICK at, todo : RunsAfter(r, at, todo)
    BY <1>1 DEF Publishes, TurnsTo, Moves, Ends, Goes
  <2> QED BY <1>1, <2>1 DEF RunsAfter, Typed
<1>4. log' \in Seq(Published) /\ seen' \in [Handlers -> Seq(Nat)]
  <2>1. CASE Publishes(r)
    <3>1. Item(r).topic \in Names /\ Item(r).by \in Handlers \cup {"run"}
      BY <2>1, RunIs, Kinds DEF Publishes, Goes
    <3> DEFINE new == [run |-> r, topic |-> Item(r).topic, by |-> Item(r).by]
    <3>2. new \in Published
      BY <3>1 DEF Published
    <3> HIDE DEF new
    <3>3. log' = Append(log, new) /\ seen' = seen
      BY <2>1 DEF Publishes, new
    <3> QED BY <3>2, <3>3 DEF Typed
  <2>2. CASE TurnsTo(r)
    <3>1. Item(r).who \in Handlers /\ Item(r).event \in Nat
      BY <2>2, RunIs, Kinds DEF TurnsTo, Goes
    <3>2. \A h \in Handlers : Append(seen[h], Item(r).event) \in Seq(Nat)
      BY <3>1 DEF Typed
    <3> QED BY <2>2, <3>1, <3>2 DEF TurnsTo, Typed
  <2>3. CASE Moves(r) \/ Ends(r)
    BY <2>3 DEF Moves, Ends, Typed
  <2> QED BY <1>1, <2>1, <2>2, <2>3
<1> QED BY <1>1, <1>2, <1>3, <1>4 DEF Typed

LEMMA NextTyped == Typed /\ [Next]_vars => Typed'
<1> SUFFICES ASSUME Typed, [Next]_vars PROVE Typed'
  OBVIOUS
<1>1. CASE Boot
  <2>1. \A r \in Runs : runs[r].at = "idle"
    BY <1>1, BootIs DEF Typed
  <2> QED BY <1>1, <2>1, BootIs DEF Typed
<1>2. ASSUME NEW t \in DOMAIN Subscribed, NEW h \in Handlers, Subscribe(t, h) \/ Unsubscribe(t, h)
      PROVE  Typed'
  BY <1>2, MovingIs DEF Typed
<1>3. ASSUME NEW r \in Runs, Begin(r) PROVE Typed'
  BY <1>3, BeginIs DEF Typed, RunsAfter
<1>4. ASSUME NEW r \in Runs, Step(r) PROVE Typed'
  BY <1>4, StepTyped
<1>5. CASE UNCHANGED vars
  BY <1>5 DEF vars, registry, input, bus, Typed
<1> QED BY <1>1, <1>2, <1>3, <1>4, <1>5 DEF Next

-----------------------------------------------------------------------------
(* Permissions.                                                             *)

(* What a manifest grants is granted in the sense of the property.          *)
LEMMA PermittedIsGranted ==
  ASSUME Typed, ManifestsSound, boot = "up",
         NEW p \in Plugins, NEW g \in STRING, g \in manifests[p],
         p \in DOMAIN Sdk \/ (Enabled /\ p \in Allowlist \cap Runnable)
  PROVE  Granted(p, g)
<1>1. CASE p \in DOMAIN Sdk
  BY <1>1 DEF ManifestsSound, Granted
<1>2. CASE p \notin DOMAIN Sdk
  <2> DEFINE filed == Filed(p, files)
             last == IF \A f \in filed : f.flat THEN filed ELSE {f \in filed : ~f.flat}
  <2>1. Granted(p, g) <=>
          /\ Enabled /\ p \in Allowlist \cap Runnable
          /\ IF filed = {} THEN g = Execute ELSE \E f \in last : g \in f.grants
    BY <1>2 DEF Granted, Filed
  <2>2. g # None
    BY PlatformAssumption
  <2>3. CASE filed = {} /\ manifests[p] \in {NoManifest, {Execute}}
    BY <1>2, <2>1, <2>2, <2>3 DEF NoManifest
  <2>4. CASE \E f \in filed : manifests[p] = f.grants /\ Newer(f, filed)
    <3>1. PICK f \in filed : manifests[p] = f.grants /\ Newer(f, filed)
      BY <2>4
    <3>2. f \in last
      BY <3>1 DEF Newer
    <3> QED BY <1>2, <2>1, <3>1, <3>2
  <2> QED BY <1>2, <2>3, <2>4 DEF ManifestsSound
<1> QED BY <1>1, <1>2

LEMMA DiscoverSound ==
  ASSUME Typed, ManifestsSound, NEW f \in Files, Discover(f)
  PROVE  ManifestsSound'
<1>1. /\ boot = "files" /\ f \in files \ read /\ (~f.flat => \A g \in files \ read : ~g.flat)
      /\ read' = read \cup {f} /\ boot' \in {"files", "dead"}
      /\ boot' = "files" => f.named
      /\ manifests' = IF f.named /\ f.semver THEN [manifests EXCEPT ![f.plugin] = f.grants]
                      ELSE manifests
      /\ files' = files
  BY DEF Discover, input
<1>2. f.plugin \in Plugins
  BY PlatformAssumption DEF ManifestFile
<1>3. (\E g \in read' : ~g.flat) => \A g \in files : g.flat => g \in read'
  <2>1. CASE f.flat
    BY <1>1, <2>1 DEF ManifestsSound
  <2>2. CASE ~f.flat
    BY <1>1, <2>2
  <2> QED BY <2>1, <2>2
<1>4. ASSUME NEW p \in Plugins, boot' = "files"
      PROVE  \/ Filed(p, read') = {} /\ manifests'[p] = NoManifest
             \/ \E h \in Filed(p, read') : manifests'[p] = h.grants /\ Newer(h, Filed(p, read'))
  <2>1. CASE f.semver /\ f.plugin = p
    <3>1. f \in Filed(p, read') /\ manifests'[p] = f.grants
      BY <1>1, <1>2, <1>4, <2>1 DEF Filed, Typed
    <3>2. f.flat => \A g \in Filed(p, read') : g.flat
      BY <1>1 DEF ManifestsSound, Filed
    <3> QED BY <3>1, <3>2 DEF Newer
  <2>2. CASE ~(f.semver /\ f.plugin = p)
    <3>1. Filed(p, read') = Filed(p, read) /\ manifests'[p] = manifests[p]
      BY <1>1, <2>2 DEF Filed, Typed
    <3> QED BY <1>1, <3>1 DEF ManifestsSound
  <2> QED BY <2>1, <2>2
<1> QED BY <1>1, <1>3, <1>4 DEF ManifestsSound

LEMMA RegisterSound ==
  ASSUME Typed, ManifestsSound, RegisterSdk
  PROVE  ManifestsSound'
<1>1. /\ boot = "files" /\ read = files /\ boot' = "up" /\ UNCHANGED <<files, read>>
      /\ manifests' = [p \in Plugins |-> IF p \in DOMAIN Sdk THEN Sdk[p] ELSE manifests[p]]
  BY DEF RegisterSdk, input, Grants
<1>2. ASSUME NEW p \in Plugins
      PROVE  \/ p \in DOMAIN Sdk /\ manifests'[p] = Sdk[p]
             \/ /\ p \notin DOMAIN Sdk /\ Filed(p, files) = {}
                /\ manifests'[p] \in {NoManifest, {Execute}}
             \/ /\ p \notin DOMAIN Sdk
                /\ \E f \in Filed(p, files) : manifests'[p] = f.grants /\ Newer(f, Filed(p, files))
  BY <1>1 DEF ManifestsSound
<1> QED BY <1>1, <1>2 DEF ManifestsSound

(* A run changes a manifest only where there is none: the legacy one.       *)
LEMMA ResolveIs ==
  ASSUME Typed, ManifestsSound, NEW r \in Runs, Resolve(r)
  PROVE  /\ ManifestsSound'
         /\ \A p \in Plugins, g \in STRING : g \in manifests[p] => g \in manifests'[p]
         /\ runs[r].todo # <<>> /\ Item(r).op = "resolve"
         /\ Permits(manifests', Item(r)) \/ Fails(r, "plugin")
<1> DEFINE p == Item(r).plugin
           g == Item(r).grant
           found == IF Grants(p) # NoManifest THEN Grants(p)
                    ELSE IF p \in Allowlist THEN {Execute} ELSE NoManifest
<1>1. /\ runs[r].at = "busy" /\ runs[r].todo # <<>> /\ Item(r).op = "resolve"
      /\ manifests' = [manifests EXCEPT ![p] = found]
      /\ (g \in found) \/ Fails(r, "plugin")
      /\ UNCHANGED <<files, boot, read>>
  BY DEF Resolve, At, input
<1>2. p \in Plugins /\ boot = "up" /\ DOMAIN manifests = Plugins
  BY <1>1, RunIs, Kinds DEF Typed
<1>3. Permits(manifests', Item(r)) <=> g \in manifests'[p]
  BY DEF Permits
<1> HIDE DEF p, g
<1>4. \/ found = manifests[p]
      \/ manifests[p] = NoManifest /\ found = {Execute}
  BY DEF Grants
<1> HIDE DEF found
<1>5. manifests'[p] = found /\ \A q \in Plugins \ {p} : manifests'[q] = manifests[q]
  BY <1>1, <1>2
<1>6. \A q \in Plugins, x \in STRING : x \in manifests[q] => x \in manifests'[q]
  BY <1>4, <1>5, PlatformAssumption DEF NoManifest
<1>7. ASSUME NEW q \in Plugins
      PROVE  \/ q \in DOMAIN Sdk /\ manifests'[q] = Sdk[q]
             \/ /\ q \notin DOMAIN Sdk /\ Filed(q, files) = {}
                /\ manifests'[q] \in {NoManifest, {Execute}}
             \/ /\ q \notin DOMAIN Sdk
                /\ \E f \in Filed(q, files) : manifests'[q] = f.grants /\ Newer(f, Filed(q, files))
  <2>1. CASE manifests'[q] = manifests[q]
    BY <1>2, <2>1 DEF ManifestsSound
  <2>2. CASE q = p /\ manifests[p] = NoManifest /\ found = {Execute}
    <3>1. q \notin DOMAIN Sdk \/ Sdk[q] # NoManifest
      BY PlatformAssumption DEF NoManifest
    <3>2. \A f \in Filed(q, files) : f.grants # NoManifest
      BY PlatformAssumption DEF NoManifest, ManifestFile, Filed, Typed
    <3> QED BY <1>2, <1>5, <2>2, <3>1, <3>2 DEF ManifestsSound
  <2> QED BY <1>4, <1>5, <2>1, <2>2
<1>8. ManifestsSound'
  BY <1>1, <1>2, <1>7 DEF ManifestsSound
<1> QED BY <1>1, <1>3, <1>5, <1>6, <1>8

(* The rest of a list stays guarded when its first entry is done with, the  *)
(* test of a permission having succeeded, and a block is put before it.     *)
LEMMA GuardedAfter ==
  ASSUME NEW s \in Seq(Items), s # <<>>, NEW f \in Seq(Items), Tested(f), NEW m, NEW n,
         Guarded(s, m), Head(s).op = "resolve" => Permits(n, Head(s)),
         \A p \in Plugins, g \in STRING : g \in m[p] => g \in n[p]
  PROVE  Guarded(f \o Tail(s), n)
<1> DEFINE t == f \o Tail(s)
<1>1. /\ t \in Seq(Items) /\ Len(s) \in Nat \ {0} /\ Len(f) \in Nat /\ Head(s) = s[1]
      /\ Len(t) = Len(f) + Len(s) - 1
      /\ \A i \in 1..Len(f) : t[i] = f[i]
      /\ \A i \in 2..Len(s) : t[Len(f) + i - 1] = s[i]
  BY Spliced
<1> HIDE DEF t
<1>2. \A i \in 1..Len(s) : s[i] \in Items
  BY <1>1
<1> SUFFICES ASSUME NEW i \in 1..Len(t), t[i].op = "execute"
             PROVE  \/ Permits(n, t[i])
                    \/ /\ i > 3 /\ t[i - 3].op = "resolve"
                       /\ t[i - 3].plugin = t[i].plugin /\ t[i - 3].grant = t[i].grant
  BY DEF Guarded, t
<1>3. CASE i <= Len(f)
  <2>1. i \in 1..Len(f) /\ t[i] = f[i]
    BY <1>1, <1>3
  <2>2. i > 3 => i - 3 \in 1..Len(f) /\ t[i - 3] = f[i - 3]
    BY <1>1, <1>3
  <2> QED BY <2>1, <2>2 DEF Tested
<1>4. CASE i > Len(f)
  <2> DEFINE k == i - Len(f) + 1
  <2>1. k \in 2..Len(s) /\ i = Len(f) + k - 1
    BY <1>1, <1>4
  <2> HIDE DEF k
  <2>2. t[i] = s[k] /\ k \in 1..Len(s) /\ s[k] \in Items /\ s[k].op = "execute"
    BY <1>1, <1>2, <2>1
  <2>3. s[k].plugin \in Plugins /\ s[k].grant \in STRING
    BY <2>2, Kinds
  <2>4. \/ Permits(m, s[k])
        \/ /\ k > 3 /\ s[k - 3].op = "resolve"
           /\ s[k - 3].plugin = s[k].plugin /\ s[k - 3].grant = s[k].grant
    BY <2>2 DEF Guarded
  <2>5. CASE Permits(m, s[k])
    BY <2>2, <2>3, <2>5 DEF Permits
  <2>6. CASE /\ k > 3 /\ s[k - 3].op = "resolve"
             /\ s[k - 3].plugin = s[k].plugin /\ s[k - 3].grant = s[k].grant
    <3>1. CASE k = 4
      <4>1. k - 3 = 1
        BY <3>1
      <4> QED BY <1>1, <2>2, <2>6, <4>1 DEF Permits
    <3>2. CASE k # 4
      <4>1. k - 3 \in 2..Len(s) /\ Len(f) + (k - 3) - 1 = i - 3 /\ i > 3
        BY <1>1, <2>1, <2>6, <3>2
      <4>2. t[i - 3] = s[k - 3]
        BY <1>1, <4>1
      <4> QED BY <2>2, <2>6, <4>1, <4>2
    <3> QED BY <3>1, <3>2
  <2> QED BY <2>4, <2>5, <2>6
<1> QED BY <1>1, <1>3, <1>4

LEMMA GuardedGrows ==
  ASSUME NEW s \in Seq(Items), NEW m, NEW n, Guarded(s, m),
         \A p \in Plugins, g \in STRING : g \in m[p] => g \in n[p]
  PROVE  Guarded(s, n)
<1>1. \A i \in 1..Len(s) : s[i] \in Items
  OBVIOUS
<1>2. ASSUME NEW i \in 1..Len(s), s[i].op = "execute", Permits(m, s[i]) PROVE Permits(n, s[i])
  BY <1>1, <1>2, Kinds DEF Permits
<1> QED BY <1>2 DEF Guarded

(* The events a run publishes and the calls of their subscribers.           *)
LEMMA CallsAre ==
  ASSUME Typed, NEW t
  PROVE  LET hs == Called(t)
             f == Calls(t, Len(log) + 1)
         IN /\ f \in Seq(Items) /\ Len(f) = Len(hs) /\ Len(f) \in Nat
            /\ \A i \in 1..Len(f) :
                 /\ f[i] = Call(hs[i], Len(log) + 1) /\ f[i].op = "call"
                 /\ f[i].event = Len(log) + 1 /\ hs[i] \in Handlers
<1> DEFINE hs == Called(t)
           e == Len(log) + 1
           f == [i \in 1..Len(hs) |-> Call(hs[i], e)]
<1>1. e \in Nat /\ hs \in Seq(Handlers) /\ Calls(t, e) = f
  BY CalledIs DEF Typed, Calls
<1> HIDE DEF hs, e
<1>2. /\ f \in Seq(Items) /\ Len(f) = Len(hs) /\ Len(f) \in Nat
      /\ \A i \in 1..Len(f) : /\ f[i] = Call(hs[i], e) /\ f[i].op = "call"
                             /\ f[i].event = e /\ hs[i] \in Handlers
  BY <1>1, CallList
<1> HIDE DEF f
<1> QED BY <1>1, <1>2 DEF hs, e

LEMMA ReturnList ==
  ASSUME NEW h \in Handlers
  PROVE  <<Return(h)>> \in Blocks /\ Len(<<Return(h)>>) = 1 /\ <<Return(h)>>[1].op = "return"
<1>1. Return(h) \in Items /\ Return(h).op = "return"
  BY ReturnIs
<1>2. <<Return(h)>> \in Blocks
  BY <1>1, OneItem
<1> QED BY <1>1, <1>2

(* What a step does to the list of its run, as far as plugins go.           *)
LEMMA GoesTested ==
  ASSUME Typed, NEW r \in Runs, Publishes(r) \/ TurnsTo(r) \/ Moves(r) \/ Ends(r)
  PROVE  \/ \E f \in Seq(Items) : Tested(f) /\ Goes(r, f)
         \/ RunsAfter(r, "failed", <<>>) \/ RunsAfter(r, "ok", <<>>)
<1>1. CASE Publishes(r)
  <2> DEFINE f == Calls(Item(r).topic, Len(log) + 1)
  <2>1. f \in Seq(Items) /\ Tested(f)
    BY CallsAre DEF Tested
  <2> QED BY <1>1, <2>1 DEF Publishes
<1>2. CASE TurnsTo(r)
  <2>1. Item(r).who \in Handlers
    BY <1>2, RunIs, Kinds DEF TurnsTo, Goes
  <2>2. <<Return(Item(r).who)>> \in Blocks
    BY <2>1, ReturnList
  <2> QED BY <1>2, <2>2 DEF TurnsTo, Blocks
<1>3. CASE Moves(r)
  BY <1>3 DEF Moves, Blocks
<1>4. CASE Ends(r)
  BY <1>4 DEF Ends
<1> QED BY <1>1, <1>2, <1>3, <1>4

LEMMA StepGuarded ==
  ASSUME GrantInv, NEW r \in Runs, Step(r)
  PROVE  ManifestsSound' /\ RunsGuarded'
<1>1. /\ Typed /\ ManifestsSound /\ RunsGuarded
      /\ UNCHANGED <<files, boot, read>>
      /\ Publishes(r) \/ TurnsTo(r) \/ Moves(r) \/ Ends(r)
  BY StepIs DEF GrantInv
<1>2. runs[r].at = "busy"
  BY StepIs DEF GrantInv
<1>3. ManifestsSound' /\ \A p \in Plugins, g \in STRING : g \in manifests[p] => g \in manifests'[p]
  <2>1. CASE Resolve(r)
    BY <1>1, <2>1, ResolveIs
  <2>2. CASE ~Resolve(r)
    <3>1. manifests' = manifests
      BY <2>2 DEF Step, Publish, CallHandler, HandlerEnds, EmitPoint, NextStep, ExecutePlugin,
                  HandleAgent, RaiseError, Finish, registry
    <3> QED BY <1>1, <3>1 DEF ManifestsSound
  <2> QED BY <2>1, <2>2
<1>4. ASSUME runs[r].todo # <<>>, runs'[r].at = "busy", Item(r).op = "resolve"
      PROVE  Permits(manifests', Item(r))
  <2>1. Resolve(r)
    <3>1. runs'[r].at = "busy" /\ runs[r].todo # <<>>
      BY <1>4
    <3>2. ~Finish(r)
      BY <3>1 DEF Finish
    <3> QED BY <1>4, <3>2 DEF Step, Publish, CallHandler, HandlerEnds, EmitPoint, NextStep,
                ExecutePlugin, HandleAgent, RaiseError, At
  <2>2. ~Fails(r, "plugin")
    <3>1. Fails(r, "plugin") => RunsAfter(r, "failed", <<>>)
      BY <1>1, FailsEnds DEF Names
    <3> QED BY <1>4, <3>1 DEF RunsAfter
  <2> QED BY <1>1, <2>1, <2>2, ResolveIs
<1>5. ASSUME NEW q \in Runs, runs'[q].at = "busy" PROVE Guarded(runs'[q].todo, manifests')
  <2>1. /\ runs[q].at = "busy" => Guarded(runs[q].todo, manifests)
        /\ runs[q].todo \in Seq(Items)
    BY <1>1, RunIs DEF RunsGuarded
  <2>2. CASE q # r
    <3>1. runs'[q] = runs[q]
      BY <1>1, <2>2, GoesTested DEF Goes, RunsAfter
    <3> QED BY <1>3, <1>5, <2>1, <3>1, GuardedGrows
  <2>3. CASE q = r
    <3>1. CASE \E f \in Seq(Items) : Tested(f) /\ Goes(r, f)
      <4>1. PICK f \in Seq(Items) : Tested(f) /\ Goes(r, f)
        BY <3>1
      <4>2. /\ runs'[r].at = "busy" /\ runs'[r].todo = f \o Tail(runs[r].todo)
            /\ runs[r].todo # <<>>
        BY <4>1 DEF Goes, RunsAfter
      <4>3. Head(runs[r].todo).op = "resolve" => Permits(manifests', Head(runs[r].todo))
        BY <1>4, <4>2 DEF Item
      <4>4. Guarded(f \o Tail(runs[r].todo), manifests')
        BY <1>2, <1>3, <2>1, <2>3, <4>1, <4>2, <4>3, GuardedAfter
      <4> QED BY <2>3, <4>2, <4>4
    <3>2. CASE RunsAfter(r, "failed", <<>>) \/ RunsAfter(r, "ok", <<>>)
      <4>1. runs'[r].todo = <<>> /\ Len(<<>>) = 0
        BY <3>2 DEF RunsAfter
      <4> QED BY <2>3, <4>1 DEF Guarded
    <3> QED BY <1>1, <3>1, <3>2, GoesTested
  <2> QED BY <2>2, <2>3
<1> QED BY <1>3, <1>5 DEF RunsGuarded

LEMMA StepGranted ==
  ASSUME GrantInv, NEW r \in Runs, Step(r)
  PROVE  ExecutionsAreGranted'
<1>1. /\ Typed /\ ManifestsSound /\ RunsGuarded /\ ExecutionsAreGranted
      /\ UNCHANGED files
  BY StepIs DEF GrantInv
<1>2. \A p, g : Granted(p, g)' <=> Granted(p, g)
  BY <1>1 DEF Granted
<1>3. CASE ~ExecutePlugin(r)
  <2>1. executed' = executed
    BY <1>3 DEF Step, Publish, CallHandler, HandlerEnds, EmitPoint, NextStep, Resolve,
                HandleAgent, RaiseError, Finish
  <2> QED BY <1>1, <1>2, <2>1 DEF ExecutionsAreGranted
<1>4. CASE ExecutePlugin(r)
  <2> DEFINE p == Item(r).plugin
             g == Item(r).grant
  <2>1. /\ Item(r).op = "execute" /\ runs[r].todo # <<>> /\ runs[r].at = "busy"
        /\ \/ executed' = executed
           \/ /\ executed' = executed \cup {<<p, g, r>>}
              /\ p \in DOMAIN Sdk \/ SandboxAdmits(Item(r))
    BY <1>4 DEF ExecutePlugin, At
  <2>2. p \in Plugins /\ g \in STRING /\ boot = "up"
    BY <1>1, <2>1, RunIs, Kinds DEF Typed
  <2>3. g \in manifests[p]
    <3>1. Item(r) = runs[r].todo[1] /\ 1 \in 1..Len(runs[r].todo)
      BY <1>1, <2>1, RunIs DEF Item
    <3>2. Guarded(runs[r].todo, manifests) /\ ~(1 > 3)
      BY <1>1, <2>1 DEF RunsGuarded
    <3> QED BY <2>1, <3>1, <3>2 DEF Guarded, Permits
  <2>4. SandboxAdmits(Item(r)) => Enabled /\ p \in Allowlist \cap Runnable
    BY DEF SandboxAdmits
  <2> HIDE DEF p, g
  <2>5. executed' # executed => Granted(p, g)
    BY <1>1, <2>1, <2>2, <2>3, <2>4, PermittedIsGranted
  <2>6. \A x \in executed' : x \in executed \/ (x = <<p, g, r>> /\ executed' # executed)
    BY <2>1
  <2>7. \A x \in executed' : Granted(x[1], x[2])
    BY <1>1, <2>5, <2>6 DEF ExecutionsAreGranted
  <2> QED BY <1>2, <2>7 DEF ExecutionsAreGranted
<1> QED BY <1>3, <1>4

LEMMA NextGranted == GrantInv /\ [Next]_vars => GrantInv'
<1> SUFFICES ASSUME GrantInv, [Next]_vars PROVE GrantInv'
  OBVIOUS
<1>1. Typed /\ ManifestsSound /\ RunsGuarded /\ ExecutionsAreGranted /\ Typed'
  BY NextTyped DEF GrantInv
<1>2. CASE Boot
  <2>1. UNCHANGED <<files, runs, executed>>
    BY <1>1, <1>2, BootIs
  <2>2. ManifestsSound'
    BY <1>1, <1>2, DiscoverSound, RegisterSound DEF Boot
  <2>3. ExecutionsAreGranted'
    BY <1>1, <2>1 DEF ExecutionsAreGranted, Granted
  <2>4. \A r \in Runs : runs'[r].at = "idle"
    BY <1>1, <1>2, <2>1, BootIs DEF Typed
  <2> QED BY <1>1, <2>2, <2>3, <2>4 DEF GrantInv, RunsGuarded
<1>3. ASSUME NEW t \in DOMAIN Subscribed, NEW h \in Handlers, Subscribe(t, h) \/ Unsubscribe(t, h)
      PROVE  GrantInv'
  <2>1. UNCHANGED <<files, boot, read, manifests, runs, executed>>
    BY <1>1, <1>3, MovingIs
  <2> QED BY <1>1, <2>1
          DEF GrantInv, ManifestsSound, RunsGuarded, ExecutionsAreGranted, Granted
<1>4. ASSUME NEW r \in Runs, Begin(r) PROVE GrantInv'
  <2>1. UNCHANGED <<files, boot, read, manifests, executed>>
    BY <1>1, <1>4, BeginIs
  <2>2. PICK f \in Blocks : RunsAfter(r, "busy", f)
    BY <1>1, <1>4, BeginIs
  <2>3. Guarded(f, manifests)
    BY DEF Blocks, Tested, Guarded
  <2>4. RunsGuarded'
    BY <1>1, <2>1, <2>2, <2>3 DEF RunsGuarded, RunsAfter
  <2> QED BY <1>1, <2>1, <2>4 DEF GrantInv, ManifestsSound, ExecutionsAreGranted, Granted
<1>5. ASSUME NEW r \in Runs, Step(r) PROVE GrantInv'
  BY <1>1, <1>5, StepGuarded, StepGranted DEF GrantInv
<1>6. CASE UNCHANGED vars
  <2>1. UNCHANGED <<files, boot, read, manifests, runs, executed>>
    BY <1>6 DEF vars, registry, input
  <2> QED BY <1>1, <2>1
          DEF GrantInv, ManifestsSound, RunsGuarded, ExecutionsAreGranted, Granted
<1> QED BY <1>2, <1>3, <1>4, <1>5, <1>6 DEF Next

(* The code of a plugin is only started with a permission that was granted: *)
(* by the descriptor of an SDK plugin, by the manifest that was read last,  *)
(* or by the legacy one, which grants Execute, whatever other runs do while *)
(* subscribers and hooks wait between the test and the start                *)
(* (plugin_framework.py:263).                                               *)
THEOREM CodeRunsWithPermission == Spec => []ExecutionsAreGranted
<1>1. Init => GrantInv
  <2> SUFFICES ASSUME Init PROVE ManifestsSound /\ RunsGuarded /\ ExecutionsAreGranted
    BY InitTyped DEF GrantInv
  <2>1. /\ boot = "files" /\ read = {} /\ executed = {}
        /\ \A p \in Plugins : manifests[p] = NoManifest
        /\ \A r \in Runs : runs[r].at = "idle"
    BY DEF Init
  <2> QED BY <2>1 DEF ManifestsSound, RunsGuarded, ExecutionsAreGranted, Filed
<1>2. GrantInv => ExecutionsAreGranted
  BY DEF GrantInv
<1> QED BY <1>1, <1>2, NextGranted, PTL DEF Spec

-----------------------------------------------------------------------------
(* The history.                                                             *)

LEMMA MaxOfTwo ==
  ASSUME NEW a \in Int, NEW b \in Int
  PROVE  Max({a, b}) = IF a >= b THEN a ELSE b
<1> DEFINE m == IF a >= b THEN a ELSE b
<1>1. m \in {a, b} /\ \A y \in {a, b} : m >= y
  OBVIOUS
<1>2. \A x \in {a, b} : (\A y \in {a, b} : x >= y) => x = m
  OBVIOUS
<1> QED BY <1>1, <1>2 DEF Max

LEMMA MinOfTwo ==
  ASSUME NEW a \in Int, NEW b \in Int
  PROVE  Min({a, b}) = IF a <= b THEN a ELSE b
<1> DEFINE m == IF a <= b THEN a ELSE b
<1>1. m \in {a, b} /\ \A y \in {a, b} : m <= y
  OBVIOUS
<1>2. \A x \in {a, b} : (\A y \in {a, b} : x <= y) => x = m
  OBVIOUS
<1> QED BY <1>1, <1>2 DEF Min

(* The log grows at its end, by one event of the run that has the loop.     *)
LEMMA LogGrows ==
  ASSUME Typed, NEW r \in Runs, Publishes(r)
  PROVE  LET n == Len(log) + 1
         IN /\ Len(log) \in Nat /\ Len(log') = n /\ DOMAIN log = 1..Len(log) /\ DOMAIN log' = 1..n
            /\ \A e \in 1..Len(log) : log'[e] = log[e]
            /\ log'[n].run = r /\ log'[n].topic = Item(r).topic /\ log'[n].by = Item(r).by
            /\ \A q \in Runs : EventsOf(q)' =
                 EventsOf(q) \cup (IF q = r /\ Own(Item(r)) THEN {n} ELSE {})
            /\ \A q \in Runs : EventsOf(q) \subseteq 1..Len(log)
<1> DEFINE x == [run |-> r, topic |-> Item(r).topic, by |-> Item(r).by]
           n == Len(log) + 1
<1>1. Item(r).op = "publish" /\ Item(r) \in Items
  BY RunIs DEF Publishes, Goes
<1>2. x \in Published
  BY <1>1, Kinds DEF Published
<1>3. x.run = r /\ x.topic = Item(r).topic /\ x.by = Item(r).by
  OBVIOUS
<1>4. log' = Append(log, x) /\ log \in Seq(Published)
  BY DEF Publishes, Typed
<1> HIDE DEF x
<1>5. /\ Len(log) \in Nat /\ Len(log') = n /\ DOMAIN log = 1..Len(log) /\ DOMAIN log' = 1..n
      /\ \A e \in 1..Len(log) : log'[e] = log[e]
      /\ log'[n] = x /\ n \in Nat
  BY <1>2, <1>4
<1>6. n \notin 1..Len(log) /\ 1..n = 1..Len(log) \cup {n}
  BY <1>5
<1> HIDE DEF n
<1>7. Own(Item(r)) <=> x.by = "run"
  BY <1>1, <1>3 DEF Own
<1>8. ASSUME NEW q \in Runs
      PROVE  EventsOf(q)' = EventsOf(q) \cup (IF q = r /\ Own(Item(r)) THEN {n} ELSE {})
  BY <1>3, <1>5, <1>6, <1>7 DEF EventsOf
<1>9. \A q \in Runs : EventsOf(q) \subseteq 1..Len(log)
  BY <1>5 DEF EventsOf
<1> QED BY <1>3, <1>5, <1>8, <1>9 DEF n

LEMMA HistoryStep ==
  ASSUME Typed, HistoryIsNewest, NEW r \in Runs, Publishes(r)
  PROVE  HistoryIsNewest'
<1> DEFINE n == Len(log)
           k == Len(recent)
           s == Append(recent, n + 1)
<1>1. /\ n \in Nat /\ Len(log') = n + 1 /\ recent \in Seq(Nat) /\ k \in Nat /\ k <= n
      /\ k <= MaxEvents /\ (k < MaxEvents => k = n) /\ MaxEvents \in Nat \ {0}
      /\ \A i \in 1..k : recent[i] = n - k + i
  BY LogGrows, PlatformAssumption DEF HistoryIsNewest
<1>2. recent' = Newest(s)
  BY DEF Publishes
<1>3. /\ s \in Seq(Nat) /\ Len(s) = k + 1 /\ s[k + 1] = n + 1
      /\ \A i \in 1..k : s[i] = recent[i]
  BY <1>1
<1> HIDE DEF s, n, k
<1>4. CASE k < MaxEvents
  <2>1. SubSeq(s, 1, Len(s)) = s
    BY <1>3, SubSeqFull
  <2>2. recent' = s
    BY <1>1, <1>2, <1>3, <1>4, <2>1 DEF Newest
  <2>3. ASSUME NEW i \in 1..(k + 1) PROVE s[i] = (n + 1) - (k + 1) + i
    <3>1. k = n /\ (n + 1) - (k + 1) + i = i /\ (i = k + 1 \/ i \in 1..k)
      BY <1>1, <1>4
    <3>2. i \in 1..k => s[i] = n - k + i
      BY <1>1, <1>3
    <3> QED BY <1>1, <1>3, <3>1, <3>2
  <2>4. k + 1 = IF n + 1 <= MaxEvents THEN n + 1 ELSE MaxEvents
    BY <1>1, <1>4
  <2> QED BY <1>1, <1>3, <2>2, <2>3, <2>4 DEF HistoryIsNewest
<1>5. CASE k = MaxEvents
  <2> DEFINE t == SubSeq(s, 2, k + 1)
  <2>1. t \in Seq(Nat) /\ Len(t) = k /\ \A i \in 1..k : t[i] = s[i + 1]
    BY <1>1, <1>3
  <2>2. recent' = t
    BY <1>1, <1>2, <1>3, <1>5 DEF Newest
  <2> HIDE DEF t
  <2>3. ASSUME NEW i \in 1..k PROVE t[i] = (n + 1) - k + i
    <3>1. CASE i = k
      BY <1>1, <1>3, <2>1, <3>1
    <3>2. CASE i # k
      <4>1. i + 1 \in 1..k
        BY <1>1, <3>2
      <4>2. s[i + 1] = n - k + (i + 1)
        BY <1>1, <1>3, <4>1
      <4> QED BY <1>1, <2>1, <4>2
    <3> QED BY <3>1, <3>2
  <2>4. k = IF n + 1 <= MaxEvents THEN n + 1 ELSE MaxEvents
    BY <1>1, <1>5
  <2> QED BY <1>1, <2>1, <2>2, <2>3, <2>4 DEF HistoryIsNewest
<1> QED BY <1>1, <1>4, <1>5

(* An announcement that is due stays due until it is made.                  *)
LEMMA StillAnnounces ==
  ASSUME NEW s \in Seq(Items), s # <<>>, NEW f \in Seq(Items), Announces(s),
         ~Own(Head(s)), Head(s).op # "raise"
  PROVE  Announces(f \o Tail(s))
<1>1. PICK i \in 1..Len(s) : Own(s[i]) \/ s[i].op = "raise"
  BY DEF Announces
<1>2. /\ Len(s) \in Nat \ {0} /\ Len(f) \in Nat /\ Head(s) = s[1]
      /\ Len(f \o Tail(s)) = Len(f) + Len(s) - 1
      /\ \A j \in 2..Len(s) : (f \o Tail(s))[Len(f) + j - 1] = s[j]
  BY Spliced
<1>3. i \in 2..Len(s)
  BY <1>1, <1>2
<1>4. Len(f) + i - 1 \in 1..Len(f \o Tail(s)) /\ (f \o Tail(s))[Len(f) + i - 1] = s[i]
  BY <1>2, <1>3
<1> QED BY <1>1, <1>4 DEF Announces

LEMMA StepAnnounces ==
  ASSUME Typed, RunsAnnounce, NEW r \in Runs, Publishes(r) \/ TurnsTo(r) \/ Moves(r) \/ Ends(r)
  PROVE  RunsAnnounce'
<1> DEFINE s == runs[r].todo
<1>1. s \in Seq(Items) /\ (s # <<>> => Item(r) = Head(s) /\ Head(s) \in Items)
  BY RunIs DEF Item
<1>2. \A q \in Runs : EventsOf(q) \subseteq EventsOf(q)'
  <2>1. CASE Publishes(r)
    BY <2>1, LogGrows
  <2>2. CASE ~Publishes(r)
    BY <2>2 DEF TurnsTo, Moves, Ends, EventsOf
  <2> QED BY <2>1, <2>2
<1>3. \A q \in Runs \ {r} : runs'[q] = runs[q]
  BY DEF Publishes, TurnsTo, Moves, Ends, Goes, RunsAfter
<1>4. /\ runs[r].at = "busy" /\ (Announces(s) \/ EventsOf(r) # {})
  BY DEF RunsAnnounce, Publishes, TurnsTo, Moves, Ends, Goes
<1>5. ASSUME NEW f \in Seq(Items), Goes(r, f),
             (Own(Item(r)) => EventsOf(r)' # {}) /\ Item(r).op # "raise"
      PROVE  Announces(runs'[r].todo) \/ EventsOf(r)' # {}
  <2>1. s # <<>> /\ runs'[r].todo = f \o Tail(s)
    BY <1>5 DEF Goes, RunsAfter
  <2> HIDE DEF s
  <2> QED BY <1>1, <1>2, <1>4, <1>5, <2>1, StillAnnounces
<1>6. CASE Publishes(r)
  <2> DEFINE f == Calls(Item(r).topic, Len(log) + 1)
  <2>1. Goes(r, f) /\ f \in Seq(Items) /\ Item(r).op # "raise" /\ runs'[r].at = "busy"
    BY <1>6 DEF Publishes, Goes, RunsAfter
  <2>2. Own(Item(r)) => EventsOf(r)' # {}
    BY <1>6, LogGrows
  <2>3. Announces(runs'[r].todo) \/ EventsOf(r)' # {}
    BY <1>5, <2>1, <2>2
  <2> QED BY <1>2, <1>3, <2>1, <2>3 DEF RunsAnnounce
<1>7. CASE TurnsTo(r) \/ Moves(r)
  <2>1. PICK f \in Seq(Items) : Goes(r, f)
    BY <1>7 DEF TurnsTo, Moves, Goes
  <2>2. ~Own(Item(r)) /\ Item(r).op # "raise" /\ runs'[r].at = "busy"
    BY <1>7, <2>1 DEF TurnsTo, Moves, Own, Goes, RunsAfter
  <2>3. Announces(runs'[r].todo) \/ EventsOf(r)' # {}
    BY <1>5, <2>1, <2>2
  <2> QED BY <1>2, <1>3, <2>2, <2>3 DEF RunsAnnounce
<1>8. CASE Ends(r)
  <2>1. CASE RunsAfter(r, "failed", <<>>)
    BY <1>2, <1>3, <2>1 DEF RunsAnnounce, RunsAfter
  <2>2. CASE RunsAfter(r, "ok", <<>>) /\ s = <<>>
    <3>1. ~Announces(s)
      <4>1. Len(<<>>) = 0
        OBVIOUS
      <4> QED BY <2>2, <4>1 DEF Announces
    <3> QED BY <1>2, <1>3, <1>4, <2>2, <3>1 DEF RunsAnnounce, RunsAfter
  <2> QED BY <1>8, <2>1, <2>2 DEF Ends
<1> QED BY <1>6, <1>7, <1>8

LEMMA LatestExists ==
  ASSUME Typed, NEW r \in Runs, EventsOf(r) # {}
  PROVE  \E e \in EventsOf(r) : Latest(r, e)
<1> DEFINE n == Len(log)
           E == EventsOf(r)
           S == {n - e : e \in E}
<1>1. n \in Nat /\ E \subseteq 1..n /\ E # {}
  BY DEF Typed, EventsOf
<1> HIDE DEF E, n
<1>2. S \subseteq Nat /\ S # {}
  <2>1. \A e \in E : e \in 1..n
    BY <1>1
  <2>2. \A e \in E : n - e \in Nat
    BY <1>1, <2>1
  <2>3. PICK e \in E : TRUE
    BY <1>1
  <2>4. n - e \in S
    OBVIOUS
  <2> QED BY <2>2, <2>4
<1>3. PICK m \in S : \A x \in S : m <= x
  BY <1>2, LeastNat
<1>4. PICK e \in E : m = n - e
  BY <1>3
<1>5. \A d \in E : d <= e
  <2> SUFFICES ASSUME NEW d \in E PROVE d <= e
    OBVIOUS
  <2>1. n - d \in S
    OBVIOUS
  <2>2. n - e <= n - d
    BY <1>3, <1>4, <2>1
  <2> QED BY <1>1, <2>2
<1> QED BY <1>4, <1>5 DEF Latest, E

(* What the history holds of the newest events is shown.                    *)
LEMMA NewestAreShown ==
  ASSUME Typed, HistoryIsNewest, NEW limit \in Nat \ {0}, NEW e \in 1..Len(log),
         Len(log) < e + limit, Len(log) < e + MaxEvents
  PROVE  Contains(RecentEvents(limit), e)
<1> DEFINE n == Len(log)
           k == Len(recent)
           size == IF limit <= k THEN limit ELSE k
           shown == SubSeq(recent, k - size + 1, k)
           i == e - (n - size)
<1>1. n \in Nat /\ e \in 1..n /\ n < e + limit /\ n < e + MaxEvents /\ MaxEvents \in Nat \ {0}
  BY PlatformAssumption DEF Typed
<1>2. /\ k = IF n <= MaxEvents THEN n ELSE MaxEvents
      /\ \A j \in 1..k : recent[j] = n - k + j
  BY DEF HistoryIsNewest
<1>3. recent \in Seq(Nat)
  BY PlatformAssumption DEF HistoryIsNewest, Typed
<1>4. RecentEvents(limit) =
        LET most == Max({1, Min({limit, k})})
        IN SubSeq(recent, Max({1, k - most + 1}), k)
  BY DEF RecentEvents
<1> HIDE DEF n, k
<1>5. k \in Nat \ {0} /\ size \in 1..k /\ n < e + size
  BY <1>1, <1>2
<1>6. Min({limit, k}) = size
  BY <1>5, MinOfTwo
<1> HIDE DEF size
<1>7. Max({1, size}) = size /\ Max({1, k - size + 1}) = k - size + 1
  BY <1>5, MaxOfTwo
<1>8. RecentEvents(limit) = shown
  BY <1>4, <1>6, <1>7
<1>9. i \in 1..size /\ (k - size + 1) + i - 1 \in 1..k /\ n - k + ((k - size + 1) + i - 1) = e
  BY <1>1, <1>5
<1>10. Len(shown) = size /\ shown[i] = recent[(k - size + 1) + i - 1]
  BY <1>3, <1>5, <1>9, SubSeqProperties DEF k
<1>11. shown[i] = e
  BY <1>2, <1>9, <1>10
<1> HIDE DEF shown, i
<1> QED BY <1>8, <1>9, <1>10, <1>11 DEF Contains

LEMMA AnswersShown == ShownInv => AnsweredRunsAreShown
<1> SUFFICES ASSUME ShownInv, NEW r \in Runs, runs[r].at = "ok"
             PROVE  \E e \in EventsOf(r) :
                      /\ \A d \in EventsOf(r) : d <= e
                      /\ \A limit \in 1..MaxListed :
                           \/ Contains(RecentEvents(limit), e)
                           \/ Len(log) >= e + limit \/ Len(log) >= e + MaxEvents
  BY DEF AnsweredRunsAreShown
<1>1. PICK e \in EventsOf(r) : Latest(r, e)
  BY LatestExists DEF ShownInv, RunsAnnounce
<1>2. Len(log) \in Nat /\ e \in 1..Len(log) /\ MaxEvents \in Nat
  BY PlatformAssumption DEF ShownInv, Typed, EventsOf
<1>3. ASSUME NEW limit \in 1..MaxListed
      PROVE  \/ Contains(RecentEvents(limit), e)
             \/ Len(log) >= e + limit \/ Len(log) >= e + MaxEvents
  <2>1. limit \in Nat \ {0}
    BY PlatformAssumption
  <2>2. CASE Len(log) < e + limit /\ Len(log) < e + MaxEvents
    BY <1>2, <2>1, <2>2, NewestAreShown DEF ShownInv
  <2> QED BY <1>2, <2>1, <2>2
<1> QED BY <1>1, <1>3 DEF Latest

LEMMA NextShown == ShownInv /\ [Next]_vars => ShownInv'
<1> SUFFICES ASSUME ShownInv, [Next]_vars PROVE ShownInv'
  OBVIOUS
<1>1. Typed /\ HistoryIsNewest /\ RunsAnnounce /\ Typed'
  BY NextTyped DEF ShownInv
<1>2. ASSUME UNCHANGED <<log, recent, runs>> PROVE ShownInv'
  BY <1>1, <1>2 DEF ShownInv, HistoryIsNewest, RunsAnnounce, EventsOf
<1>3. CASE Boot
  BY <1>1, <1>2, <1>3, BootIs
<1>4. ASSUME NEW t \in DOMAIN Subscribed, NEW h \in Handlers, Subscribe(t, h) \/ Unsubscribe(t, h)
      PROVE  ShownInv'
  BY <1>1, <1>2, <1>4, MovingIs
<1>5. ASSUME NEW r \in Runs, Begin(r) PROVE ShownInv'
  <2>1. PICK f \in Blocks : Announces(f) /\ RunsAfter(r, "busy", f)
    BY <1>1, <1>5, BeginIs
  <2>2. UNCHANGED <<log, recent>>
    BY <1>1, <1>5, BeginIs
  <2>3. HistoryIsNewest'
    BY <1>1, <2>2 DEF HistoryIsNewest
  <2>4. RunsAnnounce'
    BY <1>1, <2>1, <2>2 DEF RunsAnnounce, RunsAfter, EventsOf
  <2> QED BY <1>1, <2>3, <2>4 DEF ShownInv
<1>6. ASSUME NEW r \in Runs, Step(r) PROVE ShownInv'
  <2>1. Publishes(r) \/ TurnsTo(r) \/ Moves(r) \/ Ends(r)
    BY <1>1, <1>6, StepIs
  <2>2. HistoryIsNewest'
    <3>1. CASE Publishes(r)
      BY <1>1, <3>1, HistoryStep
    <3>2. CASE TurnsTo(r) \/ Moves(r) \/ Ends(r)
      <4>1. UNCHANGED <<log, recent>>
        BY <3>2 DEF TurnsTo, Moves, Ends
      <4> QED BY <1>1, <4>1 DEF HistoryIsNewest
    <3> QED BY <2>1, <3>1, <3>2
  <2>3. RunsAnnounce'
    BY <1>1, <2>1, StepAnnounces
  <2> QED BY <1>1, <2>2, <2>3 DEF ShownInv
<1>7. CASE UNCHANGED vars
  BY <1>2, <1>7 DEF vars, bus
<1> QED BY <1>3, <1>4, <1>5, <1>6, <1>7 DEF Next

(* Whoever was told that a run succeeded is shown the run's last event, with *)
(* every limit that the route takes, until as many newer ones as the limit  *)
(* or as the history holds were published, whichever runs publish in        *)
(* between (event_bus.py:64, main.py:1082).                                 *)
THEOREM CompletionsAreShown == Spec => []AnsweredRunsAreShown
<1>1. Init => ShownInv
  <2> SUFFICES ASSUME Init PROVE HistoryIsNewest /\ RunsAnnounce
    BY InitTyped DEF ShownInv
  <2>1. /\ recent = <<>> /\ log = <<>> /\ Len(<<>>) = 0 /\ <<>> \in Seq(Nat)
        /\ \A r \in Runs : runs[r].at = "idle"
    BY DEF Init
  <2> QED BY <2>1, PlatformAssumption DEF HistoryIsNewest, RunsAnnounce
<1> QED BY <1>1, AnswersShown, NextShown, PTL DEF Spec

-----------------------------------------------------------------------------
(* Deliveries.                                                              *)

(* An entry of the new list is one of the block, or one of the rest.        *)
LEMMA SplicedFrom ==
  ASSUME NEW s \in Seq(Items), s # <<>>, NEW f \in Seq(Items),
         NEW i \in 1..Len(f \o Tail(s))
  PROVE  \/ i \in 1..Len(f) /\ (f \o Tail(s))[i] = f[i]
         \/ \E j \in 2..Len(s) : i = Len(f) + j - 1 /\ (f \o Tail(s))[i] = s[j]
<1> DEFINE t == f \o Tail(s)
<1>1. /\ Len(s) \in Nat \ {0} /\ Len(f) \in Nat /\ Len(t) = Len(f) + Len(s) - 1
      /\ \A k \in 1..Len(f) : t[k] = f[k]
      /\ \A k \in 2..Len(s) : t[Len(f) + k - 1] = s[k]
  BY Spliced
<1>2. i \in 1..Len(t)
  OBVIOUS
<1> HIDE DEF t
<1>3. CASE i <= Len(f)
  BY <1>1, <1>2, <1>3 DEF t
<1>4. CASE i > Len(f)
  <2> DEFINE j == i - Len(f) + 1
  <2>1. j \in 2..Len(s) /\ i = Len(f) + j - 1
    BY <1>1, <1>2, <1>4
  <2> HIDE DEF j
  <2>2. \A k \in 2..Len(s) : t[Len(f) + k - 1] = s[k]
    BY <1>1
  <2>3. t[Len(f) + j - 1] = s[j]
    BY <2>1, <2>2
  <2>4. t[i] = s[j]
    BY <2>1, <2>3
  <2> QED BY <2>1, <2>4 DEF t
<1>5. i <= Len(f) \/ i > Len(f)
  BY <1>1
<1> QED BY <1>3, <1>4, <1>5

CallSound(r, todo, i) ==
  todo[i].op = "call" /\ todo[i].event # 0 =>
    /\ todo[i].event \in 1..Len(log) /\ log[todo[i].event].run = r
    /\ log[todo[i].event].by = "run" =>
         Latest(r, todo[i].event) /\ \A k \in 1..(i - 1) : Inner(todo[k])

LEMMA CallsAreSound ==
  CallsFirst <=> \A r \in Runs : \A i \in 1..Len(runs[r].todo) : CallSound(r, runs[r].todo, i)
BY DEF CallsFirst, CallSound

(* What was called for first stays so while the list is worked off.         *)
LEMMA CallsStayFirst ==
  ASSUME Typed, CallsFirst, NEW r \in Runs, NEW f \in Seq(Items), Goes(r, f),
         Inner(Item(r)) => (\A i \in 1..Len(f) : Inner(f[i])) /\ EventsOf(r)' = EventsOf(r),
         \A i \in 1..Len(f) : CallSound(r, f, i)',
         \A q \in Runs \ {r} : EventsOf(q)' = EventsOf(q),
         Len(log) \in Nat, Len(log') \in Nat, Len(log) <= Len(log'),
         \A e \in 1..Len(log) : log'[e] = log[e]
  PROVE  CallsFirst'
<1> DEFINE s == runs[r].todo
           t == f \o Tail(s)
<1>1. /\ s \in Seq(Items) /\ s # <<>> /\ Item(r) = s[1] /\ Len(s) \in Nat \ {0}
      /\ Len(f) \in Nat
      /\ \A k \in 1..Len(f) : t[k] = f[k]
      /\ \A k \in 2..Len(s) : t[Len(f) + k - 1] = s[k]
  BY RunIs, Spliced DEF Item, Goes
<1>2. runs'[r].todo = t /\ \A q \in Runs \ {r} : runs'[q] = runs[q]
  BY DEF Goes, RunsAfter
<1>3. \A i \in 1..Len(s) : CallSound(r, s, i)
  BY CallsAreSound
<1>4. ASSUME NEW i \in 1..Len(t)
      PROVE  \/ i \in 1..Len(f) /\ t[i] = f[i]
             \/ \E j \in 2..Len(s) : i = Len(f) + j - 1 /\ t[i] = s[j]
  BY <1>1, SplicedFrom
<1>5. ASSUME NEW q \in Runs \ {r}, NEW i \in 1..Len(runs[q].todo)
      PROVE  CallSound(q, runs[q].todo, i)'
  <2>1. runs'[q] = runs[q] /\ EventsOf(q)' = EventsOf(q) /\ CallSound(q, runs[q].todo, i)
    BY <1>2, CallsAreSound
  <2>2. PICK e : e = runs[q].todo[i].event
    OBVIOUS
  <2>3. e \in 1..Len(log) => e \in 1..Len(log') /\ log'[e] = log[e]
    OBVIOUS
  <2>4. Latest(q, e) => Latest(q, e)'
    BY <2>1 DEF Latest
  <2> QED BY <2>1, <2>2, <2>3, <2>4 DEF CallSound
<1> HIDE DEF s, t
<1>6. ASSUME NEW i \in 1..Len(t) PROVE CallSound(r, runs[r].todo, i)'
  <2>1. CASE i \in 1..Len(f) /\ t[i] = f[i]
    <3>1. \A k \in 1..(i - 1) : k \in 1..Len(f)
      BY <1>1, <2>1
    <3>2. \A k \in 1..(i - 1) : t[k] = f[k]
      BY <1>1, <3>1
    <3>3. CallSound(r, f, i)'
      BY <2>1
    <3> QED BY <1>2, <2>1, <3>2, <3>3 DEF CallSound
  <2>2. ASSUME NEW j \in 2..Len(s), i = Len(f) + j - 1, t[i] = s[j]
        PROVE  CallSound(r, runs[r].todo, i)'
    <3>1. CASE ~(s[j].op = "call" /\ s[j].event # 0)
      BY <1>2, <2>2, <3>1 DEF CallSound
    <3>2. CASE s[j].op = "call" /\ s[j].event # 0
      <4>0. PICK e : e = s[j].event
        OBVIOUS
      <4>1. /\ e \in 1..Len(log) /\ log[e].run = r
            /\ log[e].by = "run" => Latest(r, e) /\ \A k \in 1..(j - 1) : Inner(s[k])
        BY <1>3, <3>2, <4>0 DEF CallSound
      <4>2. e = t[i].event /\ e \in 1..Len(log') /\ log'[e] = log[e]
        BY <2>2, <4>0, <4>1
      <4>3. ASSUME log[e].by = "run"
            PROVE  Latest(r, e)' /\ \A k \in 1..(i - 1) : Inner(t[k])
        <5>1. Inner(Item(r)) /\ Latest(r, e)
          BY <1>1, <4>1, <4>3
        <5>2. Latest(r, e)'
          BY <5>1, <4>2 DEF Latest
        <5>3. ASSUME NEW k \in 1..(i - 1) PROVE Inner(t[k])
          <6>1. k \in 1..Len(t)
            OBVIOUS
          <6>2. CASE k \in 1..Len(f) /\ t[k] = f[k]
            BY <5>1, <6>2
          <6>3. ASSUME NEW m \in 2..Len(s), k = Len(f) + m - 1, t[k] = s[m]
                PROVE  Inner(t[k])
            <7>1. m \in 1..(j - 1)
              BY <1>1, <2>2, <6>3
            <7> QED BY <4>1, <4>3, <6>3, <7>1
          <6> QED BY <1>4, <6>1, <6>2, <6>3
        <5> QED BY <5>2, <5>3
      <4> QED BY <1>2, <4>1, <4>2, <4>3 DEF CallSound
    <3> QED BY <3>1, <3>2
  <2> QED BY <1>4, <2>1, <2>2
<1>7. \A q \in Runs : \A i \in 1..Len(runs'[q].todo) : CallSound(q, runs[q].todo, i)'
  BY <1>2, <1>5, <1>6
<1> QED BY <1>7 DEF CallsFirst, CallSound

(* While an event of the run itself is announced no earlier one is owed.    *)
LEMMA StepCallsFirst ==
  ASSUME Typed, CallsFirst, NEW r \in Runs, Publishes(r) \/ TurnsTo(r) \/ Moves(r) \/ Ends(r)
  PROVE  CallsFirst'
<1>1. Len(log) \in Nat
  BY DEF Typed
<1>2. CASE Publishes(r)
  <2>1. PICK n : n = Len(log) + 1
    OBVIOUS
  <2>2. PICK f \in Seq(Items) : f = Calls(Item(r).topic, n) /\ Goes(r, f)
    BY <1>2, <2>1 DEF Publishes, Goes
  <2>3. \A i \in 1..Len(f) : f[i].op = "call" /\ f[i].event = n
    <3>1. PICK hs \in Seq(Handlers) : hs = Called(Item(r).topic)
      BY CalledIs
    <3>2. n \in Nat
      BY <1>1, <2>1
    <3>3. f = [i \in 1..Len(hs) |-> Call(hs[i], n)]
      BY <2>2, <3>1 DEF Calls
    <3>4. Len(f) = Len(hs) /\ \A i \in 1..Len(hs) : hs[i] \in Handlers
      BY <3>2, <3>3, CallList
    <3>5. \A i \in 1..Len(hs) : Call(hs[i], n).op = "call" /\ Call(hs[i], n).event = n
      BY <3>2, <3>4, CallIs
    <3> QED BY <3>3, <3>4, <3>5
  <2>4. \A i \in 1..Len(f) : Inner(f[i])
    BY <2>3 DEF Inner
  <2>5. Inner(Item(r)) => ~Own(Item(r))
    BY DEF Inner, Own
  <2>6. /\ Len(log') = n /\ \A e \in 1..Len(log) : log'[e] = log[e]
        /\ log'[n].run = r /\ log'[n].by = Item(r).by
        /\ \A q \in Runs : EventsOf(q)' =
             EventsOf(q) \cup (IF q = r /\ Own(Item(r)) THEN {n} ELSE {})
        /\ \A q \in Runs : EventsOf(q) \subseteq 1..Len(log)
    BY <1>2, <2>1, LogGrows
  <2>7. Latest(r, n)'
    <3>1. \A d \in EventsOf(r)' : d = n \/ d \in 1..Len(log)
      BY <2>6
    <3>2. \A d \in EventsOf(r)' : d <= n
      BY <1>1, <2>1, <3>1
    <3> QED BY <3>2 DEF Latest
  <2>8. \A i \in 1..Len(f) : CallSound(r, f, i)'
    <3> SUFFICES ASSUME NEW i \in 1..Len(f) PROVE CallSound(r, f, i)'
      OBVIOUS
    <3>1. f[i].event = n /\ n \in 1..Len(log')
      BY <1>1, <2>1, <2>3, <2>6
    <3>2. \A k \in 1..(i - 1) : k \in 1..Len(f)
      OBVIOUS
    <3>3. \A k \in 1..(i - 1) : Inner(f[k])
      BY <2>4, <3>2
    <3> QED BY <2>6, <2>7, <3>1, <3>3 DEF CallSound
  <2>9. Len(log') \in Nat /\ Len(log) <= Len(log')
    BY <1>1, <2>1, <2>6
  <2>10. /\ \A q \in Runs \ {r} : EventsOf(q)' = EventsOf(q)
         /\ Inner(Item(r)) => EventsOf(r)' = EventsOf(r)
    BY <2>5, <2>6
  <2>11. \A e \in 1..Len(log) : log'[e] = log[e]
    BY <2>6
  <2> QED BY <1>1, <2>2, <2>4, <2>8, <2>9, <2>10, <2>11, CallsStayFirst
<1>3. CASE TurnsTo(r) \/ Moves(r)
  <2>1. log' = log /\ \A q \in Runs : EventsOf(q)' = EventsOf(q)
    BY <1>3 DEF TurnsTo, Moves, EventsOf
  <2>2. PICK f \in Seq(Items) :
          /\ Goes(r, f) /\ Silent(f)
          /\ Inner(Item(r)) => \A i \in 1..Len(f) : Inner(f[i])
    <3>1. CASE TurnsTo(r)
      <4>1. PICK x : x = Return(Item(r).who)
        OBVIOUS
      <4>2. x.op = "return"
        BY <4>1 DEF Return
      <4>3. <<x>> \in Seq(Items) /\ Goes(r, <<x>>)
        BY <3>1, <4>1 DEF TurnsTo, Goes
      <4>4. Len(<<x>>) = 1 /\ <<x>>[1] = x
        OBVIOUS
      <4>5. Silent(<<x>>) /\ \A i \in 1..Len(<<x>>) : Inner(<<x>>[i])
        BY <4>2, <4>4 DEF Silent, Inner
      <4> QED BY <4>3, <4>5
    <3>2. CASE Moves(r)
      BY <3>2 DEF Moves, Blocks
    <3> QED BY <1>3, <3>1, <3>2
  <2>3. \A i \in 1..Len(f) : CallSound(r, f, i)'
    BY <2>2 DEF Silent, CallSound
  <2>4. Len(log') \in Nat /\ Len(log) <= Len(log')
    BY <1>1, <2>1
  <2>5. \A e \in 1..Len(log) : log'[e] = log[e]
    BY <2>1
  <2>6. Inner(Item(r)) => (\A i \in 1..Len(f) : Inner(f[i])) /\ EventsOf(r)' = EventsOf(r)
    BY <2>1, <2>2
  <2>7. \A q \in Runs \ {r} : EventsOf(q)' = EventsOf(q)
    BY <2>1
  <2> QED BY <1>1, <2>2, <2>3, <2>4, <2>5, <2>6, <2>7, CallsStayFirst
<1>4. CASE Ends(r)
  <2>1. UNCHANGED log /\ (\A q \in Runs \ {r} : runs'[q] = runs[q]) /\ runs'[r].todo = <<>>
    BY <1>4 DEF Ends, RunsAfter
  <2>2. Len(<<>>) = 0
    OBVIOUS
  <2>3. ASSUME NEW q \in Runs, NEW i \in 1..Len(runs'[q].todo)
        PROVE  CallSound(q, runs[q].todo, i)'
    <3>1. q # r /\ runs'[q] = runs[q]
      BY <2>1, <2>2
    <3>2. CallSound(q, runs[q].todo, i)
      BY <3>1, CallsAreSound
    <3> QED BY <2>1, <3>1, <3>2 DEF CallSound, Latest, EventsOf
  <2> QED BY <2>3 DEF CallsFirst, CallSound
<1> QED BY <1>2, <1>3, <1>4

(* The call that is made, and what is called for later.                     *)
LEMMA FirstCall ==
  ASSUME Typed, CallsFirst, NEW r \in Runs, runs[r].todo # <<>>,
         Item(r).op = "call", Item(r).event # 0
  PROVE  /\ Item(r).who \in Handlers
         /\ Item(r).event \in 1..Len(log) /\ log[Item(r).event].run = r
         /\ log[Item(r).event].by = "run" => Latest(r, Item(r).event)
<1>1. 1 \in 1..Len(runs[r].todo) /\ Item(r) = runs[r].todo[1]
  BY RunIs DEF Item
<1>2. Item(r).who \in Handlers
  BY RunIs, Kinds
<1>3. CallSound(r, runs[r].todo, 1)
  BY <1>1, CallsAreSound
<1> QED BY <1>1, <1>2, <1>3 DEF CallSound

LEMMA StepSeen ==
  ASSUME Typed, CallsFirst, SeenInOrder, NEW r \in Runs,
         Publishes(r) \/ TurnsTo(r) \/ Moves(r) \/ Ends(r)
  PROVE  SeenInOrder'
<1>1. Len(log) \in Nat /\ \A h \in Handlers : seen[h] \in Seq(Nat) /\ Len(seen[h]) \in Nat
  BY DEF Typed
<1>2. CASE Publishes(r)
  <2>1. seen' = seen
    BY <1>2 DEF Publishes
  <2>2. /\ Len(log') = Len(log) + 1
        /\ \A q \in Runs : EventsOf(q)' \subseteq EventsOf(q) \cup {Len(log) + 1}
    BY <1>2, LogGrows
  <2>3. \A e \in 1..Len(log) : e \in 1..Len(log') /\ e # Len(log) + 1
    BY <1>1, <2>2
  <2>4. ASSUME NEW h \in Handlers, NEW i \in 1..Len(seen[h])
        PROVE  /\ seen[h][i] \in 1..Len(log')
               /\ \A q \in Runs : seen[h][i] \in EventsOf(q)' => seen[h][i] \in EventsOf(q)
    <3>1. seen[h][i] \in 1..Len(log)
      BY DEF SeenInOrder
    <3> QED BY <2>2, <2>3, <3>1
  <2> QED BY <2>1, <2>4 DEF SeenInOrder
<1>3. ASSUME UNCHANGED <<log, seen>> PROVE SeenInOrder'
  BY <1>3 DEF SeenInOrder, EventsOf
<1>4. CASE TurnsTo(r)
  <2>1. PICK h : h = Item(r).who
    OBVIOUS
  <2>2. PICK e : e = Item(r).event
    OBVIOUS
  <2>3. CASE e = 0
    BY <1>3, <1>4, <2>2, <2>3 DEF TurnsTo
  <2>4. CASE e # 0
    <3>1. /\ h \in Handlers /\ e \in 1..Len(log) /\ log[e].run = r
          /\ log[e].by = "run" => Latest(r, e)
      BY <1>4, <2>1, <2>2, <2>4, FirstCall DEF TurnsTo, Goes
    <3>2. log' = log /\ seen' = [seen EXCEPT ![h] = Append(@, e)]
      BY <1>4, <2>1, <2>2, <2>4 DEF TurnsTo
    <3>3. PICK s \in Seq(Nat) : s = seen[h]
      BY <1>1, <3>1
    <3>4. PICK t : t = Append(s, e)
      OBVIOUS
    <3>5. /\ seen'[h] = t /\ (\A g \in Handlers \ {h} : seen'[g] = seen[g])
          /\ Len(t) = Len(s) + 1 /\ Len(s) \in Nat /\ t[Len(s) + 1] = e
          /\ \A i \in 1..Len(s) : t[i] = s[i]
      <4>1. e \in Nat
        BY <1>1, <3>1
      <4>2. seen'[h] = t /\ (\A g \in Handlers \ {h} : seen'[g] = seen[g])
        BY <3>1, <3>2, <3>3, <3>4 DEF Typed
      <4> QED BY <3>4, <4>1, <4>2
    <3>6. \A q \in Runs : EventsOf(q)' = EventsOf(q)
      BY <3>2 DEF EventsOf
    <3>7. ASSUME NEW q \in Runs, e \in EventsOf(q) PROVE Latest(q, e)
      BY <3>1, <3>7 DEF EventsOf
    <3>8. \A i \in 1..Len(t) : i \in 1..Len(s) \/ i = Len(s) + 1
      BY <3>5
    <3>9. \A i \in 1..Len(t) : t[i] \in 1..Len(log)
      <4>1. \A i \in 1..Len(s) : s[i] \in 1..Len(log)
        BY <3>1, <3>3 DEF SeenInOrder
      <4> QED BY <3>1, <3>5, <3>8, <4>1
    <3>10. ASSUME NEW q \in Runs, NEW i \in 1..Len(t), NEW k \in 1..Len(t),
                  t[i] \in EventsOf(q), t[k] \in EventsOf(q), i < k
           PROVE  t[i] <= t[k]
      <4>1. i \in 1..Len(s)
        BY <3>5, <3>10
      <4>2. CASE k \in 1..Len(s)
        BY <3>1, <3>3, <3>5, <3>10, <4>1, <4>2 DEF SeenInOrder
      <4>3. CASE k = Len(s) + 1
        BY <3>5, <3>7, <3>10, <4>3 DEF Latest
      <4> QED BY <3>8, <4>2, <4>3
    <3>11. ASSUME NEW g \in Handlers
           PROVE  /\ \A i \in 1..Len(seen'[g]) : seen'[g][i] \in 1..Len(log)
                  /\ \A q \in Runs : \A i, k \in 1..Len(seen'[g]) :
                       seen'[g][i] \in EventsOf(q) /\ seen'[g][k] \in EventsOf(q) /\ i < k =>
                         seen'[g][i] <= seen'[g][k]
      <4>1. CASE g = h
        BY <3>5, <3>9, <3>10, <4>1
      <4>2. CASE g # h
        BY <3>5, <4>2 DEF SeenInOrder
      <4> QED BY <4>1, <4>2
    <3> QED BY <3>2, <3>6, <3>11 DEF SeenInOrder
  <2> QED BY <2>3, <2>4
<1>5. CASE Moves(r) \/ Ends(r)
  BY <1>3, <1>5 DEF Moves, Ends
<1> QED BY <1>2, <1>4, <1>5

(* A call that was to be made is the one that is made now, or still to be   *)
(* made.                                                                    *)
LEMMA StaysPending ==
  ASSUME Typed, NEW r \in Runs, NEW h, NEW e, NEW f \in Seq(Items), Goes(r, f), Pending(r, h, e)
  PROVE  Item(r) = Call(h, e) \/ Pending(r, h, e)'
<1> DEFINE s == runs[r].todo
           t == f \o Tail(s)
<1>1. /\ s \in Seq(Items) /\ s # <<>> /\ Item(r) = s[1] /\ Len(s) \in Nat \ {0}
      /\ Len(f) \in Nat /\ Len(t) = Len(f) + Len(s) - 1
      /\ \A k \in 2..Len(s) : t[Len(f) + k - 1] = s[k]
  BY RunIs, Spliced DEF Item, Goes
<1>2. PICK i \in 1..Len(s) : s[i] = Call(h, e)
  BY DEF Pending
<1>3. runs'[r].at = "busy" /\ runs'[r].todo = t
  BY DEF Goes, RunsAfter
<1> HIDE DEF s, t
<1>4. CASE i = 1
  BY <1>1, <1>2, <1>4
<1>5. CASE i # 1
  <2>1. PICK k : k = Len(f) + i - 1
    OBVIOUS
  <2>2. k \in 1..Len(t) /\ t[k] = Call(h, e)
    BY <1>1, <1>2, <1>5, <2>1
  <2>3. Call(h, e)' = Call(h, e)
    BY DEF Call
  <2> QED BY <1>3, <2>2, <2>3 DEF Pending
<1> QED BY <1>4, <1>5

(* What is owed to the subscribers of r's events after a step of r.         *)
LEMMA StepDelivers ==
  ASSUME Typed, CallsFirst, StandingAreSubscribed, Delivered, UNCHANGED moved,
         NEW r \in Runs, Publishes(r) \/ TurnsTo(r) \/ Moves(r) \/ Ends(r),
         NEW h \in Handlers, NEW e, (e \in Due(h) \cap EventsOf(r))'
  PROVE  (\/ e \in ToSet(seen[h])
          \/ Pending(r, h, e)
          \/ runs[r].at = "failed" /\ Latest(r, e))'
<1>1. /\ runs[r].at = "busy" /\ Len(log) \in Nat /\ DOMAIN log = 1..Len(log)
      /\ seen[h] \in Seq(Nat) /\ Standing' = Standing
  BY DEF Publishes, TurnsTo, Moves, Ends, Goes, Typed, Standing
<1>2. ASSUME e \in Due(h), e \in EventsOf(r)
      PROVE  e \in ToSet(seen[h]) \/ Pending(r, h, e)
  BY <1>1, <1>2 DEF Delivered
<1>3. CASE Publishes(r)
  <2>1. PICK n : n = Len(log) + 1
    OBVIOUS
  <2>2. /\ DOMAIN log' = 1..n /\ \A d \in 1..Len(log) : log'[d] = log[d]
        /\ log'[n].topic = Item(r).topic
        /\ EventsOf(r)' = EventsOf(r) \cup (IF Own(Item(r)) THEN {n} ELSE {})
        /\ EventsOf(r) \subseteq 1..Len(log)
    BY <1>3, <2>1, LogGrows
  <2>3. seen' = seen /\ Item(r).op = "publish"
    BY <1>3 DEF Publishes
  <2>4. PICK f \in Seq(Items) : f = Calls(Item(r).topic, n) /\ Goes(r, f)
    BY <1>3, <2>1 DEF Publishes, Goes
  <2>5. CASE e = n
    <3>1. PICK u : u = Item(r).topic
      OBVIOUS
    <3>2. <<u, h>> \in Standing \/ <<"*", h>> \in Standing
      BY <1>1, <2>2, <2>5, <3>1 DEF Due
    <3>3. (u \in DOMAIN Subscribed /\ Contains(subs[u], h)) \/ Contains(subs["*"], h)
      <4>1. \A x \in Standing : x[1] \in DOMAIN Subscribed /\ Contains(subs[x[1]], x[2])
        BY DEF StandingAreSubscribed, Standing
      <4>2. /\ <<u, h>>[1] = u /\ <<u, h>>[2] = h
            /\ <<"*", h>>[1] = "*" /\ <<"*", h>>[2] = h
        OBVIOUS
      <4> QED BY <3>2, <4>1, <4>2
    <3>4. Called(u) \in Seq(Handlers) /\ Contains(Called(u), h)
      BY <3>3, CalledIs
    <3>5. PICK hs \in Seq(Handlers) : hs = Called(u)
      BY <3>4
    <3>6. PICK i \in 1..Len(hs) : hs[i] = h
      BY <3>4, <3>5 DEF Contains
    <3>7. f = [k \in 1..Len(hs) |-> Call(hs[k], n)]
      BY <2>4, <3>1, <3>5 DEF Calls
    <3>8. i \in 1..Len(f) /\ f[i] = Call(h, n)
      <4>1. n \in Nat
        BY <1>1, <2>1
      <4>2. Len(f) = Len(hs)
        BY <3>7, <4>1, CallList
      <4> QED BY <3>6, <3>7, <4>2
    <3>9. PICK s : s = runs[r].todo
      OBVIOUS
    <3>10. PICK t : t = f \o Tail(s)
      OBVIOUS
    <3>11. s \in Seq(Items) /\ s # <<>>
      BY <2>4, <3>9, RunIs DEF Goes
    <3>12. i \in 1..Len(t) /\ t[i] = Call(h, e)
      <4>1. /\ Len(s) \in Nat \ {0} /\ Len(f) \in Nat /\ Len(t) = Len(f) + Len(s) - 1
            /\ \A k \in 1..Len(f) : t[k] = f[k]
        BY <3>10, <3>11, Spliced
      <4> QED BY <2>5, <3>8, <4>1
    <3>13. runs'[r].at = "busy" /\ runs'[r].todo = t
      BY <2>4, <3>9, <3>10 DEF Goes, RunsAfter
    <3> QED BY <3>12, <3>13 DEF Pending
  <2>6. CASE e # n
    <3>1. e \in EventsOf(r)
      BY <2>2, <2>6
    <3>2. e \in Due(h)
      BY <1>1, <2>2, <3>1 DEF Due
    <3>3. Item(r) # Call(h, e)
      BY <2>3 DEF Call
    <3> QED BY <1>2, <2>3, <2>4, <3>1, <3>2, <3>3, StaysPending
  <2> QED BY <2>5, <2>6
<1>4. ASSUME UNCHANGED log PROVE e \in Due(h) /\ e \in EventsOf(r)
  BY <1>1, <1>4 DEF Due, EventsOf
<1>5. CASE TurnsTo(r)
  <2>1. log' = log
    BY <1>5 DEF TurnsTo
  <2>2. e \in Due(h) /\ e \in EventsOf(r) /\ e \in Nat \ {0}
    BY <1>1, <1>4, <2>1 DEF EventsOf
  <2>3. PICK f \in Seq(Items) : Goes(r, f)
    BY <1>5 DEF TurnsTo, Goes
  <2>4. CASE e \in ToSet(seen[h])
    <3>1. PICK i \in DOMAIN seen[h] : seen[h][i] = e
      BY <2>4 DEF ToSet
    <3>2. PICK s \in Seq(Nat) : s = seen[h]
      BY <1>1
    <3>3. PICK x : x = Item(r).event
      OBVIOUS
    <3>4. seen'[h] = s \/ (x \in Nat /\ seen'[h] = Append(s, x))
      <4>1. x \in Nat
        BY <1>5, <3>3, RunIs, Kinds DEF TurnsTo, Goes
      <4> QED BY <1>5, <3>2, <3>3, <4>1 DEF TurnsTo, Typed
    <3>5. i \in DOMAIN seen'[h] /\ seen'[h][i] = e
      <4>1. i \in DOMAIN s /\ s[i] = e
        BY <3>1, <3>2
      <4>2. ASSUME x \in Nat PROVE i \in DOMAIN Append(s, x) /\ Append(s, x)[i] = e
        BY <4>1, <4>2
      <4> QED BY <3>4, <4>1, <4>2
    <3> QED BY <3>5 DEF ToSet
  <2>5. CASE Item(r) = Call(h, e)
    <3>1. Item(r).who = h /\ Item(r).event = e
      BY <2>5 DEF Call
    <3>2. seen'[h] = Append(seen[h], e)
      BY <1>5, <2>2, <3>1 DEF TurnsTo, Typed
    <3>3. PICK s \in Seq(Nat) : s = seen[h]
      BY <1>1
    <3>4. Len(s) + 1 \in DOMAIN Append(s, e) /\ Append(s, e)[Len(s) + 1] = e
      BY <2>2, <3>3
    <3> QED BY <3>2, <3>3, <3>4 DEF ToSet
  <2>6. CASE Pending(r, h, e) /\ Item(r) # Call(h, e)
    BY <2>3, <2>6, StaysPending
  <2> QED BY <1>2, <2>2, <2>4, <2>5, <2>6
<1>6. CASE Moves(r)
  <2>1. log' = log /\ seen' = seen /\ Item(r).op # "call"
    BY <1>6 DEF Moves
  <2>2. PICK f \in Seq(Items) : Goes(r, f)
    BY <1>6 DEF Moves, Goes
  <2>3. Item(r) # Call(h, e)
    BY <2>1 DEF Call
  <2> QED BY <1>2, <1>4, <2>1, <2>2, <2>3, StaysPending
<1>7. CASE Ends(r)
  <2>1. log' = log /\ seen' = seen
    BY <1>7 DEF Ends
  <2>2. CASE e \in ToSet(seen[h])
    BY <2>1, <2>2
  <2>3. CASE Pending(r, h, e)
    <3>1. PICK i \in 1..Len(runs[r].todo) : runs[r].todo[i] = Call(h, e)
      BY <2>3 DEF Pending
    <3>2. CallSound(r, runs[r].todo, i)
      BY CallsAreSound
    <3>3. Latest(r, e)
      <4>1. e # 0 /\ log[e].by = "run"
        BY <1>1, <1>4, <2>1 DEF EventsOf
      <4>2. runs[r].todo[i].op = "call" /\ runs[r].todo[i].event = e
        BY <3>1 DEF Call
      <4> QED BY <3>2, <4>1, <4>2 DEF CallSound
    <3>4. Latest(r, e)'
      BY <2>1, <3>3 DEF Latest, EventsOf
    <3>5. runs[r].todo # <<>>
      <4>1. Len(<<>>) = 0
        OBVIOUS
      <4> QED BY <3>1, <4>1
    <3> QED BY <1>7, <3>4, <3>5 DEF Ends, RunsAfter
  <2> QED BY <1>2, <1>4, <2>1, <2>2, <2>3
<1> QED BY <1>3, <1>5, <1>6, <1>7

LEMMA StepDue ==
  ASSUME DueInv, NEW r \in Runs, Step(r)
  PROVE  DueInv'
<1>1. /\ Typed /\ CallsFirst /\ SeenInOrder /\ StandingAreSubscribed /\ Delivered /\ Typed'
      /\ UNCHANGED <<subs, moved>> /\ runs[r].at = "busy"
      /\ Publishes(r) \/ TurnsTo(r) \/ Moves(r) \/ Ends(r)
  BY StepIs, StepTyped DEF DueInv
<1>2. CallsFirst' /\ SeenInOrder'
  BY <1>1, StepCallsFirst, StepSeen
<1>3. StandingAreSubscribed'
  BY <1>1 DEF StandingAreSubscribed, Standing
<1>4. /\ \A q \in Runs \ {r} : runs'[q] = runs[q] /\ EventsOf(q)' = EventsOf(q)
      /\ \A d \in DOMAIN log : d \in DOMAIN log' /\ log'[d] = log[d]
      /\ \A q \in Runs : EventsOf(q) \subseteq DOMAIN log
  <2>1. \A q \in Runs \ {r} : runs'[q] = runs[q]
    BY <1>1 DEF Publishes, TurnsTo, Moves, Ends, Goes, RunsAfter
  <2>2. CASE Publishes(r)
    <3>1. /\ Len(log) \in Nat /\ Len(log') = Len(log) + 1
          /\ DOMAIN log = 1..Len(log) /\ DOMAIN log' = 1..(Len(log) + 1)
          /\ \A e \in 1..Len(log) : log'[e] = log[e]
          /\ \A q \in Runs \ {r} : EventsOf(q)' = EventsOf(q)
      BY <1>1, <2>2, LogGrows
    <3> QED BY <2>1, <3>1 DEF EventsOf
  <2>3. CASE TurnsTo(r) \/ Moves(r) \/ Ends(r)
    <3>1. log' = log
      BY <2>3 DEF TurnsTo, Moves, Ends
    <3> QED BY <2>1, <3>1 DEF EventsOf
  <2> QED BY <1>1, <2>2, <2>3
<1>5. ASSUME NEW h \in Handlers, NEW q \in Runs, NEW e, (e \in Due(h) \cap EventsOf(q))'
      PROVE  (\/ e \in ToSet(seen[h])
              \/ Pending(q, h, e)
              \/ runs[q].at = "failed" /\ Latest(q, e))'
  <2>1. CASE q = r
    BY <1>1, <1>5, <2>1, StepDelivers
  <2>2. CASE q # r
    <3>1. e \in Due(h) \cap EventsOf(q)
      BY <1>1, <1>4, <1>5, <2>2 DEF Due, Standing
    <3>2. e \in ToSet(seen[h]) => (e \in ToSet(seen[h]))'
      <4>1. CASE seen'[h] = seen[h]
        BY <4>1
      <4>2. CASE TurnsTo(r) /\ seen'[h] # seen[h]
        <5>1. PICK s \in Seq(Nat) : s = seen[h]
          BY <1>1 DEF Typed
        <5>2. PICK x : x = Item(r).event
          OBVIOUS
        <5>3. x \in Nat /\ seen'[h] = Append(s, x)
          <6>1. x \in Nat
            BY <4>2, <5>2, <1>1, RunIs, Kinds DEF TurnsTo, Goes
          <6> QED BY <1>1, <4>2, <5>1, <5>2, <6>1 DEF TurnsTo, Typed
        <5>4. \A i \in DOMAIN s : i \in DOMAIN Append(s, x) /\ Append(s, x)[i] = s[i]
          BY <5>3
        <5> QED BY <5>1, <5>3, <5>4 DEF ToSet
      <4>3. CASE Publishes(r) \/ Moves(r) \/ Ends(r)
        BY <4>3 DEF Publishes, Moves, Ends
      <4> QED BY <1>1, <4>1, <4>2, <4>3
    <3>3. Pending(q, h, e) => Pending(q, h, e)'
      BY <1>4, <2>2 DEF Pending, Call
    <3>4. Latest(q, e) => Latest(q, e)'
      BY <1>4, <2>2 DEF Latest
    <3> QED BY <1>1, <1>4, <2>2, <3>1, <3>2, <3>3, <3>4 DEF Delivered
  <2> QED BY <2>1, <2>2
<1>6. Delivered'
  BY <1>5 DEF Delivered
<1>7. \A q \in Runs : runs'[q].at = "idle" => EventsOf(q)' = {}
  <2>1. CASE runs'[r].at = "idle"
    BY <1>1, <2>1 DEF Publishes, TurnsTo, Moves, Ends, Goes, RunsAfter
  <2>2. ASSUME NEW q \in Runs \ {r}, runs'[q].at = "idle" PROVE EventsOf(q)' = {}
    BY <1>4, <2>2 DEF DueInv
  <2>3. runs'[r].at # "idle"
    BY <1>1 DEF Publishes, TurnsTo, Moves, Ends, Goes, RunsAfter
  <2> QED BY <2>2, <2>3
<1> QED BY <1>1, <1>2, <1>3, <1>6, <1>7 DEF DueInv

LEMMA CallsUntouched ==
  ASSUME CallsFirst, UNCHANGED <<log, runs>>
  PROVE  CallsFirst'
<1>1. \A q \in Runs : EventsOf(q)' = EventsOf(q)
  BY DEF EventsOf
<1>2. ASSUME NEW q \in Runs, NEW i \in 1..Len(runs'[q].todo)
      PROVE  CallSound(q, runs[q].todo, i)'
  <2>1. runs'[q] = runs[q] /\ CallSound(q, runs[q].todo, i)
    BY <1>2, CallsAreSound
  <2> QED BY <1>1, <2>1 DEF CallSound, Latest
<1> QED BY <1>2 DEF CallsFirst, CallSound

LEMMA SeenUntouched ==
  ASSUME SeenInOrder, UNCHANGED <<log, seen>>
  PROVE  SeenInOrder'
<1>1. \A q \in Runs : EventsOf(q)' = EventsOf(q)
  BY DEF EventsOf
<1> QED BY <1>1 DEF SeenInOrder

LEMMA NextDue == DueInv /\ [Next]_vars => DueInv'
<1> SUFFICES ASSUME DueInv, [Next]_vars PROVE DueInv'
  OBVIOUS
<1>1. /\ Typed /\ CallsFirst /\ SeenInOrder /\ StandingAreSubscribed /\ Delivered /\ Typed'
      /\ \A r \in Runs : runs[r].at = "idle" => EventsOf(r) = {}
  BY NextTyped DEF DueInv
<1>2. ASSUME UNCHANGED <<subs, log, runs, seen, moved>> PROVE DueInv'
  <2>1. CallsFirst' /\ SeenInOrder' /\ StandingAreSubscribed'
    <3>1. CallsFirst'
      BY <1>1, <1>2, CallsUntouched
    <3>2. SeenInOrder'
      BY <1>1, <1>2, SeenUntouched
    <3>3. StandingAreSubscribed'
      BY <1>1, <1>2 DEF StandingAreSubscribed, Standing
    <3> QED BY <3>1, <3>2, <3>3
  <2>2. Delivered'
    BY <1>1, <1>2 DEF Delivered, Due, Standing, EventsOf, Latest, Pending, Call
  <2>3. \A r \in Runs : runs'[r].at = "idle" => EventsOf(r)' = {}
    BY <1>1, <1>2 DEF EventsOf
  <2> QED BY <1>1, <2>1, <2>2, <2>3 DEF DueInv
<1>3. CASE Boot
  BY <1>1, <1>2, <1>3, BootIs
<1>4. ASSUME NEW t \in DOMAIN Subscribed, NEW h \in Handlers, Subscribe(t, h) \/ Unsubscribe(t, h)
      PROVE  DueInv'
  <2>1. /\ moved' = moved \cup {<<t, h>>}
        /\ \A u \in DOMAIN Subscribed, g \in Handlers :
             <<u, g>> # <<t, h>> /\ Contains(subs[u], g) => Contains(subs'[u], g)
        /\ UNCHANGED <<log, runs, seen>>
    BY <1>1, <1>4, MovingIs
  <2>2. \A s \in Standing' : s \in Standing /\ s # <<t, h>>
    BY <2>1 DEF Standing
  <2>3. CallsFirst' /\ SeenInOrder'
    <3>1. CallsFirst'
      BY <1>1, <2>1, CallsUntouched
    <3>2. SeenInOrder'
      BY <1>1, <2>1, SeenUntouched
    <3> QED BY <3>1, <3>2
  <2>4. StandingAreSubscribed'
    <3>1. \A s \in Standing' : s[1] \in DOMAIN Subscribed /\ s[2] \in Handlers
                               /\ s = <<s[1], s[2]>>
      BY DEF Standing
    <3> QED BY <1>1, <2>1, <2>2, <3>1 DEF StandingAreSubscribed
  <2>5. Delivered'
    <3>1. \A g \in Handlers : Due(g)' \subseteq Due(g)
      BY <2>1, <2>2 DEF Due
    <3> QED BY <1>1, <2>1, <3>1 DEF Delivered, EventsOf, Latest, Pending, Call
  <2>6. \A r \in Runs : runs'[r].at = "idle" => EventsOf(r)' = {}
    BY <1>1, <2>1 DEF EventsOf
  <2> QED BY <1>1, <2>3, <2>4, <2>5, <2>6 DEF DueInv
<1>5. ASSUME NEW r \in Runs, Begin(r) PROVE DueInv'
  <2>1. PICK f \in Blocks : RunsAfter(r, "busy", f)
    BY <1>1, <1>5, BeginIs
  <2>2. UNCHANGED <<subs, log, seen, moved>> /\ runs[r].at = "idle"
    BY <1>1, <1>5, BeginIs
  <2>3. \A q \in Runs : EventsOf(q)' = EventsOf(q)
    BY <2>2 DEF EventsOf
  <2>4. CallsFirst'
    <3>1. ASSUME NEW q \in Runs, NEW i \in 1..Len(runs'[q].todo)
          PROVE  CallSound(q, runs[q].todo, i)'
      <4>1. CASE q = r
        BY <2>1, <3>1, <4>1 DEF RunsAfter, Blocks, Silent, CallSound
      <4>2. CASE q # r
        <5>1. runs'[q] = runs[q]
          BY <2>1, <4>2 DEF RunsAfter
        <5>2. CallSound(q, runs[q].todo, i)
          BY <1>1, <3>1, <5>1, CallsAreSound
        <5> QED BY <2>2, <2>3, <5>1, <5>2 DEF CallSound, Latest
      <4> QED BY <4>1, <4>2
    <3> QED BY <3>1 DEF CallsFirst, CallSound
  <2>5. SeenInOrder' /\ StandingAreSubscribed'
    BY <1>1, <2>2, SeenUntouched DEF StandingAreSubscribed, Standing
  <2>6. Delivered'
    <3> SUFFICES ASSUME NEW h \in Handlers, NEW q \in Runs, NEW e,
                        (e \in Due(h) \cap EventsOf(q))'
                 PROVE  (\/ e \in ToSet(seen[h])
                         \/ Pending(q, h, e)
                         \/ runs[q].at = "failed" /\ Latest(q, e))'
      BY DEF Delivered
    <3>1. e \in Due(h) /\ e \in EventsOf(q)
      BY <2>2, <2>3 DEF Due, Standing
    <3>2. q # r
      BY <1>1, <2>2, <3>1
    <3>3. runs'[q] = runs[q]
      BY <2>1, <3>2 DEF RunsAfter
    <3> QED BY <1>1, <2>2, <2>3, <3>1, <3>3 DEF Delivered, Pending, Call, Latest
  <2>7. \A q \in Runs : runs'[q].at = "idle" => EventsOf(q)' = {}
    BY <1>1, <2>1, <2>2, <2>3 DEF RunsAfter
  <2> QED BY <1>1, <2>4, <2>5, <2>6, <2>7 DEF DueInv
<1>6. ASSUME NEW r \in Runs, Step(r) PROVE DueInv'
  BY <1>6, StepDue
<1>7. CASE UNCHANGED vars
  BY <1>2, <1>7 DEF vars, bus
<1> QED BY <1>3, <1>4, <1>5, <1>6, <1>7 DEF Next

LEMMA DueIsHeard == DueInv => SubscribersMissOnlyTheLast
<1> SUFFICES ASSUME DueInv, NEW h \in Handlers, NEW r \in Runs
             PROVE  LET own == {i \in DOMAIN seen[h] : seen[h][i] \in EventsOf(r)}
                        due == Due(h) \cap EventsOf(r)
                    IN /\ \A i, k \in own : i < k => seen[h][i] <= seen[h][k]
                       /\ \A e \in due \ ToSet(seen[h]) :
                            /\ \A d \in EventsOf(r) : d <= e
                            /\ runs[r].at # "ok"
  BY DEF SubscribersMissOnlyTheLast
<1>1. Typed /\ CallsFirst /\ SeenInOrder /\ Delivered
  BY DEF DueInv
<1>2. DOMAIN seen[h] = 1..Len(seen[h]) /\ DOMAIN log = 1..Len(log) /\ Len(log) \in Nat
  BY <1>1 DEF Typed
<1>3. \A i, k \in {j \in DOMAIN seen[h] : seen[h][j] \in EventsOf(r)} :
        i < k => seen[h][i] <= seen[h][k]
  BY <1>1, <1>2 DEF SeenInOrder
<1>4. ASSUME NEW e \in Due(h) \cap EventsOf(r), e \notin ToSet(seen[h])
      PROVE  Latest(r, e) /\ runs[r].at # "ok"
  <2>1. CASE Pending(r, h, e)
    <3>1. PICK i \in 1..Len(runs[r].todo) : runs[r].todo[i] = Call(h, e)
      BY <2>1 DEF Pending
    <3>2. CallSound(r, runs[r].todo, i)
      BY <1>1, CallsAreSound
    <3>3. e # 0 /\ log[e].by = "run"
      BY <1>2 DEF EventsOf
    <3>4. runs[r].todo[i].op = "call" /\ runs[r].todo[i].event = e
      BY <3>1 DEF Call
    <3> QED BY <2>1, <3>2, <3>3, <3>4 DEF CallSound, Pending
  <2>2. CASE runs[r].at = "failed" /\ Latest(r, e)
    BY <2>2
  <2> QED BY <1>1, <1>4, <2>1, <2>2 DEF Delivered
<1> QED BY <1>3, <1>4 DEF Latest

(* A subscriber that stays on gets the events of a run in the order they    *)
(* were published, all of them if the run succeeds, and all but at most the *)
(* last one if it does not, whatever other subscribers join, leave, wait,   *)
(* raise or publish (event_bus.py:67).                                      *)
THEOREM SubscribersHearInOrder == Spec => []SubscribersMissOnlyTheLast
<1>1. Init => DueInv
  <2> SUFFICES ASSUME Init PROVE DueInv
    OBVIOUS
  <2>1. /\ log = <<>> /\ DOMAIN log = {} /\ Len(<<>>) = 0
        /\ \A r \in Runs : runs[r].todo = <<>> /\ runs[r].at = "idle"
        /\ \A h \in Handlers : seen[h] = <<>>
        /\ subs = Subscribed /\ moved = {}
    BY DEF Init
  <2>2. CallsFirst /\ SeenInOrder
    BY <2>1 DEF CallsFirst, SeenInOrder
  <2>3. Delivered /\ \A r \in Runs : EventsOf(r) = {}
    BY <2>1 DEF Delivered, EventsOf
  <2>4. StandingAreSubscribed
    BY <2>1 DEF StandingAreSubscribed, Standing
  <2> QED BY <2>2, <2>3, <2>4, InitTyped DEF DueInv
<1> QED BY <1>1, DueIsHeard, NextDue, PTL DEF Spec

-----------------------------------------------------------------------------
(* The protocol of the runs.                                                *)

(* What a run has announced, and what it still will, is what its kind       *)
(* prescribes, unless the run is bound to fail first.                       *)
Keeps(trace, todo, topics) == Doomed(todo) \/ trace \o Will(todo) = topics

TraceSound ==
  \A r \in Runs :
    /\ runs[r].at = "idle" => TraceOf(r) = <<>>
    /\ runs[r].at = "busy" => Keeps(TraceOf(r), runs[r].todo, Topics(asked[r]))

TraceInv == Typed /\ TraceSound

(* One list for each event of the log: its topic, if r announced it itself. *)
Pieces(l, r) ==
  [i \in 1..Len(l) |-> IF l[i].run = r /\ l[i].by = "run" THEN <<l[i].topic>> ELSE <<>>]

LEMMA PiecesAre ==
  ASSUME NEW l \in Seq(Published), NEW r
  PROVE  /\ Pieces(l, r) \in Seq(Seq(Names)) /\ Len(Pieces(l, r)) = Len(l) /\ Len(l) \in Nat
         /\ \A i \in 1..Len(l) : Pieces(l, r)[i] =
              IF l[i].run = r /\ l[i].by = "run" THEN <<l[i].topic>> ELSE <<>>
<1> DEFINE f == Pieces(l, r)
<1>1. Len(l) \in Nat /\ \A i \in 1..Len(l) : l[i].topic \in Names
  <2>1. Len(l) \in Nat /\ \A i \in 1..Len(l) : l[i] \in Published
    OBVIOUS
  <2> QED BY <2>1 DEF Published
<1>2. f = [i \in 1..Len(l) |-> f[i]] /\ \A i \in 1..Len(l) : f[i] =
        IF l[i].run = r /\ l[i].by = "run" THEN <<l[i].topic>> ELSE <<>>
  BY DEF Pieces
<1>3. \A i \in 1..Len(l) : f[i] \in Seq(Names)
  <2> SUFFICES ASSUME NEW i \in 1..Len(l) PROVE f[i] \in Seq(Names)
    OBVIOUS
  <2>1. <<l[i].topic>> \in Seq(Names) /\ <<>> \in Seq(Names)
    BY <1>1
  <2> QED BY <1>2, <2>1
<1> HIDE DEF f
<1>4. f \in Seq(Seq(Names)) /\ Len(f) = Len(l)
  BY <1>1, <1>2, <1>3, ListIs
<1> QED BY <1>1, <1>2, <1>4 DEF f

LEMMA TraceType ==
  ASSUME Typed, NEW r
  PROVE  TraceOf(r) = FlattenSeq(Pieces(log, r)) /\ TraceOf(r) \in Seq(Names)
<1>1. Pieces(log, r) \in Seq(Seq(Names))
  BY PiecesAre DEF Typed
<1>2. TraceOf(r) = FlattenSeq(Pieces(log, r))
  BY DEF TraceOf, Pieces
<1> QED BY <1>1, <1>2, FlattenType

LEMMA PiecesGrow ==
  ASSUME NEW l \in Seq(Published), NEW x \in Published, NEW r
  PROVE  Pieces(Append(l, x), r) =
           Append(Pieces(l, r), IF x.run = r /\ x.by = "run" THEN <<x.topic>> ELSE <<>>)
<1> DEFINE m == Append(l, x)
           p == IF x.run = r /\ x.by = "run" THEN <<x.topic>> ELSE <<>>
           f == Pieces(l, r)
           g == Pieces(m, r)
<1>1. /\ m \in Seq(Published) /\ Len(m) = Len(l) + 1 /\ m[Len(l) + 1] = x
      /\ Len(l) \in Nat /\ \A i \in 1..Len(l) : m[i] = l[i]
  OBVIOUS
<1>2. p \in Seq(Names)
  <2>1. x.topic \in Names
    BY DEF Published
  <2>2. <<x.topic>> \in Seq(Names) /\ <<>> \in Seq(Names)
    BY <2>1
  <2> QED BY <2>2
<1> HIDE DEF m
<1>3. /\ f \in Seq(Seq(Names)) /\ Len(f) = Len(l)
      /\ g \in Seq(Seq(Names)) /\ Len(g) = Len(m)
  BY <1>1, PiecesAre
<1>4. \A i \in 1..Len(l) : g[i] = f[i]
  <2> SUFFICES ASSUME NEW i \in 1..Len(l) PROVE g[i] = f[i]
    OBVIOUS
  <2>1. i \in 1..Len(m) /\ m[i] = l[i]
    BY <1>1
  <2>2. g[i] = IF m[i].run = r /\ m[i].by = "run" THEN <<m[i].topic>> ELSE <<>>
    BY <1>1, <2>1, PiecesAre
  <2>3. f[i] = IF l[i].run = r /\ l[i].by = "run" THEN <<l[i].topic>> ELSE <<>>
    BY PiecesAre
  <2> HIDE DEF f, g
  <2> QED BY <2>1, <2>2, <2>3
<1>5. g[Len(l) + 1] = p
  <2>1. Len(l) + 1 \in 1..Len(m)
    BY <1>1
  <2> QED BY <1>1, <2>1, PiecesAre
<1> HIDE DEF p, f, g
<1>6. /\ Append(f, p) \in Seq(Seq(Names)) /\ Len(Append(f, p)) = Len(f) + 1
      /\ Append(f, p)[Len(f) + 1] = p /\ \A i \in 1..Len(f) : Append(f, p)[i] = f[i]
  BY <1>2, <1>3, AppendProperties
<1>7. ASSUME NEW i \in 1..Len(g) PROVE g[i] = Append(f, p)[i]
  <2>1. i \in 1..Len(l) \/ i = Len(l) + 1
    BY <1>1, <1>3
  <2> QED BY <1>3, <1>4, <1>5, <1>6, <2>1
<1>8. g = Append(f, p)
  <2>1. Len(g) = Len(Append(f, p))
    BY <1>1, <1>3, <1>6
  <2> QED BY <1>3, <1>6, <1>7, <2>1, SeqEqual
<1> QED BY <1>8 DEF f, g, p, m

(* An event adds its topic to the trace of the run that announced it.       *)
LEMMA TraceGrows ==
  ASSUME Typed, NEW r \in Runs, Publishes(r), NEW q \in Runs
  PROVE  TraceOf(q)' = IF q = r /\ Own(Item(r)) THEN TraceOf(q) \o <<Item(r).topic>>
                       ELSE TraceOf(q)
<1> DEFINE x == [run |-> r, topic |-> Item(r).topic, by |-> Item(r).by]
<1>1. Item(r).op = "publish" /\ Item(r) \in Items
  BY RunIs DEF Publishes, Goes
<1>2. x \in Published /\ Item(r).topic \in Names
  BY <1>1, Kinds DEF Published
<1>3. x.run = r /\ x.topic = Item(r).topic /\ (x.by = "run" <=> Own(Item(r)))
  BY <1>1 DEF Own
<1>4. log' = Append(log, x) /\ log \in Seq(Published)
  BY DEF Publishes, Typed
<1> HIDE DEF x
<1> DEFINE p == IF x.run = q /\ x.by = "run" THEN <<x.topic>> ELSE <<>>
           f == Pieces(log, q)
<1>5. Pieces(Append(log, x), q) = Append(f, p)
  BY <1>2, <1>4, PiecesGrow
<1>6. TraceOf(q)' = FlattenSeq(Append(f, p))
  <2>1. TraceOf(q)' = FlattenSeq(Pieces(log', q))
    BY DEF TraceOf, Pieces
  <2> QED BY <1>4, <1>5, <2>1
<1>7. f \in Seq(Seq(Names)) /\ p \in Seq(Names)
  <2>1. <<x.topic>> \in Seq(Names) /\ <<>> \in Seq(Names)
    BY <1>2, <1>3
  <2> QED BY <1>4, <2>1, PiecesAre
<1>8. FlattenSeq(f) = TraceOf(q) /\ TraceOf(q) \in Seq(Names)
  BY TraceType
<1>9. p = IF q = r /\ Own(Item(r)) THEN <<Item(r).topic>> ELSE <<>>
  BY <1>3
<1> HIDE DEF p, f
<1>10. FlattenSeq(Append(f, p)) = TraceOf(q) \o p
  BY <1>7, <1>8, FlattenAppend
<1>11. TraceOf(q) \o <<>> = TraceOf(q)
  BY <1>8, ConcatEmptySeq
<1> QED BY <1>6, <1>9, <1>10, <1>11

(* A run that is bound to fail announces nothing next, and stays bound.     *)
LEMMA DoomedGoesOn ==
  ASSUME NEW s \in Seq(Items), Doomed(s)
  PROVE  /\ s # <<>>
         /\ Head(s).op # "raise" => Noise(Head(s)) /\ Doomed(Tail(s))
<1>1. PICK k \in 1..Len(s) : s[k].op = "raise" /\ \A j \in 1..(k - 1) : Noise(s[j])
  BY DEF Doomed
<1>2. s # <<>> /\ Len(s) \in Nat
  <2>1. Len(<<>>) = 0
    OBVIOUS
  <2> QED BY <1>1, <2>1
<1>3. /\ Head(s) = s[1] /\ Tail(s) \in Seq(Items) /\ Len(Tail(s)) = Len(s) - 1
      /\ \A i \in 1..Len(Tail(s)) : Tail(s)[i] = s[i + 1]
  BY <1>2
<1> DEFINE t == Tail(s)
<1> HIDE DEF t
<1>4. ASSUME Head(s).op # "raise" PROVE Noise(Head(s)) /\ Doomed(t)
  <2>1. k > 1 /\ k - 1 \in 1..Len(t) /\ (k - 1) + 1 = k
    BY <1>1, <1>2, <1>3, <1>4 DEF t
  <2>2. Noise(s[1])
    BY <1>1, <2>1
  <2>3. t[k - 1] = s[k]
    BY <1>3, <2>1 DEF t
  <2>4. ASSUME NEW j \in 1..((k - 1) - 1) PROVE Noise(t[j])
    <3>1. j \in 1..Len(t) /\ j + 1 \in 1..(k - 1)
      BY <2>1
    <3>2. t[j] = s[j + 1]
      BY <1>3, <3>1 DEF t
    <3> QED BY <1>1, <3>1, <3>2
  <2>5. Doomed(t)
    BY <1>1, <2>1, <2>3, <2>4 DEF Doomed
  <2> QED BY <1>3, <2>2, <2>5
<1> QED BY <1>2, <1>4 DEF t

LEMMA OneIs ==
  ASSUME NEW T, NEW x \in T
  PROVE  <<x>> \in Seq(T) /\ Len(<<x>>) = 1 /\ <<x>>[1] = x
OBVIOUS

LEMMA OneMore ==
  ASSUME NEW T, NEW s \in Seq(T), NEW x \in T
  PROVE  /\ s \o <<x>> = Append(s, x) /\ s \o <<x>> \in Seq(T) /\ Len(s) \in Nat
         /\ Len(s \o <<x>>) = Len(s) + 1 /\ (s \o <<x>>)[Len(s) + 1] = x
<1>1. s \o <<x>> = Append(s, x)
  BY AppendIsConcat
<1>2. /\ Append(s, x) \in Seq(T) /\ Len(Append(s, x)) = Len(s) + 1
      /\ Append(s, x)[Len(s) + 1] = x
  BY AppendProperties
<1> QED BY <1>1, <1>2

(* What is put in place of the head, and what is still announced then.      *)
LEMMA KeptByNoise ==
  ASSUME NEW s \in Seq(Items), s # <<>>, Head(s).op # "raise", ~Own(Head(s)),
         NEW f \in Seq(Items), Fits(Head(s), f),
         NEW trace \in Seq(Names), NEW topics, Keeps(trace, s, topics)
  PROVE  Keeps(trace, f \o Tail(s), topics)
<1> DEFINE t == Tail(s)
           x == Head(s)
<1>1. t \in Seq(Items) /\ x \in Items
  OBVIOUS
<1>2. CASE x.op # "steps"
  <2>1. \A i \in 1..Len(f) : Noise(f[i])
    BY <1>2 DEF Fits
  <2>2. Noise(x)
    BY <1>2 DEF Noise
  <2>3. CASE Doomed(s)
    <3>1. Doomed(t)
      BY <2>3, DoomedGoesOn
    <3>2. Doomed(f \o t)
      BY <1>1, <2>1, <3>1, DoomedGrows
    <3> QED BY <3>2 DEF Keeps
  <2>4. CASE trace \o Will(s) = topics
    <3>1. Will(s) = ItemTopics(x) \o Will(t) /\ ItemTopics(x) = <<>>
      BY <1>1, <2>2, WillOfFirst, ItemTopicsIs
    <3>2. Will(f \o t) = Will(f) \o Will(t) /\ Will(f) = <<>>
      BY <1>1, <2>1, WillConcat, WillOfNoise
    <3> QED BY <2>4, <3>1, <3>2 DEF Keeps
  <2> QED BY <2>3, <2>4 DEF Keeps
<1>3. CASE x.op = "steps"
  <2>1. ~Doomed(s)
    BY <1>3, DoomedGoesOn DEF Noise
  <2>2. trace \o Will(s) = topics
    BY <2>1 DEF Keeps
  <2>3. Will(s) = ItemTopics(x) \o Will(t) /\ ItemTopics(x) = StepsTopics(x.left)
    BY <1>1, <1>3, WillOfFirst, ItemTopicsIs
  <2>4. CASE Doomed(f)
    <3>1. Doomed(f \o t)
      BY <1>1, <2>4, DoomedGrows
    <3> QED BY <3>1 DEF Keeps
  <2>5. CASE Will(f) = StepsTopics(x.left)
    <3>1. Will(f \o t) = Will(f) \o Will(t)
      BY <1>1, WillConcat
    <3> QED BY <2>2, <2>3, <2>5, <3>1 DEF Keeps
  <2> QED BY <1>3, <2>4, <2>5 DEF Fits
<1> QED BY <1>2, <1>3

LEMMA RegroupNames ==
  \A a, b, c \in Seq(Names) : (a \o b) \o c = a \o (b \o c)
BY Regroup, SMTT(30)

LEMMA KeptByAnnouncing ==
  ASSUME NEW s \in Seq(Items), s # <<>>, Own(Head(s)),
         NEW f \in Seq(Items), \A i \in 1..Len(f) : Noise(f[i]),
         NEW trace \in Seq(Names), NEW topics, Keeps(trace, s, topics)
  PROVE  /\ Keeps(trace \o <<Head(s).topic>>, f \o Tail(s), topics)
         /\ topics \in Seq(Names) /\ Len(trace) < Len(topics)
         /\ topics[Len(trace) + 1] = Head(s).topic
<1> DEFINE t == Tail(s)
           x == Head(s)
           w == Will(t)
           e == <<x.topic>>
<1>1. t \in Seq(Items) /\ x \in Items
  OBVIOUS
<1>2. x.topic \in Names /\ x.op = "publish"
  BY <1>1, ItemTopicsIs DEF Own
<1>3. ~Doomed(s)
  BY <1>2, DoomedGoesOn DEF Noise
<1>4. trace \o Will(s) = topics
  BY <1>3 DEF Keeps
<1>5. Will(s) = e \o w
  BY <1>1, WillOfFirst, ItemTopicsIs
<1>6. w \in Seq(Names) /\ e \in Seq(Names) /\ Len(e) = 1 /\ e[1] = x.topic
  <2>1. w \in Seq(Names)
    BY <1>1, EachIs
  <2>2. e \in Seq(Names) /\ Len(e) = 1 /\ e[1] = x.topic
    BY <1>2, OneIs
  <2> QED BY <2>1, <2>2
<1>7. Will(f \o t) = w
  <2>1. Will(f \o t) = Will(f) \o w /\ Will(f) = <<>>
    BY <1>1, WillConcat, WillOfNoise
  <2> HIDE DEF w
  <2> QED BY <1>6, <2>1, ConcatEmptySeq
<1> HIDE DEF w, e, x, t
<1>8. (trace \o e) \o w = trace \o (e \o w) /\ trace \o e \in Seq(Names)
  <2>1. (trace \o e) \o w = trace \o (e \o w)
    BY <1>6, RegroupNames, Zenon
  <2>2. trace \o e \in Seq(Names)
    BY <1>6, ConcatIs, Zenon
  <2> QED BY <2>1, <2>2
<1>9. (trace \o e) \o w = topics
  BY <1>4, <1>5, <1>8
<1>10. /\ Len(trace \o e) = Len(trace) + 1 /\ Len(trace) \in Nat
       /\ (trace \o e)[Len(trace) + 1] = x.topic
  BY <1>2, OneMore DEF e
<1> DEFINE d == trace \o e
<1>11. d \in Seq(Names) /\ d \o w = topics /\ Len(d) = Len(trace) + 1
       /\ d[Len(trace) + 1] = x.topic
  BY <1>8, <1>9, <1>10
<1> HIDE DEF d
<1>12. /\ d \o w \in Seq(Names) /\ Len(d \o w) = Len(d) + Len(w) /\ Len(w) \in Nat
       /\ \A i \in 1..Len(d) : (d \o w)[i] = d[i]
  <2>1. w \in Seq(Names) /\ d \in Seq(Names)
    BY <1>6, <1>11
  <2> QED BY <2>1, ConcatIs, Zenon
<1>13. Len(trace) + 1 \in 1..Len(d)
  BY <1>10, <1>11
<1>14. /\ topics \in Seq(Names) /\ Len(trace) < Len(topics)
       /\ topics[Len(trace) + 1] = x.topic
  BY <1>10, <1>11, <1>12, <1>13
<1>15. Keeps(trace \o e, f \o t, topics)
  BY <1>7, <1>9 DEF Keeps
<1> QED BY <1>14, <1>15 DEF e, x, t

-----------------------------------------------------------------------------

TheExpected == [r \in Runs |-> Topics(asked[r])]
TheTraces == [r \in Runs |-> TraceOf(r)]
TheOutcomes == [r \in Runs |-> IF runs[r].at \in {"ok", "failed"} THEN runs[r].at ELSE "open"]
TheProtocol == <<TheExpected, TheTraces, TheOutcomes>>

LEMMA ProtocolDefinitions ==
  /\ Protocol!Spec <=> Protocol!Init /\ [][Protocol!Next]_TheProtocol
  /\ Protocol!Init <=> /\ TheExpected \in [Runs -> Seq(Announced)]
                       /\ TheTraces = [r \in Runs |-> <<>>]
                       /\ TheOutcomes = [r \in Runs |-> "open"]
BY DEF Protocol!Spec, Protocol!Init, Protocol!Next, Protocol!Announce, Protocol!End,
       TheProtocol, TheExpected, TheTraces, TheOutcomes

(* An event of the run itself is the next one of its kind.                  *)
LEMMA Announcing ==
  ASSUME NEW r \in Runs, TheOutcomes[r] = "open",
         Len(TraceOf(r)) < Len(Topics(asked[r])), NEW t, t = Topics(asked[r])[Len(TraceOf(r)) + 1],
         \A q \in Runs : TraceOf(q)' = IF q = r THEN Append(TraceOf(q), t) ELSE TraceOf(q),
         UNCHANGED <<TheExpected, TheOutcomes>>
  PROVE  Protocol!Next
<1>1. /\ TheTraces[r] = TraceOf(r) /\ TheExpected[r] = Topics(asked[r])
      /\ TheTraces' = [q \in Runs |-> TraceOf(q)']
  BY DEF TheTraces, TheExpected
<1>2. TheTraces' = [TheTraces EXCEPT ![r] = Append(@, t)]
  BY <1>1 DEF TheTraces
<1>3. t = TheExpected[r][Len(TheTraces[r]) + 1] /\ Len(TheTraces[r]) < Len(TheExpected[r])
  BY <1>1
<1>4. TheTraces' = [TheTraces EXCEPT ![r] = Append(@, TheExpected[r][Len(@) + 1])]
  BY <1>2, <1>3
<1>5. Protocol!Announce(r)
  BY <1>3, <1>4 DEF Protocol!Announce, TheTraces, TheExpected, TheOutcomes
<1> QED BY <1>5 DEF Protocol!Next

LEMMA Ending ==
  ASSUME NEW r \in Runs, NEW how \in {"ok", "failed"}, TheOutcomes[r] = "open",
         how = "ok" => TraceOf(r) = Topics(asked[r]),
         TheOutcomes' = [TheOutcomes EXCEPT ![r] = how], UNCHANGED <<TheExpected, TheTraces>>
  PROVE  Protocol!Next
<1>1. TheTraces[r] = TraceOf(r) /\ TheExpected[r] = Topics(asked[r])
  BY DEF TheTraces, TheExpected
<1>2. how = "ok" => TheTraces[r] = TheExpected[r]
  BY <1>1
<1>3. Protocol!End(r, how)
  BY <1>2 DEF Protocol!End, TheTraces, TheExpected, TheOutcomes
<1> QED BY <1>3 DEF Protocol!Next

(* A step of a run keeps the others' traces, its own is still sound, and    *)
(* the protocol allows what became of it.                                   *)
LEMMA StepKeeps ==
  ASSUME Typed, Typed', TraceSound, NEW r \in Runs, UNCHANGED asked,
         Publishes(r) \/ TurnsTo(r) \/ Moves(r) \/ Ends(r)
  PROVE  TraceSound' /\ (Protocol!Next \/ UNCHANGED TheProtocol)
<1> DEFINE s == runs[r].todo
           x == Item(r)
           topics == Topics(asked[r])
           trace == TraceOf(r)
<1>1. /\ s \in Seq(Items) /\ (s # <<>> => x = Head(s) /\ x \in Items)
      /\ trace \in Seq(Names)
  BY RunIs, TraceType DEF Item
<1>2. runs[r].at = "busy" /\ Keeps(trace, s, topics)
  BY DEF TraceSound, Publishes, TurnsTo, Moves, Ends, Goes
<1>3. \A q \in Runs \ {r} : runs'[q] = runs[q]
  BY DEF Publishes, TurnsTo, Moves, Ends, Goes, RunsAfter
<1>4. \A q \in Runs : Topics(asked[q])' = Topics(asked[q])
  BY DEF Topics, StepsTopics
<1>5. TheExpected' = TheExpected
  BY <1>4 DEF TheExpected
<1>6. ASSUME NEW f \in Seq(Items), Goes(r, f),
             \A q \in Runs \ {r} : TraceOf(q)' = TraceOf(q),
             Keeps(TraceOf(r)', f \o Tail(s), topics)
      PROVE  TraceSound' /\ UNCHANGED TheOutcomes
  <2>1. runs'[r].at = "busy" /\ runs'[r].todo = f \o Tail(s) /\ runs' \in [Runs -> Run]
    BY <1>6 DEF Goes, RunsAfter
  <2>2. ASSUME NEW q \in Runs
        PROVE  /\ runs'[q].at = "idle" => TraceOf(q)' = <<>>
               /\ runs'[q].at = "busy" => Keeps(TraceOf(q)', runs'[q].todo, Topics(asked[q])')
    <3>1. CASE q = r
      BY <1>4, <1>6, <2>1, <3>1
    <3>2. CASE q # r
      BY <1>3, <1>4, <1>6, <3>2 DEF TraceSound
    <3> QED BY <3>1, <3>2
  <2>3. TraceSound'
    BY <2>2 DEF TraceSound, Keeps, Doomed, Will
  <2>4. TheOutcomes' = TheOutcomes
    BY <1>2, <1>3, <2>1 DEF TheOutcomes
  <2> QED BY <2>3, <2>4
<1>7. ASSUME UNCHANGED log PROVE \A q \in Runs : TraceOf(q)' = TraceOf(q)
  BY <1>7 DEF TraceOf
<1>8. ASSUME NEW f \in Seq(Items), Goes(r, f), Fits(x, f), ~Own(x), x.op # "raise",
             \A q \in Runs : TraceOf(q)' = TraceOf(q)
      PROVE  TraceSound' /\ UNCHANGED TheProtocol
  <2>1. s # <<>>
    BY <1>8 DEF Goes
  <2>2. Keeps(trace, f \o Tail(s), topics)
    <3> HIDE DEF s, x, trace, topics
    <3> QED BY <1>1, <1>2, <1>8, <2>1, KeptByNoise
  <2>3. TraceSound' /\ UNCHANGED TheOutcomes
    BY <1>6, <1>8, <2>2
  <2>4. TheTraces' = TheTraces
    BY <1>8 DEF TheTraces
  <2> QED BY <1>5, <2>3, <2>4 DEF TheProtocol
<1>9. CASE Publishes(r)
  <2> DEFINE f == Calls(Item(r).topic, Len(log) + 1)
  <2>1. Goes(r, f) /\ f \in Seq(Items) /\ x.op = "publish" /\ s # <<>>
    BY <1>9 DEF Publishes, Goes
  <2>2. \A i \in 1..Len(f) : Noise(f[i])
    <3>1. \A i \in 1..Len(f) : f[i].op = "call"
      BY CallsAre
    <3> HIDE DEF f
    <3> QED BY <3>1 DEF Noise, Own
  <2> HIDE DEF f
  <2>3. CASE ~Own(x)
    <3>1. \A q \in Runs : TraceOf(q)' = TraceOf(q)
      BY <1>9, <2>3, TraceGrows
    <3>2. Fits(x, f)
      BY <2>1, <2>2 DEF Fits
    <3> QED BY <1>8, <2>1, <2>3, <3>1, <3>2
  <2>4. CASE Own(x)
    <3>1. \A q \in Runs : TraceOf(q)' = IF q = r THEN TraceOf(q) \o <<x.topic>> ELSE TraceOf(q)
      BY <1>9, <2>4, TraceGrows
    <3>2. /\ Keeps(trace \o <<x.topic>>, f \o Tail(s), topics)
          /\ Len(trace) < Len(topics) /\ topics[Len(trace) + 1] = x.topic
      <4> HIDE DEF s, x, trace, topics
      <4> QED BY <1>1, <1>2, <2>1, <2>2, <2>4, KeptByAnnouncing
    <3>3. TraceSound' /\ UNCHANGED TheOutcomes
      BY <1>6, <2>1, <3>1, <3>2
    <3>4. trace \o <<x.topic>> = Append(trace, x.topic)
      <4>1. x.topic \in Names
        BY <1>1, <2>1, Kinds
      <4> HIDE DEF x, trace
      <4> QED BY <1>1, <4>1, OneMore
    <3>5. \A q \in Runs : TraceOf(q)' = IF q = r THEN Append(TraceOf(q), x.topic) ELSE TraceOf(q)
      BY <3>1, <3>4
    <3>6. TheOutcomes[r] = "open"
      BY <1>2 DEF TheOutcomes
    <3>7. Protocol!Next
      BY <1>5, <3>2, <3>3, <3>5, <3>6, Announcing
    <3> QED BY <3>3, <3>7
  <2> QED BY <2>3, <2>4
<1>10. CASE TurnsTo(r)
  <2> DEFINE y == Return(x.who)
             f == <<y>>
  <2>1. x.op = "call" /\ Goes(r, f) /\ s # <<>> /\ UNCHANGED log
    BY <1>10 DEF TurnsTo, Goes
  <2>2. y \in Items /\ y.op = "return"
    BY <1>1, <2>1, Kinds, ReturnIs
  <2> HIDE DEF y
  <2>3. f \in Seq(Items) /\ Len(f) = 1 /\ f[1] = y
    BY <2>2, OneIs
  <2> HIDE DEF f
  <2>4. Fits(x, f) /\ ~Own(x) /\ x.op # "raise"
    BY <2>1, <2>2, <2>3 DEF Fits, Noise, Own
  <2> QED BY <1>7, <1>8, <2>1, <2>3, <2>4
<1>11. CASE Moves(r)
  <2>1. PICK f \in Blocks : Goes(r, f) /\ Fits(x, f)
    BY <1>11 DEF Moves
  <2>2. ~Own(x) /\ x.op # "raise" /\ UNCHANGED log /\ f \in Seq(Items)
    BY <1>11 DEF Moves, Own, Blocks
  <2> QED BY <1>7, <1>8, <2>1, <2>2
<1>12. CASE Ends(r)
  <2>1. /\ \A q \in Runs : TraceOf(q)' = TraceOf(q)
        /\ TheTraces' = TheTraces
    BY <1>7, <1>12 DEF Ends, TheTraces
  <2>2. PICK how \in {"ok", "failed"} :
          RunsAfter(r, how, <<>>) /\ (how = "ok" => s = <<>>)
    BY <1>12 DEF Ends
  <2>3. TraceSound'
    <3>1. ASSUME NEW q \in Runs
          PROVE  /\ runs'[q].at = "idle" => TraceOf(q)' = <<>>
                 /\ runs'[q].at = "busy" => Keeps(TraceOf(q)', runs'[q].todo, Topics(asked[q])')
      <4>1. CASE q = r
        BY <2>2, <4>1 DEF RunsAfter
      <4>2. CASE q # r
        BY <1>3, <1>4, <2>1, <4>2 DEF TraceSound
      <4> QED BY <4>1, <4>2
    <3> QED BY <3>1 DEF TraceSound, Keeps, Doomed, Will
  <2>4. how = "ok" => trace = topics
    <3> SUFFICES ASSUME how = "ok" PROVE trace = topics
      OBVIOUS
    <3>1. s = <<>>
      BY <2>2
    <3> HIDE DEF s, trace, topics
    <3>2. ~Doomed(s)
      BY <1>1, <3>1, DoomedGoesOn
    <3>3. trace \o Will(s) = topics /\ Will(s) = <<>>
      BY <1>2, <3>1, <3>2, WillOfNothing DEF Keeps
    <3> QED BY <1>1, <3>3, ConcatEmptySeq
  <2>5. TheOutcomes[r] = "open" /\ TheOutcomes' = [TheOutcomes EXCEPT ![r] = how]
    <3>1. runs'[r].at = how
      BY <2>2 DEF RunsAfter
    <3> QED BY <1>2, <1>3, <3>1 DEF TheOutcomes
  <2>6. Protocol!Next
    BY <1>5, <2>1, <2>4, <2>5, Ending
  <2> QED BY <2>3, <2>6
<1> QED BY <1>9, <1>10, <1>11, <1>12

(* Nothing that the protocol speaks of has changed.                         *)
LEMMA Unseen ==
  ASSUME UNCHANGED <<asked, log, runs>>
  PROVE  UNCHANGED TheProtocol /\ (TraceSound => TraceSound')
<1>1. \A q \in Runs : TraceOf(q)' = TraceOf(q) /\ Topics(asked[q])' = Topics(asked[q])
  BY DEF TraceOf, Topics, StepsTopics
<1>2. UNCHANGED TheProtocol
  BY <1>1 DEF TheProtocol, TheExpected, TheTraces, TheOutcomes
<1>3. ASSUME TraceSound PROVE TraceSound'
  <2>1. ASSUME NEW q \in Runs
        PROVE  /\ runs'[q].at = "idle" => TraceOf(q)' = <<>>
               /\ runs'[q].at = "busy" => Keeps(TraceOf(q)', runs'[q].todo, Topics(asked[q])')
    BY <1>1, <1>3 DEF TraceSound
  <2> QED BY <2>1 DEF TraceSound, Keeps, Doomed, Will
<1> QED BY <1>2, <1>3

LEMMA BeginKeeps ==
  ASSUME Typed, Typed', TraceSound, NEW r \in Runs, Begin(r)
  PROVE  TraceSound' /\ UNCHANGED TheProtocol
<1>1. PICK f \in Blocks : RunsAfter(r, "busy", f) /\ (Doomed(f) \/ Will(f) = Topics(asked[r]))
  BY BeginIs
<1>2. runs[r].at = "idle" /\ UNCHANGED <<asked, log>>
  BY BeginIs
<1>3. \A q \in Runs : TraceOf(q)' = TraceOf(q) /\ Topics(asked[q])' = Topics(asked[q])
  BY <1>2 DEF TraceOf, Topics, StepsTopics
<1>4. Keeps(TraceOf(r), f, Topics(asked[r]))
  <2>1. TraceOf(r) = <<>> /\ Will(f) \in Seq(Names)
    BY <1>2, EachIs DEF TraceSound, Blocks
  <2>2. <<>> \o Will(f) = Will(f)
    BY <2>1, ConcatEmptySeq
  <2> QED BY <1>1, <2>1, <2>2 DEF Keeps
<1>5. ASSUME NEW q \in Runs
      PROVE  /\ runs'[q].at = "idle" => TraceOf(q)' = <<>>
             /\ runs'[q].at = "busy" => Keeps(TraceOf(q)', runs'[q].todo, Topics(asked[q])')
  <2>1. CASE q = r
    BY <1>1, <1>3, <1>4, <2>1 DEF RunsAfter
  <2>2. CASE q # r
    BY <1>1, <1>3, <2>2 DEF RunsAfter, TraceSound
  <2> QED BY <2>1, <2>2
<1>6. TraceSound'
  BY <1>5 DEF TraceSound, Keeps, Doomed, Will
<1>7. TheOutcomes' = TheOutcomes
  BY <1>1, <1>2 DEF RunsAfter, TheOutcomes
<1>8. TheExpected' = TheExpected /\ TheTraces' = TheTraces
  BY <1>3 DEF TheExpected, TheTraces
<1> QED BY <1>6, <1>7, <1>8 DEF TheProtocol

LEMMA NextKeeps ==
  TraceInv /\ [Next]_vars => TraceInv' /\ [Protocol!Next]_TheProtocol
<1> SUFFICES ASSUME TraceInv, [Next]_vars
             PROVE  TraceInv' /\ (Protocol!Next \/ UNCHANGED TheProtocol)
  OBVIOUS
<1>1. Typed /\ TraceSound /\ Typed'
  BY NextTyped DEF TraceInv
<1>2. CASE Boot
  BY <1>1, <1>2, BootIs, Unseen DEF TraceInv
<1>3. ASSUME NEW t \in DOMAIN Subscribed, NEW h \in Handlers, Subscribe(t, h) \/ Unsubscribe(t, h)
      PROVE  TraceInv' /\ UNCHANGED TheProtocol
  BY <1>1, <1>3, MovingIs, Unseen DEF TraceInv
<1>4. ASSUME NEW r \in Runs, Begin(r) PROVE TraceInv' /\ UNCHANGED TheProtocol
  BY <1>1, <1>4, BeginKeeps DEF TraceInv
<1>5. ASSUME NEW r \in Runs, Step(r)
      PROVE  TraceInv' /\ (Protocol!Next \/ UNCHANGED TheProtocol)
  BY <1>1, <1>5, StepIs, StepKeeps DEF TraceInv
<1>6. CASE UNCHANGED vars
  BY <1>1, <1>6, Unseen DEF vars, registry, input, bus, TraceInv
<1> QED BY <1>2, <1>3, <1>4, <1>5, <1>6 DEF Next

(* What a run is expected to announce can be announced.                     *)
LEMMA TopicsAreAnnounced ==
  ASSUME NEW a \in Ask
  PROVE  Topics(a) \in Seq(Announced)
<1> DEFINE first == "workflow.started"
           last == "workflow.completed"
           E == Announced
<1>1. /\ first \in E /\ last \in E
      /\ \A w \in DOMAIN Workflows : \A i \in 1..Len(Workflows[w]) : Workflows[w][i].target \in E
  <2>1. first \in E /\ last \in E
    BY DEF Announced
  <2>2. ASSUME NEW w \in DOMAIN Workflows, NEW i \in 1..Len(Workflows[w])
        PROVE  Workflows[w][i].target \in E
    <3>1. Workflows[w] \in Seq(Ask)
      BY PlatformAssumption
    <3>2. Workflows[w][i] \in ToSet(Workflows[w])
      BY <3>1 DEF ToSet
    <3> QED BY <3>2 DEF Announced
  <2> QED BY <2>1, <2>2
<1>2. AgentTopics \in Seq(E) /\ PluginTopics \in Seq(E)
  <2>1. /\ "agent.started" \in E /\ "agent.completed" \in E
        /\ "plugin.pre_execute" \in E /\ "plugin.post_execute" \in E
    <3>1. DOMAIN AgentTopics = 1..2 /\ DOMAIN PluginTopics = 1..2
      BY DEF AgentTopics, PluginTopics
    <3>2. /\ AgentTopics[1] = "agent.started" /\ AgentTopics[2] = "agent.completed"
          /\ PluginTopics[1] = "plugin.pre_execute" /\ PluginTopics[2] = "plugin.post_execute"
      BY DEF AgentTopics, PluginTopics
    <3>3. \A i \in 1..2 : AgentTopics[i] \in E /\ PluginTopics[i] \in E
      BY <3>1 DEF Announced, ToSet
    <3>4. 1 \in 1..2 /\ 2 \in 1..2
      OBVIOUS
    <3> QED BY <3>2, <3>3, <3>4
  <2> HIDE DEF E
  <2> QED BY <2>1 DEF AgentTopics, PluginTopics
<1> HIDE DEF E
<1>3. ASSUME NEW w \in DOMAIN Workflows PROVE StepsTopics(Workflows[w]) \in Seq(E)
  <2> DEFINE s == Workflows[w]
             f == [i \in 1..Len(s) |-> StepTopics(s[i])]
  <2>1. Len(s) \in Nat
    BY PlatformAssumption
  <2>2. ASSUME NEW i \in 1..Len(s) PROVE StepTopics(s[i]) \in Seq(E)
    <3>1. s[i].target \in E
      BY <1>1
    <3>2. <<s[i].target>> \in Seq(E) /\ <<>> \in Seq(E)
      BY <3>1
    <3> HIDE DEF s
    <3>3. CASE s[i].kind = "event"
      BY <3>2, <3>3 DEF StepTopics
    <3>4. CASE s[i].kind = "agent"
      BY <1>2, <3>4 DEF StepTopics
    <3>5. CASE s[i].kind = "plugin"
      BY <1>2, <3>5 DEF StepTopics
    <3>6. CASE s[i].kind \notin {"event", "agent", "plugin"}
      BY <3>2, <3>6 DEF StepTopics
    <3> QED BY <3>3, <3>4, <3>5, <3>6
  <2>3. f = [i \in 1..Len(s) |-> f[i]] /\ \A i \in 1..Len(s) : f[i] = StepTopics(s[i])
    OBVIOUS
  <2>4. StepsTopics(s) = FlattenSeq(f)
    BY DEF StepsTopics
  <2> HIDE DEF f, s
  <2>5. f \in Seq(Seq(E))
    BY <2>1, <2>2, <2>3, ListIs
  <2> QED BY <2>4, <2>5, FlattenType DEF s
<1>4. CASE a.kind \in {"agent", "plugin"}
  BY <1>2, <1>4 DEF Topics, E
<1>5. CASE a.kind \notin {"agent", "plugin"}
  <2> DEFINE t == IF a.target \notin DOMAIN Workflows THEN <<>> ELSE StepsTopics(Workflows[a.target])
  <2>1. Topics(a) = <<first>> \o t \o <<last>>
    BY <1>5 DEF Topics
  <2>2. t \in Seq(E)
    BY <1>3
  <2> HIDE DEF t
  <2>3. <<first>> \in Seq(E) /\ <<last>> \in Seq(E)
    BY <1>1
  <2>4. <<first>> \o t \in Seq(E)
    BY <2>2, <2>3, ConcatIs
  <2>5. <<first>> \o t \o <<last>> \in Seq(E)
    BY <2>3, <2>4, ConcatIs
  <2> QED BY <2>1, <2>5 DEF E
<1> QED BY <1>4, <1>5

(* Each run publishes the events of its kind, and of the steps of its       *)
(* workflow, one by one and in order, whatever other runs, handlers and     *)
(* hooks publish in between; and the route answers with success only when   *)
(* the last one is out (workflow_engine.py:95, agent_framework.py:72,          *)
(* plugin_framework.py:271): the platform implements RunProtocol.           *)
THEOREM ImplementsRunProtocol == Spec => KeepsProtocol
<1>1. Init => TraceInv /\ Protocol!Init
  <2> SUFFICES ASSUME Init PROVE TraceInv /\ Protocol!Init
    OBVIOUS
  <2>1. Typed
    BY InitTyped
  <2>2. log = <<>> /\ \A r \in Runs : runs[r].at = "idle"
    BY DEF Init
  <2>3. ASSUME NEW r \in Runs PROVE TraceOf(r) = <<>>
    <3>1. Pieces(<<>>, r) = <<>>
      BY DEF Pieces
    <3> QED BY <2>1, <2>2, <3>1, TraceType, FlattenEmpty
  <2>4. TraceSound
    BY <2>2, <2>3 DEF TraceSound
  <2>5. TheExpected \in [Runs -> Seq(Announced)]
    BY <2>1, TopicsAreAnnounced DEF TheExpected, Typed
  <2>6. TheTraces = [r \in Runs |-> <<>>] /\ TheOutcomes = [r \in Runs |-> "open"]
    BY <2>2, <2>3 DEF TheTraces, TheOutcomes
  <2> QED BY <2>1, <2>4, <2>5, <2>6, ProtocolDefinitions DEF TraceInv
<1> QED BY <1>1, NextKeeps, ProtocolDefinitions, PTL DEF Spec, KeepsProtocol

=============================================================================
