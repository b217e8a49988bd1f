------------------------------ MODULE Workload ------------------------------
(***************************************************************************)
(* What the handler reconciler makes of one KapeHandler whose dependencies *)
(* are ready: the settings, kapeproxy and skills ConfigMaps, the service    *)
(* account, the Deployment and the KEDA ScaledObject                        *)
(* (operator/controller/reconcile/handler.go, operator/infra), and the      *)
(* handler pod that reads them when it starts                               *)
(* (runtime/src/kape_runtime/config.py, main.py).  The gates in front of    *)
(* this, and the status behind it, are module Operator's.                   *)
(*                                                                         *)
(* A pod reads settings.toml ONCE, when it starts; what makes it start again *)
(* is a change of the Deployment's pod template, which carries a hash of the *)
(* reconciler's inputs.  So the order of the writes, and what the hash       *)
(* covers, decide whether the running agent is the one that was asked for.   *)
(***************************************************************************)
EXTENDS Naturals, FiniteSets

VARIABLES
  wlScope,      \* [fields: what may be edited, edits, faults, restarts: how often,
                \*  edited: the fields edited so far, reverted: one of them once more
                \*  (history)]
  want,         \* the inputs as they stand in the cluster
  inputs,       \* the inputs this reconcile read
  at,           \* the reconcile's next step; "idle" between two reconciles
  held,         \* the objects: ConfigMaps, service account, Deployment, ScaledObject
  runner        \* the handler pod: its template, its phase and what it loaded

wlVars == <<wlScope, want, inputs, at, held, runner>>

\* Inputs, each a small number:
\*   spec, schema, tool   the version of the handler's, the schema's and the mcp tool's spec
\*   trigger              handler.spec.trigger.type, the NATS consumer's name
\*   mcp, memory          whether the handler refers to a tool of that type
\*   skill                0 no skill, 1 an eager one, 2 a lazy one;  text: its spec's version
\*   url                  the memory tool's status.qdrantEndpoint, 0 while it has none
\*   cluster, iterations, image, proxy     the kape-config ConfigMap's keys; 0 is the
\*                        default, and 2 an iterations value that is not a number
\*   envs                 spec.envs: 0 none, 1 names the settings file, 2 also supplies
\*                        the keys the rendered file leaves out, with an MCP proxy
\*                        outside the pod
\*   conn                 whether the memory tool's connection Secret exists
Inputs == {"spec", "schema", "tool", "trigger", "mcp", "memory", "skill", "text", "url",
           "cluster", "iterations", "image", "proxy", "envs", "conn"}

None == [none |-> TRUE]

NoPod == [phase |-> "none", template |-> None, loaded |-> None, proxied |-> None]

WorkloadInit(scopes) ==
  /\ wlScope \in scopes
  /\ want = [i \in Inputs |-> wlScope.start[i]]
  /\ inputs = want
  /\ at = "idle"
  /\ held = [settings |-> None, proxy |-> None, skills |-> None, account |-> FALSE,
             deployment |-> None, scaler |-> None]
  /\ runner = NoPod

-----------------------------------------------------------------------------
(* Rendering. *)

\* A part of the inputs, the fields without effect blanked out.
Of(in, fields) == [i \in fields |-> in[i]]

Lazy(in) == in.skill = 2

\* What settings.toml is rendered from.  The prompt holds an eager skill's
\* instruction and only the name and description of a lazy one; the qdrant
\* endpoint of a memory tool is written into its section.
RenderedSettings(in) ==
  [base   |-> Of(in, {"spec", "schema", "trigger", "mcp", "memory", "cluster", "iterations"}),
   prompt |-> [skill |-> in.skill, text |-> IF in.skill = 1 THEN in.text ELSE 0],
   url    |-> IF in.memory = 1 THEN in.url ELSE 0]

\* The keys of a rendered settings.toml the runtime looks up, and those it
\* cannot start without: an absent one is an AttributeError in load_config.
RenderedKeys == {"kape", "llm", "nats.subject", "nats.consumer", "nats.stream",
                 "task_service", "otel"}

RequiredKeys == RenderedKeys \cup {"nats.url", "proxy", "schema.name", "schema.json_schema"}

\* The runtime reads $KAPE_SETTINGS_FILE or ./settings.toml; the ConfigMap is
\* mounted at /etc/kape and only spec.envs could name that place.
KeysSeen(in) == CASE in.envs = 0 -> {} [] in.envs = 1 -> RenderedKeys [] OTHER -> RequiredKeys

\* computeRolloutHash: handler, schema, tool and skill specs, kapeproxy image.
RolloutHash(in) ==
  Of(in, {"spec", "schema", "trigger", "mcp", "memory", "tool", "skill", "text", "proxy", "envs"})

\* The volumes of the pod template.  nats-certs is the chart's and always there.
Volumes(in) ==
  {"settings"} \cup (IF Lazy(in) THEN {"skills"} ELSE {})
               \cup (IF in.memory = 1 THEN {"conn"} ELSE {})
               \cup (IF in.mcp = 1 THEN {"proxy"} ELSE {})

\* buildDeployment's pod template.
Template(in) ==
  [hash    |-> RolloutHash(in),
   image   |-> in.image,
   sidecar |-> IF in.mcp = 1 THEN in.proxy + 1 ELSE 0,
   url     |-> IF in.memory = 1 THEN in.url ELSE 0,
   volumes |-> Volumes(in)]

-----------------------------------------------------------------------------
(* reconcileWorkload: one API call, or one ensure of an object, a step. *)

\* Reconcile reads the handler, its dependencies and kape-config.  It is called
\* on every event of a watched object and, RequeueAfter, every 60 seconds.  An
\* iterations value that does not parse ends it with an error.
Begins ==
  /\ at = "idle"
  /\ want.iterations # 2
  /\ inputs' = want
  /\ at' = "settings"
  /\ UNCHANGED <<wlScope, want, held, runner>>

\* Load takes any error of its read for a missing kape-config: the defaults.
BeginsWithDefaults ==
  /\ at = "idle"
  /\ wlScope.faults > 0
  /\ wlScope' = [wlScope EXCEPT !.faults = @ - 1]
  /\ inputs' = [want EXCEPT !.cluster = 0, !.iterations = 0, !.image = 0, !.proxy = 0]
  /\ at' = "settings"
  /\ UNCHANGED <<want, held, runner>>

\* One object is written and the reconcile goes on to step s.
Ensures(object, value, s) ==
  /\ held' = [held EXCEPT ![object] = value]
  /\ at' = s
  /\ UNCHANGED <<wlScope, want, inputs, runner>>

\* Mutant of EnsureSettings: the file is written after the Deployment.
EnsureSettingsLate ==
  \/ at = "settings" /\ Ensures("account", held.account, "proxy")
  \/ at = "scaler" /\ held.settings # RenderedSettings(inputs)
     /\ Ensures("settings", RenderedSettings(inputs), "scaler")

EnsureSettings == at = "settings" /\ Ensures("settings", RenderedSettings(inputs), "proxy")

\* The kapeproxy ConfigMap is written even when no tool is of type mcp.
EnsureProxyConfig ==
  /\ at = "proxy"
  /\ Ensures("proxy", IF inputs.mcp = 1 THEN [tool |-> inputs.tool] ELSE [tool |-> 0], "skills")

\* Ensured while a lazy skill is there, deleted otherwise.
EnsureSkills ==
  /\ at = "skills"
  /\ Ensures("skills", IF Lazy(inputs) THEN [text |-> inputs.text] ELSE None, "account")

EnsureAccount == at = "account" /\ Ensures("account", TRUE, "deployment")

EnsureDeployment == at = "deployment" /\ Ensures("deployment", Template(inputs), "scaler")

\* A ScaledObject for another consumer is deleted before it is created anew;
\* the failure of the second call leaves the handler without one.
ReplaceScaler ==
  /\ at = "scaler"
  /\ held.scaler # None
  /\ held.scaler # [consumer |-> inputs.trigger]
  /\ Ensures("scaler", None, "rescale")

EnsureScaler ==
  /\ at \in {"scaler", "rescale"}
  /\ at = "scaler" => held.scaler \in {None, [consumer |-> inputs.trigger]}
  /\ Ensures("scaler", [consumer |-> inputs.trigger], "idle")

\* An API call fails: the reconcile returns the error and is tried again.
StepFails ==
  /\ at # "idle"
  /\ wlScope.faults > 0
  /\ wlScope' = [wlScope EXCEPT !.faults = @ - 1]
  /\ at' = "idle"
  /\ UNCHANGED <<want, inputs, held, runner>>

WorkloadStep ==
  Begins \/ EnsureSettings \/ EnsureProxyConfig \/ EnsureSkills \/ EnsureAccount
  \/ EnsureDeployment \/ ReplaceScaler \/ EnsureScaler

-----------------------------------------------------------------------------
(* Kubernetes and the pod. *)

\* The Deployment controller replaces a pod of another template (external).
PodRolls ==
  /\ held.deployment # None
  /\ runner.template # held.deployment
  /\ runner' = [NoPod EXCEPT !.phase = "pending", !.template = held.deployment]
  /\ UNCHANGED <<wlScope, want, inputs, at, held>>

\* The objects the runner's volumes name.
Mountable(volumes) ==
  /\ "settings" \in volumes => held.settings # None
  /\ "proxy" \in volumes => held.proxy # None
  /\ "skills" \in volumes => held.skills # None
  /\ "conn" \in volumes => want.conn = 1

\* The volumes are mounted and the containers start: load_config reads the
\* settings, once, and a kapeproxy sidecar its own file.  A missing key ends the
\* handler's process.  So does a sidecar that already listens: kapeproxy and the
\* probe server bind the same port of the pod, and the one that comes second ends.
\* The kubelet starts it again and it ends again.
PodStarts ==
  /\ runner.phase = "pending"
  /\ held.account
  /\ Mountable(runner.template.volumes)
  /\ LET reads == RequiredKeys \subseteq KeysSeen(runner.template.hash)
         sidecar == runner.template.sidecar > 0
     IN \E runs \in {b \in BOOLEAN : (b => reads) /\ (~b => ~reads \/ sidecar)} :
          runner' = [runner EXCEPT !.phase = IF runs THEN "running" ELSE "ending",
                                   !.loaded = IF runs THEN held.settings ELSE None,
                                   !.proxied = IF sidecar /\ ~runs THEN held.proxy ELSE None]
  /\ UNCHANGED <<wlScope, want, inputs, at, held>>

\* The pod is moved or its process ends: it starts anew from the same template.
PodRestarts ==
  /\ runner.phase \in {"running", "ending"}
  /\ wlScope.restarts > 0
  /\ wlScope' = [wlScope EXCEPT !.restarts = @ - 1]
  /\ runner' = [NoPod EXCEPT !.phase = "pending", !.template = runner.template]
  /\ UNCHANGED <<want, inputs, at, held>>

\* Someone edits an input.
WorkloadEdit ==
  /\ wlScope.edits > 0
  /\ \E i \in wlScope.fields, v \in 0..2 :
       /\ v # want[i]
       /\ i \notin {"skill", "iterations"} => v < 2
       /\ want' = [want EXCEPT ![i] = v]
       /\ wlScope' = [wlScope EXCEPT !.edits = @ - 1, !.edited = @ \cup {i},
                                     !.reverted = @ \/ i \in wlScope.edited]
  /\ UNCHANGED <<inputs, at, held, runner>>

WorkloadNext ==
  WorkloadStep \/ BeginsWithDefaults \/ StepFails \/ PodRolls \/ PodStarts \/ PodRestarts \/ WorkloadEdit

-----------------------------------------------------------------------------
(* Properties. *)

\* What of the settings the hash stands for.
Hashed(settings) == [settings EXCEPT !.base.cluster = 0, !.base.iterations = 0, !.url = 0]

\* The pod runs what is asked for.  With a kapeproxy sidecar either the handler or
\* the sidecar is what runs; the one that does has its latest file.
Follows(seenPart(_)) ==
  /\ runner.template = Template(want)
  /\ Lazy(want) => held.skills = [text |-> want.text]
  /\ held.scaler = [consumer |-> want.trigger]
  /\ runner.phase \in (IF want.mcp = 1 THEN {"running", "ending"} ELSE {"running"})
  /\ wlScope.reverted \/
       IF runner.phase = "running" THEN seenPart(runner.loaded) = seenPart(RenderedSettings(want))
                                   ELSE runner.proxied = [tool |-> want.tool]

\* Whatever is edited, whichever call fails and whenever the pod restarts
\* meanwhile, the pod ends up with the template of the latest inputs, the latest
\* skill files, scaled on its own consumer's lag, and running, unless a sidecar
\* keeps its port.  It runs with the settings (or the sidecar with the rules)
\* rendered from every input the rollout hash covers, because they are written
\* before the template that makes the pod read them (handler.go,
\* reconcileWorkload).  The exception is an edit that was put back: the pod that
\* started in between has the template it would be given again, and keeps what it
\* read.
WorkloadFollows == <>[](want.iterations # 2) => <>[]Follows(Hashed)

\* "The operator fully materialises everything the runtime needs into a mounted
\* settings.toml, environment variables [...] all before pods start"
\* (docs/specs/0004-kape-operator): a pod of the template it made gets to run.
PodGetsToRun == <>(runner.phase = "running")
=============================================================================
