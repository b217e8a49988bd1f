------------------------------ MODULE Operator ------------------------------
(***************************************************************************)
(* The KAPE operator: the reconcilers of KapeHandler, KapeSchema,          *)
(* KapeSkill, KapeTool and of the kapeproxy container of a handler's pod.  *)
(*                                                                         *)
(* The API server is the shared state (handler, dep, deploy, pod).  Every  *)
(* reconciler is a process: it takes its key from the work queue (dirty),  *)
(* reads objects into a local copy, and writes them back in later steps,   *)
(* so the steps of two reconcilers, and of the users editing the objects,  *)
(* interleave.  One handler is modelled, with any number of dependencies.  *)
(*                                                                         *)
(* A watch puts a key into the queue; a requeue after a delay is the same  *)
(* with the delay left out.                                                *)
(***************************************************************************)
EXTENDS Naturals, FiniteSets

CONSTANTS
    Schemas, Skills, Tools,   \* names of the KapeSchema, KapeSkill, KapeTool objects
    Memory,                   \* the tools of type memory (the others are of type mcp)
    SkillTools,               \* [Skills -> SUBSET Tools]: spec.tools of each skill
    Existing,                 \* the objects that are there when the operator starts
    Specs,                    \* the reference sets a user may give the handler
    MaxEdits,                 \* bound: what users, pods and endpoints do
    Faults                    \* "api": a call to the API server may fail

Deps == Schemas \cup Skills \cup Tools
Contents == 0..1           \* what a spec may say, for the rollout hash
Handler == "handler"
Pod == "pod"
Keys == Deps \cup {Handler, Pod}

ASSUME OperatorAssumption ==
    /\ Schemas \cap Skills = {} /\ Schemas \cap Tools = {} /\ Skills \cap Tools = {}
    /\ Deps \cap {Handler, Pod} = {}
    /\ Memory \subseteq Tools
    /\ SkillTools \in [Skills -> SUBSET Tools]
    /\ Existing \subseteq Deps \cup {Handler}
    /\ Specs \subseteq SUBSET Deps
    /\ MaxEdits \in Nat

VARIABLES
    handler,    \* the KapeHandler object
    dep,        \* the KapeSchema, KapeSkill and KapeTool objects
    deploy,     \* the handler's Deployment: found, rollout hash, a ready replica
    pod,        \* health of the kapeproxy container of the handler's pod
    reachable,  \* the tools whose endpoint (or Qdrant cluster) is up
    dirty,      \* the work queues
    hpc, hcopy, resolved,   \* the handler reconciler: step, object read, specs read
    ppc, pcopy,             \* the kapeproxy reconciler: step, conditions to write
    dpc,                    \* the dependency reconcilers: step
    edits,      \* how many edits were made
    guarded     \* ghost: dependencies deleted while the handler carried their label

apiVars == <<handler, dep, deploy, pod, reachable>>
handlerPc == <<hpc, hcopy, resolved>>
proxyPc == <<ppc, pcopy>>
vars == <<apiVars, dirty, handlerPc, proxyPc, dpc, edits, guarded>>

Conditions == {"DependenciesReady", "ScalingConfigured", "DeploymentAvailable",
               "KapeProxyReady", "KapeProxyDegraded", "Ready"}
CondStatus == {"none", "True", "False"}
NoConditions == [c \in Conditions |-> "none"]

NoHandler == [exists |-> FALSE, refs |-> {}, badScaling |-> FALSE, labels |-> {}, cond |-> NoConditions]
NoDep == [exists |-> FALSE, deleting |-> FALSE, finalizer |-> FALSE, valid |-> TRUE, ready |-> "none", ver |-> 0]
NoDeploy == [found |-> FALSE, hash |-> {}, available |-> FALSE]
PodHealth == {"none", "ProxyHealthy", "ProxyCrashLoop", "ProxyNotReady", "ProxyMissing"}

Init ==
    /\ IF Handler \in Existing
         THEN \E refs \in Specs : handler = [NoHandler EXCEPT !.exists = TRUE, !.refs = refs]
         ELSE handler = NoHandler
    /\ dep = [d \in Deps |-> [NoDep EXCEPT !.exists = d \in Existing]]
    /\ deploy = NoDeploy /\ pod = "none" /\ reachable = Tools
    /\ dirty = Existing
    /\ hpc = "idle" /\ hcopy = NoHandler /\ resolved = {}
    /\ ppc = "idle" /\ pcopy = NoConditions
    /\ dpc = [d \in Deps |-> "idle"]
    /\ edits = 0 /\ guarded = {}

-----------------------------------------------------------------------------
(* Work queues.                                                            *)

(* MapToolToHandlers, MapSchemaToHandlers, MapSkillToHandlers: a change of  *)
(* a dependency enqueues it and the handlers that carry its label.         *)
DepEvent(d) == {d} \cup (IF handler.exists /\ d \in handler.labels THEN {Handler} ELSE {})

(* The objects a handler uses: its references and the tools of its skills. *)
Union(refs) == refs \cup UNION {SkillTools[k] : k \in refs \cap Skills}

(* What computeRolloutHash hashes: the specs of those objects.             *)
SpecsOf(refs) == {<<d, dep[d].ver>> : d \in Union(refs)}

IsReady(d) == dep[d].exists /\ dep[d].ready = "True"

Set(cond, c, s) == [cond EXCEPT ![c] = s]

(* HandlerRepository.UpdateStatus: the whole status is overwritten on the  *)
(* latest object; nothing is written when the handler is gone.  A write    *)
(* that changes the object is an event for the handler's own queue.        *)
WriteStatus(cond, queue) ==
    /\ handler' = IF handler.exists THEN [handler EXCEPT !.cond = cond] ELSE handler
    /\ dirty' = queue \cup (IF handler' # handler THEN {Handler} ELSE {})

-----------------------------------------------------------------------------
(* The handler reconciler.                                                 *)

(* Reconcile returns.                                                      *)
HandlerReturns == hpc' = "idle" /\ hcopy' = NoHandler /\ resolved' = {}

(* Reconcile: fetch the handler and validate its dependencies.  A missing  *)
(* or unready dependency leads to the gate, an invalid scaling             *)
(* configuration to the scaling gate.                                      *)
HandlerGet ==
    /\ hpc = "idle" /\ Handler \in dirty
    /\ dirty' = dirty \ {Handler}
    /\ IF handler.exists
         THEN /\ hcopy' = handler
              /\ resolved' = SpecsOf(handler.refs)
              /\ hpc' = IF \E d \in Union(handler.refs) : ~IsReady(d) THEN "gate"
                        ELSE IF handler.badScaling THEN "scaling" ELSE "workload"
         ELSE UNCHANGED handlerPc
    /\ UNCHANGED <<apiVars, proxyPc, dpc, edits, guarded>>

(* Mutant of GateDependencies: the rollup is left as it was.               *)
GateDependenciesKeepsReady ==
    /\ hpc = "gate"
    /\ WriteStatus(Set(hcopy.cond, "DependenciesReady", "False"), dirty \cup {Handler})
    /\ HandlerReturns
    /\ UNCHANGED <<dep, deploy, pod, reachable, proxyPc, dpc, edits, guarded>>

(* gateDependencies: record the two conditions and requeue.                *)
GateDependencies ==
    /\ hpc = "gate"
    /\ WriteStatus(Set(Set(hcopy.cond, "DependenciesReady", "False"), "Ready", "False"),
                   dirty \cup {Handler})
    /\ HandlerReturns
    /\ UNCHANGED <<dep, deploy, pod, reachable, proxyPc, dpc, edits, guarded>>

(* gateScaling: DependenciesReady=True is in the copy by now; no requeue.  *)
GateScaling ==
    /\ hpc = "scaling"
    /\ WriteStatus(Set(Set(hcopy.cond, "DependenciesReady", "True"), "ScalingConfigured", "False"),
                   dirty)
    /\ HandlerReturns
    /\ UNCHANGED <<dep, deploy, pod, reachable, proxyPc, dpc, edits, guarded>>

(* Mutant of ReconcileWorkload: an existing Deployment is left alone.      *)
ReconcileWorkloadCreates ==
    /\ hpc = "workload"
    /\ deploy' = IF handler.exists /\ ~deploy.found
                 THEN [deploy EXCEPT !.found = TRUE, !.hash = resolved] ELSE deploy
    /\ dirty' = dirty \cup (IF deploy' # deploy THEN {Handler} ELSE {})
    /\ hpc' = "labels"
    /\ UNCHANGED <<handler, dep, pod, reachable, hcopy, resolved, proxyPc, dpc, edits, guarded>>

(* reconcileWorkload: the Deployment carries the hash of the specs that    *)
(* were resolved.  One made for a handler that is gone is collected.       *)
ReconcileWorkload ==
    /\ hpc = "workload"
    /\ deploy' = IF handler.exists THEN [deploy EXCEPT !.found = TRUE, !.hash = resolved] ELSE deploy
    /\ dirty' = dirty \cup (IF deploy' # deploy THEN {Handler} ELSE {})
    /\ hpc' = "labels"
    /\ UNCHANGED <<handler, dep, pod, reachable, hcopy, resolved, proxyPc, dpc, edits, guarded>>

(* syncLabels: a merge patch adds the labels the copy lacks.  The schema   *)
(* label is one key, whose value is replaced; the tool and skill labels    *)
(* are one key each and are never taken away.                              *)
SyncLabels ==
    /\ hpc = "labels"
    /\ LET missing == Union(hcopy.refs) \ hcopy.labels
           kept == IF missing \cap Schemas = {} THEN handler.labels ELSE handler.labels \ Schemas
       IN handler' = IF handler.exists THEN [handler EXCEPT !.labels = kept \cup missing] ELSE handler
    /\ dirty' = dirty \cup (IF handler' # handler THEN {Handler} ELSE {})
    /\ hpc' = "reget"
    /\ guarded' = guarded \cap handler'.labels
    /\ UNCHANGED <<dep, deploy, pod, reachable, hcopy, resolved, proxyPc, dpc, edits>>

(* buildHandlerConditions with computeReadyRollup.                         *)
BuildHandlerConditions(cond) ==
    LET built == Set(cond, "DeploymentAvailable", IF deploy.found /\ deploy.available THEN "True" ELSE "False")
    IN Set(built, "Ready", IF \E c \in Conditions \ {"Ready"} : built[c] = "False" THEN "False" ELSE "True")

(* Reconcile fetches the handler again (the conditions set so far are      *)
(* dropped with the old copy) and updateStatus reads the Deployment.       *)
HandlerReget ==
    /\ hpc = "reget"
    /\ IF handler.exists
         THEN /\ hcopy' = [handler EXCEPT !.cond = BuildHandlerConditions(handler.cond)]
              /\ hpc' = "status"
              /\ UNCHANGED resolved
         ELSE HandlerReturns
    /\ UNCHANGED <<apiVars, dirty, proxyPc, dpc, edits, guarded>>

(* updateStatus writes the status; Reconcile requeues.                     *)
UpdateStatus ==
    /\ hpc = "status"
    /\ WriteStatus(hcopy.cond, dirty \cup {Handler})
    /\ HandlerReturns
    /\ UNCHANGED <<dep, deploy, pod, reachable, proxyPc, dpc, edits, guarded>>

(* A failed API call.  An error returned by Reconcile is retried (that of  *)
(* the ScaledObject too, which comes after the Deployment and before the   *)
(* labels); the two gates swallow it, so the scaling gate does not retry;  *)
(* a failed label patch is only logged.                                    *)
HandlerFails ==
    /\ "api" \in Faults /\ hpc # "idle" /\ edits < MaxEdits
    /\ edits' = edits + 1
    /\ \/ HandlerReturns /\ dirty' = (IF hpc = "scaling" THEN dirty ELSE dirty \cup {Handler})
       \/ hpc = "labels" /\ hpc' = "reget" /\ UNCHANGED <<dirty, hcopy, resolved>>
    /\ UNCHANGED <<apiVars, proxyPc, dpc, guarded>>

HandlerStep ==
    \/ HandlerGet \/ GateDependencies \/ GateScaling \/ ReconcileWorkload
    \/ SyncLabels \/ HandlerReget \/ UpdateStatus

-----------------------------------------------------------------------------
(* The kapeproxy reconciler.                                               *)

(* applyProxyConditions: nothing is said of KapeProxyDegraded when the     *)
(* container is missing.                                                   *)
ApplyProxyConditions(cond, health) ==
    LET ready == Set(cond, "KapeProxyReady", IF health = "ProxyHealthy" THEN "True" ELSE "False")
    IN IF health = "ProxyMissing" THEN ready
       ELSE Set(ready, "KapeProxyDegraded", IF health = "ProxyCrashLoop" THEN "True" ELSE "False")

(* Reconcile of a Pod event: read the pod, then the handler it names.  A   *)
(* pod or a handler that is gone ends it.                                  *)
ProxyGet ==
    /\ ppc = "idle" /\ Pod \in dirty
    /\ dirty' = dirty \ {Pod}
    /\ IF pod # "none" /\ handler.exists
         THEN ppc' = "write" /\ pcopy' = ApplyProxyConditions(handler.cond, pod)
         ELSE UNCHANGED proxyPc
    /\ UNCHANGED <<apiVars, handlerPc, dpc, edits, guarded>>

ProxyWrite ==
    /\ ppc = "write"
    /\ WriteStatus(pcopy, dirty)
    /\ ppc' = "idle" /\ pcopy' = NoConditions
    /\ UNCHANGED <<dep, deploy, pod, reachable, handlerPc, dpc, edits, guarded>>

(* A failed write is returned and retried.                                 *)
ProxyFails ==
    /\ "api" \in Faults /\ ppc = "write" /\ edits < MaxEdits
    /\ edits' = edits + 1
    /\ ppc' = "idle" /\ pcopy' = NoConditions /\ dirty' = dirty \cup {Pod}
    /\ UNCHANGED <<apiVars, handlerPc, dpc, guarded>>

ProxyStep == ProxyGet \/ ProxyWrite

-----------------------------------------------------------------------------
(* The schema, skill and tool reconcilers.                                 *)

(* The kinds of object that carry a finalizer.                             *)
Protecting == Schemas \cup Skills \cup Memory

DepGoes(d, pc) == dpc' = [dpc EXCEPT ![d] = pc]

(* The write of a status, and the requeue the reconciler asked for.        *)
WriteDep(d, ready, queue) ==
    /\ dep' = IF dep[d].exists THEN [dep EXCEPT ![d].ready = ready] ELSE dep
    /\ dirty' = queue \cup (IF dep' # dep THEN DepEvent(d) ELSE {})

(* After the finalizer: deletion is handled first.                         *)
AfterFinalizer(o) == IF o.deleting THEN "list" ELSE "probe"

(* Reconcile of a schema or a skill fetches it and validates the spec      *)
(* before anything else; a tool of type mcp has no finalizer.              *)
DepGet(d) ==
    /\ dpc[d] = "idle" /\ d \in dirty
    /\ dirty' = dirty \ {d}
    /\ DepGoes(d, IF ~dep[d].exists THEN "idle"
                  ELSE IF ~dep[d].valid THEN "refuse"
                  ELSE IF d \notin Protecting THEN "probe"
                  ELSE IF ~dep[d].finalizer THEN "finalize" ELSE AfterFinalizer(dep[d]))
    /\ UNCHANGED <<apiVars, handlerPc, proxyPc, edits, guarded>>

(* The terminal answer to an invalid spec and to a deletion while a handler *)
(* carries the label: Ready=False, no requeue.                             *)
DepRefuse(d) ==
    /\ dpc[d] = "refuse"
    /\ WriteDep(d, "False", dirty)
    /\ DepGoes(d, "idle")
    /\ UNCHANGED <<handler, deploy, pod, reachable, handlerPc, proxyPc, edits, guarded>>

(* AddFinalizer: the patch returns the object as it is now.  It fails, and *)
(* is retried, when the object is gone.                                    *)
AddFinalizer(d) ==
    /\ dpc[d] = "finalize"
    /\ IF dep[d].exists
         THEN /\ dep' = [dep EXCEPT ![d].finalizer = TRUE]
              /\ dirty' = dirty \cup DepEvent(d)
              /\ DepGoes(d, AfterFinalizer(dep[d]))
         ELSE dirty' = dirty \cup {d} /\ DepGoes(d, "idle") /\ UNCHANGED dep
    /\ UNCHANGED <<handler, deploy, pod, reachable, handlerPc, proxyPc, edits, guarded>>

(* Mutant of HandleDeletion: an unready handler is not counted.            *)
HandleDeletionReadyOnly(d) ==
    /\ dpc[d] = "list"
    /\ DepGoes(d, IF handler.exists /\ d \in handler.labels /\ handler.cond["Ready"] = "True"
                  THEN "refuse" ELSE "release")
    /\ UNCHANGED <<apiVars, dirty, handlerPc, proxyPc, edits, guarded>>

(* handleDeletion: list the handlers by label; deletion is blocked, with   *)
(* Ready=False and no requeue, while there is one.                         *)
HandleDeletion(d) ==
    /\ dpc[d] = "list"
    /\ DepGoes(d, IF handler.exists /\ d \in handler.labels THEN "refuse" ELSE "release")
    /\ UNCHANGED <<apiVars, dirty, handlerPc, proxyPc, edits, guarded>>

(* RemoveFinalizer: the object goes.                                       *)
RemoveFinalizer(d) ==
    /\ dpc[d] = "release"
    /\ dep' = [dep EXCEPT ![d] = NoDep]
    /\ dirty' = dirty \cup DepEvent(d)
    /\ DepGoes(d, "idle")
    /\ UNCHANGED <<handler, deploy, pod, reachable, handlerPc, proxyPc, edits, guarded>>

(* What a reconciler finds when the object is not being deleted: a valid   *)
(* schema is Ready, a skill when its tools are, a tool when its endpoint   *)
(* answers.                                                                *)
Verdict(d) ==
    \/ d \in Schemas
    \/ d \in Skills /\ \A t \in SkillTools[d] : IsReady(t)
    \/ d \in Tools /\ d \in reachable

(* Probe, then the verdict is written in a step of its own.                *)
DepProbe(d) ==
    /\ dpc[d] = "probe"
    /\ DepGoes(d, IF Verdict(d) THEN "ready" ELSE "unready")
    /\ UNCHANGED <<apiVars, dirty, handlerPc, proxyPc, edits, guarded>>

(* Ready=True ends the reconcile of a schema and of a skill for good; an   *)
(* unready skill and every tool are looked at again.                       *)
DepVerdict(d) ==
    /\ dpc[d] \in {"ready", "unready"}
    /\ WriteDep(d, IF dpc[d] = "ready" THEN "True" ELSE "False",
                dirty \cup (IF dpc[d] = "unready" \/ d \in Tools THEN {d} ELSE {}))
    /\ DepGoes(d, "idle")
    /\ UNCHANGED <<handler, deploy, pod, reachable, handlerPc, proxyPc, edits, guarded>>

(* A failed API call: retried, except the swallowed write of "refuse".    *)
DepFails(d) ==
    /\ "api" \in Faults /\ dpc[d] # "idle" /\ edits < MaxEdits
    /\ edits' = edits + 1
    /\ DepGoes(d, "idle")
    /\ dirty' = IF dpc[d] = "refuse" THEN dirty ELSE dirty \cup {d}
    /\ UNCHANGED <<apiVars, handlerPc, proxyPc, guarded>>

DepStep(d) ==
    \/ DepGet(d) \/ DepRefuse(d) \/ AddFinalizer(d) \/ HandleDeletion(d)
    \/ RemoveFinalizer(d) \/ DepProbe(d) \/ DepVerdict(d)

-----------------------------------------------------------------------------
(* Users, pods and endpoints.  All of it is external to the operator; it   *)
(* is counted so that behaviours come to rest.                             *)

Edit == edits < MaxEdits /\ edits' = edits + 1 /\ UNCHANGED <<handlerPc, proxyPc, dpc>>

(* kubectl apply of the handler: created, or its spec replaced.            *)
ApplyHandler(refs, bad) ==
    /\ Edit
    /\ handler' = [(IF handler.exists THEN handler ELSE NoHandler)
                     EXCEPT !.exists = TRUE, !.refs = refs, !.badScaling = bad]
    /\ handler' # handler
    /\ dirty' = dirty \cup {Handler}
    /\ UNCHANGED <<dep, deploy, pod, reachable, guarded>>

(* A deleted handler takes its Deployment and its pod with it.             *)
DeleteHandler ==
    /\ Edit
    /\ handler.exists /\ handler' = NoHandler
    /\ deploy' = NoDeploy /\ pod' = "none"
    /\ dirty' = dirty \cup {Handler} \cup (IF pod # "none" THEN {Pod} ELSE {})
    /\ guarded' = {}
    /\ UNCHANGED <<dep, reachable>>

(* kubectl apply of a dependency: created, or its spec changed.            *)
ApplyDep(d, valid, ver) ==
    /\ Edit
    /\ valid \/ d \notin Tools
    /\ dep' = [dep EXCEPT ![d] = [@ EXCEPT !.exists = TRUE, !.valid = valid, !.ver = ver]]
    /\ dep' # dep
    /\ dirty' = dirty \cup DepEvent(d)
    /\ UNCHANGED <<handler, deploy, pod, reachable, guarded>>

(* kubectl delete: an object with a finalizer is marked, one without goes. *)
DeleteDep(d) ==
    /\ Edit
    /\ dep[d].exists /\ ~dep[d].deleting
    /\ dep' = [dep EXCEPT ![d] = IF @.finalizer THEN [@ EXCEPT !.deleting = TRUE] ELSE NoDep]
    /\ dirty' = dirty \cup DepEvent(d)
    /\ guarded' = IF dep[d].finalizer /\ handler.exists /\ d \in handler.labels
                  THEN guarded \cup {d} ELSE guarded
    /\ UNCHANGED <<handler, deploy, pod, reachable>>

(* The endpoint of a tool comes up or goes down; nobody is told.           *)
ToggleEndpoint(t) ==
    /\ Edit
    /\ reachable' = IF t \in reachable THEN reachable \ {t} ELSE reachable \cup {t}
    /\ UNCHANGED <<handler, dep, deploy, pod, dirty, guarded>>

(* The Deployment has a kapeproxy container: a tool of type mcp is used.   *)
Sidecar == \E spec \in deploy.hash : spec[1] \in Tools \ Memory

(* The pod of the Deployment changes: its proxy container, and whether a   *)
(* replica is ready, which takes a ready proxy where there is one.         *)
PodChanges(health, available) ==
    /\ Edit
    /\ deploy.found
    /\ ~Sidecar => health \in {"none", "ProxyMissing"}
    /\ available => health = IF Sidecar THEN "ProxyHealthy" ELSE "ProxyMissing"
    /\ <<health, available>> # <<pod, deploy.available>>
    /\ pod' = health /\ deploy' = [deploy EXCEPT !.available = available]
    /\ dirty' = dirty \cup {Pod, Handler}
    /\ UNCHANGED <<handler, dep, reachable, guarded>>

Environment ==
    \/ \E refs \in Specs, bad \in BOOLEAN : ApplyHandler(refs, bad)
    \/ DeleteHandler
    \/ \E d \in Deps, valid \in BOOLEAN, ver \in Contents : ApplyDep(d, valid, ver)
    \/ \E d \in Deps : DeleteDep(d)
    \/ \E t \in Tools : ToggleEndpoint(t)
    \/ \E health \in PodHealth, available \in BOOLEAN : PodChanges(health, available)

Next ==
    \/ HandlerStep \/ HandlerFails \/ ProxyStep \/ ProxyFails
    \/ \E d \in Deps : DepStep(d) \/ DepFails(d)
    \/ Environment

Spec == Init /\ [][Next]_vars

(* The workers of every controller keep running.                           *)
Fairness == WF_vars(HandlerStep) /\ WF_vars(ProxyStep) /\ \A d \in Deps : WF_vars(DepStep(d))

FairSpec == Spec /\ Fairness

-----------------------------------------------------------------------------
(* Properties.                                                             *)

(* Deletion protection (handleDeletion of schema.go, skill.go, tool.go):   *)
(* a dependency whose label the handler carried when the deletion was      *)
(* asked for stays until the handler is deleted or its label goes,         *)
(* whatever the reconcilers of both do in between.                         *)
Protected == \A d \in guarded : dep[d].exists

(* computeReadyRollup and gateDependencies: a handler that says Ready=True *)
(* says in the same status that its Deployment is available and does not   *)
(* say that a dependency is missing, although two reconcilers overwrite    *)
(* the status with copies of different age.                                *)
ReadyIsBacked ==
    handler.cond["Ready"] = "True" =>
        /\ handler.cond["DeploymentAvailable"] = "True"
        /\ handler.cond["DependenciesReady"] # "False"

(* gateDependencies: a handler one of whose dependencies stays unready is  *)
(* in the end, and for good, not Ready; no late write of an older status   *)
(* by the kapeproxy reconciler undoes it.  The scaling gate ends Reconcile *)
(* before syncLabels and without a requeue, so that under an invalid       *)
(* scaling configuration this holds of the dependencies whose label the    *)
(* handler already carries.                                                *)
GateHolds ==
    <>[](handler.exists /\ \E d \in Union(handler.refs) :
             ~IsReady(d) /\ (handler.badScaling => d \in handler.labels))
        => <>[](handler.cond["Ready"] # "True")

(* computeRolloutHash and the watches: once the objects rest and are       *)
(* Ready, the Deployment carries the hash of their current specs.          *)
RolloutFollows ==
    <>[](/\ handler.exists /\ ~handler.badScaling
         /\ \A d \in Union(handler.refs) : IsReady(d))
        => <>[](deploy.hash = SpecsOf(handler.refs))

(* The rollup with the proxy's conditions: a handler that was never gated  *)
(* and whose Deployment and proxy stay healthy is in the end Ready.        *)
HealthyIsReady ==
    [](handler.cond["DependenciesReady"] # "False" /\ handler.cond["ScalingConfigured"] # "False")
    /\ <>[](/\ handler.exists /\ ~handler.badScaling /\ deploy.available /\ pod = "ProxyHealthy"
            /\ \A d \in Union(handler.refs) : IsReady(d))
        => <>[](handler.cond["Ready"] = "True")

=============================================================================
