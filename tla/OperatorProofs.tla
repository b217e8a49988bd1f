--------------------------- MODULE OperatorProofs ---------------------------
(***************************************************************************)
(* Deletion protection and the honesty of a handler's Ready condition, for *)
(* any set of schemas, skills and tools, any references between them and   *)
(* any number of edits by users, pods and endpoints.                       *)
(*                                                                         *)
(* Protected is not inductive: a reconciler that listed the handlers       *)
(* before the label appeared would remove the finalizer after it.  It does *)
(* not, because only the reconciler of an object that is being deleted     *)
(* lists at all, an object in deletion is never taken out of it, and the   *)
(* ghost counts a dependency from the moment its deletion is asked for.    *)
(*                                                                         *)
(* ReadyIsBacked is about a status that two reconcilers overwrite with     *)
(* copies of different age: the same has to be true of both copies.        *)
(*                                                                         *)
(* The second part is about the agent server reconciler: what the status   *)
(* of a KapeAgentServer says is so (StatusHonest), for any number of       *)
(* credentials, values, edits, failures and restarts of the operator.      *)
(*                                                                         *)
(* The third part is about the proxy the operator deploys beside an agent. *)
(***************************************************************************)
EXTENDS Operator, AgentServer, KapeProxy, FiniteSetTheorems, TLAPS

Handlers ==
    [exists : BOOLEAN, refs : SUBSET Deps, badScaling : BOOLEAN, labels : SUBSET Deps,
     cond : [Conditions -> CondStatus]]

Dependencies ==
    [exists : BOOLEAN, deleting : BOOLEAN, finalizer : BOOLEAN, valid : BOOLEAN,
     ready : CondStatus, ver : Nat]

Steps == {"idle", "refuse", "finalize", "list", "release", "probe", "ready", "unready"}

Types ==
    /\ handler \in Handlers /\ hcopy \in Handlers
    /\ dep \in [Deps -> Dependencies]
    /\ pcopy \in [Conditions -> CondStatus]
    /\ dpc \in [Deps -> Steps]
    /\ guarded \subseteq Deps

(* What the API server keeps of an object in deletion, and what the step   *)
(* of its reconciler says of it (schema.go, skill.go, tool.go): the        *)
(* handlers are listed, and the finalizer removed, only for an object that *)
(* is marked as deleted and carries the finalizer.                         *)
InDeletion ==
    \A d \in Deps :
        /\ dep[d].deleting => dep[d].exists /\ dep[d].finalizer
        /\ dep[d].finalizer => dep[d].exists
        /\ dpc[d] \in {"list", "release"} => dep[d].deleting

(* A guarded dependency is in deletion, the handler carries its label, and *)
(* its reconciler has not decided to release it.                           *)
Guard ==
    \A d \in guarded :
        /\ dep[d].deleting
        /\ handler.exists /\ d \in handler.labels
        /\ dpc[d] # "release"

(* Both copies of the status are as honest as the status itself.           *)
Backed(cond) ==
    cond["Ready"] = "True" =>
        cond["DeploymentAvailable"] = "True" /\ cond["DependenciesReady"] # "False"

Statuses == Backed(handler.cond) /\ Backed(hcopy.cond) /\ Backed(pcopy)

OperatorInv == Types /\ InDeletion /\ Guard /\ Statuses

-----------------------------------------------------------------------------

(* The invariant holds in an empty cluster.                                *)
LEMMA OperatorInitial == Init => OperatorInv
<1> SUFFICES ASSUME Init PROVE OperatorInv
  OBVIOUS
<1> USE OperatorAssumption
<1>1. NoConditions \in [Conditions -> CondStatus] /\ Backed(NoConditions)
  BY DEF NoConditions, Conditions, CondStatus, Backed
<1>2. NoHandler \in Handlers /\ NoHandler.cond = NoConditions
  BY <1>1 DEF NoHandler, Handlers
<1>3. /\ handler \in Handlers
      /\ handler.cond = NoConditions
  <2>1. CASE Handler \in Existing
    <3>1. PICK refs \in Specs : handler = [NoHandler EXCEPT !.exists = TRUE, !.refs = refs]
      BY Zenon, <2>1 DEF Init
    <3>2. refs \in SUBSET Deps
      OBVIOUS
    <3> QED  BY Zenon, <3>1, <3>2, <1>2 DEF Handlers, NoHandler
  <2>2. CASE Handler \notin Existing
    BY <2>2, <1>2 DEF Init
  <2> QED  BY <2>1, <2>2
<1>4. dep \in [Deps -> Dependencies]
  <2>1. ASSUME NEW b \in BOOLEAN PROVE [NoDep EXCEPT !.exists = b] \in Dependencies
    BY Zenon DEF NoDep, Dependencies, CondStatus
  <2>2. \A d \in Deps : (d \in Existing) \in BOOLEAN
    OBVIOUS
  <2>3. \A d \in Deps : [NoDep EXCEPT !.exists = d \in Existing] \in Dependencies
    BY <2>1, <2>2, Zenon
  <2> QED  BY Zenon, <2>3 DEF Init
<1>5. Types
  BY Zenon, <1>1, <1>2, <1>3, <1>4 DEF Init, Types, Steps
<1>6. InDeletion /\ Guard
  BY Zenon DEF Init, InDeletion, Guard, NoDep
<1>7. Statuses
  BY Zenon, <1>1, <1>2, <1>3 DEF Init, Statuses
<1> QED  BY <1>5, <1>6, <1>7 DEF OperatorInv

(* HandlerRepository.UpdateStatus writes an honest status where the        *)
(* conditions it is given are honest, and nothing else.                    *)
LEMMA WriteStatusInv ==
    ASSUME OperatorInv, NEW cond, cond \in [Conditions -> CondStatus], Backed(cond),
           NEW queue, WriteStatus(cond, queue)
    PROVE  /\ handler' \in Handlers /\ Backed(handler.cond)'
           /\ handler'.exists = handler.exists /\ handler'.labels = handler.labels
  BY DEF OperatorInv, Types, Statuses, Handlers, WriteStatus, Backed

(* The conditions the gates write, the rollup and those of the kapeproxy   *)
(* reconciler are honest (gateDependencies, gateScaling,                   *)
(* computeReadyRollup, applyProxyConditions).                              *)
LEMMA BuiltBacked ==
    ASSUME NEW cond \in [Conditions -> CondStatus], Backed(cond)
    PROVE  /\ LET gated == Set(Set(cond, "DependenciesReady", "False"), "Ready", "False")
              IN gated \in [Conditions -> CondStatus] /\ Backed(gated)
           /\ LET scaled == Set(Set(cond, "DependenciesReady", "True"), "ScalingConfigured", "False")
              IN scaled \in [Conditions -> CondStatus] /\ Backed(scaled)
           /\ BuildHandlerConditions(cond) \in [Conditions -> CondStatus]
           /\ Backed(BuildHandlerConditions(cond))
           /\ \A health : /\ ApplyProxyConditions(cond, health) \in [Conditions -> CondStatus]
                          /\ Backed(ApplyProxyConditions(cond, health))
<1> USE DEF Set, Conditions, CondStatus
<1>1. LET gated == Set(Set(cond, "DependenciesReady", "False"), "Ready", "False")
      IN gated \in [Conditions -> CondStatus] /\ Backed(gated)
  BY DEF Backed
<1>2. LET scaled == Set(Set(cond, "DependenciesReady", "True"), "ScalingConfigured", "False")
      IN scaled \in [Conditions -> CondStatus] /\ Backed(scaled)
  BY DEF Backed
<1>3. /\ BuildHandlerConditions(cond) \in [Conditions -> CondStatus]
      /\ Backed(BuildHandlerConditions(cond))
  BY DEF Backed, BuildHandlerConditions
<1>4. ASSUME NEW health
      PROVE  /\ ApplyProxyConditions(cond, health) \in [Conditions -> CondStatus]
             /\ Backed(ApplyProxyConditions(cond, health))
  BY DEF Backed, ApplyProxyConditions
<1> QED  BY <1>1, <1>2, <1>3, <1>4

(* A step that leaves the dependencies, their reconcilers and the ghost    *)
(* alone, and of the handler at most changes what protection does not look *)
(* at.                                                                     *)
LEMMA GuardUntouched ==
    ASSUME OperatorInv, UNCHANGED <<dep, dpc, guarded>>,
           handler'.exists = handler.exists, handler'.labels = handler.labels
    PROVE  InDeletion' /\ Guard'
  BY DEF OperatorInv, InDeletion, Guard

-----------------------------------------------------------------------------
(* The handler reconciler and the kapeproxy reconciler.                    *)

LEMMA HandlerStepInv ==
    ASSUME OperatorInv, HandlerStep
    PROVE  OperatorInv'
<1> USE DEF OperatorInv
<1>0. NoHandler \in Handlers /\ Backed(NoHandler.cond)
  BY DEF NoHandler, Handlers, NoConditions, Conditions, CondStatus, Backed
<1>1. CASE HandlerGet
  <2>1. UNCHANGED <<handler, dep, dpc, guarded, pcopy>> /\ hcopy' \in {hcopy, handler}
    BY <1>1 DEF HandlerGet, apiVars, proxyPc, handlerPc
  <2>2. Types'
    BY <2>1 DEF Types
  <2>3. Statuses'
    BY <2>1 DEF Statuses
  <2> QED  BY <2>1, <2>2, <2>3, GuardUntouched
<1>2. CASE GateDependencies \/ GateScaling \/ UpdateStatus
  <2>1. /\ UNCHANGED <<dep, dpc, guarded, pcopy>> /\ hcopy' = NoHandler
        /\ \E cond \in [Conditions -> CondStatus] : Backed(cond) /\ \E queue : WriteStatus(cond, queue)
    <3>1. hcopy.cond \in [Conditions -> CondStatus] /\ Backed(hcopy.cond)
      BY DEF Types, Handlers, Statuses
    <3>2. CASE GateDependencies
      BY <3>1, <3>2, BuiltBacked DEF GateDependencies, HandlerReturns, proxyPc
    <3>3. CASE GateScaling
      BY <3>1, <3>3, BuiltBacked DEF GateScaling, HandlerReturns, proxyPc
    <3>4. CASE UpdateStatus
      BY <3>1, <3>4 DEF UpdateStatus, HandlerReturns, proxyPc
    <3> QED  BY <1>2, <3>2, <3>3, <3>4
  <2>2. PICK cond \in [Conditions -> CondStatus] : Backed(cond) /\ \E queue : WriteStatus(cond, queue)
    BY <2>1
  <2>3. /\ handler' \in Handlers /\ Backed(handler.cond)'
        /\ handler'.exists = handler.exists /\ handler'.labels = handler.labels
    BY <2>2, WriteStatusInv
  <2>4. Types'
    BY <2>1, <2>3, <1>0 DEF Types
  <2>5. Statuses'
    BY <2>1, <2>3, <1>0 DEF Statuses
  <2> QED  BY <2>1, <2>3, <2>4, <2>5, GuardUntouched
<1>3. CASE ReconcileWorkload
  <2>1. UNCHANGED <<handler, dep, dpc, guarded, pcopy, hcopy>>
    BY <1>3 DEF ReconcileWorkload, proxyPc
  <2>2. Types' /\ Statuses'
    BY <2>1 DEF Types, Statuses
  <2> QED  BY <2>1, <2>2, GuardUntouched
<1>4. CASE SyncLabels
  <2>1. UNCHANGED <<dep, dpc, pcopy, hcopy>> /\ guarded' = guarded \cap handler'.labels
    BY <1>4 DEF SyncLabels, proxyPc
  <2>2. PICK labels \in SUBSET Deps :
          handler' = IF handler.exists THEN [handler EXCEPT !.labels = labels] ELSE handler
    <3> DEFINE missing == Union(hcopy.refs) \ hcopy.labels
               kept == IF missing \cap Schemas = {} THEN handler.labels ELSE handler.labels \ Schemas
    <3>1. missing \in SUBSET Deps
      BY OperatorAssumption DEF Types, Handlers, Union, Deps
    <3>2. kept \in SUBSET Deps
      BY DEF Types, Handlers
    <3>3. handler' = IF handler.exists THEN [handler EXCEPT !.labels = kept \cup missing] ELSE handler
      BY <1>4 DEF SyncLabels
    <3> QED  BY Zenon, <3>1, <3>2, <3>3
  <2>3. handler' \in Handlers /\ handler'.exists = handler.exists /\ handler'.cond = handler.cond
    BY <2>2 DEF Types, Handlers
  <2>4. Types'
    BY <2>1, <2>3 DEF Types
  <2>5. InDeletion' /\ Guard'
    BY <2>1, <2>3 DEF InDeletion, Guard
  <2>6. Statuses'
    BY <2>1, <2>3 DEF Statuses
  <2> QED  BY <2>4, <2>5, <2>6
<1>5. CASE HandlerReget
  <2>1. UNCHANGED <<handler, dep, dpc, guarded, pcopy>>
    BY <1>5 DEF HandlerReget, apiVars, proxyPc
  <2>2. hcopy' \in {NoHandler, [handler EXCEPT !.cond = BuildHandlerConditions(handler.cond)]}
    BY <1>5 DEF HandlerReget, HandlerReturns
  <2>3. /\ BuildHandlerConditions(handler.cond) \in [Conditions -> CondStatus]
        /\ Backed(BuildHandlerConditions(handler.cond))
    BY BuiltBacked DEF Types, Handlers, Statuses
  <2>4. hcopy' \in Handlers /\ Backed(hcopy'.cond)
    BY <2>2, <2>3, <1>0 DEF Types, Handlers
  <2>5. Types' /\ Statuses'
    BY <2>1, <2>4 DEF Types, Statuses
  <2> QED  BY <2>1, <2>5, GuardUntouched
<1> QED  BY <1>1, <1>2, <1>3, <1>4, <1>5 DEF HandlerStep

(* Every step of the kapeproxy reconciler keeps the invariant.             *)
LEMMA ProxyStepInv ==
    ASSUME OperatorInv, ProxyStep
    PROVE  OperatorInv'
<1> USE DEF OperatorInv
<1>0. NoConditions \in [Conditions -> CondStatus] /\ Backed(NoConditions)
  BY DEF NoConditions, Conditions, CondStatus, Backed
<1>1. CASE ProxyGet
  <2>1. /\ UNCHANGED <<handler, dep, dpc, guarded, hcopy>>
        /\ pcopy' \in {pcopy, ApplyProxyConditions(handler.cond, pod)}
    BY <1>1 DEF ProxyGet, apiVars, proxyPc, handlerPc
  <2>2. pcopy' \in [Conditions -> CondStatus] /\ Backed(pcopy')
    BY <2>1, BuiltBacked DEF Types, Handlers, Statuses
  <2>3. Types' /\ Statuses'
    BY <2>1, <2>2 DEF Types, Statuses
  <2> QED  BY <2>1, <2>3, GuardUntouched
<1>2. CASE ProxyWrite
  <2>1. UNCHANGED <<dep, dpc, guarded, hcopy>> /\ pcopy' = NoConditions /\ WriteStatus(pcopy, dirty)
    BY <1>2 DEF ProxyWrite, handlerPc
  <2>2. /\ handler' \in Handlers /\ Backed(handler.cond)'
        /\ handler'.exists = handler.exists /\ handler'.labels = handler.labels
    BY <2>1, WriteStatusInv DEF Types, Statuses
  <2>3. Types' /\ Statuses'
    BY <2>1, <2>2, <1>0 DEF Types, Statuses
  <2> QED  BY <2>1, <2>2, <2>3, GuardUntouched
<1> QED  BY <1>1, <1>2 DEF ProxyStep

(* A failed call of any reconciler but that of a dependency.               *)
LEMMA FailsInv ==
    ASSUME OperatorInv, HandlerFails \/ ProxyFails
    PROVE  OperatorInv'
<1> USE DEF OperatorInv
<1>1. /\ UNCHANGED <<handler, dep, dpc, guarded>>
      /\ hcopy' \in {hcopy, NoHandler} /\ pcopy' \in {pcopy, NoConditions}
  BY DEF HandlerFails, ProxyFails, HandlerReturns, apiVars, proxyPc, handlerPc
<1>2. /\ NoHandler \in Handlers /\ Backed(NoHandler.cond)
      /\ NoConditions \in [Conditions -> CondStatus] /\ Backed(NoConditions)
  BY DEF NoHandler, Handlers, NoConditions, Conditions, CondStatus, Backed
<1>3. Types' /\ Statuses'
  BY <1>1, <1>2 DEF Types, Statuses
<1> QED  BY <1>1, <1>3, GuardUntouched

-----------------------------------------------------------------------------
(* The reconcilers of the dependencies, and their users.                   *)

(* A step of one dependency's reconciler, or of a user at one dependency,  *)
(* whose effect on that dependency is good on its own.                     *)
LEMMA OneDep ==
    ASSUME OperatorInv, NEW d \in Deps,
           UNCHANGED <<handler, hcopy, pcopy>>,
           NEW o \in Dependencies, dep' = [dep EXCEPT ![d] = o],
           NEW step \in Steps, dpc' = [dpc EXCEPT ![d] = step],
           o.deleting => o.exists /\ o.finalizer,
           o.finalizer => o.exists,
           step \in {"list", "release"} => o.deleting,
           guarded' \subseteq guarded \cup {d},
           d \in guarded' => /\ o.deleting /\ step # "release"
                             /\ handler.exists /\ d \in handler.labels
    PROVE  OperatorInv'
<1> USE DEF OperatorInv
<1>1. Types'
  BY DEF Types
<1>2. InDeletion'
  BY DEF Types, InDeletion
<1>3. Guard'
  BY DEF Types, Guard
<1>4. Statuses'
  BY DEF Statuses
<1> QED  BY <1>1, <1>2, <1>3, <1>4

(* Every step of the reconciler of KapeTools, KapeSchemas and KapeSkills   *)
(* keeps the invariant, whether its calls succeed or fail.                 *)
LEMMA DepStepInv ==
    ASSUME OperatorInv, NEW d \in Deps, DepStep(d) \/ DepFails(d)
    PROVE  OperatorInv'
<1> USE DEF OperatorInv
<1>0. /\ dep[d] \in Dependencies /\ dpc[d] \in Steps
      /\ dep = [dep EXCEPT ![d] = dep[d]] /\ NoDep \in Dependencies
      /\ dep[d].deleting => dep[d].exists /\ dep[d].finalizer
      /\ dep[d].finalizer => dep[d].exists
      /\ dpc[d] \in {"list", "release"} => dep[d].deleting
      /\ d \in guarded => /\ dep[d].deleting /\ dpc[d] # "release"
                          /\ handler.exists /\ d \in handler.labels
  BY DEF Types, InDeletion, Guard, NoDep, Dependencies, CondStatus
<1>1. CASE DepGet(d)
  <2>1. PICK step \in Steps :
          /\ dpc' = [dpc EXCEPT ![d] = step]
          /\ step \in {"list", "release"} => dep[d].deleting
          /\ step # "release"
    BY Zenon, <1>1 DEF DepGet, DepGoes, AfterFinalizer, Steps
  <2>2. UNCHANGED <<handler, hcopy, pcopy, dep, guarded>>
    BY <1>1 DEF DepGet, apiVars, handlerPc, proxyPc
  <2> QED  BY Zenon, <1>0, <2>1, <2>2, OneDep
<1>2. CASE DepRefuse(d) \/ DepVerdict(d)
  <2>1. PICK ready \in CondStatus, queue \in {dirty, dirty \cup {d}} : WriteDep(d, ready, queue)
    BY Zenon, <1>2 DEF DepRefuse, DepVerdict, CondStatus
  <2>2. UNCHANGED <<handler, hcopy, pcopy, guarded>> /\ dpc' = [dpc EXCEPT ![d] = "idle"]
    BY <1>2 DEF DepRefuse, DepVerdict, handlerPc, proxyPc, DepGoes
  <2> DEFINE o == IF dep[d].exists THEN [dep[d] EXCEPT !.ready = ready] ELSE dep[d]
  <2>3. dep' = [dep EXCEPT ![d] = o]
    BY Zenon, <2>1 DEF WriteDep, Types
  <2>4. /\ o \in Dependencies /\ o.exists = dep[d].exists
        /\ o.deleting = dep[d].deleting /\ o.finalizer = dep[d].finalizer
    BY <1>0 DEF Dependencies
  <2> HIDE DEF o
  <2> QED  BY Zenon, <1>0, <2>2, <2>3, <2>4, OneDep DEF Steps
<1>3. CASE AddFinalizer(d)
  <2>1. UNCHANGED <<handler, hcopy, pcopy, guarded>>
    BY <1>3 DEF AddFinalizer, handlerPc, proxyPc
  <2>2. CASE dep[d].exists
    <3> DEFINE o == [dep[d] EXCEPT !.finalizer = TRUE]
    <3>1. dep' = [dep EXCEPT ![d] = o] /\ dpc' = [dpc EXCEPT ![d] = AfterFinalizer(dep[d])]
      BY <1>3, <2>2 DEF AddFinalizer, DepGoes
    <3>2. /\ o \in Dependencies /\ o.exists = dep[d].exists
          /\ o.deleting = dep[d].deleting /\ o.finalizer
      BY Zenon, <1>0 DEF Dependencies
    <3>3. /\ AfterFinalizer(dep[d]) \in Steps /\ AfterFinalizer(dep[d]) # "release"
          /\ AfterFinalizer(dep[d]) = "list" => dep[d].deleting
      BY DEF AfterFinalizer, Steps
    <3> HIDE DEF o
    <3> QED  BY Zenon, <1>0, <2>1, <2>2, <3>1, <3>2, <3>3, OneDep
  <2>3. CASE ~dep[d].exists
    BY <1>0, <1>3, <2>1, <2>3, OneDep DEF AddFinalizer, DepGoes, Steps
  <2> QED  BY <2>2, <2>3
<1>4. CASE HandleDeletion(d)
  <2>1. PICK step \in {"refuse", "release"} :
          dpc' = [dpc EXCEPT ![d] = step] /\ (d \in guarded => step # "release")
    BY Zenon, <1>0, <1>4 DEF HandleDeletion, DepGoes
  <2>2. UNCHANGED <<handler, hcopy, pcopy, dep, guarded>> /\ dep[d].deleting
    BY <1>0, <1>4 DEF HandleDeletion, apiVars, handlerPc, proxyPc
  <2> QED  BY Zenon, <1>0, <2>1, <2>2, OneDep DEF Steps
<1>5. CASE RemoveFinalizer(d)
  <2>1. UNCHANGED <<handler, hcopy, pcopy, guarded>> /\ d \notin guarded
    BY <1>0, <1>5 DEF RemoveFinalizer, handlerPc, proxyPc
  <2>2. dep' = [dep EXCEPT ![d] = NoDep] /\ dpc' = [dpc EXCEPT ![d] = "idle"]
    BY <1>5 DEF RemoveFinalizer, DepGoes
  <2>3. ~NoDep.deleting /\ ~NoDep.finalizer
    BY DEF NoDep
  <2> QED  BY Zenon, <1>0, <2>1, <2>2, <2>3, OneDep DEF Steps
<1>6. CASE DepProbe(d) \/ DepFails(d)
  <2>1. PICK step \in {"ready", "unready", "idle"} : dpc' = [dpc EXCEPT ![d] = step]
    BY <1>6 DEF DepProbe, DepFails, DepGoes
  <2>2. UNCHANGED <<handler, hcopy, pcopy, dep, guarded>>
    BY <1>6 DEF DepProbe, DepFails, apiVars, handlerPc, proxyPc
  <2> QED  BY Zenon, <1>0, <2>1, <2>2, OneDep DEF Steps
<1> QED  BY <1>1, <1>2, <1>3, <1>4, <1>5, <1>6 DEF DepStep

(* What users, the kubelet and the network do keeps the invariant.         *)
LEMMA EnvironmentInv ==
    ASSUME OperatorInv, Environment
    PROVE  OperatorInv'
<1> USE DEF OperatorInv
<1>0. UNCHANGED <<hcopy, pcopy, dpc>>
  BY Zenon DEF Environment, ApplyHandler, DeleteHandler, ApplyDep, DeleteDep, ToggleEndpoint,
         PodChanges, Edit, handlerPc, proxyPc
<1>1. CASE \E refs \in Specs, bad \in BOOLEAN : ApplyHandler(refs, bad)
  <2>1. PICK refs \in Specs, bad \in BOOLEAN : ApplyHandler(refs, bad)
    BY <1>1
  <2>2. refs \in SUBSET Deps /\ NoHandler \in Handlers /\ Backed(NoHandler.cond)
    BY OperatorAssumption
       DEF NoHandler, Handlers, NoConditions, Conditions, CondStatus, Backed
  <2>3. /\ handler' = [(IF handler.exists THEN handler ELSE NoHandler)
                        EXCEPT !.exists = TRUE, !.refs = refs, !.badScaling = bad]
        /\ UNCHANGED <<dep, guarded>>
    BY <2>1 DEF ApplyHandler
  <2>4. handler' \in Handlers /\ handler'.exists /\ Backed(handler'.cond)
    BY Zenon, <2>2, <2>3 DEF Types, Handlers, Statuses
  <2>5. handler.exists => handler'.labels = handler.labels
    BY <2>3 DEF Types, Handlers
  <2>6. Types' /\ Statuses'
    BY <1>0, <2>3, <2>4 DEF Types, Statuses
  <2>7. InDeletion' /\ Guard'
    BY <1>0, <2>3, <2>4, <2>5 DEF InDeletion, Guard
  <2> QED  BY <2>6, <2>7
<1>2. CASE DeleteHandler
  <2>1. handler' = NoHandler /\ guarded' = {} /\ UNCHANGED dep
    BY <1>2 DEF DeleteHandler
  <2>2. NoHandler \in Handlers /\ Backed(NoHandler.cond)
    BY DEF NoHandler, Handlers, NoConditions, Conditions, CondStatus, Backed
  <2>3. Types' /\ Statuses' /\ InDeletion' /\ Guard'
    BY <1>0, <2>1, <2>2 DEF Types, Statuses, InDeletion, Guard
  <2> QED  BY <2>3
<1>3. CASE \E d \in Deps, valid \in BOOLEAN, ver \in Contents : ApplyDep(d, valid, ver)
  <2>1. PICK d \in Deps, valid \in BOOLEAN, ver \in Contents : ApplyDep(d, valid, ver)
    BY <1>3
  <2> DEFINE o == [dep[d] EXCEPT !.exists = TRUE, !.valid = valid, !.ver = ver]
  <2>2. dep' = [dep EXCEPT ![d] = o] /\ UNCHANGED <<handler, guarded>>
    BY <2>1 DEF ApplyDep
  <2>3. /\ dep[d] \in Dependencies /\ o \in Dependencies /\ o.exists
        /\ o.deleting = dep[d].deleting /\ o.finalizer = dep[d].finalizer
    <3>1. ver \in Nat /\ dep[d] \in Dependencies
      BY DEF Types, Contents
    <3> QED  BY Zenon, <3>1 DEF Dependencies
  <2>4. dpc[d] \in Steps /\ dpc' = [dpc EXCEPT ![d] = dpc[d]]
    BY <1>0 DEF Types
  <2> HIDE DEF o
  <2> QED  BY Zenon, <1>0, <2>2, <2>3, <2>4, OneDep DEF InDeletion, Guard
<1>4. CASE \E d \in Deps : DeleteDep(d)
  <2>1. PICK d \in Deps : DeleteDep(d)
    BY <1>4
  <2> DEFINE o == IF dep[d].finalizer THEN [dep[d] EXCEPT !.deleting = TRUE] ELSE NoDep
  <2>2. /\ dep' = [dep EXCEPT ![d] = o] /\ UNCHANGED handler
        /\ dep[d].exists /\ ~dep[d].deleting
        /\ guarded' = IF dep[d].finalizer /\ handler.exists /\ d \in handler.labels
                      THEN guarded \cup {d} ELSE guarded
    BY <2>1 DEF DeleteDep
  <2>3. /\ dep[d] \in Dependencies /\ o \in Dependencies
        /\ o.deleting = dep[d].finalizer /\ o.finalizer = dep[d].finalizer
        /\ dep[d].finalizer => o.exists
    BY Zenon, <2>2 DEF Types, Dependencies, NoDep, CondStatus
  <2>4. dpc[d] \in Steps /\ dpc' = [dpc EXCEPT ![d] = dpc[d]]
    BY <1>0 DEF Types
  <2>5. d \notin guarded /\ dpc[d] \notin {"list", "release"}
    BY <2>2 DEF InDeletion, Guard
  <2> HIDE DEF o
  <2> QED  BY Zenon, <1>0, <2>2, <2>3, <2>4, <2>5, OneDep
<1>5. CASE \/ \E t \in Tools : ToggleEndpoint(t)
           \/ \E health \in PodHealth, available \in BOOLEAN : PodChanges(health, available)
  <2>1. UNCHANGED <<handler, dep, guarded>>
    BY <1>5 DEF ToggleEndpoint, PodChanges
  <2>2. Types' /\ Statuses'
    BY <1>0, <2>1 DEF Types, Statuses
  <2> QED  BY <1>0, <2>1, <2>2, GuardUntouched
<1> QED  BY <1>1, <1>2, <1>3, <1>4, <1>5 DEF Environment

-----------------------------------------------------------------------------
(* The results.                                                            *)

(* The inductive invariant, for all sets of objects and any number of      *)
(* edits.                                                                  *)
THEOREM OperatorInvariant == Spec => []OperatorInv
<1>1. OperatorInv /\ [Next]_vars => OperatorInv'
  <2> SUFFICES ASSUME OperatorInv, [Next]_vars PROVE OperatorInv'
    OBVIOUS
  <2>1. CASE HandlerStep
    BY <2>1, HandlerStepInv
  <2>2. CASE ProxyStep
    BY <2>2, ProxyStepInv
  <2>3. CASE HandlerFails \/ ProxyFails
    BY <2>3, FailsInv
  <2>4. CASE \E d \in Deps : DepStep(d) \/ DepFails(d)
    BY <2>4, DepStepInv
  <2>5. CASE Environment
    BY <2>5, EnvironmentInv
  <2>6. CASE UNCHANGED vars
    BY <2>6 DEF vars, apiVars, handlerPc, proxyPc, OperatorInv, Types, InDeletion, Guard,
                Statuses, Backed
  <2> QED  BY <2>1, <2>2, <2>3, <2>4, <2>5, <2>6 DEF Next
<1> QED  BY <1>1, OperatorInitial, PTL DEF Spec

(* Deletion protection (handleDeletion of schema.go, skill.go, tool.go): a *)
(* dependency whose label the handler carried when its deletion was asked  *)
(* for is there until the handler or the label goes, however the           *)
(* reconcilers of both, failed calls and edits interleave.                 *)
THEOREM OperatorProtects == Spec => []Protected
<1>1. OperatorInv => Protected
  BY DEF OperatorInv, Types, InDeletion, Guard, Protected
<1> QED  BY <1>1, OperatorInvariant, PTL

(* computeReadyRollup and gateDependencies: a handler that says Ready says *)
(* in the same status that its Deployment is available and that no         *)
(* dependency is missing, whoever overwrote the status last.               *)
THEOREM OperatorReadyIsBacked == Spec => []ReadyIsBacked
<1>1. OperatorInv => ReadyIsBacked
  BY DEF OperatorInv, Statuses, Backed, ReadyIsBacked
<1> QED  BY <1>1, OperatorInvariant, PTL

-----------------------------------------------------------------------------
(* The agent server reconciler.  It reads its inputs in several steps while *)
(* they change.  The argument is that nothing it has read can go stale      *)
(* unnoticed: as long as the key is not queued again, what the reconcile    *)
(* holds is what there is (Follows), with one exception the code has, a     *)
(* Secret that lost its label.  What it pushed is what the gateway holds,   *)
(* with the other exception, a write that was never answered (Remembered,   *)
(* Delivered).                                                              *)


SrvBounds ==
    [creds : SUBSET Creds, edits : Nat, failures : Nat,
     faults : SUBSET {"read", "unavailable", "aborted", "lost", "api"},
     foreign : SUBSET Objects, wired : BOOLEAN]

SrvSpec(scopes) == SrvInit(scopes) /\ [][SrvNext]_srvVars

Values == SecretValues \cup {NoValue}

Outcomes ==
    {NoValue, "SecretNotFound", "SecretNotLabeled", "MissingCredentialKey", "SecretReadFailed",
     "GatewayUnavailable", "GatewayRejected", "Pushed"}

Stages == {"idle", "resolve", "profiles", "push", "token", "apply", "observe", "status"}

Readies ==
    {NoValue, "WiringIncomplete", "ApplyFailed", "OwnershipConflict", "Deployed", "Progressing"}

Works ==
    [pc : Stages, creds : SUBSET Creds, ingress : BOOLEAN, gen : Nat, value : [Creds -> Values],
     outcome : [Creds -> Outcomes], at : 1..5, ready : Readies, retry : BOOLEAN]

SrvTypes ==
    /\ srvScope \in SrvBounds
    /\ srv \in [exists : BOOLEAN, creds : SUBSET Creds, ingress : BOOLEAN, gen : Nat]
    /\ secret \in [Creds -> Secrets]
    /\ provider \in [Creds -> Values] /\ pushed \in [Creds -> Values]
    /\ objects \in [Objects -> {"none", "owned", "foreign"}]
    /\ bound \in SUBSET Creds /\ serving \in BOOLEAN
    /\ srvStatus \in [ready : Readies, outcome : [Creds -> Outcomes], gen : Nat]
    /\ srvQueued \in BOOLEAN
    /\ work \in Works
    /\ unlabelled \in SUBSET Creds /\ unanswered \in SUBSET Creds

(* Writer.pushed is what the gateway holds.                                *)
Remembered == \A c \in Creds : pushed[c] # NoValue => provider[c] = pushed[c] \/ c \in unanswered

(* What this reconcile reports as pushed it has pushed.                    *)
Delivered ==
    \A c \in Creds : work.outcome[c] = "Pushed" =>
        /\ c \in work.creds /\ provider[c] # NoValue
        /\ work.value[c] # NoValue /\ pushed[c] = work.value[c]

(* The objects the applier is past, and what it left them as.              *)
Past(i) ==
    \/ work.pc = "apply" /\ i < work.at
    \/ work.pc = "observe"
    \/ work.pc = "status" /\ work.ready = "Deployed"

InPlace(o) ==
    /\ o = "Ingress" => (objects[o] = "owned") = work.ingress
    /\ o # "Ingress" => objects[o] = "owned"
    /\ o = "Deployment" => bound = Rendered

(* The CR, the Secrets and the objects are as the reconcile knows them.    *)
SameServer ==
    srv.exists /\ work.creds = srv.creds /\ work.ingress = srv.ingress /\ work.gen = srv.gen

SameSecrets ==
    work.pc # "resolve" =>
        \A c \in work.creds \ unlabelled : work.value[c] # NoValue => secret[c] = work.value[c]

SameObjects ==
    /\ \A i \in 1..5 : Past(i) => InPlace(Kinds[i])
    /\ work.pc = "status" /\ work.ready = "Deployed" => serving

Follows == work.pc # "idle" /\ ~srvQueued => SameServer /\ SameSecrets /\ SameObjects

(* The applier starts with the first object; a CR that is gone has no      *)
(* status.                                                                 *)
Starts == work.pc \in {"resolve", "profiles", "push", "token"} => work.at = 1

NoGhost == ~srv.exists => srvStatus = NoStatus

ServerInv ==
    /\ SrvTypes /\ Remembered /\ Delivered /\ Follows /\ Starts /\ NoGhost
    /\ StatusHonest

-----------------------------------------------------------------------------
(* The objects of a CR, in the order in which reconcileChildren applies    *)
(* them.                                                                   *)
LEMMA KindsFacts ==
    /\ Len(Kinds) = 5 /\ Kinds[1] = "ServiceAccount" /\ Kinds[2] = "RoleBinding"
    /\ Kinds[3] = "Deployment" /\ Kinds[4] = "Service" /\ Kinds[5] = "Ingress"
    /\ Objects = {"ServiceAccount", "RoleBinding", "Deployment", "Service", "Ingress"}
<1>1. Len(Kinds) = 5 /\ DOMAIN Kinds = {1, 2, 3, 4, 5}
  BY DEF Kinds
<1>2. /\ Kinds[1] = "ServiceAccount" /\ Kinds[2] = "RoleBinding"
      /\ Kinds[3] = "Deployment" /\ Kinds[4] = "Service" /\ Kinds[5] = "Ingress"
  BY DEF Kinds
<1> HIDE DEF Kinds
<1> QED  BY <1>1, <1>2 DEF Objects

(* The initial values have their types and claim nothing.                  *)
LEMMA Blank ==
    /\ NoWork \in Works /\ NoWork.pc = "idle" /\ NoWork.at = 1
    /\ NoStatus \in [ready : Readies, outcome : [Creds -> Outcomes], gen : Nat]
    /\ NoOutcomes \in [Creds -> Values] /\ NoOutcomes \in [Creds -> Outcomes]
    /\ \A c \in Creds : NoWork.outcome[c] # "Pushed" /\ NoOutcomes[c] = NoValue
    /\ NoStatus.ready # "Deployed" /\ \A c \in Creds : NoStatus.outcome[c] # "Pushed"
<1>1. NoOutcomes \in [Creds -> Values] /\ NoOutcomes \in [Creds -> Outcomes]
      /\ \A c \in Creds : NoOutcomes[c] = NoValue
  BY DEF NoOutcomes, Values, Outcomes
<1> HIDE DEF NoOutcomes
<1> QED  BY <1>1 DEF NoWork, NoStatus, Works, Stages, Readies, NoValue

(* Nothing is claimed while a reconcile is due or under way.               *)
LEMMA Unrested == ~SrvRests => ReadyHonest /\ PushedIsCurrent
BY DEF ReadyHonest, PushedIsCurrent, LatestValues

(* The invariant holds before the first reconcile.                         *)
LEMMA ServerInitial ==
    ASSUME NEW scopes \in SUBSET SrvBounds, SrvInit(scopes)
    PROVE  ServerInv
<1> USE DEF SrvInit
<1>1. SrvTypes
  <2>1. srvScope \in SrvBounds /\ srvScope.creds \in SUBSET Creds
    BY DEF SrvBounds
  <2>2. srv \in [exists : BOOLEAN, creds : SUBSET Creds, ingress : BOOLEAN, gen : Nat]
    BY <2>1
  <2>3. secret \in [Creds -> Secrets] /\ objects \in [Objects -> {"none", "owned", "foreign"}]
    BY DEF Secrets
  <2> QED  BY Zenon, <2>1, <2>2, <2>3, Blank DEF SrvTypes
<1>2. Remembered /\ Delivered /\ Starts /\ BindingsBacked
  BY Blank DEF Remembered, Delivered, Starts, BindingsBacked
<1>3. ~SrvRests /\ Follows /\ NoGhost
  BY DEF SrvRests, Follows, NoGhost
<1> QED  BY <1>1, <1>2, <1>3, Unrested DEF ServerInv, StatusHonest

(* A step between reading the Secrets and the first object.                *)
LEMMA BeforeObjects ==
    ASSUME ServerInv, SrvTypes',
           work.pc \in {"resolve", "profiles", "push"}, work'.pc \in {"profiles", "push", "token"},
           work'.creds = work.creds, work'.ingress = work.ingress, work'.gen = work.gen,
           work'.at = work.at,
           UNCHANGED <<srv, secret, bound, srvStatus, srvQueued>>,
           \A c \in Creds : provider[c] # NoValue => provider'[c] # NoValue,
           ~srvQueued => SameSecrets', Remembered', Delivered'
    PROVE  ServerInv'
<1>1. Follows'
  <2> SUFFICES ASSUME ~srvQueued PROVE SameServer' /\ SameObjects'
    BY DEF Follows
  <2>1. SameServer
    BY DEF ServerInv, Follows
  <2> QED  BY <2>1 DEF SameServer, SameObjects, Past
<1>2. Starts' /\ NoGhost'
  BY DEF ServerInv, Starts, NoGhost
<1>3. BindingsBacked'
  BY DEF ServerInv, StatusHonest, BindingsBacked, SrvTypes
<1>4. ~SrvRests'
  BY DEF SrvRests
<1> QED  BY <1>1, <1>2, <1>3, <1>4, Unrested DEF ServerInv, StatusHonest, SrvRests, ReadyHonest,
            PushedIsCurrent, LatestValues

(* A fault takes one from the scope's bound.                               *)
LEMMA FaultType == ASSUME SrvTypes, NEW kind, SrvFault(kind) PROVE srvScope' \in SrvBounds
<1>1. srvScope \in SrvBounds /\ srvScope.failures > 0
  BY DEF SrvTypes, SrvFault
<1>2. srvScope.failures - 1 \in Nat
  BY <1>1 DEF SrvBounds
<1> QED  BY <1>1, <1>2 DEF SrvBounds, SrvFault

(* Get: the reconcile starts from the CR as it is.                         *)
LEMMA GetInv == ASSUME ServerInv, SrvGet PROVE ServerInv'
<1>1. /\ srvQueued' = FALSE /\ work.pc = "idle"
      /\ UNCHANGED <<srvScope, srv, secret, provider, pushed, unanswered, objects, bound, serving,
                     srvStatus, unlabelled>>
  BY DEF SrvGet, gatewayVars, clusterVars
<1>2. Remembered' /\ BindingsBacked' /\ NoGhost'
  BY <1>1 DEF ServerInv, Remembered, BindingsBacked, NoGhost, StatusHonest
<1>3. CASE srv.exists
  <2> DEFINE w == [NoWork EXCEPT !.pc = "resolve", !.creds = srv.creds,
                                 !.ingress = srv.ingress, !.gen = srv.gen]
  <2>1. work' = w
    BY <1>3 DEF SrvGet
  <2>2. /\ w \in Works /\ w.pc = "resolve" /\ w.creds = srv.creds /\ w.ingress = srv.ingress
        /\ w.gen = srv.gen /\ w.at = 1 /\ \A c \in Creds : w.outcome[c] # "Pushed"
    BY Zenon, Blank DEF Works, Stages, ServerInv, SrvTypes
  <2> HIDE DEF w
  <2>3. SrvTypes' /\ Delivered' /\ Starts'
    BY Zenon, <1>1, <2>1, <2>2 DEF ServerInv, SrvTypes, Delivered, Starts
  <2>4. Follows'
    BY <1>1, <1>3, <2>1, <2>2 DEF Follows, SameServer, SameSecrets, SameObjects, Past
  <2>5. ReadyHonest' /\ PushedIsCurrent'
    BY <2>1, <2>2 DEF SrvRests, ReadyHonest, PushedIsCurrent, LatestValues
  <2> QED  BY <1>2, <2>3, <2>4, <2>5 DEF ServerInv, StatusHonest
<1>4. CASE ~srv.exists
  <2>1. work' = NoWork
    BY <1>4 DEF SrvGet
  <2>2. SrvTypes' /\ Delivered' /\ Starts' /\ Follows'
    BY Zenon, <1>1, <2>1, Blank DEF ServerInv, SrvTypes, Delivered, Starts, Follows
  <2>3. srvStatus' = NoStatus /\ srv' = srv
    BY <1>1, <1>4 DEF ServerInv, NoGhost
  <2>4. ReadyHonest' /\ PushedIsCurrent'
    BY <2>3, Blank DEF ReadyHonest, PushedIsCurrent, LatestValues, ServerInv, SrvTypes
  <2> QED  BY <1>2, <2>2, <2>4 DEF ServerInv, StatusHonest
<1> QED  BY <1>3, <1>4

(* resolveCredentials: what is resolved is what the Secrets hold.          *)
LEMMA ResolveInv == ASSUME ServerInv, Resolve PROVE ServerInv'
<1>1. /\ work.pc = "resolve" /\ work \in Works
      /\ UNCHANGED <<srv, secret, provider, pushed, unanswered, objects, bound, serving,
                     srvStatus, srvQueued>>
      /\ unlabelled' = unlabelled \ work.creds
  BY DEF Resolve, gatewayVars, clusterVars, ServerInv, SrvTypes
<1>2. PICK failed \in {{}} \cup {{c} : c \in work.creds}, next \in {"token", "profiles"} :
        /\ IF failed = {} THEN UNCHANGED srvScope ELSE SrvFault("read")
        /\ work' = [work EXCEPT
              !.outcome = [c \in Creds |-> IF c \notin work.creds THEN NoValue
                                           ELSE IF c \in failed THEN "SecretReadFailed"
                                           ELSE Refusal(secret[c])],
              !.value = [c \in Creds |-> IF c \in work.creds \ failed /\ secret[c] \in SecretValues
                                         THEN secret[c] ELSE NoValue],
              !.pc = next]
  BY Zenon, <1>1 DEF Resolve, Works
<1> DEFINE outs == [c \in Creds |-> IF c \notin work.creds THEN NoValue
                                    ELSE IF c \in failed THEN "SecretReadFailed"
                                    ELSE Refusal(secret[c])]
           vals == [c \in Creds |-> IF c \in work.creds \ failed /\ secret[c] \in SecretValues
                                    THEN secret[c] ELSE NoValue]
<1>3. outs \in [Creds -> Outcomes] /\ \A c \in Creds : outs[c] # "Pushed"
  BY DEF Refusal, Outcomes, NoValue
<1>4. vals \in [Creds -> Values] /\ \A c \in Creds : vals[c] # NoValue => vals[c] = secret[c]
  BY DEF Values
<1>5. work' = [work EXCEPT !.outcome = outs, !.value = vals, !.pc = next]
  BY <1>2
<1> HIDE DEF outs, vals
<1>6. /\ work' \in Works /\ work'.pc = next /\ work'.creds = work.creds
      /\ work'.ingress = work.ingress /\ work'.gen = work.gen /\ work'.at = work.at
      /\ work'.outcome = outs /\ work'.value = vals
  BY Zenon, <1>1, <1>3, <1>4, <1>5 DEF Works, Stages
<1>7. SrvTypes'
  <2>1. srvScope' \in SrvBounds
    BY <1>2, FaultType DEF ServerInv, SrvTypes
  <2> QED  BY <1>1, <1>6, <2>1 DEF ServerInv, SrvTypes
<1>8. SameSecrets'
  BY <1>1, <1>4, <1>6 DEF SameSecrets, Works
<1>9. Remembered' /\ Delivered'
  BY <1>1, <1>3, <1>6 DEF ServerInv, Remembered, Delivered
<1> QED  BY <1>1, <1>6, <1>7, <1>8, <1>9, BeforeObjects

(* The outcomes of some records are set, to a failure.                     *)
LEMMA OutcomeFacts ==
    ASSUME NEW done \in Works, NEW set \in SUBSET Creds, NEW why \in Outcomes
    PROVE  /\ Outcome(done, set, why) \in Works
           /\ Outcome(done, set, why).pc = done.pc
           /\ Outcome(done, set, why).creds = done.creds
           /\ Outcome(done, set, why).ingress = done.ingress
           /\ Outcome(done, set, why).gen = done.gen
           /\ Outcome(done, set, why).at = done.at
           /\ Outcome(done, set, why).value = done.value
           /\ Outcome(done, set, why).outcome \in [Creds -> Outcomes]
           /\ \A c \in Creds : Outcome(done, set, why).outcome[c] = IF c \in set THEN why ELSE done.outcome[c]
<1> DEFINE outs == [c \in Creds |-> IF c \in set THEN why ELSE done.outcome[c]]
<1>1. outs \in [Creds -> Outcomes] /\ \A c \in Creds : outs[c] = IF c \in set THEN why ELSE done.outcome[c]
  BY DEF Works
<1>2. Outcome(done, set, why) = [done EXCEPT !.outcome = outs]
  BY DEF Outcome
<1> HIDE DEF outs
<1> QED  BY <1>1, <1>2 DEF Works

(* prepareProfiles: an unreachable gateway or a verdict fails what is      *)
(* pending, and nothing is written.                                        *)
LEMMA ProfilesInv == ASSUME ServerInv, PrepareProfiles PROVE ServerInv'
<1>1. /\ work.pc = "profiles" /\ work \in Works
      /\ UNCHANGED <<srv, secret, provider, pushed, unanswered, objects, bound, serving,
                     srvStatus, srvQueued, unlabelled>>
  BY DEF PrepareProfiles, clusterVars, ServerInv, SrvTypes
<1>2. Todo(work) \in SUBSET Creds
  BY <1>1 DEF Todo, Works
<1>3. /\ srvScope' \in SrvBounds
      /\ work' \in Works /\ work'.pc \in {"push", "token"} /\ work'.creds = work.creds
      /\ work'.ingress = work.ingress /\ work'.gen = work.gen /\ work'.at = work.at
      /\ work'.value = work.value
      /\ \A c \in Creds : work'.outcome[c] = "Pushed" => work.outcome[c] = "Pushed"
  <2>1. CASE work' = [work EXCEPT !.pc = "push"] /\ UNCHANGED srvScope
    BY <1>1, <2>1 DEF Works, Stages, ServerInv, SrvTypes
  <2>2. CASE /\ SrvFault("unavailable")
             /\ work' = [Outcome(work, Todo(work), "GatewayUnavailable") EXCEPT !.pc = "token", !.retry = TRUE]
    <3> DEFINE w == Outcome(work, Todo(work), "GatewayUnavailable")
    <3>1. /\ w \in Works /\ w.creds = work.creds /\ w.ingress = work.ingress /\ w.gen = work.gen
          /\ w.at = work.at /\ w.value = work.value
          /\ \A c \in Creds : w.outcome[c] = "Pushed" => work.outcome[c] = "Pushed"
      BY <1>1, <1>2, OutcomeFacts DEF Outcomes
    <3> HIDE DEF w
    <3>2. work' = [w EXCEPT !.pc = "token", !.retry = TRUE]
      BY <2>2 DEF w
    <3> QED  BY Zenon, <2>2, <3>1, <3>2, FaultType DEF Works, Stages, ServerInv
  <2>3. CASE /\ SrvFault("aborted")
             /\ work' = [Outcome(work, Todo(work), "GatewayRejected") EXCEPT !.pc = "token"]
    <3> DEFINE w == Outcome(work, Todo(work), "GatewayRejected")
    <3>1. /\ w \in Works /\ w.creds = work.creds /\ w.ingress = work.ingress /\ w.gen = work.gen
          /\ w.at = work.at /\ w.value = work.value
          /\ \A c \in Creds : w.outcome[c] = "Pushed" => work.outcome[c] = "Pushed"
      BY <1>1, <1>2, OutcomeFacts DEF Outcomes
    <3> HIDE DEF w
    <3>2. work' = [w EXCEPT !.pc = "token"]
      BY <2>3 DEF w
    <3> QED  BY <2>3, <3>1, <3>2, FaultType DEF Works, Stages, ServerInv
  <2> QED  BY <2>1, <2>2, <2>3 DEF PrepareProfiles
<1>4. SrvTypes'
  BY <1>1, <1>3 DEF ServerInv, SrvTypes
<1>5. Remembered' /\ Delivered'
  BY <1>1, <1>3 DEF ServerInv, Remembered, Delivered
<1>6. ~srvQueued => SameSecrets'
  BY <1>1, <1>3 DEF ServerInv, Follows, SameSecrets
<1> QED  BY <1>1, <1>3, <1>4, <1>5, <1>6, BeforeObjects

(* One record of the writer: pushed, or failed with an outcome.            *)
LEMMA PushesFacts ==
    ASSUME NEW w \in Works, NEW v,
           v = Pushes(w) \/ v = [Pushes(w) EXCEPT !.retry = TRUE]
    PROVE  /\ v \in Works /\ v.pc \in {"push", "token"} /\ v.creds = w.creds
           /\ v.ingress = w.ingress /\ v.gen = w.gen /\ v.at = w.at
           /\ v.value = w.value /\ v.outcome = w.outcome
<1>1. Pushes(w) = [w EXCEPT !.pc = "token"] \/ Pushes(w) = [w EXCEPT !.pc = "push"]
  BY DEF Pushes
<1>2. PICK next \in {"push", "token"} :
        v = [w EXCEPT !.pc = next] \/ v = [w EXCEPT !.pc = next, !.retry = TRUE]
  BY Zenon, <1>1 DEF Works
<1> QED  BY Zenon, <1>2 DEF Works, Stages

(* applyRecord: what is written to the gateway is what was resolved, and   *)
(* what the memory then says of it is true.                                *)
LEMMA ApplyRecordInv == ASSUME ServerInv, NEW c \in Creds, ApplyRecord(c) PROVE ServerInv'
<1>1. /\ work.pc = "push" /\ work \in Works /\ c \in Todo(work)
      /\ UNCHANGED <<srv, secret, objects, bound, serving, srvStatus, srvQueued, unlabelled>>
      /\ provider \in [Creds -> Values] /\ pushed \in [Creds -> Values] /\ unanswered \in SUBSET Creds
      /\ srvScope \in SrvBounds
  BY DEF ApplyRecord, clusterVars, ServerInv, SrvTypes
<1>2. c \in work.creds /\ work.value[c] # NoValue /\ work.value[c] \in Values /\ work.outcome[c] = NoValue
  BY <1>1 DEF Todo, Works
<1> DEFINE val == work.value[c]
<1>3. PICK reason \in Outcomes :
        /\ \/ work' = Pushes(Outcome(work, {c}, reason))
           \/ work' = [Pushes(Outcome(work, {c}, reason)) EXCEPT !.retry = TRUE]
        /\ \/ /\ reason = "Pushed" /\ pushed' = [pushed EXCEPT ![c] = val]
              /\ \/ /\ provider' = [provider EXCEPT ![c] = val]
                    /\ unanswered' = unanswered \ {c}
                 \/ /\ provider[c] # NoValue /\ pushed[c] = val
                    /\ UNCHANGED <<provider, unanswered>>
           \/ reason # "Pushed" /\ UNCHANGED <<provider, pushed, unanswered>>
           \/ /\ reason # "Pushed" /\ UNCHANGED pushed
              /\ provider' = [provider EXCEPT ![c] = val]
              /\ unanswered' = unanswered \cup {c}
        /\ srvScope' \in SrvBounds
  <2> DEFINE outstanding == provider[c] = NoValue \/ pushed[c] # val
  <2> USE DEF Outcomes, NoValue
  <2>1. CASE /\ IF outstanding THEN Written(c, TRUE) ELSE UNCHANGED <<provider, unanswered>>
             /\ pushed' = [pushed EXCEPT ![c] = val]
             /\ work' = Pushes(Outcome(work, {c}, "Pushed"))
             /\ UNCHANGED srvScope
    BY <1>1, <2>1 DEF Written
  <2>2. CASE /\ SrvFault("unavailable") /\ UNCHANGED <<provider, pushed, unanswered>>
             /\ work' = [Pushes(Outcome(work, {c}, "GatewayUnavailable")) EXCEPT !.retry = TRUE]
    BY <2>2, FaultType DEF ServerInv
  <2>3. CASE /\ SrvFault("aborted") /\ UNCHANGED <<provider, pushed, unanswered>>
             /\ work' = Pushes(Outcome(work, {c}, "GatewayRejected"))
    BY <2>3, FaultType DEF ServerInv
  <2>4. CASE /\ SrvFault("lost") /\ Written(c, FALSE) /\ UNCHANGED pushed
             /\ \/ work' = Pushes(Outcome(work, {c}, "GatewayRejected"))
                \/ work' = [Pushes(Outcome(work, {c}, "GatewayUnavailable")) EXCEPT !.retry = TRUE]
    BY <2>4, FaultType DEF ServerInv, Written
  <2> QED  BY Zenon, <2>1, <2>2, <2>3, <2>4 DEF ApplyRecord
<1>4. /\ work' \in Works /\ work'.pc \in {"push", "token"} /\ work'.creds = work.creds
      /\ work'.ingress = work.ingress /\ work'.gen = work.gen /\ work'.at = work.at
      /\ work'.value = work.value
      /\ \A d \in Creds : work'.outcome[d] = IF d = c THEN reason ELSE work.outcome[d]
  <2> DEFINE v == Outcome(work, {c}, reason)
  <2>1. /\ v \in Works /\ v.creds = work.creds /\ v.ingress = work.ingress /\ v.gen = work.gen
        /\ v.at = work.at /\ v.value = work.value
        /\ \A d \in Creds : v.outcome[d] = IF d = c THEN reason ELSE work.outcome[d]
    <3> DEFINE outs == [d \in Creds |-> IF d \in {c} THEN reason ELSE work.outcome[d]]
    <3>1. outs \in [Creds -> Outcomes] /\ \A d \in Creds : outs[d] = IF d = c THEN reason ELSE work.outcome[d]
      BY <1>1 DEF Works
    <3>2. v = [work EXCEPT !.outcome = outs]
      BY DEF Outcome
    <3> HIDE DEF outs, v
    <3> QED  BY <1>1, <3>1, <3>2 DEF Works
  <2>2. work' = Pushes(v) \/ work' = [Pushes(v) EXCEPT !.retry = TRUE]
    BY <1>3
  <2> HIDE DEF v
  <2>3. /\ work' \in Works /\ work'.pc \in {"push", "token"} /\ work'.creds = v.creds
        /\ work'.ingress = v.ingress /\ work'.gen = v.gen /\ work'.at = v.at
        /\ work'.value = v.value /\ work'.outcome = v.outcome
    BY <2>1, <2>2, PushesFacts
  <2> QED  BY <2>1, <2>3
<1>5. /\ \A d \in Creds \ {c} : provider'[d] = provider[d] /\ pushed'[d] = pushed[d]
      /\ \A d \in Creds \ {c} : d \in unanswered' <=> d \in unanswered
      /\ reason = "Pushed" => /\ pushed'[c] = val /\ provider'[c] # NoValue
                              /\ provider'[c] = val \/ c \in unanswered'
      /\ provider'[c] # NoValue \/ provider'[c] = provider[c]
      /\ provider' \in [Creds -> Values] /\ pushed' \in [Creds -> Values] /\ unanswered' \in SUBSET Creds
      /\ pushed'[c] # NoValue => provider'[c] = pushed'[c] \/ c \in unanswered'
  <2>1. pushed[c] # NoValue => provider[c] = pushed[c] \/ c \in unanswered
    BY DEF ServerInv, Remembered
  <2>2. CASE /\ reason = "Pushed" /\ pushed' = [pushed EXCEPT ![c] = val]
             /\ provider' = [provider EXCEPT ![c] = val] /\ unanswered' = unanswered \ {c}
    BY <1>1, <1>2, <2>2
  <2>3. CASE /\ reason = "Pushed" /\ pushed' = [pushed EXCEPT ![c] = val]
             /\ provider[c] # NoValue /\ pushed[c] = val /\ UNCHANGED <<provider, unanswered>>
    BY <1>1, <1>2, <2>1, <2>3
  <2>4. CASE reason # "Pushed" /\ UNCHANGED <<provider, pushed, unanswered>>
    BY <1>1, <2>1, <2>4
  <2>5. CASE /\ reason # "Pushed" /\ UNCHANGED pushed
             /\ provider' = [provider EXCEPT ![c] = val] /\ unanswered' = unanswered \cup {c}
    BY <1>1, <1>2, <2>5
  <2> QED  BY <1>3, <2>2, <2>3, <2>4, <2>5
<1>6. SrvTypes'
  BY <1>1, <1>3, <1>4, <1>5 DEF ServerInv, SrvTypes
<1>7. Remembered'
  BY <1>5 DEF ServerInv, Remembered
<1>8. Delivered'
  BY <1>2, <1>4, <1>5 DEF ServerInv, Delivered
<1>9. ~srvQueued => SameSecrets'
  BY Zenon, <1>1, <1>4 DEF ServerInv, Follows, SameSecrets
<1> QED  BY <1>1, <1>4, <1>5, <1>6, <1>7, <1>8, <1>9, BeforeObjects

(* The reconcile goes to setReady with a reason for Ready=False.           *)
LEMMA NotReadyInv ==
    ASSUME ServerInv, NEW reason \in Readies \ {"Deployed"}, NEW retry \in BOOLEAN,
           NotReady(reason, retry), work.pc \in {"token", "apply", "observe"},
           srvScope' \in SrvBounds,
           UNCHANGED <<srv, secret, provider, pushed, unanswered, objects, bound, serving,
                       srvStatus, srvQueued, unlabelled>>
    PROVE  ServerInv'
<1>1. /\ work \in Works /\ work' \in Works /\ work'.pc = "status" /\ work'.ready = reason
      /\ work'.creds = work.creds /\ work'.ingress = work.ingress /\ work'.gen = work.gen
      /\ work'.value = work.value /\ work'.outcome = work.outcome
  BY Zenon DEF NotReady, Works, Stages, ServerInv, SrvTypes
<1>2. SrvTypes'
  BY <1>1 DEF ServerInv, SrvTypes
<1>3. Remembered' /\ Delivered' /\ Starts' /\ NoGhost' /\ BindingsBacked'
  BY <1>1 DEF ServerInv, Remembered, Delivered, Starts, NoGhost, BindingsBacked, StatusHonest
<1>4. Follows'
  BY <1>1 DEF ServerInv, Follows, SameServer, SameSecrets, SameObjects, Past
<1>5. ReadyHonest' /\ PushedIsCurrent'
  BY <1>1 DEF SrvRests, ReadyHonest, PushedIsCurrent, LatestValues
<1> QED  BY <1>2, <1>3, <1>4, <1>5 DEF ServerInv, StatusHonest

(* ensureToken leaves everything the status is about alone.                *)
LEMMA TokenInv == ASSUME ServerInv, Token PROVE ServerInv'
<1>1. /\ work.pc = "token" /\ work \in Works
      /\ UNCHANGED <<srv, secret, provider, pushed, unanswered, objects, bound, serving,
                     srvStatus, srvQueued, unlabelled>>
  BY DEF Token, gatewayVars, clusterVars, ServerInv, SrvTypes
<1>2. CASE work' = [work EXCEPT !.pc = "apply"] /\ UNCHANGED srvScope
  <2>1. /\ work' \in Works /\ work'.pc = "apply" /\ work'.at = 1
        /\ work'.creds = work.creds /\ work'.ingress = work.ingress /\ work'.gen = work.gen
        /\ work'.value = work.value /\ work'.outcome = work.outcome
    BY <1>1, <1>2 DEF Works, Stages, ServerInv, Starts
  <2>2. SrvTypes'
    BY <1>1, <1>2, <2>1 DEF ServerInv, SrvTypes
  <2>3. Remembered' /\ Delivered' /\ Starts' /\ NoGhost' /\ BindingsBacked'
    BY <1>1, <2>1 DEF ServerInv, Remembered, Delivered, Starts, NoGhost, BindingsBacked, StatusHonest
  <2>4. Follows'
    BY <1>1, <2>1 DEF ServerInv, Follows, SameServer, SameSecrets, SameObjects, Past
  <2>5. ReadyHonest' /\ PushedIsCurrent'
    BY <2>1 DEF SrvRests, ReadyHonest, PushedIsCurrent, LatestValues
  <2> QED  BY <2>2, <2>3, <2>4, <2>5 DEF ServerInv, StatusHonest
<1>3. CASE NotReady("WiringIncomplete", FALSE) /\ UNCHANGED srvScope
  BY Zenon, <1>1, <1>3, NotReadyInv DEF Readies, ServerInv, SrvTypes
<1>4. CASE SrvFault("api") /\ NotReady("ApplyFailed", TRUE)
  BY Zenon, <1>1, <1>4, NotReadyInv, FaultType DEF Readies, ServerInv
<1> QED  BY Zenon, <1>2, <1>3, <1>4 DEF Token

(* The applier found an object as it has to be, or has queued the key.     *)
LEMMA ApplyInv == ASSUME ServerInv, Apply PROVE ServerInv'
<1> DEFINE o == Kinds[work.at]
           wanted == o # "Ingress" \/ work.ingress
           stop == work.at = Len(Kinds)
<1>1. /\ work.pc = "apply" /\ work \in Works /\ SrvTypes
      /\ UNCHANGED <<srv, secret, provider, pushed, unanswered, srvStatus, unlabelled>>
  BY DEF Apply, gatewayVars, ServerInv, SrvTypes
<1>2. work.at \in 1..5 /\ o \in Objects /\ (stop <=> work.at = 5)
  BY <1>1, KindsFacts DEF Works
<1>3. CASE NotReady("OwnershipConflict", FALSE) /\ UNCHANGED <<srvScope, clusterVars, srvQueued>>
  BY Zenon, <1>1, <1>3, NotReadyInv DEF Readies, clusterVars, SrvTypes
<1>4. CASE SrvFault("api") /\ NotReady("ApplyFailed", TRUE) /\ UNCHANGED <<clusterVars, srvQueued>>
  BY Zenon, <1>1, <1>4, NotReadyInv, FaultType DEF Readies, clusterVars
<1>5. CASE /\ UNCHANGED srvScope
           /\ work' = [work EXCEPT !.at = IF stop THEN 1 ELSE work.at + 1,
                                   !.pc = IF stop THEN "observe" ELSE "apply"]
           /\ objects' = [objects EXCEPT ![o] = IF ~srv.exists \/ (~wanted /\ objects[o] = "foreign")
                                                THEN objects[o]
                                                ELSE IF wanted THEN "owned" ELSE "none"]
           /\ IF srv.exists /\ o = "Deployment"
                THEN bound' = Rendered /\ serving' = (serving /\ bound' = bound /\ objects' = objects)
                ELSE UNCHANGED <<bound, serving>>
           /\ srvQueued' = (srvQueued \/ objects' # objects \/ bound' # bound)
  <2>1. /\ work' \in Works
        /\ work'.creds = work.creds /\ work'.ingress = work.ingress /\ work'.gen = work.gen
        /\ work'.value = work.value /\ work'.outcome = work.outcome
        /\ work'.pc = IF work.at = 5 THEN "observe" ELSE "apply"
        /\ work.at # 5 => work'.at = work.at + 1
    <3>1. CASE work.at = 5
      <4>1. work' = [work EXCEPT !.at = 1, !.pc = "observe"]
        BY <1>2, <1>5, <3>1
      <4>2. 1 \in 1..5 /\ "observe" \in Stages
        BY DEF Stages
      <4> QED  BY <1>1, <3>1, <4>1, <4>2, Zenon DEF Works
    <3>2. CASE work.at # 5
      <4> DEFINE next == work.at + 1
      <4>1. work' = [work EXCEPT !.at = next, !.pc = "apply"]
        BY <1>2, <1>5, <3>2, Zenon
      <4>2. next \in 1..5 /\ "apply" \in Stages
        BY <1>2, <3>2 DEF Stages
      <4> HIDE DEF next
      <4>3. /\ work' \in Works
            /\ work'.creds = work.creds /\ work'.ingress = work.ingress /\ work'.gen = work.gen
            /\ work'.value = work.value /\ work'.outcome = work.outcome
            /\ work'.pc = "apply" /\ work'.at = next
        BY <1>1, <4>1, <4>2, Zenon DEF Works
      <4> QED  BY <3>2, <4>3 DEF next
    <3> QED  BY <3>1, <3>2
  <2>2. bound' \in SUBSET Creds /\ serving' \in BOOLEAN
    <3>1. CASE srv.exists /\ o = "Deployment"
      <4>1. bound' = Rendered /\ serving' = (serving /\ bound' = bound /\ objects' = objects)
        BY <1>5, <3>1
      <4> QED  BY <1>1, <4>1 DEF Rendered, Works
    <3>2. CASE ~(srv.exists /\ o = "Deployment")
      BY <1>1, <1>5, <3>2 DEF SrvTypes
    <3> QED  BY <3>1, <3>2
  <2>3. srvQueued' \in BOOLEAN /\ (~srvQueued' => ~srvQueued /\ objects' = objects /\ bound' = bound)
    <3>1. srvQueued' = (srvQueued \/ objects' # objects \/ bound' # bound)
      BY <1>5, Zenon
    <3>2. srvQueued' \in BOOLEAN
      BY <3>1, Zenon
    <3> QED  BY <3>1, <3>2, Zenon
  <2>4. objects' \in [Objects -> {"none", "owned", "foreign"}]
    BY <1>1, <1>2, <1>5 DEF SrvTypes
  <2>5. SrvTypes'
    BY <1>1, <1>5, <2>1, <2>2, <2>3, <2>4 DEF SrvTypes
  <2>6. Remembered' /\ Delivered' /\ Starts' /\ NoGhost'
    BY <1>1, <2>1 DEF ServerInv, Remembered, Delivered, Starts, NoGhost
  <2>7. BindingsBacked'
    <3>1. CASE srv.exists /\ o = "Deployment"
      BY <1>1, <1>5, <3>1 DEF BindingsBacked, Rendered, ServerInv, Delivered, Works
    <3>2. CASE ~(srv.exists /\ o = "Deployment")
      BY <1>1, <1>5, <3>2 DEF BindingsBacked, ServerInv, StatusHonest
    <3> QED  BY <3>1, <3>2
  <2>8. ASSUME ~srvQueued' PROVE SameServer' /\ SameSecrets' /\ SameObjects'
    <3>1. SameServer /\ SameSecrets /\ SameObjects /\ objects' = objects /\ bound' = bound
      BY <1>1, <2>3, <2>8 DEF ServerInv, Follows
    <3>2. SameServer' /\ SameSecrets'
      BY <1>1, <2>1, <3>1 DEF SameServer, SameSecrets
    <3>3. Rendered' = Rendered
      BY <2>1 DEF Rendered
    <3>4. InPlace(o)
      <4>1. srv.exists
        BY <3>1 DEF SameServer
      <4>2. objects'[o] = IF ~wanted /\ objects[o] = "foreign" THEN objects[o]
                          ELSE IF wanted THEN "owned" ELSE "none"
        BY <1>1, <1>2, <1>5, <4>1 DEF SrvTypes
      <4>3. o = "Deployment" => bound = Rendered
        BY <1>5, <3>1, <4>1
      <4>4. work.ingress \in BOOLEAN
        BY <1>1 DEF Works
      <4>5. CASE wanted
        BY <3>1, <4>2, <4>3, <4>4, <4>5 DEF InPlace
      <4>6. CASE ~wanted
        BY <3>1, <4>2, <4>3, <4>4, <4>6 DEF InPlace
      <4> QED  BY <4>5, <4>6
    <3>5. ASSUME NEW i \in 1..5, Past(i)' PROVE InPlace(Kinds[i])'
      <4>1. i = work.at \/ i < work.at
        BY <1>2, <2>1, <3>5 DEF Past
      <4>2. InPlace(Kinds[i])
        BY <1>1, <3>1, <3>4, <4>1 DEF SameObjects, Past
      <4> QED  BY <2>1, <3>1, <3>3, <4>2 DEF InPlace
    <3> QED  BY <2>1, <3>2, <3>5 DEF SameObjects
  <2>9. Follows'
    BY <2>8 DEF Follows
  <2>10. ReadyHonest' /\ PushedIsCurrent'
    BY <2>1 DEF SrvRests, ReadyHonest, PushedIsCurrent, LatestValues
  <2> QED  BY <2>5, <2>6, <2>7, <2>9, <2>10 DEF ServerInv, StatusHonest
<1> QED  BY Zenon, <1>3, <1>4, <1>5 DEF Apply

(* DeploymentStatus: Ready=True is about objects in place and a Deployment *)
(* that has rolled.                                                        *)
LEMMA ObserveInv == ASSUME ServerInv, Observe PROVE ServerInv'
<1>1. /\ work.pc = "observe" /\ work \in Works /\ SrvTypes
      /\ UNCHANGED <<srv, secret, provider, pushed, unanswered, objects, bound, serving,
                     srvStatus, unlabelled>>
  BY DEF Observe, gatewayVars, clusterVars, ServerInv, SrvTypes
<1>2. CASE NotReady("Progressing", work.retry) /\ UNCHANGED <<srvScope, srvQueued>>
  BY <1>1, <1>2, NotReadyInv DEF Readies, SrvTypes, Works
<1>3. CASE serving /\ NotReady("Deployed", work.retry) /\ UNCHANGED <<srvScope, srvQueued>>
  <2>1. /\ work' \in Works /\ work'.pc = "status" /\ work'.ready = "Deployed"
        /\ work'.creds = work.creds /\ work'.ingress = work.ingress /\ work'.gen = work.gen
        /\ work'.value = work.value /\ work'.outcome = work.outcome
    BY Zenon, <1>1, <1>3 DEF NotReady, Works, Stages, Readies
  <2>2. SrvTypes'
    BY <1>1, <1>3, <2>1 DEF SrvTypes
  <2>3. Remembered' /\ Delivered' /\ Starts' /\ NoGhost' /\ BindingsBacked'
    BY <1>1, <2>1 DEF ServerInv, Remembered, Delivered, Starts, NoGhost, BindingsBacked, StatusHonest
  <2>4. Follows'
    <3> SUFFICES ASSUME ~srvQueued PROVE SameServer' /\ SameSecrets' /\ SameObjects'
      BY <1>3 DEF Follows
    <3>1. SameServer /\ SameSecrets /\ SameObjects
      BY <1>1 DEF ServerInv, Follows
    <3>2. SameServer' /\ SameSecrets'
      BY <1>1, <2>1, <3>1 DEF SameServer, SameSecrets
    <3>3. ASSUME NEW i \in 1..5 PROVE InPlace(Kinds[i])'
      BY <1>1, <2>1, <3>1 DEF SameObjects, Past, InPlace, Rendered
    <3> QED  BY <1>1, <1>3, <3>2, <3>3 DEF SameObjects
  <2>5. ReadyHonest' /\ PushedIsCurrent'
    BY <2>1 DEF SrvRests, ReadyHonest, PushedIsCurrent, LatestValues
  <2> QED  BY <2>2, <2>3, <2>4, <2>5 DEF ServerInv, StatusHonest
<1>4. CASE SrvFault("api") /\ work' = NoWork /\ srvQueued' = TRUE
  <2>1. SrvTypes'
    BY <1>1, <1>4, FaultType, Blank DEF SrvTypes
  <2>2. Remembered' /\ Delivered' /\ Starts' /\ NoGhost' /\ BindingsBacked'
    BY Zenon, <1>1, <1>4, Blank DEF ServerInv, Remembered, Delivered, Starts, NoGhost, BindingsBacked, StatusHonest
  <2>3. Follows' /\ ReadyHonest' /\ PushedIsCurrent'
    BY <1>4 DEF Follows, SrvRests, ReadyHonest, PushedIsCurrent, LatestValues
  <2> QED  BY <2>1, <2>2, <2>3 DEF ServerInv, StatusHonest
<1> QED  BY Zenon, <1>2, <1>3, <1>4 DEF Observe

(* setReady: the status is what the reconcile found, and if the key was    *)
(* not queued meanwhile it is still so.                                    *)
LEMMA SetReadyInv == ASSUME ServerInv, SetReady PROVE ServerInv'
<1>1. /\ work.pc = "status" /\ work \in Works /\ SrvTypes /\ work' = NoWork
      /\ UNCHANGED <<srv, secret, provider, pushed, unanswered, objects, bound, serving, unlabelled>>
  BY Zenon DEF SetReady, gatewayVars, clusterVars, ServerInv, SrvTypes
<1>2. Remembered' /\ Delivered' /\ Starts' /\ BindingsBacked' /\ Follows'
  BY Zenon, <1>1, Blank DEF ServerInv, Remembered, Delivered, Starts, BindingsBacked, StatusHonest, Follows
<1>3. CASE SrvFault("api") /\ srvQueued' = TRUE /\ UNCHANGED srvStatus
  <2>1. SrvTypes' /\ NoGhost'
    BY Zenon, <1>1, <1>3, FaultType, Blank DEF SrvTypes, ServerInv, NoGhost
  <2>2. ReadyHonest' /\ PushedIsCurrent'
    BY Zenon, <1>3 DEF SrvRests, ReadyHonest, PushedIsCurrent, LatestValues
  <2> QED  BY <1>2, <2>1, <2>2 DEF ServerInv, StatusHonest
<1>4. CASE /\ srvStatus' = IF srv.exists
                           THEN [ready |-> work.ready, outcome |-> work.outcome, gen |-> work.gen]
                           ELSE srvStatus
           /\ srvQueued' = (srvQueued \/ srvStatus' # srvStatus \/ work.retry)
           /\ UNCHANGED srvScope
  <2>1. srvQueued' \in BOOLEAN /\ (~srvQueued' => ~srvQueued)
    <3>1. srvQueued' = (srvQueued \/ srvStatus' # srvStatus \/ work.retry)
      BY <1>4, Zenon
    <3>2. srvQueued' \in BOOLEAN
      BY <3>1, Zenon
    <3> QED  BY <3>1, <3>2, Zenon
  <2>2. srvStatus' \in [ready : Readies, outcome : [Creds -> Outcomes], gen : Nat]
    BY <1>1, <1>4 DEF SrvTypes, Works
  <2>3. SrvTypes' /\ NoGhost'
    BY <1>1, <1>4, <2>1, <2>2, Blank DEF SrvTypes, ServerInv, NoGhost
  <2>4. ASSUME ~srvQueued' PROVE ReadyHonest' /\ PushedIsCurrent'
    <3>1. SameServer /\ SameSecrets /\ SameObjects
      BY <1>1, <2>1, <2>4 DEF ServerInv, Follows
    <3>2. srvStatus' = [ready |-> work.ready, outcome |-> work.outcome, gen |-> work.gen]
      BY <1>4, <3>1 DEF SameServer
    <3>3. /\ srvStatus'.ready = work.ready /\ srvStatus'.outcome = work.outcome
          /\ srvStatus'.gen = work.gen
      BY <3>2
    <3>4. ReadyHonest'
      <4> SUFFICES ASSUME work.ready = "Deployed"
                   PROVE  /\ work.gen = srv.gen /\ serving
                          /\ \A o \in Objects \ {"Ingress"} : objects[o] = "owned"
                          /\ (objects["Ingress"] = "owned") = srv.ingress
                          /\ bound = {c \in srv.creds : work.outcome[c] = "Pushed"}
        BY <1>1, <3>3 DEF ReadyHonest
      <4>1. \A i \in 1..5 : InPlace(Kinds[i])
        BY <1>1, <3>1 DEF SameObjects, Past
      <4>2. /\ InPlace("ServiceAccount") /\ InPlace("RoleBinding") /\ InPlace("Deployment")
            /\ InPlace("Service") /\ InPlace("Ingress")
        BY <4>1, KindsFacts
      <4>3. bound = Rendered /\ serving
        BY <1>1, <3>1, <4>2 DEF InPlace, SameObjects
      <4> QED  BY <3>1, <4>2, <4>3, KindsFacts DEF InPlace, SameServer, Rendered
    <3>5. PushedIsCurrent'
      <4> SUFFICES ASSUME NEW c \in srv.creds \ (unlabelled \cup unanswered), work.outcome[c] = "Pushed"
                   PROVE  secret[c] \in SecretValues /\ provider[c] = secret[c]
        BY <1>1, <3>3 DEF PushedIsCurrent, LatestValues
      <4>1. c \in Creds /\ c \in work.creds
        BY <1>1, <3>1 DEF SameServer, SrvTypes
      <4>2. work.value[c] # NoValue /\ pushed[c] = work.value[c] /\ work.value[c] \in Values
        BY <1>1, <4>1 DEF ServerInv, Delivered, Works
      <4>3. secret[c] = work.value[c]
        BY <1>1, <3>1, <4>1, <4>2 DEF SameSecrets
      <4>4. provider[c] = pushed[c]
        BY <4>1, <4>2 DEF ServerInv, Remembered
      <4> QED  BY <4>2, <4>3, <4>4 DEF Values
    <3> QED  BY <3>4, <3>5
  <2>5. ReadyHonest' /\ PushedIsCurrent'
    BY <2>4 DEF SrvRests, ReadyHonest, PushedIsCurrent, LatestValues
  <2> QED  BY <1>2, <2>3, <2>5 DEF ServerInv, StatusHonest
<1> QED  BY Zenon, <1>3, <1>4 DEF SetReady

-----------------------------------------------------------------------------
(* An edit takes one from the scope's bound.                               *)
LEMMA EditType ==
    ASSUME SrvTypes, srvScope.edits > 0, srvScope' = [srvScope EXCEPT !.edits = @ - 1]
    PROVE  srvScope' \in SrvBounds
<1>1. srvScope \in SrvBounds
  BY DEF SrvTypes
<1>2. srvScope.edits - 1 \in Nat
  BY <1>1 DEF SrvBounds
<1> QED  BY <1>1, <1>2 DEF SrvBounds

(* The only change of a usable Secret the watch misses is a lost label.    *)
LEMMA Unwatched ==
    ASSUME NEW old \in SecretValues, NEW new, ~SecretWatched(old, new)
    PROVE  Labelled(old) /\ new = "unlabelled"
BY SrvAssumption DEF SecretWatched, Labelled

(* A Secret is edited: the watch queues the CR, unless the label goes.     *)
LEMMA EditSecretInv ==
    ASSUME ServerInv, NEW c \in srvScope.creds, NEW s \in Secrets, EditSecret(c, s)
    PROVE  ServerInv'
<1>1. /\ secret' = [secret EXCEPT ![c] = s] /\ SrvTypes /\ c \in Creds
      /\ UNCHANGED <<srv, provider, pushed, unanswered, objects, bound, serving, srvStatus, work>>
  BY DEF EditSecret, SrvEdit, gatewayVars, clusterVars, ServerInv, SrvTypes, SrvBounds
<1>2. srvScope' \in SrvBounds
  BY <1>1, EditType DEF EditSecret, SrvEdit
<1>3. unlabelled \subseteq unlabelled' /\ unlabelled' \in SUBSET Creds
      /\ (Labelled(secret[c]) /\ s = "unlabelled" => c \in unlabelled')
  BY Zenon, <1>1 DEF EditSecret, SrvTypes
<1>4. srvQueued' \in BOOLEAN
      /\ (~srvQueued' => ~srvQueued /\ (c \in srv.creds => ~SecretWatched(secret[c], s)))
  <2>1. srvQueued' = (srvQueued \/ (c \in srv.creds /\ SecretWatched(secret[c], s)))
    BY Zenon DEF EditSecret
  <2>2. srvQueued' \in BOOLEAN
    BY <2>1, Zenon
  <2> QED  BY <2>1, <2>2, Zenon
<1>5. \A d \in Creds \ {c} : secret'[d] = secret[d]
  BY Zenon, <1>1 DEF SrvTypes
<1>6. ASSUME NEW d \in srv.creds \ unlabelled', secret[d] \in SecretValues, ~srvQueued'
      PROVE  secret'[d] = secret[d]
  <2>1. d \in Creds
    BY <1>1 DEF SrvTypes
  <2>2. CASE d = c
    BY <1>3, <1>4, <1>6, <2>2, Unwatched
  <2>3. CASE d # c
    BY <1>5, <2>1, <2>3
  <2> QED  BY <2>2, <2>3
<1>7. SrvTypes'
  BY Zenon, <1>1, <1>2, <1>3, <1>4 DEF SrvTypes
<1>8. Remembered' /\ Delivered' /\ Starts' /\ NoGhost' /\ BindingsBacked'
  BY Zenon, <1>1 DEF ServerInv, Remembered, Delivered, Starts, NoGhost, BindingsBacked, StatusHonest
<1>9. ASSUME work.pc # "idle", ~srvQueued' PROVE SameServer' /\ SameSecrets' /\ SameObjects'
  <2>1. SameServer /\ SameSecrets /\ SameObjects
    BY <1>4, <1>9 DEF ServerInv, Follows
  <2>2. SameServer' /\ SameObjects'
    BY <1>1, <2>1 DEF SameServer, SameObjects, Past, InPlace, Rendered
  <2>3. ASSUME work.pc # "resolve", NEW d \in work.creds \ unlabelled', work.value[d] # NoValue
        PROVE  secret'[d] = work.value[d]
    <3>1. d \in srv.creds /\ d \in Creds /\ work.value[d] \in SecretValues
      BY Zenon, <1>1, <2>1, <2>3 DEF SameServer, SrvTypes, Works, Values
    <3>2. secret[d] = work.value[d]
      BY <1>3, <2>1, <2>3 DEF SameSecrets
    <3> QED  BY <1>6, <1>9, <2>3, <3>1, <3>2
  <2> QED  BY <1>1, <2>2, <2>3 DEF SameSecrets
<1>10. Follows'
  BY <1>1, <1>9 DEF Follows
<1>11. ASSUME SrvRests' PROVE SrvRests /\ ~srvQueued'
  BY <1>1, <1>4, <1>11 DEF SrvRests
<1>12. ReadyHonest'
  BY <1>1, <1>11 DEF ServerInv, StatusHonest, ReadyHonest
<1>13. PushedIsCurrent'
  <2> SUFFICES ASSUME SrvRests', NEW d \in srv.creds \ (unlabelled' \cup unanswered),
                      srvStatus.outcome[d] = "Pushed"
               PROVE  secret'[d] \in SecretValues /\ provider[d] = secret'[d]
    BY <1>1 DEF PushedIsCurrent, LatestValues
  <2>1. secret[d] \in SecretValues /\ provider[d] = secret[d]
    BY Zenon, <1>3, <1>11 DEF ServerInv, StatusHonest, PushedIsCurrent, LatestValues
  <2> QED  BY <1>6, <1>11, <2>1
<1> QED  BY <1>7, <1>8, <1>10, <1>12, <1>13 DEF ServerInv, StatusHonest

(* The steps that queue the key: what they touch is read again.            *)
LEMMA QueuedInv ==
    ASSUME ServerInv, SrvTypes', srvQueued', Remembered', Delivered', Starts', NoGhost', BindingsBacked'
    PROVE  ServerInv'
BY Zenon DEF ServerInv, StatusHonest, Follows, SrvRests, ReadyHonest, PushedIsCurrent, LatestValues

(* The spec of the CR is edited.                                           *)
LEMMA EditServerInv ==
    ASSUME ServerInv, NEW creds \in SUBSET srvScope.creds, NEW ingress \in BOOLEAN,
           EditServer(creds, ingress)
    PROVE  ServerInv'
<1>1. /\ UNCHANGED <<secret, provider, pushed, unanswered, objects, bound, serving, srvStatus,
                     work, unlabelled>>
      /\ srv' = [srv EXCEPT !.creds = creds, !.ingress = ingress, !.gen = srv.gen + 1]
      /\ srvQueued' = TRUE /\ SrvTypes /\ srv.exists
  BY DEF EditServer, SrvEdit, gatewayVars, clusterVars, ServerInv
<1>2. srvScope' \in SrvBounds /\ creds \in SUBSET Creds
  BY <1>1, EditType DEF EditServer, SrvEdit, SrvTypes, SrvBounds
<1>3. srv' \in [exists : BOOLEAN, creds : SUBSET Creds, ingress : BOOLEAN, gen : Nat] /\ srv'.exists
  <2>1. srv.gen + 1 \in Nat
    BY <1>1 DEF SrvTypes
  <2> QED  BY Zenon, <1>1, <1>2, <2>1 DEF SrvTypes
<1>4. SrvTypes'
  BY <1>1, <1>2, <1>3 DEF SrvTypes
<1>5. Remembered' /\ Delivered' /\ Starts' /\ NoGhost' /\ BindingsBacked'
  BY <1>1, <1>3 DEF ServerInv, Remembered, Delivered, Starts, NoGhost, BindingsBacked, StatusHonest
<1> QED  BY <1>1, <1>4, <1>5, QueuedInv

(* The CR is deleted, and what it owns with it.                            *)
LEMMA DeleteServerInv == ASSUME ServerInv, DeleteServer PROVE ServerInv'
<1>1. /\ UNCHANGED <<secret, provider, pushed, unanswered, work, unlabelled>>
      /\ srv' = [srv EXCEPT !.exists = FALSE]
      /\ objects' = [o \in Objects |-> IF objects[o] = "owned" THEN "none" ELSE objects[o]]
      /\ bound' = {} /\ serving' = FALSE /\ srvStatus' = NoStatus
      /\ srvQueued' = TRUE /\ SrvTypes
  BY DEF DeleteServer, SrvEdit, gatewayVars, ServerInv
<1>2. srvScope' \in SrvBounds
  BY <1>1, EditType DEF DeleteServer, SrvEdit
<1>3. /\ srv' \in [exists : BOOLEAN, creds : SUBSET Creds, ingress : BOOLEAN, gen : Nat]
      /\ objects' \in [Objects -> {"none", "owned", "foreign"}]
  BY Zenon, <1>1 DEF SrvTypes
<1>4. SrvTypes'
  BY Zenon, <1>1, <1>2, <1>3, Blank DEF SrvTypes
<1>5. Remembered' /\ Delivered' /\ Starts' /\ NoGhost' /\ BindingsBacked'
  BY <1>1 DEF ServerInv, Remembered, Delivered, Starts, NoGhost, BindingsBacked
<1> QED  BY <1>1, <1>4, <1>5, QueuedInv

(* The Deployment becomes available.                                       *)
LEMMA RollsInv == ASSUME ServerInv, Rolls PROVE ServerInv'
<1>1. /\ UNCHANGED <<srvScope, srv, secret, provider, pushed, unanswered, objects, bound, srvStatus,
                     work, unlabelled>>
      /\ serving' = TRUE /\ srvQueued' = TRUE /\ SrvTypes
  BY DEF Rolls, gatewayVars, ServerInv
<1>2. SrvTypes'
  BY <1>1 DEF SrvTypes
<1>3. Remembered' /\ Delivered' /\ Starts' /\ NoGhost' /\ BindingsBacked'
  BY <1>1 DEF ServerInv, Remembered, Delivered, Starts, NoGhost, BindingsBacked, StatusHonest
<1> QED  BY <1>1, <1>2, <1>3, QueuedInv

(* The operator restarts: its memory of pushed Secrets is empty, and the   *)
(* CR is listed again.                                                     *)
LEMMA RestartInv == ASSUME ServerInv, SrvRestart PROVE ServerInv'
<1>1. /\ UNCHANGED <<srv, secret, provider, unanswered, objects, bound, serving, srvStatus, unlabelled>>
      /\ pushed' = NoOutcomes /\ work' = NoWork /\ srvQueued' = TRUE /\ SrvTypes
  BY DEF SrvRestart, clusterVars, ServerInv
<1>2. srvScope' \in SrvBounds
  BY <1>1, EditType DEF SrvRestart
<1>3. SrvTypes'
  BY <1>1, <1>2, Blank DEF SrvTypes
<1>4. Remembered' /\ Delivered' /\ Starts' /\ NoGhost' /\ BindingsBacked'
  BY <1>1, Blank DEF ServerInv, Remembered, Delivered, Starts, NoGhost, BindingsBacked, StatusHonest
<1> QED  BY <1>1, <1>3, <1>4, QueuedInv

(* Somebody deletes an object: one the CR owns is watched, and no claim is *)
(* made about a foreign one.                                               *)
LEMMA DeleteObjectInv ==
    ASSUME ServerInv, NEW o \in Objects, DeleteObject(o)
    PROVE  ServerInv'
<1>1. /\ UNCHANGED <<srv, secret, provider, pushed, unanswered, srvStatus, work, unlabelled>>
      /\ objects' = [objects EXCEPT ![o] = "none"] /\ SrvTypes
      /\ bound' = (IF o = "Deployment" THEN {} ELSE bound)
      /\ serving' = (serving /\ o # "Deployment")
      /\ srvQueued' = (srvQueued \/ objects[o] = "owned")
  BY DEF DeleteObject, SrvEdit, gatewayVars, ServerInv
<1>2. srvScope' \in SrvBounds
  BY <1>1, EditType DEF DeleteObject, SrvEdit
<1>3. /\ srvQueued' \in BOOLEAN /\ serving' \in BOOLEAN
      /\ ~srvQueued' => ~srvQueued /\ objects[o] # "owned"
      /\ o # "Deployment" => serving' = serving
  <2>1. srvQueued' \in BOOLEAN /\ serving' \in BOOLEAN
    BY <1>1, Zenon
  <2>2. serving \in BOOLEAN
    BY <1>1 DEF SrvTypes
  <2> QED  BY Zenon, <1>1, <2>1, <2>2
<1>4. objects' \in [Objects -> {"none", "owned", "foreign"}] /\ bound' \in SUBSET Creds
      /\ bound' \subseteq bound
  BY <1>1 DEF SrvTypes
<1>5. SrvTypes'
  BY <1>1, <1>2, <1>3, <1>4 DEF SrvTypes
<1>6. Remembered' /\ Delivered' /\ Starts' /\ NoGhost' /\ BindingsBacked'
  BY <1>1, <1>4 DEF ServerInv, Remembered, Delivered, Starts, NoGhost, BindingsBacked, StatusHonest
<1>7. CASE srvQueued'
  BY <1>5, <1>6, <1>7, QueuedInv
<1>8. CASE ~srvQueued'
  <2>1. /\ objects[o] # "owned" /\ objects'[o] # "owned" /\ ~srvQueued
        /\ \A p \in Objects : (objects'[p] = "owned") = (objects[p] = "owned")
    BY <1>1, <1>3, <1>8 DEF SrvTypes
  <2>2. ASSUME work.pc # "idle" PROVE SameServer' /\ SameSecrets' /\ SameObjects'
    <3>1. SameServer /\ SameSecrets /\ SameObjects
      BY <2>1, <2>2 DEF ServerInv, Follows
    <3>2. SameServer' /\ SameSecrets'
      BY <1>1, <3>1 DEF SameServer, SameSecrets
    <3>3. ASSUME NEW p \in Objects, InPlace(p) PROVE InPlace(p)' /\ (p = "Deployment" => o # p)
      BY <1>1, <2>1, <3>3 DEF InPlace, Rendered
    <3>4. ASSUME NEW i \in 1..5, Past(i)' PROVE InPlace(Kinds[i])'
      <4>1. Kinds[i] \in Objects /\ Past(i)
        BY <1>1, <3>4, KindsFacts DEF Past
      <4> QED  BY <3>1, <3>3, <4>1 DEF SameObjects
    <3>5. work.pc = "status" /\ work.ready = "Deployed" => serving'
      <4> SUFFICES ASSUME work.pc = "status", work.ready = "Deployed" PROVE serving'
        OBVIOUS
      <4>1. InPlace(Kinds[3]) /\ serving
        BY <3>1 DEF SameObjects, Past
      <4>2. o # "Deployment"
        BY <3>3, <4>1, KindsFacts
      <4> QED  BY <1>3, <4>1, <4>2
    <3> QED  BY <1>1, <3>2, <3>4, <3>5 DEF SameObjects
  <2>3. Follows'
    BY <1>1, <2>2 DEF Follows
  <2>4. PushedIsCurrent'
    BY <1>1, <2>1 DEF ServerInv, StatusHonest, PushedIsCurrent, LatestValues, SrvRests
  <2>5. ReadyHonest'
    <3> SUFFICES ASSUME SrvRests, srvStatus.ready = "Deployed"
                 PROVE  /\ srvStatus.gen = srv.gen /\ serving'
                        /\ \A p \in Objects \ {"Ingress"} : objects'[p] = "owned"
                        /\ (objects'["Ingress"] = "owned") = srv.ingress
                        /\ bound' = {c \in srv.creds : srvStatus.outcome[c] = "Pushed"}
      BY <1>1, <2>1 DEF ReadyHonest, SrvRests
    <3>1. /\ srvStatus.gen = srv.gen /\ serving
          /\ \A p \in Objects \ {"Ingress"} : objects[p] = "owned"
          /\ (objects["Ingress"] = "owned") = srv.ingress
          /\ bound = {c \in srv.creds : srvStatus.outcome[c] = "Pushed"}
      BY DEF ServerInv, StatusHonest, ReadyHonest
    <3>2. "Ingress" \in Objects /\ o # "Deployment"
      BY <2>1, <3>1, KindsFacts
    <3> QED  BY Zenon, <1>1, <1>3, <2>1, <3>1, <3>2
  <2> QED  BY <1>5, <1>6, <2>3, <2>4, <2>5 DEF ServerInv, StatusHonest
<1> QED  BY <1>7, <1>8

(* Every step of the reconciler and of its cluster keeps the invariant.    *)
LEMMA ServerStep == ServerInv /\ [SrvNext]_srvVars => ServerInv'
<1> SUFFICES ASSUME ServerInv, [SrvNext]_srvVars PROVE ServerInv'
  OBVIOUS
<1>1. CASE SrvStep
  BY <1>1, GetInv, ResolveInv, ProfilesInv, ApplyRecordInv, TokenInv, ApplyInv, ObserveInv, SetReadyInv
     DEF SrvStep
<1>2. CASE Rolls \/ SrvRestart \/ DeleteServer
  BY <1>2, RollsInv, RestartInv, DeleteServerInv
<1>3. CASE \E c \in srvScope.creds, s \in Secrets : EditSecret(c, s)
  BY <1>3, EditSecretInv
<1>4. CASE \E creds \in SUBSET srvScope.creds, ingress \in BOOLEAN : EditServer(creds, ingress)
  BY <1>4, EditServerInv
<1>5. CASE \E o \in Objects : DeleteObject(o)
  BY <1>5, DeleteObjectInv
<1>6. CASE UNCHANGED srvVars
  BY Zenon, <1>6 DEF srvVars, ServerInv, SrvTypes, Remembered, Delivered, Follows, Starts, NoGhost,
     StatusHonest, BindingsBacked, ReadyHonest, PushedIsCurrent, LatestValues, SrvRests,
     SameServer, SameSecrets, SameObjects, Past, InPlace, Rendered
<1> QED  BY <1>1, <1>2, <1>3, <1>4, <1>5, <1>6 DEF SrvNext

(* The status of a KapeAgentServer tells the truth: its bindings name      *)
(* providers with a record, and when the reconciler rests, Ready=True is   *)
(* about the present CR, its objects and its Deployment, and a credential  *)
(* reported as pushed has the present value of its Secret at the gateway,  *)
(* but for a lost label and an unanswered write (Reconcile, setReady,      *)
(* applyRecord, pushedSecrets).                                            *)
THEOREM ServerStatusHonest ==
    ASSUME NEW CONSTANT scopes \in SUBSET SrvBounds
    PROVE  SrvSpec(scopes) => []StatusHonest
<1>1. SrvInit(scopes) => ServerInv
  BY ServerInitial
<1>2. ServerInv => StatusHonest
  BY DEF ServerInv
<1> QED  BY <1>1, <1>2, ServerStep, PTL DEF SrvSpec

-----------------------------------------------------------------------------
(* kapeproxy.                                                              *)

ProxySpec(raws) == ProxyInit(raws) /\ [][ProxyNext]_proxyVars

CallRecs ==
    [pc : {"none", "routed", "redacted", "returned", "answered", "cut"}, up : Upstreams \cup {"none"},
     tool : ToolNames \cup {"none"}, redacted : BOOLEAN, sent : {"none", "blanked", "verbatim"}, lines : Nat,
     answer : {"none", "not found", "unavailable", "redaction failed", "failed", "result"}]

ProxyTypes ==
    /\ proxyConf \in [Upstreams -> [allowed : Allowlists, audit : BOOLEAN, input : Rules, output : Rules]]
    /\ upstream \in [Upstreams -> [available : BOOLEAN, tools : SUBSET ToolNames]]
    /\ proxyPhase \in {"dialling", "serving", "draining", "closed", "stopped"}
    /\ call \in [Callers -> CallRecs]

(* The upstreams are dialled before the first request; what is listed is   *)
(* what they offered and the allowlist matches.                            *)
Dialled ==
    /\ proxyPhase = "dialling" => advertised = {} /\ \A c \in Callers : call[c].pc = "none"
    /\ proxyPhase \in {"serving", "draining"} => \A u \in Upstreams : upstream[u].tools # {} => upstream[u].available
    /\ \A p \in advertised : \E u \in Upstreams : \E t \in Exposed(u) : p = <<u, t>>

(* The pipeline of one call: it is routed to a tool of that same set,      *)
(* redacted before it is sent, and over before the upstreams are closed.   *)
CallOk(r) ==
    /\ r.pc = "none" => r = NoCall
    /\ r.pc \in {"routed", "redacted", "returned"} =>
         proxyPhase \in {"serving", "draining"} /\ r.up \in Upstreams /\ r.tool \in Exposed(r.up)
    /\ r.pc \in {"redacted", "returned"} => (r.redacted <=> proxyConf[r.up].input = "plain")
    /\ r.sent # "none" => /\ MatchesAny(r.up, r.tool)
                          /\ proxyConf[r.up].input = "plain" => r.sent = "blanked"
    /\ r.answer = "not found" => r.up \in Upstreams /\ r.tool \notin Exposed(r.up)
    /\ r.answer # "unavailable"

ProxyInv == ProxyTypes /\ Dialled /\ \A c \in Callers : CallOk(call[c])

(* Before the configuration is loaded nothing is dialled or called.        *)
LEMMA ProxyInitial == ASSUME NEW raws, raws \subseteq RawConfigs, ProxyInit(raws) PROVE ProxyInv
<1>1. PICK raw \in [Upstreams -> raws] : proxyConf = [u \in Upstreams |-> Loaded(raw[u])]
  BY DEF ProxyInit
<1>2. \A r \in RawConfigs : Loaded(r) \in [allowed : Allowlists, audit : BOOLEAN, input : Rules, output : Rules]
  BY DEF RawConfigs, Loaded, Allowlists, Rules
<1>3. proxyConf \in [Upstreams -> [allowed : Allowlists, audit : BOOLEAN, input : Rules, output : Rules]]
  BY <1>1, <1>2
<1>4. /\ upstream = [u \in Upstreams |-> [available |-> FALSE, tools |-> {}]]
      /\ proxyPhase = "dialling" /\ call = [c \in Callers |-> NoCall] /\ advertised = {}
  BY DEF ProxyInit
<1>5. NoCall \in CallRecs
  BY DEF NoCall, CallRecs
<1>6. upstream \in [Upstreams -> [available : BOOLEAN, tools : SUBSET ToolNames]]
  BY <1>4
<1>7. ProxyTypes
  BY <1>3, <1>4, <1>5, <1>6 DEF ProxyTypes
<1>8. NoCall.pc = "none" /\ NoCall.sent = "none" /\ NoCall.answer = "none"
  BY DEF NoCall
<1>9. \A c \in Callers : call[c] = NoCall
  BY <1>4
<1>10. CallOk(NoCall)
  BY <1>8 DEF CallOk
<1>11. Dialled
  BY <1>4, <1>8, <1>9 DEF Dialled
<1> QED  BY <1>7, <1>9, <1>10, <1>11 DEF ProxyInv

(* One call moves on, nothing else changes.                                *)
LEMMA CallMoves ==
    ASSUME ProxyInv, NEW c \in Callers, NEW r \in CallRecs, CallGoes(c, r), CallOk(r), proxyPhase # "dialling",
           UNCHANGED <<proxyConf, upstream, proxyPhase, advertised>>
    PROVE  ProxyInv'
<1>1. call \in [Callers -> CallRecs] /\ call' = [call EXCEPT ![c] = r]
  BY DEF ProxyInv, ProxyTypes, CallGoes
<1>2. call' \in [Callers -> CallRecs] /\ \A k \in Callers : call'[k] = IF k = c THEN r ELSE call[k]
  BY <1>1
<1>3. ProxyTypes'
  BY <1>2 DEF ProxyInv, ProxyTypes
<1>4. Dialled'
  BY Zenon DEF ProxyInv, Dialled, Exposed, MatchesAny
<1>5. \A k \in Callers : CallOk(call'[k])
  BY <1>2 DEF ProxyInv
<1>6. ASSUME NEW k \in Callers PROVE CallOk(call[k])'
  BY Zenon, <1>5 DEF CallOk, Exposed, MatchesAny
<1> QED  BY <1>3, <1>4, <1>6 DEF ProxyInv

(* handleToolsCall, up to Route.                                           *)
LEMMA ToolsCallInv ==
    ASSUME ProxyInv, NEW c \in Callers, NEW u \in Upstreams, NEW t \in ToolNames, ToolsCall(c, u, t)
    PROVE  ProxyInv'
<1> DEFINE rec == [NoCall EXCEPT !.up = u, !.tool = t]
           counted == Audits(rec, TRUE)
           routed == [rec EXCEPT !.pc = "routed"]
           unknown == Answers(counted, "not found")
<1>1. proxyPhase = "serving" /\ UNCHANGED <<proxyConf, upstream, proxyPhase, advertised>>
  BY Zenon DEF ToolsCall
<1>2. CallGoes(c, IF t \in Exposed(u) THEN routed ELSE unknown)
  BY Zenon DEF ToolsCall
<1>r. rec \in CallRecs /\ rec.up = u /\ rec.tool = t /\ rec.sent = "none" /\ rec.answer = "none" /\ rec.lines = 0
  BY Zenon DEF NoCall, CallRecs
<1> HIDE DEF rec
<1>c. counted \in CallRecs /\ counted.up = u /\ counted.tool = t /\ counted.sent = "none"
  <2>1. PICK one : one = 1 /\ counted = [rec EXCEPT !.lines = rec.lines + one]
    BY DEF Audits
  <2>2. PICK n \in Nat : counted = [rec EXCEPT !.lines = n]
    <3>1. rec.lines + one = 1
      BY <1>r, <2>1
    <3>2. counted = [rec EXCEPT !.lines = 1]
      BY Zenon, <2>1, <3>1
    <3> QED  BY Zenon, <3>2
  <2> HIDE DEF counted
  <2> QED  BY Zenon, <1>r, <2>2 DEF CallRecs
<1> HIDE DEF counted
<1>3. routed \in CallRecs /\ routed.pc = "routed" /\ routed.up = u /\ routed.tool = t /\ routed.sent = "none" /\ routed.answer = "none"
  BY Zenon, <1>r DEF CallRecs
<1>u. unknown \in CallRecs /\ unknown.pc = "answered" /\ unknown.up = u /\ unknown.tool = t /\ unknown.sent = "none"
      /\ unknown.answer = "not found"
  BY Zenon, <1>c DEF CallRecs, Answers
<1> HIDE DEF routed, unknown
<1>4. t \in Exposed(u) => CallOk(routed)
  BY <1>1, <1>3 DEF CallOk
<1>5. t \notin Exposed(u) => CallOk(unknown)
  BY Zenon, <1>1, <1>u DEF CallOk
<1> QED  BY Zenon, <1>1, <1>2, <1>3, <1>u, <1>4, <1>5, CallMoves

(* A call that was routed finds its upstream available: it offered a tool, *)
(* and it is not closed yet.                                               *)
LEMMA RoutedAvailable ==
    ASSUME ProxyInv, NEW c \in Callers, call[c].pc \in {"routed", "redacted", "returned"}
    PROVE  /\ call[c] \in CallRecs /\ CallOk(call[c]) /\ proxyPhase # "dialling"
           /\ call[c].up \in Upstreams /\ call[c].tool \in Exposed(call[c].up)
           /\ MatchesAny(call[c].up, call[c].tool) /\ upstream[call[c].up].available
<1>1. call[c] \in CallRecs /\ CallOk(call[c])
  BY DEF ProxyInv, ProxyTypes
<1>2. call[c].up \in Upstreams /\ call[c].tool \in Exposed(call[c].up) /\ proxyPhase \in {"serving", "draining"}
  BY Zenon, <1>1 DEF CallOk
<1>3. MatchesAny(call[c].up, call[c].tool) /\ upstream[call[c].up].tools # {}
  BY <1>2 DEF Exposed
<1> QED  BY Zenon, <1>1, <1>2, <1>3 DEF ProxyInv, Dialled

(* The redaction of the input.                                             *)
LEMMA RedactInputInv == ASSUME ProxyInv, NEW c \in Callers, RedactInput(c) PROVE ProxyInv'
<1> DEFINE r == call[c]
           conf_ == proxyConf[r.up]
           failed == [r EXCEPT !.pc = "answered", !.answer = "redaction failed"]
           goes == [r EXCEPT !.pc = "redacted", !.redacted = (conf_.input = "plain")]
<1>1. r.pc = "routed" /\ UNCHANGED <<proxyConf, upstream, proxyPhase, advertised>>
  BY Zenon DEF RedactInput
<1>2. r \in CallRecs /\ CallOk(r) /\ proxyPhase # "dialling" /\ upstream[r.up].available
  BY <1>1, RoutedAvailable
<1>3. CallGoes(c, IF conf_.input = "wild" THEN failed ELSE goes)
  BY <1>2 DEF RedactInput, Answers
<1>4. failed \in CallRecs /\ goes \in CallRecs
  BY Zenon, <1>2 DEF CallRecs
<1>5. CallOk(failed)
  BY Zenon, <1>1, <1>2 DEF CallOk, CallRecs
<1>6. CallOk(goes)
  <2>1. goes.pc = "redacted" /\ (goes.redacted <=> conf_.input = "plain")
    BY Zenon, <1>2 DEF CallRecs
  <2>2. goes.up = r.up /\ goes.tool = r.tool /\ goes.sent = r.sent /\ goes.answer = r.answer
    BY Zenon, <1>2 DEF CallRecs
  <2> HIDE DEF goes
  <2> QED  BY Zenon, <1>1, <1>2, <2>1, <2>2 DEF CallOk
<1> HIDE DEF failed, goes
<1> QED  BY <1>1, <1>2, <1>3, <1>4, <1>5, <1>6, CallMoves

(* The call itself: what is sent is blanked where a rule asks for it.      *)
LEMMA CallUpstreamInv == ASSUME ProxyInv, NEW c \in Callers, NEW ok \in BOOLEAN, CallUpstream(c, ok) PROVE ProxyInv'
<1> DEFINE r == call[c]
           how == IF r.redacted THEN "blanked" ELSE "verbatim"
           audit == proxyConf[r.up].audit
           n == r.lines + (IF audit THEN 1 ELSE 0)
           failed == [r EXCEPT !.sent = how, !.lines = n, !.pc = "answered", !.answer = "failed"]
           goes == [r EXCEPT !.sent = how, !.pc = "returned"]
<1>1. r.pc = "redacted" /\ UNCHANGED <<proxyConf, upstream, proxyPhase, advertised>>
  BY DEF CallUpstream
<1>2. r \in CallRecs /\ CallOk(r) /\ proxyPhase # "dialling" /\ upstream[r.up].available /\ MatchesAny(r.up, r.tool)
  BY Zenon, <1>1, RoutedAvailable
<1>3. CallGoes(c, IF ~ok THEN failed ELSE goes)
  BY Zenon, <1>2 DEF CallUpstream, Answers, Audits, CallRecs
<1>4. n \in Nat /\ how \in {"blanked", "verbatim"}
  <2>1. (IF audit THEN 1 ELSE 0) \in {0, 1} /\ how \in {"blanked", "verbatim"}
    BY Zenon
  <2>2. r.lines \in Nat
    BY Zenon, <1>2 DEF CallRecs
  <2> QED  BY <2>1, <2>2
<1>h. proxyConf[r.up].input = "plain" => how = "blanked"
  BY Zenon, <1>1, <1>2 DEF CallOk
<1> HIDE DEF n, how
<1>5. failed \in CallRecs /\ goes \in CallRecs
  BY Zenon, <1>2, <1>4 DEF CallRecs
<1>6. CallOk(failed)
  <2>1. failed.pc = "answered" /\ failed.up = r.up /\ failed.tool = r.tool /\ failed.sent = how /\ failed.answer = "failed"
    BY Zenon, <1>2 DEF CallRecs
  <2> HIDE DEF failed
  <2> QED  BY Zenon, <1>2, <1>h, <2>1 DEF CallOk
<1>7. CallOk(goes)
  <2>1. goes.pc = "returned" /\ goes.up = r.up /\ goes.tool = r.tool /\ goes.sent = how /\ goes.answer = r.answer
        /\ goes.redacted = r.redacted
    BY Zenon, <1>2 DEF CallRecs
  <2> HIDE DEF goes
  <2> QED  BY Zenon, <1>1, <1>2, <1>h, <2>1 DEF CallOk
<1> HIDE DEF failed, goes
<1> QED  BY Zenon, <1>1, <1>2, <1>3, <1>5, <1>6, <1>7, CallMoves

(* The redaction of the output.                                            *)
LEMMA RedactOutputInv == ASSUME ProxyInv, NEW c \in Callers, RedactOutput(c) PROVE ProxyInv'
<1> DEFINE r == call[c]
           n == r.lines + (IF proxyConf[r.up].audit THEN 1 ELSE 0)
           failed == [r EXCEPT !.pc = "answered", !.answer = "redaction failed"]
           goes == [r EXCEPT !.lines = n, !.pc = "answered", !.answer = "result"]
<1>1. r.pc = "returned" /\ UNCHANGED <<proxyConf, upstream, proxyPhase, advertised>>
  BY Zenon DEF RedactOutput
<1>2. r \in CallRecs /\ CallOk(r) /\ proxyPhase # "dialling"
  BY <1>1, RoutedAvailable
<1>3. CallGoes(c, IF proxyConf[r.up].output = "wild" THEN failed ELSE goes)
  BY Zenon, <1>2 DEF RedactOutput, Answers, Audits, CallRecs
<1>4. n \in Nat
  <2>1. (IF proxyConf[r.up].audit THEN 1 ELSE 0) \in {0, 1}
    BY Zenon
  <2>2. r.lines \in Nat
    BY Zenon, <1>2 DEF CallRecs
  <2> QED  BY <2>1, <2>2
<1> HIDE DEF n
<1>5. failed \in CallRecs /\ goes \in CallRecs
  BY Zenon, <1>2, <1>4 DEF CallRecs
<1>6. CallOk(failed) /\ CallOk(goes)
  BY Zenon, <1>1, <1>2 DEF CallOk, CallRecs
<1> HIDE DEF failed, goes
<1> QED  BY Zenon, <1>1, <1>2, <1>3, <1>5, <1>6, CallMoves

(* The upstreams are dialled once, before any request.                     *)
LEMMA DialInv == ASSUME ProxyInv, NEW tools \in [Upstreams -> SUBSET ToolNames], Dial(tools) PROVE ProxyInv'
<1>1. /\ proxyPhase = "dialling" /\ proxyPhase' = "serving"
      /\ upstream' = [u \in Upstreams |-> [available |-> tools[u] # {}, tools |-> tools[u]]]
      /\ proxyConf' = proxyConf /\ call' = call /\ advertised' = advertised
  BY DEF Dial
<1>2. advertised = {} /\ \A c \in Callers : call[c] = NoCall
  BY Zenon, <1>1 DEF ProxyInv, Dialled, CallOk
<1>3. upstream' \in [Upstreams -> [available : BOOLEAN, tools : SUBSET ToolNames]]
  <2>1. \A u \in Upstreams : [available |-> tools[u] # {}, tools |-> tools[u]] \in [available : BOOLEAN, tools : SUBSET ToolNames]
    BY Zenon
  <2> QED  BY <1>1, <2>1, Zenon
<1>4. \A u \in Upstreams : upstream'[u].tools # {} => upstream'[u].available
  BY Zenon, <1>1
<1>5. ProxyTypes'
  BY <1>1, <1>3 DEF ProxyInv, ProxyTypes
<1>6. Dialled'
  BY <1>1, <1>2, <1>4 DEF Dialled
<1>7. NoCall.pc = "none" /\ NoCall.sent = "none" /\ NoCall.answer = "none"
  BY DEF NoCall
<1>8. ASSUME NEW c \in Callers PROVE CallOk(call[c])'
  <2>1. call'[c] = NoCall
    BY <1>1, <1>2
  <2> QED  BY Zenon, <1>7, <2>1 DEF CallOk
<1> QED  BY <1>5, <1>6, <1>8 DEF ProxyInv

(* Listing, and the steps of the shutdown.                                 *)
LEMMA ToolsListInv == ASSUME ProxyInv, ToolsList PROVE ProxyInv'
<1>1. /\ proxyPhase = "serving" /\ UNCHANGED <<proxyConf, upstream, proxyPhase, call>>
      /\ advertised' = advertised \cup {p \in Upstreams \X ToolNames : p[2] \in Exposed(p[1])}
  BY DEF ToolsList
<1>2. ASSUME NEW p \in advertised' PROVE \E u \in Upstreams : \E t \in Exposed(u) : p = <<u, t>>
  <2>1. CASE p \in advertised
    BY <2>1 DEF ProxyInv, Dialled
  <2>2. CASE p \in Upstreams \X ToolNames /\ p[2] \in Exposed(p[1])
    BY <2>2
  <2> QED  BY <1>1, <1>2, <2>1, <2>2
<1>3. Dialled'
  BY <1>1, <1>2 DEF ProxyInv, Dialled, Exposed, MatchesAny
<1>4. ProxyTypes'
  BY <1>1 DEF ProxyInv, ProxyTypes
<1>5. ASSUME NEW c \in Callers PROVE CallOk(call[c])'
  BY Zenon, <1>1 DEF ProxyInv, CallOk, Exposed, MatchesAny
<1> QED  BY <1>3, <1>4, <1>5 DEF ProxyInv

(* SIGTERM: the server stops taking calls (main.go).                       *)
LEMMA TerminateInv == ASSUME ProxyInv, Terminate PROVE ProxyInv'
<1>1. /\ proxyPhase = "serving" /\ proxyPhase' = "draining" /\ UNCHANGED <<proxyConf, upstream, call, advertised>>
  BY DEF Terminate
<1>2. Dialled' /\ ProxyTypes'
  BY <1>1 DEF ProxyInv, ProxyTypes, Dialled, Exposed, MatchesAny
<1>3. ASSUME NEW c \in Callers PROVE CallOk(call[c])'
  BY Zenon, <1>1 DEF ProxyInv, CallOk, Exposed, MatchesAny
<1> QED  BY <1>2, <1>3 DEF ProxyInv

(* The upstreams are closed when no call is in flight; what they offered   *)
(* stays known.                                                            *)
LEMMA CloseInv == ASSUME ProxyInv, CloseUpstreams PROVE ProxyInv'
<1>1. /\ InFlight = {} /\ proxyPhase' = "closed" /\ UNCHANGED <<proxyConf, call, advertised>>
      /\ upstream' = [u \in Upstreams |-> [upstream[u] EXCEPT !.available = FALSE]]
  BY DEF CloseUpstreams, ProxyDrained
<1>2. upstream \in [Upstreams -> [available : BOOLEAN, tools : SUBSET ToolNames]]
  BY DEF ProxyInv, ProxyTypes
<1>3. upstream' \in [Upstreams -> [available : BOOLEAN, tools : SUBSET ToolNames]]
      /\ \A u \in Upstreams : upstream'[u].tools = upstream[u].tools
  BY Zenon, <1>1, <1>2
<1>4. \A u \in Upstreams : Exposed(u)' = Exposed(u)
  BY <1>1, <1>3 DEF Exposed, MatchesAny
<1>5. ProxyTypes'
  BY <1>1, <1>3 DEF ProxyInv, ProxyTypes
<1>6. Dialled'
  <2>1. ASSUME NEW p \in advertised PROVE \E u \in Upstreams : \E t \in Exposed(u)' : p = <<u, t>>
    BY <1>4 DEF ProxyInv, Dialled
  <2> QED  BY <1>1, <2>1 DEF Dialled
<1>7. ASSUME NEW c \in Callers PROVE CallOk(call[c])'
  <2>1. call[c].pc \in {"none", "answered"} /\ CallOk(call[c])
    BY <1>1 DEF ProxyInv, InFlight
  <2>2. MatchesAny(call[c].up, call[c].tool) => MatchesAny(call[c].up, call[c].tool)'
    BY <1>1 DEF MatchesAny
  <2> QED  BY Zenon, <1>1, <1>4, <2>1, <2>2 DEF CallOk
<1> QED  BY <1>5, <1>6, <1>7 DEF ProxyInv

(* A shutdown that times out cuts the calls in flight.                     *)
LEMMA TimesOutInv == ASSUME ProxyInv, ShutdownTimesOut PROVE ProxyInv'
<1>1. /\ proxyPhase' = "stopped" /\ UNCHANGED <<proxyConf, upstream, advertised>>
      /\ call' = [c \in Callers |-> IF c \in InFlight THEN [call[c] EXCEPT !.pc = "cut"] ELSE call[c]]
  BY DEF ShutdownTimesOut
<1>2. call \in [Callers -> CallRecs]
  BY DEF ProxyInv, ProxyTypes
<1>3. ASSUME NEW c \in Callers
      PROVE  /\ call'[c] \in CallRecs /\ call'[c].pc \in {"none", "answered", "cut"}
             /\ call'[c].pc = "none" => call'[c] = call[c]
             /\ call'[c].up = call[c].up /\ call'[c].tool = call[c].tool
             /\ call'[c].sent = call[c].sent /\ call'[c].answer = call[c].answer
  <2>1. call[c] \in CallRecs
    BY <1>2
  <2>2. CASE c \in InFlight
    <3>1. call'[c] = [call[c] EXCEPT !.pc = "cut"]
      BY <1>1, <2>2
    <3> QED  BY Zenon, <2>1, <3>1 DEF CallRecs
  <2>3. CASE c \notin InFlight
    <3>1. call'[c] = call[c] /\ call[c].pc \in {"none", "answered"}
      BY <1>1, <2>3 DEF InFlight
    <3> QED  BY <2>1, <3>1
  <2> QED  BY <2>2, <2>3
<1>4. ProxyTypes'
  <2>1. call' \in [Callers -> CallRecs]
    BY <1>1, <1>3
  <2> QED  BY <1>1, <2>1 DEF ProxyInv, ProxyTypes
<1>5. Dialled'
  BY <1>1 DEF ProxyInv, Dialled, Exposed, MatchesAny
<1>6. ASSUME NEW c \in Callers PROVE CallOk(call[c])'
  <2>1. CallOk(call[c])
    BY DEF ProxyInv
  <2>2. /\ call'[c].pc \in {"none", "answered", "cut"} /\ (call'[c].pc = "none" => call'[c] = call[c])
        /\ call'[c].up = call[c].up /\ call'[c].tool = call[c].tool
        /\ call'[c].sent = call[c].sent /\ call'[c].answer = call[c].answer
    BY <1>3
  <2> QED  BY Zenon, <1>1, <2>1, <2>2 DEF CallOk, Exposed, MatchesAny
<1> QED  BY <1>4, <1>5, <1>6 DEF ProxyInv

(* The proxy serves what it lists and finishes what it took on, for any    *)
(* upstreams, allowlists and redaction rules and any number of concurrent  *)
(* calls: no routed call finds its upstream closed, a listed tool is not   *)
(* unknown later, and only matched tools reach an upstream, blanked where  *)
(* a rule asks for it (Route, List, handleToolsCall, Shutdown).            *)
THEOREM ProxyServesCalls ==
    ASSUME NEW CONSTANT raws, raws \subseteq RawConfigs
    PROVE  ProxySpec(raws) => []CallsServed
<1>1. ProxyInit(raws) => ProxyInv
  BY ProxyInitial
<1>2. ProxyInv /\ [ProxyNext]_proxyVars => ProxyInv'
  <2> SUFFICES ASSUME ProxyInv, [ProxyNext]_proxyVars PROVE ProxyInv'
    OBVIOUS
  <2>1. CASE UNCHANGED proxyVars
    <3>1. UNCHANGED <<proxyConf, upstream, proxyPhase, call, advertised>>
      BY <2>1 DEF proxyVars
    <3>2. ProxyTypes' /\ Dialled'
      BY <3>1 DEF ProxyInv, ProxyTypes, Dialled, Exposed, MatchesAny
    <3>3. ASSUME NEW c \in Callers PROVE CallOk(call[c])'
      BY Zenon, <3>1 DEF ProxyInv, CallOk, Exposed, MatchesAny
    <3> QED  BY <3>2, <3>3 DEF ProxyInv
  <2>2. CASE \E tools \in [Upstreams -> SUBSET ToolNames] : Dial(tools)
    BY <2>2, DialInv
  <2>3. CASE ToolsList \/ Terminate \/ CloseUpstreams \/ ShutdownTimesOut
    BY <2>3, ToolsListInv, TerminateInv, CloseInv, TimesOutInv
  <2>4. ASSUME NEW c \in Callers,
               \/ \E u \in Upstreams, t \in ToolNames : ToolsCall(c, u, t)
               \/ RedactInput(c) \/ RedactOutput(c)
               \/ \E ok \in BOOLEAN : CallUpstream(c, ok)
        PROVE  ProxyInv'
    BY <2>4, ToolsCallInv, RedactInputInv, RedactOutputInv, CallUpstreamInv
  <2> QED  BY <2>1, <2>2, <2>3, <2>4 DEF ProxyNext
<1>3. ProxyInv => CallsServed
  <2> SUFFICES ASSUME ProxyInv, NEW c \in Callers
               PROVE  /\ call[c].answer # "unavailable"
                      /\ call[c].answer = "not found" => <<call[c].up, call[c].tool>> \notin advertised
                      /\ call[c].sent # "none" => /\ MatchesAny(call[c].up, call[c].tool)
                                                  /\ proxyConf[call[c].up].input = "plain" => call[c].sent = "blanked"
    BY Zenon DEF CallsServed, NoCallCutOff, ListedIsRoutable
  <2>1. CallOk(call[c]) /\ Dialled
    BY DEF ProxyInv
  <2>2. ASSUME NEW u, NEW t, <<u, t>> \in advertised PROVE t \in Exposed(u)
    BY <2>1, <2>2 DEF Dialled
  <2> QED  BY Zenon, <2>1, <2>2 DEF CallOk
<1> QED  BY <1>1, <1>2, <1>3, PTL DEF ProxySpec
=============================================================================
