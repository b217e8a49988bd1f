----------------------------- MODULE AgentServer -----------------------------
(***************************************************************************)
(* The KapeAgentServer reconciler of the operator, with the resolver of    *)
(* credential Secrets, the writer of provider records at the OpenShell     *)
(* gateway, the applier of the rendered objects and the watches that bring *)
(* it back.                                                                *)
(*                                                                         *)
(* One KapeAgentServer is modelled.  Each of its credentials names one     *)
(* Secret and becomes one provider record; a Secret is what it is worth to *)
(* the resolver: gone, without the credential label, without the key its   *)
(* provider profile requires, or a value.  A reconcile is a sequence of    *)
(* steps, one per call that leaves the process, between which users edit   *)
(* Secrets and the CR, the Deployment rolls, and the operator restarts.    *)
(***************************************************************************)
EXTENDS Naturals, FiniteSets, Sequences

CONSTANTS
    Creds,          \* the credential names a CR may declare
    SecretValues    \* the values a credential Secret may hold

ASSUME SrvAssumption == SecretValues \cap {"absent", "unlabelled", "nokey", "none"} = {}

VARIABLES
    srvScope,   \* bounds: credentials, edits, failures, kinds of failure; the wiring
    srv,        \* the CR: there, credentials, whether an Ingress is declared, generation
    secret,     \* per credential, its Secret
    provider,   \* per credential, the value in the gateway's provider record
    profiled,   \* the gateway holds the provider profile
    pushed,     \* Writer.pushed: what this process last wrote
    objects,    \* the rendered objects: none, owned by the CR, or foreign
    bound,      \* KAPE_CREDENTIAL_BINDINGS of the Deployment
    serving,    \* the Deployment is observed and has an available replica
    srvStatus,  \* the status of the CR
    srvQueued,  \* the key is in the work queue
    work,       \* the reconcile in progress
    unlabelled, \* history: credentials whose Secret lost its label, unseen since
    unanswered  \* history: credentials whose last write took effect unanswered

srvVars == <<srvScope, srv, secret, provider, profiled, pushed, objects, bound,
             serving, srvStatus, srvQueued, work, unlabelled, unanswered>>
gatewayVars == <<provider, profiled, pushed, unanswered>>
clusterVars == <<objects, bound, serving>>

Kinds == <<"ServiceAccount", "RoleBinding", "Deployment", "Service", "Ingress">>
Objects == {Kinds[i] : i \in DOMAIN Kinds}
Secrets == {"absent", "unlabelled", "nokey"} \cup SecretValues
NoValue == "none"
NoOutcomes == [c \in Creds |-> NoValue]
NoWork == [pc |-> "idle", creds |-> {}, ingress |-> FALSE, gen |-> 0, value |-> NoOutcomes,
           outcome |-> NoOutcomes, at |-> 1, ready |-> NoValue, retry |-> FALSE]
NoStatus == [ready |-> NoValue, outcome |-> NoOutcomes, gen |-> 0]

SrvInit(scopes) ==
    /\ srvScope \in scopes
    /\ srv = [exists |-> TRUE, creds |-> srvScope.creds, ingress |-> TRUE, gen |-> 1]
    /\ secret \in [Creds -> {"absent"} \cup SecretValues]
    /\ \A c \in Creds \ srv.creds : secret[c] = "absent"
    /\ provider = NoOutcomes /\ profiled = FALSE /\ pushed = NoOutcomes
    /\ objects \in [Objects -> {"none", "foreign"}]
    /\ {o \in Objects : objects[o] = "foreign"} \subseteq srvScope.foreign
    /\ bound = {} /\ serving = FALSE
    /\ srvStatus = NoStatus /\ srvQueued = TRUE /\ work = NoWork
    /\ unlabelled = {} /\ unanswered = {}

(* One failure of a kind the scope allows.                                 *)
SrvFault(kind) ==
    /\ kind \in srvScope.faults /\ srvScope.failures > 0
    /\ srvScope' = [srvScope EXCEPT !.failures = @ - 1]

-----------------------------------------------------------------------------
(* Reconcile, up to the gateway.                                           *)

(* Reconcile takes the key and fetches the CR; one that is gone ends it.   *)
SrvGet ==
    /\ work.pc = "idle" /\ srvQueued
    /\ srvQueued' = FALSE
    /\ work' = IF srv.exists
               THEN [NoWork EXCEPT !.pc = "resolve", !.creds = srv.creds,
                                   !.ingress = srv.ingress, !.gen = srv.gen]
               ELSE NoWork
    /\ UNCHANGED <<srvScope, srv, secret, gatewayVars, clusterVars, srvStatus, unlabelled>>

(* resolveOne and MissingCredentialKeys: why a Secret yields no record.    *)
Refusal(s) ==
    CASE s = "absent" -> "SecretNotFound"
      [] s = "unlabelled" -> "SecretNotLabeled"
      [] s = "nokey" -> "MissingCredentialKey"
      [] OTHER -> NoValue

(* The records of the writer's pending list.                               *)
Todo(w) == {c \in w.creds : w.value[c] # NoValue /\ w.outcome[c] = NoValue}

(* resolveCredentials: every Secret is read; a failed read is an outcome   *)
(* like the others and no error.                                           *)
Resolve ==
    /\ work.pc = "resolve"
    /\ \E failed \in {{}} \cup {{c} : c \in work.creds} :
         /\ IF failed = {} THEN UNCHANGED srvScope ELSE SrvFault("read")
         /\ LET found == [work EXCEPT
                    !.outcome = [c \in Creds |-> IF c \notin work.creds THEN NoValue
                                                 ELSE IF c \in failed THEN "SecretReadFailed"
                                                 ELSE Refusal(secret[c])],
                    !.value = [c \in Creds |-> IF c \in work.creds \ failed /\ secret[c] \in SecretValues
                                               THEN secret[c] ELSE NoValue]]
            IN work' = [found EXCEPT !.pc = IF Todo(found) = {} THEN "token" ELSE "profiles"]
    /\ unlabelled' = unlabelled \ work.creds
    /\ UNCHANGED <<srv, secret, gatewayVars, clusterVars, srvStatus, srvQueued>>

(* The credentials in cs fail for this reason.                             *)
Outcome(w, cs, reason) ==
    [w EXCEPT !.outcome = [c \in Creds |-> IF c \in cs THEN reason ELSE w.outcome[c]]]

(* prepareProfiles: an unreachable gateway fails every pending record and  *)
(* is an error; a verdict on the profile fails them without one.           *)
PrepareProfiles ==
    /\ work.pc = "profiles"
    /\ \/ profiled' = TRUE /\ work' = [work EXCEPT !.pc = "push"] /\ UNCHANGED srvScope
       \/ /\ SrvFault("unavailable") /\ UNCHANGED profiled
          /\ work' = [Outcome(work, Todo(work), "GatewayUnavailable")
                        EXCEPT !.pc = "token", !.retry = TRUE]
       \/ /\ SrvFault("aborted") /\ UNCHANGED profiled
          /\ work' = [Outcome(work, Todo(work), "GatewayRejected") EXCEPT !.pc = "token"]
    /\ UNCHANGED <<srv, secret, provider, pushed, unanswered, clusterVars, srvStatus, srvQueued, unlabelled>>

Pushes(w) == [w EXCEPT !.pc = IF Todo(w) = {} THEN "token" ELSE "push"]

(* The record is written: its value is at the gateway.                     *)
Written(c, answered) ==
    /\ provider' = [provider EXCEPT ![c] = work.value[c]]
    /\ unanswered' = IF answered THEN unanswered \ {c} ELSE unanswered \cup {c}

(* applyRecord: a missing record is created, one whose value this process  *)
(* has not pushed yet is updated, any other is left alone.  "unavailable"  *)
(* has no effect and is an error; "aborted" is contention that outlasts    *)
(* withRetry, a verdict without an error; "lost" is a write that took      *)
(* effect and whose answers were lost: the retried create then finds the   *)
(* record there and is refused, the retried update stays unanswered.       *)
ApplyRecord(c) ==
    /\ work.pc = "push" /\ c \in Todo(work)
    /\ LET outstanding == provider[c] = NoValue \/ pushed[c] # work.value[c]
       IN \/ /\ IF outstanding THEN Written(c, TRUE) ELSE UNCHANGED <<provider, unanswered>>
             /\ pushed' = [pushed EXCEPT ![c] = work.value[c]]
             /\ work' = Pushes(Outcome(work, {c}, "Pushed"))
             /\ UNCHANGED srvScope
          \/ /\ SrvFault("unavailable") /\ UNCHANGED <<provider, pushed, unanswered>>
             /\ work' = [Pushes(Outcome(work, {c}, "GatewayUnavailable")) EXCEPT !.retry = TRUE]
          \/ /\ SrvFault("aborted") /\ outstanding /\ UNCHANGED <<provider, pushed, unanswered>>
             /\ work' = Pushes(Outcome(work, {c}, "GatewayRejected"))
          \/ /\ SrvFault("lost") /\ outstanding /\ Written(c, FALSE) /\ UNCHANGED pushed
             /\ work' = IF provider[c] = NoValue
                        THEN Pushes(Outcome(work, {c}, "GatewayRejected"))
                        ELSE [Pushes(Outcome(work, {c}, "GatewayUnavailable")) EXCEPT !.retry = TRUE]
    /\ UNCHANGED <<srv, secret, profiled, clusterVars, srvStatus, srvQueued, unlabelled>>

-----------------------------------------------------------------------------
(* Reconcile, at the cluster.                                              *)

(* The reconcile goes to setReady with this reason for Ready=False.        *)
NotReady(reason, retry) == work' = [work EXCEPT !.pc = "status", !.ready = reason, !.retry = retry]

(* DaemonTokenStore.Ensure and the wiring gate.  A failed token write is   *)
(* retried; incomplete wiring is not, and the gateway's error goes with it. *)
Token ==
    /\ work.pc = "token"
    /\ \/ UNCHANGED srvScope
          /\ IF srvScope.wired THEN work' = [work EXCEPT !.pc = "apply"]
                               ELSE NotReady("WiringIncomplete", FALSE)
       \/ SrvFault("api") /\ NotReady("ApplyFailed", TRUE)
    /\ UNCHANGED <<srv, secret, gatewayVars, clusterVars, srvStatus, srvQueued, unlabelled>>

(* pushedSecrets and credentialBindingsJSON: the credentials the gateway   *)
(* accepted in this reconcile.                                             *)
Rendered == {c \in work.creds : work.outcome[c] = "Pushed"}

(* ensure, and prune of an undeclared Ingress, on the next object: created *)
(* when missing, patched when it differs.  A changed Deployment has to     *)
(* roll, and a write is an event of the owned watch.  What is made for a   *)
(* CR that is gone is collected.                                           *)
Apply ==
    /\ work.pc = "apply"
    /\ LET o == Kinds[work.at]
           wanted == o # "Ingress" \/ work.ingress
           stop == work.at = Len(Kinds)
       IN \/ /\ wanted /\ objects[o] = "foreign"
             /\ NotReady("OwnershipConflict", FALSE)
             /\ UNCHANGED <<srvScope, clusterVars, srvQueued>>
          \/ /\ SrvFault("api") /\ NotReady("ApplyFailed", TRUE)
             /\ UNCHANGED <<clusterVars, srvQueued>>
          \/ /\ wanted => objects[o] # "foreign"
             /\ UNCHANGED srvScope
             /\ work' = [work EXCEPT !.at = IF stop THEN 1 ELSE @ + 1,
                                     !.pc = IF stop THEN "observe" ELSE "apply"]
             /\ objects' = [objects EXCEPT ![o] = IF ~srv.exists \/ (~wanted /\ @ = "foreign") THEN @
                                                  ELSE IF wanted THEN "owned" ELSE "none"]
             /\ IF srv.exists /\ o = "Deployment"
                  THEN /\ bound' = Rendered
                       /\ serving' = (serving /\ bound' = bound /\ objects' = objects)
                  ELSE UNCHANGED <<bound, serving>>
             /\ srvQueued' = (srvQueued \/ objects' # objects \/ bound' # bound)
    /\ UNCHANGED <<srv, secret, gatewayVars, srvStatus, unlabelled>>

(* DeploymentStatus; a failed read ends the reconcile without a status.    *)
Observe ==
    /\ work.pc = "observe"
    /\ \/ NotReady(IF objects["Deployment"] = "owned" /\ serving THEN "Deployed" ELSE "Progressing", work.retry)
          /\ UNCHANGED <<srvScope, srvQueued>>
       \/ SrvFault("api") /\ work' = NoWork /\ srvQueued' = TRUE
    /\ UNCHANGED <<srv, secret, gatewayVars, clusterVars, srvStatus, unlabelled>>

(* Mutant of SetReady: an error of the gateway is not returned.            *)
SetReadyQuiet ==
    /\ work.pc = "status"
    /\ srvStatus' = IF srv.exists THEN [ready |-> work.ready, outcome |-> work.outcome, gen |-> work.gen]
                    ELSE srvStatus
    /\ srvQueued' = (srvQueued \/ srvStatus' # srvStatus)
    /\ work' = NoWork
    /\ UNCHANGED <<srvScope, srv, secret, gatewayVars, clusterVars, unlabelled>>

(* setReady: the whole status is written over the latest object; a write   *)
(* that changes it is an event of the CR's own watch.  Reconcile returns   *)
(* the gateway's error, the applier's, or that of the status write.        *)
SetReady ==
    /\ work.pc = "status"
    /\ \/ /\ srvStatus' = IF srv.exists THEN [ready |-> work.ready, outcome |-> work.outcome, gen |-> work.gen]
                          ELSE srvStatus
          /\ srvQueued' = (srvQueued \/ srvStatus' # srvStatus \/ work.retry)
          /\ UNCHANGED srvScope
       \/ SrvFault("api") /\ srvQueued' = TRUE /\ UNCHANGED srvStatus
    /\ work' = NoWork
    /\ UNCHANGED <<srv, secret, gatewayVars, clusterVars, unlabelled>>

SrvStep ==
    \/ SrvGet \/ Resolve \/ PrepareProfiles \/ (\E c \in Creds : ApplyRecord(c))
    \/ Token \/ Apply \/ Observe \/ SetReady

-----------------------------------------------------------------------------
(* Users, the Deployment controller and the operator's own restarts.       *)

SrvEdit == srvScope.edits > 0 /\ srvScope' = [srvScope EXCEPT !.edits = @ - 1] /\ UNCHANGED work

Labelled(s) == s \notin {"absent", "unlabelled"}

(* Mutant of SecretWatched: only a Secret that is made or deleted counts.  *)
SecretWatchedOnce(old, new) == (Labelled(new) /\ old = "absent") \/ (Labelled(old) /\ new = "absent")

(* CredentialSecretPredicate and MapSecretToAgentServers judge the object  *)
(* the event carries: the new one, or the last one of a deletion.          *)
SecretWatched(old, new) == Labelled(IF new = "absent" THEN old ELSE new)

EditSecret(c, s) ==
    /\ SrvEdit /\ s # secret[c]
    /\ secret' = [secret EXCEPT ![c] = s]
    /\ srvQueued' = (srvQueued \/ (c \in srv.creds /\ SecretWatched(secret[c], s)))
    /\ unlabelled' = IF Labelled(secret[c]) /\ s = "unlabelled" THEN unlabelled \cup {c} ELSE unlabelled
    /\ UNCHANGED <<srv, gatewayVars, clusterVars, srvStatus>>

EditServer(creds, ingress) ==
    /\ SrvEdit /\ srv.exists /\ <<creds, ingress>> # <<srv.creds, srv.ingress>>
    /\ srv' = [srv EXCEPT !.creds = creds, !.ingress = ingress, !.gen = @ + 1]
    /\ srvQueued' = TRUE
    /\ UNCHANGED <<secret, gatewayVars, clusterVars, srvStatus, unlabelled>>

(* The garbage collector takes the owned objects with the CR; the gateway  *)
(* keeps the provider records.                                             *)
DeleteServer ==
    /\ SrvEdit /\ srv.exists
    /\ srv' = [srv EXCEPT !.exists = FALSE]
    /\ objects' = [o \in Objects |-> IF objects[o] = "owned" THEN "none" ELSE objects[o]]
    /\ bound' = {} /\ serving' = FALSE /\ srvStatus' = NoStatus /\ srvQueued' = TRUE
    /\ UNCHANGED <<secret, gatewayVars, unlabelled>>

(* Somebody deletes an object: the watch tells of one the CR owns.         *)
DeleteObject(o) ==
    /\ SrvEdit /\ objects[o] # "none"
    /\ objects' = [objects EXCEPT ![o] = "none"]
    /\ bound' = (IF o = "Deployment" THEN {} ELSE bound)
    /\ serving' = (serving /\ o # "Deployment")
    /\ srvQueued' = (srvQueued \/ objects[o] = "owned")
    /\ UNCHANGED <<srv, secret, gatewayVars, srvStatus, unlabelled>>

(* The rollout of the Deployment completes.                                *)
Rolls ==
    /\ objects["Deployment"] = "owned" /\ ~serving
    /\ serving' = TRUE /\ srvQueued' = TRUE
    /\ UNCHANGED <<srvScope, srv, secret, gatewayVars, objects, bound, srvStatus, work, unlabelled>>

(* The operator restarts: Writer.pushed is empty, every CR is listed.      *)
SrvRestart ==
    /\ srvScope.edits > 0 /\ srvScope' = [srvScope EXCEPT !.edits = @ - 1]
    /\ pushed' = NoOutcomes /\ work' = NoWork /\ srvQueued' = TRUE
    /\ UNCHANGED <<srv, secret, provider, profiled, unanswered, clusterVars, srvStatus, unlabelled>>

SrvNext ==
    \/ SrvStep \/ Rolls \/ SrvRestart \/ DeleteServer
    \/ \E c \in srvScope.creds, s \in Secrets : EditSecret(c, s)
    \/ \E creds \in SUBSET srvScope.creds, ingress \in BOOLEAN : EditServer(creds, ingress)
    \/ \E o \in Objects : DeleteObject(o)

-----------------------------------------------------------------------------
(* Properties.                                                             *)

SrvRests == work.pc = "idle" /\ ~srvQueued

(* Reconcile, "KAPE_CREDENTIAL_BINDINGS never names a provider the gateway *)
(* does not hold": whatever failed, restarted or was edited in between,    *)
(* the controller is only told of providers that have a record.            *)
BindingsBacked == \A c \in bound : provider[c] # NoValue

(* A credential reported as pushed has the present value of its Secret at  *)
(* the gateway, when the reconciler rests.                                 *)
LatestValues(creds) ==
    SrvRests => \A c \in creds :
        srvStatus.outcome[c] = "Pushed" => secret[c] \in SecretValues /\ provider[c] = secret[c]

(* applyRecord and rememberPush: a credential reported as pushed is        *)
(* current across rotations, failed writes and restarts of the operator,   *)
(* but for a Secret whose label was taken away, which no watch reports,    *)
(* and for a write that took effect and was never answered.                *)
PushedIsCurrent == LatestValues(srv.creds \ (unlabelled \cup unanswered))

(* DeploymentStatus and the watches: when the reconciler rests, Ready=True *)
(* is about the present CR, objects the CR owns and a rolled out           *)
(* Deployment that binds the credentials the status reports as pushed.     *)
ReadyHonest ==
    SrvRests /\ srvStatus.ready = "Deployed" =>
        /\ srvStatus.gen = srv.gen /\ serving
        /\ \A o \in Objects \ {"Ingress"} : objects[o] = "owned"
        /\ (objects["Ingress"] = "owned") = srv.ingress
        /\ bound = {c \in srv.creds : srvStatus.outcome[c] = "Pushed"}

(* "a rotation = edit the Secret": once the edits and the failures stop, a *)
(* usable credential of a complete CR, none of whose writes went           *)
(* unanswered, ends up at the gateway and in the controller's bindings.    *)
(* Nobody retries a write that the gateway rejected, contention included,  *)
(* nor a Secret that could not be read: then the status says so instead.   *)
RotationArrives ==
    <>[](/\ srv.exists /\ srvScope.wired /\ \A o \in Objects : objects[o] # "foreign"
         /\ unanswered = {} /\ \E c \in srv.creds : secret[c] \in SecretValues)
        => <>[](\A c \in srv.creds : secret[c] \in SecretValues =>
                    \/ provider[c] = secret[c] /\ c \in bound
                    \/ srvStatus.outcome[c] \in {"GatewayRejected", "SecretReadFailed"})

(* What the status of a KapeAgentServer says is so: its Ready condition,   *)
(* its credentials' outcomes and the bindings the controller is given, the *)
(* three things setReady, mergeOutcomes and pushedSecrets derive.          *)
StatusHonest == BindingsBacked /\ ReadyHonest /\ PushedIsCurrent
=============================================================================
