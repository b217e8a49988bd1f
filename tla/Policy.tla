--------------------------------- MODULE Policy ---------------------------------
(* The egress policy of a new sandbox: ApplyModelGatewayPolicy with the credential *)
(* bindings stamped into the policy the sandbox already has, then                   *)
(* ApplyControllerEgressDeny (controller/policy.go, credentials.go), against a      *)
(* gateway that composes and revokes provider rules meanwhile.  A policy is a set   *)
(* of endpoint declarations; an upsert replaces every declaration of its rule.      *)
EXTENDS Integers, Sequences, FiniteSets

CONSTANTS
  Images,              \* policies a sandbox image may carry
  BindingTables,       \* sequences of [ep, provider], one entry per bound host, in order
  ComposedEndpoints,   \* endpoints provider composition may declare
  PolicyMergeAttempts, MaxMoves

(* an endpoint without a credential binding *)
NoProvider == "none"

Declares(rule, ep, provider, l7) == [rule |-> rule, ep |-> ep, provider |-> provider, l7 |-> l7]

VARIABLES
  image, bindings, dns,  \* fixed: the image's policy, the binding table, whether the gateway's name resolves
  gateway,       \* the sandbox at the gateway: policy, version, backfilled
  apply,         \* the caller: at, policy and version read, ops, attempt, why it failed
  moves,         \* compositions and revocations so far
  composed,      \* <<rule, ep>> the gateway composed and has not revoked
  revoked,
  accepted,      \* history: the policy right after the binding merge was accepted
  torn           \* history: the sandbox moved between the two reads of GetSandboxPolicy

policyVars == <<image, bindings, dns, gateway, apply, moves, composed, revoked, accepted, torn>>

PolicyInit ==
  /\ image \in Images /\ bindings \in BindingTables /\ dns \in BOOLEAN
  /\ \E known \in BOOLEAN : gateway = [policy |-> IF known THEN image ELSE {}, version |-> 1, backfilled |-> known]
  /\ apply = [at |-> "rule", policy |-> {}, version |-> 0, ops |-> {}, attempt |-> 0, why |-> "none"]
  /\ moves = 0 /\ composed = {} /\ revoked = {} /\ accepted = {} /\ torn = FALSE

-------------------------------------------------------------------------------
(* credentials.go *)

BoundEndpoints == {bindings[i].ep : i \in DOMAIN bindings}

(* duplicate hosts keep their first binding *)
ProviderOf(ep) ==
  bindings[CHOOSE i \in DOMAIN bindings : bindings[i].ep = ep /\ \A j \in DOMAIN bindings : bindings[j].ep = ep => i <= j].provider

EnsureL7(l7) == IF l7 = "none" THEN "any" ELSE l7

Bare(d) == d.ep \in BoundEndpoints /\ d.provider = NoProvider

Stamp(d) == IF Bare(d) THEN Declares(d.rule, d.ep, ProviderOf(d.ep), EnsureL7(d.l7)) ELSE d

Conflict(policy) == \E d \in policy : d.ep \in BoundEndpoints /\ d.provider \notin {NoProvider, ProviderOf(d.ep)}

\* Mutant: one declaring rule is stamped, the others stay bare.
CredentialPolicyOpsFirst(policy) ==
  LET bare == {d.rule : d \in {d \in policy : Bare(d)}}
      one == {r \in bare : \A s \in bare : r = s \/ r = "image1"}
  IN {Stamp(d) : d \in {d \in policy : d.rule \in one}}
     \cup {Declares("m1_credential_bindings", ep, ProviderOf(ep), "any") : ep \in {e \in BoundEndpoints : \A d \in policy : d.ep # e}}

(* every rule that declares a bound endpoint is sent again, stamped; bound     *)
(* hosts no rule declares go to a rule of their own                            *)
CredentialPolicyOps(policy) ==
  {Stamp(d) : d \in {d \in policy : \E e \in policy : e.rule = d.rule /\ Bare(e)}}
  \cup {Declares("m1_credential_bindings", ep, ProviderOf(ep), "any") : ep \in {e \in BoundEndpoints : \A d \in policy : d.ep # e}}

-------------------------------------------------------------------------------
(* The gateway (external): upsert by rule, then validation *)

Upsert(policy, ops) == {d \in policy : \A o \in ops : o.rule # d.rule} \cup ops
Valid(policy) ==
  /\ \A d, e \in policy : d.ep = e.ep => d.provider = e.provider
  /\ \A d \in policy : d.provider # NoProvider => d.l7 # "none"
Current == IF gateway.backfilled THEN gateway.policy ELSE gateway.policy \cup image

(* What an image carries passed the gateway's validation, and leaves the rule   *)
(* names of the controller alone; ParseBindings refuses a binding without a     *)
(* provider.                                                                    *)
ASSUME PolicyAssumption ==
  /\ \A im \in Images :
       Valid(im) /\ \A d \in im : d.rule \notin {"m1_model_gateway", "m1_credential_bindings", "m1_controller"}
  /\ BindingTables \subseteq Seq([ep : STRING, provider : STRING \ {NoProvider}])

GatewayMoves(policy) ==
  /\ moves < MaxMoves /\ moves' = moves + 1 /\ apply.at \notin {"done", "failed"}
  /\ gateway' = [gateway EXCEPT !.policy = policy, !.version = @ + 1]
  /\ torn' = (torn \/ apply.at \in {"version", "version again"})
  /\ UNCHANGED <<image, bindings, dns, apply, accepted>>

(* provider composition: a declaration in a rule of its own or in an existing one *)
Composes ==
  \E ep \in ComposedEndpoints, rule \in {"composed"} \cup {d.rule : d \in gateway.policy} :
    /\ gateway.backfilled /\ \A d \in gateway.policy : d.rule = rule => d.ep # ep
    /\ LET known == {d \in gateway.policy : d.ep = ep}
       IN GatewayMoves(gateway.policy \cup {Declares(rule, ep, IF known = {} THEN NoProvider ELSE (CHOOSE d \in known : TRUE).provider, "narrow")})
    /\ composed' = composed \cup {<<rule, ep>>} /\ revoked' = revoked \ {<<rule, ep>>}

Revokes ==
  \E c \in composed :
    /\ GatewayMoves({d \in gateway.policy : <<d.rule, d.ep>> # c})
    /\ composed' = composed \ {c} /\ revoked' = revoked \cup {c}

(* any other mutation of the sandbox *)
Touches == GatewayMoves(gateway.policy) /\ UNCHANGED <<composed, revoked>>

-------------------------------------------------------------------------------
(* policy.go *)

Goes(to) == apply' = [apply EXCEPT !.at = to]
FailsWith(why) == apply' = [apply EXCEPT !.at = "failed", !.why = why]
Held == UNCHANGED <<image, bindings, dns, moves, composed, revoked, torn>>

GatewayRule == {Declares("m1_model_gateway", "gateway", NoProvider, "any")}

(* modelGatewayRule with allowedIPsFor, validateBindings: nothing was sent yet; without bindings *)
(* the merge is not pinned to a version                                        *)
BuildRule ==
  /\ apply.at = "rule"
  /\ IF ~dns THEN FailsWith("unresolved")
     ELSE apply' = [apply EXCEPT !.at = IF bindings = <<>> THEN "merge" ELSE "read", !.ops = GatewayRule]
  /\ Held /\ UNCHANGED <<gateway, accepted>>

(* GetSandboxPolicy: the policy, then in a second call the resource version *)
ReadPolicy ==
  /\ \/ apply.at = "read" /\ apply' = [apply EXCEPT !.at = "version", !.policy = gateway.policy]
     \/ apply.at = "read again" /\ apply' = [apply EXCEPT !.at = "version again", !.policy = gateway.policy]
     \/ apply.at \in {"read", "read again"} /\ FailsWith("unreachable")
  /\ Held /\ UNCHANGED <<gateway, accepted>>

(* the operations for the policy that was read *)
Prepare(ops) ==
  IF Conflict(apply.policy) THEN apply' = [apply EXCEPT !.at = "failed", !.why = "conflict", !.version = gateway.version]
  ELSE apply' = [apply EXCEPT !.at = "merge", !.ops = ops \cup CredentialPolicyOps(apply.policy),
                              !.version = gateway.version, !.attempt = 0]

(* an empty policy is the gateway's before its first merge: merge the gateway  *)
(* rule alone to trigger the backfill, then read again                          *)
ReadVersion ==
  /\ apply.at = "version"
  /\ IF apply.policy = {} THEN apply' = [apply EXCEPT !.at = "backfill", !.version = gateway.version]
     ELSE Prepare(apply.ops)
  /\ Held /\ UNCHANGED <<gateway, accepted>>

ReadVersionAgain ==
  /\ apply.at = "version again"
  /\ IF apply.policy = {} THEN FailsWith("no policy") ELSE Prepare({})
  /\ Held /\ UNCHANGED <<gateway, accepted>>

(* one UpdateConfig of mergeOrRetry; the retry keeps ops and version *)
Merge(at, ops, next) ==
  /\ apply.at = at /\ Held
  /\ \/ /\ apply.version \notin {0, gateway.version}
        /\ IF apply.attempt < PolicyMergeAttempts - 1 THEN apply' = [apply EXCEPT !.attempt = @ + 1] ELSE FailsWith("aborted")
        /\ UNCHANGED <<gateway, accepted>>
     \/ /\ apply.version \in {0, gateway.version}
        /\ LET merged == Upsert(Current, ops) IN
           IF Valid(merged)
           THEN /\ gateway' = [policy |-> merged, version |-> gateway.version + 1, backfilled |-> TRUE]
                /\ accepted' = IF next = "deny" THEN merged ELSE accepted
                /\ Goes(next)
           ELSE FailsWith("rejected") /\ UNCHANGED <<gateway, accepted>>
     \/ FailsWith("unreachable") /\ UNCHANGED <<gateway, accepted>>

Backfill == Merge("backfill", GatewayRule, "read again")

\* Mutant: the binding merge is not pinned to the version that was read.
BindUnpinned ==
  /\ apply.at = "merge" /\ Held /\ Goes("deny")
  /\ LET merged == Upsert(Current, apply.ops) IN
     Valid(merged) /\ accepted' = merged /\ gateway' = [policy |-> merged, version |-> gateway.version + 1, backfilled |-> TRUE]

(* nothing left to send when every bound endpoint carries its provider already *)
Bind == IF apply.ops = {}
        THEN apply.at = "merge" /\ Held /\ Goes("deny") /\ accepted' = gateway.policy /\ UNCHANGED gateway
        ELSE Merge("merge", apply.ops, "deny")

(* ApplyControllerEgressDeny: allow and deny in one unpinned merge, no retry *)
Deny ==
  /\ apply.at = "deny" /\ Held /\ UNCHANGED accepted
  /\ \/ /\ gateway' = [gateway EXCEPT !.policy = Upsert(Current, {Declares("m1_controller", "controller", NoProvider, "any")}),
                                      !.version = @ + 1]
        /\ Goes("done")
     \/ FailsWith("unreachable") /\ UNCHANGED gateway

PolicyNext == \/ BuildRule \/ ReadPolicy \/ ReadVersion \/ ReadVersionAgain \/ Backfill \/ Bind \/ Deny
              \/ Composes \/ Revokes \/ Touches

-------------------------------------------------------------------------------
(* Properties *)

Applied == apply.at \in {"deny", "done"}

(* Fail closed: an apply that goes on has every bound endpoint declared, every  *)
(* declaration of it with the first provider the table names, inspected, and    *)
(* the model gateway rule in the same policy.                                   *)
BoundOrRefused ==
  Applied =>
    /\ \E d \in accepted : d.rule = "m1_model_gateway" /\ d.ep = "gateway" /\ d.l7 = "any"
    /\ \A ep \in BoundEndpoints :
         /\ \E d \in accepted : d.ep = ep
         /\ \A d \in accepted : d.ep = ep => d.provider = ProviderOf(ep) /\ d.l7 # "none"

(* The stamping exists so that the gateway does not refuse the merge as         *)
(* ambiguous: it never does, unless the policy moved between the two reads or   *)
(* the table or the image binds the model gateway itself.                       *)
StampNotAmbiguous ==
  apply.why = "rejected" =>
    \/ torn
    \/ "gateway" \in BoundEndpoints
    \/ \E i \in image : i.ep = "gateway" /\ i.provider # NoProvider

(* Stamping keeps the restrictions the image's author wrote: a declaration of   *)
(* the image keeps its L7 rules, and is never dropped.                          *)
RestrictionsKept ==
  Applied => \A i \in image : \E d \in accepted :
    d.rule = i.rule /\ d.ep = i.ep /\ (i.l7 # "none" => d.l7 = i.l7)

(* What the gateway composed meanwhile survives the apply and what it revoked   *)
(* stays revoked, unless the read was torn: the write carries the version of    *)
(* the second read with the policy of the first.                                *)
CompositionKept ==
  ~torn => /\ \A c \in composed : \E d \in gateway.policy : <<d.rule, d.ep>> = c
           /\ \A c \in revoked : \A d \in gateway.policy : <<d.rule, d.ep>> # c

(* A policy the apply went on with binds every credential it should, and the   *)
(* gateway had no reason to refuse the stamping (CredentialPolicyOps).         *)
CredentialsBound == BoundOrRefused /\ StampNotAmbiguous

(* The apply takes nothing away: not the image's restrictions, not what the    *)
(* gateway composed or revoked while it ran (ensureL7, mergeOrRetry).          *)
PolicyKept == RestrictionsKept /\ CompositionKept
===============================================================================
