--------------------------- MODULE ComponentProofs ---------------------------
(***************************************************************************)
(* Proofs about the components that are checked on their own: the egress   *)
(* policy of a sandbox and the event adapters, each for any values of its  *)
(* constants.                                                              *)
(***************************************************************************)
EXTENDS Policy, Adapters, WellFoundedInduction, FiniteSetTheorems, TLAPS

-----------------------------------------------------------------------------
(* The egress policy of a sandbox: what the controller leaves at the       *)
(* gateway binds every credential to its endpoints and keeps what was      *)
(* there, for any image policy, binding table and number of attempts.      *)

PolicySpec == PolicyInit /\ [][PolicyNext]_policyVars

(* Where an apply has merged nothing, the gateway's rule alone, or anything *)
(* but the bindings.                                                       *)
Early == {"rule", "read", "version", "backfill"}
Again == {"read again", "version again"}
Before == Early \cup Again \cup {"merge"}

ApplyRec(a) ==
    a \in [at : Before \cup {"deny", "done", "failed"}, policy : {a.policy}, version : Nat,
           ops : {a.ops}, attempt : {a.attempt}, why : {a.why}]

PolicyTypes ==
    /\ image \in Images /\ bindings \in BindingTables /\ torn \in BOOLEAN
    /\ gateway \in [policy : {gateway.policy}, version : Nat \ {0}, backfilled : BOOLEAN]
    /\ ApplyRec(apply)

(* A policy that grew out of the image's: every provider in it comes from   *)
(* the image.                                                              *)
FromImage(policy) ==
    /\ Valid(policy) /\ image \subseteq policy
    /\ \A d \in policy : d.rule \notin {"m1_credential_bindings", "m1_controller"}
    /\ \A d \in policy : d.provider # NoProvider => \E i \in image : i.ep = d.ep /\ i.provider = d.provider

(* A gateway that has not taken the image's policy over has none at all.    *)
Unfilled ==
    ~gateway.backfilled =>
        /\ gateway.policy = {} /\ apply.policy = {} /\ composed = {} /\ revoked = {}
        /\ apply.at \notin Again \cup {"deny", "done"}

Moved == composed \cup revoked

(* Until the bindings are merged no rule of the image or of the controller  *)
(* is the gateway's to revoke.                                             *)
Untouched ==
    /\ \A c \in Moved : c[1] # "m1_controller"
    /\ apply.at = "deny" => \A d \in gateway.policy : d.rule # "m1_controller"
    /\ apply.at \in Before =>
         /\ gateway.backfilled => FromImage(gateway.policy)
         /\ apply.policy # {} => FromImage(apply.policy)
         /\ \A c \in Moved : c[1] # "m1_credential_bindings" /\ \A i \in image : c # <<i.rule, i.ep>>

Unmerged ==
    /\ \A d \in gateway.policy : d.rule # "m1_model_gateway"
    /\ \A c \in Moved : c[1] # "m1_model_gateway"

Merged ==
    /\ gateway.backfilled /\ GatewayRule \subseteq gateway.policy
    /\ \A c \in Moved : c # <<"m1_model_gateway", "gateway">>

(* What a merge is about to send, and what it was computed from.            *)
Plan ==
    \/ /\ bindings = <<>> /\ apply.version = 0 /\ apply.ops = GatewayRule /\ Unmerged
    \/ /\ apply.policy # {} /\ apply.version # 0 /\ ~Conflict(apply.policy)
       /\ \/ apply.ops = GatewayRule \cup CredentialPolicyOps(apply.policy) /\ Unmerged
          \/ apply.ops = CredentialPolicyOps(apply.policy) /\ GatewayRule \subseteq apply.policy /\ Merged

Planned ==
    /\ apply.at \in Early => Unmerged
    /\ apply.at \in Again => Merged
    /\ apply.at \in {"rule", "read"} => apply.policy = {}
    /\ apply.at = "rule" => apply.version = 0
    /\ apply.at \in {"read", "version"} => apply.ops = GatewayRule
    /\ apply.at = "version again" => GatewayRule \subseteq apply.policy
    /\ apply.at = "merge" => Plan

(* A write that is not refused was computed from the current policy, unless *)
(* the read was torn.                                                      *)
ReadCurrent ==
    /\ apply.version <= gateway.version
    /\ ~torn /\ apply.at \in {"version", "version again"} => apply.policy = gateway.policy
    /\ ~torn /\ apply.at = "merge" /\ apply.version = gateway.version => apply.policy = gateway.policy

PolicyInv ==
    /\ PolicyTypes /\ Unfilled /\ Untouched /\ Planned /\ ReadCurrent
    /\ CredentialsBound /\ PolicyKept

-----------------------------------------------------------------------------
(* A nonempty set of naturals has a least member.                          *)
LEMMA LeastMember ==
    ASSUME NEW T, T \subseteq Nat, T # {}
    PROVE  \E x \in T : \A y \in T : ~(y < x)
<1>1. \E x \in T : \A y \in T : ~(<<y, x>> \in OpToRel(<, Nat))
  BY Zenon, NatLessThanWellFounded, WFMin
<1> QED  BY Zenon, <1>1 DEF OpToRel

(* A bound endpoint has a provider: duplicate hosts keep their first.       *)
LEMMA BoundProvider ==
    ASSUME bindings \in BindingTables, NEW ep \in BoundEndpoints PROVE ProviderOf(ep) # NoProvider
<1> DEFINE T == {i \in DOMAIN bindings : bindings[i].ep = ep}
<1>1. bindings \in Seq([ep : STRING, provider : STRING \ {NoProvider}])
  BY Zenon, PolicyAssumption
<1>2. T \subseteq Nat /\ T # {}
  BY <1>1 DEF BoundEndpoints
<1>3. PICK i \in T : \A j \in T : ~(j < i)
  BY Zenon, <1>2, LeastMember
<1>4. \A j \in T : i <= j
  BY <1>2, <1>3
<1>5. \E k \in DOMAIN bindings : bindings[k].ep = ep /\ \A j \in DOMAIN bindings : bindings[j].ep = ep => k <= j
  BY <1>4
<1> DEFINE m == CHOOSE k \in DOMAIN bindings :
                   bindings[k].ep = ep /\ \A j \in DOMAIN bindings : bindings[j].ep = ep => k <= j
<1>6. m \in DOMAIN bindings
  BY <1>5
<1>7. ProviderOf(ep) = bindings[m].provider
  BY DEF ProviderOf
<1> HIDE DEF m
<1>8. bindings[m] \in [ep : STRING, provider : STRING \ {NoProvider}]
  <2>1. \A B : \A s \in Seq(B) : \A k \in DOMAIN s : s[k] \in B
    OBVIOUS
  <2> QED BY Zenon, <1>1, <1>6, <2>1
<1>9. bindings[m].provider \in STRING \ {NoProvider}
  BY <1>8
<1> QED BY <1>7, <1>9

(* Stamping fills in the provider and keeps the restrictions.               *)
LEMMA Stamped ==
    ASSUME bindings \in BindingTables, NEW d
    PROVE  /\ Stamp(d).rule = d.rule /\ Stamp(d).ep = d.ep
           /\ d.l7 # "none" => Stamp(d).l7 = d.l7
           /\ Bare(d) => Stamp(d).provider = ProviderOf(d.ep) /\ Stamp(d).l7 # "none"
           /\ ~Bare(d) => Stamp(d) = d
BY DEF Stamp, Bare, Declares, EnsureL7

(* What CredentialPolicyOps sends, and that it leaves nothing out.          *)
LEMMA OpsSent ==
    ASSUME NEW P
    PROVE  /\ \A o \in CredentialPolicyOps(P) :
                \/ \E d \in P : o = Stamp(d) /\ \E e \in P : e.rule = d.rule /\ Bare(e)
                \/ /\ o.rule = "m1_credential_bindings" /\ o.ep \in BoundEndpoints /\ o.l7 = "any"
                   /\ o.provider = ProviderOf(o.ep) /\ \A d \in P : d.ep # o.ep
           /\ \A d, e \in P : e.rule = d.rule /\ Bare(e) => Stamp(d) \in CredentialPolicyOps(P)
           /\ \A ep \in BoundEndpoints : (\A d \in P : d.ep # ep) =>
                \E o \in CredentialPolicyOps(P) : o.ep = ep /\ o.provider = ProviderOf(ep)
<1> DEFINE stamps == {Stamp(d) : d \in {d \in P : \E e \in P : e.rule = d.rule /\ Bare(e)}}
           own == {Declares("m1_credential_bindings", ep, ProviderOf(ep), "any") :
                     ep \in {e \in BoundEndpoints : \A d \in P : d.ep # e}}
<1>1. CredentialPolicyOps(P) = stamps \cup own
  BY DEF CredentialPolicyOps
<1>2. \A o \in stamps : \E d \in P : o = Stamp(d) /\ \E e \in P : e.rule = d.rule /\ Bare(e)
  OBVIOUS
<1>3. \A o \in own : /\ o.rule = "m1_credential_bindings" /\ o.ep \in BoundEndpoints /\ o.l7 = "any"
                     /\ o.provider = ProviderOf(o.ep) /\ \A d \in P : d.ep # o.ep
  BY DEF Declares
<1>4. \A d, e \in P : e.rule = d.rule /\ Bare(e) => Stamp(d) \in stamps
  OBVIOUS
<1>5. ASSUME NEW ep \in BoundEndpoints, \A d \in P : d.ep # ep
      PROVE  \E o \in own : o.ep = ep /\ o.provider = ProviderOf(ep)
  <2>1. Declares("m1_credential_bindings", ep, ProviderOf(ep), "any") \in own
    BY <1>5
  <2> QED BY Zenon, <2>1 DEF Declares
<1> HIDE DEF stamps, own
<1> QED BY <1>1, <1>2, <1>3, <1>4, <1>5

(* A declaration that was read and is still there survives the merge,       *)
(* stamped if its rule is sent again.                                       *)
LEMMA MergeKeeps ==
    ASSUME bindings \in BindingTables, NEW P, NEW G, NEW E, NEW d \in P, d \in G,
           d.rule # "m1_credential_bindings", \A o \in E : o.rule # d.rule
    PROVE  \E x \in Upsert(G, E \cup CredentialPolicyOps(P)) : x = d \/ x = Stamp(d)
<1> DEFINE ops == E \cup CredentialPolicyOps(P)
<1>1. CASE \A o \in ops : o.rule # d.rule
  BY <1>1 DEF Upsert
<1>2. CASE \E o \in ops : o.rule = d.rule
  <2>1. PICK o \in CredentialPolicyOps(P) : o.rule = d.rule
    BY <1>2
  <2>2. PICK f \in P : o = Stamp(f) /\ \E e \in P : e.rule = f.rule /\ Bare(e)
    BY <2>1, OpsSent
  <2>3. f.rule = d.rule
    BY <2>1, <2>2, Stamped
  <2>4. Stamp(d) \in CredentialPolicyOps(P)
    BY <2>2, <2>3, OpsSent
  <2> QED BY <2>4 DEF Upsert
<1> QED BY <1>1, <1>2

(* A merge the gateway accepts binds every endpoint of the table, and keeps *)
(* what the image restricts.                                               *)
LEMMA MergeBinds ==
    ASSUME image \in Images, bindings \in BindingTables, NEW P, NEW G, NEW E,
           FromImage(P), image \subseteq G, ~Conflict(P), E \subseteq GatewayRule,
           Valid(Upsert(G, E \cup CredentialPolicyOps(P)))
    PROVE  LET M == Upsert(G, E \cup CredentialPolicyOps(P)) IN
           /\ \A ep \in BoundEndpoints :
                /\ \E d \in M : d.ep = ep
                /\ \A d \in M : d.ep = ep => d.provider = ProviderOf(ep) /\ d.l7 # "none"
           /\ \A i \in image : \E d \in M : d.rule = i.rule /\ d.ep = i.ep /\ (i.l7 # "none" => d.l7 = i.l7)
<1> DEFINE M == Upsert(G, E \cup CredentialPolicyOps(P))
<1>1. \A o \in E : o.rule = "m1_model_gateway"
  BY DEF GatewayRule, Declares
<1>2. ASSUME NEW i \in image PROVE \E x \in M : x = i \/ x = Stamp(i)
  <2>1. i \in P /\ i \in G
    BY DEF FromImage
  <2>2. i.rule \notin {"m1_model_gateway", "m1_credential_bindings", "m1_controller"}
    BY PolicyAssumption
  <2> QED BY Zenon, <1>1, <2>1, <2>2, MergeKeeps
<1>3. ASSUME NEW i \in image PROVE \E d \in M : d.rule = i.rule /\ d.ep = i.ep /\ (i.l7 # "none" => d.l7 = i.l7)
  BY Zenon, <1>2, Stamped
<1>4. ASSUME NEW ep \in BoundEndpoints PROVE \E d \in M : d.ep = ep /\ d.provider = ProviderOf(ep)
  <2>1. \A o \in CredentialPolicyOps(P) : o \in M
    BY DEF Upsert
  <2>2. CASE \A d \in P : d.ep # ep
    <3>1. PICK o \in CredentialPolicyOps(P) : o.ep = ep /\ o.provider = ProviderOf(ep)
      BY <2>2, OpsSent
    <3> HIDE DEF M
    <3> QED BY <2>1, <3>1
  <2>3. ASSUME NEW d \in P, d.ep = ep, Bare(d) PROVE \E x \in M : x.ep = ep /\ x.provider = ProviderOf(ep)
    <3>1. Stamp(d) \in CredentialPolicyOps(P)
      BY <2>3, OpsSent
    <3>2. Stamp(d).ep = ep /\ Stamp(d).provider = ProviderOf(ep)
      BY <2>3, Stamped
    <3> HIDE DEF M
    <3> QED BY <2>1, <3>1, <3>2
  <2>4. ASSUME NEW d \in P, d.ep = ep, ~Bare(d) PROVE \E x \in M : x.ep = ep /\ x.provider = ProviderOf(ep)
    <3>1. d.provider # NoProvider /\ d.provider = ProviderOf(ep)
      BY <2>4 DEF Bare, Conflict
    <3>2. PICK i \in image : i.ep = ep /\ i.provider = ProviderOf(ep)
      BY <2>4, <3>1 DEF FromImage
    <3>3. ~Bare(i)
      BY <3>1, <3>2 DEF Bare
    <3>4. i \in M
      BY Zenon, <1>2, <3>3, Stamped
    <3> QED BY <3>2, <3>4
  <2> QED BY Zenon, <2>2, <2>3, <2>4
<1>5. ASSUME NEW ep \in BoundEndpoints, NEW d \in M, d.ep = ep PROVE d.provider = ProviderOf(ep) /\ d.l7 # "none"
  <2>1. d.provider = ProviderOf(ep)
    BY <1>4, <1>5 DEF Valid
  <2> QED BY Zenon, <2>1, BoundProvider DEF Valid
<1> QED BY Zenon, <1>3, <1>4, <1>5

(* Stamping what was read gives a policy the gateway accepts.               *)
LEMMA StampValid ==
    ASSUME bindings \in BindingTables, NEW P, NEW E, FromImage(P), ~Conflict(P), E \subseteq GatewayRule,
           E = {} \/ ("gateway" \notin BoundEndpoints /\ \A i \in image : i.ep = "gateway" => i.provider = NoProvider)
    PROVE  Valid(Upsert(P, E \cup CredentialPolicyOps(P)))
<1> DEFINE M == Upsert(P, E \cup CredentialPolicyOps(P))
           Want(d) == /\ d.ep \in BoundEndpoints => d.provider = ProviderOf(d.ep) /\ d.l7 # "none"
                      /\ d.ep \notin BoundEndpoints =>
                           \/ d \in P
                           \/ d.ep = "gateway" /\ d.provider = NoProvider /\ E # {}
<1>1. ASSUME NEW d \in P, d.ep \in BoundEndpoints PROVE d.provider \in {NoProvider, ProviderOf(d.ep)}
  BY <1>1 DEF Conflict
<1>2. ASSUME NEW d \in P PROVE Want(Stamp(d))
  <2>1. CASE Bare(d)
    BY <2>1, Stamped DEF Bare
  <2>2. CASE ~Bare(d)
    <3>1. Stamp(d) = d
      BY <2>2, Stamped
    <3>2. d.ep \in BoundEndpoints => d.provider # NoProvider
      BY <2>2 DEF Bare
    <3>3. d.provider # NoProvider => d.l7 # "none"
      BY DEF FromImage, Valid
    <3> QED BY <1>1, <3>1, <3>2, <3>3
  <2> QED BY <2>1, <2>2
<1>3. ASSUME NEW d \in P, \A o \in CredentialPolicyOps(P) : o.rule # d.rule PROVE Want(d)
  <2>1. ~Bare(d)
    BY <1>3, OpsSent, Stamped
  <2> QED BY <1>2, <2>1, Stamped
<1>4. ASSUME NEW d \in CredentialPolicyOps(P) PROVE Want(d)
  BY <1>2, OpsSent
<1>5. ASSUME NEW d \in E PROVE Want(d)
  BY DEF GatewayRule, Declares
<1>6. \A d \in M : Want(d)
  BY <1>3, <1>4, <1>5 DEF Upsert
<1>7. \A d, e \in P : d.ep = e.ep => d.provider = e.provider
  BY DEF FromImage, Valid
<1>8. \A d \in P : d.ep = "gateway" /\ E # {} => d.provider = NoProvider
  BY DEF FromImage
<1>9. ASSUME NEW d \in M, NEW e \in M, d.ep = e.ep PROVE d.provider = e.provider
  BY Zenon, <1>6, <1>7, <1>8, <1>9
<1>10. ASSUME NEW d \in M, d.provider # NoProvider PROVE d.l7 # "none"
  BY Zenon, <1>6, <1>10 DEF FromImage, Valid
<1> QED BY <1>9, <1>10 DEF Valid

-----------------------------------------------------------------------------
(* The invariant of an apply.                                               *)
LEMMA PolicyInitial == ASSUME PolicyInit PROVE PolicyInv
<1> DEFINE a == [at |-> "rule", policy |-> {}, version |-> 0, ops |-> {}, attempt |-> 0, why |-> "none"]
<1>1. /\ image \in Images /\ bindings \in BindingTables /\ apply = a
      /\ composed = {} /\ revoked = {} /\ accepted = {} /\ torn = FALSE
  BY DEF PolicyInit
<1>2. PICK known \in BOOLEAN :
        gateway = [policy |-> IF known THEN image ELSE {}, version |-> 1, backfilled |-> known]
  BY DEF PolicyInit
<1>3. /\ gateway.policy = IF known THEN image ELSE {}
      /\ gateway.version = 1 /\ gateway.backfilled = known
      /\ gateway \in [policy : {gateway.policy}, version : Nat \ {0}, backfilled : BOOLEAN]
  BY <1>2
<1>4. /\ apply.at = "rule" /\ apply.policy = {} /\ apply.version = 0 /\ apply.why = "none"
      /\ ApplyRec(apply)
  BY <1>1 DEF ApplyRec, Before, Early
<1>5. PolicyTypes
  BY Zenon, <1>1, <1>3, <1>4 DEF PolicyTypes
<1>6. Unfilled
  BY <1>1, <1>3, <1>4 DEF Unfilled, Again
<1>7. /\ Valid(image)
      /\ \A d \in image : d.rule \notin {"m1_model_gateway", "m1_credential_bindings", "m1_controller"}
  BY <1>1, PolicyAssumption
<1>8. FromImage(image)
  BY <1>7 DEF FromImage
<1>9. Untouched
  BY <1>1, <1>3, <1>4, <1>8 DEF Untouched, Moved
<1>10. Planned
  <2>1. Unmerged
    BY <1>1, <1>3, <1>7 DEF Unmerged, Moved
  <2> QED BY <1>4, <2>1 DEF Planned, Again
<1>11. ReadCurrent
  BY <1>3, <1>4 DEF ReadCurrent
<1>12. CredentialsBound /\ PolicyKept
  BY <1>1, <1>4
     DEF CredentialsBound, PolicyKept, BoundOrRefused, StampNotAmbiguous, RestrictionsKept, CompositionKept, Applied
<1> QED BY <1>5, <1>6, <1>9, <1>10, <1>11, <1>12 DEF PolicyInv

(* An apply that gives up leaves the gateway as it is.                      *)
LEMMA GivesUp ==
    ASSUME PolicyInv, Held, UNCHANGED <<gateway, accepted>>, ApplyRec(apply'), apply'.at = "failed",
           apply'.policy = apply.policy, apply'.version <= gateway.version,
           apply'.why = "rejected" => StampNotAmbiguous' \/ apply.why = "rejected"
    PROVE  PolicyInv'
<1>1. /\ image' = image /\ bindings' = bindings /\ composed' = composed /\ revoked' = revoked
      /\ torn' = torn /\ gateway' = gateway /\ accepted' = accepted
  BY DEF Held
<1>2. PolicyTypes'
  BY <1>1 DEF PolicyInv, PolicyTypes
<1>3. Unfilled'
  BY Zenon, <1>1 DEF PolicyInv, Unfilled, Again
<1>4. Untouched'
  BY Zenon, <1>1 DEF PolicyInv, Untouched, Moved, Before, Early, Again
<1>5. Planned'
  BY DEF Planned, Early, Again
<1>6. ReadCurrent'
  BY <1>1 DEF ReadCurrent
<1>7. ~Applied'
  BY DEF Applied
<1>8. StampNotAmbiguous'
  BY <1>1 DEF PolicyInv, CredentialsBound, StampNotAmbiguous, BoundEndpoints
<1>9. CompositionKept'
  BY <1>1 DEF PolicyInv, PolicyKept, CompositionKept
<1> QED BY <1>2, <1>3, <1>4, <1>5, <1>6, <1>7, <1>8, <1>9
        DEF PolicyInv, CredentialsBound, PolicyKept, BoundOrRefused, RestrictionsKept

(* An apply that goes on, with the gateway as it is.                        *)
LEMMA GoesOn ==
    ASSUME PolicyInv, Held, UNCHANGED <<gateway, accepted>>, ApplyRec(apply'), apply.at \in Before,
           apply'.at \in Before, ~gateway.backfilled => apply'.at \notin Again,
           apply'.why = apply.why, apply'.policy \in {apply.policy, gateway.policy}, Planned', ReadCurrent'
    PROVE  PolicyInv'
<1>1. /\ image' = image /\ bindings' = bindings /\ composed' = composed /\ revoked' = revoked
      /\ torn' = torn /\ gateway' = gateway /\ accepted' = accepted
  BY DEF Held
<1>2. PolicyTypes'
  BY <1>1 DEF PolicyInv, PolicyTypes
<1>3. Unfilled'
  BY Zenon, <1>1 DEF PolicyInv, Unfilled, Before, Early, Again
<1>4. Untouched'
  <2>1. \A policy : FromImage(policy)' <=> FromImage(policy)
    BY <1>1 DEF FromImage
  <2>2. gateway.policy # {} => gateway.backfilled
    BY DEF PolicyInv, Unfilled, PolicyTypes
  <2>3. /\ gateway.backfilled => FromImage(gateway.policy)
        /\ apply.policy # {} => FromImage(apply.policy)
    BY DEF PolicyInv, Untouched
  <2>4. apply'.policy # {} => FromImage(apply'.policy)
    BY <2>2, <2>3
  <2>5. /\ gateway'.backfilled => FromImage(gateway.policy)'
        /\ apply'.policy # {} => FromImage(apply.policy)'
    BY <1>1, <2>3, <2>4 DEF FromImage
  <2> QED BY Zenon, <1>1, <2>5 DEF PolicyInv, Untouched, Moved, Before, Early, Again
<1>5. ~Applied'
  BY Zenon DEF Applied, Before, Early, Again
<1>6. StampNotAmbiguous'
  BY <1>1 DEF PolicyInv, CredentialsBound, StampNotAmbiguous, BoundEndpoints
<1>7. CompositionKept'
  BY <1>1 DEF PolicyInv, PolicyKept, CompositionKept
<1> QED BY <1>2, <1>3, <1>4, <1>5, <1>6, <1>7
        DEF PolicyInv, CredentialsBound, PolicyKept, BoundOrRefused, RestrictionsKept

(* Giving up with a reason other than the gateway's refusal.                *)
LEMMA FailsWithOk ==
    ASSUME PolicyInv, Held, UNCHANGED <<gateway, accepted>>, NEW why, FailsWith(why), why # "rejected"
    PROVE  PolicyInv'
<1>1. ApplyRec(apply) /\ apply' = [apply EXCEPT !.at = "failed", !.why = why]
  BY DEF PolicyInv, PolicyTypes, FailsWith
<1>2. /\ ApplyRec(apply') /\ apply'.at = "failed" /\ apply'.policy = apply.policy
      /\ apply'.version = apply.version /\ apply'.why = why
  BY Zenon, <1>1 DEF ApplyRec
<1>3. apply'.version <= gateway.version
  BY Zenon, <1>2 DEF PolicyInv, ReadCurrent
<1> QED BY <1>2, <1>3, GivesUp

(* Before anything is sent (modelGatewayRule).                             *)
LEMMA BuildRuleOk == ASSUME PolicyInv, BuildRule PROVE PolicyInv'
<1>1. apply.at = "rule" /\ Held /\ UNCHANGED <<gateway, accepted>>
  BY DEF BuildRule
<1>2. CASE ~dns
  BY <1>1, <1>2, FailsWithOk DEF BuildRule
<1>3. CASE dns
  <2> DEFINE next == IF bindings = <<>> THEN "merge" ELSE "read"
  <2>1. ApplyRec(apply) /\ apply' = [apply EXCEPT !.at = next, !.ops = GatewayRule]
    BY <1>3 DEF BuildRule, PolicyInv, PolicyTypes
  <2>2. next \in {"merge", "read"} /\ (next = "merge" => bindings = <<>>)
    OBVIOUS
  <2> HIDE DEF next
  <2>3. /\ ApplyRec(apply') /\ apply'.at = next /\ apply'.policy = apply.policy
        /\ apply'.version = apply.version /\ apply'.why = apply.why /\ apply'.ops = GatewayRule
    BY Zenon, <2>1, <2>2 DEF ApplyRec, Before, Early
  <2>4. apply.policy = {} /\ apply.version = 0 /\ Unmerged /\ gateway.version \in Nat \ {0}
    BY <1>1 DEF PolicyInv, Planned, Early, PolicyTypes
  <2>5. Unmerged' /\ bindings' = bindings /\ gateway' = gateway
    BY <1>1, <2>4 DEF Held, Unmerged, Moved
  <2>6. GatewayRule' = GatewayRule
    BY DEF GatewayRule
  <2>7. Planned'
    BY Zenon, <2>2, <2>3, <2>4, <2>5, <2>6 DEF Planned, Plan, Again
  <2>8. apply'.version = 0 /\ 0 <= gateway'.version /\ 0 # gateway'.version
    BY <2>3, <2>4, <2>5
  <2>9. ReadCurrent'
    BY Zenon, <2>2, <2>3, <2>8 DEF ReadCurrent
  <2> QED BY Zenon, <1>1, <2>2, <2>3, <2>7, <2>9, GoesOn DEF Before, Early, Again
<1> QED BY <1>2, <1>3

(* The first of the two calls of GetSandboxPolicy.                         *)
LEMMA ReadPolicyOk == ASSUME PolicyInv, ReadPolicy PROVE PolicyInv'
<1>1. Held /\ UNCHANGED <<gateway, accepted>> /\ gateway' = gateway /\ torn' = torn
  BY Zenon DEF ReadPolicy, Held
<1>2. CASE FailsWith("unreachable")
  BY <1>1, <1>2, FailsWithOk
<1>3. ASSUME NEW from, NEW to,
             \/ from = "read" /\ to = "version"
             \/ from = "read again" /\ to = "version again",
             apply.at = from, apply' = [apply EXCEPT !.at = to, !.policy = gateway.policy]
      PROVE  PolicyInv'
  <2>1. ApplyRec(apply)
    BY DEF PolicyInv, PolicyTypes
  <2>2. \/ from = "read" /\ to = "version"
        \/ from = "read again" /\ to = "version again"
    BY Zenon, <1>3
  <2>3. /\ ApplyRec(apply') /\ apply'.at = to /\ apply'.policy = gateway.policy
        /\ apply'.version = apply.version /\ apply'.why = apply.why /\ apply'.ops = apply.ops
    BY Zenon, <1>3, <2>1, <2>2 DEF ApplyRec, Before, Early, Again
  <2>4. /\ to = "version" => Unmerged /\ apply.ops = GatewayRule
        /\ to = "version again" => Merged
        /\ apply.version <= gateway.version
    BY Zenon, <1>3, <2>2 DEF PolicyInv, Planned, Early, Again, ReadCurrent
  <2>5. /\ Unmerged => Unmerged' 
        /\ Merged => Merged' /\ GatewayRule \subseteq gateway.policy
    BY <1>1 DEF Held, Unmerged, Merged, Moved, GatewayRule
  <2>6. Planned'
    BY Zenon, <2>2, <2>3, <2>4, <2>5 DEF Planned, Early, Again, GatewayRule
  <2>7. ReadCurrent'
    BY Zenon, <1>1, <2>2, <2>3, <2>4 DEF ReadCurrent
  <2>8. ~gateway.backfilled => apply'.at \notin Again
    BY Zenon, <2>2, <2>3, <2>4 DEF Merged, Again
  <2> QED BY Zenon, <1>1, <1>3, <2>2, <2>3, <2>6, <2>7, <2>8, GoesOn DEF Before, Early, Again
<1>4. \/ FailsWith("unreachable")
      \/ apply.at = "read" /\ apply' = [apply EXCEPT !.at = "version", !.policy = gateway.policy]
      \/ apply.at = "read again" /\ apply' = [apply EXCEPT !.at = "version again", !.policy = gateway.policy]
  BY Zenon DEF ReadPolicy
<1> QED BY Zenon, <1>2, <1>3, <1>4

(* The operations prepared for the policy that was read.                    *)
LEMMA PrepareOk ==
    ASSUME PolicyInv, Held, UNCHANGED <<gateway, accepted>>
    PROVE  /\ apply.policy # {}
           /\ \/ apply.at = "version" /\ Prepare(GatewayRule)
              \/ apply.at = "version again" /\ Prepare({})
           => PolicyInv'
<1>1. /\ ApplyRec(apply) /\ gateway' = gateway /\ torn' = torn /\ bindings' = bindings
      /\ composed' = composed /\ revoked' = revoked /\ gateway.version \in Nat \ {0}
  BY DEF PolicyInv, PolicyTypes, Held
<1>2. ASSUME Conflict(apply.policy), NEW more, Prepare(more) PROVE PolicyInv'
  <2>1. apply' = [apply EXCEPT !.at = "failed", !.why = "conflict", !.version = gateway.version]
    BY <1>2 DEF Prepare
  <2>2. /\ ApplyRec(apply') /\ apply'.at = "failed" /\ apply'.policy = apply.policy
        /\ apply'.version = gateway.version /\ apply'.why = "conflict"
    BY Zenon, <1>1, <2>1 DEF ApplyRec
  <2>3. apply'.version <= gateway.version
    BY <1>1, <2>2
  <2> QED BY <2>2, <2>3, GivesUp
<1>3. ASSUME ~Conflict(apply.policy), apply.policy # {}, NEW more, Prepare(more),
             \/ apply.at = "version" /\ more = GatewayRule
             \/ apply.at = "version again" /\ more = {}
      PROVE  PolicyInv'
  <2> DEFINE all == more \cup CredentialPolicyOps(apply.policy)
  <2>1. apply' = [apply EXCEPT !.at = "merge", !.ops = all, !.version = gateway.version, !.attempt = 0]
    BY Zenon, <1>3 DEF Prepare
  <2> HIDE DEF all
  <2>2. /\ ApplyRec(apply') /\ apply'.at = "merge" /\ apply'.policy = apply.policy
        /\ apply'.version = gateway.version /\ apply'.why = apply.why /\ apply'.ops = all
    BY Zenon, <1>1, <2>1 DEF ApplyRec, Before
  <2>3. /\ CredentialPolicyOps(apply.policy)' = CredentialPolicyOps(apply.policy)
        /\ Conflict(apply.policy)' = Conflict(apply.policy) /\ GatewayRule' = GatewayRule
    BY <1>1, <2>2 DEF CredentialPolicyOps, Conflict, BoundEndpoints, ProviderOf, Stamp, Bare, GatewayRule
  <2>4. /\ apply.at = "version" => Unmerged'
        /\ apply.at = "version again" => Merged' /\ GatewayRule \subseteq apply.policy
    BY Zenon, <1>1 DEF PolicyInv, Planned, Early, Again, Unmerged, Merged, Moved, GatewayRule
  <2>5. Plan'
    BY Zenon, <1>1, <1>3, <2>2, <2>3, <2>4 DEF Plan, all
  <2>6. Planned'
    BY <2>2, <2>5 DEF Planned, Early, Again
  <2>7. ~torn => apply.policy = gateway.policy
    BY Zenon, <1>3 DEF PolicyInv, ReadCurrent
  <2>8. apply'.version <= gateway'.version
    BY <1>1, <2>2
  <2>9. ReadCurrent'
    BY <1>1, <2>2, <2>7, <2>8 DEF ReadCurrent
  <2>10. apply.at \in Before /\ apply'.at \in Before \ Again
    BY Zenon, <1>3, <2>2 DEF Before, Early, Again
  <2> QED BY <2>2, <2>6, <2>9, <2>10, GoesOn
<1> QED BY Zenon, <1>2, <1>3

(* The second call; an empty policy asks for the backfill merge.           *)
LEMMA ReadVersionOk == ASSUME PolicyInv, ReadVersion PROVE PolicyInv'
<1>1. apply.at = "version" /\ Held /\ UNCHANGED <<gateway, accepted>>
  BY DEF ReadVersion
<1>2. apply.ops = GatewayRule /\ Unmerged
  BY <1>1 DEF PolicyInv, Planned, Early
<1>3. CASE apply.policy # {}
  BY <1>1, <1>2, <1>3, PrepareOk DEF ReadVersion
<1>4. CASE apply.policy = {}
  <2>1. /\ ApplyRec(apply) /\ apply' = [apply EXCEPT !.at = "backfill", !.version = gateway.version]
        /\ gateway' = gateway /\ torn' = torn /\ gateway.version \in Nat \ {0}
    BY <1>1, <1>4 DEF ReadVersion, PolicyInv, PolicyTypes, Held
  <2>2. /\ ApplyRec(apply') /\ apply'.at = "backfill" /\ apply'.policy = apply.policy
        /\ apply'.version = gateway.version /\ apply'.why = apply.why
    BY Zenon, <2>1 DEF ApplyRec, Before, Early
  <2>3. Unmerged'
    BY <1>1, <1>2 DEF Unmerged, Moved, Held
  <2>4. Planned'
    BY <2>2, <2>3 DEF Planned, Again
  <2>5. ReadCurrent'
    BY <2>1, <2>2 DEF ReadCurrent
  <2> QED BY <1>1, <2>2, <2>4, <2>5, GoesOn DEF Before, Early, Again
<1> QED BY <1>3, <1>4

(* The second call after the backfill: an empty policy is refused.         *)
LEMMA ReadVersionAgainOk == ASSUME PolicyInv, ReadVersionAgain PROVE PolicyInv'
<1>1. apply.at = "version again" /\ Held /\ UNCHANGED <<gateway, accepted>>
  BY Zenon DEF ReadVersionAgain
<1>2. CASE apply.policy = {}
  BY Zenon, <1>1, <1>2, FailsWithOk DEF ReadVersionAgain
<1>3. CASE apply.policy # {}
  BY Zenon, <1>1, <1>3, PrepareOk DEF ReadVersionAgain
<1> QED BY <1>2, <1>3

(* A merge that meets another version is tried again, with what it had.     *)
LEMMA RetryOk ==
    ASSUME PolicyInv, Held, UNCHANGED <<gateway, accepted>>, apply.at \in {"backfill", "merge"},
           apply' = [apply EXCEPT !.attempt = @ + 1]
    PROVE  PolicyInv'
<1>1. /\ ApplyRec(apply) /\ gateway' = gateway /\ torn' = torn /\ bindings' = bindings
      /\ composed' = composed /\ revoked' = revoked
  BY DEF PolicyInv, PolicyTypes, Held
<1>2. /\ ApplyRec(apply') /\ apply'.at = apply.at /\ apply'.policy = apply.policy
      /\ apply'.version = apply.version /\ apply'.why = apply.why /\ apply'.ops = apply.ops
  BY <1>1 DEF ApplyRec
<1>3. Planned'
  <2>1. (Unmerged => Unmerged') /\ (Merged => Merged')
    BY <1>1 DEF Unmerged, Merged, Moved, GatewayRule
  <2>2. /\ CredentialPolicyOps(apply.policy)' = CredentialPolicyOps(apply.policy)
        /\ Conflict(apply.policy)' = Conflict(apply.policy) /\ GatewayRule' = GatewayRule
    BY <1>1, <1>2 DEF CredentialPolicyOps, Conflict, BoundEndpoints, ProviderOf, Stamp, Bare, GatewayRule
  <2>3. apply.at = "merge" => Plan'
    BY <1>1, <1>2, <2>1, <2>2 DEF PolicyInv, Planned, Plan
  <2> QED BY Zenon, <1>1, <1>2, <2>1, <2>3 DEF PolicyInv, Planned, Early, Again
<1>4. ReadCurrent'
  BY Zenon, <1>1, <1>2 DEF PolicyInv, ReadCurrent
<1> QED BY Zenon, <1>1, <1>2, <1>3, <1>4, GoesOn DEF Before, Early, Again

(* What the gateway merges into: its policy, or the image's.                *)
LEMMA MergesInto ==
    ASSUME PolicyInv, apply.at \in Before
    PROVE  /\ FromImage(Current)
           /\ gateway.backfilled => Current = gateway.policy
           /\ ~gateway.backfilled => composed = {} /\ revoked = {}
<1>1. CASE gateway.backfilled
  BY <1>1 DEF PolicyInv, Untouched, Current
<1>2. CASE ~gateway.backfilled
  <2>1. gateway.policy = {} /\ composed = {} /\ revoked = {} /\ image \in Images
    BY <1>2 DEF PolicyInv, Unfilled, PolicyTypes
  <2>2. Current = image
    BY <1>2, <2>1 DEF Current
  <2>3. FromImage(image)
    BY <2>1, PolicyAssumption DEF FromImage
  <2> QED BY <1>2, <2>1, <2>2, <2>3
<1> QED BY <1>1, <1>2

(* The gateway's rule merged alone.                                         *)
LEMMA RuleMerged ==
    ASSUME image \in Images, NEW C, FromImage(C)
    PROVE  LET U == Upsert(C, GatewayRule) IN
           /\ (\A i \in image : i.ep = "gateway" => i.provider = NoProvider) => Valid(U)
           /\ Valid(U) => FromImage(U)
           /\ GatewayRule \subseteq U /\ image \subseteq U
           /\ \A d \in C : d.rule # "m1_model_gateway" => d \in U
           /\ \A d \in U : d \in C \/ (d.rule = "m1_model_gateway" /\ d.ep = "gateway" /\ d.l7 = "any")
<1> DEFINE U == Upsert(C, GatewayRule)
           g == Declares("m1_model_gateway", "gateway", NoProvider, "any")
<1>1. GatewayRule = {g}
  BY DEF GatewayRule
<1>2. g.rule = "m1_model_gateway" /\ g.ep = "gateway" /\ g.provider = NoProvider /\ g.l7 = "any"
  BY DEF Declares
<1> HIDE DEF g
<1>3. U = {d \in C : d.rule # "m1_model_gateway"} \cup {g}
  BY <1>1, <1>2 DEF Upsert
<1>4. \A i \in image : i.rule # "m1_model_gateway"
  BY PolicyAssumption
<1>5. image \subseteq U
  BY <1>3, <1>4 DEF FromImage
<1>6. ASSUME \A i \in image : i.ep = "gateway" => i.provider = NoProvider PROVE Valid(U)
  <2>1. \A d \in C : d.ep = "gateway" => d.provider = NoProvider
    BY <1>6 DEF FromImage
  <2>2. \A d, e \in U : d.ep = e.ep => d.provider = e.provider
    BY <1>2, <1>3, <2>1 DEF FromImage, Valid
  <2>3. \A d \in U : d.provider # NoProvider => d.l7 # "none"
    BY <1>2, <1>3 DEF FromImage, Valid
  <2> QED BY <2>2, <2>3 DEF Valid
<1>7. ASSUME Valid(U) PROVE FromImage(U)
  <2>1. \A d \in U : d.rule \notin {"m1_credential_bindings", "m1_controller"}
    BY <1>2, <1>3 DEF FromImage
  <2>2. \A d \in U : d.provider # NoProvider => \E i \in image : i.ep = d.ep /\ i.provider = d.provider
    BY <1>2, <1>3 DEF FromImage
  <2> HIDE DEF U
  <2> QED BY <1>5, <1>7, <2>1, <2>2 DEF FromImage
<1> HIDE DEF U
<1> QED BY <1>1, <1>2, <1>3, <1>5, <1>6, <1>7 DEF U

(* A refusal that the exceptions of StampNotAmbiguous explain.              *)
LEMMA RejectedOk ==
    ASSUME PolicyInv, Held, UNCHANGED <<gateway, accepted>>, FailsWith("rejected"),
           torn \/ "gateway" \in BoundEndpoints \/ \E i \in image : i.ep = "gateway" /\ i.provider # NoProvider
    PROVE  PolicyInv'
<1>1. ApplyRec(apply) /\ apply' = [apply EXCEPT !.at = "failed", !.why = "rejected"]
  BY DEF PolicyInv, PolicyTypes, FailsWith
<1>2. /\ ApplyRec(apply') /\ apply'.at = "failed" /\ apply'.policy = apply.policy
      /\ apply'.version = apply.version
  BY Zenon, <1>1 DEF ApplyRec
<1>3. apply'.version <= gateway.version
  BY Zenon, <1>2 DEF PolicyInv, ReadCurrent
<1>4. StampNotAmbiguous'
  BY DEF StampNotAmbiguous, BoundEndpoints, Held
<1> QED BY <1>2, <1>3, <1>4, GivesUp

(* The pair a composition or revocation is remembered by.                   *)
LEMMA PairRule == \A r, e, c : <<r, e>> = c => c[1] = r
OBVIOUS

(* A merge replaces the policy and raises the version.                      *)
LEMMA GatewayTakes ==
    ASSUME gateway.version \in Nat \ {0}, apply.version \in Nat, apply.version <= gateway.version, NEW M,
           gateway' = [policy |-> M, version |-> gateway.version + 1, backfilled |-> TRUE]
    PROVE  /\ gateway'.policy = M /\ gateway'.version = gateway.version + 1 /\ gateway'.backfilled
           /\ gateway' \in [policy : {gateway'.policy}, version : Nat \ {0}, backfilled : BOOLEAN]
           /\ apply.version <= gateway'.version
<1>1. gateway'.policy = M
  OBVIOUS
<1>2. gateway'.version = gateway.version + 1
  OBVIOUS
<1>3. gateway'.backfilled
  OBVIOUS
<1>4. gateway' \in [policy : {gateway'.policy}, version : Nat \ {0}, backfilled : BOOLEAN]
  <2>1. gateway.version + 1 \in Nat \ {0}
    OBVIOUS
  <2> QED BY <1>1, <2>1
<1>5. apply.version <= gateway.version + 1
  OBVIOUS
<1> QED BY <1>1, <1>2, <1>3, <1>4, <1>5

(* The rule merged alone: the image's policy is now the sandbox's.          *)
LEMMA BackfilledOk ==
    ASSUME PolicyInv, Held, apply.at = "backfill", UNCHANGED accepted, Goes("read again"),
           NEW M, M = Upsert(Current, GatewayRule), Valid(M),
           gateway'.policy = M, gateway'.backfilled, apply.version <= gateway'.version,
           gateway' \in [policy : {gateway'.policy}, version : Nat \ {0}, backfilled : BOOLEAN]
    PROVE  PolicyInv'
<1>1. /\ image' = image /\ bindings' = bindings /\ composed' = composed /\ revoked' = revoked
      /\ torn' = torn /\ accepted' = accepted /\ image \in Images
  BY Zenon DEF Held, PolicyInv, PolicyTypes
<1>2. apply.at \in Before /\ apply.at \in Early /\ ApplyRec(apply) /\ gateway.version \in Nat \ {0}
  BY Zenon DEF PolicyInv, PolicyTypes, Before, Early
<1>3. /\ ApplyRec(apply') /\ apply'.at = "read again" /\ apply'.policy = apply.policy
      /\ apply'.version = apply.version /\ apply'.why = apply.why
  BY Zenon, <1>2 DEF Goes, ApplyRec, Before, Again
<1>4. gateway'.policy = M /\ gateway'.backfilled
  BY Zenon
<1>5. PolicyTypes'
  BY Zenon, <1>1, <1>3, <1>4 DEF PolicyInv, PolicyTypes
<1>6. Unfilled'
  BY Zenon, <1>4 DEF Unfilled
<1>7. /\ FromImage(M) /\ GatewayRule \subseteq M
      /\ \A d \in Current : d.rule # "m1_model_gateway" => d \in M
      /\ \A d \in M : d \in Current \/ (d.rule = "m1_model_gateway" /\ d.ep = "gateway")
  <2>1. FromImage(Current)
    BY Zenon, <1>2, MergesInto
  <2> QED BY Zenon, <1>1, <2>1, RuleMerged
<1>8. Untouched'
  <2>1. apply.policy # {} => FromImage(apply.policy)
    BY Zenon, <1>2 DEF PolicyInv, Untouched
  <2>2. FromImage(gateway.policy)' /\ (apply'.policy # {} => FromImage(apply.policy)')
    BY Zenon, <1>1, <1>3, <1>4, <1>7, <2>1 DEF FromImage
  <2> QED BY Zenon, <1>1, <1>2, <1>3, <2>2 DEF PolicyInv, Untouched, Moved
<1>9. \A c \in Moved : c[1] # "m1_model_gateway"
  BY Zenon, <1>2 DEF PolicyInv, Planned, Unmerged
<1>10. Planned'
  <2>1. Merged'
    <3>1. \A c \in Moved : c # <<"m1_model_gateway", "gateway">>
      BY Zenon, <1>9, PairRule
    <3> QED BY Zenon, <1>1, <1>4, <1>7, <3>1 DEF Merged, Moved, GatewayRule
  <2> QED BY Zenon, <1>3, <2>1 DEF Planned, Early
<1>11. ReadCurrent'
  BY Zenon, <1>3 DEF ReadCurrent
<1>12. CompositionKept'
  <2> SUFFICES ASSUME ~torn
               PROVE  /\ \A c \in composed : \E d \in M : <<d.rule, d.ep>> = c
                      /\ \A c \in revoked : \A d \in M : <<d.rule, d.ep>> # c
    BY Zenon, <1>1, <1>4 DEF CompositionKept
  <2>1. /\ \A c \in composed : \E d \in gateway.policy : <<d.rule, d.ep>> = c
        /\ \A c \in revoked : \A d \in gateway.policy : <<d.rule, d.ep>> # c
    BY Zenon DEF PolicyInv, PolicyKept, CompositionKept
  <2>2. \/ Current = gateway.policy
        \/ composed = {} /\ revoked = {}
    BY Zenon, <1>2, MergesInto
  <2>3. ASSUME NEW c \in composed PROVE \E d \in M : <<d.rule, d.ep>> = c
    <3>1. PICK d \in Current : <<d.rule, d.ep>> = c
      BY Zenon, <2>1, <2>2
    <3>2. d.rule # "m1_model_gateway"
      BY Zenon, <1>9, <3>1, PairRule DEF Moved
    <3> QED BY Zenon, <1>7, <3>1, <3>2
  <2>4. ASSUME NEW c \in revoked, NEW d \in M PROVE <<d.rule, d.ep>> # c
    <3>1. Current = gateway.policy /\ c[1] # "m1_model_gateway"
      BY Zenon, <1>9, <2>2, <2>4 DEF Moved
    <3>2. CASE d \in Current
      BY Zenon, <2>1, <2>4, <3>1, <3>2
    <3>3. CASE d.rule = "m1_model_gateway"
      BY Zenon, <3>1, <3>3, PairRule
    <3> QED BY Zenon, <1>7, <2>4, <3>2, <3>3
  <2> QED BY Zenon, <2>3, <2>4
<1>13. StampNotAmbiguous'
  BY Zenon, <1>1, <1>3 DEF PolicyInv, CredentialsBound, StampNotAmbiguous, BoundEndpoints
<1>14. ~Applied'
  BY Zenon, <1>3 DEF Applied
<1> QED BY Zenon, <1>5, <1>6, <1>8, <1>10, <1>11, <1>12, <1>13, <1>14
        DEF PolicyInv, CredentialsBound, PolicyKept, BoundOrRefused, RestrictionsKept

(* The backfill merge, with its retries and its failures.                  *)
LEMMA BackfillOk == ASSUME PolicyInv, Backfill PROVE PolicyInv'
<1>1. apply.at = "backfill" /\ Held /\ apply.at \in Before /\ image \in Images
  BY Zenon DEF Backfill, Merge, Before, Early, PolicyInv, PolicyTypes
<1>2. CASE /\ apply' = [apply EXCEPT !.attempt = @ + 1] /\ UNCHANGED <<gateway, accepted>>
  BY <1>1, <1>2, RetryOk
<1>3. ASSUME NEW why, why # "rejected", FailsWith(why), UNCHANGED <<gateway, accepted>> PROVE PolicyInv'
  BY <1>1, <1>3, FailsWithOk
<1>4. CASE /\ Valid(Upsert(Current, GatewayRule)) /\ UNCHANGED accepted /\ Goes("read again")
           /\ gateway' = [policy |-> Upsert(Current, GatewayRule), version |-> gateway.version + 1, backfilled |-> TRUE]
  <2>1. gateway.version \in Nat \ {0} /\ apply.version \in Nat /\ apply.version <= gateway.version
    BY Zenon DEF PolicyInv, PolicyTypes, ApplyRec, ReadCurrent
  <2> QED BY Zenon, <1>1, <1>4, <2>1, GatewayTakes, BackfilledOk
<1>5. CASE /\ ~Valid(Upsert(Current, GatewayRule)) /\ FailsWith("rejected") /\ UNCHANGED <<gateway, accepted>>
  <2>1. \E i \in image : i.ep = "gateway" /\ i.provider # NoProvider
    BY <1>1, <1>5, MergesInto, RuleMerged
  <2> QED BY <1>1, <1>5, <2>1, RejectedOk
<1>6. \/ /\ apply' = [apply EXCEPT !.attempt = @ + 1] /\ UNCHANGED <<gateway, accepted>>
      \/ FailsWith("aborted") /\ UNCHANGED <<gateway, accepted>>
      \/ /\ Valid(Upsert(Current, GatewayRule)) /\ UNCHANGED accepted /\ Goes("read again")
         /\ gateway' = [policy |-> Upsert(Current, GatewayRule), version |-> gateway.version + 1, backfilled |-> TRUE]
      \/ ~Valid(Upsert(Current, GatewayRule)) /\ FailsWith("rejected") /\ UNCHANGED <<gateway, accepted>>
      \/ FailsWith("unreachable") /\ UNCHANGED <<gateway, accepted>>
  BY Zenon DEF Backfill, Merge
<1> QED BY Zenon, <1>2, <1>3, <1>4, <1>5, <1>6

(* The two shapes of a binding merge: what it adds to the stamped rules.    *)
LEMMA PlanShape ==
    ASSUME PolicyInv, apply.at = "merge"
    PROVE  \/ bindings = <<>> /\ apply.version = 0 /\ apply.ops = GatewayRule /\ Unmerged
           \/ /\ gateway.backfilled /\ FromImage(apply.policy) /\ apply.version # 0 /\ ~Conflict(apply.policy)
              /\ \E E \in SUBSET GatewayRule :
                   /\ apply.ops = E \cup CredentialPolicyOps(apply.policy)
                   /\ \/ E = GatewayRule /\ Unmerged
                      \/ E = {} /\ GatewayRule \subseteq apply.policy /\ Merged
<1>1. Plan
  BY DEF PolicyInv, Planned
<1>2. apply.policy # {} => gateway.backfilled /\ FromImage(apply.policy)
  BY DEF PolicyInv, Unfilled, Untouched, Before
<1>3. /\ GatewayRule \in SUBSET GatewayRule /\ {} \in SUBSET GatewayRule
      /\ CredentialPolicyOps(apply.policy) = {} \cup CredentialPolicyOps(apply.policy)
  OBVIOUS
<1> QED BY Zenon, <1>1, <1>2, <1>3 DEF Plan

(* What an accepted binding merge leaves in the policy.                     *)
LEMMA PlanBinds ==
    ASSUME PolicyInv, apply.at = "merge", NEW M, M = Upsert(Current, apply.ops), Valid(M)
    PROVE  /\ \E d \in M : d.rule = "m1_model_gateway" /\ d.ep = "gateway" /\ d.l7 = "any"
           /\ \A ep \in BoundEndpoints :
                /\ \E d \in M : d.ep = ep
                /\ \A d \in M : d.ep = ep => d.provider = ProviderOf(ep) /\ d.l7 # "none"
           /\ \A i \in image : \E d \in M : d.rule = i.rule /\ d.ep = i.ep /\ (i.l7 # "none" => d.l7 = i.l7)
           /\ \A d \in M : d.rule # "m1_controller"
<1> DEFINE g == Declares("m1_model_gateway", "gateway", NoProvider, "any")
<1>1. image \in Images /\ bindings \in BindingTables /\ apply.at \in Before
  BY DEF PolicyInv, PolicyTypes, Before
<1>2. FromImage(Current) /\ (gateway.backfilled => Current = gateway.policy)
  BY <1>1, MergesInto
<1>3. /\ GatewayRule = {g} /\ g.rule = "m1_model_gateway" /\ g.ep = "gateway" /\ g.l7 = "any"
  BY DEF GatewayRule, Declares
<1> HIDE DEF g
<1>4. CASE bindings = <<>> /\ apply.ops = GatewayRule
  <2>1. BoundEndpoints = {}
    BY <1>4 DEF BoundEndpoints
  <2>2. /\ GatewayRule \subseteq M /\ image \subseteq M
        /\ \A d \in M : d \in Current \/ d.rule = "m1_model_gateway"
    BY <1>1, <1>2, <1>4, RuleMerged
  <2>3. \A d \in M : d.rule # "m1_controller"
    BY <1>2, <2>2 DEF FromImage
  <2>4. \A i \in image : \E d \in M : d.rule = i.rule /\ d.ep = i.ep /\ (i.l7 # "none" => d.l7 = i.l7)
    BY <2>2
  <2> QED BY <1>3, <2>1, <2>2, <2>3, <2>4
<1>5. ASSUME gateway.backfilled, FromImage(apply.policy), ~Conflict(apply.policy), NEW E \in SUBSET GatewayRule,
             apply.ops = E \cup CredentialPolicyOps(apply.policy),
             \/ E = GatewayRule
             \/ GatewayRule \subseteq apply.policy /\ GatewayRule \subseteq gateway.policy /\ E = {}
      PROVE  /\ \E d \in M : d.rule = "m1_model_gateway" /\ d.ep = "gateway" /\ d.l7 = "any"
             /\ \A ep \in BoundEndpoints :
                  /\ \E d \in M : d.ep = ep
                  /\ \A d \in M : d.ep = ep => d.provider = ProviderOf(ep) /\ d.l7 # "none"
             /\ \A i \in image : \E d \in M : d.rule = i.rule /\ d.ep = i.ep /\ (i.l7 # "none" => d.l7 = i.l7)
             /\ \A d \in M : d.rule # "m1_controller"
  <2>1. M = Upsert(Current, E \cup CredentialPolicyOps(apply.policy)) /\ image \subseteq Current
    BY <1>2, <1>5 DEF FromImage
  <2>2. /\ \A ep \in BoundEndpoints :
             /\ \E d \in M : d.ep = ep
             /\ \A d \in M : d.ep = ep => d.provider = ProviderOf(ep) /\ d.l7 # "none"
        /\ \A i \in image : \E d \in M : d.rule = i.rule /\ d.ep = i.ep /\ (i.l7 # "none" => d.l7 = i.l7)
    <3>1. E \subseteq GatewayRule /\ Valid(Upsert(Current, E \cup CredentialPolicyOps(apply.policy)))
      BY <1>5, <2>1
    <3>2. FromImage(apply.policy) /\ ~Conflict(apply.policy) /\ image \subseteq Current
      BY <1>5, <2>1
    <3> DEFINE N == Upsert(Current, E \cup CredentialPolicyOps(apply.policy))
    <3>3. /\ \A ep \in BoundEndpoints :
               /\ \E d \in N : d.ep = ep
               /\ \A d \in N : d.ep = ep => d.provider = ProviderOf(ep) /\ d.l7 # "none"
          /\ \A i \in image : \E d \in N : d.rule = i.rule /\ d.ep = i.ep /\ (i.l7 # "none" => d.l7 = i.l7)
      BY Zenon, <1>1, <3>1, <3>2, MergeBinds
    <3> QED BY Zenon, <2>1, <3>3
  <2>3. \E d \in M : d.rule = "m1_model_gateway" /\ d.ep = "gateway" /\ d.l7 = "any"
    <3>1. CASE E = GatewayRule
      <4>1. g \in M
        BY <1>3, <2>1, <3>1 DEF Upsert
      <4> QED BY <1>3, <4>1
    <3>2. CASE GatewayRule \subseteq apply.policy /\ GatewayRule \subseteq gateway.policy /\ E = {}
      <4>1. g \in apply.policy /\ g \in Current
        BY <1>2, <1>3, <1>5, <3>2
      <4>2. \E x \in M : x = g \/ x = Stamp(g)
        <5>1. g.rule # "m1_credential_bindings" /\ \A o \in E : o.rule # g.rule
          BY <1>3, <3>2
        <5>2. \E x \in Upsert(Current, E \cup CredentialPolicyOps(apply.policy)) : x = g \/ x = Stamp(g)
          <6>1. ASSUME NEW P, NEW G, NEW d \in P, d \in G, d.rule # "m1_credential_bindings", \A o \in E : o.rule # d.rule
                PROVE  \E x \in Upsert(G, E \cup CredentialPolicyOps(P)) : x = d \/ x = Stamp(d)
            BY Zenon, <1>1, <6>1, MergeKeeps
          <6> QED BY <4>1, <5>1, <6>1
        <5> QED BY <2>1, <5>2
      <4>3. Stamp(g).rule = g.rule /\ Stamp(g).ep = g.ep /\ Stamp(g).l7 = g.l7
        BY <1>1, <1>3, Stamped
      <4> QED BY <1>3, <4>2, <4>3
    <3> QED BY Zenon, <1>5, <3>1, <3>2
  <2>4. ASSUME NEW d \in M PROVE d.rule # "m1_controller"
    <3>1. CASE d \in Current
      BY <1>2, <3>1 DEF FromImage
    <3>2. CASE d \in E
      BY <1>3, <3>2
    <3>3. CASE d \in CredentialPolicyOps(apply.policy)
      <4>1. CASE \E e \in apply.policy : d = Stamp(e)
        BY <1>1, <1>5, <4>1, Stamped DEF FromImage
      <4>2. CASE d.rule = "m1_credential_bindings"
        BY <4>2
      <4> QED BY <3>3, <4>1, <4>2, OpsSent
    <3> QED BY <2>1, <2>4, <3>1, <3>2, <3>3 DEF Upsert
  <2> QED BY <2>2, <2>3, <2>4
<1> QED BY Zenon, <1>4, <1>5, PlanShape DEF Merged

(* A merge pinned to the version that was read takes nothing of the         *)
(* gateway's away, and gives nothing back that was revoked.                 *)
LEMMA PlanKeeps ==
    ASSUME PolicyInv, apply.at = "merge", ~torn, apply.version \in {0, gateway.version},
           NEW M, M = Upsert(Current, apply.ops)
    PROVE  /\ \A c \in composed : \E d \in M : <<d.rule, d.ep>> = c
           /\ \A c \in revoked : \A d \in M : <<d.rule, d.ep>> # c
<1>1. image \in Images /\ bindings \in BindingTables /\ apply.at \in Before
  BY DEF PolicyInv, PolicyTypes, Before
<1>2. /\ FromImage(Current) /\ (gateway.backfilled => Current = gateway.policy)
      /\ ~gateway.backfilled => composed = {} /\ revoked = {}
  BY <1>1, MergesInto
<1>3. /\ \A c \in composed : \E d \in gateway.policy : <<d.rule, d.ep>> = c
      /\ \A c \in revoked : \A d \in gateway.policy : <<d.rule, d.ep>> # c
  BY DEF PolicyInv, PolicyKept, CompositionKept
<1>4. /\ \A c \in composed : \E d \in Current : <<d.rule, d.ep>> = c
      /\ \A c \in revoked : \A d \in Current : <<d.rule, d.ep>> # c
  BY <1>2, <1>3
<1>5. \A c \in Moved : c[1] # "m1_credential_bindings"
  BY <1>1 DEF PolicyInv, Untouched
<1>6. \A o \in GatewayRule : o.rule = "m1_model_gateway"
  BY DEF GatewayRule, Declares
<1>7. CASE apply.ops = GatewayRule /\ Unmerged
  <2>1. /\ \A d \in Current : d.rule # "m1_model_gateway" => d \in M
        /\ \A d \in M : d \in Current \/ d.rule = "m1_model_gateway"
    BY <1>1, <1>2, <1>7, RuleMerged
  <2>2. \A c \in Moved : c[1] # "m1_model_gateway"
    BY <1>7 DEF Unmerged
  <2>3. ASSUME NEW c \in composed PROVE \E d \in M : <<d.rule, d.ep>> = c
    <3>1. PICK d \in Current : <<d.rule, d.ep>> = c
      BY <1>4
    <3>2. d.rule # "m1_model_gateway"
      BY <2>2, <3>1, PairRule DEF Moved
    <3> QED BY <2>1, <3>1, <3>2
  <2>4. ASSUME NEW c \in revoked, NEW d \in M PROVE <<d.rule, d.ep>> # c
    <3>1. c[1] # "m1_model_gateway"
      BY <2>2, <2>4 DEF Moved
    <3>2. CASE d \in Current
      BY <1>4, <2>4, <3>2
    <3>3. CASE d.rule = "m1_model_gateway"
      BY <3>1, <3>3, PairRule
    <3> QED BY <2>1, <2>4, <3>2, <3>3
  <2> QED BY <2>3, <2>4
<1>8. ASSUME gateway.backfilled, apply.version # 0, NEW E \in SUBSET GatewayRule,
             apply.ops = E \cup CredentialPolicyOps(apply.policy), E = {} \/ Unmerged
      PROVE  /\ \A c \in composed : \E d \in M : <<d.rule, d.ep>> = c
             /\ \A c \in revoked : \A d \in M : <<d.rule, d.ep>> # c
  <2>1. apply.policy = Current
    BY <1>2, <1>8 DEF PolicyInv, ReadCurrent
  <2>2. M = Upsert(Current, E \cup CredentialPolicyOps(Current))
    BY <1>8, <2>1
  <2>3. ASSUME NEW c \in Moved, NEW o \in E PROVE o.rule # c[1]
    BY <1>6, <1>8, <2>3 DEF Unmerged
  <2>4. ASSUME NEW c \in composed PROVE \E d \in M : <<d.rule, d.ep>> = c
    <3>1. PICK d \in Current : <<d.rule, d.ep>> = c
      BY <1>4, <2>4
    <3>2. c[1] = d.rule /\ c \in Moved
      BY <2>4, <3>1, PairRule DEF Moved
    <3>3. d.rule # "m1_credential_bindings" /\ \A o \in E : o.rule # d.rule
      BY <1>5, <2>3, <3>2
    <3>4. PICK x \in Upsert(Current, E \cup CredentialPolicyOps(Current)) : x = d \/ x = Stamp(d)
      BY Zenon, <1>1, <3>3, MergeKeeps
    <3>5. x.rule = d.rule /\ x.ep = d.ep
      BY <1>1, <3>4, Stamped
    <3> QED BY <2>2, <3>1, <3>4, <3>5
  <2>5. ASSUME NEW c \in revoked, NEW d \in M PROVE <<d.rule, d.ep>> # c
    <3>1. c \in Moved
      BY <2>5 DEF Moved
    <3>2. CASE d \in Current
      BY <1>4, <2>5, <3>2
    <3>3. CASE d \in E
      BY <2>3, <3>1, <3>3, PairRule
    <3>4. CASE d \in CredentialPolicyOps(Current)
      <4>1. ASSUME NEW e \in Current, d = Stamp(e) PROVE <<d.rule, d.ep>> # c
        <5>1. d.rule = e.rule /\ d.ep = e.ep
          BY <1>1, <4>1, Stamped
        <5> QED BY <1>4, <2>5, <5>1
      <4>2. CASE d.rule = "m1_credential_bindings"
        BY <1>5, <3>1, <4>2, PairRule
      <4> QED BY <3>4, <4>1, <4>2, OpsSent
    <3> QED BY <2>2, <2>5, <3>2, <3>3, <3>4 DEF Upsert
  <2> QED BY <2>4, <2>5
<1> QED BY Zenon, <1>7, <1>8, PlanShape

(* The gateway refuses the merge only for what StampNotAmbiguous names.     *)
LEMMA PlanValid ==
    ASSUME PolicyInv, apply.at = "merge", ~torn, apply.version \in {0, gateway.version},
           "gateway" \notin BoundEndpoints, \A i \in image : i.ep = "gateway" => i.provider = NoProvider
    PROVE  Valid(Upsert(Current, apply.ops))
<1>1. image \in Images /\ bindings \in BindingTables /\ apply.at \in Before
  BY DEF PolicyInv, PolicyTypes, Before
<1>2. FromImage(Current) /\ (gateway.backfilled => Current = gateway.policy)
  BY <1>1, MergesInto
<1>3. CASE apply.ops = GatewayRule
  BY <1>1, <1>2, <1>3, RuleMerged
<1>4. ASSUME gateway.backfilled, apply.version # 0, ~Conflict(apply.policy), NEW E \in SUBSET GatewayRule,
             apply.ops = E \cup CredentialPolicyOps(apply.policy)
      PROVE  Valid(Upsert(Current, apply.ops))
  <2>1. apply.policy = Current
    BY <1>2, <1>4 DEF PolicyInv, ReadCurrent
  <2>2. Valid(Upsert(Current, E \cup CredentialPolicyOps(Current)))
    <3>1. E \subseteq GatewayRule /\ ~Conflict(Current)
      BY <1>4, <2>1
    <3> QED BY <1>1, <1>2, <3>1, StampValid
  <2> QED BY <1>4, <2>1, <2>2
<1> QED BY Zenon, <1>3, <1>4, PlanShape

(* The binding merge accepted, with what it left in the policy.             *)
LEMMA BoundOk ==
    ASSUME PolicyInv, Held, apply.at = "merge", Goes("deny"), NEW M, accepted' = M, gateway'.policy = M,
           M = Upsert(Current, apply.ops), Valid(M), gateway'.backfilled, apply.version <= gateway'.version,
           gateway' \in [policy : {gateway'.policy}, version : Nat \ {0}, backfilled : BOOLEAN],
           ~torn => /\ \A c \in composed : \E d \in M : <<d.rule, d.ep>> = c
                    /\ \A c \in revoked : \A d \in M : <<d.rule, d.ep>> # c
    PROVE  PolicyInv'
<1>1. /\ image' = image /\ bindings' = bindings /\ composed' = composed /\ revoked' = revoked
      /\ torn' = torn /\ ApplyRec(apply)
  BY DEF Held, PolicyInv, PolicyTypes
<1>2. /\ ApplyRec(apply') /\ apply'.at = "deny" /\ apply'.policy = apply.policy
      /\ apply'.version = apply.version /\ apply'.why = apply.why
  BY <1>1 DEF Goes, ApplyRec
<1>3. PolicyTypes'
  BY <1>1, <1>2 DEF PolicyInv, PolicyTypes
<1>4. Unfilled'
  BY DEF Unfilled
<1>5. /\ \E d \in M : d.rule = "m1_model_gateway" /\ d.ep = "gateway" /\ d.l7 = "any"
      /\ \A ep \in BoundEndpoints :
           /\ \E d \in M : d.ep = ep
           /\ \A d \in M : d.ep = ep => d.provider = ProviderOf(ep) /\ d.l7 # "none"
      /\ \A i \in image : \E d \in M : d.rule = i.rule /\ d.ep = i.ep /\ (i.l7 # "none" => d.l7 = i.l7)
      /\ \A d \in M : d.rule # "m1_controller"
  BY PlanBinds
<1>6. Untouched'
  BY <1>1, <1>2, <1>5 DEF PolicyInv, Untouched, Moved, Before, Early, Again
<1>7. Planned'
  BY <1>2 DEF Planned, Early, Again
<1>8. ReadCurrent'
  BY <1>2 DEF ReadCurrent
<1>9. BoundOrRefused'
  <2>1. BoundEndpoints' = BoundEndpoints /\ \A ep : ProviderOf(ep)' = ProviderOf(ep)
    BY <1>1 DEF BoundEndpoints, ProviderOf
  <2> QED BY <1>5, <2>1 DEF BoundOrRefused
<1>10. StampNotAmbiguous'
  BY <1>1, <1>2 DEF PolicyInv, CredentialsBound, StampNotAmbiguous, BoundEndpoints
<1>11. RestrictionsKept'
  BY <1>1, <1>5 DEF RestrictionsKept
<1>12. CompositionKept'
  BY <1>1 DEF CompositionKept
<1> QED BY <1>3, <1>4, <1>6, <1>7, <1>8, <1>9, <1>10, <1>11, <1>12 DEF PolicyInv, CredentialsBound, PolicyKept

(* The binding merge, with its retries and its failures.                   *)
LEMMA BindOk == ASSUME PolicyInv, Bind PROVE PolicyInv'
<1> DEFINE M == Upsert(Current, apply.ops)
<1>1. /\ apply.at = "merge" /\ Held /\ apply.at \in Before
      /\ gateway.version \in Nat \ {0} /\ apply.version \in Nat /\ apply.version <= gateway.version
      /\ gateway \in [policy : {gateway.policy}, version : Nat \ {0}, backfilled : BOOLEAN]
  BY Zenon DEF Bind, Merge, Before, PolicyInv, PolicyTypes, ApplyRec, ReadCurrent
<1>2. CASE /\ apply.ops = {} /\ Goes("deny") /\ accepted' = gateway.policy /\ UNCHANGED gateway
  <2>1. GatewayRule # {}
    BY DEF GatewayRule
  <2>2. gateway.backfilled
    BY <1>1, <1>2, <2>1, PlanShape
  <2>3. Current = gateway.policy /\ FromImage(Current)
    BY <1>1, <2>2, MergesInto
  <2>4. M = gateway.policy
    BY <1>2, <2>3 DEF Upsert
  <2>5. Valid(M)
    BY <2>3, <2>4 DEF FromImage
  <2>6. ~torn => /\ \A c \in composed : \E d \in M : <<d.rule, d.ep>> = c
                 /\ \A c \in revoked : \A d \in M : <<d.rule, d.ep>> # c
    BY <2>4 DEF PolicyInv, PolicyKept, CompositionKept
  <2>7. /\ accepted' = M /\ gateway'.policy = M /\ gateway'.backfilled /\ apply.version <= gateway'.version
        /\ gateway' \in [policy : {gateway'.policy}, version : Nat \ {0}, backfilled : BOOLEAN]
    BY <1>1, <1>2, <2>2, <2>4
  <2> HIDE DEF M
  <2>8. M = Upsert(Current, apply.ops)
    BY DEF M
  <2> QED BY <1>1, <1>2, <2>5, <2>6, <2>7, <2>8, BoundOk
<1>3. CASE apply' = [apply EXCEPT !.attempt = @ + 1] /\ UNCHANGED <<gateway, accepted>>
  BY <1>1, <1>3, RetryOk
<1>4. ASSUME NEW why, why # "rejected", FailsWith(why), UNCHANGED <<gateway, accepted>> PROVE PolicyInv'
  BY <1>1, <1>4, FailsWithOk
<1>5. CASE /\ Valid(M) /\ apply.version \in {0, gateway.version} /\ accepted' = M /\ Goes("deny")
           /\ gateway' = [policy |-> M, version |-> gateway.version + 1, backfilled |-> TRUE]
  <2> HIDE DEF M
  <2>1. M = Upsert(Current, apply.ops)
    BY DEF M
  <2>2. /\ gateway'.policy = M /\ gateway'.backfilled /\ apply.version <= gateway'.version
        /\ gateway' \in [policy : {gateway'.policy}, version : Nat \ {0}, backfilled : BOOLEAN]
    BY <1>1, <1>5, GatewayTakes
  <2>3. ~torn => /\ \A c \in composed : \E d \in M : <<d.rule, d.ep>> = c
                 /\ \A c \in revoked : \A d \in M : <<d.rule, d.ep>> # c
    BY <1>1, <1>5, <2>1, PlanKeeps
  <2> QED BY <1>1, <1>5, <2>1, <2>2, <2>3, BoundOk
<1>6. CASE /\ ~Valid(M) /\ apply.version \in {0, gateway.version} /\ FailsWith("rejected")
           /\ UNCHANGED <<gateway, accepted>>
  <2>1. torn \/ "gateway" \in BoundEndpoints \/ \E i \in image : i.ep = "gateway" /\ i.provider # NoProvider
    BY <1>1, <1>6, PlanValid
  <2> QED BY <1>1, <1>6, <2>1, RejectedOk
<1>7. \/ apply.ops = {} /\ Goes("deny") /\ accepted' = gateway.policy /\ UNCHANGED gateway
      \/ apply' = [apply EXCEPT !.attempt = @ + 1] /\ UNCHANGED <<gateway, accepted>>
      \/ FailsWith("aborted") /\ UNCHANGED <<gateway, accepted>>
      \/ /\ Valid(M) /\ apply.version \in {0, gateway.version} /\ accepted' = M /\ Goes("deny")
         /\ gateway' = [policy |-> M, version |-> gateway.version + 1, backfilled |-> TRUE]
      \/ /\ ~Valid(M) /\ apply.version \in {0, gateway.version} /\ FailsWith("rejected")
         /\ UNCHANGED <<gateway, accepted>>
      \/ FailsWith("unreachable") /\ UNCHANGED <<gateway, accepted>>
  BY DEF Bind, Merge
<1> QED BY <1>2, <1>3, <1>4, <1>5, <1>6, <1>7

(* The gateway's record with another policy.                                *)
LEMMA GatewayRec ==
    ASSUME gateway \in [policy : {gateway.policy}, version : Nat \ {0}, backfilled : BOOLEAN], NEW N,
           gateway' = [gateway EXCEPT !.policy = N, !.version = @ + 1]
    PROVE  gateway' \in [policy : {gateway'.policy}, version : Nat \ {0}, backfilled : BOOLEAN]
<1> DEFINE v == gateway.version + 1
<1>1. v \in Nat \ {0} /\ gateway' = [gateway EXCEPT !.policy = N, !.version = v]
  OBVIOUS
<1> HIDE DEF v
<1>2. gateway'.policy = N
  BY <1>1
<1> QED BY Zenon, <1>1, <1>2

(* The controller's deny leaves what is bound, composed and revoked.       *)
LEMMA DenyOk == ASSUME PolicyInv, Deny PROVE PolicyInv'
<1> DEFINE deny == Declares("m1_controller", "controller", NoProvider, "any")
           N == Upsert(Current, {deny})
<1>1. /\ apply.at = "deny" /\ Held /\ accepted' = accepted /\ ApplyRec(apply) /\ gateway.version \in Nat \ {0}
      /\ gateway \in [policy : {gateway.policy}, version : Nat \ {0}, backfilled : BOOLEAN]
  BY DEF Deny, PolicyInv, PolicyTypes
<1>2. CASE FailsWith("unreachable") /\ UNCHANGED gateway
  BY <1>1, <1>2, FailsWithOk
<1>3. CASE /\ gateway' = [gateway EXCEPT !.policy = N, !.version = @ + 1] /\ Goes("done")
  <2>1. /\ image' = image /\ bindings' = bindings /\ composed' = composed /\ revoked' = revoked
        /\ torn' = torn /\ gateway.backfilled
    BY <1>1 DEF Held, PolicyInv, Unfilled, PolicyTypes
  <2>2. /\ ApplyRec(apply') /\ apply'.at = "done" /\ apply'.policy = apply.policy
        /\ apply'.version = apply.version /\ apply'.why = apply.why
    BY <1>1, <1>3 DEF Goes, ApplyRec
  <2>3. N = {d \in gateway.policy : d.rule # "m1_controller"} \cup {deny} /\ deny.rule = "m1_controller"
    BY <2>1 DEF Current, Upsert, Declares
  <2> HIDE DEF N, deny
  <2>4. gateway'.policy = N /\ gateway'.version = gateway.version + 1 /\ gateway'.backfilled = gateway.backfilled
    BY <1>1, <1>3
  <2>5. gateway' \in [policy : {gateway'.policy}, version : Nat \ {0}, backfilled : BOOLEAN]
    BY Zenon, <1>1, <1>3, GatewayRec
  <2>6. PolicyTypes'
    BY <2>1, <2>2, <2>5 DEF PolicyInv, PolicyTypes
  <2>7. Unfilled' /\ Planned'
    BY <2>1, <2>2, <2>4 DEF Unfilled, Planned, Early, Again
  <2>8. Untouched'
    BY Zenon, <2>1, <2>2 DEF PolicyInv, Untouched, Moved, Before, Early, Again
  <2>9. ReadCurrent'
    <3>1. apply.version \in Nat /\ apply.version <= gateway.version
      BY Zenon DEF PolicyInv, PolicyTypes, ApplyRec, ReadCurrent
    <3>2. apply'.version <= gateway'.version
      BY <1>1, <2>2, <2>4, <3>1
    <3> QED BY <2>2, <3>2 DEF ReadCurrent
  <2>10. CompositionKept'
    <3>1. \A c \in Moved : c[1] # "m1_controller"
      BY DEF PolicyInv, Untouched
    <3> SUFFICES ASSUME ~torn
                 PROVE  /\ \A c \in composed : \E d \in N : <<d.rule, d.ep>> = c
                        /\ \A c \in revoked : \A d \in N : <<d.rule, d.ep>> # c
      BY <2>1, <2>4 DEF CompositionKept
    <3>2. /\ \A c \in composed : \E d \in gateway.policy : <<d.rule, d.ep>> = c
          /\ \A c \in revoked : \A d \in gateway.policy : <<d.rule, d.ep>> # c
      BY DEF PolicyInv, PolicyKept, CompositionKept
    <3>3. ASSUME NEW c \in composed PROVE \E d \in N : <<d.rule, d.ep>> = c
      <4>1. PICK d \in gateway.policy : <<d.rule, d.ep>> = c
        BY <3>2
      <4>2. d.rule # "m1_controller"
        BY <3>1, <4>1, PairRule DEF Moved
      <4> QED BY <2>3, <4>1, <4>2
    <3>4. ASSUME NEW c \in revoked, NEW d \in N PROVE <<d.rule, d.ep>> # c
      <4>1. CASE d \in gateway.policy
        BY <3>2, <3>4, <4>1
      <4>2. CASE d.rule = "m1_controller"
        BY <3>1, <3>4, <4>2, PairRule DEF Moved
      <4> QED BY <2>3, <3>4, <4>1, <4>2
    <3> QED BY <3>3, <3>4
  <2>11. Applied
    BY <1>1 DEF Applied
  <2>12. BoundOrRefused'
    <3>1. BoundEndpoints' = BoundEndpoints /\ \A ep : ProviderOf(ep)' = ProviderOf(ep)
      BY <2>1 DEF BoundEndpoints, ProviderOf
    <3> QED BY <1>1, <2>11, <3>1 DEF PolicyInv, CredentialsBound, BoundOrRefused
  <2>13. StampNotAmbiguous'
    BY <2>1, <2>2 DEF PolicyInv, CredentialsBound, StampNotAmbiguous, BoundEndpoints
  <2>14. RestrictionsKept'
    BY <1>1, <2>1, <2>11 DEF PolicyInv, PolicyKept, RestrictionsKept
  <2> QED BY <2>6, <2>7, <2>8, <2>9, <2>10, <2>12, <2>13, <2>14 DEF PolicyInv, CredentialsBound, PolicyKept
<1> QED BY <1>2, <1>3 DEF Deny

(* The gateway moves by itself.                                             *)
LEMMA MovedOk ==
    ASSUME PolicyInv, NEW N, GatewayMoves(N), Unmerged => Unmerged', Merged => Merged',
           Unfilled', Untouched', CompositionKept'
    PROVE  PolicyInv'
<1>1. /\ image' = image /\ bindings' = bindings /\ apply' = apply /\ accepted' = accepted
      /\ torn' = (torn \/ apply.at \in {"version", "version again"}) /\ torn \in BOOLEAN
      /\ gateway' = [gateway EXCEPT !.policy = N, !.version = @ + 1]
      /\ gateway \in [policy : {gateway.policy}, version : Nat \ {0}, backfilled : BOOLEAN]
  BY Zenon DEF GatewayMoves, PolicyInv, PolicyTypes
<1>2. gateway'.version = gateway.version + 1 /\ gateway.version \in Nat \ {0}
  BY Zenon, <1>1
<1>3. gateway' \in [policy : {gateway'.policy}, version : Nat \ {0}, backfilled : BOOLEAN]
  BY Zenon, <1>1, GatewayRec
<1>4. torn' \in BOOLEAN /\ (torn => torn') /\ (apply.at \in {"version", "version again"} => torn')
  BY Zenon, <1>1
<1>5. PolicyTypes'
  BY Zenon, <1>1, <1>3, <1>4 DEF PolicyInv, PolicyTypes
<1>6. Planned'
  <2>1. /\ CredentialPolicyOps(apply.policy)' = CredentialPolicyOps(apply.policy)
        /\ Conflict(apply.policy)' = Conflict(apply.policy) /\ GatewayRule' = GatewayRule
    <3>1. apply' = apply /\ bindings' = bindings
      BY Zenon, <1>1
    <3> QED BY <3>1 DEF CredentialPolicyOps, Conflict, BoundEndpoints, ProviderOf, Stamp, Bare, GatewayRule
  <2>2. apply' = apply /\ bindings' = bindings
    BY Zenon, <1>1
  <2>3. apply.at = "merge" => Plan'
    BY <2>1, <2>2 DEF PolicyInv, Planned, Plan
  <2> QED BY Zenon, <2>1, <2>2, <2>3 DEF PolicyInv, Planned
<1>7. ReadCurrent'
  <2>1. apply.version \in Nat /\ apply.version <= gateway.version
    BY Zenon DEF PolicyInv, PolicyTypes, ApplyRec, ReadCurrent
  <2>2. apply.version <= gateway'.version /\ apply.version # gateway'.version
    BY <1>2, <2>1
  <2> QED BY Zenon, <1>1, <1>4, <2>2 DEF ReadCurrent
<1>8. CredentialsBound'
  <2>1. BoundEndpoints' = BoundEndpoints /\ \A ep : ProviderOf(ep)' = ProviderOf(ep)
    BY Zenon, <1>1 DEF BoundEndpoints, ProviderOf
  <2>2. BoundOrRefused'
    BY Zenon, <1>1, <2>1 DEF PolicyInv, CredentialsBound, BoundOrRefused, Applied
  <2>3. StampNotAmbiguous'
    BY Zenon, <1>1, <1>4, <2>1 DEF PolicyInv, CredentialsBound, StampNotAmbiguous
  <2> QED BY <2>2, <2>3 DEF CredentialsBound
<1>9. RestrictionsKept'
  BY Zenon, <1>1 DEF PolicyInv, PolicyKept, RestrictionsKept, Applied
<1> QED BY <1>5, <1>6, <1>7, <1>8, <1>9 DEF PolicyInv, PolicyKept

(* The gateway composes a provider rule at any moment.                     *)
LEMMA ComposesOk == ASSUME PolicyInv, Composes PROVE PolicyInv'
<1> DEFINE P == gateway.policy
<1>1. PICK ep \in ComposedEndpoints, rule \in {"composed"} \cup {d.rule : d \in P} :
        /\ gateway.backfilled /\ \A d \in P : d.rule = rule => d.ep # ep
        /\ LET known == {d \in P : d.ep = ep}
           IN GatewayMoves(P \cup {Declares(rule, ep, IF known = {} THEN NoProvider
                                                      ELSE (CHOOSE d \in known : TRUE).provider, "narrow")})
        /\ composed' = composed \cup {<<rule, ep>>} /\ revoked' = revoked \ {<<rule, ep>>}
  BY Zenon DEF Composes
<1> DEFINE known == {d \in P : d.ep = ep}
           prov == IF known = {} THEN NoProvider ELSE (CHOOSE d \in known : TRUE).provider
           new == Declares(rule, ep, prov, "narrow")
           N == P \cup {new}
<1>2. \A d \in P : d.ep = ep => \E k \in P : k.ep = ep /\ k.provider = prov
  BY Zenon
<1>3. prov # NoProvider => \E k \in P : k.ep = ep /\ k.provider = prov
  BY Zenon
<1>4. new.rule = rule /\ new.ep = ep /\ new.provider = prov /\ new.l7 = "narrow"
  BY DEF Declares
<1>5. GatewayMoves(N)
  BY <1>1
<1> HIDE DEF known, prov, new
<1>6. /\ image' = image /\ bindings' = bindings /\ apply' = apply /\ apply.at \notin {"done", "failed"}
      /\ gateway' = [gateway EXCEPT !.policy = N, !.version = @ + 1]
      /\ gateway \in [policy : {gateway.policy}, version : Nat \ {0}, backfilled : BOOLEAN]
  BY Zenon, <1>5 DEF GatewayMoves, PolicyInv, PolicyTypes
<1>7. gateway'.policy = N /\ gateway'.backfilled = gateway.backfilled
  BY <1>6
<1>8. Moved' \subseteq Moved \cup {<<rule, ep>>}
  BY <1>1 DEF Moved
<1>9. \A c \in Moved' : c \in Moved \/ (c = <<rule, ep>> /\ c[1] = rule)
  BY <1>8, PairRule
<1>10. apply.at \in Before => FromImage(P)
  BY <1>1 DEF PolicyInv, Untouched
<1>11. rule = "composed" \/ \E d \in P : d.rule = rule
  BY <1>1
<1>12. apply.at \in Before => FromImage(N)
  <2> SUFFICES ASSUME FromImage(P) PROVE FromImage(N)
    BY <1>10
  <2>1. \A d, e \in N : d.ep = e.ep => d.provider = e.provider
    BY <1>2, <1>4 DEF FromImage, Valid
  <2>2. \A d \in N : d.provider # NoProvider => d.l7 # "none"
    BY <1>4 DEF FromImage, Valid
  <2>3. \A d \in N : d.rule \notin {"m1_credential_bindings", "m1_controller"}
    BY <1>4, <1>11 DEF FromImage
  <2>4. \A d \in N : d.provider # NoProvider => \E i \in image : i.ep = d.ep /\ i.provider = d.provider
    BY <1>3, <1>4 DEF FromImage
  <2> QED BY <2>1, <2>2, <2>3, <2>4 DEF FromImage, Valid
<1>13. rule # "m1_controller"
  <2>1. apply.at \in Before \/ apply.at = "deny"
    BY <1>6 DEF PolicyInv, PolicyTypes, ApplyRec
  <2>2. \A d \in P : d.rule # "m1_controller"
    BY <1>10, <2>1 DEF PolicyInv, Untouched, FromImage
  <2> QED BY <1>11, <2>2
<1>14. Unfilled'
  BY <1>1, <1>7 DEF Unfilled
<1>15. Untouched'
  <2>1. \A c \in Moved' : c[1] # "m1_controller"
    BY <1>9, <1>13 DEF PolicyInv, Untouched
  <2>2. apply.at = "deny" => \A d \in N : d.rule # "m1_controller"
    BY <1>4, <1>13 DEF PolicyInv, Untouched
  <2>3. apply.at \in Before => FromImage(gateway.policy)'
    BY <1>6, <1>7, <1>12 DEF FromImage
  <2>4. apply.at \in Before => (apply.policy # {} => FromImage(apply.policy)')
    BY <1>6 DEF PolicyInv, Untouched, FromImage
  <2>5. ASSUME apply.at \in Before, NEW c \in Moved'
        PROVE  c[1] # "m1_credential_bindings" /\ \A i \in image : c # <<i.rule, i.ep>>
    <3>1. CASE c \in Moved
      BY <2>5, <3>1 DEF PolicyInv, Untouched
    <3>2. CASE c = <<rule, ep>> /\ c[1] = rule
      <4>1. FromImage(P)
        BY <1>10, <2>5
      <4>2. rule # "m1_credential_bindings"
        BY <1>11, <4>1 DEF FromImage
      <4>3. \A i \in image : <<i.rule, i.ep>> # <<rule, ep>>
        BY <1>1, <4>1 DEF FromImage
      <4> QED BY <3>2, <4>2, <4>3
    <3> QED BY <1>9, <2>5, <3>1, <3>2
  <2> QED BY <1>6, <1>7, <2>1, <2>2, <2>3, <2>4, <2>5 DEF Untouched
<1>16. ASSUME Unmerged PROVE Unmerged'
  <2>1. rule # "m1_model_gateway"
    BY <1>11, <1>16 DEF Unmerged
  <2> QED BY <1>4, <1>7, <1>9, <1>16, <2>1 DEF Unmerged
<1>17. ASSUME Merged PROVE Merged'
  <2> DEFINE g == Declares("m1_model_gateway", "gateway", NoProvider, "any")
  <2>1. g \in P /\ g.rule = "m1_model_gateway" /\ g.ep = "gateway"
    BY <1>17 DEF Merged, GatewayRule, Declares
  <2> HIDE DEF g
  <2>2. <<rule, ep>> # <<"m1_model_gateway", "gateway">>
    BY <1>1, <2>1
  <2>3. \A c \in Moved' : c # <<"m1_model_gateway", "gateway">>
    BY <1>9, <1>17, <2>2 DEF Merged
  <2> QED BY <1>7, <1>17, <2>3 DEF Merged, GatewayRule
<1>18. CompositionKept'
  <2>1. torn => torn'
    BY Zenon, <1>5 DEF GatewayMoves
  <2>2. ASSUME ~torn'
        PROVE  /\ \A c \in composed' : \E d \in N : <<d.rule, d.ep>> = c
               /\ \A c \in revoked' : \A d \in N : <<d.rule, d.ep>> # c
    <3>1. /\ \A c \in composed : \E d \in P : <<d.rule, d.ep>> = c
          /\ \A c \in revoked : \A d \in P : <<d.rule, d.ep>> # c
      BY <2>1, <2>2 DEF PolicyInv, PolicyKept, CompositionKept
    <3> QED BY <1>1, <1>4, <3>1
  <2> QED BY <1>7, <2>2 DEF CompositionKept
<1> QED BY <1>5, <1>14, <1>15, <1>16, <1>17, <1>18, MovedOk

(* The gateway revokes what it composed at any moment.                     *)
LEMMA RevokesOk == ASSUME PolicyInv, Revokes PROVE PolicyInv'
<1> DEFINE P == gateway.policy
<1>1. PICK c \in composed :
        /\ GatewayMoves({d \in P : <<d.rule, d.ep>> # c})
        /\ composed' = composed \ {c} /\ revoked' = revoked \cup {c}
  BY Zenon DEF Revokes
<1> DEFINE N == {d \in P : <<d.rule, d.ep>> # c}
<1>2. /\ image' = image /\ bindings' = bindings /\ apply' = apply
      /\ gateway' = [gateway EXCEPT !.policy = N, !.version = @ + 1]
      /\ gateway \in [policy : {gateway.policy}, version : Nat \ {0}, backfilled : BOOLEAN]
  BY Zenon, <1>1 DEF GatewayMoves, PolicyInv, PolicyTypes
<1>3. gateway'.policy = N /\ gateway'.backfilled = gateway.backfilled
  BY <1>2
<1>4. Moved' = Moved /\ c \in Moved
  BY <1>1 DEF Moved
<1>5. N \subseteq P
  OBVIOUS
<1>6. gateway.backfilled
  BY <1>1 DEF PolicyInv, Unfilled
<1>7. apply.at \in Before => FromImage(N)
  <2> SUFFICES ASSUME apply.at \in Before PROVE FromImage(N)
    OBVIOUS
  <2>1. FromImage(P) /\ \A i \in image : c # <<i.rule, i.ep>>
    BY <1>4, <1>6 DEF PolicyInv, Untouched
  <2>2. image \subseteq N
    BY <2>1 DEF FromImage
  <2> HIDE DEF N
  <2> QED BY <1>5, <2>1, <2>2 DEF FromImage, Valid
<1>8. Unfilled'
  BY <1>3, <1>6 DEF Unfilled
<1>9. Untouched'
  <2>1. apply.at \in Before => FromImage(gateway.policy)'
    BY <1>2, <1>3, <1>7 DEF FromImage
  <2>2. apply.at \in Before => (apply.policy # {} => FromImage(apply.policy)')
    BY <1>2 DEF PolicyInv, Untouched, FromImage
  <2>3. apply.at = "deny" => \A d \in N : d.rule # "m1_controller"
    BY <1>5 DEF PolicyInv, Untouched
  <2> HIDE DEF N
  <2> QED BY <1>2, <1>3, <1>4, <2>1, <2>2, <2>3 DEF PolicyInv, Untouched
<1>10. ASSUME Unmerged PROVE Unmerged'
  BY <1>3, <1>4, <1>5, <1>10 DEF Unmerged
<1>11. ASSUME Merged PROVE Merged'
  <2> DEFINE g == Declares("m1_model_gateway", "gateway", NoProvider, "any")
  <2>1. g \in P /\ g.rule = "m1_model_gateway" /\ g.ep = "gateway" /\ GatewayRule = {g}
    BY <1>11 DEF Merged, GatewayRule, Declares
  <2>2. GatewayRule' = GatewayRule
    BY DEF GatewayRule
  <2> HIDE DEF g
  <2>3. c # <<"m1_model_gateway", "gateway">>
    BY <1>4, <1>11 DEF Merged
  <2>4. g \in N
    BY <2>1, <2>3
  <2> QED BY <1>3, <1>4, <1>6, <1>11, <2>1, <2>2, <2>4 DEF Merged
<1>12. CompositionKept'
  <2>1. torn => torn'
    BY Zenon, <1>1 DEF GatewayMoves
  <2>2. ASSUME ~torn'
        PROVE  /\ \A e \in composed' : \E d \in N : <<d.rule, d.ep>> = e
               /\ \A e \in revoked' : \A d \in N : <<d.rule, d.ep>> # e
    <3>1. /\ \A e \in composed : \E d \in P : <<d.rule, d.ep>> = e
          /\ \A e \in revoked : \A d \in P : <<d.rule, d.ep>> # e
      BY <2>1, <2>2 DEF PolicyInv, PolicyKept, CompositionKept
    <3> QED BY <1>1, <3>1
  <2> QED BY <1>3, <2>2 DEF CompositionKept
<1> QED BY <1>1, <1>8, <1>9, <1>10, <1>11, <1>12, MovedOk

(* Any other mutation only raises the version.                             *)
LEMMA TouchesOk == ASSUME PolicyInv, Touches PROVE PolicyInv'
<1>1. /\ GatewayMoves(gateway.policy) /\ composed' = composed /\ revoked' = revoked
      /\ image' = image /\ bindings' = bindings /\ apply' = apply
      /\ gateway' = [gateway EXCEPT !.policy = gateway.policy, !.version = @ + 1]
      /\ gateway \in [policy : {gateway.policy}, version : Nat \ {0}, backfilled : BOOLEAN]
  BY Zenon DEF Touches, GatewayMoves, PolicyInv, PolicyTypes
<1>2. gateway'.policy = gateway.policy /\ gateway'.backfilled = gateway.backfilled
  BY <1>1
<1>3. Unfilled'
  BY <1>1, <1>2 DEF PolicyInv, Unfilled
<1>4. Untouched'
  BY <1>1, <1>2 DEF PolicyInv, Untouched, Moved, FromImage
<1>5. (Unmerged => Unmerged') /\ (Merged => Merged')
  BY <1>1, <1>2 DEF Unmerged, Merged, Moved, GatewayRule
<1>6. CompositionKept'
  <2>1. torn => torn'
    BY Zenon, <1>1 DEF GatewayMoves
  <2> QED BY <1>1, <1>2, <2>1 DEF PolicyInv, PolicyKept, CompositionKept
<1> QED BY <1>1, <1>3, <1>4, <1>5, <1>6, MovedOk

(* The invariant of every apply: what it read, what it is about to send and *)
(* what the gateway did meanwhile (policy.go, credentials.go).              *)
THEOREM PolicyInvariant == PolicySpec => []PolicyInv
<1>1. PolicyInit => PolicyInv
  BY PolicyInitial
<1>2. PolicyInv /\ [PolicyNext]_policyVars => PolicyInv'
  <2> SUFFICES ASSUME PolicyInv, [PolicyNext]_policyVars PROVE PolicyInv'
    OBVIOUS
  <2>1. CASE UNCHANGED policyVars
    <3>1. /\ image' = image /\ bindings' = bindings /\ gateway' = gateway /\ apply' = apply
          /\ composed' = composed /\ revoked' = revoked /\ accepted' = accepted /\ torn' = torn
      BY <2>1 DEF policyVars
    <3>2. (PolicyTypes /\ Unfilled /\ Untouched /\ ReadCurrent)'
      BY Zenon, <3>1 DEF PolicyInv, PolicyTypes, Unfilled, Untouched, ReadCurrent, Moved, FromImage
    <3>3. /\ BoundEndpoints' = BoundEndpoints /\ \A ep : ProviderOf(ep)' = ProviderOf(ep)
          /\ CredentialPolicyOps(apply.policy)' = CredentialPolicyOps(apply.policy)
          /\ Conflict(apply.policy)' = Conflict(apply.policy) /\ GatewayRule' = GatewayRule
      <4>1. BoundEndpoints' = BoundEndpoints
        BY <3>1 DEF BoundEndpoints
      <4>2. \A ep : ProviderOf(ep)' = ProviderOf(ep)
        BY <3>1 DEF ProviderOf
      <4>3. CredentialPolicyOps(apply.policy)' = CredentialPolicyOps(apply.policy)
        BY <3>1 DEF CredentialPolicyOps, BoundEndpoints, ProviderOf, Stamp, Bare
      <4>4. Conflict(apply.policy)' = Conflict(apply.policy)
        BY <3>1 DEF Conflict, BoundEndpoints, ProviderOf, Bare
      <4>5. GatewayRule' = GatewayRule
        BY <3>1 DEF GatewayRule
      <4> QED BY <4>1, <4>2, <4>3, <4>4, <4>5
    <3>4. Planned'
      BY Zenon, <3>1, <3>3 DEF PolicyInv, Planned, Plan, Unmerged, Merged, Moved
    <3>5. CredentialsBound'
      BY <3>1, <3>3 DEF PolicyInv, CredentialsBound, BoundOrRefused, StampNotAmbiguous, Applied
    <3>6. PolicyKept'
      BY <3>1 DEF PolicyInv, PolicyKept, RestrictionsKept, CompositionKept, Applied
    <3> QED BY <3>2, <3>4, <3>5, <3>6 DEF PolicyInv
  <2> QED BY <2>1, BuildRuleOk, ReadPolicyOk, ReadVersionOk, ReadVersionAgainOk, BackfillOk, BindOk, DenyOk,
             ComposesOk, RevokesOk, TouchesOk DEF PolicyNext
<1> QED BY <1>1, <1>2, PTL DEF PolicySpec

(* Fail closed: an apply that goes on has every endpoint of the table bound *)
(* to its first provider and inspected, and the gateway has no reason of    *)
(* the controller's own making to refuse the stamping (CredentialPolicyOps).*)
THEOREM PolicyBindsCredentials == PolicySpec => []CredentialsBound
<1>1. PolicyInv => CredentialsBound
  BY DEF PolicyInv
<1> QED BY <1>1, PolicyInvariant, PTL

(* An apply takes nothing away from the image's policy, nor from what the   *)
(* gateway composed or revoked meanwhile unless the read was torn           *)
(* (ensureL7, mergeOrRetry).                                                *)
THEOREM PolicyIsKept == PolicySpec => []PolicyKept
<1>1. PolicyInv => PolicyKept
  BY DEF PolicyInv
<1> QED BY <1>1, PolicyInvariant, PTL

-----------------------------------------------------------------------------
(* The event adapters.                                                     *)

AdaptersSpec == AdaptersInit /\ [][AdaptersNext]_adapterVars

EventIds == [post : Nat, at : Nat, name : STRING \cup {"none"}]

PostRecs ==
    [batch : Seq(Items), at : Nat, pc : {"item", "publish", "answered"}, id : EventIds,
     outcome : Seq({"skipped", "published", "dropped"})]

Messages == [item : Items, id : EventIds, post : Nat, at : Nat, known : BOOLEAN]

AdapterTypes ==
    /\ post \in Seq(PostRecs) /\ stored \in Seq(Messages) /\ outages \in Nat
    /\ tally \in [received : Nat, published : Nat, errors : Nat, skipped : Nat]

(* The ids of the stream with their items.                                  *)
HeldIds == {<<stored[i].id, stored[i].item>> : i \in DOMAIN stored}

(* The stream holds an item that was posted at a place, or another stage of *)
(* the same audit event.                                                    *)
Vouched(p, k, item, held) ==
    \E h \in held :
        /\ h[1] = EventId(p, k, item) /\ h[2] \in Items /\ h[2].kind = item.kind /\ h[2].name = item.name
        /\ item.kind = "alert" => h[2] = item

(* One request: the outcomes are those of the items before the current one, *)
(* the id being published is the item's own, and a published item is held.  *)
PostOk(p, r, held) ==
    /\ r.at \in 1..(Len(r.batch) + 1) /\ Len(r.outcome) = r.at - 1
    /\ r.pc = "answered" <=> r.at = Len(r.batch) + 1
    /\ r.pc = "publish" =>
         r.batch[r.at].kind # "unlabelled" /\ r.id = EventId(p, r.at, r.batch[r.at])
    /\ \A k \in DOMAIN r.outcome : r.outcome[k] = "published" => Vouched(p, k, r.batch[k], held)

(* A message is an item of the place it was posted at, under that item's id; *)
(* the stream knows it as long as the request is at that place.              *)
MessageOk(m) ==
    /\ m.item.kind # "unlabelled" /\ m.id = EventId(m.post, m.at, m.item)
    /\ m.post \in DOMAIN post /\ m.item = post[m.post].batch[m.at]
    /\ m.at <= post[m.post].at /\ (m.at = post[m.post].at => m.known)

Publishing == {p \in DOMAIN post : post[p].pc = "publish"}

Counted == tally.received = tally.published + tally.errors + tally.skipped + Cardinality(Publishing)

AdaptersInv ==
    /\ AdapterTypes /\ StoredOnce /\ Counted
    /\ \A p \in DOMAIN post : PostOk(p, post[p], HeldIds)
    /\ \A i \in DOMAIN stored : MessageOk(stored[i])

(* Requests keep their batches and only move on.                            *)
MovedOn ==
    \A q \in DOMAIN post :
        q \in DOMAIN post' /\ post'[q].batch = post[q].batch /\ post'[q].at \in Nat /\ post[q].at <= post'[q].at

(* An id is built of two numbers and a name.                               *)
LEMMA IdBuilt ==
    \A a, b \in Nat, s \in STRING \cup {"none"} : [post |-> a, at |-> b, name |-> s] \in EventIds
  BY DEF EventIds

(* The item a request is publishing, and its id.                           *)
LEMMA CurrentItem ==
    ASSUME AdaptersInv, NEW p \in DOMAIN post, post[p].pc \in {"item", "publish"}
    PROVE  /\ post[p] \in PostRecs /\ post[p].at \in 1..Len(post[p].batch)
           /\ Item(p) \in Items /\ Item(p) = post[p].batch[post[p].at]
           /\ EventId(p, post[p].at, Item(p)) \in EventIds
<1>1. post[p] \in PostRecs
  BY DEF AdaptersInv, AdapterTypes
<1>2. post[p].batch \in Seq(Items) /\ post[p].at \in Nat
  BY <1>1 DEF PostRecs
<1>3. PostOk(p, post[p], HeldIds)
  BY DEF AdaptersInv
<1>4. post[p].at \in 1..(Len(post[p].batch) + 1) /\ post[p].at # Len(post[p].batch) + 1
  BY <1>3 DEF PostOk
<1>5. post[p].at \in 1..Len(post[p].batch)
  BY <1>2, <1>4
<1>6. Item(p) = post[p].batch[post[p].at] /\ Item(p) \in Items
  BY <1>2, <1>5 DEF Item
<1>7. p \in Nat /\ Item(p).name \in STRING
  BY <1>6 DEF AdaptersInv, AdapterTypes, Items
<1>8. EventId(p, post[p].at, Item(p)) \in EventIds
  <2>1. CASE Item(p).kind = "audit"
    <3>1. EventId(p, post[p].at, Item(p)) = [post |-> 0, at |-> 0, name |-> Item(p).name]
      BY <2>1 DEF EventId
    <3> QED BY Zenon, <3>1, <1>7, IdBuilt
  <2>2. CASE Item(p).kind # "audit"
    <3>1. EventId(p, post[p].at, Item(p)) = [post |-> p, at |-> post[p].at, name |-> "none"]
      BY <2>2 DEF EventId
    <3> QED BY <3>1, <1>2, <1>7, IdBuilt, Zenon
  <2> QED BY <2>1, <2>2
<1> QED BY <1>1, <1>5, <1>6, <1>8

(* What a message says of its request stays true as requests move on.       *)
LEMMA MessageKept ==
    ASSUME AdapterTypes, MovedOn, NEW m \in Messages, MessageOk(m)
    PROVE  MessageOk(m)'
<1>1. m.post \in DOMAIN post /\ m.at \in Nat
  BY DEF MessageOk, Messages
<1>2. post[m.post] \in PostRecs
  BY <1>1 DEF AdapterTypes
<1>3. post[m.post].at \in Nat
  BY <1>2 DEF PostRecs
<1>4. /\ m.post \in DOMAIN post' /\ post'[m.post].batch = post[m.post].batch
      /\ post'[m.post].at \in Nat /\ post[m.post].at <= post'[m.post].at
  BY Zenon, <1>1 DEF MovedOn
<1>5. m.at <= post[m.post].at /\ (m.at = post[m.post].at => m.known)
  BY DEF MessageOk
<1>6. m.at <= post'[m.post].at /\ (m.at = post'[m.post].at => m.at = post[m.post].at)
  BY <1>1, <1>3, <1>4, <1>5
<1> QED BY Zenon, <1>4, <1>5, <1>6 DEF MessageOk

(* Two places whose items share an id hold the same item, or stages of one   *)
(* audit event.                                                              *)
LEMMA IdsSame ==
    ASSUME NEW p \in Nat \ {0}, NEW q \in Nat \ {0}, NEW k \in Nat, NEW l \in Nat,
           NEW a \in Items, NEW b \in Items, a.kind # "unlabelled", b.kind # "unlabelled",
           EventId(p, k, a) = EventId(q, l, b)
    PROVE  a.kind = b.kind /\ (a.kind = "audit" => a.name = b.name) /\ (a.kind = "alert" => p = q /\ k = l)
<1>1. a.kind \in {"alert", "audit"} /\ b.kind \in {"alert", "audit"}
  BY DEF Items
<1>2. EventId(p, k, a).post = IF a.kind = "audit" THEN 0 ELSE p
  BY DEF EventId
<1>3. EventId(q, l, b).post = IF b.kind = "audit" THEN 0 ELSE q
  BY DEF EventId
<1>4. a.kind = b.kind
  BY <1>1, <1>2, <1>3
<1>5. a.kind = "audit" => EventId(p, k, a).name = a.name /\ EventId(q, l, b).name = b.name
  BY <1>4 DEF EventId
<1>6. a.kind = "alert" => EventId(p, k, a).at = k /\ EventId(q, l, b).at = l
  BY <1>4 DEF EventId
<1> QED BY <1>1, <1>2, <1>3, <1>4, <1>5, <1>6

(* Publish: whether the stream takes the message or knows its id, an id is  *)
(* taken again only after its window, nothing is lost, and the item, or     *)
(* another stage of its event, is held afterwards.                          *)
LEMMA StoresItem ==
    ASSUME AdaptersInv, NEW p \in DOMAIN post, post[p].pc = "publish", Stores(p), MovedOn
    PROVE  /\ stored' \in Seq(Messages) /\ StoredOnce' /\ HeldIds \subseteq HeldIds'
           /\ Vouched(p, post[p].at, Item(p), HeldIds')
           /\ \A i \in DOMAIN stored' : MessageOk(stored[i])'
<1>1. /\ post[p] \in PostRecs /\ post[p].at \in 1..Len(post[p].batch)
      /\ Item(p) \in Items /\ Item(p) = post[p].batch[post[p].at] /\ EventId(p, post[p].at, Item(p)) \in EventIds
  BY CurrentItem
<1>2. Item(p).kind # "unlabelled" /\ post[p].id = EventId(p, post[p].at, Item(p))
  BY <1>1 DEF AdaptersInv, PostOk
<1>3. /\ stored \in Seq(Messages) /\ StoredOnce /\ AdapterTypes
      /\ \A i \in DOMAIN stored : stored[i] \in Messages /\ MessageOk(stored[i])
  BY DEF AdaptersInv, AdapterTypes
<1>4. p \in Nat \ {0} /\ post[p].at \in Nat
  BY <1>1 DEF AdaptersInv, AdapterTypes, PostRecs
<1>5. CASE \E i \in DOMAIN stored : stored[i].id = post[p].id /\ stored[i].known
  <2>1. stored' = stored
    BY <1>5 DEF Stores
  <2>2. PICK i \in DOMAIN stored : stored[i].id = post[p].id
    BY <1>5
  <2>3. MessageOk(stored[i]) /\ stored[i] \in Messages
    BY <1>3
  <2>4. stored[i].item \in Items /\ stored[i].at \in Nat
    BY <2>3 DEF Messages
  <2>5. stored[i].post \in Nat \ {0}
    BY <2>3 DEF MessageOk, AdaptersInv, AdapterTypes
  <2>6. /\ stored[i].item.kind # "unlabelled"
        /\ EventId(stored[i].post, stored[i].at, stored[i].item) = EventId(p, post[p].at, Item(p))
        /\ stored[i].item = post[stored[i].post].batch[stored[i].at]
    BY <1>2, <2>2, <2>3 DEF MessageOk
  <2>7. /\ stored[i].item.kind = Item(p).kind
        /\ Item(p).kind = "audit" => stored[i].item.name = Item(p).name
        /\ Item(p).kind = "alert" => stored[i].post = p /\ stored[i].at = post[p].at
    <3>1. PICK a, b, q, k, l : a = stored[i].item /\ b = Item(p) /\ q = stored[i].post /\ k = stored[i].at /\ l = post[p].at
      OBVIOUS
    <3>2. /\ a \in Items /\ b \in Items /\ q \in Nat \ {0} /\ k \in Nat /\ l \in Nat
          /\ a.kind # "unlabelled" /\ b.kind # "unlabelled" /\ EventId(q, k, a) = EventId(p, l, b)
      BY Zenon, <1>1, <1>2, <1>4, <2>4, <2>5, <2>6, <3>1
    <3>3. a.kind = b.kind /\ (a.kind = "audit" => a.name = b.name) /\ (a.kind = "alert" => q = p /\ k = l)
      BY <1>4, <3>2, IdsSame
    <3> QED BY Zenon, <3>1, <3>3
  <2>8. Item(p).kind = "alert" => stored[i].item = Item(p)
    BY <1>1, <2>6, <2>7
  <2>9. Item(p).kind \in {"alert", "audit"}
    BY <1>1, <1>2 DEF Items
  <2>10. stored[i].item.name = Item(p).name
    BY <2>7, <2>8, <2>9
  <2>11. <<stored[i].id, stored[i].item>> \in HeldIds'
    BY <2>1 DEF HeldIds
  <2>12. Vouched(p, post[p].at, Item(p), HeldIds')
    BY <1>2, <2>2, <2>4, <2>7, <2>8, <2>10, <2>11 DEF Vouched
  <2>13. HeldIds' = HeldIds /\ StoredOnce' /\ stored' \in Seq(Messages)
    BY <1>3, <2>1 DEF StoredOnce, HeldIds
  <2>14. \A k \in DOMAIN stored' : MessageOk(stored[k])'
    BY <2>1, <1>3, MessageKept
  <2> QED BY <2>12, <2>13, <2>14
<1>6. CASE ~\E i \in DOMAIN stored : stored[i].id = post[p].id /\ stored[i].known
  <2> DEFINE m == [item |-> Item(p), id |-> post[p].id, post |-> p, at |-> post[p].at, known |-> TRUE]
  <2>1. stored' = Append(stored, m)
    BY <1>6 DEF Stores
  <2>2. m \in Messages
    BY <1>1, <1>2, <1>4 DEF Messages
  <2>3. m.id = post[p].id /\ m.item = Item(p) /\ m.post = p /\ m.at = post[p].at /\ m.known
    OBVIOUS
  <2> HIDE DEF m
  <2>4. MessageOk(m)
    <3>1. m.at <= post[m.post].at
      BY <1>4, <2>3
    <3> QED BY Zenon, <2>3, <3>1, <1>1, <1>2 DEF MessageOk
  <2>5. /\ stored' \in Seq(Messages) /\ DOMAIN stored' = 1..(Len(stored) + 1) /\ DOMAIN stored = 1..Len(stored)
        /\ stored'[Len(stored) + 1] = m /\ \A i \in DOMAIN stored : stored'[i] = stored[i]
        /\ Len(stored) \in Nat
    BY <2>1, <2>2, <1>3
  <2>6. \A i \in DOMAIN stored' : i \in DOMAIN stored \/ i = Len(stored) + 1
    BY <2>5
  <2>7. \A k \in DOMAIN stored' : stored'[k] \in Messages /\ MessageOk(stored'[k])
    BY <2>2, <2>4, <2>5, <2>6, <1>3
  <2>8. \A k \in DOMAIN stored' : MessageOk(stored[k])'
    <3> TAKE k \in DOMAIN stored'
    <3>1. PICK x : x = stored'[k]
      OBVIOUS
    <3>2. x \in Messages /\ MessageOk(x)
      BY <2>7, <3>1
    <3>3. MessageOk(x)'
      BY <1>3, <3>2, MessageKept
    <3> QED BY Zenon, <3>1, <3>3 DEF MessageOk
  <2>9. ASSUME NEW i \in DOMAIN stored, stored[i].id = m.id
        PROVE  ~stored[i].known /\ <<stored[i].post, stored[i].at>> # <<m.post, m.at>>
    <3>1. ~stored[i].known
      BY <1>6, <2>3, <2>9
    <3>2. stored[i].at = post[stored[i].post].at => stored[i].known
      BY <1>3 DEF MessageOk
    <3> QED BY <2>3, <3>1, <3>2
  <2>10. StoredOnce'
    <3> SUFFICES ASSUME NEW i \in DOMAIN stored', NEW j \in DOMAIN stored', i < j, stored'[i].id = stored'[j].id
                 PROVE  ~stored'[i].known /\ <<stored'[i].post, stored'[i].at>> # <<stored'[j].post, stored'[j].at>>
      BY DEF StoredOnce
    <3>1. i \in DOMAIN stored /\ stored'[i] = stored[i]
      BY <2>5
    <3>2. CASE j \in DOMAIN stored
      <4>1. stored'[j] = stored[j]
        BY <2>5, <3>2
      <4> QED BY Zenon, <1>3, <3>1, <3>2, <4>1 DEF StoredOnce
    <3>3. CASE j = Len(stored) + 1
      BY Zenon, <2>5, <2>9, <3>1, <3>3
    <3> QED BY <2>6, <3>2, <3>3
  <2>11. HeldIds \subseteq HeldIds' /\ <<m.id, m.item>> \in HeldIds'
    BY <2>5 DEF HeldIds
  <2>12. Vouched(p, post[p].at, Item(p), HeldIds')
    BY <1>1, <1>2, <2>3, <2>11 DEF Vouched
  <2> QED BY <2>5, <2>8, <2>10, <2>11, <2>12
<1> QED BY <1>5, <1>6

(* A stream that grew vouches for what it vouched for.                        *)
LEMMA PostOkGrows ==
    ASSUME NEW p, NEW r, NEW held, NEW more, held \subseteq more, PostOk(p, r, held)
    PROVE  PostOk(p, r, more)
<1>1. \A k, item : Vouched(p, k, item, held) => Vouched(p, k, item, more)
  BY Zenon DEF Vouched
<1> QED BY Zenon, <1>1 DEF PostOk

(* NextItem keeps the batches and moves one request on.                       *)
LEMMA NextItemMoves ==
    ASSUME AdapterTypes, NEW p \in DOMAIN post, NEW outcome, NextItem(p, outcome)
    PROVE  MovedOn
<1> DEFINE n == [post[p] EXCEPT !.at = @ + 1, !.outcome = Append(@, outcome), !.id = NoId,
                                !.pc = IF post[p].at < Len(post[p].batch) THEN "item" ELSE "answered"]
<1>1. post' = [post EXCEPT ![p] = n]
  BY Zenon DEF NextItem
<1>2. post \in Seq(PostRecs)
  BY DEF AdapterTypes
<1>3. \A q \in DOMAIN post : post[q] \in PostRecs
  BY <1>2
<1>4. \A q \in DOMAIN post : post[q].at \in Nat
  BY <1>3 DEF PostRecs
<1>5. n.batch = post[p].batch /\ n.at = post[p].at + 1
  BY <1>3 DEF PostRecs
<1> HIDE DEF n
<1>6. DOMAIN post' = DOMAIN post /\ \A q \in DOMAIN post : post'[q] = IF q = p THEN n ELSE post[q]
  BY <1>1, <1>2
<1> QED BY <1>4, <1>5, <1>6 DEF MovedOn

(* A request that goes on with an item whose outcome is known keeps its       *)
(* invariant, and is publishing no more.                                      *)
LEMMA NextItemOk ==
    ASSUME AdaptersInv, NEW p \in DOMAIN post, post[p].pc \in {"item", "publish"},
           NEW outcome \in {"skipped", "published", "dropped"}, NextItem(p, outcome),
           NEW held, HeldIds \subseteq held, outcome = "published" => Vouched(p, post[p].at, Item(p), held)
    PROVE  /\ post' \in Seq(PostRecs) /\ DOMAIN post' = DOMAIN post
           /\ \A q \in DOMAIN post : PostOk(q, post'[q], held)
           /\ Publishing' = Publishing \ {p}
<1> DEFINE r == post[p]
<1> DEFINE n == [r EXCEPT !.at = @ + 1, !.outcome = Append(@, outcome), !.id = NoId,
                          !.pc = IF r.at < Len(r.batch) THEN "item" ELSE "answered"]
<1>1. r \in PostRecs /\ r.at \in 1..Len(r.batch) /\ Item(p) = r.batch[r.at]
  BY CurrentItem
<1>2. r.batch \in Seq(Items) /\ r.at \in Nat /\ r.outcome \in Seq({"skipped", "published", "dropped"})
  BY <1>1 DEF PostRecs
<1>3. post \in Seq(PostRecs)
  BY DEF AdaptersInv, AdapterTypes
<1>4. post' = [post EXCEPT ![p] = n]
  BY Zenon DEF NextItem
<1>5. NoId \in EventIds
  <2>1. 0 \in Nat
    OBVIOUS
  <2> QED BY <2>1, IdBuilt, Zenon DEF NoId
<1>6. n \in PostRecs
  <2>1. r.at + 1 \in Nat /\ Append(r.outcome, outcome) \in Seq({"skipped", "published", "dropped"})
    BY <1>2
  <2>2. (IF r.at < Len(r.batch) THEN "item" ELSE "answered") \in {"item", "publish", "answered"}
    OBVIOUS
  <2> HIDE DEF r
  <2> QED BY Zenon, <1>1, <1>5, <2>1, <2>2 DEF PostRecs
<1>7. /\ n.at = r.at + 1 /\ n.outcome = Append(r.outcome, outcome) /\ n.batch = r.batch
      /\ n.pc = IF r.at < Len(r.batch) THEN "item" ELSE "answered"
  <2> HIDE DEF r
  <2> QED BY <1>1 DEF PostRecs
<1> HIDE DEF n
<1>8. \A q \in DOMAIN post : PostOk(q, post[q], HeldIds)
  BY DEF AdaptersInv
<1>9. PostOk(p, n, held)
  <2>1. /\ Len(r.outcome) = r.at - 1
        /\ \A k \in DOMAIN r.outcome : r.outcome[k] = "published" => Vouched(p, k, r.batch[k], HeldIds)
    BY Zenon, <1>8 DEF PostOk
  <2> HIDE DEF r
  <2>2. Len(r.batch) \in Nat
    BY <1>2
  <2>3. n.at \in 1..(Len(n.batch) + 1)
    BY <1>1, <1>2, <1>7, <2>2
  <2>4. Len(n.outcome) = n.at - 1
    BY <1>2, <1>7, <2>1
  <2>5. n.pc = "answered" <=> n.at = Len(n.batch) + 1
    <3>1. CASE r.at < Len(r.batch)
      <4>1. n.pc = "item" BY <3>1, <1>7
      <4>2. n.at # Len(n.batch) + 1 BY <3>1, <1>2, <1>7, <2>2
      <4> QED BY <4>1, <4>2
    <3>2. CASE ~(r.at < Len(r.batch))
      <4>1. n.pc = "answered" BY <3>2, <1>7
      <4>2. n.at = Len(n.batch) + 1 BY <3>2, <1>1, <1>2, <1>7, <2>2
      <4> QED BY <4>1, <4>2
    <3> QED BY <3>1, <3>2
  <2>6. n.pc # "publish"
    BY <1>7
  <2>v. outcome = "published" => Vouched(p, r.at, Item(p), held)
    BY DEF r
  <2>7. ASSUME NEW k \in DOMAIN n.outcome, n.outcome[k] = "published" PROVE Vouched(p, k, n.batch[k], held)
    <3>1. k \in 1..(Len(r.outcome) + 1) /\ Len(r.outcome) \in Nat
      BY <2>7, <1>2, <1>7
    <3>2. CASE k = Len(r.outcome) + 1
      <4>1. n.outcome[k] = outcome /\ k = r.at
        BY <3>2, <2>1, <1>2, <1>7
      <4> QED BY Zenon, <4>1, <2>v, <2>7, <1>1, <1>7
    <3>3. CASE k # Len(r.outcome) + 1
      <4>1. k \in DOMAIN r.outcome /\ n.outcome[k] = r.outcome[k]
        BY <3>1, <3>3, <1>2, <1>7
      <4>2. Vouched(p, k, r.batch[k], HeldIds)
        BY <4>1, <2>7, <2>1
      <4> QED BY Zenon, <4>2, <1>7 DEF Vouched
    <3> QED BY <3>2, <3>3
  <2> QED BY <2>3, <2>4, <2>5, <2>6, <2>7 DEF PostOk
<1>10. post' \in Seq(PostRecs) /\ DOMAIN post' = DOMAIN post
  BY <1>3, <1>4, <1>6
<1>11. \A q \in DOMAIN post : post'[q] = IF q = p THEN n ELSE post[q]
  BY <1>3, <1>4
<1>12. \A q \in DOMAIN post : PostOk(q, post[q], held)
  BY <1>8, PostOkGrows
<1>13. \A q \in DOMAIN post : PostOk(q, post'[q], held)
  BY <1>9, <1>11, <1>12
<1>14. n.pc # "publish"
  BY <1>7
<1>15. Publishing' = Publishing \ {p}
  BY <1>10, <1>11, <1>14 DEF Publishing
<1> QED BY <1>10, <1>13, <1>15

(* The requests being published are finitely many.                         *)
LEMMA PublishingFinite ==
    ASSUME AdapterTypes
    PROVE  IsFiniteSet(Publishing) /\ Cardinality(Publishing) \in Nat
<1>1. DOMAIN post = 1..Len(post) /\ Len(post) \in Nat
  BY DEF AdapterTypes
<1>2. IsFiniteSet(1..Len(post))
  BY <1>1, FS_Interval
<1>3. IsFiniteSet(Publishing)
  BY <1>1, <1>2, FS_Subset DEF Publishing
<1> QED BY <1>3, FS_CardinalityType

(* A request starts or stops publishing.                                   *)
LEMMA PublishingMoves ==
    ASSUME AdapterTypes, NEW p
    PROVE  /\ p \in Publishing => Cardinality(Publishing) = Cardinality(Publishing \ {p}) + 1
           /\ p \notin Publishing => /\ Cardinality(Publishing \cup {p}) = Cardinality(Publishing) + 1
                                    /\ Publishing \ {p} = Publishing
<1>1. IsFiniteSet(Publishing) /\ Cardinality(Publishing) \in Nat
  BY PublishingFinite
<1>2. /\ IsFiniteSet(Publishing \ {p})
      /\ Cardinality(Publishing \ {p}) = IF p \in Publishing THEN Cardinality(Publishing) - 1 ELSE Cardinality(Publishing)
  BY <1>1, FS_RemoveElement
<1>3. Cardinality(Publishing \cup {p}) = IF p \in Publishing THEN Cardinality(Publishing) ELSE Cardinality(Publishing) + 1
  BY <1>1, FS_AddElement
<1>4. p \notin Publishing => Publishing \ {p} = Publishing
  OBVIOUS
<1> QED BY <1>1, <1>2, <1>3, <1>4

(* The stream is left alone, and so are the batches posted.                *)
LEMMA StreamKept ==
    ASSUME AdaptersInv, UNCHANGED stored, MovedOn
    PROVE  /\ stored' \in Seq(Messages) /\ StoredOnce' /\ HeldIds' = HeldIds
           /\ \A i \in DOMAIN stored' : MessageOk(stored[i])'
<1>1. stored \in Seq(Messages) /\ AdapterTypes /\ StoredOnce
  BY DEF AdaptersInv, AdapterTypes
<1>2. stored' = stored /\ \A i \in DOMAIN stored : stored[i] \in Messages /\ MessageOk(stored[i])
  BY <1>1 DEF AdaptersInv
<1>3. StoredOnce' /\ HeldIds' = HeldIds
  BY <1>1, <1>2 DEF StoredOnce, HeldIds
<1>4. \A i \in DOMAIN stored' : MessageOk(stored[i])'
  BY <1>1, <1>2, MessageKept
<1> QED BY <1>1, <1>2, <1>3, <1>4

(* Receive: a new request has no outcome yet; an empty one is answered.     *)
LEMMA ReceiveOk ==
    ASSUME AdaptersInv, NEW batch \in Batches, Receive(batch) PROVE AdaptersInv'
<1> DEFINE n == [batch |-> batch, at |-> 1, pc |-> IF batch = <<>> THEN "answered" ELSE "item",
                 id |-> NoId, outcome |-> <<>>]
<1>1. post' = Append(post, n) /\ UNCHANGED <<stored, tally, outages>>
  BY DEF Receive
<1>2. batch \in Seq(Items)
  BY BatchesAssumption
<1>3. NoId \in EventIds
  <2>1. 0 \in Nat
    OBVIOUS
  <2> QED BY <2>1, IdBuilt, Zenon DEF NoId
<1>4. n \in PostRecs
  BY <1>2, <1>3 DEF PostRecs
<1>5. n.batch = batch /\ n.at = 1 /\ n.outcome = <<>> /\ n.pc = IF batch = <<>> THEN "answered" ELSE "item"
  OBVIOUS
<1> HIDE DEF n
<1>6. post \in Seq(PostRecs) /\ AdapterTypes
  BY DEF AdaptersInv, AdapterTypes
<1>7. /\ post' \in Seq(PostRecs) /\ DOMAIN post' = 1..(Len(post) + 1) /\ DOMAIN post = 1..Len(post)
      /\ post'[Len(post) + 1] = n /\ \A q \in DOMAIN post : post'[q] = post[q]
      /\ Len(post) \in Nat
  BY <1>1, <1>4, <1>6
<1>8. MovedOn
  <2>1. \A q \in DOMAIN post : post[q] \in PostRecs
    BY <1>6
  <2>2. \A q \in DOMAIN post : post[q].at \in Nat
    BY <2>1 DEF PostRecs
  <2> QED BY <1>7, <2>2 DEF MovedOn
<1>9. /\ stored' \in Seq(Messages) /\ StoredOnce' /\ HeldIds' = HeldIds
      /\ \A i \in DOMAIN stored' : MessageOk(stored[i])'
  BY <1>1, <1>8, StreamKept
<1>10. \A q \in DOMAIN post' : q \in DOMAIN post \/ q = Len(post) + 1
  BY <1>7
<1>11. n.pc # "publish"
  BY <1>5
<1>12. PostOk(Len(post) + 1, n, HeldIds)
  <2>1. Len(batch) \in Nat /\ (batch = <<>> <=> Len(batch) = 0)
    BY <1>2
  <2>2. n.at \in 1..(Len(n.batch) + 1) /\ Len(n.outcome) = n.at - 1
    BY <1>5, <2>1
  <2>3. n.pc = "answered" <=> n.at = Len(n.batch) + 1
    <3>1. CASE batch = <<>>
      BY <3>1, <1>5, <2>1
    <3>2. CASE batch # <<>>
      <4>1. n.pc = "item" BY <3>2, <1>5
      <4>2. n.at # Len(n.batch) + 1 BY <3>2, <1>5, <2>1
      <4> QED BY <4>1, <4>2
    <3> QED BY <3>1, <3>2
  <2>4. \A k \in DOMAIN n.outcome : FALSE
    BY <1>5
  <2> QED BY <1>11, <2>2, <2>3, <2>4 DEF PostOk
<1>13. \A q \in DOMAIN post : PostOk(q, post[q], HeldIds)
  BY DEF AdaptersInv
<1>14. \A q \in DOMAIN post' : PostOk(q, post'[q], HeldIds)
  BY <1>7, <1>10, <1>12, <1>13
<1>15. Publishing' = Publishing
  BY <1>7, <1>10, <1>11 DEF Publishing
<1>16. Counted'
  BY <1>1, <1>15 DEF AdaptersInv, Counted
<1>17. AdapterTypes'
  BY <1>1, <1>6, <1>7, <1>9 DEF AdapterTypes
<1> QED BY <1>9, <1>14, <1>16, <1>17 DEF AdaptersInv

(* An item is done with: its outcome is counted under its field.  What the   *)
(* stream does meanwhile is either nothing or taking the item.               *)
LEMMA ItemDone ==
    ASSUME AdaptersInv, NEW p \in DOMAIN post, post[p].pc = "publish",
           NEW outcome \in {"published", "dropped"}, NextItem(p, outcome),
           \/ outcome = "published" /\ Count("published") /\ Stores(p)
           \/ outcome = "dropped" /\ Count("errors") /\ UNCHANGED stored,
           UNCHANGED outages
    PROVE  AdaptersInv'
<1>1. MovedOn
  BY NextItemMoves DEF AdaptersInv
<1>2. /\ stored' \in Seq(Messages) /\ StoredOnce' /\ HeldIds \subseteq HeldIds'
      /\ outcome = "published" => Vouched(p, post[p].at, Item(p), HeldIds')
      /\ \A i \in DOMAIN stored' : MessageOk(stored[i])'
  <2>1. CASE outcome = "published"
    <3>1. Stores(p)
      BY <2>1
    <3> QED BY <1>1, <3>1, StoresItem
  <2>2. CASE outcome = "dropped"
    <3>1. UNCHANGED stored
      BY <2>2
    <3> QED BY Zenon, <1>1, <2>2, <3>1, StreamKept
  <2> QED BY <2>1, <2>2
<1>3. /\ post' \in Seq(PostRecs) /\ DOMAIN post' = DOMAIN post /\ Publishing' = Publishing \ {p}
      /\ \A q \in DOMAIN post : PostOk(q, post'[q], HeldIds')
  BY Zenon, <1>2, NextItemOk
<1>4. \A q \in DOMAIN post' : PostOk(q, post'[q], HeldIds')
  BY Zenon, <1>3
<1>5. AdapterTypes /\ Counted
  BY Zenon DEF AdaptersInv
<1>6. p \in Publishing
  BY DEF Publishing
<1>7. Cardinality(Publishing) = Cardinality(Publishing') + 1 /\ Cardinality(Publishing') \in Nat
  <2>1. Cardinality(Publishing) = Cardinality(Publishing \ {p}) + 1
    BY <1>5, <1>6, PublishingMoves
  <2>2. IsFiniteSet(Publishing \ {p})
    BY <1>5, PublishingFinite, FS_RemoveElement
  <2> QED BY <1>3, <2>1, <2>2, FS_CardinalityType
<1>8. tally' \in [received : Nat, published : Nat, errors : Nat, skipped : Nat] /\ Counted'
  <2>1. tally \in [received : Nat, published : Nat, errors : Nat, skipped : Nat]
    BY <1>5 DEF AdapterTypes
  <2>2. CASE outcome = "published"
    <3>1. tally' = [tally EXCEPT !.published = @ + 1]
      BY <2>2 DEF Count
    <3>2. /\ tally' \in [received : Nat, published : Nat, errors : Nat, skipped : Nat]
          /\ tally'.received = tally.received /\ tally'.published = tally.published + 1
          /\ tally'.errors = tally.errors /\ tally'.skipped = tally.skipped
      BY <2>1, <3>1
    <3> QED BY <2>1, <3>2, <1>5, <1>7 DEF Counted
  <2>3. CASE outcome = "dropped"
    <3>1. tally' = [tally EXCEPT !.errors = @ + 1]
      BY <2>3 DEF Count
    <3>2. /\ tally' \in [received : Nat, published : Nat, errors : Nat, skipped : Nat]
          /\ tally'.received = tally.received /\ tally'.published = tally.published
          /\ tally'.errors = tally.errors + 1 /\ tally'.skipped = tally.skipped
      BY <2>1, <3>1
    <3> QED BY <2>1, <3>2, <1>5, <1>7 DEF Counted
  <2> QED BY <2>2, <2>3
<1>9. AdapterTypes'
  BY <1>2, <1>3, <1>5, <1>8 DEF AdapterTypes
<1> QED BY <1>2, <1>4, <1>8, <1>9 DEF AdaptersInv

(* TakeItem: an item that Build refuses is skipped, another gets its id.     *)
LEMMA TakeItemOk ==
    ASSUME AdaptersInv, NEW p \in DOMAIN post, TakeItem(p) PROVE AdaptersInv'
<1>1. post[p].pc = "item" /\ UNCHANGED <<stored, outages>>
  BY DEF TakeItem
<1>2. post \in Seq(PostRecs) /\ AdapterTypes /\ Counted /\ \A q \in DOMAIN post : PostOk(q, post[q], HeldIds)
  BY DEF AdaptersInv, AdapterTypes
<1>3. tally \in [received : Nat, published : Nat, errors : Nat, skipped : Nat]
  BY <1>2 DEF AdapterTypes
<1>4. p \notin Publishing
  BY <1>1 DEF Publishing
<1>5. Cardinality(Publishing) \in Nat
  BY <1>2, PublishingFinite
<1>6. CASE Item(p).kind = "unlabelled"
  <2>1. tally' = [tally EXCEPT !.received = @ + 1, !.skipped = @ + 1] /\ NextItem(p, "skipped")
    BY <1>6 DEF TakeItem
  <2>2. /\ post' \in Seq(PostRecs) /\ DOMAIN post' = DOMAIN post
        /\ \A q \in DOMAIN post : PostOk(q, post'[q], HeldIds)
        /\ Publishing' = Publishing \ {p}
    BY <1>1, <2>1, NextItemOk
  <2>m. MovedOn
    BY <1>2, <2>1, NextItemMoves
  <2>3. /\ stored' \in Seq(Messages) /\ StoredOnce' /\ HeldIds' = HeldIds
        /\ \A i \in DOMAIN stored' : MessageOk(stored[i])'
    BY <1>1, <2>m, StreamKept
  <2>4. \A q \in DOMAIN post' : PostOk(q, post'[q], HeldIds)
    BY <2>2
  <2>5. Publishing' = Publishing
    BY <1>4, <2>2
  <2>6. /\ tally' \in [received : Nat, published : Nat, errors : Nat, skipped : Nat]
        /\ tally'.received = tally.received + 1 /\ tally'.published = tally.published
        /\ tally'.errors = tally.errors /\ tally'.skipped = tally.skipped + 1
    <3>1. tally' = [tally EXCEPT !.received = tally.received + 1, !.skipped = tally.skipped + 1]
      BY <1>3, <2>1
    <3>2. tally.received + 1 \in Nat /\ tally.skipped + 1 \in Nat
      BY <1>3
    <3> QED BY Zenon, <1>3, <3>1, <3>2
  <2>7. Counted'
    BY <1>2, <1>3, <1>5, <2>5, <2>6 DEF Counted
  <2>8. AdapterTypes'
    BY <1>1, <1>2, <2>2, <2>3, <2>6 DEF AdapterTypes
  <2> QED BY <2>3, <2>4, <2>7, <2>8 DEF AdaptersInv
<1>7. CASE Item(p).kind # "unlabelled"
  <2> DEFINE n == [post[p] EXCEPT !.pc = "publish", !.id = EventId(p, post[p].at, Item(p))]
  <2>1. tally' = [tally EXCEPT !.received = @ + 1] /\ post' = [post EXCEPT ![p] = n]
    BY <1>7 DEF TakeItem, Count
  <2>2. /\ post[p] \in PostRecs /\ post[p].at \in 1..Len(post[p].batch)
        /\ Item(p) \in Items /\ Item(p) = post[p].batch[post[p].at] /\ EventId(p, post[p].at, Item(p)) \in EventIds
    BY <1>1, CurrentItem
  <2>3. n \in PostRecs
    BY Zenon, <2>2 DEF PostRecs
  <2>4. /\ n.pc = "publish" /\ n.id = EventId(p, post[p].at, Item(p)) /\ n.at = post[p].at /\ n.batch = post[p].batch
        /\ n.outcome = post[p].outcome
    BY <2>2 DEF PostRecs
  <2> HIDE DEF n
  <2>5. /\ post' \in Seq(PostRecs) /\ DOMAIN post' = DOMAIN post
        /\ \A q \in DOMAIN post : post'[q] = IF q = p THEN n ELSE post[q]
    BY <1>2, <2>1, <2>3
  <2>6. MovedOn
    <3>1. \A q \in DOMAIN post : post[q] \in PostRecs
      BY <1>2
    <3>2. \A q \in DOMAIN post : post[q].at \in Nat
      BY <3>1 DEF PostRecs
    <3> QED BY <2>4, <2>5, <3>2 DEF MovedOn
  <2>7. /\ stored' \in Seq(Messages) /\ StoredOnce' /\ HeldIds' = HeldIds
        /\ \A i \in DOMAIN stored' : MessageOk(stored[i])'
    BY Zenon, <1>1, <2>6, StreamKept
  <2>8. PostOk(p, n, HeldIds)
    <3>1. PostOk(p, post[p], HeldIds)
      BY <1>2
    <3>2. n.id = EventId(p, n.at, n.batch[n.at])
      BY <2>2, <2>4
    <3>3. n.batch[n.at].kind # "unlabelled"
      BY <1>7, <2>2, <2>4
    <3>4. n.pc # "answered" /\ n.at # Len(n.batch) + 1
      BY <1>1, <3>1, <2>4 DEF PostOk
    <3>5. /\ n.at \in 1..(Len(n.batch) + 1) /\ Len(n.outcome) = n.at - 1
          /\ \A k \in DOMAIN n.outcome : n.outcome[k] = "published" => Vouched(p, k, n.batch[k], HeldIds)
      BY <3>1, <2>4 DEF PostOk
    <3> QED BY <3>2, <3>3, <3>4, <3>5 DEF PostOk
  <2>9. \A q \in DOMAIN post' : PostOk(q, post'[q], HeldIds)
    BY <1>2, <2>5, <2>8
  <2>10. Publishing' = Publishing \cup {p}
    BY <2>4, <2>5 DEF Publishing
  <2>11. Cardinality(Publishing') = Cardinality(Publishing) + 1
    BY <1>2, <1>4, <2>10, PublishingMoves
  <2>12. /\ tally' \in [received : Nat, published : Nat, errors : Nat, skipped : Nat]
         /\ tally'.received = tally.received + 1 /\ tally'.published = tally.published
         /\ tally'.errors = tally.errors /\ tally'.skipped = tally.skipped
    <3>1. tally' = [tally EXCEPT !.received = @ + 1]
      BY <2>1
    <3> QED BY <1>3, <3>1
  <2>13. Counted'
    BY <1>2, <1>3, <1>5, <2>11, <2>12 DEF Counted
  <2>14. AdapterTypes'
    BY <1>1, <1>2, <2>5, <2>7, <2>12 DEF AdapterTypes
  <2> QED BY <2>7, <2>9, <2>13, <2>14 DEF AdaptersInv
<1> QED BY <1>6, <1>7

(* Requests that stay as they are have not moved back.                       *)
LEMMA MovedNot == ASSUME AdapterTypes, UNCHANGED post PROVE MovedOn
<1>1. \A q \in DOMAIN post : post[q] \in PostRecs
  BY DEF AdapterTypes
<1>2. \A q \in DOMAIN post : post[q].at \in Nat
  BY <1>1 DEF PostRecs
<1> QED BY <1>2 DEF MovedOn

(* WindowEnds: the stream forgets the id of a message, and holds it still.   *)
LEMMA WindowEndsOk ==
    ASSUME AdaptersInv, NEW i \in DOMAIN stored, WindowEnds(i) PROVE AdaptersInv'
<1>1. post' = post /\ tally' = tally /\ outages' = outages /\ post[stored[i].post].at # stored[i].at
      /\ stored' = [stored EXCEPT ![i].known = FALSE]
  BY DEF WindowEnds
<1>2. AdapterTypes /\ stored \in Seq(Messages) /\ StoredOnce /\ Counted
  BY DEF AdaptersInv, AdapterTypes
<1>3. \A k \in DOMAIN stored : stored[k] \in Messages /\ MessageOk(stored[k])
  BY <1>2 DEF AdaptersInv
<1>4. PICK m : m = [stored[i] EXCEPT !.known = FALSE]
  OBVIOUS
<1>5. /\ m \in Messages /\ m.item = stored[i].item /\ m.id = stored[i].id /\ m.post = stored[i].post
      /\ m.at = stored[i].at /\ ~m.known
  BY <1>3, <1>4 DEF Messages
<1>6. stored' \in Seq(Messages) /\ DOMAIN stored' = DOMAIN stored
      /\ \A k \in DOMAIN stored : stored'[k] = IF k = i THEN m ELSE stored[k]
  BY <1>1, <1>2, <1>4, <1>5
<1>7. \A k \in DOMAIN stored :
        /\ stored'[k].item = stored[k].item /\ stored'[k].id = stored[k].id /\ stored'[k].post = stored[k].post
        /\ stored'[k].at = stored[k].at /\ (~stored[k].known => ~stored'[k].known)
        /\ (k # i => stored'[k].known = stored[k].known)
  BY Zenon, <1>5, <1>6
<1>8. StoredOnce'
  <2> SUFFICES ASSUME NEW k \in DOMAIN stored, NEW j \in DOMAIN stored, k < j, stored'[k].id = stored'[j].id
               PROVE  ~stored'[k].known /\ <<stored'[k].post, stored'[k].at>> # <<stored'[j].post, stored'[j].at>>
    BY <1>6 DEF StoredOnce
  <2>1. stored[k].id = stored[j].id
    BY Zenon, <1>7
  <2>2. ~stored[k].known /\ <<stored[k].post, stored[k].at>> # <<stored[j].post, stored[j].at>>
    BY Zenon, <1>2, <2>1 DEF StoredOnce
  <2> QED BY Zenon, <1>7, <2>2
<1>9. HeldIds' = HeldIds
  BY <1>6, <1>7 DEF HeldIds
<1>10. \A k \in DOMAIN stored' : MessageOk(stored[k])'
  <2> SUFFICES ASSUME NEW k \in DOMAIN stored PROVE MessageOk(stored[k])'
    BY Zenon, <1>6
  <2>1. MessageOk(stored[k])
    BY <1>3
  <2>2. stored[k].at = post[stored[k].post].at => k # i /\ stored[k].known
    BY Zenon, <1>1, <2>1 DEF MessageOk
  <2> QED BY Zenon, <1>1, <1>7, <2>1, <2>2 DEF MessageOk
<1>11. \A q \in DOMAIN post' : PostOk(q, post'[q], HeldIds')
  BY Zenon, <1>1, <1>9 DEF AdaptersInv
<1>12. Counted'
  BY <1>1, <1>2 DEF Counted, Publishing
<1>13. AdapterTypes'
  BY <1>1, <1>2, <1>6 DEF AdapterTypes
<1> QED BY <1>8, <1>10, <1>11, <1>12, <1>13 DEF AdaptersInv

(* PublishFails: the request tries again, whatever the stream did.           *)
LEMMA PublishFailsOk ==
    ASSUME AdaptersInv, NEW p \in DOMAIN post, NEW taken \in BOOLEAN, PublishFails(p, taken) PROVE AdaptersInv'
<1>1. post[p].pc = "publish" /\ post' = post /\ tally' = tally /\ outages' = outages + 1
  BY DEF PublishFails
<1>m. MovedOn
  BY <1>1, MovedNot DEF AdaptersInv
<1>2. /\ stored' \in Seq(Messages) /\ StoredOnce' /\ HeldIds \subseteq HeldIds'
      /\ \A i \in DOMAIN stored' : MessageOk(stored[i])'
  <2>1. CASE taken
    <3>1. Stores(p)
      BY <2>1 DEF PublishFails
    <3> QED BY <1>1, <1>m, <3>1, StoresItem
  <2>2. CASE ~taken
    <3>1. UNCHANGED stored
      BY <2>2 DEF PublishFails
    <3> QED BY <1>m, <3>1, StreamKept
  <2> QED BY <2>1, <2>2
<1>3. \A q \in DOMAIN post : PostOk(q, post[q], HeldIds)
  BY DEF AdaptersInv
<1>4. \A q \in DOMAIN post : PostOk(q, post[q], HeldIds')
  BY <1>2, <1>3, PostOkGrows
<1>5. \A q \in DOMAIN post' : PostOk(q, post'[q], HeldIds')
  BY <1>1, <1>4
<1>6. AdapterTypes /\ Counted
  BY DEF AdaptersInv
<1>7. Counted'
  BY <1>1, <1>6 DEF Counted, Publishing
<1>8. AdapterTypes'
  BY <1>1, <1>2, <1>6 DEF AdapterTypes
<1> QED BY <1>2, <1>5, <1>7, <1>8 DEF AdaptersInv

(* A state of the invariant tells the truth.                                 *)
LEMMA AdaptersTruth == AdaptersInv => WebhookTruth
<1> SUFFICES ASSUME AdaptersInv PROVE WebhookTruth
  OBVIOUS
<1>1. StoredOnce
  BY DEF AdaptersInv
<1>2. AnsweredAccounted
  <2>1. ASSUME NEW p \in DOMAIN post, post[p].pc = "answered"
        PROVE  /\ Len(post[p].outcome) = Len(post[p].batch)
               /\ \A k \in DOMAIN post[p].outcome : post[p].outcome[k] = "published" =>
                    \E i \in DOMAIN stored :
                      /\ stored[i].id = EventId(p, k, post[p].batch[k])
                      /\ stored[i].item = [post[p].batch[k] EXCEPT !.stage = stored[i].item.stage]
                      /\ post[p].batch[k].kind = "alert" => stored[i].item = post[p].batch[k]
    <3>1. PostOk(p, post[p], HeldIds) /\ post[p] \in PostRecs
      BY DEF AdaptersInv, AdapterTypes
    <3>2. post[p].batch \in Seq(Items)
      BY <3>1 DEF PostRecs
    <3>3. Len(post[p].outcome) = Len(post[p].batch)
      BY <2>1, <3>1, <3>2 DEF PostOk
    <3>4. ASSUME NEW k \in DOMAIN post[p].outcome, post[p].outcome[k] = "published"
          PROVE  \E i \in DOMAIN stored :
                      /\ stored[i].id = EventId(p, k, post[p].batch[k])
                      /\ stored[i].item = [post[p].batch[k] EXCEPT !.stage = stored[i].item.stage]
                      /\ post[p].batch[k].kind = "alert" => stored[i].item = post[p].batch[k]
      <4>1. Vouched(p, k, post[p].batch[k], HeldIds)
        BY <3>1, <3>4 DEF PostOk
      <4>2. PICK item : item = post[p].batch[k]
        OBVIOUS
      <4>3. item \in Items
        <5>1. post[p].outcome \in Seq({"skipped", "published", "dropped"})
          BY <3>1 DEF PostRecs
        <5>2. k \in 1..Len(post[p].batch)
          BY <3>3, <3>4, <5>1
        <5> QED BY <3>2, <4>2, <5>2
      <4>4. PICK i \in DOMAIN stored :
              /\ stored[i].id = EventId(p, k, item) /\ stored[i].item \in Items
              /\ stored[i].item.kind = item.kind /\ stored[i].item.name = item.name
              /\ item.kind = "alert" => stored[i].item = item
        BY <4>1, <4>2 DEF Vouched, HeldIds
      <4>5. \A x \in Items : x.kind = item.kind /\ x.name = item.name => x = [item EXCEPT !.stage = x.stage]
        BY <4>3 DEF Items
      <4> QED BY Zenon, <4>2, <4>4, <4>5
    <3> QED BY Zenon, <3>3, <3>4
  <2>2. Counted
    BY DEF AdaptersInv
  <2> QED BY <2>1, <2>2 DEF AnsweredAccounted, Counted, Publishing
<1> QED BY <1>1, <1>2 DEF WebhookTruth

(* ServeHTTP and Publish: whatever batches are posted, however often, and     *)
(* whatever publish attempts fail or lose their answer, the stream takes an   *)
(* audit event again only when the window of its id is over, an alert once    *)
(* for each place it was posted at, and an answered request has accounted for *)
(* each of its items.                                                         *)
THEOREM AdaptersTellTruth == AdaptersSpec => []WebhookTruth
<1>1. AdaptersInit => AdaptersInv
  <2> SUFFICES ASSUME AdaptersInit PROVE AdaptersInv
    OBVIOUS
  <2>1. post = <<>> /\ stored = <<>> /\ outages = 0
    BY DEF AdaptersInit
  <2>2. tally = [received |-> 0, published |-> 0, errors |-> 0, skipped |-> 0]
    BY DEF AdaptersInit
  <2>3. DOMAIN post = {} /\ DOMAIN stored = {}
    BY <2>1
  <2>4. Publishing = {}
    BY <2>3 DEF Publishing
  <2>5. Counted
    BY <2>2, <2>4, FS_EmptySet DEF Counted
  <2>6. AdapterTypes
    BY <2>1, <2>2 DEF AdapterTypes
  <2> QED BY <2>3, <2>5, <2>6 DEF AdaptersInv, StoredOnce
<1>2. AdaptersInv /\ [AdaptersNext]_adapterVars => AdaptersInv'
  <2> SUFFICES ASSUME AdaptersInv, [AdaptersNext]_adapterVars PROVE AdaptersInv'
    OBVIOUS
  <2>1. CASE \E batch \in Batches : Receive(batch)
    BY <2>1, ReceiveOk
  <2>2. ASSUME NEW p \in DOMAIN post, TakeItem(p) PROVE AdaptersInv'
    BY <2>2, TakeItemOk
  <2>3. ASSUME NEW p \in DOMAIN post, PublishOk(p) PROVE AdaptersInv'
    <3>1. /\ post[p].pc = "publish" /\ Stores(p) /\ Count("published") /\ NextItem(p, "published")
          /\ UNCHANGED outages
      BY <2>3 DEF PublishOk
    <3> QED BY <3>1, ItemDone
  <2>4. ASSUME NEW p \in DOMAIN post, PublishExpires(p) PROVE AdaptersInv'
    <3>1. /\ post[p].pc = "publish" /\ UNCHANGED stored /\ Count("errors") /\ NextItem(p, "dropped")
          /\ UNCHANGED outages
      BY <2>4 DEF PublishExpires
    <3> QED BY <3>1, ItemDone
  <2>5. ASSUME NEW p \in DOMAIN post, NEW taken \in BOOLEAN, PublishFails(p, taken) PROVE AdaptersInv'
    BY <2>5, PublishFailsOk
  <2>6. CASE UNCHANGED adapterVars
    <3>1. post' = post /\ stored' = stored /\ tally' = tally /\ outages' = outages
      BY <2>6 DEF adapterVars
    <3>2. HeldIds' = HeldIds /\ Publishing' = Publishing
      BY <3>1 DEF HeldIds, Publishing
    <3>3. (AdapterTypes /\ StoredOnce /\ Counted)'
      BY <3>1, <3>2 DEF AdaptersInv, AdapterTypes, StoredOnce, Counted
    <3>4. (\A p \in DOMAIN post : PostOk(p, post[p], HeldIds))'
      BY Zenon, <3>1, <3>2 DEF AdaptersInv
    <3>5. (\A i \in DOMAIN stored : MessageOk(stored[i]))'
      BY Zenon, <3>1 DEF AdaptersInv, MessageOk
    <3> QED BY <3>3, <3>4, <3>5 DEF AdaptersInv
  <2>7. ASSUME NEW i \in DOMAIN stored, WindowEnds(i) PROVE AdaptersInv'
    BY <2>7, WindowEndsOk
  <2> QED BY <2>1, <2>2, <2>3, <2>4, <2>5, <2>6, <2>7 DEF AdaptersNext
<1> QED BY <1>1, <1>2, AdaptersTruth, PTL DEF AdaptersSpec
=============================================================================
