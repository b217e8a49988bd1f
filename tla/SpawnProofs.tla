----------------------------- MODULE SpawnProofs -----------------------------
(***************************************************************************)
(* Proofs about Spawn: sandboxes, registered agents and their parents come *)
(* and go together, and the caps of the spawn tree hold, for any number of *)
(* agents and of concurrent deletes, any caps, and any failures and        *)
(* restarts.                                                               *)
(***************************************************************************)
EXTENDS Spawn, FiniteSetTheorems, TLAPS

(* The behaviours of one controller within the bounds of a scope.          *)
SpawnSpec(bounds) == SpawnInit(bounds) /\ [][SpawnNext]_spawnVars

Early == {"new", "checked", "boxed", "ready", "exposed", "provisioned", "policed", "denied"}
Late == {"registered", "started", "done", "refused", "lost"}
Stages == Early \cup Late \cup {"rollback"}
LogEvents == {"provisioned", "started", "failed", "terminated"}
Announced == {"provisioned", "policed", "denied"}
Resolved == Profiles \cup {DefaultProfile}
Payloads == [parent : Agents \cup {Root}, profile : Resolved]
Frames == [id : Agents, todo : SUBSET Agents, doomed : SUBSET Agents, at : {"children", "listed", "box"}]
Pasts == [capRace : SUBSET Agents, lateChild : SUBSET Agents, unboxed : SUBSET Agents,
          overwrote : SUBSET Agents, unrecorded : SUBSET Agents, unlogged : SUBSET Agents,
          untold : SUBSET Agents, given : [Agents -> Profiles]]

SpawnTypes ==
    /\ parent \in [Agents -> Agents \cup {Root}] /\ link \in [Agents -> Agents \cup {Root}]
    /\ profile \in [Agents -> Resolved] /\ payload \in [Agents -> Payloads]
    /\ stage \in [Agents -> Stages]
    /\ box \in SUBSET Agents /\ agents \in SUBSET Agents
    /\ elog \in [Agents -> Seq(LogEvents)]
    /\ deletion \in [Deleters -> Seq(Frames)]
    /\ spawnPast \in Pasts

(* Create goes in order: no log before the mint, no sandbox before         *)
(* CreateSandbox, no registration before Registers or after its undoing.   *)
InOrder ==
    \A a \in Agents :
        /\ stage[a] = "new" => elog[a] = <<>>
        /\ stage[a] \in {"new", "checked"} => a \notin box
        /\ stage[a] \in Early \cup {"rollback"} => a \notin agents

(* What an agent was created with is in memory, and in its log from        *)
(* agent.provisioned on, unless that append was refused.                   *)
Recorded ==
    /\ spawnPast.unlogged \subseteq spawnPast.untold
    /\ \A a \in Agents \ spawnPast.unlogged :
        /\ link[a] = parent[a]
        /\ elog[a] # <<>> => payload[a].parent = parent[a] /\ payload[a].profile = profile[a]
        /\ stage[a] \in Announced \/ a \in agents => elog[a] # <<>>

(* The registered agents that a cascade of their parent has to find.       *)
Placed == agents \ (spawnPast.lateChild \cup spawnPast.unlogged)

(* A delete has the agent out of the map and its sandbox still to remove.  *)
Unboxing(a) == \E d \in Deleters : \E i \in DOMAIN deletion[d] : deletion[d][i].id = a /\ deletion[d][i].at = "box"

(* A sandbox whose create is over is owned, or about to be removed.        *)
BoxOwned ==
    \A a \in box \ spawnPast.unboxed : stage[a] \in Late => a \in agents \/ Unboxing(a)

(* An agent that deleteOne took out of the map does not come back.         *)
GoneForGood ==
    \A a \in Agents : Unboxing(a) => a \notin agents /\ stage[a] \notin Early

(* The children of an agent in a cascade are still to be visited, or the   *)
(* cascade is in one of them.                                              *)
Visits(frames) ==
    \A i \in DOMAIN frames : \A c \in Placed :
        parent[c] = frames[i].id =>
            (frames[i].at = "children" /\ c \in frames[i].todo) \/ (i + 1 \in DOMAIN frames /\ frames[i + 1].id = c)

CascadeComplete == \A d \in Deleters : Visits(deletion[d])

(* The sandboxes of a parent, those about to be created included.          *)
Claimed(p) == {c \in Agents : parent[c] = p /\ (c \in box \/ stage[c] = "checked")}

ClaimsCapped == \A p \in Agents : Cardinality(Claimed(p) \ spawnPast.capRace) <= SpawnMaxChildren

SpawnInv ==
    /\ SpawnTypes /\ InOrder /\ Recorded /\ BoxOwned /\ GoneForGood /\ CascadeComplete /\ ClaimsCapped
    /\ RegisteredHasSandbox /\ NoOrphanedChild

-----------------------------------------------------------------------------
(* The frames below the top of a cascade stay when the top is replaced.    *)
LEMMA FrontFacts ==
    ASSUME NEW S, NEW s \in Seq(S), s # <<>>
    PROVE  /\ Len(s) \in Nat \ {0} /\ DOMAIN s = 1..Len(s) /\ LastOf(s) = s[Len(s)] /\ LastOf(s) \in S
           /\ FrontOf(s) \in Seq(S) /\ Len(FrontOf(s)) = Len(s) - 1
           /\ \A i \in 1..(Len(s) - 1) : FrontOf(s)[i] = s[i]
<1>1. Len(s) \in Nat \ {0} /\ DOMAIN s = 1..Len(s)
  OBVIOUS
<1>2. LastOf(s) = s[Len(s)] /\ s[Len(s)] \in S
  BY <1>1 DEF LastOf
<1>3. Len(s) - 1 \in 0..Len(s)
  BY <1>1
<1>4. FrontOf(s) = SubSeq(s, 1, Len(s) - 1)
  BY DEF FrontOf
<1>5. FrontOf(s) \in Seq(S) /\ Len(FrontOf(s)) = Len(s) - 1
  BY <1>1, <1>3, <1>4
<1>6. \A i \in 1..(Len(s) - 1) : FrontOf(s)[i] = s[i]
  BY <1>1, <1>3, <1>4
<1> QED  BY <1>1, <1>2, <1>5, <1>6

(* ... and the top is what it is replaced by.                              *)
LEMMA ReplaceTop ==
    ASSUME NEW S, NEW s \in Seq(S), s # <<>>, NEW x \in S
    PROVE  LET t == Append(FrontOf(s), x) IN
           /\ t \in Seq(S) /\ Len(t) = Len(s) /\ DOMAIN t = DOMAIN s /\ t[Len(s)] = x
           /\ \A i \in DOMAIN s : i # Len(s) => t[i] = s[i]
<1>1. /\ Len(s) \in Nat \ {0} /\ DOMAIN s = 1..Len(s)
      /\ FrontOf(s) \in Seq(S) /\ Len(FrontOf(s)) = Len(s) - 1
      /\ \A i \in 1..(Len(s) - 1) : FrontOf(s)[i] = s[i]
  BY FrontFacts
<1> DEFINE f == FrontOf(s)
           t == Append(f, x)
<1>f. f \in Seq(S)
  BY <1>1
<1> HIDE DEF f
<1>2. /\ t \in Seq(S) /\ Len(t) = Len(f) + 1 /\ t[Len(f) + 1] = x
      /\ DOMAIN t = 1..Len(t) /\ \A i \in 1..Len(f) : t[i] = f[i]
  BY <1>f
<1> HIDE DEF t
<1>3. Len(f) + 1 = Len(s)
  BY <1>1 DEF f
<1>4. \A i \in 1..(Len(s) - 1) : t[i] = s[i]
  BY <1>1, <1>2, <1>3 DEF f
<1>5. \A i \in DOMAIN s : i # Len(s) => t[i] = s[i]
  BY <1>1, <1>4
<1>6. DOMAIN t = DOMAIN s
  BY Zenon, <1>1, <1>2, <1>3
<1>7. t = Append(FrontOf(s), x)
  BY DEF t, f
<1> QED  BY <1>2, <1>3, <1>5, <1>6, <1>7

(* A frame pushed on a cascade.                                            *)
LEMMA PushFrame ==
    ASSUME NEW S, NEW s \in Seq(S), s # <<>>, NEW x \in S, NEW y \in S
    PROVE  LET t == Append(FrontOf(s) \o <<x>>, y) IN
           /\ t \in Seq(S) /\ Len(t) = Len(s) + 1 /\ DOMAIN t = 1..(Len(s) + 1)
           /\ t[Len(s)] = x /\ t[Len(s) + 1] = y
           /\ \A i \in DOMAIN s : i # Len(s) => t[i] = s[i]
<1>1. /\ Len(s) \in Nat \ {0} /\ DOMAIN s = 1..Len(s)
      /\ FrontOf(s) \in Seq(S) /\ Len(FrontOf(s)) = Len(s) - 1
      /\ \A i \in 1..(Len(s) - 1) : FrontOf(s)[i] = s[i]
  BY FrontFacts
<1> DEFINE u == Append(FrontOf(s), x)
           t == Append(u, y)
<1>2. FrontOf(s) \o <<x>> = u
  BY <1>1
<1>3. /\ u \in Seq(S) /\ Len(u) = Len(s) /\ u[Len(s)] = x
      /\ \A i \in DOMAIN s : i # Len(s) => u[i] = s[i]
  BY ReplaceTop
<1> HIDE DEF u
<1>4. t \in Seq(S) /\ Len(t) = Len(s) + 1 /\ t[Len(s) + 1] = y /\ DOMAIN t = 1..Len(t)
  BY <1>1, <1>3
<1>5. \A i \in 1..Len(s) : t[i] = u[i]
  BY <1>1, <1>3
<1> HIDE DEF t
<1>6. /\ DOMAIN t = 1..(Len(s) + 1) /\ t[Len(s)] = x
      /\ \A i \in DOMAIN s : i # Len(s) => t[i] = s[i]
  BY <1>1, <1>3, <1>4, <1>5
<1>7. Append(FrontOf(s) \o <<x>>, y) = t
  BY <1>2 DEF t
<1> QED  BY Zenon, <1>4, <1>6, <1>7

-----------------------------------------------------------------------------
(* A parent has finitely many claims, and fewer of them fit as well.       *)
LEMMA FewerClaims ==
    ASSUME ClaimsCapped, spawnPast.capRace \subseteq spawnPast'.capRace,
           \A p \in Agents : Claimed(p)' \subseteq Claimed(p)
    PROVE  ClaimsCapped'
<1> SUFFICES ASSUME NEW p \in Agents
             PROVE  Cardinality(Claimed(p)' \ spawnPast'.capRace) <= SpawnMaxChildren
  BY DEF ClaimsCapped
<1> DEFINE A == Claimed(p) \ spawnPast.capRace
           B == Claimed(p)' \ spawnPast'.capRace
<1>1. IsFiniteSet(A)
  BY FS_Subset, SpawnCaps DEF Claimed
<1>2. B \in SUBSET A
  OBVIOUS
<1>3. Cardinality(A) <= SpawnMaxChildren
  BY DEF ClaimsCapped
<1> HIDE DEF A, B
<1>4. Cardinality(B) <= Cardinality(A) /\ IsFiniteSet(B)
  BY <1>1, <1>2, FS_Subset
<1>5. Cardinality(A) \in Nat /\ Cardinality(B) \in Nat /\ SpawnMaxChildren \in Nat
  BY <1>1, <1>4, FS_CardinalityType, SpawnCaps
<1>6. Cardinality(B) <= SpawnMaxChildren
  BY <1>3, <1>4, <1>5
<1> QED  BY <1>6 DEF B

(* A cascade that does not move stays complete while no child is added.    *)
LEMMA CascadeKept ==
    ASSUME CascadeComplete, UNCHANGED deletion, Placed' \subseteq Placed,
           \A c \in agents' : parent'[c] = parent[c]
    PROVE  CascadeComplete'
<1>1. \A c \in Placed' : c \in Placed /\ parent'[c] = parent[c]
  BY DEF Placed
<1> QED  BY <1>1 DEF CascadeComplete, Visits

(* A log that has its agent.provisioned keeps it while the create moves on *)
(* and the events of a registered agent follow.                            *)
LEMMA RecordedMoves ==
    ASSUME SpawnTypes, Recorded, NEW a \in Agents, NEW s, To(a, s),
           UNCHANGED <<parent, link, profile, payload>>, agents' \subseteq agents,
           spawnPast'.unlogged = spawnPast.unlogged, spawnPast'.untold = spawnPast.untold,
           s \in Announced => stage[a] \in Announced,
           \A b \in Agents \ {a} : elog'[b] = elog[b],
           elog'[a] = elog[a] \/ (a \in agents /\ elog'[a] # <<>>)
    PROVE  Recorded'
<1>1. \A b \in Agents : stage'[b] = IF b = a THEN s ELSE stage[b]
  BY DEF To, SpawnTypes
<1> SUFFICES ASSUME NEW b \in Agents \ spawnPast.unlogged
             PROVE  /\ elog'[b] # <<>> => elog[b] # <<>>
                    /\ stage'[b] \in Announced \/ b \in agents' => elog'[b] # <<>>
  BY Zenon DEF Recorded
<1>2. stage[b] \in Announced \/ b \in agents => elog[b] # <<>>
  BY Zenon DEF Recorded
<1>3. CASE b = a
  BY <1>1, <1>2, <1>3
<1>4. CASE b # a
  BY <1>1, <1>2, <1>4
<1> QED  BY <1>3, <1>4

(* A create that only moves on, or writes to its own log, after its checks *)
(* and without touching sandboxes or the map.                              *)
LEMMA StageMoves ==
    ASSUME SpawnInv, NEW a \in Agents, NEW s \in Stages \ {"new", "checked"}, To(a, s),
           UNCHANGED <<parent, link, profile, box, agents, deletion>>,
           payload' \in [Agents -> Payloads], Recorded',
           elog' \in [Agents -> Seq(LogEvents)], \A b \in Agents \ {a} : elog'[b] = elog[b],
           spawnPast' \in Pasts, spawnPast'.capRace = spawnPast.capRace,
           spawnPast'.lateChild = spawnPast.lateChild, spawnPast'.unboxed = spawnPast.unboxed,
           spawnPast.unlogged \subseteq spawnPast'.unlogged,
           s \in Early \cup {"rollback"} => stage[a] \in Early,
           s \in Late => a \notin box \/ stage[a] \in Late
    PROVE  SpawnInv'
<1>1. /\ stage' \in [Agents -> Stages] /\ stage'[a] = s
      /\ \A b \in Agents \ {a} : stage'[b] = stage[b]
  BY DEF To, SpawnInv, SpawnTypes
<1>2. SpawnTypes'
  BY <1>1 DEF SpawnInv, SpawnTypes
<1>3. InOrder'
  BY <1>1 DEF SpawnInv, InOrder
<1>4. \A b \in Agents : Unboxing(b)' <=> Unboxing(b)
  BY DEF Unboxing
<1>5. BoxOwned'
  BY Zenon, <1>1, <1>4 DEF SpawnInv, BoxOwned, SpawnTypes
<1>6. GoneForGood'
  BY <1>1, <1>4 DEF SpawnInv, GoneForGood, Early
<1>7. CascadeComplete'
  BY CascadeKept DEF SpawnInv, Placed
<1>8. ClaimsCapped'
  <2>1. \A p \in Agents : Claimed(p)' \subseteq Claimed(p)
    BY <1>1 DEF Claimed
  <2> QED  BY <2>1, FewerClaims DEF SpawnInv
<1>9. RegisteredHasSandbox' /\ NoOrphanedChild'
  BY DEF SpawnInv, RegisteredHasSandbox, NoOrphanedChild
<1> QED  BY <1>2, <1>3, <1>5, <1>6, <1>7, <1>8, <1>9 DEF SpawnInv

(* ... the log of the provisioning included.                               *)
LEMMA StageMovesOn ==
    ASSUME SpawnInv, NEW a \in Agents, NEW s \in Stages \ {"new", "checked"}, To(a, s),
           UNCHANGED <<identity, box, agents, deletion>>,
           \/ UNCHANGED elog
           \/ a \in agents /\ \E ev \in LogEvents : elog' = [elog EXCEPT ![a] = Append(elog[a], ev)],
           spawnPast' \in Pasts, spawnPast'.capRace = spawnPast.capRace,
           spawnPast'.lateChild = spawnPast.lateChild, spawnPast'.unboxed = spawnPast.unboxed,
           spawnPast'.unlogged = spawnPast.unlogged, spawnPast'.untold = spawnPast.untold,
           s \in Announced => stage[a] \in Announced,
           s \in Early \cup {"rollback"} => stage[a] \in Early,
           s \in Late => a \notin box \/ stage[a] \in Late
    PROVE  SpawnInv'
<1>1. UNCHANGED <<parent, link, profile, payload>>
  BY DEF identity
<1>2. /\ elog' \in [Agents -> Seq(LogEvents)] /\ \A b \in Agents \ {a} : elog'[b] = elog[b]
      /\ elog'[a] = elog[a] \/ (a \in agents /\ elog'[a] # <<>>)
  <2>1. elog \in [Agents -> Seq(LogEvents)]
    BY DEF SpawnInv, SpawnTypes
  <2>2. CASE UNCHANGED elog
    BY <2>1, <2>2
  <2>3. ASSUME NEW ev \in LogEvents, a \in agents, elog' = [elog EXCEPT ![a] = Append(elog[a], ev)]
        PROVE  /\ elog' \in [Agents -> Seq(LogEvents)] /\ \A b \in Agents \ {a} : elog'[b] = elog[b]
               /\ elog'[a] # <<>>
    <3>1. elog[a] \in Seq(LogEvents)
      BY <2>1
    <3>2. PICK e : e = Append(elog[a], ev)
      OBVIOUS
    <3>3. e \in Seq(LogEvents) /\ e # <<>>
      BY <3>1, <3>2
    <3>4. elog' = [elog EXCEPT ![a] = e]
      BY Zenon, <2>3, <3>2
    <3> QED  BY <2>1, <3>3, <3>4
  <2> QED  BY <2>2, <2>3
<1>3. Recorded'
  BY <1>1, <1>2, RecordedMoves DEF SpawnInv
<1>4. payload' \in [Agents -> Payloads]
  BY <1>1 DEF SpawnInv, SpawnTypes
<1> QED  BY <1>1, <1>2, <1>3, <1>4, StageMoves

(* WaitReady, ExposeDaemon, the policy and the deny merge.                 *)
LEMMA GatewayInv ==
    ASSUME SpawnInv, NEW a \in Agents,
           WaitReady(a) \/ ExposeDaemon(a) \/ ApplyPolicy(a) \/ ApplyDeny(a)
    PROVE  SpawnInv'
<1>1. PICK from \in Early, next \in Early \ {"new", "checked"} :
        GatewayStep(a, from, next) /\ (next \in Announced => from \in Announced)
  <2>1. CASE WaitReady(a)
    BY <2>1 DEF WaitReady, Early, Announced
  <2>2. CASE ExposeDaemon(a)
    BY <2>2 DEF ExposeDaemon, Early, Announced
  <2>3. CASE ApplyPolicy(a)
    BY <2>3 DEF ApplyPolicy, Early, Announced
  <2>4. CASE ApplyDeny(a)
    BY <2>4 DEF ApplyDeny, Early, Announced
  <2> QED  BY <2>1, <2>2, <2>3, <2>4
<1>2. /\ UNCHANGED <<identity, box, elog, agents, deletion, spawnPast>> /\ stage[a] = from
      /\ To(a, next) \/ To(a, "rollback")
  BY <1>1 DEF GatewayStep
<1>3. spawnPast' \in Pasts
  BY <1>2 DEF SpawnInv, SpawnTypes
<1>4. next \in Stages \ {"new", "checked"} /\ "rollback" \in Stages \ {"new", "checked"}
      /\ next \notin Late /\ "rollback" \notin Late /\ "rollback" \notin Announced
  BY <1>1 DEF Stages, Early, Late, Announced
<1> QED  BY <1>1, <1>2, <1>3, <1>4, StageMovesOn

(* The provisioning event is the first of the log, or is lost.             *)
LEMMA ProvisionedInv == ASSUME SpawnInv, NEW a \in Agents, Provisioned(a) PROVE SpawnInv'
<1>1. /\ UNCHANGED <<parent, link, profile, box, agents, deletion>> /\ stage[a] = "exposed" /\ stage[a] \in Early
      /\ To(a, "provisioned")
  BY DEF Provisioned, Early
<1>2. "provisioned" \in Stages \ {"new", "checked"} /\ "provisioned" \notin Late
  BY DEF Stages, Early, Late
<1>3. \A b \in Agents : stage'[b] = IF b = a THEN "provisioned" ELSE stage[b]
  BY <1>1 DEF To, SpawnInv, SpawnTypes
<1>4. elog \in [Agents -> Seq(LogEvents)] /\ elog[a] \in Seq(LogEvents) /\ spawnPast \in Pasts
      /\ parent[a] \in Agents \cup {Root} /\ profile[a] \in Resolved /\ payload \in [Agents -> Payloads]
  BY DEF SpawnInv, SpawnTypes
<1>5. CASE /\ elog' = [elog EXCEPT ![a] = Append(@, "provisioned")]
           /\ payload' = [payload EXCEPT ![a] = [parent |-> parent[a], profile |-> profile[a]]]
           /\ UNCHANGED spawnPast
  <2>1. "provisioned" \in LogEvents
    BY DEF LogEvents
  <2>2. PICK e : e = Append(elog[a], "provisioned")
    OBVIOUS
  <2>e. e \in Seq(LogEvents) /\ e # <<>> /\ elog' = [elog EXCEPT ![a] = e]
    BY <1>4, <1>5, <2>1, <2>2
  <2>3. elog' \in [Agents -> Seq(LogEvents)] /\ (\A b \in Agents \ {a} : elog'[b] = elog[b]) /\ elog'[a] # <<>>
    BY <1>4, <2>e
  <2>4. /\ payload' \in [Agents -> Payloads] /\ \A b \in Agents \ {a} : payload'[b] = payload[b]
        /\ payload'[a].parent = parent[a] /\ payload'[a].profile = profile[a]
    BY <1>4, <1>5 DEF Payloads
  <2>5. Recorded'
    BY <1>1, <1>3, <1>5, <2>3, <2>4 DEF SpawnInv, Recorded
  <2> QED  BY <1>1, <1>2, <1>4, <1>5, <2>3, <2>4, <2>5, StageMoves
<1>6. CASE /\ spawnPast' = [spawnPast EXCEPT !.unlogged = @ \cup {a}, !.untold = @ \cup {a}]
           /\ UNCHANGED <<elog, payload>>
  <2>1. /\ spawnPast' \in Pasts /\ spawnPast'.capRace = spawnPast.capRace
        /\ spawnPast'.lateChild = spawnPast.lateChild /\ spawnPast'.unboxed = spawnPast.unboxed
        /\ spawnPast'.unlogged = spawnPast.unlogged \cup {a} /\ spawnPast'.untold = spawnPast.untold \cup {a}
    BY <1>4, <1>6 DEF Pasts
  <2>2. Recorded'
    BY <1>1, <1>3, <1>6, <2>1 DEF SpawnInv, Recorded
  <2> QED  BY <1>1, <1>2, <1>4, <1>6, <2>1, <2>2, StageMoves
<1> QED  BY <1>5, <1>6 DEF Provisioned

(* The last assignment of Create.                                          *)
LEMMA ReadiesInv == ASSUME SpawnInv, NEW a \in Agents, Readies(a) PROVE SpawnInv'
<1>1. /\ UNCHANGED <<identity, box, agents, deletion, elog>> /\ stage[a] \in Late /\ To(a, "done")
      /\ spawnPast' = [spawnPast EXCEPT !.overwrote = @ \cup (IF astatus[a] = "creating" THEN {} ELSE {a})]
  BY DEF Readies, Late
<1>2. /\ spawnPast' \in Pasts /\ spawnPast'.capRace = spawnPast.capRace
      /\ spawnPast'.lateChild = spawnPast.lateChild /\ spawnPast'.unboxed = spawnPast.unboxed
      /\ spawnPast'.unlogged = spawnPast.unlogged /\ spawnPast'.untold = spawnPast.untold
  BY Zenon, <1>1 DEF SpawnInv, SpawnTypes, Pasts
<1>3. "done" \in Stages \ {"new", "checked"} /\ "done" \notin Early \cup {"rollback"} /\ "done" \notin Announced
  BY DEF Stages, Early, Late, Announced
<1> QED  BY <1>1, <1>2, <1>3, StageMovesOn

(* fail sets the status and writes the event, whatever Create is at.       *)
LEMMA FailsInv == ASSUME SpawnInv, NEW a \in Agents, Fails(a) PROVE SpawnInv'
<1>1. /\ UNCHANGED <<identity, box, agents, deletion, stage>> /\ a \in agents
      /\ \/ elog' = [elog EXCEPT ![a] = Append(@, "failed")] /\ UNCHANGED spawnPast
         \/ UNCHANGED elog /\ spawnPast' = [spawnPast EXCEPT !.unrecorded = @ \cup {a}]
  BY DEF Fails
<1>2. To(a, stage[a])
  BY <1>1 DEF To, SpawnInv, SpawnTypes
<1>3. stage[a] \in Late
  <2>1. stage[a] \in Stages /\ stage[a] \notin Early \cup {"rollback"}
    BY <1>1 DEF SpawnInv, SpawnTypes, InOrder
  <2> QED  BY <2>1 DEF Stages
<1>4. stage[a] \in Stages \ {"new", "checked"} /\ stage[a] \notin Early \cup {"rollback"}
  BY <1>3 DEF Stages, Early, Late
<1>5. /\ spawnPast' \in Pasts /\ spawnPast'.capRace = spawnPast.capRace
      /\ spawnPast'.lateChild = spawnPast.lateChild /\ spawnPast'.unboxed = spawnPast.unboxed
      /\ spawnPast'.unlogged = spawnPast.unlogged /\ spawnPast'.untold = spawnPast.untold
  <2>1. spawnPast \in Pasts
    BY DEF SpawnInv, SpawnTypes
  <2>2. CASE UNCHANGED spawnPast
    BY <2>1, <2>2
  <2>3. CASE spawnPast' = [spawnPast EXCEPT !.unrecorded = @ \cup {a}]
    BY Zenon, <2>1, <2>3 DEF Pasts
  <2> QED  BY <1>1, <2>2, <2>3
<1>6. UNCHANGED elog \/ (a \in agents /\ \E ev \in LogEvents : elog' = [elog EXCEPT ![a] = Append(elog[a], ev)])
  BY <1>1 DEF LogEvents
<1> QED  BY <1>1, <1>2, <1>3, <1>4, <1>5, <1>6, StageMovesOn

(* What CreateChecks notes: the child that raced, and the child that       *)
(* inherits from an agent whose agent.provisioned was lost.                *)
Notes(a, p, o, listed, more, untold) ==
    /\ ~Crowded(p, listed)
    /\ spawnPast' = [spawnPast EXCEPT !.capRace = @ \cup more, !.untold = @ \cup untold, !.given[a] = o]
    /\ p # Root /\ a \notin more =>
         (\A c \in Children(p) : stage[c] # "checked") /\ (listed \/ ListedChildren(p) \subseteq KnownChildren(p))
    /\ o = "" /\ p \in spawnPast.untold => a \in untold

(* Every check leaves such a note.                                         *)
LEMMA ChecksPast ==
    ASSUME NEW a \in Agents, NEW p \in Agents \cup {Root}, NEW o \in Profiles, CreateChecks(a, p, o)
    PROVE  \E listed \in {TRUE, FALSE}, more \in SUBSET {a}, untold \in SUBSET {a} :
             Notes(a, p, o, listed, more, untold)
<1> DEFINE races(l) == p # Root /\ ((\E c \in Children(p) : stage[c] = "checked")
                                   \/ (~l /\ ~(ListedChildren(p) \subseteq KnownChildren(p))))
           more(l) == IF races(l) THEN {a} ELSE {}
           untold == IF o = "" /\ p \in spawnPast.untold THEN {a} ELSE {}
<1>1. PICK l \in {TRUE, FALSE} :
        /\ ~Crowded(p, l)
        /\ spawnPast' = [spawnPast EXCEPT !.capRace = @ \cup more(l), !.untold = @ \cup untold, !.given[a] = o]
  BY Zenon DEF CreateChecks
<1>2. more(l) \in SUBSET {a} /\ untold \in SUBSET {a}
  OBVIOUS
<1>3. p # Root /\ a \notin more(l) =>
                   ((\A c \in Children(p) : stage[c] # "checked") /\ (l \/ ListedChildren(p) \subseteq KnownChildren(p)))
  BY Zenon
<1>4. o = "" /\ p \in spawnPast.untold => a \in untold
  BY Zenon
<1>5. Notes(a, p, o, l, more(l), untold)
  BY <1>1, <1>3, <1>4 DEF Notes
<1> HIDE DEF more, untold
<1> QED  BY Zenon, <1>1, <1>2, <1>5

(* checkSpawnCaps: the new claim fits, unless another check is under way.  *)
LEMMA ChecksInv ==
    ASSUME SpawnInv, NEW a \in Agents, NEW p \in Agents \cup {Root}, NEW o \in Profiles,
           CreateChecks(a, p, o)
    PROVE  SpawnInv'
<1>1. /\ stage[a] = "new" /\ parent' = [parent EXCEPT ![a] = p] /\ link' = [link EXCEPT ![a] = p]
      /\ To(a, "checked") /\ UNCHANGED <<box, elog, payload, agents, deletion>>
  BY Zenon DEF CreateChecks
<1>w. profile' = [profile EXCEPT ![a] = IF o # "" THEN o
                                       ELSE IF p # Root /\ profile[p] # "" THEN profile[p] ELSE DefaultProfile]
  BY Zenon DEF CreateChecks
<1>t. spawnPast \in Pasts /\ 0 \notin Agents /\ profile \in [Agents -> Resolved]
  BY SpawnCaps DEF SpawnInv, SpawnTypes
<1>n. PICK listed \in {TRUE, FALSE}, more \in SUBSET {a}, untold \in SUBSET {a} :
        Notes(a, p, o, listed, more, untold)
  BY Zenon, ChecksPast
<1>2. /\ ~Crowded(p, listed)
      /\ spawnPast' = [spawnPast EXCEPT !.capRace = @ \cup more, !.untold = @ \cup untold, !.given[a] = o]
      /\ p # Root /\ a \notin more =>
           (\A c \in Children(p) : stage[c] # "checked") /\ (listed \/ ListedChildren(p) \subseteq KnownChildren(p))
  BY <1>n DEF Notes
<1>v. /\ profile' \in [Agents -> Resolved] /\ \A b \in Agents \ {a} : profile'[b] = profile[b]
  <2>1. (IF o # "" THEN o ELSE IF p # Root /\ profile[p] # "" THEN profile[p] ELSE DefaultProfile) \in Resolved
    <3>1. o \in Resolved /\ DefaultProfile \in Resolved /\ (p # Root => profile[p] \in Resolved)
      BY <1>t DEF Resolved, Root
    <3> QED  BY Zenon, <3>1
  <2> QED  BY Zenon, <1>t, <1>w, <2>1
<1>3. /\ stage' \in [Agents -> Stages] /\ stage'[a] = "checked" /\ parent' \in [Agents -> Agents \cup {Root}]
      /\ parent'[a] = p /\ link' \in [Agents -> Agents \cup {Root}] /\ link'[a] = p
      /\ \A b \in Agents \ {a} : stage'[b] = stage[b] /\ parent'[b] = parent[b] /\ link'[b] = link[b]
  BY <1>1 DEF To, SpawnInv, SpawnTypes, Stages, Early
<1>4. /\ spawnPast' \in Pasts /\ spawnPast'.capRace = spawnPast.capRace \cup more
      /\ spawnPast'.lateChild = spawnPast.lateChild /\ spawnPast'.unboxed = spawnPast.unboxed
      /\ spawnPast'.unlogged = spawnPast.unlogged /\ spawnPast.untold \subseteq spawnPast'.untold
  BY <1>2, <1>t DEF Pasts
<1>5. a \notin agents /\ a \notin box /\ elog[a] = <<>> /\ ~Unboxing(a)
  BY <1>1 DEF SpawnInv, InOrder, GoneForGood, Early
<1>6. SpawnTypes'
  BY <1>1, <1>3, <1>4, <1>v DEF SpawnInv, SpawnTypes
<1>7. InOrder'
  BY <1>1, <1>3, <1>5 DEF SpawnInv, InOrder
<1>r. Recorded'
  <2>1. "checked" \notin Announced
    BY DEF Announced
  <2> SUFFICES ASSUME NEW b \in Agents \ spawnPast.unlogged
               PROVE  /\ link'[b] = parent'[b]
                      /\ elog[b] # <<>> => payload[b].parent = parent'[b] /\ payload[b].profile = profile'[b]
                      /\ stage'[b] \in Announced \/ b \in agents => elog[b] # <<>>
    BY <1>1, <1>4 DEF SpawnInv, Recorded
  <2>2. CASE b = a
    BY <1>3, <1>5, <2>1, <2>2
  <2>3. CASE b # a
    BY <1>3, <1>v, <2>3 DEF SpawnInv, Recorded
  <2> QED  BY <2>2, <2>3
<1>8. \A b \in Agents : Unboxing(b)' <=> Unboxing(b)
  BY <1>1 DEF Unboxing
<1>9. BoxOwned' /\ GoneForGood'
  BY <1>1, <1>3, <1>4, <1>5, <1>8 DEF SpawnInv, BoxOwned, GoneForGood, SpawnTypes
<1>10. \A c \in agents : parent'[c] = parent[c]
  BY <1>3, <1>5 DEF SpawnInv, SpawnTypes
<1>11. CascadeComplete'
  BY <1>1, <1>4, <1>10, CascadeKept DEF SpawnInv, Placed
<1>12. RegisteredHasSandbox' /\ NoOrphanedChild'
  BY <1>1, <1>4, <1>10 DEF SpawnInv, RegisteredHasSandbox, NoOrphanedChild
<1>13. ClaimsCapped'
  <2> SUFFICES ASSUME NEW q \in Agents
               PROVE  Cardinality(Claimed(q)' \ spawnPast'.capRace) <= SpawnMaxChildren
    BY DEF ClaimsCapped
  <2> DEFINE A == Claimed(q) \ spawnPast.capRace
             B == Claimed(q)' \ spawnPast'.capRace
  <2>1. IsFiniteSet(Claimed(q)) /\ SpawnMaxChildren \in Nat /\ IsFiniteSet(A) /\ Cardinality(A) <= SpawnMaxChildren
    BY FS_Subset, SpawnCaps DEF Claimed, SpawnInv, ClaimsCapped
  <2>2. CASE q # p \/ a \in more
    <3>1. B \in SUBSET A
      BY <1>1, <1>3, <1>4, <1>5, <2>2 DEF Claimed
    <3> HIDE DEF A, B
    <3>2. Cardinality(B) <= Cardinality(A) /\ Cardinality(A) \in Nat /\ Cardinality(B) \in Nat
      BY <2>1, <3>1, FS_Subset, FS_CardinalityType
    <3>3. Cardinality(B) <= SpawnMaxChildren
      BY <2>1, <3>2
    <3> QED  BY <3>3 DEF B
  <2>3. CASE q = p /\ a \notin more
    <3>1. B \in SUBSET (Claimed(q) \cup {a})
      BY <1>1, <1>3, <2>3 DEF Claimed
    <3>2. q # Root
      BY SpawnCaps DEF Root
    <3>3. Claimed(q) = ListedChildren(q)
      BY <1>2, <2>3, <3>2 DEF Claimed, ListedChildren, Children, SpawnInv, SpawnTypes
    <3>4. ~(Cardinality(Claimed(q)) >= SpawnMaxChildren)
      <4>1. CASE listed
        BY <1>2, <2>3, <3>2, <3>3, <4>1 DEF Crowded
      <4>2. CASE ~listed
        <5>1. Claimed(q) \in SUBSET KnownChildren(q)
          BY <1>2, <2>3, <3>2, <3>3, <4>2
        <5>2. IsFiniteSet(KnownChildren(q))
          BY FS_Subset, SpawnCaps DEF KnownChildren, SpawnInv, SpawnTypes
        <5>3. ~(Cardinality(KnownChildren(q)) >= SpawnMaxChildren)
          BY <1>2, <2>3, <3>2, <4>2 DEF Crowded
        <5>4. Cardinality(Claimed(q)) <= Cardinality(KnownChildren(q))
              /\ Cardinality(Claimed(q)) \in Nat /\ Cardinality(KnownChildren(q)) \in Nat
          BY <2>1, <5>1, <5>2, FS_Subset, FS_CardinalityType
        <5> QED  BY <2>1, <5>3, <5>4
      <4> QED  BY <1>n, <4>1, <4>2
    <3>5. a \notin Claimed(q)
      BY <1>1, <1>5 DEF Claimed
    <3>6. Cardinality(Claimed(q) \cup {a}) = Cardinality(Claimed(q)) + 1 /\ IsFiniteSet(Claimed(q) \cup {a})
      BY Zenon, <2>1, <3>5, FS_AddElement
    <3> HIDE DEF B
    <3>7. Cardinality(B) <= Cardinality(Claimed(q) \cup {a}) /\ IsFiniteSet(B)
      BY <3>1, <3>6, FS_Subset
    <3>8. Cardinality(B) \in Nat /\ Cardinality(Claimed(q)) \in Nat
      BY <2>1, <3>7, FS_CardinalityType
    <3>9. Cardinality(B) <= SpawnMaxChildren
      BY <2>1, <3>4, <3>6, <3>7, <3>8
    <3> QED  BY <3>9 DEF B
  <2> QED  BY <1>n, <2>2, <2>3
<1> QED  BY <1>6, <1>7, <1>r, <1>9, <1>11, <1>12, <1>13 DEF SpawnInv

(* CreateSandbox makes a claim a sandbox, or gives it up.                  *)
LEMMA BoxesInv == ASSUME SpawnInv, NEW a \in Agents, CreateBoxes(a) PROVE SpawnInv'
<1>1. /\ stage[a] = "checked" /\ UNCHANGED <<identity, elog, agents, deletion, spawnPast>>
      /\ \/ box' = box \cup {a} /\ To(a, "boxed")
         \/ To(a, "refused") /\ UNCHANGED box
  BY DEF CreateBoxes
<1>2. a \notin agents /\ a \notin box /\ ~Unboxing(a)
  BY <1>1 DEF SpawnInv, InOrder, GoneForGood, Early
<1>3. CASE To(a, "refused") /\ UNCHANGED box
  <2>1. spawnPast' \in Pasts
    BY <1>1 DEF SpawnInv, SpawnTypes
  <2>2. "refused" \in Stages \ {"new", "checked"} /\ "refused" \notin Early \cup {"rollback"} /\ "refused" \notin Announced
    BY DEF Stages, Early, Late, Announced
  <2> QED  BY <1>1, <1>2, <1>3, <2>1, <2>2, StageMovesOn
<1>4. CASE box' = box \cup {a} /\ To(a, "boxed")
  <2>1. /\ stage' \in [Agents -> Stages] /\ stage'[a] = "boxed"
        /\ \A b \in Agents \ {a} : stage'[b] = stage[b]
    BY <1>4 DEF To, SpawnInv, SpawnTypes, Stages, Early
  <2>2. SpawnTypes' /\ InOrder'
    BY <1>1, <1>2, <1>4, <2>1 DEF SpawnInv, SpawnTypes, InOrder, identity
  <2>r. Recorded'
    BY <1>1, <1>4, RecordedMoves DEF SpawnInv, identity, Announced
  <2>3. \A b \in Agents : Unboxing(b)' <=> Unboxing(b)
    BY <1>1 DEF Unboxing
  <2>4. BoxOwned' /\ GoneForGood'
    BY Zenon, <1>1, <1>2, <1>4, <2>1, <2>3 DEF SpawnInv, BoxOwned, GoneForGood, SpawnTypes, Late
  <2>5. CascadeComplete'
    BY <1>1, CascadeKept DEF SpawnInv, Placed, identity
  <2>6. \A p \in Agents : Claimed(p)' \subseteq Claimed(p)
    BY <1>1, <1>4, <2>1 DEF Claimed, identity
  <2>7. ClaimsCapped'
    BY <1>1, <2>6, FewerClaims DEF SpawnInv
  <2>8. RegisteredHasSandbox' /\ NoOrphanedChild'
    BY <1>1, <1>4 DEF SpawnInv, RegisteredHasSandbox, NoOrphanedChild, identity
  <2> QED  BY <2>2, <2>r, <2>4, <2>5, <2>7, <2>8 DEF SpawnInv
<1> QED  BY <1>1, <1>3, <1>4

(* The frames of a cascade.                                                *)
LEMMA FrameType ==
    ASSUME SpawnTypes, NEW d \in Deleters
    PROVE  /\ deletion[d] \in Seq(Frames) /\ DOMAIN deletion[d] = 1..Len(deletion[d])
           /\ Len(deletion[d]) \in Nat /\ \A i \in DOMAIN deletion[d] : deletion[d][i] \in Frames
<1>1. deletion[d] \in Seq(Frames)
  BY DEF SpawnTypes
<1> QED  BY <1>1

(* The registration: a child no cascade will visit any more is a late one. *)
LEMMA RegistersInv == ASSUME SpawnInv, NEW a \in Agents, Registers(a) PROVE SpawnInv'
<1>1. /\ stage[a] = "denied" /\ To(a, "registered") /\ agents' = agents \cup {a}
      /\ UNCHANGED <<parent, link, profile, payload, box, elog, deletion>>
      /\ spawnPast' = [spawnPast EXCEPT !.lateChild = @ \cup (IF Keeps(parent[a]) THEN {} ELSE {a}),
                                        !.unboxed = @ \cup ({a} \ box)]
  BY DEF Registers, identity
<1>2. /\ stage' \in [Agents -> Stages] /\ stage'[a] = "registered"
      /\ \A b \in Agents \ {a} : stage'[b] = stage[b]
  BY <1>1 DEF To, SpawnInv, SpawnTypes, Stages, Late
<1>3. /\ spawnPast' \in Pasts /\ spawnPast'.capRace = spawnPast.capRace
      /\ spawnPast.lateChild \subseteq spawnPast'.lateChild
      /\ spawnPast'.lateChild \subseteq spawnPast.lateChild \cup {a}
      /\ a \in spawnPast'.lateChild \/ Keeps(parent[a])
      /\ spawnPast'.unboxed = spawnPast.unboxed \cup ({a} \ box)
      /\ spawnPast'.unlogged = spawnPast.unlogged /\ spawnPast'.untold = spawnPast.untold
  BY Zenon, <1>1 DEF SpawnInv, SpawnTypes, Pasts
<1>4. ~Unboxing(a)
  BY <1>1 DEF SpawnInv, GoneForGood, Early
<1>5. \A b \in Agents : Unboxing(b)' <=> Unboxing(b)
  BY <1>1 DEF Unboxing
<1>6. SpawnTypes' /\ InOrder'
  BY <1>1, <1>2, <1>3 DEF SpawnInv, SpawnTypes, InOrder, Early
<1>r. Recorded'
  <2>1. "denied" \in Announced /\ "registered" \notin Announced
    BY DEF Announced
  <2> SUFFICES ASSUME NEW b \in Agents \ spawnPast.unlogged, stage'[b] \in Announced \/ b \in agents'
               PROVE  elog[b] # <<>>
    BY <1>1, <1>3 DEF SpawnInv, Recorded
  <2> QED  BY <1>1, <1>2, <2>1 DEF SpawnInv, Recorded
<1>7. BoxOwned' /\ GoneForGood'
  BY <1>1, <1>2, <1>3, <1>4, <1>5 DEF SpawnInv, BoxOwned, GoneForGood, SpawnTypes
<1>8. \A p \in Agents : Claimed(p)' \subseteq Claimed(p)
  BY <1>1, <1>2 DEF Claimed
<1>9. ClaimsCapped'
  BY <1>3, <1>8, FewerClaims DEF SpawnInv
<1>10. RegisteredHasSandbox'
  BY <1>1, <1>3 DEF SpawnInv, RegisteredHasSandbox
<1>11. parent[a] \in Agents \cup {Root} /\ Root \notin Agents
  BY SpawnCaps DEF SpawnInv, SpawnTypes, Root
<1>12. NoOrphanedChild'
  BY <1>1, <1>3, <1>11 DEF SpawnInv, NoOrphanedChild, Keeps
<1>13. CascadeComplete'
  <2> SUFFICES ASSUME NEW d \in Deleters, NEW i \in DOMAIN deletion[d],
                      NEW c \in Placed', parent[c] = deletion[d][i].id
               PROVE  \/ deletion[d][i].at = "children" /\ c \in deletion[d][i].todo
                      \/ (i + 1 \in DOMAIN deletion[d] /\ deletion[d][i + 1].id = c)
    BY <1>1 DEF CascadeComplete, Visits
  <2>1. deletion[d][i].id \in Agents
    BY FrameType DEF SpawnInv, Frames
  <2>2. c # a
    BY <1>3, <1>11, <2>1 DEF Keeps, Placed
  <2>3. c \in Placed
    BY <1>1, <1>3, <2>2 DEF Placed
  <2> QED  BY <2>3 DEF SpawnInv, CascadeComplete, Visits
<1> QED  BY <1>6, <1>r, <1>7, <1>9, <1>10, <1>12, <1>13 DEF SpawnInv

(* The transition to ready: written, or the registration is undone.        *)
LEMMA StartsInv == ASSUME SpawnInv, NEW a \in Agents, Starts(a) PROVE SpawnInv'
<1>1. stage[a] = "registered" /\ UNCHANGED <<identity, box, deletion>>
  BY DEF Starts
<1>2. CASE /\ a \in agents /\ elog' = [elog EXCEPT ![a] = Append(@, "started")] /\ To(a, "started")
           /\ UNCHANGED <<agents, spawnPast>>
  <2>1. \E ev \in LogEvents : elog' = [elog EXCEPT ![a] = Append(elog[a], ev)]
    BY <1>2 DEF LogEvents
  <2>2. spawnPast' \in Pasts
    BY <1>2 DEF SpawnInv, SpawnTypes
  <2>3. "started" \in Stages \ {"new", "checked"} /\ "started" \notin Early \cup {"rollback"}
        /\ "started" \notin Announced /\ stage[a] \in Late
    BY <1>1 DEF Stages, Early, Late, Announced
  <2> QED  BY <1>1, <1>2, <2>1, <2>2, <2>3, StageMovesOn
<1>3. CASE /\ agents' = agents \ {a} /\ To(a, "rollback") /\ UNCHANGED elog
           /\ spawnPast' = [spawnPast EXCEPT !.lateChild = @ \cup KnownChildren(a)]
  <2>p. UNCHANGED <<parent, link, profile, payload, box, deletion>>
    BY <1>1 DEF identity
  <2>1. /\ stage' \in [Agents -> Stages] /\ stage'[a] = "rollback"
        /\ \A b \in Agents \ {a} : stage'[b] = stage[b]
    BY <1>3 DEF To, SpawnInv, SpawnTypes, Stages
  <2>2. /\ spawnPast' \in Pasts /\ spawnPast'.capRace = spawnPast.capRace
        /\ spawnPast'.lateChild = spawnPast.lateChild \cup KnownChildren(a)
        /\ spawnPast'.unboxed = spawnPast.unboxed
        /\ spawnPast'.unlogged = spawnPast.unlogged /\ spawnPast'.untold = spawnPast.untold
    BY Zenon, <1>3 DEF SpawnInv, SpawnTypes, Pasts, KnownChildren
  <2>3. \A b \in Agents : Unboxing(b)' <=> Unboxing(b)
    BY <2>p DEF Unboxing
  <2>4. SpawnTypes' /\ InOrder'
    BY <1>1, <1>3, <2>p, <2>1, <2>2 DEF SpawnInv, SpawnTypes, InOrder
  <2>r. Recorded'
    BY <1>3, <2>p, <2>2, RecordedMoves DEF SpawnInv, Announced
  <2>5. BoxOwned' /\ GoneForGood'
    BY <1>1, <1>3, <2>p, <2>1, <2>2, <2>3 DEF SpawnInv, BoxOwned, GoneForGood, SpawnTypes, Late, Early
  <2>6. \A p \in Agents : Claimed(p)' \subseteq Claimed(p)
    BY <2>p, <2>1 DEF Claimed
  <2>7. ClaimsCapped'
    BY <2>2, <2>6, FewerClaims DEF SpawnInv
  <2>8. RegisteredHasSandbox'
    BY <1>3, <2>p, <2>2 DEF SpawnInv, RegisteredHasSandbox
  <2>o. NoOrphanedChild'
    <3> SUFFICES ASSUME NEW c \in agents' \ (spawnPast'.lateChild \cup spawnPast'.unlogged)
                 PROVE  parent[c] \in agents' \cup {Root}
      BY <2>p DEF NoOrphanedChild
    <3>1. c \in agents /\ c \in Agents /\ c \notin KnownChildren(a) /\ c \notin spawnPast.lateChild \cup spawnPast.unlogged
      BY <1>3, <2>2 DEF SpawnInv, SpawnTypes
    <3>2. link[c] = parent[c] /\ link[c] # a
      BY <3>1 DEF SpawnInv, Recorded, KnownChildren
    <3> QED  BY <1>3, <3>1, <3>2 DEF SpawnInv, NoOrphanedChild
  <2>9. CascadeComplete'
    BY <1>3, <2>p, <2>2, CascadeKept DEF SpawnInv, Placed
  <2> QED  BY <2>4, <2>r, <2>5, <2>7, <2>8, <2>o, <2>9 DEF SpawnInv
<1> QED  BY <1>2, <1>3 DEF Starts

(* rollbackSandbox.                                                        *)
LEMMA RollsBackInv == ASSUME SpawnInv, NEW a \in Agents, RollsBack(a) PROVE SpawnInv'
<1>1. /\ stage[a] = "rollback" /\ To(a, "refused") /\ UNCHANGED <<parent, link, profile, payload, elog, agents, deletion>>
      /\ \/ box' = box \ {a} /\ UNCHANGED spawnPast
         \/ spawnPast' = [spawnPast EXCEPT !.unboxed = @ \cup {a}] /\ UNCHANGED box
  BY DEF RollsBack, identity
<1>2. /\ stage' \in [Agents -> Stages] /\ stage'[a] = "refused"
      /\ \A b \in Agents \ {a} : stage'[b] = stage[b]
  BY <1>1 DEF To, SpawnInv, SpawnTypes, Stages, Late
<1>3. /\ spawnPast' \in Pasts /\ spawnPast'.capRace = spawnPast.capRace
      /\ spawnPast'.lateChild = spawnPast.lateChild
      /\ spawnPast'.unlogged = spawnPast.unlogged /\ spawnPast'.untold = spawnPast.untold
      /\ spawnPast.unboxed \subseteq spawnPast'.unboxed /\ box' \subseteq box /\ box \ {a} \subseteq box'
      /\ a \in spawnPast'.unboxed \/ a \notin box'
  <2>1. spawnPast \in Pasts
    BY DEF SpawnInv, SpawnTypes
  <2> QED  BY <1>1, <2>1 DEF Pasts
<1>4. a \notin agents
  BY <1>1 DEF SpawnInv, InOrder
<1>5. \A b \in Agents : Unboxing(b)' <=> Unboxing(b)
  BY <1>1 DEF Unboxing
<1>6. SpawnTypes' /\ InOrder'
  BY <1>1, <1>2, <1>3 DEF SpawnInv, SpawnTypes, InOrder, Early
<1>r. Recorded'
  BY <1>1, <1>3, RecordedMoves DEF SpawnInv, Announced
<1>7. BoxOwned' /\ GoneForGood'
  BY Zenon, <1>1, <1>2, <1>3, <1>5 DEF SpawnInv, BoxOwned, GoneForGood, SpawnTypes, Early
<1>8. \A p \in Agents : Claimed(p)' \subseteq Claimed(p)
  BY <1>1, <1>2, <1>3 DEF Claimed
<1>9. ClaimsCapped'
  BY <1>3, <1>8, FewerClaims DEF SpawnInv
<1>10. RegisteredHasSandbox' /\ NoOrphanedChild'
  BY <1>1, <1>3, <1>4 DEF SpawnInv, RegisteredHasSandbox, NoOrphanedChild
<1>11. CascadeComplete'
  BY <1>1, <1>3, CascadeKept DEF SpawnInv, Placed
<1> QED  BY <1>6, <1>r, <1>7, <1>9, <1>10, <1>11 DEF SpawnInv

-----------------------------------------------------------------------------
(* A DELETE request starts with the children the map holds.                *)
LEMMA BeginsInv ==
    ASSUME SpawnInv, NEW d \in Deleters, NEW a \in Agents, DeleteBegins(d, a)
    PROVE  SpawnInv'
<1>1. /\ UNCHANGED <<parent, link, profile, payload, stage, box, elog, agents, spawnPast>> /\ deletion[d] = <<>>
      /\ deletion' = [deletion EXCEPT ![d] = <<Frame(a)>>]
  BY DEF DeleteBegins, identity
<1>2. Frame(a) \in Frames /\ Frame(a).at = "children" /\ Frame(a).id = a /\ Frame(a).todo = KnownChildren(a)
  BY DEF Frame, Frames, KnownChildren, SpawnInv, SpawnTypes
<1>3. /\ deletion' \in [Deleters -> Seq(Frames)] /\ deletion'[d] = <<Frame(a)>>
      /\ \A e \in Deleters \ {d} : deletion'[e] = deletion[e]
  <2>1. <<Frame(a)>> \in Seq(Frames)
    BY <1>2
  <2> QED  BY <1>1, <2>1 DEF SpawnInv, SpawnTypes
<1>4. DOMAIN deletion'[d] = {1} /\ deletion'[d][1] = Frame(a)
  BY <1>3
<1>5. \A b \in Agents : Unboxing(b)' <=> Unboxing(b)
  <2>1. DOMAIN deletion[d] = {}
    BY <1>1
  <2> QED  BY Zenon, <1>2, <1>3, <1>4, <2>1 DEF Unboxing
<1>6. SpawnTypes' /\ InOrder' /\ Recorded' /\ BoxOwned' /\ GoneForGood'
  BY <1>1, <1>3, <1>5 DEF SpawnInv, SpawnTypes, InOrder, Recorded, BoxOwned, GoneForGood
<1>p. Placed' = Placed /\ \A c \in Placed : parent[c] = a => c \in KnownChildren(a)
  BY <1>1 DEF Placed, KnownChildren, SpawnInv, SpawnTypes, Recorded
<1>7. CascadeComplete'
  <2>1. Visits(deletion[d])'
    BY <1>1, <1>2, <1>4, <1>p DEF Visits
  <2>2. \A e \in Deleters \ {d} : Visits(deletion[e])'
    BY <1>1, <1>3, <1>p DEF SpawnInv, CascadeComplete, Visits
  <2> QED  BY <2>1, <2>2 DEF CascadeComplete
<1>8. ClaimsCapped' /\ RegisteredHasSandbox' /\ NoOrphanedChild'
  BY <1>1 DEF SpawnInv, ClaimsCapped, Claimed, RegisteredHasSandbox, NoOrphanedChild
<1> QED  BY <1>6, <1>7, <1>8 DEF SpawnInv

(* The cascade goes down into a child.                                     *)
LEMMA DescendsInv == ASSUME SpawnInv, NEW d \in Deleters, DeleteDescends(d) PROVE SpawnInv'
<1> DEFINE s == deletion[d]
           n == Len(s)
<1>1. /\ UNCHANGED <<parent, link, profile, payload, stage, box, elog, agents, spawnPast>> /\ s # <<>>
      /\ Top(d).at = "children"
  BY DEF DeleteDescends, identity
<1>2. PICK c \in Top(d).todo :
        deletion' = [deletion EXCEPT ![d] = Append(FrontOf(@) \o <<[Top(d) EXCEPT !.todo = @ \ {c}]>>, Frame(c))]
  BY Zenon DEF DeleteDescends
<1> DEFINE x == [Top(d) EXCEPT !.todo = @ \ {c}]
           y == Frame(c)
           t == Append(FrontOf(s) \o <<x>>, y)
<1>3. s \in Seq(Frames) /\ DOMAIN s = 1..n /\ n \in Nat \ {0} /\ Top(d) = s[n] /\ Top(d) \in Frames
  BY <1>1, FrameType, FrontFacts DEF SpawnInv, Top
<1>4. c \in Agents /\ x \in Frames /\ x.id = s[n].id /\ x.at = s[n].at /\ x.todo = s[n].todo \ {c}
  BY <1>2, <1>3 DEF Frames
<1>5. y \in Frames /\ y.at = "children" /\ y.id = c /\ y.todo = KnownChildren(c)
  BY <1>4 DEF Frame, Frames, KnownChildren, SpawnInv, SpawnTypes
<1> HIDE DEF x, y, s
<1>6. /\ t \in Seq(Frames) /\ DOMAIN t = 1..(n + 1) /\ t[n] = x /\ t[n + 1] = y
      /\ \A i \in DOMAIN s : i # n => t[i] = s[i]
  <2>1. s \in Seq(Frames) /\ s # <<>> /\ x \in Frames /\ y \in Frames
    BY <1>1, <1>3, <1>4, <1>5
  <2> QED  BY <2>1, PushFrame
<1>t. deletion' = [deletion EXCEPT ![d] = t]
  BY <1>2 DEF x, y, s
<1> HIDE DEF t
<1>7. deletion' \in [Deleters -> Seq(Frames)] /\ deletion'[d] = t
      /\ \A e \in Deleters \ {d} : deletion'[e] = deletion[e]
  BY <1>6, <1>t DEF SpawnInv, SpawnTypes
<1>8. \A i \in 1..n : t[i].id = s[i].id /\ t[i].at = s[i].at
  BY <1>3, <1>4, <1>6
<1>9. \A b \in Agents : Unboxing(b)' <=> Unboxing(b)
  <2>1. \A b \in Agents : (\E i \in DOMAIN t : t[i].id = b /\ t[i].at = "box")
                            <=> (\E i \in DOMAIN s : s[i].id = b /\ s[i].at = "box")
    BY <1>3, <1>5, <1>6, <1>8
  <2> QED  BY <1>7, <2>1 DEF Unboxing, s
<1>10. SpawnTypes' /\ InOrder' /\ Recorded' /\ BoxOwned' /\ GoneForGood'
  BY <1>1, <1>7, <1>9 DEF SpawnInv, SpawnTypes, InOrder, Recorded, BoxOwned, GoneForGood
<1>p. Placed' = Placed /\ \A k \in Placed : parent[k] = c => k \in KnownChildren(c)
  BY <1>1 DEF Placed, KnownChildren, SpawnInv, SpawnTypes, Recorded
<1>11. CascadeComplete'
  <2>1. ASSUME NEW i \in 1..(n + 1), NEW k \in Placed, parent[k] = t[i].id
        PROVE  (t[i].at = "children" /\ k \in t[i].todo) \/ (i + 1 \in 1..(n + 1) /\ t[i + 1].id = k)
    <3>1. CASE i = n + 1
      BY <1>5, <1>6, <1>p, <2>1, <3>1
    <3>2. CASE i \in 1..n
      <4>1. (s[i].at = "children" /\ k \in s[i].todo) \/ (i + 1 \in 1..n /\ s[i + 1].id = k)
        BY <1>3, <1>8, <2>1, <3>2 DEF SpawnInv, CascadeComplete, Visits, s
      <4>2. CASE i = n
        BY <1>3, <1>4, <1>5, <1>6, <4>1, <4>2
      <4>3. CASE i # n
        <5> HIDE DEF n
        <5>1. t[i] = s[i] /\ i + 1 \in 1..n /\ i + 1 \in 1..(n + 1)
          BY <1>3, <1>6, <3>2, <4>3
        <5> QED  BY <1>8, <4>1, <5>1
      <4> QED  BY <4>2, <4>3
    <3> QED  BY <1>3, <3>1, <3>2
  <2>2. Visits(deletion[d])'
    BY <1>1, <1>6, <1>7, <1>p, <2>1 DEF Visits
  <2>3. \A e \in Deleters \ {d} : Visits(deletion[e])'
    BY <1>1, <1>7, <1>p DEF SpawnInv, CascadeComplete, Visits
  <2> QED  BY <2>2, <2>3 DEF CascadeComplete
<1>12. ClaimsCapped' /\ RegisteredHasSandbox' /\ NoOrphanedChild'
  BY <1>1 DEF SpawnInv, ClaimsCapped, Claimed, RegisteredHasSandbox, NoOrphanedChild
<1> QED  BY <1>10, <1>11, <1>12 DEF SpawnInv

(* A replaced top that keeps its agent, once the cascade has visited its   *)
(* children, leaves the cascade complete while no child is added.          *)
LEMMA TopReplaced ==
    ASSUME SpawnInv, NEW d \in Deleters, deletion[d] # <<>>,
           Top(d).at = "listed" \/ (Top(d).at = "children" /\ Top(d).todo = {}),
           NEW x \in Frames, x.id = Top(d).id, SetTop(d, x),
           Placed' \subseteq Placed, UNCHANGED parent
    PROVE  /\ deletion' \in [Deleters -> Seq(Frames)] /\ CascadeComplete'
           /\ \A b \in Agents : Unboxing(b)' <=> Unboxing(b) \/ (x.at = "box" /\ b = Top(d).id)
           /\ \A c \in Placed : parent[c] # Top(d).id
<1> DEFINE s == deletion[d]
           n == Len(s)
           t == Append(FrontOf(s), x)
<1>1. s \in Seq(Frames) /\ DOMAIN s = 1..n /\ n \in Nat \ {0} /\ Top(d) = s[n] /\ Top(d) \in Frames
  BY FrameType, FrontFacts DEF SpawnInv, Top
<1>3. deletion' = [deletion EXCEPT ![d] = t]
  BY DEF SetTop
<1>4. s \in Seq(Frames) /\ s # <<>>
  BY <1>1
<1> HIDE DEF s
<1>5. /\ t \in Seq(Frames) /\ DOMAIN t = DOMAIN s /\ t[n] = x
      /\ \A i \in DOMAIN s : i # n => t[i] = s[i]
  BY <1>4, ReplaceTop
<1> HIDE DEF t
<1>6. /\ deletion' \in [Deleters -> Seq(Frames)] /\ deletion'[d] = t
      /\ \A e \in Deleters \ {d} : deletion'[e] = deletion[e]
  BY <1>3, <1>5 DEF SpawnInv, SpawnTypes
<1>9. n \in DOMAIN s /\ n + 1 \notin DOMAIN s
  BY <1>1
<1> HIDE DEF n
<1>2. \A c \in Placed : parent[c] # Top(d).id
  <2>1. Visits(s)
    BY DEF SpawnInv, CascadeComplete, s
  <2> QED  BY <1>1, <1>9, <2>1 DEF Visits
<1>7. \A i \in DOMAIN s : t[i].id = s[i].id
  BY <1>1, <1>5
<1>8. CascadeComplete'
  <2>1. ASSUME NEW i \in DOMAIN s, NEW c \in Placed, parent[c] = t[i].id
        PROVE  (t[i].at = "children" /\ c \in t[i].todo) \/ (i + 1 \in DOMAIN s /\ t[i + 1].id = c)
    <3>1. i # n /\ t[i] = s[i]
      BY <1>1, <1>2, <1>5, <1>7, <2>1
    <3>2. (s[i].at = "children" /\ c \in s[i].todo) \/ (i + 1 \in DOMAIN s /\ s[i + 1].id = c)
      BY <2>1, <3>1 DEF SpawnInv, CascadeComplete, Visits, s
    <3> QED  BY <1>7, <3>1, <3>2
  <2>2. Visits(deletion[d])'
    BY <1>5, <1>6, <2>1 DEF Visits
  <2>3. ASSUME NEW e \in Deleters \ {d} PROVE Visits(deletion[e])'
    <3>1. deletion'[e] = deletion[e] /\ Visits(deletion[e])
      BY <1>6 DEF SpawnInv, CascadeComplete
    <3> QED  BY <3>1 DEF Visits
  <2> QED  BY <2>2, <2>3 DEF CascadeComplete
<1>10. ASSUME NEW b \in Agents, Unboxing(b)' PROVE Unboxing(b) \/ (x.at = "box" /\ b = Top(d).id)
  <2>1. PICK e \in Deleters : \E i \in DOMAIN deletion'[e] : deletion'[e][i].id = b /\ deletion'[e][i].at = "box"
    BY <1>10 DEF Unboxing
  <2>2. CASE e # d
    BY <1>6, <2>1, <2>2 DEF Unboxing
  <2>3. CASE e = d
    <3>1. PICK i \in DOMAIN s : t[i].id = b /\ t[i].at = "box"
      BY <1>5, <1>6, <2>1, <2>3
    <3>2. CASE i = n
      BY <1>1, <1>5, <3>1, <3>2
    <3>3. CASE i # n
      BY <1>5, <3>1, <3>3 DEF Unboxing, s
    <3> QED  BY <3>2, <3>3
  <2> QED  BY <2>2, <2>3
<1>11. ASSUME NEW b \in Agents, x.at = "box", b = Top(d).id PROVE Unboxing(b)'
  <2>1. n \in DOMAIN deletion'[d] /\ deletion'[d][n].id = b /\ deletion'[d][n].at = "box"
    BY <1>1, <1>5, <1>6, <1>9, <1>11
  <2> QED  BY <2>1 DEF Unboxing
<1>12. ASSUME NEW b \in Agents, Unboxing(b) PROVE Unboxing(b)'
  <2>1. PICK e \in Deleters : \E i \in DOMAIN deletion[e] : deletion[e][i].id = b /\ deletion[e][i].at = "box"
    BY <1>12 DEF Unboxing
  <2>2. CASE e # d
    BY <1>6, <2>1, <2>2 DEF Unboxing
  <2>3. CASE e = d
    <3>1. PICK i \in DOMAIN s : s[i].id = b /\ s[i].at = "box"
      BY <2>1, <2>3 DEF s
    <3>2. i # n
      BY <1>1, <3>1
    <3>3. i \in DOMAIN deletion'[d] /\ deletion'[d][i].id = b /\ deletion'[d][i].at = "box"
      BY <1>5, <1>6, <3>1, <3>2
    <3> QED  BY <3>3 DEF Unboxing
  <2> QED  BY <2>2, <2>3
<1> QED  BY <1>2, <1>6, <1>8, <1>10, <1>11, <1>12

(* A popped top whose agent is out of the map leaves the cascade complete. *)
LEMMA TopPopped ==
    ASSUME SpawnInv, NEW d \in Deleters, deletion[d] # <<>>, Pop(d), Top(d).id \notin agents,
           UNCHANGED <<agents, parent>>, Placed' = Placed
    PROVE  /\ deletion' \in [Deleters -> Seq(Frames)] /\ CascadeComplete'
           /\ \A b \in Agents : Unboxing(b)' => Unboxing(b)
           /\ \A b \in Agents : Unboxing(b) => Unboxing(b)' \/ (Top(d).at = "box" /\ Top(d).id = b)
<1> DEFINE s == deletion[d]
           n == Len(s)
           t == FrontOf(s)
<1>1. /\ s \in Seq(Frames) /\ DOMAIN s = 1..n /\ n \in Nat \ {0} /\ Top(d) = s[n]
      /\ t \in Seq(Frames) /\ Len(t) = n - 1 /\ \A i \in 1..(n - 1) : t[i] = s[i]
  BY Zenon, FrameType, FrontFacts DEF SpawnInv, Top
<1>2. deletion' = [deletion EXCEPT ![d] = t]
  BY DEF Pop
<1>3. DOMAIN t = 1..(n - 1)
  <2> HIDE DEF t
  <2> QED  BY <1>1
<1> HIDE DEF s, t
<1>4. /\ deletion' \in [Deleters -> Seq(Frames)] /\ deletion'[d] = t
      /\ \A e \in Deleters \ {d} : deletion'[e] = deletion[e]
  BY <1>1, <1>2 DEF SpawnInv, SpawnTypes
<1> HIDE DEF n
<1>5. CascadeComplete'
  <2>1. ASSUME NEW i \in 1..(n - 1), NEW c \in Placed, parent[c] = t[i].id
        PROVE  (t[i].at = "children" /\ c \in t[i].todo) \/ (i + 1 \in 1..(n - 1) /\ t[i + 1].id = c)
    <3>1. t[i] = s[i] /\ i \in DOMAIN s /\ i + 1 \in 1..n
      BY <1>1
    <3>2. (s[i].at = "children" /\ c \in s[i].todo) \/ s[i + 1].id = c
      BY <2>1, <3>1 DEF SpawnInv, CascadeComplete, Visits, s
    <3>4. c \in agents
      BY DEF Placed
    <3>3. i + 1 = n \/ i + 1 \in 1..(n - 1)
      BY <1>1
    <3> QED  BY <1>1, <3>1, <3>2, <3>3, <3>4
  <2>2. Visits(deletion[d])'
    BY <1>3, <1>4, <2>1 DEF Visits
  <2>3. ASSUME NEW e \in Deleters \ {d} PROVE Visits(deletion[e])'
    <3>1. deletion'[e] = deletion[e] /\ Visits(deletion[e])
      BY <1>4 DEF SpawnInv, CascadeComplete
    <3> QED  BY <3>1 DEF Visits
  <2> QED  BY <2>2, <2>3 DEF CascadeComplete
<1>6. DOMAIN t \subseteq DOMAIN s /\ n \in DOMAIN s /\ \A i \in DOMAIN s : i # n => i \in DOMAIN t
  BY <1>1, <1>3
<1>7. ASSUME NEW b \in Agents, Unboxing(b)' PROVE Unboxing(b)
  <2>1. PICK e \in Deleters : \E i \in DOMAIN deletion'[e] : deletion'[e][i].id = b /\ deletion'[e][i].at = "box"
    BY <1>7 DEF Unboxing
  <2>2. CASE e # d
    BY <1>4, <2>1, <2>2 DEF Unboxing
  <2>3. CASE e = d
    <3>1. PICK i \in DOMAIN t : t[i].id = b /\ t[i].at = "box"
      BY <1>4, <2>1, <2>3
    <3>2. i \in DOMAIN s /\ s[i] = t[i]
      BY <1>1, <1>3, <1>6
    <3> QED  BY <3>1, <3>2 DEF Unboxing, s
  <2> QED  BY <2>2, <2>3
<1>8. ASSUME NEW b \in Agents, Unboxing(b) PROVE Unboxing(b)' \/ (Top(d).at = "box" /\ Top(d).id = b)
  <2>1. PICK e \in Deleters : \E i \in DOMAIN deletion[e] : deletion[e][i].id = b /\ deletion[e][i].at = "box"
    BY <1>8 DEF Unboxing
  <2>2. CASE e # d
    BY <1>4, <2>1, <2>2 DEF Unboxing
  <2>3. CASE e = d
    <3>1. PICK i \in DOMAIN s : s[i].id = b /\ s[i].at = "box"
      BY <2>1, <2>3 DEF s
    <3>2. CASE i = n
      BY <1>1, <3>1, <3>2
    <3>3. CASE i # n
      <4>1. i \in DOMAIN t /\ t[i] = s[i]
        BY <1>1, <1>3, <1>6, <3>3
      <4> QED  BY <1>4, <3>1, <4>1 DEF Unboxing
    <3> QED  BY <3>2, <3>3
  <2> QED  BY <2>2, <2>3
<1> QED  BY <1>4, <1>5, <1>7, <1>8

(* The listing, and the look at each sandbox of it.                        *)
LEMMA ListsInv == ASSUME SpawnInv, NEW d \in Deleters, DeleteLists(d) \/ DeleteLooks(d) PROVE SpawnInv'
<1>1. /\ deletion[d] # <<>> /\ UNCHANGED <<parent, link, profile, payload, stage, box, elog, agents, spawnPast>>
      /\ Top(d).at = "listed" \/ (Top(d).at = "children" /\ Top(d).todo = {})
  BY DEF DeleteLists, DeleteLooks, identity
<1>2. Top(d) \in Frames /\ agents \in SUBSET Agents /\ box \in SUBSET Agents
  BY <1>1, FrameType, FrontFacts DEF SpawnInv, SpawnTypes, Top
<1>3. \E x \in Frames : x.id = Top(d).id /\ x.at = "listed" /\ SetTop(d, x)
  <2>1. CASE DeleteLists(d)
    <3>1. ListedChildren(Top(d).id) \in SUBSET Agents
      BY <1>2 DEF ListedChildren
    <3>2. /\ [Top(d) EXCEPT !.todo = ListedChildren(Top(d).id), !.at = "listed"] \in Frames
          /\ [Top(d) EXCEPT !.todo = ListedChildren(Top(d).id), !.at = "listed"].id = Top(d).id
          /\ [Top(d) EXCEPT !.todo = ListedChildren(Top(d).id), !.at = "listed"].at = "listed"
      BY <1>2, <3>1 DEF Frames
    <3>3. /\ [Top(d) EXCEPT !.at = "listed"] \in Frames
          /\ [Top(d) EXCEPT !.at = "listed"].id = Top(d).id /\ [Top(d) EXCEPT !.at = "listed"].at = "listed"
      BY <1>2 DEF Frames
    <3>4. \/ SetTop(d, [Top(d) EXCEPT !.todo = ListedChildren(Top(d).id), !.at = "listed"])
          \/ SetTop(d, [Top(d) EXCEPT !.at = "listed"])
      BY <2>1, Zenon DEF DeleteLists
    <3> QED  BY <3>2, <3>3, <3>4, Zenon
  <2>2. CASE DeleteLooks(d)
    <3>1. PICK c \in Top(d).todo : SetTop(d, [Top(d) EXCEPT !.todo = @ \ {c}, !.doomed = {c} \ agents])
      BY <2>2, Zenon DEF DeleteLooks
    <3>2. Top(d).at = "listed"
      BY <2>2 DEF DeleteLooks
    <3>3. /\ [Top(d) EXCEPT !.todo = @ \ {c}, !.doomed = {c} \ agents] \in Frames
          /\ [Top(d) EXCEPT !.todo = @ \ {c}, !.doomed = {c} \ agents].id = Top(d).id
          /\ [Top(d) EXCEPT !.todo = @ \ {c}, !.doomed = {c} \ agents].at = "listed"
      BY <1>2, <3>2 DEF Frames
    <3> QED  BY <3>1, <3>3, Zenon
  <2> QED  BY <2>1, <2>2
<1>4. Placed' = Placed
  BY <1>1 DEF Placed
<1>5. /\ deletion' \in [Deleters -> Seq(Frames)] /\ CascadeComplete'
      /\ \A b \in Agents : Unboxing(b)' <=> Unboxing(b)
  <2>1. PICK x \in Frames : x.id = Top(d).id /\ x.at = "listed" /\ SetTop(d, x)
    BY <1>3
  <2> QED  BY <1>1, <1>4, <2>1, TopReplaced
<1>6. SpawnTypes' /\ InOrder' /\ Recorded' /\ BoxOwned' /\ GoneForGood'
  BY <1>1, <1>5 DEF SpawnInv, SpawnTypes, InOrder, Recorded, BoxOwned, GoneForGood
<1>7. ClaimsCapped' /\ RegisteredHasSandbox' /\ NoOrphanedChild'
  BY <1>1 DEF SpawnInv, ClaimsCapped, Claimed, RegisteredHasSandbox, NoOrphanedChild
<1> QED  BY <1>5, <1>6, <1>7 DEF SpawnInv

(* The sweep removes a sandbox that had no agent in the map when looked at. *)
LEMMA SweepsInv == ASSUME SpawnInv, NEW d \in Deleters, DeleteSweeps(d) PROVE SpawnInv'
<1>1. /\ deletion[d] # <<>> /\ Top(d).at = "listed" /\ SetTop(d, [Top(d) EXCEPT !.doomed = {}])
      /\ UNCHANGED <<parent, link, profile, payload, stage, elog, agents>>
      /\ \/ /\ box' = box \ Top(d).doomed
            /\ spawnPast' = [spawnPast EXCEPT !.unboxed = @ \cup (Top(d).doomed \cap agents)]
         \/ UNCHANGED <<box, spawnPast>>
  BY DEF DeleteSweeps, identity
<1>2. Top(d) \in Frames /\ spawnPast \in Pasts /\ agents \in SUBSET Agents
  BY <1>1, FrameType, FrontFacts DEF SpawnInv, SpawnTypes, Top
<1>3. /\ spawnPast' \in Pasts /\ spawnPast'.capRace = spawnPast.capRace
      /\ spawnPast'.lateChild = spawnPast.lateChild
      /\ spawnPast'.unlogged = spawnPast.unlogged /\ spawnPast'.untold = spawnPast.untold
      /\ spawnPast.unboxed \subseteq spawnPast'.unboxed
      /\ box' \subseteq box /\ box \cap agents \subseteq box' \cup spawnPast'.unboxed
  BY <1>1, <1>2 DEF Pasts
<1>4. Placed' = Placed
  BY <1>1, <1>3 DEF Placed
<1>5. /\ [Top(d) EXCEPT !.doomed = {}] \in Frames /\ [Top(d) EXCEPT !.doomed = {}].id = Top(d).id
      /\ [Top(d) EXCEPT !.doomed = {}].at # "box"
  BY <1>1, <1>2 DEF Frames
<1>6. /\ deletion' \in [Deleters -> Seq(Frames)] /\ CascadeComplete'
      /\ \A b \in Agents : Unboxing(b)' <=> Unboxing(b)
  BY <1>1, <1>4, <1>5, TopReplaced
<1>7. SpawnTypes' /\ InOrder' /\ Recorded' /\ BoxOwned' /\ GoneForGood'
  BY <1>1, <1>3, <1>6 DEF SpawnInv, SpawnTypes, InOrder, Recorded, BoxOwned, GoneForGood
<1>8. \A p \in Agents : Claimed(p)' \subseteq Claimed(p)
  BY <1>1, <1>3 DEF Claimed
<1>9. ClaimsCapped'
  BY <1>3, <1>8, FewerClaims DEF SpawnInv
<1>10. RegisteredHasSandbox' /\ NoOrphanedChild'
  BY <1>1, <1>3 DEF SpawnInv, RegisteredHasSandbox, NoOrphanedChild
<1> QED  BY <1>6, <1>7, <1>9, <1>10 DEF SpawnInv

(* deleteOne takes the agent out of the map when its children are gone.    *)
LEMMA UnregistersInv == ASSUME SpawnInv, NEW d \in Deleters, DeleteUnregisters(d) PROVE SpawnInv'
<1> DEFINE a == Top(d).id
<1>1. /\ deletion[d] # <<>> /\ Top(d).at = "listed"
      /\ UNCHANGED <<parent, link, profile, payload, stage, box, spawnPast>>
  BY DEF DeleteUnregisters, identity
<1>2. Top(d) \in Frames /\ a \in Agents
  <2>1. Top(d) \in Frames
    BY <1>1, FrameType, FrontFacts DEF SpawnInv, Top
  <2> QED  BY <2>1 DEF Frames
<1>3. CASE a \in agents
  <2>1. /\ agents' = agents \ {a} /\ SetTop(d, [Top(d) EXCEPT !.at = "box"])
        /\ (elog' = [elog EXCEPT ![a] = Append(@, "terminated")] \/ elog' = elog)
    BY <1>3 DEF DeleteUnregisters
  <2>t. /\ [Top(d) EXCEPT !.at = "box"] \in Frames /\ [Top(d) EXCEPT !.at = "box"].id = a
        /\ [Top(d) EXCEPT !.at = "box"].at = "box"
    BY <1>2 DEF Frames
  <2>p. Placed' \subseteq Placed
    BY <1>1, <2>1 DEF Placed
  <2>2. /\ deletion' \in [Deleters -> Seq(Frames)] /\ CascadeComplete'
        /\ \A b \in Agents : Unboxing(b)' <=> Unboxing(b) \/ b = a
        /\ \A c \in Placed : parent[c] # a
    BY <1>1, <2>1, <2>t, <2>p, TopReplaced
  <2> HIDE DEF a
  <2>3. /\ elog' \in [Agents -> Seq(LogEvents)] /\ (\A b \in Agents \ {a} : elog'[b] = elog[b])
        /\ elog'[a] = elog[a] \/ elog'[a] # <<>>
    <3>1. "terminated" \in LogEvents /\ elog[a] \in Seq(LogEvents) /\ elog \in [Agents -> Seq(LogEvents)]
      BY <1>2 DEF SpawnInv, SpawnTypes, LogEvents
    <3>2. Append(elog[a], "terminated") \in Seq(LogEvents) /\ Append(elog[a], "terminated") # <<>>
      BY <3>1
    <3> QED  BY Zenon, <1>2, <2>1, <3>1, <3>2
  <2>4. stage[a] \notin Early \cup {"rollback"} /\ stage[a] # "new"
    BY <1>2, <1>3 DEF SpawnInv, InOrder, Early
  <2>5. SpawnTypes' /\ InOrder'
    BY <1>1, <2>1, <2>2, <2>3, <2>4 DEF SpawnInv, SpawnTypes, InOrder
  <2>r. Recorded'
    <3>1. To(a, stage[a])
      BY <1>1 DEF To, SpawnInv, SpawnTypes
    <3> QED  BY <1>1, <1>2, <1>3, <2>1, <2>3, <3>1, RecordedMoves DEF SpawnInv
  <2>6. BoxOwned' /\ GoneForGood'
    BY <1>1, <2>1, <2>2, <2>4 DEF SpawnInv, BoxOwned, GoneForGood, SpawnTypes
  <2>7. ClaimsCapped' /\ RegisteredHasSandbox'
    BY <1>1, <2>1 DEF SpawnInv, ClaimsCapped, Claimed, RegisteredHasSandbox
  <2>9. NoOrphanedChild'
    BY <1>1, <2>1, <2>2 DEF SpawnInv, NoOrphanedChild, Placed
  <2> QED  BY <2>2, <2>5, <2>r, <2>6, <2>7, <2>9 DEF SpawnInv
<1>4. CASE a \notin agents
  <2>1. Pop(d) /\ UNCHANGED <<agents, elog>>
    BY <1>4 DEF DeleteUnregisters
  <2>p. Placed' = Placed
    BY <1>1, <2>1 DEF Placed
  <2>2. /\ deletion' \in [Deleters -> Seq(Frames)] /\ CascadeComplete'
        /\ \A b \in Agents : Unboxing(b)' <=> Unboxing(b)
    BY <1>1, <1>4, <2>1, <2>p, TopPopped
  <2>3. SpawnTypes' /\ InOrder' /\ Recorded' /\ BoxOwned' /\ GoneForGood'
    BY <1>1, <2>1, <2>2 DEF SpawnInv, SpawnTypes, InOrder, Recorded, BoxOwned, GoneForGood
  <2>4. ClaimsCapped' /\ RegisteredHasSandbox' /\ NoOrphanedChild'
    BY <1>1, <2>1 DEF SpawnInv, ClaimsCapped, Claimed, RegisteredHasSandbox, NoOrphanedChild
  <2> QED  BY <2>2, <2>3, <2>4 DEF SpawnInv
<1> QED  BY <1>3, <1>4

(* deleteOne removes the sandbox, unless the gateway refuses to or its     *)
(* name is lost.                                                           *)
LEMMA UnboxesInv == ASSUME SpawnInv, NEW d \in Deleters, DeleteUnboxes(d) PROVE SpawnInv'
<1> DEFINE a == Top(d).id
<1>1. /\ deletion[d] # <<>> /\ Top(d).at = "box" /\ Pop(d)
      /\ UNCHANGED <<parent, link, profile, payload, stage, elog, agents>>
      /\ \/ box' = box \ {a} /\ UNCHANGED spawnPast
         \/ spawnPast' = [spawnPast EXCEPT !.unboxed = @ \cup {a}] /\ UNCHANGED box
  BY DEF DeleteUnboxes, identity
<1>2. a \in Agents /\ Unboxing(a)
  <2>1. /\ DOMAIN deletion[d] = 1..Len(deletion[d]) /\ Len(deletion[d]) \in Nat \ {0}
        /\ Top(d) = deletion[d][Len(deletion[d])] /\ Top(d) \in Frames
    BY <1>1, FrameType, FrontFacts DEF SpawnInv, Top
  <2>2. Len(deletion[d]) \in DOMAIN deletion[d]
    BY <2>1
  <2> QED  BY <1>1, <2>1, <2>2 DEF Unboxing, Frames
<1>3. a \notin agents
  BY <1>2 DEF SpawnInv, GoneForGood
<1>4. /\ spawnPast' \in Pasts /\ spawnPast'.capRace = spawnPast.capRace
      /\ spawnPast'.lateChild = spawnPast.lateChild
      /\ spawnPast'.unlogged = spawnPast.unlogged /\ spawnPast'.untold = spawnPast.untold
      /\ spawnPast.unboxed \subseteq spawnPast'.unboxed /\ box' \subseteq box /\ box \ {a} \subseteq box'
      /\ a \in spawnPast'.unboxed \/ a \notin box'
  <2>1. spawnPast \in Pasts
    BY DEF SpawnInv, SpawnTypes
  <2> HIDE DEF a
  <2> QED  BY <1>1, <1>2, <2>1 DEF Pasts
<1>p. Placed' = Placed
  BY <1>1, <1>4 DEF Placed
<1>5. /\ deletion' \in [Deleters -> Seq(Frames)] /\ CascadeComplete'
      /\ \A b \in Agents : Unboxing(b)' => Unboxing(b)
      /\ \A b \in Agents : Unboxing(b) => Unboxing(b)' \/ b = a
  BY <1>1, <1>3, <1>p, TopPopped
<1>6. SpawnTypes' /\ InOrder' /\ Recorded' /\ GoneForGood'
  BY <1>1, <1>4, <1>5 DEF SpawnInv, SpawnTypes, InOrder, Recorded, GoneForGood
<1>7. BoxOwned'
  BY <1>1, <1>4, <1>5 DEF SpawnInv, BoxOwned, SpawnTypes
<1>8. \A p \in Agents : Claimed(p)' \subseteq Claimed(p)
  BY <1>1, <1>4 DEF Claimed
<1>9. ClaimsCapped'
  BY <1>4, <1>8, FewerClaims DEF SpawnInv
<1>10. RegisteredHasSandbox' /\ NoOrphanedChild'
  BY <1>1, <1>3, <1>4 DEF SpawnInv, RegisteredHasSandbox, NoOrphanedChild
<1> QED  BY <1>5, <1>6, <1>7, <1>9, <1>10 DEF SpawnInv

-----------------------------------------------------------------------------
(* RebuildFromLog: what a restart cannot own any more is recorded as such. *)
LEMMA RestartInv == ASSUME SpawnInv, SpawnRestart PROVE SpawnInv'
<1>1. /\ agents' = {a \in Agents : elog[a] # <<>> /\ ~Terminated(a)}
      /\ stage' = [a \in Agents |-> IF a \in Creating THEN "lost" ELSE stage[a]]
      /\ link' = [a \in Agents |-> IF a \in agents' THEN payload[a].parent ELSE link[a]]
      /\ profile' = [a \in Agents |-> IF a \in agents' THEN payload[a].profile ELSE profile[a]]
      /\ deletion' = [d \in Deleters |-> <<>>] /\ UNCHANGED <<parent, payload, box, elog>>
      /\ spawnPast' = [spawnPast EXCEPT !.unboxed = @ \cup (box \ agents') \cup (agents' \ box),
                                        !.overwrote = {}, !.unrecorded = {},
                                        !.lateChild = @ \cup {a \in agents' : parent[a] \notin agents' \cup {Root}}]
  BY DEF SpawnRestart
<1>2. spawnPast \in Pasts /\ agents' \in SUBSET Agents /\ box \in SUBSET Agents
  BY <1>1 DEF SpawnInv, SpawnTypes
<1>3. /\ spawnPast' \in Pasts /\ spawnPast'.capRace = spawnPast.capRace
      /\ spawnPast'.unboxed = spawnPast.unboxed \cup (box \ agents') \cup (agents' \ box)
      /\ spawnPast'.lateChild = spawnPast.lateChild \cup {a \in agents' : parent[a] \notin agents' \cup {Root}}
      /\ spawnPast'.unlogged = spawnPast.unlogged /\ spawnPast'.untold = spawnPast.untold
  BY Zenon, <1>1, <1>2 DEF Pasts
<1>4. /\ stage' \in [Agents -> Stages]
      /\ \A a \in Agents : /\ stage'[a] \in {"new", "done", "refused", "lost"}
                           /\ stage'[a] = "new" <=> stage[a] = "new"
  BY <1>1 DEF SpawnInv, SpawnTypes, Creating, Stages, Early, Late
<1>5. deletion' \in [Deleters -> Seq(Frames)] /\ \A d \in Deleters : DOMAIN deletion'[d] = {}
  BY <1>1
<1>l. link' \in [Agents -> Agents \cup {Root}] /\ profile' \in [Agents -> Resolved]
  <2>1. \A a \in Agents : payload[a].parent \in Agents \cup {Root} /\ payload[a].profile \in Resolved
                           /\ link[a] \in Agents \cup {Root} /\ profile[a] \in Resolved
    BY DEF SpawnInv, SpawnTypes, Payloads
  <2> QED  BY <1>1, <2>1
<1>6. SpawnTypes' /\ InOrder'
  BY <1>1, <1>l, <1>3, <1>4, <1>5 DEF SpawnInv, SpawnTypes, InOrder, Early
<1>r. Recorded'
  <2>1. \A a \in Agents : stage'[a] \notin Announced
    BY <1>4 DEF Announced
  <2> SUFFICES ASSUME NEW a \in Agents \ spawnPast.unlogged
               PROVE  /\ link'[a] = parent[a]
                      /\ elog[a] # <<>> => payload[a].parent = parent[a] /\ payload[a].profile = profile'[a]
                      /\ a \in agents' => elog[a] # <<>>
    BY <1>1, <1>3, <2>1 DEF SpawnInv, Recorded
  <2>2. /\ link[a] = parent[a]
        /\ elog[a] # <<>> => payload[a].parent = parent[a] /\ payload[a].profile = profile[a]
    BY DEF SpawnInv, Recorded
  <2>3. /\ link'[a] = IF a \in agents' THEN payload[a].parent ELSE link[a]
        /\ profile'[a] = IF a \in agents' THEN payload[a].profile ELSE profile[a]
        /\ a \in agents' => elog[a] # <<>>
    BY <1>1
  <2> QED  BY <2>2, <2>3
<1>7. BoxOwned' /\ GoneForGood' /\ CascadeComplete'
  BY <1>1, <1>3, <1>5 DEF BoxOwned, GoneForGood, CascadeComplete, Visits, Unboxing
<1>8. \A p \in Agents : Claimed(p)' \subseteq Claimed(p)
  BY <1>1, <1>4 DEF Claimed
<1>9. ClaimsCapped'
  BY <1>3, <1>8, FewerClaims DEF SpawnInv
<1>10. RegisteredHasSandbox' /\ NoOrphanedChild'
  BY <1>1, <1>3 DEF RegisteredHasSandbox, NoOrphanedChild
<1> QED  BY <1>6, <1>r, <1>7, <1>9, <1>10 DEF SpawnInv

(* A controller that has created nothing.                                  *)
LEMMA SpawnInitial == ASSUME NEW bounds, SpawnInit(bounds) PROVE SpawnInv
<1>1. /\ parent = [a \in Agents |-> Root] /\ stage = [a \in Agents |-> "new"] /\ box = {} /\ agents = {}
      /\ elog = [a \in Agents |-> <<>>]
  BY Zenon DEF SpawnInit
<1>d. deletion = [d \in Deleters |-> <<>>]
  BY Zenon DEF SpawnInit
<1>i. /\ link = [a \in Agents |-> Root] /\ profile = [a \in Agents |-> DefaultProfile]
      /\ payload = [a \in Agents |-> NoPayload]
  BY Zenon DEF SpawnInit
<1>p. spawnPast = [capRace |-> {}, lateChild |-> {}, unboxed |-> {}, overwrote |-> {}, unrecorded |-> {},
                   unlogged |-> {}, untold |-> {}, given |-> [a \in Agents |-> ""]]
  BY Zenon DEF SpawnInit
<1>2. SpawnTypes
  <2>1. /\ parent \in [Agents -> Agents \cup {Root}] /\ stage \in [Agents -> Stages]
        /\ box \in SUBSET Agents /\ agents \in SUBSET Agents
    BY <1>1 DEF Stages, Early
  <2>2. elog \in [Agents -> Seq(LogEvents)]
    BY <1>1
  <2>4. deletion \in [Deleters -> Seq(Frames)]
    BY <1>d
  <2>3. spawnPast \in Pasts
    <3>1. [a \in Agents |-> ""] \in [Agents -> Profiles]
      BY DEF Profiles
    <3> QED  BY <1>p, <3>1, Zenon DEF Pasts
  <2>5. link \in [Agents -> Agents \cup {Root}] /\ profile \in [Agents -> Resolved]
    BY <1>i DEF Resolved
  <2>6. payload \in [Agents -> Payloads]
    <3>1. "" \in Resolved /\ Root \in Agents \cup {Root}
      BY Zenon DEF Resolved, Profiles
    <3>2. NoPayload \in Payloads
      BY Zenon, <3>1 DEF NoPayload, Payloads
    <3> QED  BY <1>i, <3>2
  <2> QED  BY <2>1, <2>2, <2>3, <2>4, <2>5, <2>6 DEF SpawnTypes
<1>r. Recorded
  <2>1. spawnPast.unlogged = {} /\ spawnPast.untold = {}
    BY Zenon, <1>p
  <2>2. \A a \in Agents : link[a] = parent[a] /\ elog[a] = <<>> /\ stage[a] \notin Announced /\ a \notin agents
    BY <1>1, <1>i DEF Announced
  <2> QED  BY <2>1, <2>2 DEF Recorded
<1>3. InOrder /\ BoxOwned /\ RegisteredHasSandbox /\ NoOrphanedChild
  BY <1>1 DEF InOrder, BoxOwned, RegisteredHasSandbox, NoOrphanedChild
<1>4. \A d \in Deleters : DOMAIN deletion[d] = {}
  BY <1>d
<1>5. GoneForGood /\ CascadeComplete
  BY <1>4 DEF GoneForGood, Unboxing, CascadeComplete, Visits
<1>6. ClaimsCapped
  <2>1. \A p \in Agents : Claimed(p) \ spawnPast.capRace = {}
    BY <1>1 DEF Claimed
  <2> QED  BY <2>1, FS_EmptySet, SpawnCaps DEF ClaimsCapped
<1> QED  BY <1>2, <1>r, <1>3, <1>5, <1>6 DEF SpawnInv

(* Every step of a create, of a delete and of a restart keeps it.          *)
LEMMA SpawnStep == SpawnInv /\ [SpawnNext]_spawnVars => SpawnInv'
<1> SUFFICES ASSUME SpawnInv, [SpawnNext]_spawnVars PROVE SpawnInv'
  OBVIOUS
<1>1. CASE UNCHANGED spawnVars
  BY <1>1 DEF spawnVars, identity, SpawnInv, SpawnTypes, InOrder, Recorded, BoxOwned, GoneForGood, Unboxing,
     CascadeComplete, Visits, Placed, ClaimsCapped, Claimed, RegisteredHasSandbox, NoOrphanedChild
<1>2. ASSUME NEW a \in Agents, NEW p \in Agents \cup {Root}, NEW o \in Profiles, CreateChecks(a, p, o)
      PROVE  SpawnInv'
  BY <1>2, ChecksInv
<1>3. ASSUME NEW a \in Agents,
             \/ CreateBoxes(a) \/ WaitReady(a) \/ ExposeDaemon(a) \/ Provisioned(a)
             \/ ApplyPolicy(a) \/ ApplyDeny(a) \/ Registers(a) \/ Starts(a) \/ Readies(a)
             \/ RollsBack(a) \/ Fails(a)
      PROVE  SpawnInv'
  BY <1>3, BoxesInv, GatewayInv, ProvisionedInv, RegistersInv, StartsInv, ReadiesInv, RollsBackInv, FailsInv
<1>4. ASSUME NEW d \in Deleters,
             \/ \E a \in Agents : DeleteBegins(d, a)
             \/ DeleteDescends(d) \/ DeleteLists(d) \/ DeleteLooks(d) \/ DeleteSweeps(d)
             \/ DeleteUnregisters(d) \/ DeleteUnboxes(d)
      PROVE  SpawnInv'
  BY <1>4, BeginsInv, DescendsInv, ListsInv, SweepsInv, UnregistersInv, UnboxesInv
<1>5. CASE SpawnRestart
  BY <1>5, RestartInv
<1> QED  BY <1>1, <1>2, <1>3, <1>4, <1>5 DEF SpawnNext

(* Sandboxes, registered agents and their parents come and go together,    *)
(* whichever gateway or log call fails, however creates, cascades and      *)
(* restarts interleave: no sandbox outlives its agent, a registered agent  *)
(* has its sandbox, and a delete leaves no child behind, but for the cases *)
(* the property names (Create, rollbackSandbox, deleteCascade, deleteOne). *)
THEOREM SpawnOwnsSandboxes ==
    ASSUME NEW CONSTANT bounds
    PROVE  SpawnSpec(bounds) => []SandboxesOwned
<1>1. SpawnInit(bounds) => SpawnInv
  BY SpawnInitial
<1>2. SpawnInv => SandboxesOwned
  <2> SUFFICES ASSUME SpawnInv PROVE NoLeakedSandbox
    BY DEF SpawnInv, SandboxesOwned
  <2> SUFFICES ASSUME NEW a \in box \ (spawnPast.unboxed \cup Creating), a \notin agents
               PROVE  \E d \in Deleters : \E i \in DOMAIN deletion[d] : deletion[d][i].id = a
    BY DEF NoLeakedSandbox
  <2>1. a \in Agents /\ stage[a] \in {"new", "done", "refused", "lost"}
    BY DEF SpawnInv, SpawnTypes, Creating
  <2>2. stage[a] \in Late
    BY <2>1 DEF SpawnInv, InOrder, Late
  <2>3. Unboxing(a)
    BY <2>2 DEF SpawnInv, BoxOwned
  <2> QED  BY <2>3 DEF Unboxing
<1> QED  BY <1>1, <1>2, SpawnStep, PTL DEF SpawnSpec

-----------------------------------------------------------------------------
(* The spawn tree.                                                         *)

Minted == {a \in Agents : stage[a] # "new"}

(* Agents are minted in order, each under one that was minted, and         *)
(* registered, before it.                                                  *)
Tree ==
    /\ \A a \in Minted : \A b \in Agents : b < a => b \in Minted
    /\ \A a \in Minted : parent[a] # Root => parent[a] < a /\ parent[a] \in Minted /\ stage[parent[a]] \notin Early

(* The walks of TrueDepth, those of agents under way included.             *)
WalksCapped == \A a \in Minted : TrueDepth[a] <= SpawnMaxDepth

(* A profile is the one given, or that of a parent whose own is known.     *)
Inherited ==
    \A a \in Minted \ spawnPast.untold :
        /\ profile[a] # ""
        /\ spawnPast.given[a] = "" /\ parent[a] # Root => parent[a] \notin spawnPast.untold
        /\ profile[a] = IF spawnPast.given[a] # "" THEN spawnPast.given[a]
                        ELSE IF parent[a] = Root THEN DefaultProfile ELSE profile[parent[a]]

(* The status in memory follows the last event of the log, but for a       *)
(* recorded failure that Create hides and a failure that was not recorded. *)
Agrees(a) ==
    \/ astatus[a] = statusEventType[LastOf(elog[a])]
    \/ a \in spawnPast.overwrote /\ astatus[a] = "ready" /\ LastOf(elog[a]) = "failed"
    \/ a \in spawnPast.unrecorded /\ astatus[a] = "failed"

Consistent(a) ==
    /\ stage[a] \in {"started", "done", "lost"} => elog[a] # <<>>
    /\ stage[a] = "started" =>
         LastOf(elog[a]) = "started" \/ (LastOf(elog[a]) = "failed" /\ astatus[a] # "creating")
    /\ stage[a] \in {"done", "lost"} => Agrees(a)

Logged == astatus \in [Agents -> AgentStatus] /\ \A a \in agents : Consistent(a)

TreeInv == Tree /\ WalksCapped /\ Inherited /\ Logged

-----------------------------------------------------------------------------
(* Induction and recursion.                                                *)

(* A nonempty set of naturals has a least member.                          *)
LEMMA LeastMember ==
    ASSUME NEW T, T \subseteq Nat, T # {}
    PROVE  \E x \in T : \A y \in T : ~(y < x)
<1>1. \E x \in T : \A y \in T : ~(<<y, x>> \in OpToRel(<, Nat))
  BY Zenon, NatLessThanWellFounded, WFMin
<1> QED  BY Zenon, <1>1 DEF OpToRel

(* Induction, for a set of naturals instead of a predicate.                *)
LEMMA SetInduction ==
    ASSUME NEW S, 0 \in S, \A n \in Nat : n \in S => n + 1 \in S
    PROVE  Nat \subseteq S
<1> SUFFICES ASSUME Nat \ S # {} PROVE FALSE
  OBVIOUS
<1>1. PICK x \in Nat \ S : \A y \in Nat \ S : ~(y < x)
  BY Zenon, LeastMember
<1>2. x - 1 \in Nat /\ x - 1 < x
  BY <1>1
<1>3. (x - 1) + 1 \in S
  BY <1>1, <1>2
<1> QED  BY <1>1, <1>3

(* G can be iterated M times from base.                                    *)
Iterable(X, base, G, M) ==
  \E f \in [0..M -> X] : f[0] = base /\ \A n \in 1..M : f[n] = G[f[n - 1]]

(* Every function can be: what makes the recursive definitions of the      *)
(* model well defined.                                                     *)
LEMMA Iterates ==
    ASSUME NEW X, NEW base \in X, NEW G \in [X -> X], NEW M \in Nat
    PROVE  Iterable(X, base, G, M)
<1> DEFINE S == {m \in Nat : \E f \in [0..m -> X] : f[0] = base /\ \A n \in 1..m : f[n] = G[f[n - 1]]}
<1>1. 0 \in S
  <2> DEFINE f == [n \in 0..0 |-> base]
  <2>1. f \in [0..0 -> X] /\ f[0] = base /\ \A n \in 1..0 : f[n] = G[f[n - 1]]
    OBVIOUS
  <2> HIDE DEF f
  <2> QED  BY <2>1
<1>2. ASSUME NEW m \in Nat, m \in S PROVE m + 1 \in S
  <2>1. PICK f \in [0..m -> X] : f[0] = base /\ \A n \in 1..m : f[n] = G[f[n - 1]]
    BY <1>2
  <2> DEFINE g == [n \in 0..(m + 1) |-> IF n = m + 1 THEN G[f[m]] ELSE f[n]]
  <2>2. f[m] \in X
    BY <2>1
  <2>3. g \in [0..(m + 1) -> X] /\ g[0] = base
    BY <2>1, <2>2
  <2>4. ASSUME NEW n \in 1..(m + 1) PROVE g[n] = G[g[n - 1]]
    <3>1. CASE n = m + 1
      <4>1. n # 0 /\ n - 1 = m /\ m \in 0..(m + 1) /\ m # m + 1
        BY <3>1
      <4> QED  BY <3>1, <4>1
    <3>2. CASE n # m + 1
      <4>1. n \in 1..m /\ n - 1 \in 0..(m + 1) /\ n - 1 # m + 1
        BY <3>2
      <4> QED  BY <2>1, <3>2, <4>1
    <3> QED  BY <3>1, <3>2
  <2> HIDE DEF g
  <2> QED  BY <2>3, <2>4
<1> HIDE DEF S
<1>3. Nat \subseteq S
  BY <1>1, <1>2, SetInduction
<1> QED  BY <1>3 DEF S, Iterable

(* The number of agents.                                                   *)
LEMMA AgentCount ==
    /\ Cardinality(Agents) \in Nat
    /\ \A a \in Agents : Cardinality(Agents) # 0
<1>1. Cardinality(Agents) \in Nat
  BY SpawnCaps, FS_CardinalityType
<1>2. ASSUME NEW a \in Agents PROVE Cardinality(Agents) # 0
  BY SpawnCaps, FS_EmptySet
<1> QED  BY <1>1, <1>2

(* The recursive definition of Walk, unfolded.                             *)
LEMMA WalkUnfolds ==
    ASSUME NEW up, NEW stop, \A a \in Agents \ stop : up[a] \in Agents,
           NEW N, N = Cardinality(Agents)
    PROVE  \E d \in [0..N -> [Agents -> Nat]] :
             /\ Walk(up, stop) = d[N]
             /\ \A a \in Agents : d[0][a] = 0
             /\ \A n \in 1..N, a \in Agents :
                  d[n][a] = IF a \in stop THEN 0 ELSE 1 + d[n - 1][up[a]]
<1> DEFINE X == [Agents -> Nat]
           base == [a \in Agents |-> 0]
           G == [h \in X |-> [a \in Agents |-> IF a \in stop THEN 0 ELSE 1 + h[up[a]]]]
           Eq(g) == g = [n \in 0..N |-> [a \in Agents |-> IF n = 0 \/ a \in stop THEN 0 ELSE 1 + g[n - 1][up[a]]]]
<1>1. N \in Nat
  BY AgentCount
<1>2. base \in X
  OBVIOUS
<1>3. \A h \in X : [a \in Agents |-> IF a \in stop THEN 0 ELSE 1 + h[up[a]]] \in X
  OBVIOUS
<1>4. G \in [X -> X]
  BY <1>3, Zenon
<1>5. PICK f \in [0..N -> X] : f[0] = base /\ \A n \in 1..N : f[n] = G[f[n - 1]]
  <2>1. Iterable(X, base, G, N)
    <3> HIDE DEF G, base, X
    <3> QED  BY <1>1, <1>2, <1>4, Iterates, Zenon
  <2> QED  BY <2>1, Zenon DEF Iterable
<1>6. ASSUME NEW n \in 0..N
      PROVE  f[n] = [a \in Agents |-> IF n = 0 \/ a \in stop THEN 0 ELSE 1 + f[n - 1][up[a]]]
  <2>1. CASE n = 0
    BY <1>5, <2>1
  <2>2. CASE n # 0
    <3>1. n - 1 \in 0..N /\ n \in 1..N
      BY <1>1, <2>2
    <3>2. f[n - 1] \in X /\ f[n] = G[f[n - 1]]
      BY Zenon, <1>5, <3>1
    <3>3. \A h \in X : G[h] = [a \in Agents |-> IF a \in stop THEN 0 ELSE 1 + h[up[a]]]
      BY Zenon
    <3>4. f[n] = [a \in Agents |-> IF a \in stop THEN 0 ELSE 1 + f[n - 1][up[a]]]
      <4> HIDE DEF G, X
      <4> QED  BY <3>2, <3>3, Zenon
    <3> QED  BY <2>2, <3>4
  <2> QED  BY <2>1, <2>2
<1>7. \E g : Eq(g)
  <2>1. f = [n \in 0..N |-> f[n]]
    BY <1>5, Zenon
  <2>2. f = [n \in 0..N |-> [a \in Agents |-> IF n = 0 \/ a \in stop THEN 0 ELSE 1 + f[n - 1][up[a]]]]
    BY <1>6, <2>1, Zenon
  <2> QED  BY <2>2, Zenon
<1> DEFINE d == CHOOSE g : Eq(g)
<1>8. Eq(d)
  BY <1>7, Zenon
<1>9. Walk(up, stop) = d[N]
  BY DEF Walk
<1> HIDE DEF d
<1>10. \A n \in 0..N : d[n] = [a \in Agents |-> IF n = 0 \/ a \in stop THEN 0 ELSE 1 + d[n - 1][up[a]]]
  BY <1>8, Zenon
<1> DEFINE S == {n \in Nat : n \in 0..N => d[n] \in X}
<1>z. d[0] = base
  <2>1. 0 \in 0..N
    BY <1>1
  <2>2. d[0] = [a \in Agents |-> IF 0 = 0 \/ a \in stop THEN 0 ELSE 1 + d[0 - 1][up[a]]]
    BY <1>10, <2>1, Zenon
  <2> QED  BY <2>2, Zenon
<1>11. 0 \in S
  BY <1>2, <1>z
<1>12. ASSUME NEW n \in Nat, n \in S PROVE n + 1 \in S
  <2> SUFFICES ASSUME n + 1 \in 0..N PROVE d[n + 1] \in X
    OBVIOUS
  <2>1. n \in 0..N /\ (n + 1) - 1 = n
    BY <1>1
  <2>2. d[n] \in X
    BY <1>12, <2>1
  <2>3. d[n + 1] = [a \in Agents |-> IF n + 1 = 0 \/ a \in stop THEN 0 ELSE 1 + d[n][up[a]]]
    BY <1>10, <2>1
  <2> QED  BY <2>2, <2>3
<1>13. Nat \subseteq S
  <2> HIDE DEF S
  <2> QED  BY <1>11, <1>12, SetInduction
<1>14. d \in [0..N -> X]
  <2>1. \A n \in 0..N : d[n] \in X
    BY <1>1, <1>13
  <2> QED  BY <1>8, <2>1, Zenon
<1>15. \A a \in Agents : d[0][a] = 0
  BY <1>z
<1>16. ASSUME NEW n \in 1..N, NEW a \in Agents
       PROVE  d[n][a] = IF a \in stop THEN 0 ELSE 1 + d[n - 1][up[a]]
  <2>1. n \in 0..N /\ n # 0
    BY <1>1
  <2> QED  BY Zenon, <1>10, <2>1
<1> QED  BY Zenon, <1>9, <1>14, <1>15, <1>16

(* A walk is a number, zero where it stops, and at most one more than that *)
(* of the parent.                                                          *)
LEMMA WalkStep ==
    ASSUME NEW up, NEW stop, \A a \in Agents \ stop : up[a] \in Agents
    PROVE  /\ Walk(up, stop) \in [Agents -> Nat]
           /\ \A a \in Agents : a \in stop => Walk(up, stop)[a] = 0
           /\ \A a \in Agents \ stop : Walk(up, stop)[a] <= 1 + Walk(up, stop)[up[a]]
<1>1. PICK N : N = Cardinality(Agents)
  OBVIOUS
<1>2. N \in Nat /\ \A a \in Agents : N # 0
  BY <1>1, AgentCount
<1>3. PICK d \in [0..N -> [Agents -> Nat]] :
        /\ Walk(up, stop) = d[N]
        /\ \A a \in Agents : d[0][a] = 0
        /\ \A n \in 1..N, a \in Agents : d[n][a] = IF a \in stop THEN 0 ELSE 1 + d[n - 1][up[a]]
  BY <1>1, WalkUnfolds
<1>4. \A n \in 0..N : d[n] \in [Agents -> Nat]
  BY <1>3
<1> DEFINE S == {n \in Nat : n + 1 \in 0..N => \A a \in Agents : d[n][a] <= d[n + 1][a]}
<1>5. 0 \in S
  <2> SUFFICES ASSUME 1 \in 0..N, NEW a \in Agents PROVE d[0][a] <= d[1][a]
    OBVIOUS
  <2> QED  BY <1>3, <1>4
<1>6. ASSUME NEW n \in Nat, n \in S PROVE n + 1 \in S
  <2> SUFFICES ASSUME (n + 1) + 1 \in 0..N, NEW a \in Agents PROVE d[n + 1][a] <= d[(n + 1) + 1][a]
    OBVIOUS
  <2>1. n + 1 \in 1..N /\ (n + 1) + 1 \in 1..N /\ (n + 1) - 1 = n /\ ((n + 1) + 1) - 1 = n + 1 /\ n \in 0..N /\ n + 1 \in 0..N
    BY <1>2
  <2>2. \A b \in Agents : d[n][b] <= d[n + 1][b]
    BY <1>6, <2>1
  <2>3. d[n + 1][a] = IF a \in stop THEN 0 ELSE 1 + d[n][up[a]]
    BY <1>3, <2>1
  <2>4. d[(n + 1) + 1][a] = IF a \in stop THEN 0 ELSE 1 + d[n + 1][up[a]]
    BY <1>3, <2>1
  <2>5. CASE a \in stop
    BY <2>3, <2>4, <2>5
  <2>6. CASE a \notin stop
    <3>1. up[a] \in Agents
      BY <2>6
    <3>2. d[n][up[a]] \in Nat /\ d[n + 1][up[a]] \in Nat
      BY <1>4, <2>1, <3>1
    <3> QED  BY <2>2, <2>3, <2>4, <2>6, <3>1, <3>2
  <2> QED  BY <2>5, <2>6
<1>7. Nat \subseteq S
  <2> HIDE DEF S
  <2> QED  BY <1>5, <1>6, SetInduction
<1>8. ASSUME NEW a \in Agents, a \in stop PROVE d[N][a] = 0
  BY <1>2, <1>3, <1>8
<1>9. ASSUME NEW a \in Agents \ stop PROVE d[N][a] <= 1 + d[N][up[a]]
  <2>1. up[a] \in Agents /\ N \in 1..N /\ N - 1 \in 0..N /\ N - 1 \in Nat /\ (N - 1) + 1 = N
    BY <1>2
  <2>2. d[N][a] = 1 + d[N - 1][up[a]]
    BY <1>3, <2>1
  <2>3. d[N - 1][up[a]] <= d[N][up[a]]
    BY <1>2, <1>7, <2>1
  <2>4. d[N - 1][up[a]] \in Nat /\ d[N][up[a]] \in Nat
    BY <1>2, <1>4, <2>1
  <2> QED  BY <2>2, <2>3, <2>4
<1> QED  BY <1>2, <1>3, <1>4, <1>8, <1>9

(* Where one walk goes on the other does too, along the same parents: it   *)
(* is at most as long.                                                     *)
LEMMA WalkAtMost ==
    ASSUME NEW up1, NEW stop1, \A a \in Agents \ stop1 : up1[a] \in Agents,
           NEW up2, NEW stop2, \A a \in Agents \ stop2 : up2[a] \in Agents,
           NEW R, R \subseteq Agents,
           \A a \in R \ stop2 : a \notin stop1 /\ up2[a] = up1[a] /\ up1[a] \in R
    PROVE  \A a \in R : Walk(up2, stop2)[a] <= Walk(up1, stop1)[a]
<1>1. PICK N : N = Cardinality(Agents)
  OBVIOUS
<1>2. N \in Nat
  BY <1>1, AgentCount
<1>3. PICK d \in [0..N -> [Agents -> Nat]] :
        /\ Walk(up1, stop1) = d[N]
        /\ \A a \in Agents : d[0][a] = 0
        /\ \A n \in 1..N, a \in Agents : d[n][a] = IF a \in stop1 THEN 0 ELSE 1 + d[n - 1][up1[a]]
  BY <1>1, WalkUnfolds
<1>4. PICK e \in [0..N -> [Agents -> Nat]] :
        /\ Walk(up2, stop2) = e[N]
        /\ \A a \in Agents : e[0][a] = 0
        /\ \A n \in 1..N, a \in Agents : e[n][a] = IF a \in stop2 THEN 0 ELSE 1 + e[n - 1][up2[a]]
  BY <1>1, WalkUnfolds
<1>5. \A n \in 0..N : d[n] \in [Agents -> Nat] /\ e[n] \in [Agents -> Nat]
  BY <1>3, <1>4
<1> DEFINE S == {n \in Nat : n \in 0..N => \A a \in R : e[n][a] <= d[n][a]}
<1>6. 0 \in S
  BY <1>3, <1>4
<1>7. ASSUME NEW n \in Nat, n \in S PROVE n + 1 \in S
  <2> SUFFICES ASSUME n + 1 \in 0..N, NEW a \in R PROVE e[n + 1][a] <= d[n + 1][a]
    OBVIOUS
  <2>1. n \in 0..N /\ n + 1 \in 1..N /\ (n + 1) - 1 = n /\ a \in Agents
    BY <1>2
  <2>2. \A b \in R : e[n][b] <= d[n][b]
    BY <1>7, <2>1
  <2>3. d[n + 1][a] = IF a \in stop1 THEN 0 ELSE 1 + d[n][up1[a]]
    BY <1>3, <2>1
  <2>4. e[n + 1][a] = IF a \in stop2 THEN 0 ELSE 1 + e[n][up2[a]]
    BY <1>4, <2>1
  <2>5. d[n + 1][a] \in Nat
    BY <1>5, <2>1
  <2>6. CASE a \in stop2
    BY <2>4, <2>5, <2>6
  <2>7. CASE a \notin stop2
    <3>1. a \notin stop1 /\ up2[a] = up1[a] /\ up1[a] \in R /\ up1[a] \in Agents
      BY <2>7
    <3>2. e[n][up1[a]] \in Nat /\ d[n][up1[a]] \in Nat /\ e[n][up1[a]] <= d[n][up1[a]]
      BY <1>5, <2>1, <2>2, <3>1
    <3> QED  BY <2>3, <2>4, <2>7, <3>1, <3>2
  <2> QED  BY <2>6, <2>7
<1>8. Nat \subseteq S
  <2> HIDE DEF S
  <2> QED  BY <1>6, <1>7, SetInduction
<1> QED  BY <1>2, <1>3, <1>4, <1>8

-----------------------------------------------------------------------------
(* The tree.                                                               *)

(* TrueDepth over parents and late children given as values.               *)
Chain(up, late) == Walk(up, {a \in Agents : up[a] = Root} \cup late)

(* A chain is a number, zero at a root, at most one more than the parent's. *)
LEMMA ChainStep ==
    ASSUME NEW up \in [Agents -> Agents \cup {Root}], NEW late
    PROVE  /\ Chain(up, late) \in [Agents -> Nat]
           /\ \A a \in Agents : up[a] = Root \/ a \in late => Chain(up, late)[a] = 0
           /\ \A a \in Agents : ~(up[a] = Root \/ a \in late) =>
                up[a] \in Agents /\ Chain(up, late)[a] <= 1 + Chain(up, late)[up[a]]
<1> DEFINE stop == {a \in Agents : up[a] = Root} \cup late
<1>1. \A a \in Agents \ stop : up[a] \in Agents
  OBVIOUS
<1>2. \A a \in Agents : a \in stop <=> up[a] = Root \/ a \in late
  OBVIOUS
<1>3. Chain(up, late) = Walk(up, stop)
  BY DEF Chain
<1> HIDE DEF stop
<1>4. /\ Walk(up, stop) \in [Agents -> Nat]
      /\ \A a \in Agents : a \in stop => Walk(up, stop)[a] = 0
      /\ \A a \in Agents \ stop : Walk(up, stop)[a] <= 1 + Walk(up, stop)[up[a]]
  BY <1>1, WalkStep
<1> QED  BY <1>1, <1>2, <1>3, <1>4

(* Late children only shorten the chains of minted agents.                 *)
LEMMA ChainsShorten ==
    ASSUME NEW up1 \in [Agents -> Agents \cup {Root}], NEW up2 \in [Agents -> Agents \cup {Root}],
           NEW late1, NEW late2, late1 \subseteq late2,
           NEW R, R \subseteq Agents, \A a \in R : up2[a] = up1[a] /\ (up1[a] # Root => up1[a] \in R)
    PROVE  \A a \in R : Chain(up2, late2)[a] <= Chain(up1, late1)[a]
<1> DEFINE stop1 == {a \in Agents : up1[a] = Root} \cup late1
           stop2 == {a \in Agents : up2[a] = Root} \cup late2
<1>1. \A a \in Agents \ stop1 : up1[a] \in Agents
  OBVIOUS
<1>2. \A a \in Agents \ stop2 : up2[a] \in Agents
  OBVIOUS
<1>3. \A a \in R \ stop2 : a \notin stop1 /\ up2[a] = up1[a] /\ up1[a] \in R
  OBVIOUS
<1>4. Chain(up1, late1) = Walk(up1, stop1) /\ Chain(up2, late2) = Walk(up2, stop2)
  BY DEF Chain
<1> HIDE DEF stop1, stop2
<1>5. \A a \in R : Walk(up2, stop2)[a] <= Walk(up1, stop1)[a]
  BY <1>1, <1>2, <1>3, WalkAtMost
<1> QED  BY <1>4, <1>5

(* Without a mint the tree stays.                                          *)
LEMMA TreeKept ==
    ASSUME SpawnTypes, SpawnTypes', Tree, WalksCapped, UNCHANGED parent, Minted' = Minted,
           \A a \in Agents : stage[a] \notin Early => stage'[a] \notin Early,
           spawnPast.lateChild \subseteq spawnPast'.lateChild,
           spawnPast.unlogged \subseteq spawnPast'.unlogged
    PROVE  Tree' /\ WalksCapped'
<1> DEFINE late == spawnPast.lateChild \cup spawnPast.unlogged
           later == spawnPast'.lateChild \cup spawnPast'.unlogged
<1>1. Tree'
  BY DEF Tree, Minted
<1>2. TrueDepth = Chain(parent, late)
  <2>1. {a \in Agents : parent[a] = Root} \cup spawnPast.lateChild \cup spawnPast.unlogged
          = {a \in Agents : parent[a] = Root} \cup late
    OBVIOUS
  <2> QED  BY <2>1, Zenon DEF TrueDepth, Chain
<1>3. TrueDepth' = Chain(parent, later)
  <2>1. {a \in Agents : parent[a] = Root} \cup spawnPast'.lateChild \cup spawnPast'.unlogged
          = {a \in Agents : parent[a] = Root} \cup later
    OBVIOUS
  <2> QED  BY <2>1, Zenon DEF TrueDepth, Chain
<1>4. parent \in [Agents -> Agents \cup {Root}] /\ late \subseteq later
  BY DEF SpawnTypes
<1>5. Minted \subseteq Agents /\ \A a \in Minted : parent[a] # Root => parent[a] \in Minted
  BY DEF Minted, Tree
<1> HIDE DEF late, later
<1>6. \A a \in Minted : TrueDepth'[a] <= TrueDepth[a]
  BY <1>2, <1>3, <1>4, <1>5, ChainsShorten
<1>7. \A a \in Minted : TrueDepth'[a] \in Nat /\ TrueDepth[a] \in Nat
  BY <1>2, <1>3, <1>4, <1>5, ChainStep
<1> QED  BY <1>1, <1>6, <1>7, SpawnCaps DEF WalksCapped

(* CreateChecks: Depth bounds the chain of the parent, the registered      *)
(* agents being closed under it but for late children.                     *)
LEMMA TreeGrows ==
    ASSUME SpawnTypes, SpawnTypes', InOrder, Recorded, NoOrphanedChild, Tree, WalksCapped,
           NEW a \in Agents, NEW p \in Agents \cup {Root}, NEW o \in Profiles, CreateChecks(a, p, o)
    PROVE  Tree' /\ WalksCapped'
<1> DEFINE late == spawnPast.lateChild \cup spawnPast.unlogged
           up == parent'
<1>1. /\ stage[a] = "new" /\ (\A b \in Agents : b < a => stage[b] # "new")
      /\ p # Root => p \in agents
      /\ parent' = [parent EXCEPT ![a] = p] /\ stage' = [stage EXCEPT ![a] = "checked"]
  BY Zenon DEF CreateChecks, To
<1>2. spawnPast'.lateChild = spawnPast.lateChild /\ spawnPast'.unlogged = spawnPast.unlogged
  <2>1. spawnPast \in Pasts
    BY DEF SpawnTypes
  <2>2. PICK listed \in {TRUE, FALSE}, more \in SUBSET {a}, untold \in SUBSET {a} :
          Notes(a, p, o, listed, more, untold)
    BY Zenon, ChecksPast
  <2>3. spawnPast' = [spawnPast EXCEPT !.capRace = @ \cup more, !.untold = @ \cup untold, !.given[a] = o]
    BY <2>2 DEF Notes
  <2> QED  BY <2>1, <2>3 DEF Pasts
<1>3. Minted' = Minted \cup {a} /\ a \notin Minted
  BY <1>1 DEF Minted, SpawnTypes
<1>4. parent \in [Agents -> Agents \cup {Root}] /\ up \in [Agents -> Agents \cup {Root}]
  BY DEF SpawnTypes
<1>5. \A b \in Minted : up[b] = parent[b]
  BY <1>1, <1>3, <1>4
<1>6. agents \subseteq Minted
  BY DEF SpawnTypes, InOrder, Minted, Early
<1>7. p # Root => p \in Minted /\ stage[p] \notin Early
  BY <1>1, <1>6 DEF InOrder, Minted
<1>8. up[a] = p
  BY <1>1, <1>4
<1>9. \A b \in Minted : b < a
  <2> SUFFICES ASSUME NEW b \in Minted, ~(b < a) PROVE FALSE
    OBVIOUS
  <2>1. a \in Nat /\ b \in Nat /\ b \in Agents /\ b # a
    BY <1>3, SpawnCaps DEF Minted
  <2>2. a < b
    BY <2>1
  <2> QED  BY <1>3, <2>1, <2>2 DEF Tree
<1>10. Tree'
  <2>1. \A b \in Agents : b < a => b \in Minted
    BY <1>1 DEF Minted
  <2>2. \A x \in Minted' : \A b \in Agents : b < x => b \in Minted'
    BY <1>3, <2>1 DEF Tree
  <2>3. \A x \in Minted' : up[x] # Root => up[x] < x /\ up[x] \in Minted
    BY <1>3, <1>5, <1>7, <1>8, <1>9 DEF Tree
  <2>4. \A x \in Minted' : up[x] # Root => stage[up[x]] \notin Early
    BY <1>3, <1>5, <1>7, <1>8 DEF Tree
  <2>5. \A x \in Minted : stage'[x] = stage[x]
    BY <1>1, <1>3 DEF SpawnTypes, Minted
  <2> QED  BY <1>3, <2>2, <2>3, <2>4, <2>5 DEF Tree
<1> HIDE DEF up
<1>11. TrueDepth = Chain(parent, late) /\ TrueDepth' = Chain(up, late)
  <2>1. {b \in Agents : parent[b] = Root} \cup spawnPast.lateChild \cup spawnPast.unlogged
          = {b \in Agents : parent[b] = Root} \cup late
    OBVIOUS
  <2>2. {b \in Agents : up[b] = Root} \cup spawnPast'.lateChild \cup spawnPast'.unlogged
          = {b \in Agents : up[b] = Root} \cup late
    BY <1>2
  <2>3. TrueDepth = Chain(parent, late)
    BY <2>1, Zenon DEF TrueDepth, Chain
  <2>4. TrueDepth' = Chain(up, late)
    BY <2>2, Zenon DEF TrueDepth, Chain, up
  <2> QED  BY <2>3, <2>4
<1>12. \A b \in Minted : Chain(up, late)[b] <= Chain(parent, late)[b]
  <2>1. Minted \subseteq Agents /\ \A b \in Minted : up[b] = parent[b] /\ (parent[b] # Root => parent[b] \in Minted)
    BY <1>5 DEF Minted, Tree
  <2> QED  BY <1>4, <2>1, ChainsShorten
<1>13. \A b \in Agents : Chain(up, late)[b] \in Nat /\ Chain(parent, late)[b] \in Nat
  BY <1>4, ChainStep
<1>14. \A b \in Minted : Chain(up, late)[b] <= SpawnMaxDepth
  <2> HIDE DEF late
  <2> QED  BY <1>11, <1>12, <1>13, SpawnCaps DEF WalksCapped, Minted
<1>15. Chain(up, late)[a] <= SpawnMaxDepth
  <2>1. CASE p = Root \/ a \in late
    <3>1. Chain(up, late)[a] = 0
      BY <1>4, <1>8, <2>1, ChainStep
    <3> QED  BY <3>1, SpawnCaps
  <2>2. CASE ~(p = Root \/ a \in late)
    <3>1. Chain(up, late)[a] <= 1 + Chain(up, late)[p] /\ p \in Agents
      BY <1>4, <1>8, <2>2, ChainStep
    <3> DEFINE stop == {b \in Agents : link[b] \notin agents}
               end == {b \in Agents : up[b] = Root} \cup late
    <3>2. Depth = Walk(link, stop) /\ Chain(up, late) = Walk(up, end)
      BY DEF Depth, Chain
    <3>3. agents \subseteq Agents /\ \A b \in Agents \ stop : link[b] \in Agents
      BY DEF SpawnTypes
    <3>4. \A b \in Agents \ end : up[b] \in Agents
      BY <1>4
    <3>5. \A b \in agents \ end : b \notin stop /\ up[b] = link[b] /\ link[b] \in agents
      <4> SUFFICES ASSUME NEW b \in agents \ end PROVE up[b] = link[b] /\ link[b] \in agents
        OBVIOUS
      <4>1. up[b] = parent[b] /\ b \in Agents
        BY <1>5, <1>6, <3>3
      <4>2. parent[b] # Root /\ b \notin spawnPast.lateChild /\ b \notin spawnPast.unlogged
        BY <4>1
      <4>3. link[b] = parent[b]
        BY <4>1, <4>2 DEF Recorded
      <4> QED  BY <4>1, <4>2, <4>3 DEF NoOrphanedChild
    <3> HIDE DEF stop, end
    <3>6. \A b \in agents : Walk(up, end)[b] <= Walk(link, stop)[b]
      BY <3>3, <3>4, <3>5, WalkAtMost
    <3>7. Walk(link, stop) \in [Agents -> Nat]
      BY <3>3, WalkStep
    <3>8. ~(Depth[p] + 1 > SpawnMaxDepth)
      BY Zenon, <2>2 DEF CreateChecks, Deep
    <3>9. Chain(up, late)[p] <= Depth[p] /\ Depth[p] \in Nat /\ Chain(up, late)[p] \in Nat /\ Chain(up, late)[a] \in Nat
      BY <1>1, <1>13, <2>2, <3>1, <3>2, <3>6, <3>7
    <3> QED  BY <3>1, <3>8, <3>9, SpawnCaps
  <2> QED  BY <2>1, <2>2
<1>16. WalksCapped'
  BY <1>3, <1>11, <1>14, <1>15 DEF WalksCapped
<1> QED  BY <1>10, <1>16

(* Only CreateChecks mints agents, gives them parents and profiles; only   *)
(* what was not told before a registration is lost later.                  *)
Unminting ==
    /\ UNCHANGED parent /\ Minted' = Minted
    /\ \A a \in Agents : stage[a] \notin Early => stage'[a] \notin Early
    /\ spawnPast.lateChild \subseteq spawnPast'.lateChild /\ spawnPast'.given = spawnPast.given
    /\ spawnPast.unlogged \subseteq spawnPast'.unlogged
    /\ spawnPast.untold \subseteq spawnPast'.untold
    /\ \A a \in Agents : a \in spawnPast'.untold \ spawnPast.untold => stage[a] \in Early
    /\ \A a \in Agents \ spawnPast.untold : profile'[a] = profile[a]

(* A create past its mint moves on without another.                         *)
LEMMA MovesUnminting ==
    ASSUME SpawnTypes, NEW a \in Agents, stage[a] # "new", NEW s, s # "new", To(a, s),
           s \in Early => stage[a] \in Early, UNCHANGED <<parent, profile>>,
           spawnPast.lateChild \subseteq spawnPast'.lateChild, spawnPast'.given = spawnPast.given,
           spawnPast'.unlogged = spawnPast.unlogged, spawnPast'.untold = spawnPast.untold
    PROVE  Unminting
BY DEF SpawnTypes, To, Minted, Unminting

(* The steps of a create after its checks, and a failure, mint nothing.     *)
LEMMA CreateUnminting ==
    ASSUME SpawnTypes, NEW a \in Agents,
           \/ CreateBoxes(a) \/ WaitReady(a) \/ ExposeDaemon(a) \/ Provisioned(a)
           \/ ApplyPolicy(a) \/ ApplyDeny(a) \/ Registers(a) \/ Starts(a) \/ Readies(a)
           \/ RollsBack(a) \/ Fails(a)
    PROVE  Unminting
<1>p. spawnPast \in Pasts
  BY DEF SpawnTypes
<1>1. CASE CreateBoxes(a)
  BY <1>1, MovesUnminting DEF CreateBoxes, identity, Early
<1>2. CASE WaitReady(a) \/ ExposeDaemon(a) \/ ApplyPolicy(a) \/ ApplyDeny(a)
  BY <1>2, MovesUnminting DEF WaitReady, ExposeDaemon, ApplyPolicy, ApplyDeny, GatewayStep, identity, Early
<1>3. CASE Provisioned(a)
  <2>1. stage[a] = "exposed" /\ To(a, "provisioned") /\ UNCHANGED <<parent, profile>>
    BY <1>3 DEF Provisioned
  <2>2. CASE UNCHANGED spawnPast
    BY <2>1, <2>2, MovesUnminting DEF Early
  <2>3. CASE spawnPast' = [spawnPast EXCEPT !.unlogged = @ \cup {a}, !.untold = @ \cup {a}]
    <3>1. /\ spawnPast'.lateChild = spawnPast.lateChild /\ spawnPast'.given = spawnPast.given
          /\ spawnPast'.unlogged = spawnPast.unlogged \cup {a} /\ spawnPast'.untold = spawnPast.untold \cup {a}
      BY <1>p, <2>3 DEF Pasts
    <3>2. Minted' = Minted /\ \A b \in Agents : stage[b] \notin Early => stage'[b] \notin Early
      BY <2>1 DEF SpawnTypes, To, Minted, Early
    <3> QED  BY <2>1, <3>1, <3>2 DEF Unminting, Early
  <2> QED  BY <1>3, <2>2, <2>3 DEF Provisioned
<1>4. CASE Registers(a)
  <2>1. /\ spawnPast.lateChild \subseteq spawnPast'.lateChild /\ spawnPast'.given = spawnPast.given
        /\ spawnPast'.unlogged = spawnPast.unlogged /\ spawnPast'.untold = spawnPast.untold
    BY Zenon, <1>4, <1>p DEF Registers, Pasts
  <2> QED  BY <1>4, <2>1, MovesUnminting DEF Registers, identity, Early
<1>5. CASE Starts(a)
  <2>1. /\ spawnPast.lateChild \subseteq spawnPast'.lateChild /\ spawnPast'.given = spawnPast.given
        /\ spawnPast'.unlogged = spawnPast.unlogged /\ spawnPast'.untold = spawnPast.untold
    BY <1>5, <1>p DEF Starts, Pasts
  <2> QED  BY <1>5, <2>1, MovesUnminting DEF Starts, identity, Early
<1>6. CASE Readies(a)
  <2>1. /\ spawnPast'.lateChild = spawnPast.lateChild /\ spawnPast'.given = spawnPast.given
        /\ spawnPast'.unlogged = spawnPast.unlogged /\ spawnPast'.untold = spawnPast.untold
    BY Zenon, <1>6, <1>p DEF Readies, Pasts
  <2> QED  BY <1>6, <2>1, MovesUnminting DEF Readies, identity, Early
<1>7. CASE RollsBack(a)
  <2>1. /\ spawnPast'.lateChild = spawnPast.lateChild /\ spawnPast'.given = spawnPast.given
        /\ spawnPast'.unlogged = spawnPast.unlogged /\ spawnPast'.untold = spawnPast.untold
    BY <1>7, <1>p DEF RollsBack, Pasts
  <2> QED  BY <1>7, <2>1, MovesUnminting DEF RollsBack, identity, Early
<1>8. CASE Fails(a)
  <2>1. /\ spawnPast'.lateChild = spawnPast.lateChild /\ spawnPast'.given = spawnPast.given
        /\ spawnPast'.unlogged = spawnPast.unlogged /\ spawnPast'.untold = spawnPast.untold
    BY <1>8, <1>p DEF Fails, Pasts
  <2> QED  BY <1>8, <2>1 DEF Fails, identity, Unminting, Minted
<1> QED  BY <1>1, <1>2, <1>3, <1>4, <1>5, <1>6, <1>7, <1>8

(* Nor does a delete.                                                       *)
LEMMA DeleteUnminting ==
    ASSUME SpawnTypes, NEW d \in Deleters,
           \/ \E a \in Agents : DeleteBegins(d, a)
           \/ DeleteDescends(d) \/ DeleteLists(d) \/ DeleteLooks(d) \/ DeleteSweeps(d)
           \/ DeleteUnregisters(d) \/ DeleteUnboxes(d)
    PROVE  Unminting
<1>1. UNCHANGED <<parent, profile, stage>>
  BY DEF DeleteBegins, DeleteDescends, DeleteLists, DeleteLooks, DeleteSweeps, DeleteUnregisters, DeleteUnboxes, identity
<1>2. /\ spawnPast'.lateChild = spawnPast.lateChild /\ spawnPast'.given = spawnPast.given
      /\ spawnPast'.unlogged = spawnPast.unlogged /\ spawnPast'.untold = spawnPast.untold
  <2>1. spawnPast \in Pasts
    BY DEF SpawnTypes
  <2>2. CASE UNCHANGED spawnPast
    BY <2>2
  <2>3. CASE DeleteSweeps(d)
    BY <2>1, <2>3 DEF DeleteSweeps, Pasts
  <2>4. CASE DeleteUnboxes(d)
    BY <2>1, <2>4 DEF DeleteUnboxes, Pasts
  <2> QED  BY <2>2, <2>3, <2>4 DEF DeleteBegins, DeleteDescends, DeleteLists, DeleteLooks, DeleteUnregisters
<1> QED  BY <1>1, <1>2 DEF Unminting, Minted

(* Nor a restart: the replayed profile is the one in memory.                *)
LEMMA RestartUnminting ==
    ASSUME SpawnTypes, Recorded, SpawnRestart
    PROVE  Unminting
<1>1. \A a \in Agents \ spawnPast.untold : profile'[a] = profile[a]
  <2> SUFFICES ASSUME NEW a \in Agents \ spawnPast.untold PROVE profile'[a] = profile[a]
    OBVIOUS
  <2>1. profile'[a] = IF a \in agents' THEN payload[a].profile ELSE profile[a]
    BY DEF SpawnRestart
  <2>2. a \in agents' => elog[a] # <<>>
    BY DEF SpawnRestart
  <2>3. elog[a] # <<>> => payload[a].profile = profile[a]
    BY DEF Recorded
  <2> QED  BY <2>1, <2>2, <2>3
<1>2. Minted' = Minted /\ \A a \in Agents : stage[a] \notin Early => stage'[a] \notin Early
  BY DEF SpawnRestart, SpawnTypes, Minted, Creating, Early
<1>3. /\ spawnPast.lateChild \subseteq spawnPast'.lateChild /\ spawnPast'.given = spawnPast.given
      /\ spawnPast'.unlogged = spawnPast.unlogged /\ spawnPast'.untold = spawnPast.untold
  BY DEF SpawnRestart, SpawnTypes, Pasts
<1>4. parent' = parent
  BY DEF SpawnRestart
<1> QED  BY <1>1, <1>2, <1>3, <1>4 DEF Unminting

(* The tree and the profiles along it stay.                                *)
LEMMA UnmintingKeeps ==
    ASSUME SpawnTypes, SpawnTypes', Tree, WalksCapped, Inherited, Unminting
    PROVE  Tree' /\ WalksCapped' /\ Inherited'
<1>1. Tree' /\ WalksCapped'
  BY TreeKept DEF Unminting
<1>2. Inherited'
  <2> SUFFICES ASSUME NEW a \in Minted', a \notin spawnPast'.untold
               PROVE  /\ profile'[a] # ""
                      /\ spawnPast'.given[a] = "" /\ parent'[a] # Root => parent'[a] \notin spawnPast'.untold
                      /\ profile'[a] = IF spawnPast'.given[a] # "" THEN spawnPast'.given[a]
                                       ELSE IF parent'[a] = Root THEN DefaultProfile ELSE profile'[parent'[a]]
    BY Zenon DEF Inherited
  <2>1. a \in Minted /\ a \in Agents /\ a \notin spawnPast.untold /\ profile'[a] = profile[a]
        /\ parent'[a] = parent[a] /\ spawnPast'.given[a] = spawnPast.given[a]
    BY Zenon DEF Unminting, Minted
  <2>2. parent[a] # Root => parent[a] \in Agents /\ stage[parent[a]] \notin Early
    BY <2>1 DEF Tree, Minted
  <2>3. parent[a] # Root /\ parent[a] \notin spawnPast.untold =>
          parent[a] \notin spawnPast'.untold /\ profile'[parent[a]] = profile[parent[a]]
    BY Zenon, <2>2 DEF Unminting
  <2>4. /\ profile[a] # ""
        /\ spawnPast.given[a] = "" /\ parent[a] # Root => parent[a] \notin spawnPast.untold
        /\ profile[a] = IF spawnPast.given[a] # "" THEN spawnPast.given[a]
                        ELSE IF parent[a] = Root THEN DefaultProfile ELSE profile[parent[a]]
    BY Zenon, <2>1 DEF Inherited
  <2> QED  BY Zenon, <2>1, <2>3, <2>4
<1> QED  BY <1>1, <1>2

(* A mint inherits.                                                        *)
LEMMA ChecksInherit ==
    ASSUME SpawnTypes, Tree, Inherited, InOrder,
           NEW a \in Agents, NEW p \in Agents \cup {Root}, NEW o \in Profiles, CreateChecks(a, p, o)
    PROVE  Inherited'
<1>1. /\ stage[a] = "new" /\ (p # Root => p \in agents)
      /\ parent' = [parent EXCEPT ![a] = p] /\ stage' = [stage EXCEPT ![a] = "checked"]
      /\ profile' = [profile EXCEPT ![a] = IF o # "" THEN o
                                           ELSE IF p # Root /\ profile[p] # "" THEN profile[p] ELSE DefaultProfile]
  BY Zenon DEF CreateChecks, To
<1>2. PICK untold \in SUBSET {a} :
        /\ spawnPast'.given = [spawnPast.given EXCEPT ![a] = o]
        /\ spawnPast'.untold = spawnPast.untold \cup untold
        /\ o = "" /\ p \in spawnPast.untold => a \in untold
  <2>1. spawnPast \in Pasts
    BY DEF SpawnTypes
  <2>2. PICK listed \in {TRUE, FALSE}, more \in SUBSET {a}, untold \in SUBSET {a} :
          Notes(a, p, o, listed, more, untold)
    BY Zenon, ChecksPast
  <2>3. /\ spawnPast' = [spawnPast EXCEPT !.capRace = @ \cup more, !.untold = @ \cup untold, !.given[a] = o]
        /\ o = "" /\ p \in spawnPast.untold => a \in untold
    BY <2>2 DEF Notes
  <2>4. /\ spawnPast'.given = [spawnPast.given EXCEPT ![a] = o]
        /\ spawnPast'.untold = spawnPast.untold \cup untold
    BY <2>1, <2>3 DEF Pasts
  <2> QED  BY Zenon, <2>2, <2>3, <2>4
<1>3. Minted' = Minted \cup {a} /\ a \notin Minted
  BY Zenon, <1>1 DEF Minted, SpawnTypes
<1>4. p # Root => p \in Minted
  BY Zenon, <1>1 DEF SpawnTypes, InOrder, Minted, Early
<1>5. parent \in [Agents -> Agents \cup {Root}] /\ spawnPast.given \in [Agents -> Profiles]
      /\ profile \in [Agents -> Resolved]
  BY DEF SpawnTypes, Pasts
<1>8. ASSUME NEW b \in Minted \ spawnPast'.untold
      PROVE  /\ profile'[b] # ""
             /\ spawnPast'.given[b] = "" /\ parent'[b] # Root => parent'[b] \notin spawnPast'.untold
             /\ profile'[b] = IF spawnPast'.given[b] # "" THEN spawnPast'.given[b]
                              ELSE IF parent'[b] = Root THEN DefaultProfile ELSE profile'[parent'[b]]
  <2>1. b \in Agents /\ b # a /\ (parent[b] # Root => parent[b] \in Agents /\ parent[b] # a)
    BY <1>3, <1>5 DEF Minted, Tree
  <2>2. profile'[b] = profile[b] /\ spawnPast'.given[b] = spawnPast.given[b] /\ parent'[b] = parent[b]
        /\ (parent[b] # Root => profile'[parent[b]] = profile[parent[b]])
    BY Zenon, <1>1, <1>2, <1>5, <2>1
  <2>3. b \notin spawnPast.untold /\ (parent[b] # Root /\ parent[b] \notin spawnPast.untold => parent[b] \notin spawnPast'.untold)
    BY <1>2, <2>1
  <2>4. /\ profile[b] # ""
        /\ spawnPast.given[b] = "" /\ parent[b] # Root => parent[b] \notin spawnPast.untold
        /\ profile[b] = IF spawnPast.given[b] # "" THEN spawnPast.given[b]
                        ELSE IF parent[b] = Root THEN DefaultProfile ELSE profile[parent[b]]
    BY Zenon, <2>3 DEF Inherited
  <2> QED  BY Zenon, <2>2, <2>3, <2>4
<1>9. ASSUME a \notin spawnPast'.untold
      PROVE  /\ profile'[a] # ""
             /\ spawnPast'.given[a] = "" /\ parent'[a] # Root => parent'[a] \notin spawnPast'.untold
             /\ profile'[a] = IF spawnPast'.given[a] # "" THEN spawnPast'.given[a]
                              ELSE IF parent'[a] = Root THEN DefaultProfile ELSE profile'[parent'[a]]
  <2>1. p # Root => p \in Agents /\ p # a
    BY <1>3, <1>4 DEF Minted
  <2>2. parent'[a] = p /\ spawnPast'.given[a] = o /\ (p # Root => profile'[p] = profile[p])
    BY Zenon, <1>1, <1>2, <1>5, <2>1
  <2>3. profile'[a] = IF o # "" THEN o ELSE IF p # Root /\ profile[p] # "" THEN profile[p] ELSE DefaultProfile
    BY Zenon, <1>1, <1>5
  <2>4. o = "" => p \notin spawnPast.untold
    BY Zenon, <1>2, <1>9
  <2>5. p # Root /\ p \notin spawnPast.untold => p \notin spawnPast'.untold
    BY <1>2, <2>1
  <2>6. p # Root /\ p \notin spawnPast.untold => profile[p] # ""
    BY Zenon, <1>4 DEF Inherited
  <2>7. DefaultProfile # ""
    BY DEF DefaultProfile
  <2> QED  BY Zenon, <2>2, <2>3, <2>4, <2>5, <2>6, <2>7
<1> QED  BY Zenon, <1>3, <1>8, <1>9 DEF Inherited

-----------------------------------------------------------------------------
(* The logs.                                                               *)

(* Every event of an agent's log carries a status, so a replay ends with   *)
(* that of the last one.                                                   *)
LEMMA ReplayIsLast ==
    ASSUME NEW log \in Seq(LogEvents)
    PROVE  StatusFromLog(log) = IF log = <<>> THEN "creating" ELSE statusEventType[LastOf(log)]
<1> DEFINE Eq(g) == g = [n \in 0..Len(log) |-> IF n = 0 THEN "creating" ELSE ReplayAgentStatus(g[n - 1], log[n])]
           g0 == [n \in 0..Len(log) |-> IF n = 0 THEN "creating" ELSE statusEventType[log[n]]]
<1>1. LogEvents \subseteq DOMAIN statusEventType
  BY DEF LogEvents, statusEventType
<1>2. \A s : \A ev \in LogEvents : ReplayAgentStatus(s, ev) = statusEventType[ev]
  BY <1>1, Zenon DEF ReplayAgentStatus
<1>3. Len(log) \in Nat /\ \A n \in 1..Len(log) : log[n] \in LogEvents
  OBVIOUS
<1>4. \A n \in 0..Len(log) : n # 0 => log[n] \in LogEvents
  BY <1>3
<1>5. Eq(g0)
  <2>1. \A n \in 0..Len(log) : (IF n = 0 THEN "creating" ELSE statusEventType[log[n]])
                              = (IF n = 0 THEN "creating" ELSE ReplayAgentStatus(g0[n - 1], log[n]))
    <3> HIDE DEF g0
    <3> QED  BY <1>2, <1>4, Zenon
  <2> QED  BY <2>1, Zenon
<1> HIDE DEF g0
<1>6. \E g : Eq(g)
  BY <1>5, Zenon
<1> DEFINE st == CHOOSE g : Eq(g)
<1>7. Eq(st)
  BY <1>6, Zenon
<1>8. StatusFromLog(log) = st[Len(log)]
  BY DEF StatusFromLog
<1> HIDE DEF st
<1>9. \A n \in 0..Len(log) : st[n] = IF n = 0 THEN "creating" ELSE ReplayAgentStatus(st[n - 1], log[n])
  BY <1>7, Zenon
<1>10. Len(log) \in 0..Len(log) /\ (Len(log) = 0 <=> log = <<>>)
  BY <1>3
<1>11. st[Len(log)] = IF Len(log) = 0 THEN "creating" ELSE ReplayAgentStatus(st[Len(log) - 1], log[Len(log)])
  BY <1>9, <1>10, Zenon
<1>12. LastOf(log) = log[Len(log)]
  BY DEF LastOf
<1>13. CASE log = <<>>
  BY <1>8, <1>10, <1>11, <1>13
<1>14. CASE log # <<>>
  <2>1. log[Len(log)] \in LogEvents /\ Len(log) # 0
    BY <1>4, <1>10, <1>14
  <2> QED  BY <1>2, <1>8, <1>11, <1>12, <1>14, <2>1, Zenon
<1> QED  BY <1>13, <1>14

(* The last event of a log is the one appended.                             *)
LEMMA AppendLast ==
    ASSUME NEW log \in Seq(LogEvents), NEW ev \in LogEvents
    PROVE  Append(log, ev) \in Seq(LogEvents) /\ Append(log, ev) # <<>> /\ LastOf(Append(log, ev)) = ev
BY DEF LastOf

(* An agent that a step leaves alone stays consistent.                      *)
LEMMA ConsistentKept ==
    ASSUME NEW a, Consistent(a), stage'[a] = stage[a], elog'[a] = elog[a], astatus'[a] = astatus[a],
           a \in spawnPast.overwrote => a \in spawnPast'.overwrote,
           a \in spawnPast.unrecorded => a \in spawnPast'.unrecorded
    PROVE  Consistent(a)'
BY Zenon DEF Consistent, Agrees

(* Steps that leave log, map and statuses alone.                           *)
LEMMA LoggedMoves ==
    ASSUME SpawnTypes, Logged, UNCHANGED <<elog, agents, astatus>>, spawnPast'.overwrote = spawnPast.overwrote,
           spawnPast'.unrecorded = spawnPast.unrecorded,
           NEW a \in Agents, NEW s, To(a, s), s \notin {"started", "done", "lost"}
    PROVE  Logged'
<1>1. stage'[a] = s /\ \A b \in Agents : b # a => stage'[b] = stage[b]
  BY DEF SpawnTypes, To
<1>2. Consistent(a)'
  BY <1>1 DEF Consistent
<1>3. \A b \in agents : b # a => Consistent(b)'
  BY <1>1, ConsistentKept DEF Logged, SpawnTypes
<1> QED  BY Zenon, <1>2, <1>3 DEF Logged

(* ... and the stages too.                                                  *)
LEMMA LoggedSame ==
    ASSUME Logged, UNCHANGED <<stage, elog, agents, astatus>>, spawnPast'.overwrote = spawnPast.overwrote,
           spawnPast'.unrecorded = spawnPast.unrecorded
    PROVE  Logged'
BY Zenon, ConsistentKept DEF Logged

(* CreateChecks writes nothing.                                             *)
LEMMA ChecksLogged ==
    ASSUME SpawnTypes, Logged,
           NEW a \in Agents, NEW p \in Agents \cup {Root}, NEW o \in Profiles, CreateChecks(a, p, o)
    PROVE  Logged'
<1>1. spawnPast'.overwrote = spawnPast.overwrote /\ spawnPast'.unrecorded = spawnPast.unrecorded
  <2>1. spawnPast \in Pasts
    BY DEF SpawnTypes
  <2>2. PICK listed \in {TRUE, FALSE}, more \in SUBSET {a}, untold \in SUBSET {a} :
          Notes(a, p, o, listed, more, untold)
    BY Zenon, ChecksPast
  <2>3. spawnPast' = [spawnPast EXCEPT !.capRace = @ \cup more, !.untold = @ \cup untold, !.given[a] = o]
    BY <2>2 DEF Notes
  <2> QED  BY <2>1, <2>3 DEF Pasts
<1>2. To(a, "checked") /\ UNCHANGED <<elog, agents, astatus>>
  BY Zenon DEF CreateChecks
<1> QED  BY <1>1, <1>2, LoggedMoves

(* Nor do the gateway calls of a create and of its rollback.                *)
LEMMA BoxLogged ==
    ASSUME SpawnTypes, Logged, NEW a \in Agents,
           \/ CreateBoxes(a) \/ WaitReady(a) \/ ExposeDaemon(a) \/ ApplyPolicy(a) \/ ApplyDeny(a) \/ RollsBack(a)
    PROVE  Logged'
<1>1. spawnPast'.overwrote = spawnPast.overwrote /\ spawnPast'.unrecorded = spawnPast.unrecorded
  BY DEF CreateBoxes, WaitReady, ExposeDaemon, ApplyPolicy, ApplyDeny, GatewayStep, RollsBack, SpawnTypes, Pasts
<1>2. UNCHANGED <<elog, agents, astatus>>
  BY DEF CreateBoxes, WaitReady, ExposeDaemon, ApplyPolicy, ApplyDeny, GatewayStep, RollsBack
<1>3. PICK s \in {"boxed", "refused", "ready", "exposed", "rollback", "policed", "denied"} : To(a, s)
  BY DEF CreateBoxes, WaitReady, ExposeDaemon, ApplyPolicy, ApplyDeny, GatewayStep, RollsBack
<1>4. s \notin {"started", "done", "lost"}
  BY <1>3
<1> QED  BY <1>1, <1>2, <1>3, <1>4, LoggedMoves

(* The provisioning event comes before the registration.                    *)
LEMMA ProvisionedLogged ==
    ASSUME SpawnTypes, InOrder, Logged, NEW a \in Agents, Provisioned(a)
    PROVE  Logged'
<1>1. /\ stage[a] = "exposed" /\ stage' = [stage EXCEPT ![a] = "provisioned"]
      /\ agents' = agents /\ astatus' = astatus
  BY DEF Provisioned, To
<1>2. spawnPast'.overwrote = spawnPast.overwrote /\ spawnPast'.unrecorded = spawnPast.unrecorded
  BY DEF Provisioned, SpawnTypes, Pasts
<1>3. \A b \in Agents : b # a => elog'[b] = elog[b] /\ stage'[b] = stage[b]
  <2>1. PICK e : e = Append(elog[a], "provisioned")
    OBVIOUS
  <2>2. elog' = [elog EXCEPT ![a] = e] \/ elog' = elog
    BY <2>1 DEF Provisioned
  <2> QED  BY <1>1, <2>2 DEF SpawnTypes
<1>4. \A b \in agents : b \in Agents /\ b # a
  BY <1>1 DEF InOrder, Early, SpawnTypes
<1>5. \A b \in agents : Consistent(b)'
  BY <1>1, <1>2, <1>3, <1>4, ConsistentKept DEF Logged
<1> QED  BY Zenon, <1>1, <1>5 DEF Logged

(* Registering says nothing of the status.                                  *)
LEMMA RegistersLogged ==
    ASSUME SpawnTypes, Logged, NEW a \in Agents, Registers(a)
    PROVE  Logged'
<1>1. /\ stage' = [stage EXCEPT ![a] = "registered"] /\ agents' = agents \cup {a}
      /\ elog' = elog /\ astatus' = astatus
  BY DEF Registers, To
<1>2. spawnPast'.overwrote = spawnPast.overwrote /\ spawnPast'.unrecorded = spawnPast.unrecorded
  BY DEF Registers, SpawnTypes, Pasts
<1>3. stage'[a] = "registered" /\ \A b \in Agents : b # a => stage'[b] = stage[b]
  BY <1>1 DEF SpawnTypes
<1>4. Consistent(a)'
  BY <1>3 DEF Consistent
<1>5. \A b \in agents : b # a => Consistent(b)'
  BY <1>1, <1>2, <1>3, ConsistentKept DEF Logged, SpawnTypes
<1> QED  BY Zenon, <1>1, <1>4, <1>5 DEF Logged

(* The started event: appended, or the registration is undone.              *)
LEMMA StartsLogged ==
    ASSUME SpawnTypes, Logged, NEW a \in Agents, Starts(a)
    PROVE  Logged'
<1>o. spawnPast'.overwrote = spawnPast.overwrote /\ spawnPast'.unrecorded = spawnPast.unrecorded
  BY DEF Starts, SpawnTypes, Pasts
<1>s. agents \subseteq Agents
  BY DEF SpawnTypes
<1>1. CASE stage' = [stage EXCEPT ![a] = "started"] /\ elog' = [elog EXCEPT ![a] = Append(elog[a], "started")]
           /\ agents' = agents /\ astatus' = astatus
  <2>1. PICK e : e = Append(elog[a], "started")
    OBVIOUS
  <2>2. e # <<>> /\ LastOf(e) = "started"
    BY <2>1, AppendLast DEF SpawnTypes, LogEvents
  <2>3. elog'[a] = e /\ stage'[a] = "started" /\ \A b \in Agents : b # a => elog'[b] = elog[b] /\ stage'[b] = stage[b]
    BY <1>1, <2>1 DEF SpawnTypes
  <2>4. Consistent(a)'
    BY <2>2, <2>3 DEF Consistent
  <2>5. \A b \in agents : b # a => Consistent(b)'
    BY <1>o, <1>s, <1>1, <2>3, ConsistentKept DEF Logged
  <2> QED  BY Zenon, <1>1, <2>4, <2>5 DEF Logged
<1>2. CASE stage' = [stage EXCEPT ![a] = "rollback"] /\ elog' = elog
           /\ agents' = agents \ {a} /\ astatus' = [astatus EXCEPT ![a] = "terminated"]
  <2>1. astatus' \in [Agents -> AgentStatus] /\ \A b \in Agents : b # a => astatus'[b] = astatus[b]
    BY <1>2 DEF Logged, AgentStatus
  <2>2. \A b \in Agents : b # a => stage'[b] = stage[b]
    BY <1>2 DEF SpawnTypes
  <2>3. \A b \in agents' : b \in agents /\ b \in Agents /\ b # a
    BY <1>2, <1>s
  <2>4. \A b \in agents' : Consistent(b)'
    BY <1>o, <1>2, <2>1, <2>2, <2>3, ConsistentKept DEF Logged
  <2> QED  BY Zenon, <2>1, <2>4 DEF Logged
<1> QED  BY <1>1, <1>2 DEF Starts, To

(* Create's last assignment is the status of the started event, unless      *)
(* it overwrites that of a failure.                                         *)
LEMMA ReadiesLogged ==
    ASSUME SpawnTypes, Logged, NEW a \in Agents, Readies(a)
    PROVE  Logged'
<1>1. /\ stage[a] = "started" /\ stage' = [stage EXCEPT ![a] = "done"] /\ astatus' = [astatus EXCEPT ![a] = "ready"]
      /\ elog' = elog /\ agents' = agents
  BY DEF Readies, To
<1>2. /\ spawnPast'.overwrote = spawnPast.overwrote \cup (IF astatus[a] = "creating" THEN {} ELSE {a})
      /\ spawnPast'.unrecorded = spawnPast.unrecorded
  BY DEF Readies, SpawnTypes, Pasts
<1>3. agents \subseteq Agents /\ stage'[a] = "done" /\ \A b \in Agents : b # a => stage'[b] = stage[b]
  BY <1>1 DEF SpawnTypes
<1>4. /\ astatus' \in [Agents -> AgentStatus] /\ astatus'[a] = "ready"
      /\ \A b \in Agents : b # a => astatus'[b] = astatus[b]
  BY <1>1 DEF Logged, AgentStatus
<1>5. ASSUME a \in agents PROVE Consistent(a)'
  <2>1. elog[a] # <<>> /\ (LastOf(elog[a]) = "started" \/ (LastOf(elog[a]) = "failed" /\ astatus[a] # "creating"))
    BY <1>1, <1>5 DEF Logged, Consistent
  <2>2. statusEventType["started"] = "ready"
    BY DEF statusEventType
  <2>3. Agrees(a)'
    BY <1>1, <1>2, <1>4, <2>1, <2>2 DEF Agrees
  <2> QED  BY <1>1, <1>3, <2>1, <2>3 DEF Consistent
<1>6. \A b \in agents : b # a => Consistent(b)'
  BY <1>1, <1>2, <1>3, <1>4, ConsistentKept DEF Logged
<1> QED  BY Zenon, <1>1, <1>4, <1>5, <1>6 DEF Logged

(* fail sets the status with the event, or notes that it has none.          *)
LEMMA FailsLogged ==
    ASSUME SpawnTypes, Logged, NEW a \in Agents, Fails(a)
    PROVE  Logged'
<1>1. stage' = stage /\ astatus' = [astatus EXCEPT ![a] = "failed"] /\ agents' = agents
  BY DEF Fails
<1>2. PICK e : e = Append(elog[a], "failed")
  OBVIOUS
<1>3. e # <<>> /\ LastOf(e) = "failed"
  BY <1>2, AppendLast DEF SpawnTypes, LogEvents
<1>4. /\ astatus' \in [Agents -> AgentStatus] /\ astatus'[a] = "failed"
      /\ \A b \in Agents : b # a => astatus'[b] = astatus[b]
  BY <1>1 DEF Logged, AgentStatus
<1>5. \/ elog' = [elog EXCEPT ![a] = e] /\ spawnPast' = spawnPast
      \/ elog' = elog /\ spawnPast' = [spawnPast EXCEPT !.unrecorded = @ \cup {a}]
  BY <1>2 DEF Fails
<1>6. spawnPast'.overwrote = spawnPast.overwrote /\ spawnPast.unrecorded \subseteq spawnPast'.unrecorded
  BY <1>5 DEF SpawnTypes, Pasts
<1>7. \/ elog'[a] = e
      \/ elog'[a] = elog[a] /\ a \in spawnPast'.unrecorded
  BY <1>5 DEF SpawnTypes, Pasts
<1>8. \A b \in Agents : b # a => elog'[b] = elog[b]
  BY <1>5 DEF SpawnTypes
<1>9. ASSUME a \in agents PROVE Consistent(a)'
  <2>1. statusEventType["failed"] = "failed"
    BY DEF statusEventType
  <2>2. Agrees(a)'
    BY <1>3, <1>4, <1>7, <2>1 DEF Agrees
  <2>3. Consistent(a)
    BY <1>9 DEF Logged
  <2>4. stage[a] \in {"started", "done", "lost"} => elog'[a] # <<>>
    BY <1>3, <1>7, <2>3 DEF Consistent
  <2>5. stage[a] = "started" => LastOf(elog'[a]) \in {"started", "failed"}
    BY <1>3, <1>7, <2>3 DEF Consistent
  <2> QED  BY <1>1, <1>4, <2>2, <2>4, <2>5 DEF Consistent
<1>10. \A b \in agents : b # a => Consistent(b)'
  BY <1>1, <1>4, <1>6, <1>8, ConsistentKept DEF Logged, SpawnTypes
<1> QED  BY Zenon, <1>1, <1>4, <1>9, <1>10 DEF Logged

(* A delete writes for the agent that it takes out of the map.              *)
LEMMA DeletesLogged ==
    ASSUME SpawnTypes, Logged, NEW d \in Deleters,
           \/ \E a \in Agents : DeleteBegins(d, a)
           \/ DeleteDescends(d) \/ DeleteLists(d) \/ DeleteLooks(d) \/ DeleteSweeps(d)
           \/ DeleteUnregisters(d) \/ DeleteUnboxes(d)
    PROVE  Logged'
<1>p. spawnPast'.overwrote = spawnPast.overwrote /\ spawnPast'.unrecorded = spawnPast.unrecorded
  <2>1. spawnPast \in Pasts
    BY DEF SpawnTypes
  <2>2. CASE UNCHANGED spawnPast
    BY <2>2
  <2>3. CASE DeleteSweeps(d)
    BY <2>1, <2>3 DEF DeleteSweeps, Pasts
  <2>4. CASE DeleteUnboxes(d)
    BY <2>1, <2>4 DEF DeleteUnboxes, Pasts
  <2> QED  BY <2>2, <2>3, <2>4 DEF DeleteBegins, DeleteDescends, DeleteLists, DeleteLooks, DeleteUnregisters
<1>1. CASE UNCHANGED <<stage, elog, agents, astatus>>
  BY <1>p, <1>1, LoggedSame
<1>4. CASE DeleteUnregisters(d)
  <2>1. PICK a : a = Top(d).id
    OBVIOUS
  <2>2. CASE a \in agents
    <3>1. PICK e : e = Append(elog[a], "terminated")
      OBVIOUS
    <3>2. /\ agents' = agents \ {a} /\ astatus' = [astatus EXCEPT ![a] = "terminated"]
          /\ (elog' = [elog EXCEPT ![a] = e] \/ elog' = elog) /\ stage' = stage
      BY <1>4, <2>1, <2>2, <3>1 DEF DeleteUnregisters
    <3>3. agents \subseteq Agents
      BY DEF SpawnTypes
    <3>4. \A b \in Agents : b # a => elog'[b] = elog[b]
      BY <3>2 DEF SpawnTypes
    <3>5. astatus' \in [Agents -> AgentStatus] /\ \A b \in Agents : b # a => astatus'[b] = astatus[b]
      BY <3>2 DEF Logged, AgentStatus
    <3>6. \A b \in agents' : Consistent(b)'
      BY <1>p, <3>2, <3>3, <3>4, <3>5, ConsistentKept DEF Logged
    <3> QED  BY Zenon, <3>5, <3>6 DEF Logged
  <2>3. CASE a \notin agents
    BY <1>p, <1>4, <2>1, <2>3, LoggedSame DEF DeleteUnregisters
  <2> QED  BY <2>2, <2>3
<1> QED  BY <1>1, <1>4 DEF DeleteBegins, DeleteDescends, DeleteLists, DeleteLooks, DeleteSweeps, DeleteUnboxes

(* A restart sets every status to that of the last event.                  *)
LEMMA RestartLogged ==
    ASSUME SpawnTypes, Logged, SpawnRestart
    PROVE  Logged'
<1>1. /\ agents' = {a \in Agents : elog[a] # <<>> /\ ~Terminated(a)}
      /\ astatus' = [a \in Agents |-> StatusFromLog(elog[a])]
      /\ stage' = [a \in Agents |-> IF a \in Creating THEN "lost" ELSE stage[a]] /\ elog' = elog
  BY DEF SpawnRestart
<1>2. \A a \in Agents : StatusFromLog(elog[a]) = IF elog[a] = <<>> THEN "creating" ELSE statusEventType[LastOf(elog[a])]
  BY ReplayIsLast DEF SpawnTypes
<1>3. \A a \in Agents : elog[a] # <<>> => LastOf(elog[a]) \in LogEvents
  BY FrontFacts DEF SpawnTypes
<1>4. \A ev \in LogEvents : statusEventType[ev] \in AgentStatus
  BY DEF LogEvents, statusEventType, AgentStatus
<1>5. \A a \in Agents : StatusFromLog(elog[a]) \in AgentStatus
  BY <1>2, <1>3, <1>4 DEF AgentStatus
<1>6. astatus' \in [Agents -> AgentStatus]
  BY <1>1, <1>5
<1>7. \A a \in Agents : stage'[a] # "started"
  BY <1>1 DEF Creating
<1>8. \A a \in agents' : elog'[a] # <<>> /\ a \in Agents /\ astatus'[a] = statusEventType[LastOf(elog'[a])]
  BY <1>1, <1>2
<1>9. \A a \in agents' : Consistent(a)'
  BY <1>7, <1>8 DEF Consistent, Agrees
<1> QED  BY Zenon, <1>6, <1>9 DEF Logged

(* No agent is minted at first.                                             *)
LEMMA TreeInitial == ASSUME NEW bounds, SpawnInit(bounds) PROVE TreeInv
<1>1. stage = [a \in Agents |-> "new"] /\ agents = {}
  BY Zenon DEF SpawnInit
<1>2. astatus = [a \in Agents |-> "creating"]
  BY Zenon DEF SpawnInit
<1>3. Minted = {}
  BY <1>1 DEF Minted
<1>4. Tree /\ WalksCapped
  BY <1>3 DEF Tree, WalksCapped
<1>5. Inherited
  BY <1>3 DEF Inherited
<1>6. Logged
  BY <1>1, <1>2 DEF Logged, AgentStatus
<1> QED  BY <1>4, <1>5, <1>6 DEF TreeInv

(* The tree, its profiles and its logs stay in order in every step.         *)
LEMMA TreeStep == SpawnInv /\ SpawnInv' /\ TreeInv /\ [SpawnNext]_spawnVars => TreeInv'
<1> SUFFICES ASSUME SpawnInv, SpawnInv', TreeInv, [SpawnNext]_spawnVars PROVE TreeInv'
  OBVIOUS
<1>1. SpawnTypes /\ SpawnTypes' /\ InOrder /\ Recorded /\ NoOrphanedChild
  BY DEF SpawnInv
<1>2. Tree /\ WalksCapped /\ Inherited /\ Logged
  BY Zenon DEF TreeInv
<1>3. CASE UNCHANGED spawnVars
  <2>1. UNCHANGED <<parent, profile, stage, elog, agents, astatus, spawnPast>>
    BY <1>3 DEF spawnVars, identity
  <2>2. Logged'
    BY <1>2, <2>1, LoggedSame
  <2>3. Unminting
    BY <2>1 DEF Unminting, Minted
  <2>4. Tree' /\ WalksCapped' /\ Inherited'
    BY <1>1, <1>2, <2>3, UnmintingKeeps
  <2> QED  BY <2>2, <2>4 DEF TreeInv
<1>4. ASSUME NEW a \in Agents, NEW p \in Agents \cup {Root}, NEW o \in Profiles, CreateChecks(a, p, o)
      PROVE  TreeInv'
  <2>1. Tree' /\ WalksCapped'
    BY <1>1, <1>2, <1>4, TreeGrows
  <2>2. Inherited'
    BY <1>1, <1>2, <1>4, ChecksInherit
  <2>3. Logged'
    BY <1>1, <1>2, <1>4, ChecksLogged
  <2> QED  BY <2>1, <2>2, <2>3 DEF TreeInv
<1>5. ASSUME NEW a \in Agents,
             \/ CreateBoxes(a) \/ WaitReady(a) \/ ExposeDaemon(a) \/ Provisioned(a)
             \/ ApplyPolicy(a) \/ ApplyDeny(a) \/ Registers(a) \/ Starts(a) \/ Readies(a)
             \/ RollsBack(a) \/ Fails(a)
      PROVE  TreeInv'
  <2>1. Unminting
    BY <1>1, <1>2, <1>5, CreateUnminting
  <2>2. Logged'
    BY <1>1, <1>2, <1>5, BoxLogged, ProvisionedLogged, RegistersLogged, StartsLogged, ReadiesLogged, FailsLogged
  <2>3. Tree' /\ WalksCapped' /\ Inherited'
    BY <1>1, <1>2, <2>1, UnmintingKeeps
  <2> QED  BY <2>2, <2>3 DEF TreeInv
<1>6. ASSUME NEW d \in Deleters,
             \/ \E a \in Agents : DeleteBegins(d, a)
             \/ DeleteDescends(d) \/ DeleteLists(d) \/ DeleteLooks(d) \/ DeleteSweeps(d)
             \/ DeleteUnregisters(d) \/ DeleteUnboxes(d)
      PROVE  TreeInv'
  <2>1. Unminting
    BY <1>1, <1>6, DeleteUnminting
  <2>2. Logged'
    BY <1>1, <1>2, <1>6, DeletesLogged
  <2>3. Tree' /\ WalksCapped' /\ Inherited'
    BY <1>1, <1>2, <2>1, UnmintingKeeps
  <2> QED  BY <2>2, <2>3 DEF TreeInv
<1>7. CASE SpawnRestart
  <2>1. Unminting
    BY <1>1, <1>2, <1>7, RestartUnminting
  <2>2. Logged'
    BY <1>1, <1>2, <1>7, RestartLogged
  <2>3. Tree' /\ WalksCapped' /\ Inherited'
    BY <1>1, <1>2, <2>1, UnmintingKeeps
  <2> QED  BY <2>2, <2>3 DEF TreeInv
<1> QED  BY <1>3, <1>4, <1>5, <1>6, <1>7 DEF SpawnNext

(* The caps of the spawn tree hold for ever: no parent has more sandboxes  *)
(* than SPAWN_MAX_CHILDREN, no chain of parents is longer than             *)
(* SPAWN_MAX_DEPTH, over deletes, restarts and failed listings, but for    *)
(* the overlapping spawns and late children the properties name            *)
(* (checkSpawnCaps, Depth, childCount).                                    *)
THEOREM SpawnCapsHold ==
    ASSUME NEW CONSTANT bounds
    PROVE  SpawnSpec(bounds) => []CapsHold
<1>1. SpawnInit(bounds) => SpawnInv /\ TreeInv
  BY SpawnInitial, TreeInitial
<1>2. SpawnInv /\ TreeInv /\ [SpawnNext]_spawnVars => SpawnInv' /\ TreeInv'
  BY SpawnStep, TreeStep
<1>3. SpawnInv /\ TreeInv => CapsHold
  <2> SUFFICES ASSUME SpawnInv, TreeInv PROVE CapsHold
    OBVIOUS
  <2>1. ASSUME NEW p \in Agents PROVE Cardinality(ListedChildren(p) \ spawnPast.capRace) <= SpawnMaxChildren
    <3> DEFINE listed == ListedChildren(p) \ spawnPast.capRace
               claimed == Claimed(p) \ spawnPast.capRace
    <3>1. claimed \in SUBSET Agents /\ listed \in SUBSET claimed
      BY DEF Claimed, ListedChildren, SpawnInv, SpawnTypes
    <3>2. Cardinality(claimed) <= SpawnMaxChildren
      BY DEF SpawnInv, ClaimsCapped
    <3> HIDE DEF listed, claimed
    <3>3. IsFiniteSet(claimed)
      BY <3>1, SpawnCaps, FS_Subset
    <3>4. Cardinality(listed) <= Cardinality(claimed) /\ IsFiniteSet(listed)
      BY <3>1, <3>3, FS_Subset
    <3>5. Cardinality(listed) \in Nat /\ Cardinality(claimed) \in Nat
      BY <3>3, <3>4, FS_CardinalityType
    <3>6. Cardinality(listed) <= SpawnMaxChildren
      BY <3>2, <3>4, <3>5, SpawnCaps
    <3> QED  BY <3>6 DEF listed
  <2>2. agents \subseteq Minted
    BY DEF SpawnInv, SpawnTypes, InOrder, Minted, Early
  <2>3. DepthCapped
    BY <2>2 DEF TreeInv, WalksCapped, DepthCapped
  <2> QED  BY <2>1, <2>3 DEF CapsHold, ChildrenCapped
<1> QED  BY <1>1, <1>2, <1>3, PTL DEF SpawnSpec

(* The recursive definition of Effective, unfolded.                        *)
LEMMA EffectiveUnfolds ==
    ASSUME SpawnTypes, NEW CONSTANT N, N = Cardinality(Agents)
    PROVE  \A n \in 0..N, a \in Agents :
             Effective[n][a] = IF spawnPast.given[a] # "" THEN spawnPast.given[a]
                               ELSE IF n = 0 \/ parent[a] = Root THEN DefaultProfile ELSE Effective[n - 1][parent[a]]
<1> DEFINE given == spawnPast.given
           V == Profiles \cup {DefaultProfile}
           X == [Agents -> V]
           base == [a \in Agents |-> IF given[a] # "" THEN given[a] ELSE DefaultProfile]
           G == [h \in X |-> [a \in Agents |-> IF given[a] # "" THEN given[a]
                                               ELSE IF parent[a] = Root THEN DefaultProfile ELSE h[parent[a]]]]
           Eq(g) == g = [n \in 0..N |->
                      [a \in Agents |-> IF given[a] # "" THEN given[a]
                                        ELSE IF n = 0 \/ parent[a] = Root THEN DefaultProfile ELSE g[n - 1][parent[a]]]]
<1>1. N \in Nat
  BY AgentCount
<1>2. given \in [Agents -> Profiles] /\ parent \in [Agents -> Agents \cup {Root}]
  BY DEF SpawnTypes, Pasts
<1> HIDE DEF given
<1>3. base \in X
  <2>1. \A a \in Agents : (IF given[a] # "" THEN given[a] ELSE DefaultProfile) \in V
    BY Zenon, <1>2
  <2> QED  BY <2>1, Zenon
<1>4. \A h \in X : [a \in Agents |-> IF given[a] # "" THEN given[a]
                                     ELSE IF parent[a] = Root THEN DefaultProfile ELSE h[parent[a]]] \in X
  <2> SUFFICES ASSUME NEW h \in X, NEW a \in Agents
               PROVE  (IF given[a] # "" THEN given[a] ELSE IF parent[a] = Root THEN DefaultProfile ELSE h[parent[a]]) \in V
    BY Zenon
  <2>1. given[a] \in V /\ DefaultProfile \in V /\ (parent[a] # Root => parent[a] \in Agents)
    BY <1>2
  <2>2. parent[a] # Root => h[parent[a]] \in V
    BY <2>1, Zenon
  <2> QED  BY <2>1, <2>2, Zenon
<1>5. G \in [X -> X]
  BY <1>4, Zenon
<1>6. PICK f \in [0..N -> X] : f[0] = base /\ \A n \in 1..N : f[n] = G[f[n - 1]]
  <2>1. Iterable(X, base, G, N)
    <3> HIDE DEF G, base, X
    <3> QED  BY <1>1, <1>3, <1>5, Iterates, Zenon
  <2> QED  BY <2>1, Zenon DEF Iterable
<1>7. ASSUME NEW n \in 0..N
      PROVE  f[n] = [a \in Agents |-> IF given[a] # "" THEN given[a]
                                      ELSE IF n = 0 \/ parent[a] = Root THEN DefaultProfile ELSE f[n - 1][parent[a]]]
  <2>1. CASE n = 0
    <3>1. f[n] = [a \in Agents |-> IF given[a] # "" THEN given[a] ELSE DefaultProfile]
      BY Zenon, <1>6, <2>1
    <3> QED  BY <2>1, <3>1, Zenon
  <2>2. CASE n # 0
    <3>1. n - 1 \in 0..N /\ n \in 1..N
      BY <1>1, <2>2
    <3>2. f[n - 1] \in X /\ f[n] = G[f[n - 1]]
      <4> HIDE DEF X, G, base
      <4> QED  BY <1>6, <3>1
    <3>3. \A h \in X : G[h] = [a \in Agents |-> IF given[a] # "" THEN given[a]
                                               ELSE IF parent[a] = Root THEN DefaultProfile ELSE h[parent[a]]]
      BY Zenon
    <3>4. f[n] = [a \in Agents |-> IF given[a] # "" THEN given[a]
                                   ELSE IF parent[a] = Root THEN DefaultProfile ELSE f[n - 1][parent[a]]]
      <4> HIDE DEF G, X
      <4> QED  BY <3>2, <3>3, Zenon
    <3> QED  BY <2>2, <3>4, Zenon
  <2> QED  BY Zenon, <2>1, <2>2
<1>8. \E g : Eq(g)
  <2>1. f = [n \in 0..N |-> f[n]]
    BY <1>6, Zenon
  <2>2. Eq(f)
    BY <1>7, <2>1, Zenon
  <2> QED  BY <2>2, Zenon
<1> DEFINE e == CHOOSE g : Eq(g)
<1>9. Eq(e)
  BY <1>8, Zenon
<1>10. Effective = e
  BY DEF Effective, given
<1> HIDE DEF e
<1>11. \A n \in 0..N : \A a \in Agents : e[n][a] =
         IF given[a] # "" THEN given[a] ELSE IF n = 0 \/ parent[a] = Root THEN DefaultProfile ELSE e[n - 1][parent[a]]
  <2>1. \A n \in 0..N : e[n] = [a \in Agents |-> IF given[a] # "" THEN given[a]
                                        ELSE IF n = 0 \/ parent[a] = Root THEN DefaultProfile ELSE e[n - 1][parent[a]]]
    BY <1>9, Zenon
  <2> SUFFICES ASSUME NEW n \in 0..N, NEW a \in Agents
               PROVE  e[n][a] = IF given[a] # "" THEN given[a]
                                ELSE IF n = 0 \/ parent[a] = Root THEN DefaultProfile ELSE e[n - 1][parent[a]]
    BY Zenon
  <2> HIDE DEF Eq
  <2>2. e[n] = [x \in Agents |-> IF given[x] # "" THEN given[x]
                                 ELSE IF n = 0 \/ parent[x] = Root THEN DefaultProfile ELSE e[n - 1][parent[x]]]
    BY Zenon, <2>1
  <2> QED  BY Zenon, <2>2
<1> QED  BY <1>10, <1>11, Zenon DEF given

(* A profile is the effective one of every chain long enough to reach its  *)
(* end: chains lead to smaller ids.                                        *)
LEMMA EffectiveIsInherited ==
    ASSUME SpawnTypes, Tree, Inherited
    PROVE  \A a \in Minted \ spawnPast.untold : profile[a] = Effective[Cardinality(Agents)][a]
<1>1. PICK N : N = Cardinality(Agents)
  OBVIOUS
<1>2. N \in Nat
  BY <1>1, AgentCount
<1> DEFINE Told == Minted \ spawnPast.untold
           Below(a) == {b \in Agents : b < a}
           S == {n \in Nat : n \in 0..N => \A a \in Told : Cardinality(Below(a)) <= n => profile[a] = Effective[n][a]}
<1>3. \A n \in 0..N, a \in Agents :
        Effective[n][a] = IF spawnPast.given[a] # "" THEN spawnPast.given[a]
                          ELSE IF n = 0 \/ parent[a] = Root THEN DefaultProfile ELSE Effective[n - 1][parent[a]]
  BY Zenon, <1>1, EffectiveUnfolds
<1>4. \A a \in Agents : IsFiniteSet(Below(a)) /\ Cardinality(Below(a)) \in Nat /\ Cardinality(Below(a)) <= N
  <2> SUFFICES ASSUME NEW a \in Agents
               PROVE  IsFiniteSet(Below(a)) /\ Cardinality(Below(a)) \in Nat /\ Cardinality(Below(a)) <= N
    OBVIOUS
  <2>1. IsFiniteSet(Agents) /\ Below(a) \in SUBSET Agents
    BY SpawnCaps
  <2> HIDE DEF Below
  <2>2. IsFiniteSet(Below(a)) /\ Cardinality(Below(a)) <= N
    BY <1>1, <2>1, FS_Subset
  <2> QED  BY <2>2, FS_CardinalityType
<1>5. ASSUME NEW a \in Minted, parent[a] # Root
      PROVE  parent[a] \in Minted /\ parent[a] \in Agents /\ a \in Agents
             /\ Cardinality(Below(parent[a])) < Cardinality(Below(a))
  <2>1. parent[a] \in Minted /\ parent[a] \in Agents /\ a \in Agents /\ parent[a] < a
    BY <1>5 DEF Tree, Minted
  <2>2. a \in Nat /\ parent[a] \in Nat /\ \A b \in Agents : b \in Nat
    BY <2>1, SpawnCaps
  <2>3. Below(parent[a]) \in SUBSET Below(a) /\ Below(parent[a]) # Below(a)
    <3>1. \A b \in Agents : b < parent[a] => b < a
      BY <2>1, <2>2
    <3>2. parent[a] \in Below(a) /\ parent[a] \notin Below(parent[a])
      BY <2>1, <2>2
    <3> QED  BY <3>1, <3>2
  <2>4. Cardinality(Below(parent[a])) \in Nat /\ Cardinality(Below(a)) \in Nat /\ IsFiniteSet(Below(a))
    BY <1>4, <2>1
  <2> HIDE DEF Below
  <2>5. Cardinality(Below(parent[a])) <= Cardinality(Below(a)) /\ Cardinality(Below(parent[a])) # Cardinality(Below(a))
    BY <2>3, <2>4, FS_Subset
  <2> QED  BY <2>1, <2>4, <2>5
<1>i. \A a \in Told : a \in Minted /\ a \in Agents
        /\ (spawnPast.given[a] = "" /\ parent[a] # Root => parent[a] \notin spawnPast.untold)
        /\ profile[a] = IF spawnPast.given[a] # "" THEN spawnPast.given[a]
                     ELSE IF parent[a] = Root THEN DefaultProfile ELSE profile[parent[a]]
  BY Zenon DEF Inherited, Minted
<1>m. \A a \in Minted : a \notin spawnPast.untold => a \in Told
  OBVIOUS
<1> HIDE DEF Below, Told
<1>6. 0 \in S
  <2> SUFFICES ASSUME NEW a \in Told, Cardinality(Below(a)) <= 0 PROVE profile[a] = Effective[0][a]
    OBVIOUS
  <2>1. parent[a] = Root
    <3> SUFFICES ASSUME parent[a] # Root PROVE FALSE
      OBVIOUS
    <3>1. /\ Cardinality(Below(parent[a])) < Cardinality(Below(a)) /\ parent[a] \in Agents /\ a \in Agents
      BY <1>5, <1>i
    <3> QED  BY <1>4, <3>1
  <2>2. 0 \in 0..N
    BY <1>2
  <2>3. Effective[0][a] = IF spawnPast.given[a] # "" THEN spawnPast.given[a] ELSE DefaultProfile
    BY Zenon, <1>3, <1>i, <2>1, <2>2
  <2> QED  BY Zenon, <1>i, <2>1, <2>3
<1>7. ASSUME NEW n \in Nat, n \in S PROVE n + 1 \in S
  <2> SUFFICES ASSUME n + 1 \in 0..N, NEW a \in Told, Cardinality(Below(a)) <= n + 1
               PROVE  profile[a] = Effective[n + 1][a]
    OBVIOUS
  <2>1. n \in 0..N /\ (n + 1) - 1 = n /\ n + 1 # 0
    BY <1>2
  <2>2. Effective[n + 1][a] = IF spawnPast.given[a] # "" THEN spawnPast.given[a]
                              ELSE IF parent[a] = Root THEN DefaultProfile ELSE Effective[n][parent[a]]
    <3>1. a \in Agents /\ n + 1 \in 0..N
      BY Zenon, <1>i
    <3>2. Effective[n + 1][a] =
            IF spawnPast.given[a] # "" THEN spawnPast.given[a]
            ELSE IF n + 1 = 0 \/ parent[a] = Root THEN DefaultProfile ELSE Effective[(n + 1) - 1][parent[a]]
      BY <1>3, <3>1, Zenon
    <3> QED  BY <2>1, <3>2, Zenon
  <2>3. parent[a] # Root => parent[a] \in Minted /\ Cardinality(Below(parent[a])) <= n
    <3> SUFFICES ASSUME parent[a] # Root PROVE parent[a] \in Minted /\ Cardinality(Below(parent[a])) <= n
      OBVIOUS
    <3>1. a \in Minted
      BY Zenon, <1>i
    <3>2. parent[a] \in Minted /\ parent[a] \in Agents /\ a \in Agents
          /\ Cardinality(Below(parent[a])) < Cardinality(Below(a))
      BY <1>5, <3>1
    <3> QED  BY <1>4, <3>2
  <2>4. \A b \in Told : Cardinality(Below(b)) <= n => profile[b] = Effective[n][b]
    BY <1>7, <2>1
  <2>5. spawnPast.given[a] = "" /\ parent[a] # Root => profile[parent[a]] = Effective[n][parent[a]]
    BY Zenon, <1>i, <1>m, <2>3, <2>4
  <2> QED  BY Zenon, <1>i, <2>2, <2>5
<1>8. Nat \subseteq S
  <2> HIDE DEF S
  <2> QED  BY <1>6, <1>7, SetInduction
<1>9. \A a \in Told : profile[a] = Effective[N][a]
  <2>1. N \in S /\ N \in 0..N
    BY <1>2, <1>8
  <2> QED  BY Zenon, <1>4, <1>i, <2>1
<1> QED  BY <1>1, <1>9 DEF Told

(* The status in memory is the one that a restart would fold from the log, *)
(* but for a failure Create hides (ready in memory, failed in the log) and *)
(* a failure that could not be recorded (failed in memory); and an agent   *)
(* has the profile of the nearest ancestor that was given one, across      *)
(* restarts that read it from the log, unless its provisioning event, or   *)
(* that of the ancestor it inherits from, was not written (fail,           *)
(* RebuildFromLog, replayProvisionInfo, inheritProfile).                   *)
THEOREM SpawnLogAgrees ==
    ASSUME NEW CONSTANT bounds
    PROVE  SpawnSpec(bounds) => []LogAgrees
<1>1. SpawnInit(bounds) => SpawnInv /\ TreeInv
  BY SpawnInitial, TreeInitial
<1>2. SpawnInv /\ TreeInv /\ [SpawnNext]_spawnVars => SpawnInv' /\ TreeInv'
  BY SpawnStep, TreeStep
<1>3. SpawnInv /\ TreeInv => LogAgrees
  <2> SUFFICES ASSUME SpawnInv, TreeInv PROVE LogAgrees
    OBVIOUS
  <2>1. SpawnTypes /\ InOrder /\ Tree /\ Inherited /\ Logged
    BY DEF SpawnInv, TreeInv
  <2>2. agents \subseteq Minted /\ agents \subseteq Agents
    BY <2>1 DEF SpawnTypes, InOrder, Minted, Early
  <2>3. ProfileInherited
    BY <2>1, <2>2, EffectiveIsInherited DEF ProfileInherited
  <2>4. ASSUME NEW a \in agents, stage[a] \in {"done", "lost"}
        PROVE  \/ astatus[a] = StatusFromLog(elog[a])
               \/ a \in spawnPast.overwrote /\ astatus[a] = "ready" /\ StatusFromLog(elog[a]) = "failed"
               \/ a \in spawnPast.unrecorded /\ astatus[a] = "failed"
    <3>1. Agrees(a) /\ elog[a] # <<>>
      BY <2>1, <2>4 DEF Logged, Consistent
    <3>2. elog[a] \in Seq(LogEvents)
      BY <2>1, <2>2 DEF SpawnTypes
    <3>3. StatusFromLog(elog[a]) = statusEventType[LastOf(elog[a])]
      BY <3>1, <3>2, ReplayIsLast
    <3>4. statusEventType["failed"] = "failed"
      BY DEF statusEventType
    <3> QED  BY Zenon, <3>1, <3>3, <3>4 DEF Agrees
  <2> QED  BY <2>3, <2>4 DEF LogAgrees, MemoryAgreesWithLog
<1> QED  BY <1>1, <1>2, <1>3, PTL DEF SpawnSpec
=============================================================================
