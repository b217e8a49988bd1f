--------------------------------- MODULE Spawn ---------------------------------
(* The agents of one controller: creation with its rollback, the spawn tree with *)
(* its caps and inheritance, the deletion cascade and what a controller restart   *)
(* rebuilds (controller/agent.go Create .. deleteOne, registry.go).  The gateway  *)
(* keeps the sandboxes; every call of it may fail.  One action per stretch of     *)
(* code between two gateway or log calls.                                         *)
EXTENDS Lifecycle, Integers, Sequences, FiniteSets

CONSTANTS
  Agents,            \* agent ids, minted in order and used once
  Deleters,          \* concurrent DELETE requests, the first free one serves the next
  SpawnMaxDepth, SpawnMaxChildren

ASSUME SpawnCaps ==
  /\ SpawnMaxDepth \in Nat /\ SpawnMaxChildren \in Nat \ {0}
  /\ Agents \cup Deleters \subseteq Nat \ {0} /\ IsFiniteSet(Agents)

Root == 0  \* the parent of an agent created without one

Profiles == {"", "custom"}  \* an override the caller gives, "" none
DefaultProfile == "default"

VARIABLES
  spawnScope,   \* the bounds of this behaviour: agents, failures, restarts, deletes, and
                \* faults, a subset of {"gateway", "store", "fail"}
  parent,       \* the parent an agent was created with: the label of its sandbox
  stage,        \* per agent: how far Create is
  box,          \* the sandboxes at the gateway
  elog,         \* per agent: its lifecycle events
  payload,      \* per agent: what its agent.provisioned event says of parent and profile
  agents,       \* the manager's map
  link, profile, astatus,  \* in memory: ParentID, the resolved profile, the status
  deletion,     \* per DELETE request: the frames of deleteCascade
  used,         \* failures, restarts so far
  spawnPast     \* history: given, the overrides; the agents the properties name

identity == <<parent, payload, link, profile>>
spawnVars == <<spawnScope, identity, stage, box, elog, agents, astatus, deletion, used, spawnPast>>

(* what replayProvisionInfo returns when there is no such event *)
NoPayload == [parent |-> Root, profile |-> ""]

SpawnInit(bounds) ==
  /\ spawnScope = bounds
  /\ parent = [a \in Agents |-> Root] /\ link = [a \in Agents |-> Root]
  /\ profile = [a \in Agents |-> DefaultProfile] /\ payload = [a \in Agents |-> NoPayload]
  /\ stage = [a \in Agents |-> "new"] /\ box = {} /\ elog = [a \in Agents |-> <<>>]
  /\ agents = {} /\ astatus = [a \in Agents |-> "creating"]
  /\ deletion = [d \in Deleters |-> <<>>] /\ used = [failures |-> 0, restarts |-> 0, deletes |-> 0]
  /\ spawnPast = [capRace |-> {}, lateChild |-> {}, unboxed |-> {}, overwrote |-> {}, unrecorded |-> {},
                  unlogged |-> {}, untold |-> {}, given |-> [a \in Agents |-> ""]]

(* of a nonempty sequence *)
LastOf(s) == s[Len(s)]
FrontOf(s) == SubSeq(s, 1, Len(s) - 1)

Fault(kind) == kind \in spawnScope.faults /\ used.failures < spawnScope.failures
Failed == used' = [used EXCEPT !.failures = @ + 1]
To(a, s) == stage' = [stage EXCEPT ![a] = s]
Children(p) == {c \in Agents : parent[c] = p /\ stage[c] # "new"}
Creating == {a \in Agents : stage[a] \notin {"new", "done", "refused", "lost"}}

-------------------------------------------------------------------------------
(* Create *)

(* per agent, the length of the walk from parent to parent up to one of stop *)
Walk(up, stop) ==
  LET steps[n \in 0..Cardinality(Agents)] ==
        [a \in Agents |-> IF n = 0 \/ a \in stop THEN 0 ELSE 1 + steps[n - 1][up[a]]]
  IN steps[Cardinality(Agents)]

(* Depth: the walk ends at the root or at a parent that is not registered *)
Depth == Walk(link, {a \in Agents : link[a] \notin agents})

Deep(p) == p # Root /\ Depth[p] + 1 > SpawnMaxDepth

(* childCount: the labelled sandboxes, or the map when the listing fails *)
ListedChildren(p) == {c \in box : parent[c] = p}
KnownChildren(p) == {c \in agents : link[c] = p}

\* Mutant: the cap admits one child too many.
CrowdedLoose(p, listed) == p # Root /\ Cardinality(IF listed THEN ListedChildren(p) ELSE KnownChildren(p)) > SpawnMaxChildren

Crowded(p, listed) == p # Root /\ Cardinality(IF listed THEN ListedChildren(p) ELSE KnownChildren(p)) >= SpawnMaxChildren

(* resolveParent, checkSpawnCaps, inheritProfile, ResolveProfile; a race is a   *)
(* check that does not see every child there is or will be                      *)
CreateChecks(a, p, override) ==
  /\ stage[a] = "new" /\ (\A b \in Agents : b < a => stage[b] # "new")
  /\ Cardinality({b \in Agents : stage[b] # "new"}) < spawnScope.agents
  /\ p # Root => (p \in agents /\ astatus[p] # "terminated")
  /\ ~Deep(p)
  /\ \E listed \in {TRUE, FALSE} :
       /\ listed \/ (Fault("gateway") /\ p # Root)
       /\ ~Crowded(p, listed)
       /\ IF listed THEN UNCHANGED used ELSE Failed
       /\ LET races == p # Root /\ (\/ \E c \in Children(p) : stage[c] = "checked"
                                    \/ ~listed /\ ~(ListedChildren(p) \subseteq KnownChildren(p)))
          IN spawnPast' = [spawnPast EXCEPT !.capRace = @ \cup (IF races THEN {a} ELSE {}),
                                            !.untold = @ \cup (IF override = "" /\ p \in @ THEN {a} ELSE {}),
                                            !.given[a] = override]
  /\ parent' = [parent EXCEPT ![a] = p] /\ link' = [link EXCEPT ![a] = p]
  /\ profile' = [profile EXCEPT ![a] = IF override # "" THEN override
                                       ELSE IF p # Root /\ profile[p] # "" THEN profile[p] ELSE DefaultProfile]
  /\ To(a, "checked") /\ UNCHANGED <<box, elog, payload, agents, astatus, deletion>>

(* CreateSandbox: nothing to roll back when it fails *)
CreateBoxes(a) ==
  /\ stage[a] = "checked"
  /\ \/ box' = box \cup {a} /\ To(a, "boxed") /\ UNCHANGED used
     \/ Fault("gateway") /\ Failed /\ To(a, "refused") /\ UNCHANGED box
  /\ UNCHANGED <<identity, elog, agents, astatus, deletion, spawnPast>>

(* a gateway call on the sandbox; it fails when the sandbox is gone *)
GatewayStep(a, from, next) ==
  /\ stage[a] = from
  /\ \/ a \in box /\ To(a, next) /\ UNCHANGED used
     \/ a \notin box /\ To(a, "rollback") /\ UNCHANGED used
     \/ Fault("gateway") /\ Failed /\ To(a, "rollback")
  /\ UNCHANGED <<identity, box, elog, agents, astatus, deletion, spawnPast>>

WaitReady(a) == GatewayStep(a, "boxed", "ready")
ExposeDaemon(a) == GatewayStep(a, "ready", "exposed")

(* agent.provisioned with its payload; a refused append changes nothing else *)
Provisioned(a) ==
  /\ stage[a] = "exposed" /\ To(a, "provisioned")
  /\ \/ /\ elog' = [elog EXCEPT ![a] = Append(@, "provisioned")]
        /\ payload' = [payload EXCEPT ![a] = [parent |-> parent[a], profile |-> profile[a]]]
        /\ UNCHANGED <<used, spawnPast>>
     \/ /\ Fault("store") /\ Failed
        /\ spawnPast' = [spawnPast EXCEPT !.unlogged = @ \cup {a}, !.untold = @ \cup {a}]
        /\ UNCHANGED <<elog, payload>>
  /\ UNCHANGED <<parent, link, profile, box, agents, astatus, deletion>>

ApplyPolicy(a) == GatewayStep(a, "provisioned", "policed")

\* Mutant: a failed deny merge returns without the rollback.
ApplyDenyLeaks(a) ==
  /\ stage[a] = "policed"
  /\ \/ a \in box /\ To(a, "denied") /\ UNCHANGED used
     \/ Fault("gateway") /\ Failed /\ To(a, "refused")
  /\ UNCHANGED <<identity, box, elog, agents, astatus, deletion, spawnPast>>

ApplyDeny(a) == GatewayStep(a, "policed", "denied")

(* the parent is registered and no cascade has looked for its children yet *)
Keeps(p) == p = Root \/ (p \in agents /\ \A d \in Deleters : \A i \in DOMAIN deletion[d] : deletion[d][i].id # p)

(* phasePoll and the puller run from here on *)
Registers(a) ==
  /\ stage[a] = "denied" /\ To(a, "registered") /\ agents' = agents \cup {a}
  /\ spawnPast' = [spawnPast EXCEPT !.lateChild = @ \cup (IF Keeps(parent[a]) THEN {} ELSE {a}),
                                    !.unboxed = @ \cup ({a} \ box)]
  /\ UNCHANGED <<identity, box, elog, astatus, deletion, used>>

(* fsm.Transition(ready): a lost append, or the hub a delete has closed, undoes *)
(* the registration                                                             *)
Starts(a) ==
  /\ stage[a] = "registered"
  /\ \/ /\ a \in agents /\ elog' = [elog EXCEPT ![a] = Append(@, "started")] /\ To(a, "started")
        /\ UNCHANGED <<agents, astatus, used, spawnPast>>
     \/ /\ a \notin agents \/ Fault("store")
        /\ IF a \notin agents THEN UNCHANGED used ELSE Failed
        /\ agents' = agents \ {a} /\ astatus' = [astatus EXCEPT ![a] = "terminated"]
        /\ To(a, "rollback") /\ UNCHANGED elog
        /\ spawnPast' = [spawnPast EXCEPT !.lateChild = @ \cup KnownChildren(a)]
  /\ UNCHANGED <<identity, box, deletion>>

(* the status is set whatever happened since the event *)
Readies(a) ==
  /\ stage[a] = "started" /\ To(a, "done") /\ astatus' = [astatus EXCEPT ![a] = "ready"]
  /\ spawnPast' = [spawnPast EXCEPT !.overwrote = @ \cup (IF astatus[a] = "creating" THEN {} ELSE {a})]
  /\ UNCHANGED <<identity, box, elog, agents, deletion, used>>

(* rollbackSandbox: the endpoint, then the sandbox; a failure is only logged *)
RollsBack(a) ==
  /\ stage[a] = "rollback" /\ To(a, "refused")
  /\ \/ box' = box \ {a} /\ UNCHANGED <<used, spawnPast>>
     \/ Fault("gateway") /\ Failed /\ spawnPast' = [spawnPast EXCEPT !.unboxed = @ \cup {a}] /\ UNCHANGED box
  /\ UNCHANGED <<identity, elog, agents, astatus, deletion>>

\* Mutant: the status is not set with the event.
FailsQuietly(a) ==
  /\ Fault("fail") /\ Failed /\ a \in agents /\ astatus[a] \notin {"failed", "terminated"}
  /\ elog' = [elog EXCEPT ![a] = Append(@, "failed")]
  /\ UNCHANGED <<identity, stage, box, agents, astatus, deletion, spawnPast>>

(* fail: from phasePoll or the puller, once they run; a refused append is lost *)
Fails(a) ==
  /\ Fault("fail") /\ Failed /\ a \in agents /\ astatus[a] \notin {"failed", "terminated"}
  /\ astatus' = [astatus EXCEPT ![a] = "failed"]
  /\ \/ elog' = [elog EXCEPT ![a] = Append(@, "failed")] /\ UNCHANGED spawnPast
     \/ /\ "store" \in spawnScope.faults /\ UNCHANGED elog
        /\ spawnPast' = [spawnPast EXCEPT !.unrecorded = @ \cup {a}]
  /\ UNCHANGED <<identity, stage, box, agents, deletion>>

-------------------------------------------------------------------------------
(* Delete *)

(* todo: the children to descend into, then the sandboxes still to look at; *)
(* doomed: the sandbox about to be deleted                                  *)
Frame(a) == [id |-> a, todo |-> KnownChildren(a), doomed |-> {}, at |-> "children"]
Top(d) == LastOf(deletion[d])
SetTop(d, frame) == deletion' = [deletion EXCEPT ![d] = Append(FrontOf(@), frame)]
Pop(d) == deletion' = [deletion EXCEPT ![d] = FrontOf(@)]

DeleteBegins(d, a) ==
  /\ deletion[d] = <<>> /\ (\A e \in Deleters : e < d => deletion[e] # <<>>)
  /\ used.deletes < spawnScope.deletes /\ stage[a] # "new"
  /\ used' = [used EXCEPT !.deletes = @ + 1]
  /\ deletion' = [deletion EXCEPT ![d] = <<Frame(a)>>]
  /\ UNCHANGED <<identity, stage, box, elog, agents, astatus, spawnPast>>

(* the children the map held, one after the other, each with its own subtree *)
DeleteDescends(d) ==
  /\ deletion[d] # <<>> /\ Top(d).at = "children" /\ Top(d).todo # {}
  /\ \E c \in Top(d).todo :
       deletion' = [deletion EXCEPT ![d] = Append(FrontOf(@) \o <<[Top(d) EXCEPT !.todo = @ \ {c}]>>, Frame(c))]
  /\ UNCHANGED <<identity, stage, box, elog, agents, astatus, used, spawnPast>>

(* the sandboxes labelled with the parent; a failed listing skips them *)
DeleteLists(d) ==
  /\ deletion[d] # <<>> /\ Top(d).todo = {} /\ Top(d).at = "children"
  /\ \/ SetTop(d, [Top(d) EXCEPT !.todo = ListedChildren(Top(d).id), !.at = "listed"]) /\ UNCHANGED used
     \/ Fault("gateway") /\ Failed /\ SetTop(d, [Top(d) EXCEPT !.at = "listed"])
  /\ UNCHANGED <<identity, stage, box, elog, agents, astatus, spawnPast>>

(* m.Get: a sandbox without an agent in the map is to be deleted *)
DeleteLooks(d) ==
  /\ deletion[d] # <<>> /\ Top(d).at = "listed" /\ Top(d).doomed = {}
  /\ \E c \in Top(d).todo : SetTop(d, [Top(d) EXCEPT !.todo = @ \ {c}, !.doomed = {c} \ agents])
  /\ UNCHANGED <<identity, stage, box, elog, agents, astatus, used, spawnPast>>

(* its deletion, whoever has registered since; the error is dropped *)
DeleteSweeps(d) ==
  /\ deletion[d] # <<>> /\ Top(d).at = "listed" /\ Top(d).doomed # {} /\ SetTop(d, [Top(d) EXCEPT !.doomed = {}])
  /\ \/ /\ box' = box \ Top(d).doomed /\ UNCHANGED used
        /\ spawnPast' = [spawnPast EXCEPT !.unboxed = @ \cup (Top(d).doomed \cap agents)]
     \/ Fault("gateway") /\ Failed /\ UNCHANGED <<box, spawnPast>>
  /\ UNCHANGED <<identity, stage, elog, agents, astatus>>

(* deleteOne: out of the map, terminated in memory and, unless the append is    *)
(* refused, in the log; an agent that is not in the map is unknown and its      *)
(* sandbox is not touched                                                       *)
DeleteUnregisters(d) ==
  /\ deletion[d] # <<>> /\ Top(d).at = "listed" /\ Top(d).todo = {} /\ Top(d).doomed = {}
  /\ LET a == Top(d).id IN
     IF a \in agents
     THEN /\ agents' = agents \ {a} /\ astatus' = [astatus EXCEPT ![a] = "terminated"]
          /\ \/ elog' = [elog EXCEPT ![a] = Append(@, "terminated")] /\ UNCHANGED used
             \/ Fault("store") /\ Failed /\ UNCHANGED elog
          /\ SetTop(d, [Top(d) EXCEPT !.at = "box"])
     ELSE Pop(d) /\ UNCHANGED <<agents, astatus, elog, used>>
  /\ UNCHANGED <<identity, stage, box, spawnPast>>

(* an agent replayed without its provisioning event has no sandbox name *)
DeleteUnboxes(d) ==
  /\ deletion[d] # <<>> /\ Top(d).at = "box" /\ Pop(d)
  /\ \/ profile[Top(d).id] # "" /\ box' = box \ {Top(d).id} /\ UNCHANGED <<used, spawnPast>>
     \/ /\ IF profile[Top(d).id] = "" THEN UNCHANGED used ELSE Fault("gateway") /\ Failed
        /\ spawnPast' = [spawnPast EXCEPT !.unboxed = @ \cup {Top(d).id}] /\ UNCHANGED box
  /\ UNCHANGED <<identity, stage, elog, agents, astatus>>

-------------------------------------------------------------------------------
(* ReplayAgentStatus over a whole log *)
StatusFromLog(log) ==
  LET status[n \in 0..Len(log)] == IF n = 0 THEN "creating" ELSE ReplayAgentStatus(status[n - 1], log[n])
  IN status[Len(log)]

Terminated(a) == elog[a] # <<>> /\ LastOf(elog[a]) = "terminated"

(* RebuildFromLog: every log that does not end terminated is registered again, *)
(* with the parent and the profile replayProvisionInfo finds in it             *)
SpawnRestart ==
  /\ used.restarts < spawnScope.restarts
  /\ used' = [used EXCEPT !.restarts = @ + 1]
  /\ agents' = {a \in Agents : elog[a] # <<>> /\ ~Terminated(a)}
  /\ astatus' = [a \in Agents |-> StatusFromLog(elog[a])]
  /\ link' = [a \in Agents |-> IF a \in agents' THEN payload[a].parent ELSE link[a]]
  /\ profile' = [a \in Agents |-> IF a \in agents' THEN payload[a].profile ELSE profile[a]]
  /\ stage' = [a \in Agents |-> IF a \in Creating THEN "lost" ELSE stage[a]]
  /\ deletion' = [d \in Deleters |-> <<>>]
  /\ spawnPast' = [spawnPast EXCEPT !.unboxed = @ \cup (box \ agents') \cup (agents' \ box),
                                    !.overwrote = {}, !.unrecorded = {},
                                    !.lateChild = @ \cup {a \in agents' : parent[a] \notin agents' \cup {Root}}]
  /\ UNCHANGED <<parent, payload, box, elog>>

SpawnNext == UNCHANGED spawnScope /\
  (\/ \E a \in Agents : \/ \E p \in Agents \cup {Root}, o \in Profiles : CreateChecks(a, p, o)
                        \/ CreateBoxes(a) \/ WaitReady(a) \/ ExposeDaemon(a) \/ Provisioned(a)
                        \/ ApplyPolicy(a) \/ ApplyDeny(a) \/ Registers(a) \/ Starts(a) \/ Readies(a)
                        \/ RollsBack(a) \/ Fails(a)
   \/ \E d \in Deleters : \/ \E a \in Agents : DeleteBegins(d, a)
                          \/ DeleteDescends(d) \/ DeleteLists(d) \/ DeleteLooks(d) \/ DeleteSweeps(d)
                          \/ DeleteUnregisters(d) \/ DeleteUnboxes(d)
   \/ SpawnRestart)

-------------------------------------------------------------------------------
(* Properties *)

(* SPAWN_MAX_CHILDREN holds for the sandboxes of every parent, across           *)
(* restarts and failed listings.  A child is not counted when its check could   *)
(* not see all the others: another one had been checked and had no sandbox yet  *)
(* (checkSpawnCaps takes no lock), or the listing failed while a sandbox had no *)
(* agent in the map.                                                            *)
ChildrenCapped ==
  \A p \in Agents : Cardinality(ListedChildren(p) \ spawnPast.capRace) <= SpawnMaxChildren

(* SPAWN_MAX_DEPTH holds along the whole chain of parents, deleted ones         *)
(* included, though Depth only walks registered ones; an agent whose parent     *)
(* went during its own create, or whose agent.provisioned was lost, counts as   *)
(* a root.                                                                      *)
TrueDepth == Walk(parent, {a \in Agents : parent[a] = Root} \cup spawnPast.lateChild \cup spawnPast.unlogged)
DepthCapped == \A a \in agents : TrueDepth[a] <= SpawnMaxDepth

(* No sandbox outlives its agent: one that no running create or delete will     *)
(* still remove belongs to a registered agent, unless the gateway refused to    *)
(* delete it, the controller died holding it, or its name was lost with         *)
(* agent.provisioned.                                                           *)
NoLeakedSandbox ==
  \A a \in box \ (spawnPast.unboxed \cup Creating) :
    a \in agents \/ \E d \in Deleters : \E i \in DOMAIN deletion[d] : deletion[d][i].id = a

(* A registered agent has its sandbox, unless the cascade of its parent took    *)
(* it during the create, or its log outlived a rolled-back create or a lost     *)
(* agent.terminated.                                                            *)
RegisteredHasSandbox == \A a \in agents \ spawnPast.unboxed : a \in box

(* A delete leaves no child behind: the parent of a registered agent is         *)
(* registered, unless the child was registered after its parent's cascade had   *)
(* listed the children, the parent's own create was undone, or the child's      *)
(* agent.provisioned was lost.                                                  *)
NoOrphanedChild ==
  \A a \in agents \ (spawnPast.lateChild \cup spawnPast.unlogged) : parent[a] \in agents \cup {Root}

(* The status in memory is the one a restart would fold from the log, once      *)
(* Create has returned; but the last assignment of Create may hide a recorded   *)
(* failure, and a failure whose append was refused is known to memory only.     *)
MemoryAgreesWithLog ==
  \A a \in agents : stage[a] \in {"done", "lost"} =>
    \/ astatus[a] = StatusFromLog(elog[a])
    \/ a \in spawnPast.overwrote /\ astatus[a] = "ready" /\ StatusFromLog(elog[a]) = "failed"
    \/ a \in spawnPast.unrecorded /\ astatus[a] = "failed"

(* Every agent runs the profile of the nearest ancestor that was given one,     *)
(* itself included, across restarts of the controller, unless it or an ancestor *)
(* it inherits from lost its agent.provisioned.                                 *)
Effective[n \in 0..Cardinality(Agents)] ==
  [a \in Agents |-> IF spawnPast.given[a] # "" THEN spawnPast.given[a]
                    ELSE IF n = 0 \/ parent[a] = Root THEN DefaultProfile ELSE Effective[n - 1][parent[a]]]
ProfileInherited == \A a \in agents \ spawnPast.untold : profile[a] = Effective[Cardinality(Agents)][a]

(* checkSpawnCaps holds over restarts, deletes and failed listings.            *)
CapsHold == ChildrenCapped /\ DepthCapped

(* Sandboxes, registered agents and their parents come and go together,        *)
(* whichever step of a create or of a cascade fails (Create, rollbackSandbox,  *)
(* deleteCascade, deleteOne).                                                  *)
SandboxesOwned == NoLeakedSandbox /\ RegisteredHasSandbox /\ NoOrphanedChild

(* What a restart folds from the log is what the controller had in memory: the *)
(* status of an agent and the profile it runs (fail, RebuildFromLog,           *)
(* inheritProfile).                                                            *)
LogAgrees == MemoryAgreesWithLog /\ ProfileInherited
===============================================================================
