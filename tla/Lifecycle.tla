------------------------------ MODULE Lifecycle ------------------------------
(***************************************************************************)
(* The vocabulary of the durable event log and what the controller derives *)
(* from it: the session state (controller/fsm.go), the agent status        *)
(* (controller/registry.go) and the revive ledger (controller/revive.go).  *)
(* Each is a left fold over the log; the operators below are the step of   *)
(* each fold, so that a module can carry the folds of a log instead of the *)
(* log.  Event types are written without their "agent." prefix.            *)
(***************************************************************************)
EXTENDS Naturals

SessionState == {"provision", "ready", "running", "idle", "paused", "reviving", "terminated"}

AgentStatus == {"creating", "ready", "working", "failed", "terminated"}

(* The states that each state may move to.                                  *)
sessionTransitions ==
  [s \in SessionState |->
     CASE s = "provision"  -> {"ready", "terminated"}
       [] s = "ready"      -> {"running", "terminated"}
       [] s = "running"    -> {"idle", "paused", "terminated"}
       [] s = "idle"       -> {"running", "terminated"}
       [] s = "paused"     -> {"running", "terminated"}
       [] s = "reviving"   -> {"ready", "terminated"}
       [] s = "terminated" -> {}]

(* Mutant: replay does not know the event of the paused -> running edge.    *)
sessionEventTypeNoRevived ==
  [provisioned |-> "provision", started |-> "ready", turn_started |-> "running",
   settled |-> "idle", paused |-> "paused", terminated |-> "terminated"]

(* The state that an event projects onto.  agent.reviving is never emitted. *)
sessionEventType ==
  [provisioned |-> "provision", started |-> "ready", turn_started |-> "running",
   settled |-> "idle", paused |-> "paused", revived |-> "running", terminated |-> "terminated"]

(* ReplaySession: an event moves the state along a legal edge or not at all. *)
ReplaySession(s, ev) ==
  IF ev \in DOMAIN sessionEventType /\ sessionEventType[ev] \in sessionTransitions[s]
  THEN sessionEventType[ev] ELSE s

(* The status that an event carries.                                        *)
statusEventType ==
  [provisioned |-> "creating", started |-> "ready", settled |-> "ready", turn_started |-> "working",
   failed |-> "failed", paused |-> "failed", revived |-> "ready", terminated |-> "terminated"]

(* ReplayAgentStatus: the last event that carries a status wins.            *)
ReplayAgentStatus(s, ev) == IF ev \in DOMAIN statusEventType THEN statusEventType[ev] ELSE s

(* reviveLedgerFromEvents: attempts spent since the last re-arm, and        *)
(* whether the last of them is still open.                                  *)
LedgerUsed(u, ev) == CASE ev = "revive_consumed" -> u + 1
                       [] ev = "resumed"         -> 0
                       [] OTHER                  -> u

LedgerOpen(o, ev) == CASE ev = "revive_consumed"                              -> TRUE
                       [] ev \in {"revived", "revive_abandoned", "resumed"} -> FALSE
                       [] OTHER                                               -> o
=============================================================================
