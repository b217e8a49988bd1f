------------------------------- MODULE MCLive -------------------------------
(***************************************************************************)
(* The liveness properties, on one small instance of each component that   *)
(* promises something in the end.  As in MCComponents, `focus` names the   *)
(* component a behaviour is about and the others rest, so that the states  *)
(* add up.  Session and Runtime are instantiated to keep their variables   *)
(* of the same name apart; the fairness is theirs, for the one in focus.   *)
(* Without a Resume a session has one goroutine at a time.                 *)
(***************************************************************************)
EXTENDS AgentServer, Workload, Sequences

CONSTANTS
  t1, t2, h1, e1, e2, r1, a1, g1,
  crA

VARIABLES
  focus,
  \* Session
  logState, logStatus, used, open, logBoot, logTurn, acked, alive, state, status, bootID,
  pendingRevive, creating, deleting, prompting, reviveMu, resuming, polling, owner, sesPc,
  cancelled, seen, dead, led, batch, sandbox, up, boot, piRunning, pi, spool, turns, sesCrashes,
  resumes, promptBoot, slips,
  \* Runtime and TaskService
  rows, req, chan, feed, msg, pc, ev, task, result, attempt, turn, todo, runs, taskOf, dlq,
  finished, lost, listed, crashes

S == INSTANCE Session WITH
       pc <- sesPc, crashes <- sesCrashes,
       Threads <- {g1}, ReviveMax <- 1, Autostart <- FALSE, Faults <- {"store", "reply", "gateway"},
       MaxTurns <- 1, MaxBoots <- 2, MaxCrashes <- 1, MaxResumes <- 0

R == INSTANCE Runtime WITH
       TaskIds <- {t1, t2}, Handlers <- {h1}, Clients <- {r1, "dashboard"}, Subscribers <- {},
       Buffer <- 1, Faults <- {"nats"}, Events <- {e1, e2}, Malformed <- {e2}, Replicas <- {r1},
       Actions <- {a1}, MaxAttempts <- 2, ToolTurns <- 1, MaxCrashes <- 0

sesVars ==
  <<logState, logStatus, used, open, logBoot, logTurn, acked, alive, state, status, bootID,
    pendingRevive, creating, deleting, prompting, reviveMu, resuming, polling, owner, sesPc,
    cancelled, seen, dead, led, batch, sandbox, up, boot, piRunning, pi, spool, turns, sesCrashes,
    resumes, promptBoot, slips>>

runVars ==
  <<rows, req, chan, feed, msg, pc, ev, task, result, attempt, turn, todo, runs, taskOf, dlq,
    finished, lost, listed, crashes>>

all == <<focus, sesVars, runVars, srvVars, wlVars>>

Components == {"session", "runtime", "server", "workload"}

SrvScope(cs, e, n, fs, foreign, wired) ==
  [creds |-> cs, edits |-> e, failures |-> n, faults |-> fs, foreign |-> foreign, wired |-> wired]

SrvScopes ==
  {SrvScope({crA}, 1, 2, {"unavailable", "lost", "api", "read"}, {}, TRUE),
   SrvScope({crA}, 1, 2, {"aborted"}, {}, TRUE)}

WlScope(fields, start, e, f, r) ==
  [fields |-> fields, start |-> start, edits |-> e, faults |-> f, restarts |-> r,
   edited |-> {}, reverted |-> FALSE]

Plain == [i \in Inputs |-> CASE i = "envs" -> 2 [] i = "conn" -> 1 [] OTHER -> 0]

Full == [Plain EXCEPT !.mcp = 1, !.memory = 1, !.skill = 2, !.url = 1]

WlScopes ==
  {WlScope({"mcp", "skill", "trigger"}, Plain, 2, 1, 1),
   WlScope({"skill", "text", "spec", "schema", "iterations"}, [Full EXCEPT !.mcp = 0], 1, 1, 1),
   WlScope({"tool", "memory", "url", "image", "proxy"}, Full, 1, 1, 1)}

Focused(component, scopes) == IF focus = component THEN scopes ELSE {CHOOSE b \in scopes : TRUE}

Init ==
  /\ focus \in Components
  /\ S!SessionInit /\ (focus # "session" => bootID = 0)
  /\ R!RuntimeInit
  /\ SrvInit(Focused("server", SrvScopes)) /\ (focus # "server" => secret = [c \in Creds |-> "absent"])
  /\ WorkloadInit(Focused("workload", WlScopes))

Next ==
  /\ UNCHANGED focus
  /\ IF focus = "session" THEN S!Next ELSE UNCHANGED sesVars
  /\ IF focus = "runtime" THEN R!Next ELSE UNCHANGED runVars
  /\ IF focus = "server" THEN SrvNext ELSE UNCHANGED srvVars
  /\ IF focus = "workload" THEN WorkloadNext ELSE UNCHANGED wlVars

SessionFairness ==
  /\ WF_sesVars(focus = "session" /\ S!DaemonBoots)
  /\ WF_sesVars(focus = "session" /\ (S!CreateReady \/ S!DeleteClose))
  /\ WF_sesVars(focus = "session" /\ \E ok \in BOOLEAN :
              S!CreateStarted(ok) \/ S!TurnStarted(ok) \/ S!ResumeRearm(ok)
              \/ S!ResumeConsume(ok) \/ S!DeleteTransition(ok))
  /\ WF_sesVars(focus = "session" /\ \E g \in {g1} : S!ResumeSpawn(g))
  /\ \A g \in {g1} :
       /\ WF_sesVars(focus = "session" /\ (S!Loop(g) \/ S!Revive(g)))
       /\ SF_sesVars(focus = "session" /\ S!Pull(g)) /\ SF_sesVars(focus = "session" /\ S!Preflight(g))
       /\ SF_sesVars(focus = "session" /\ S!Drain(g))
       /\ SF_sesVars(focus = "session" /\ \E ok \in BOOLEAN : S!ConsumeReviveAttempt(g, ok))

RuntimeFairness ==
  /\ WF_runVars(focus = "runtime" /\ R!Consumer(r1))
  /\ WF_runVars(focus = "runtime" /\ R!Server(h1))
  /\ \A e \in {e1, e2} : WF_runVars(focus = "runtime" /\ R!Redeliver(e))
  /\ WF_runVars(focus = "runtime" /\ R!DashboardAnswer)

\* The manager's workers and the Deployment controller keep running.
PlatformFairness ==
  /\ WF_srvVars(focus = "server" /\ SrvStep) /\ WF_srvVars(focus = "server" /\ Rolls)
  /\ WF_wlVars(focus = "workload" /\ WorkloadStep) /\ WF_wlVars(focus = "workload" /\ PodRolls)
  /\ WF_wlVars(focus = "workload" /\ PodStarts)

Spec ==
  /\ Init /\ [][Next]_all
  /\ SessionFairness /\ RuntimeFairness /\ PlatformFairness

(* Delete (agent.go): once it has returned, with no Resume running, every  *)
(* pull loop of the session ends, across restarts of the controller.       *)
DeleteStopsLoops == focus = "session" => S!DeleteStopsLoops

(* consumer.py: every message is worked off in the end, none is being      *)
(* worked on and no task is left Processing.                               *)
Drained == focus = "runtime" => R!Drained

(* agentserver.go Reconcile: a credential's last value reaches the gateway *)
(* and the bindings of the controller, or the status names the verdict or  *)
(* the failed read that nobody retries.                                    *)
RotationLands == focus = "server" => RotationArrives

(* reconcileWorkload: in the end the handler's pod has the template of the *)
(* last inputs and, unless an edit was put back, runs their settings,      *)
(* although the two are written in two steps and a pod may start in        *)
(* between.                                                                *)
WorkloadLands == focus = "workload" => WorkloadFollows
=============================================================================
