------------------------------- MODULE Session -------------------------------
(***************************************************************************)
(* One agent of the controller under the pull transport: its session FSM,  *)
(* prompts, the pull loop with daemon-death detection, the Tier-2 revive   *)
(* with its budget ledger, the re-arm verb, Delete, and the restart of the *)
(* controller from the durable log (controller/agent.go, fsm.go,           *)
(* puller.go, revive.go, registry.go), against a daemon that dies and is   *)
(* replaced on the same volume (daemon/main.go, pi.go, http.go).           *)
(*                                                                         *)
(* The log is carried by its folds (module Lifecycle).  Of the records     *)
(* that the daemon spools only agent_settled changes a session, so the     *)
(* spool is the sequence of the turns that pi has settled, and the id of a *)
(* record is its place in it; module Pull shows that the log takes each    *)
(* record once and in order.  The goroutines that run runPuller,           *)
(* pauseAndRevive, reviveFromPaused and holdAndResumePuller are Threads.   *)
(* An action is what a goroutine does between two points where another one *)
(* can take the agent's mutex, the revive lock or the FSM's lock.          *)
(***************************************************************************)
EXTENDS Lifecycle, Sequences, FiniteSets

CONSTANTS Threads,    \* goroutines that pull or revive
          ReviveMax,  \* KAPE_REVIVE_MAX
          Autostart,  \* a booting daemon starts pi (KAPE_PI_AUTOSTART)
          Faults,     \* what may go wrong besides crashes: "store", "reply", "gateway"
          MaxTurns,   \* bound on the prompts that reach the daemon
          MaxBoots,   \* bound on the daemon's boots
          MaxCrashes, \* bound on the controller's crashes
          MaxResumes  \* bound on the re-arm calls

Free == "free"
Resumer == "resumer"

ASSUME SessionAssumption ==
  /\ Threads # {} /\ {Free, Resumer} \cap Threads = {}
  /\ ReviveMax \in Nat
  /\ Autostart \in BOOLEAN
  /\ Faults \subseteq {"store", "reply", "gateway"}
  /\ {MaxTurns, MaxBoots, MaxCrashes, MaxResumes} \subseteq Nat

VARIABLES
  \* durable: the folds of the log, the origin watermark
  logState, logStatus, used, open,
  logBoot,    \* boot_id of the last daemon.boot event, 0 if none
  logTurn,    \* the prompt of the last agent.turn_started, 0 if none
  acked,      \* the origin watermark
  \* the controller's memory
  alive, state, status, bootID, pendingRevive,
  creating,   \* progress of Create
  deleting,   \* progress of Delete
  prompting,  \* sendPrompt holds a.mu between the daemon's 202 and its event
  reviveMu,   \* holder of the revive lock
  resuming,   \* progress of Resume
  polling,    \* phasePoll is running
  owner,      \* the goroutine whose context agent.cancel ends
  pc, cancelled, seen, dead, led, batch,
  \* the sandbox: daemon, pi and spool
  sandbox, up, boot, piRunning, pi, spool,
  \* bounds
  turns, crashes, resumes,
  \* ghosts
  promptBoot, \* the boot that took the last prompt
  slips       \* prompts without agent.turn_started and revive attempts, so far

logVars == <<logState, logStatus, used, open>>
durable == <<logVars, logBoot, logTurn, acked>>
callVars == <<creating, deleting, prompting, reviveMu, resuming, polling, owner>>
threadVars == <<pc, cancelled, seen, dead, led, batch>>
daemonVars == <<sandbox, up, boot, piRunning, pi, spool>>
bounds == <<turns, crashes, resumes, promptBoot, slips>>
vars == <<durable, alive, state, status, bootID, pendingRevive, callVars, threadVars, daemonVars, bounds>>

----------------------------------------------------------------------------
(* The durable log.                                                         *)

(* The hub is closed; "closing" when Delete has yet to delete the sandbox.  *)
Closed == deleting \in {"closing", "closed"}

(* What an append may answer: a closed hub and a failing store refuse it.   *)
Stored == IF Closed THEN {FALSE}
          ELSE IF "store" \in Faults THEN BOOLEAN ELSE {TRUE}

(* What a read of the log may answer.                                       *)
Readable == IF "store" \in Faults THEN BOOLEAN ELSE {TRUE}

Log(ev) == /\ logState' = ReplaySession(logState, ev)
           /\ logStatus' = ReplayAgentStatus(logStatus, ev)
           /\ used' = LedgerUsed(used, ev)
           /\ open' = LedgerOpen(open, ev)

(* PublishLifecycle: ok is whether it returned the event.                   *)
PublishLifecycle(ev, ok) ==
  /\ ok \in Stored
  /\ IF ok THEN Log(ev) ELSE UNCHANGED logVars

(* SessionFSM.Transition: validate, append, and only then move.             *)
Transition(to, ev, ok) ==
  /\ ok \in IF to \in sessionTransitions[state] THEN Stored ELSE {FALSE}
  /\ IF ok THEN Log(ev) ELSE UNCHANGED logVars
  /\ state' = IF ok THEN to ELSE state

(* Mutant: fail does not take the agent's mutex.                            *)
FailAgentUnlocked(ok) ==
  /\ IF status \in {"failed", "terminated"}
     THEN UNCHANGED <<logVars, status>>
     ELSE status' = "failed" /\ PublishLifecycle("failed", ok)

(* fail: a failed or terminated agent is left alone.                        *)
FailAgent(ok) ==
  /\ ~prompting
  /\ IF status \in {"failed", "terminated"}
     THEN UNCHANGED <<logVars, status>>
     ELSE status' = "failed" /\ PublishLifecycle("failed", ok)

----------------------------------------------------------------------------
(* Create has provisioned the sandbox, logged agent.provisioned, started    *)
(* phasePoll and a pull loop, and registered the agent; the daemon's boot   *)
(* id is known unless its first preflight failed.                           *)
SessionInit ==
  /\ logState = "provision" /\ logStatus = "creating" /\ used = 0 /\ open = FALSE
  /\ logBoot = 0 /\ logTurn = 0 /\ acked = 0
  /\ alive = TRUE /\ state = "provision" /\ status = "creating"
  /\ bootID \in {0, 1} /\ pendingRevive = FALSE
  /\ creating = "registered" /\ deleting = "no" /\ prompting = FALSE
  /\ reviveMu = Free /\ resuming = "no" /\ polling = TRUE
  /\ owner \in Threads
  /\ pc = [t \in Threads |-> IF t = owner THEN "note" ELSE "off"]
  /\ cancelled = [t \in Threads |-> FALSE]
  /\ seen = [t \in Threads |-> 0]
  /\ dead = [t \in Threads |-> FALSE]
  /\ led = [t \in Threads |-> 0]
  /\ batch = [t \in Threads |-> <<>>]
  /\ sandbox = TRUE /\ up = TRUE /\ boot = 1 /\ piRunning = Autostart /\ pi = <<>> /\ spool = <<>>
  /\ turns = 0 /\ crashes = 0 /\ resumes = 0 /\ promptBoot = 0 /\ slips = 0

(* agent.cancel ends the context of the owner and of phasePoll.             *)
CancelOwner == cancelled' = [cancelled EXCEPT ![owner] = TRUE] /\ polling' = FALSE

(* A deletion that the gateway refuses leaves everything as it is.          *)
DeleteSandbox ==
  \/ sandbox' = FALSE /\ up' = FALSE /\ piRunning' = FALSE /\ pi' = <<>>
  \/ "gateway" \in Faults /\ UNCHANGED <<sandbox, up, piRunning, pi>>

(* The end of Create, whatever a Delete has done to the agent since it was  *)
(* registered: agent.started, or the clean-up when it is not logged.        *)
CreateStarted(ok) ==
  /\ alive /\ creating = "registered"
  /\ Transition("ready", "started", ok)
  /\ IF ok
     THEN /\ creating' = "started"
          /\ UNCHANGED <<status, deleting, polling, cancelled, sandbox, up, piRunning, pi>>
     ELSE /\ creating' = "done"
          /\ ~prompting
          /\ status' = "terminated"
          /\ deleting' = IF deleting \in {"no", "closed"} THEN "closed" ELSE "closing"
          /\ CancelOwner
          /\ DeleteSandbox
  /\ UNCHANGED <<logBoot, logTurn, acked, alive, bootID, pendingRevive, prompting, reviveMu, resuming,
                 owner, pc, seen, dead, led, batch, boot, spool, bounds>>

(* Create's last statement flips the status whatever it has become.         *)
CreateReady ==
  /\ alive /\ creating = "started"
  /\ ~prompting
  /\ creating' = "done" /\ status' = "ready"
  /\ UNCHANGED <<durable, alive, state, bootID, pendingRevive, deleting, prompting, reviveMu, resuming,
                 polling, owner, threadVars, daemonVars, bounds>>

(* The gate of sendPrompt: the FSM first, then the status.  A caller may    *)
(* have had the agent from the registry before Delete took it out.          *)
Promptable == state \in {"ready", "idle"} /\ status = "ready"

(* Mutant: prompts do not wait for one another.                             *)
PromptUnlocked ==
  /\ alive
  /\ Promptable
  /\ up /\ turns < MaxTurns
  /\ turns' = turns + 1 /\ promptBoot' = boot
  /\ pi' = Append(pi, turns + 1) /\ piRunning' = TRUE
  /\ prompting' = TRUE
  /\ UNCHANGED <<durable, alive, state, status, bootID, pendingRevive, creating, deleting, reviveMu,
                 resuming, polling, owner, threadVars, sandbox, up, boot, spool, crashes, resumes, slips>>

(* sendPrompt up to the daemon's 202: pi has the prompt, a.mu stays held.   *)
Prompt ==
  /\ alive /\ ~prompting
  /\ Promptable
  /\ up /\ turns < MaxTurns
  /\ turns' = turns + 1 /\ promptBoot' = boot
  /\ pi' = Append(pi, turns + 1) /\ piRunning' = TRUE
  /\ prompting' = TRUE
  /\ UNCHANGED <<durable, alive, state, status, bootID, pendingRevive, creating, deleting, reviveMu,
                 resuming, polling, owner, threadVars, sandbox, up, boot, spool, crashes, resumes, slips>>

(* The daemon took the prompt but its answer was lost: sendPrompt reports   *)
(* an error and records nothing.                                            *)
PromptReplyLost ==
  /\ "reply" \in Faults
  /\ alive /\ ~prompting
  /\ Promptable
  /\ up /\ turns < MaxTurns
  /\ turns' = turns + 1 /\ promptBoot' = boot
  /\ pi' = Append(pi, turns + 1) /\ piRunning' = TRUE
  /\ slips' = slips + 1
  /\ UNCHANGED <<durable, alive, state, status, bootID, pendingRevive, callVars, threadVars,
                 sandbox, up, boot, spool, crashes, resumes>>

(* The rest of sendPrompt: a transition that fails is only logged.          *)
TurnStarted(ok) ==
  /\ alive /\ prompting
  /\ Transition("running", "turn_started", ok)
  /\ logTurn' = IF ok THEN turns ELSE logTurn
  /\ status' = "working"
  /\ prompting' = FALSE
  /\ slips' = IF ok THEN slips ELSE slips + 1
  /\ UNCHANGED <<logBoot, acked, alive, bootID, pendingRevive, creating, deleting, reviveMu, resuming,
                 polling, owner, threadVars, daemonVars, turns, crashes,
                 resumes, promptBoot>>

(* Abort, or a steer: the daemon respawns a dead pi to deliver it; what it  *)
(* does to the turn is pi's own business.                                   *)
Command ==
  /\ alive /\ ~prompting
  /\ status = "working"
  /\ up
  /\ piRunning' = TRUE
  /\ UNCHANGED <<durable, alive, state, status, bootID, pendingRevive, callVars, threadVars,
                 sandbox, up, boot, pi, spool, bounds>>

(* phasePoll sees phase ERROR, fails the agent and returns.                 *)
PhaseError(ok) ==
  /\ alive /\ polling
  /\ FailAgent(ok)
  /\ polling' = FALSE
  /\ UNCHANGED <<logBoot, logTurn, acked, alive, state, bootID, pendingRevive, creating, deleting,
                 prompting, reviveMu, resuming, owner, threadVars, daemonVars, bounds>>

----------------------------------------------------------------------------
(* The daemon and pi.                                                       *)
ctrlVars == <<durable, alive, state, status, bootID, pendingRevive, callVars, threadVars>>

(* pi ends the oldest turn it has: agent_settled reaches the spool.         *)
PiSettles ==
  /\ up /\ pi # <<>>
  /\ spool' = Append(spool, Head(pi)) /\ pi' = Tail(pi)
  /\ UNCHANGED <<ctrlVars, sandbox, up, boot, piRunning, bounds>>

(* pi dies with its turn; the daemon restarts it on the next command only.  *)
PiExits ==
  /\ up /\ piRunning
  /\ piRunning' = FALSE /\ pi' = <<>>
  /\ UNCHANGED <<ctrlVars, sandbox, up, boot, spool, bounds>>

(* The sandbox dies: daemon and pi are gone, the volume stays.              *)
DaemonDies ==
  /\ up /\ boot < MaxBoots
  /\ up' = FALSE /\ piRunning' = FALSE /\ pi' = <<>>
  /\ UNCHANGED <<ctrlVars, sandbox, boot, spool, bounds>>

(* Its replacement boots under a new boot_id.                               *)
DaemonBoots ==
  /\ sandbox /\ ~up /\ boot < MaxBoots
  /\ up' = TRUE /\ boot' = boot + 1 /\ piRunning' = Autostart
  /\ UNCHANGED <<ctrlVars, sandbox, pi, spool, bounds>>

----------------------------------------------------------------------------
(* The pull loop (runPuller).                                               *)
At(t, l) == alive /\ pc[t] = l

Goto(t, l) == pc' = [pc EXCEPT ![t] = l]

(* noteBootID: the first preflight of a loop, tolerated when it fails.      *)
NoteBootID(t) ==
  /\ At(t, "note") /\ ~prompting
  /\ bootID' \in {bootID} \cup IF up /\ ~cancelled[t] /\ bootID = 0 THEN {boot} ELSE {}
  /\ Goto(t, "pull")
  /\ UNCHANGED <<durable, alive, state, status, pendingRevive, callVars, cancelled, seen, dead, led,
                 batch, daemonVars, bounds>>

(* Mutant: the cursor is inclusive.                                         *)
UnackedFromMark == LET first == IF acked = 0 THEN 1 ELSE acked
                   IN  [k \in 1..(Len(spool) + 1 - first) |-> first - 1 + k]

Unacked == [k \in 1..(Len(spool) - acked) |-> acked + k]

(* A pull that is answered, with no record after the long-poll's wait.      *)
Pull(t) ==
  /\ At(t, "pull") /\ ~cancelled[t] /\ up
  /\ batch' = [batch EXCEPT ![t] = Unacked]
  /\ Goto(t, IF Unacked = <<>> THEN "complete" ELSE "batch")
  /\ UNCHANGED <<durable, alive, state, status, bootID, pendingRevive, callVars, cancelled, seen, dead,
                 led, daemonVars, bounds>>

(* A pull that fails; the reconnect preflight comes after the backoff.      *)
PullFails(t) ==
  /\ At(t, "pull") /\ ~cancelled[t]
  /\ Goto(t, "preflight")
  /\ UNCHANGED <<durable, alive, state, status, bootID, pendingRevive, callVars, cancelled, seen, dead,
                 led, batch, daemonVars, bounds>>

(* The reconnect preflight: a known boot_id that has changed, with pi not   *)
(* running, is a daemon death.  bootIDChanged records the new id.           *)
Preflight(t) ==
  /\ At(t, "preflight") /\ ~cancelled[t] /\ up /\ ~prompting
  /\ bootID' = boot
  /\ LET died == bootID # 0 /\ bootID # boot /\ ~piRunning
     IN  /\ dead' = [dead EXCEPT ![t] = died]
         /\ Goto(t, IF died THEN "death" ELSE "pull")
  /\ UNCHANGED <<durable, alive, state, status, pendingRevive, callVars, cancelled, seen, led, batch,
                 daemonVars, bounds>>

PreflightFails(t) ==
  /\ At(t, "preflight")
  /\ Goto(t, "pull")
  /\ UNCHANGED <<durable, alive, state, status, bootID, pendingRevive, callVars, cancelled, seen, dead,
                 led, batch, daemonVars, bounds>>

(* Pending death: the preflight that precedes the drain.                    *)
Death(t) ==
  /\ At(t, "death") /\ ~cancelled[t] /\ up
  /\ seen' = [seen EXCEPT ![t] = boot]
  /\ Goto(t, "drain")
  /\ UNCHANGED <<durable, alive, state, status, bootID, pendingRevive, callVars, cancelled, dead, led,
                 batch, daemonVars, bounds>>

(* drainSpool: pull until nothing is left, then decide.                     *)
Drain(t) ==
  /\ At(t, "drain") /\ ~cancelled[t] /\ up
  /\ batch' = [batch EXCEPT ![t] = Unacked]
  /\ Goto(t, IF Unacked = <<>> THEN "decide" ELSE "batch")
  /\ UNCHANGED <<durable, alive, state, status, bootID, pendingRevive, callVars, cancelled, seen, dead,
                 led, daemonVars, bounds>>

DrainFails(t) ==
  /\ At(t, "drain")
  /\ Goto(t, "death")
  /\ UNCHANGED <<durable, alive, state, status, bootID, pendingRevive, callVars, cancelled, seen, dead,
                 led, batch, daemonVars, bounds>>

(* The loop goes on with the next record of the batch, or after the last.   *)
NextRecord(t) ==
  /\ batch' = [batch EXCEPT ![t] = Tail(batch[t])]
  /\ Goto(t, IF Len(batch[t]) > 1 THEN "batch" ELSE IF dead[t] THEN "drain" ELSE "complete")

(* PublishPulled: a record behind the watermark, or for a closed hub, is    *)
(* dropped without an error, and still handed to onPiRecord.                *)
PublishPulled(t) ==
  /\ At(t, "batch")
  /\ acked' = IF Closed \/ acked > Head(batch[t]) THEN acked ELSE Head(batch[t])
  /\ Goto(t, "record")
  /\ UNCHANGED <<logVars, logBoot, logTurn, alive, state, status, bootID, pendingRevive, callVars,
                 cancelled, seen, dead, led, batch, daemonVars, bounds>>

(* The store refuses the record: the rest of the batch is given up.         *)
PublishPulledFails(t) ==
  /\ At(t, "batch")
  /\ "store" \in Faults /\ ~Closed /\ Head(batch[t]) > acked
  /\ batch' = [batch EXCEPT ![t] = <<>>]
  /\ \/ Goto(t, IF dead[t] THEN "death" ELSE "complete")
     \/ ~dead[t] /\ cancelled[t] /\ Goto(t, "off")
  /\ UNCHANGED <<durable, alive, state, status, bootID, pendingRevive, callVars, cancelled, seen, dead,
                 led, daemonVars, bounds>>

(* onPiRecord on agent_settled: a working agent becomes ready.              *)
OnPiRecord(t) ==
  /\ At(t, "record") /\ ~prompting
  /\ IF status = "working"
     THEN status' = "ready" /\ Goto(t, "settle") /\ UNCHANGED batch
     ELSE NextRecord(t) /\ UNCHANGED status
  /\ UNCHANGED <<durable, alive, state, bootID, pendingRevive, callVars, cancelled, seen, dead, led,
                 daemonVars, bounds>>

(* ... and, after the monitor's terminal assessment, the session idle.      *)
Settle(t, ok) ==
  /\ At(t, "settle")
  /\ Transition("idle", "settled", ok)
  /\ NextRecord(t)
  /\ UNCHANGED <<logBoot, logTurn, acked, alive, status, bootID, pendingRevive, callVars, cancelled, seen,
                 dead, led, daemonVars, bounds>>

(* The decision after a complete drain: only a running session is revived.  *)
Decide(t) ==
  /\ At(t, "decide")
  /\ Goto(t, IF state = "running" THEN "pause" ELSE "legacy")
  /\ UNCHANGED <<durable, alive, state, status, bootID, pendingRevive, callVars, cancelled, seen, dead,
                 led, batch, daemonVars, bounds>>

(* recordDaemonBoot of the drain-then-mark path; fail follows.              *)
RecordDaemonBoot(t) ==
  /\ At(t, "legacy")
  /\ \E ok \in Stored : logBoot' = IF ok THEN seen[t] ELSE logBoot
  /\ Goto(t, "failOff")
  /\ UNCHANGED <<logVars, logTurn, acked, alive, state, status, bootID, pendingRevive, callVars, cancelled,
                 seen, dead, led, batch, daemonVars, bounds>>

(* fail, called by pauseSession or at the end of drain-then-mark.           *)
Fail(t, ok) ==
  /\ \/ At(t, "failConsume") /\ Goto(t, "consume")
     \/ At(t, "failOff") /\ Goto(t, "off")
  /\ FailAgent(ok)
  /\ UNCHANGED <<logBoot, logTurn, acked, alive, state, bootID, pendingRevive, callVars, cancelled, seen,
                 dead, led, batch, daemonVars, bounds>>

(* A loop whose context has ended returns where it looks at it.             *)
Return(t) ==
  /\ alive /\ pc[t] \in {"pull", "preflight", "death", "drain", "consume"}
  /\ cancelled[t]
  /\ Goto(t, "off")
  /\ UNCHANGED <<durable, alive, state, status, bootID, pendingRevive, callVars, cancelled, seen, dead,
                 led, batch, daemonVars, bounds>>

----------------------------------------------------------------------------
(* The Tier-2 revive.                                                       *)

(* pauseSession: the running -> paused edge, or the loop stops.             *)
PauseSession(t, ok) ==
  /\ At(t, "pause")
  /\ Transition("paused", "paused", ok)
  /\ Goto(t, IF ok THEN "failConsume" ELSE "off")
  /\ UNCHANGED <<logBoot, logTurn, acked, alive, status, bootID, pendingRevive, callVars, cancelled, seen,
                 dead, led, batch, daemonVars, bounds>>

(* consumeReviveAttempt takes the revive lock and reads the ledger; a       *)
(* ledger that cannot be read counts as exhausted.                          *)
ReadLedger(t) ==
  /\ At(t, "consume") /\ reviveMu = Free
  /\ reviveMu' = t
  /\ \E ok \in Readable : led' = [led EXCEPT ![t] = IF ok THEN used ELSE ReviveMax]
  /\ Goto(t, "spend")
  /\ UNCHANGED <<durable, alive, state, status, bootID, pendingRevive, creating, deleting, prompting,
                 resuming, polling, owner, cancelled, seen, dead, batch, daemonVars, bounds>>

(* The cooldown is waited for without the lock, and the ledger read again.  *)
Cooldown(t) ==
  /\ At(t, "spend") /\ led[t] < ReviveMax /\ led[t] > 0
  /\ reviveMu' = Free
  /\ Goto(t, "consume")
  /\ UNCHANGED <<durable, alive, state, status, bootID, pendingRevive, creating, deleting, prompting,
                 resuming, polling, owner, cancelled, seen, dead, led, batch, daemonVars, bounds>>

(* Mutant: the budget is off by one.                                        *)
ConsumeReviveAttemptOnceMore(t, ok) ==
  /\ At(t, "spend")
  /\ reviveMu' = Free
  /\ IF led[t] <= ReviveMax
     THEN /\ PublishLifecycle("revive_consumed", ok)
          /\ Goto(t, IF ok THEN "hold" ELSE "off")
          /\ slips' = IF ok THEN slips + 1 ELSE slips
     ELSE UNCHANGED <<logVars, slips>> /\ Goto(t, "off")
  /\ UNCHANGED <<logBoot, logTurn, acked, alive, state, status, bootID, pendingRevive, creating, deleting,
                 prompting, resuming, polling, owner, cancelled, seen, dead, led, batch, daemonVars, turns,
                 crashes, resumes, promptBoot>>

(* The attempt is spent; an exhausted budget or a lost append ends it.      *)
ConsumeReviveAttempt(t, ok) ==
  /\ At(t, "spend")
  /\ reviveMu' = Free
  /\ IF led[t] < ReviveMax
     THEN /\ PublishLifecycle("revive_consumed", ok)
          /\ Goto(t, IF ok THEN "hold" ELSE "off")
          /\ slips' = IF ok THEN slips + 1 ELSE slips
     ELSE UNCHANGED <<logVars, slips>> /\ Goto(t, "off")
  /\ UNCHANGED <<logBoot, logTurn, acked, alive, state, status, bootID, pendingRevive, creating, deleting,
                 prompting, resuming, polling, owner, cancelled, seen, dead, led, batch, daemonVars, turns,
                 crashes, resumes, promptBoot>>

(* reviveFromPaused after a restart: an open attempt is held for again, a   *)
(* closed one costs a new attempt.                                          *)
ReviveFromPaused(t) ==
  /\ At(t, "replay")
  /\ \E ok \in Readable : Goto(t, IF ok /\ open THEN "hold" ELSE "consume")
  /\ UNCHANGED <<durable, alive, state, status, bootID, pendingRevive, callVars, cancelled, seen, dead,
                 led, batch, daemonVars, bounds>>

(* waitForReplacementDaemon: the daemon answers, whatever pi does.          *)
Hold(t) ==
  /\ At(t, "hold") /\ ~cancelled[t] /\ up
  /\ seen' = [seen EXCEPT ![t] = boot]
  /\ Goto(t, "arm")
  /\ UNCHANGED <<durable, alive, state, status, bootID, pendingRevive, callVars, cancelled, dead, led,
                 batch, daemonVars, bounds>>

(* The hold's deadline passes or its context ends: the attempt is closed.   *)
HoldFails(t, ok) ==
  /\ At(t, "hold")
  /\ PublishLifecycle("revive_abandoned", ok)
  /\ Goto(t, "off")
  /\ UNCHANGED <<logBoot, logTurn, acked, alive, state, status, bootID, pendingRevive, callVars, cancelled,
                 seen, dead, led, batch, daemonVars, bounds>>

(* recordBootOnce, setBootID, armPendingRevive; the loop pulls.             *)
Arm(t) ==
  /\ At(t, "arm") /\ ~prompting
  /\ \E ok \in Stored : logBoot' = IF ok THEN seen[t] ELSE logBoot
  /\ bootID' = seen[t]
  /\ pendingRevive' = TRUE
  /\ dead' = [dead EXCEPT ![t] = FALSE]
  /\ Goto(t, "pull")
  /\ UNCHANGED <<logVars, logTurn, acked, alive, state, status, callVars, cancelled, seen, led, batch,
                 daemonVars, bounds>>

(* completeRevive after a successful pull: agent.revived, with the revive   *)
(* lock held until the lost turn is closed ...                              *)
CompleteRevive(t, ok) ==
  /\ At(t, "complete") /\ reviveMu = Free /\ ~prompting
  /\ pendingRevive' = FALSE
  /\ IF pendingRevive /\ state = "paused"
     THEN /\ Transition("running", "revived", ok)
          /\ reviveMu' = IF ok THEN t ELSE Free
          /\ Goto(t, IF ok THEN "close" ELSE "pull")
     ELSE UNCHANGED <<logVars, state, reviveMu>> /\ Goto(t, "pull")
  /\ UNCHANGED <<logBoot, logTurn, acked, alive, status, bootID, creating, deleting, prompting, resuming,
                 polling, owner, cancelled, seen, dead, led, batch, daemonVars, bounds>>

(* ... the synthesized settle of the lost turn ...                          *)
CloseLostTurn(t, ok) ==
  /\ At(t, "close")
  /\ Transition("idle", "settled", ok)
  /\ reviveMu' = Free
  /\ Goto(t, "ready")
  /\ UNCHANGED <<logBoot, logTurn, acked, alive, status, bootID, pendingRevive, creating, deleting,
                 prompting, resuming, polling, owner, cancelled, seen, dead, led, batch, daemonVars, bounds>>

(* ... and the agent is ready, whatever its status has become.              *)
MarkReady(t) ==
  /\ At(t, "ready") /\ ~prompting
  /\ status' = "ready"
  /\ Goto(t, "pull")
  /\ UNCHANGED <<durable, alive, state, bootID, pendingRevive, callVars, cancelled, seen, dead, led,
                 batch, daemonVars, bounds>>

(* Mutant: the open attempt is not looked at.                               *)
ResumeMidAttempt ==
  /\ alive /\ resuming = "no" /\ reviveMu = Free
  /\ resumes < MaxResumes
  /\ state = "paused"
  /\ resumes' = resumes + 1
  /\ reviveMu' = Resumer /\ resuming' = "locked"
  /\ UNCHANGED <<durable, alive, state, status, bootID, pendingRevive, creating, deleting, prompting,
                 polling, owner, threadVars, daemonVars, turns, crashes, promptBoot, slips>>

(* Resume: a paused session, checked again under the revive lock, whose     *)
(* ledger shows no open attempt.                                            *)
Resume ==
  /\ alive /\ resuming = "no" /\ reviveMu = Free
  /\ resumes < MaxResumes
  /\ state = "paused"
  /\ \E ok \in Readable : ~(ok /\ open)
  /\ resumes' = resumes + 1
  /\ reviveMu' = Resumer /\ resuming' = "locked"
  /\ UNCHANGED <<durable, alive, state, status, bootID, pendingRevive, creating, deleting, prompting,
                 polling, owner, threadVars, daemonVars, turns, crashes, promptBoot, slips>>

(* The budget is reset ...                                                  *)
ResumeRearm(ok) ==
  /\ alive /\ resuming = "locked"
  /\ PublishLifecycle("resumed", ok)
  /\ resuming' = IF ok THEN "rearmed" ELSE "no"
  /\ reviveMu' = IF ok THEN Resumer ELSE Free
  /\ UNCHANGED <<logBoot, logTurn, acked, alive, state, status, bootID, pendingRevive, creating, deleting,
                 prompting, polling, owner, threadVars, daemonVars, bounds>>

(* ... an attempt is opened before the lock is given back ...               *)
ResumeConsume(ok) ==
  /\ alive /\ resuming = "rearmed"
  /\ PublishLifecycle("revive_consumed", ok)
  /\ resuming' = IF ok THEN "consumed" ELSE "no"
  /\ reviveMu' = Free
  /\ slips' = IF ok THEN slips + 1 ELSE slips
  /\ UNCHANGED <<logBoot, logTurn, acked, alive, state, status, bootID, pendingRevive, creating, deleting,
                 prompting, polling, owner, threadVars, daemonVars, turns, crashes, resumes,
                 promptBoot>>

(* ... and a new goroutine, with a context of its own, holds for it.        *)
ResumeSpawn(t) ==
  /\ alive /\ resuming = "consumed" /\ ~prompting
  /\ pc[t] = "off"
  /\ resuming' = "no"
  /\ cancelled' = [cancelled EXCEPT ![owner] = TRUE, ![t] = FALSE]
  /\ owner' = t /\ polling' = FALSE
  /\ dead' = [dead EXCEPT ![t] = FALSE]
  /\ Goto(t, "hold")
  /\ UNCHANGED <<durable, alive, state, status, bootID, pendingRevive, creating, deleting, prompting,
                 reviveMu, seen, led, batch, daemonVars, bounds>>

----------------------------------------------------------------------------
(* Mutant: the loop is not cancelled.                                       *)
DeleteKeepsContext ==
  /\ alive /\ deleting = "no" /\ ~prompting
  /\ deleting' = "marked" /\ status' = "terminated"
  /\ UNCHANGED <<cancelled, polling>>
  /\ UNCHANGED <<durable, alive, state, bootID, pendingRevive, creating, prompting, reviveMu, resuming,
                 owner, pc, seen, dead, led, batch, daemonVars, bounds>>

(* deleteOne: out of the registry, context ended, status terminated ...     *)
Delete ==
  /\ alive /\ deleting = "no" /\ ~prompting
  /\ deleting' = "marked" /\ status' = "terminated"
  /\ CancelOwner
  /\ UNCHANGED <<durable, alive, state, bootID, pendingRevive, creating, prompting, reviveMu, resuming,
                 owner, pc, seen, dead, led, batch, daemonVars, bounds>>

(* ... agent.terminated, whose failure is only logged ...                   *)
DeleteTransition(ok) ==
  /\ alive /\ deleting = "marked"
  /\ Transition("terminated", "terminated", ok)
  /\ deleting' = "logged"
  /\ UNCHANGED <<logBoot, logTurn, acked, alive, status, bootID, pendingRevive, creating, prompting,
                 reviveMu, resuming, polling, owner, threadVars, daemonVars, bounds>>

(* ... the hub is closed and the sandbox deleted.                           *)
DeleteClose ==
  /\ alive /\ deleting \in {"logged", "closing"}
  /\ deleting' = "closed"
  /\ DeleteSandbox
  /\ UNCHANGED <<durable, alive, state, status, bootID, pendingRevive, creating, prompting, reviveMu,
                 resuming, polling, owner, threadVars, boot, spool, bounds>>

(* The controller dies: what it has in memory is gone.                      *)
ControllerCrash ==
  /\ alive /\ crashes < MaxCrashes
  /\ crashes' = crashes + 1
  /\ slips' = IF prompting THEN slips + 1 ELSE slips
  /\ alive' = FALSE
  /\ bootID' = 0 /\ pendingRevive' = FALSE
  /\ creating' = "done" /\ deleting' = "no" /\ prompting' = FALSE
  /\ reviveMu' = Free /\ resuming' = "no" /\ polling' = FALSE
  /\ pc' = [t \in Threads |-> "off"]
  /\ cancelled' = [t \in Threads |-> FALSE]
  /\ seen' = [t \in Threads |-> 0]
  /\ dead' = [t \in Threads |-> FALSE]
  /\ led' = [t \in Threads |-> 0]
  /\ batch' = [t \in Threads |-> <<>>]
  /\ UNCHANGED <<durable, state, status, owner, daemonVars, turns, resumes, promptBoot>>

(* RebuildFromLog: the session and the status are replayed; a paused        *)
(* session is revived, any other pulled; a terminated one stays out.        *)
RebuildFromLog(t) ==
  /\ ~alive /\ logState # "terminated"
  /\ alive' = TRUE
  /\ state' = logState /\ status' = logStatus
  /\ owner' = t
  /\ Goto(t, IF logState = "paused" THEN "replay" ELSE "note")
  /\ UNCHANGED <<durable, bootID, pendingRevive, creating, deleting, prompting, reviveMu, resuming, polling,
                 cancelled, seen, dead, led, batch, daemonVars, bounds>>

----------------------------------------------------------------------------
Loop(t) ==
  \/ NoteBootID(t) \/ Pull(t) \/ PullFails(t) \/ Preflight(t) \/ PreflightFails(t)
  \/ Death(t) \/ Drain(t) \/ DrainFails(t) \/ PublishPulled(t) \/ PublishPulledFails(t)
  \/ OnPiRecord(t) \/ Decide(t) \/ RecordDaemonBoot(t) \/ Return(t)
  \/ \E ok \in BOOLEAN : Settle(t, ok) \/ Fail(t, ok)

Revive(t) ==
  \/ ReadLedger(t) \/ Cooldown(t) \/ ReviveFromPaused(t) \/ Hold(t) \/ Arm(t) \/ MarkReady(t)
  \/ \E ok \in BOOLEAN : \/ PauseSession(t, ok) \/ ConsumeReviveAttempt(t, ok) \/ HoldFails(t, ok)
                         \/ CompleteRevive(t, ok) \/ CloseLostTurn(t, ok)

FrontDoor ==
  \/ CreateReady \/ Prompt \/ PromptReplyLost \/ Command \/ Resume \/ Delete \/ DeleteClose
  \/ \E ok \in BOOLEAN : \/ CreateStarted(ok) \/ TurnStarted(ok) \/ PhaseError(ok)
                         \/ ResumeRearm(ok) \/ ResumeConsume(ok) \/ DeleteTransition(ok)
  \/ \E t \in Threads : ResumeSpawn(t)

Daemon == PiSettles \/ PiExits \/ DaemonDies \/ DaemonBoots

Next ==
  \/ FrontDoor
  \/ Daemon
  \/ ControllerCrash
  \/ \E t \in Threads : Loop(t) \/ Revive(t) \/ RebuildFromLog(t)

Spec == SessionInit /\ [][Next]_vars

----------------------------------------------------------------------------
Label == {"off", "note", "pull", "preflight", "death", "drain", "batch", "record", "settle", "decide",
          "legacy", "failOff", "pause", "failConsume", "consume", "spend", "replay", "hold", "arm",
          "complete", "close", "ready"}

(* "a restart derived by replay lands on the identical state" (fsm.go): the *)
(* FSM in memory is the fold of the log at every step, over appends that    *)
(* fail, crashes and restarts.                                              *)
Projection == alive => state = logState

(* REVIVE_MAX bounds the attempts between two re-arms, whoever spends them: *)
(* the pull loop, a restarted controller or Resume, also all at once.  Only *)
(* Resume, which spends one without a look at the budget, goes beyond it,   *)
(* and only beyond 0 (KAPE_REVIVE_MAX may be 0).                            *)
Budget == used <= IF ReviveMax = 0 THEN 1 ELSE ReviveMax

(* A prompt that the daemon has taken always gets its agent.turn_started:   *)
(* nothing can move the session under sendPrompt, which holds only a.mu.    *)
PromptLands == prompting /\ deleting = "no" => Promptable

(* "a second prompt while a turn is in flight is rejected" (agent.go): pi   *)
(* never has two turns.                                                     *)
SingleTurn == Len(pi) <= 1

(* The same until the log holds a daemon.boot, so until the first revive.   *)
SingleTurnUnrevived == logBoot = 0 => SingleTurn

(* Beyond that, and whatever is lost: each turn too many in pi is owed to a *)
(* prompt whose agent.turn_started is not in the log (a lost reply, a crash *)
(* or a refused append) or to a revive attempt, and none makes two.         *)
TurnsAccounted == Len(pi) <= 1 + slips

(* The record that settles a turn is that turn's own, until the same point. *)
SettlesOwnTurn ==
  logBoot = 0 => \A t \in Threads : pc[t] = "settle" => spool[Head(batch[t])] = logTurn

(* "the agent_settled record ends a turn, flipping working -> ready"        *)
(* (agent.go): once the log holds the record that settles the running turn, *)
(* a working agent has a goroutine that is about to act on it.              *)
SettledEndsTurn ==
  (alive /\ state = "running" /\ status = "working" /\ logTurn \in {spool[k] : k \in 1..acked}) =>
     \E t \in Threads : pc[t] = "record"

(* "a hold that never lands must not leave the ledger open forever"         *)
(* (revive.go): an open attempt of a paused session has a goroutine or a    *)
(* Resume call that drives it.                                              *)
OpenIsDriven ==
  (alive /\ deleting = "no" /\ state = "paused" /\ open) =>
     resuming # "no" \/ \E t \in Threads : pc[t] # "off"

(* The goroutines run, calls that have begun end, and what can succeed does *)
(* not fail for ever; the daemon is replaced.  A pull is answered by the    *)
(* end of the long poll, so the loop cannot wait in it.                     *)
Fairness ==
  /\ WF_vars(DaemonBoots)
  /\ WF_vars(CreateReady \/ DeleteClose)
  /\ WF_vars(\E ok \in BOOLEAN : \/ CreateStarted(ok) \/ TurnStarted(ok) \/ ResumeRearm(ok)
                                 \/ ResumeConsume(ok) \/ DeleteTransition(ok))
  /\ WF_vars(\E t \in Threads : ResumeSpawn(t))
  /\ \A t \in Threads : /\ WF_vars(Loop(t) \/ Revive(t))
                        /\ SF_vars(Pull(t)) /\ SF_vars(Preflight(t)) /\ SF_vars(Drain(t))
                        /\ SF_vars(\E ok \in BOOLEAN : ConsumeReviveAttempt(t, ok))

FairSpec == Spec /\ Fairness

(* Delete ends the goroutines that no concurrent Resume has started.        *)
DeleteStopsLoops ==
  (Closed /\ resumes = 0) ~> (~alive \/ \A t \in Threads : pc[t] = "off")

=============================================================================
