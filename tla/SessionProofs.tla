---------------------------- MODULE SessionProofs ----------------------------
(***************************************************************************)
(* What holds of a session for any number of goroutines, any budget, any   *)
(* number of turns, sandbox deaths, restarts and re-arms, with a store and *)
(* a network that may fail: the state in memory is the replay of the log,  *)
(* the revive budget is never overdrawn, a prompt the daemon has taken is  *)
(* recorded, and no re-arm resets the ledger in the middle of an attempt   *)
(* as long as the ledger can be read.                                      *)
(*                                                                         *)
(* The invariant adds what the revive lock protects: who holds it at which *)
(* label, and that a ledger read under it is still the ledger when the     *)
(* attempt is spent.                                                       *)
(***************************************************************************)
EXTENDS Session, Integers, TLAPS

Types ==
    /\ state \in SessionState /\ logState \in SessionState
    /\ used \in Nat /\ led \in [Threads -> Nat] /\ pc \in [Threads -> Label]

(* The revive lock (revive.go): spending an attempt, closing a lost turn   *)
(* and re-arming exclude one another.                                      *)
Locked ==
    /\ \A t \in Threads : pc[t] \in {"spend", "close"} => reviveMu = t
    /\ resuming \in {"locked", "rearmed"} => reviveMu = Resumer

(* What was read under the lock is still true.                             *)
LedgerCurrent ==
    /\ \A t \in Threads : pc[t] = "spend" => led[t] = used \/ led[t] = ReviveMax
    /\ resuming = "rearmed" => used = 0
    /\ resuming = "locked" /\ "store" \notin Faults => ~open

(* A controller that is down has no prompt in flight.                      *)
DownIsQuiet == ~alive => ~prompting

SessionInv ==
    Types /\ Locked /\ LedgerCurrent /\ DownIsQuiet /\ Projection /\ Budget /\ PromptLands

(* Re-arming "would reset the ledger mid-attempt" (revive.go).             *)
RearmsClosed == [][used' < used /\ "store" \notin Faults => ~open]_vars

-----------------------------------------------------------------------------
(* Every edge of the session has its own event (fsm.go): replaying it does *)
(* what Transition did.                                                    *)
LEMMA TransitionProjects ==
    ASSUME Types, state = logState, NEW ok, NEW to, NEW ev, Transition(to, ev, ok),
           \/ to = "ready" /\ ev = "started"
           \/ to = "running" /\ ev \in {"turn_started", "revived"}
           \/ to = "idle" /\ ev = "settled"
           \/ to = "paused" /\ ev = "paused"
           \/ to = "terminated" /\ ev = "terminated"
    PROVE  /\ state' \in SessionState /\ state' = logState'
           /\ used' = used /\ (open' => open)
           /\ state' # state => state' = to /\ to \in sessionTransitions[state]
<1>1. to \in SessionState
  BY DEF SessionState
<1>2. CASE ok /\ to \in sessionTransitions[state]
  <2>1. Log(ev) /\ state' = to
    BY <1>2 DEF Transition
  <2>2. logState' = to
    BY <1>2, <2>1 DEF Log, ReplaySession, sessionEventType
  <2>3. used' = used
    BY <2>1 DEF Log, LedgerUsed
  <2>4. open' => open
    BY <2>1, Zenon DEF Log, LedgerOpen
  <2> QED BY <1>1, <1>2, <2>1, <2>2, <2>3, <2>4
<1>3. CASE ~(ok /\ to \in sessionTransitions[state])
  BY <1>3, Zenon DEF Transition, Types, logVars
<1> QED BY <1>2, <1>3

(* The other lifecycle events do not touch the session state (fsm.go).     *)
LEMMA PublishKeepsState ==
    ASSUME Types, NEW ok, NEW ev \in {"failed", "revive_consumed", "revive_abandoned", "resumed"},
           PublishLifecycle(ev, ok)
    PROVE  /\ logState' = logState
           /\ ev \in {"failed", "revive_abandoned"} => used' = used /\ (open' => open)
           /\ ev = "resumed" => (IF ok THEN used' = 0 ELSE used' = used) /\ (open' => open)
           /\ ev = "revive_consumed" => used' \in {used, used + 1}
<1>1. CASE ok
  <2>1. Log(ev)
    BY <1>1 DEF PublishLifecycle
  <2>2. logState' = logState
    BY <2>1 DEF Log, ReplaySession, sessionEventType
  <2>3. /\ ev \in {"failed", "revive_abandoned"} => used' = used
        /\ ev = "resumed" => used' = 0
        /\ ev = "revive_consumed" => used' = used + 1
    BY <2>1 DEF Log, LedgerUsed
  <2>4. ev # "revive_consumed" => (open' => open)
    BY <2>1, Zenon DEF Log, LedgerOpen
  <2> QED BY <1>1, <2>2, <2>3, <2>4
<1>2. CASE ~ok
  BY <1>2 DEF PublishLifecycle, logVars
<1> QED BY <1>1, <1>2

(* A step that leaves the lock, the ledger and its readers alone, and      *)
(* moves the session only along an edge that no prompt can be waiting on.  *)
Harmless ==
    /\ UNCHANGED <<used, alive, reviveMu, resuming, led>>
    /\ open' => open
    /\ state' \in SessionState /\ logState' \in SessionState
    /\ alive => state' = logState'
    /\ pc' \in [Threads -> Label]
    /\ \A t \in Threads : pc'[t] \in {"spend", "close"} => pc'[t] = pc[t]
    /\ \/ /\ UNCHANGED <<status, prompting, deleting>>
          /\ state' # state => state \notin {"ready", "idle"}
       \/ ~prompting'
       \/ prompting' = prompting /\ deleting' # "no"

(* Such a step keeps the invariant: from ready and idle the session can    *)
(* only start a turn or end (fsm.go), so the accepted prompt still lands.  *)
LEMMA HarmlessInv == SessionInv /\ Harmless => SessionInv'
<1> SUFFICES ASSUME SessionInv, Harmless PROVE SessionInv' OBVIOUS
<1>0. Types /\ Locked /\ LedgerCurrent /\ DownIsQuiet /\ Projection /\ Budget /\ PromptLands
  BY DEF SessionInv
<1>1. Types'
  BY <1>0 DEF Harmless, Types
<1>2. Locked'
  BY <1>0 DEF Harmless, Locked
<1>3. LedgerCurrent'
  BY <1>0 DEF Harmless, LedgerCurrent
<1>4. DownIsQuiet'
  BY <1>0 DEF Harmless, DownIsQuiet
<1>5. Projection' /\ Budget'
  BY <1>0 DEF Harmless, Projection, Budget
<1>6. PromptLands'
  BY <1>0, Zenon DEF Harmless, PromptLands, Promptable
<1> QED BY <1>1, <1>2, <1>3, <1>4, <1>5, <1>6 DEF SessionInv

(* Most steps of a pull loop change only its own place and what it has in  *)
(* hand (puller.go).                                                       *)
LEMMA LoopInv ==
    ASSUME SessionInv, NEW t \in Threads, Loop(t)
    PROVE  SessionInv'
<1>0. Types /\ Projection /\ PromptLands /\ Locked BY DEF SessionInv
<1> USE DEF vars, durable, logVars, callVars, threadVars, daemonVars, bounds
<1> DEFINE Moves == \E l \in Label \ {"spend", "close"} : Goto(t, l)
           Same == UNCHANGED <<logVars, alive, state, prompting, deleting, reviveMu, resuming, led>>
<1>1. Moves => /\ pc' \in [Threads -> Label]
               /\ \A s \in Threads : pc'[s] \in {"spend", "close"} => pc'[s] = pc[s]
  BY <1>0 DEF Goto, Types
<1>2. Moves /\ Same /\ (UNCHANGED status \/ ~prompting) => Harmless
  BY <1>0, <1>1 DEF Harmless, Types, Projection
<1>3. CASE NoteBootID(t)
  <2>1. Moves BY <1>3 DEF NoteBootID, Label
  <2>2. Same /\ UNCHANGED status BY <1>3 DEF NoteBootID
  <2> QED BY <1>2, <2>1, <2>2, HarmlessInv
<1>4. CASE Pull(t) \/ PullFails(t)
  <2>1. Moves BY <1>4 DEF Pull, PullFails, Label
  <2>2. Same /\ UNCHANGED status BY <1>4 DEF Pull, PullFails
  <2> QED BY <1>2, <2>1, <2>2, HarmlessInv
<1>5. CASE Preflight(t) \/ PreflightFails(t)
  <2>1. Moves BY <1>5 DEF Preflight, PreflightFails, Label
  <2>2. Same /\ UNCHANGED status BY <1>5 DEF Preflight, PreflightFails
  <2> QED BY <1>2, <2>1, <2>2, HarmlessInv
<1>6. CASE Death(t) \/ Drain(t) \/ DrainFails(t)
  <2>1. Moves BY <1>6 DEF Death, Drain, DrainFails, Label
  <2>2. Same /\ UNCHANGED status BY <1>6 DEF Death, Drain, DrainFails
  <2> QED BY <1>2, <2>1, <2>2, HarmlessInv
<1>7. CASE PublishPulled(t) \/ PublishPulledFails(t)
  <2>1. Moves BY <1>7 DEF PublishPulled, PublishPulledFails, Label
  <2>2. Same /\ UNCHANGED status BY <1>7 DEF PublishPulled, PublishPulledFails
  <2> QED BY <1>2, <2>1, <2>2, HarmlessInv
<1>8. CASE Decide(t) \/ RecordDaemonBoot(t) \/ Return(t)
  <2>1. Moves BY <1>8 DEF Decide, RecordDaemonBoot, Return, Label
  <2>2. Same /\ UNCHANGED status BY <1>8 DEF Decide, RecordDaemonBoot, Return
  <2> QED BY <1>2, <2>1, <2>2, HarmlessInv
<1>9. CASE OnPiRecord(t)
  <2>1. Moves BY <1>9 DEF OnPiRecord, NextRecord, Label
  <2>2. Same /\ ~prompting BY <1>9 DEF OnPiRecord
  <2> QED BY <1>2, <2>1, <2>2, HarmlessInv
<1>10. ASSUME NEW ok \in BOOLEAN, Settle(t, ok) PROVE Harmless
  <2>1. Moves
    BY <1>10 DEF Settle, NextRecord, Label
  <2>2. /\ alive /\ Transition("idle", "settled", ok)
        /\ UNCHANGED <<alive, status, prompting, deleting, reviveMu, resuming, led>>
    BY <1>10 DEF Settle, At
  <2>3. /\ state' \in SessionState /\ state' = logState' /\ used' = used /\ (open' => open)
        /\ state' # state => "idle" \in sessionTransitions[state]
    BY <1>0, <2>2, TransitionProjects DEF Projection
  <2>4. state \in {"ready", "idle"} => "idle" \notin sessionTransitions[state]
    BY DEF sessionTransitions, SessionState
  <2> QED BY <1>1, <2>1, <2>2, <2>3, <2>4 DEF Harmless
<1>11. ASSUME NEW ok \in BOOLEAN, Fail(t, ok) PROVE Harmless
  <2>1. Moves
    BY <1>11 DEF Fail, Label
  <2>2. /\ alive /\ ~prompting
        /\ UNCHANGED <<alive, state, prompting, deleting, reviveMu, resuming, led>>
        /\ UNCHANGED logVars \/ PublishLifecycle("failed", ok)
    BY <1>11 DEF Fail, FailAgent, At
  <2>3. logState' = logState /\ used' = used /\ (open' => open)
    BY <1>0, <2>2, PublishKeepsState
  <2> QED BY <1>0, <1>1, <2>1, <2>2, <2>3 DEF Harmless, Types, Projection
<1> QED BY <1>3, <1>4, <1>5, <1>6, <1>7, <1>8, <1>9, <1>10, <1>11, HarmlessInv DEF Loop

(* The steps of a revive (revive.go): those that take or give back the     *)
(* revive lock keep who holds it and what its holder has read.             *)
LEMMA ReviveInv ==
    ASSUME SessionInv, NEW t \in Threads, Revive(t)
    PROVE  SessionInv'
<1>0. Types /\ Projection /\ PromptLands /\ Locked /\ LedgerCurrent /\ DownIsQuiet /\ Budget
  BY DEF SessionInv
<1> USE DEF vars, durable, logVars, callVars, threadVars, daemonVars, bounds
<1> DEFINE Moves == \E l \in Label \ {"spend", "close"} : Goto(t, l)
           Same == UNCHANGED <<logVars, alive, state, prompting, deleting, reviveMu, resuming, led>>
<1>1. Moves => /\ pc' \in [Threads -> Label]
               /\ \A s \in Threads : pc'[s] \in {"spend", "close"} => s # t /\ pc'[s] = pc[s]
  BY <1>0 DEF Goto, Types
<1>2. Moves /\ Same /\ (UNCHANGED status \/ ~prompting) => Harmless
  BY <1>0, <1>1 DEF Harmless, Types, Projection
<1>3. t # Free /\ t # Resumer /\ Free # Resumer
  BY SessionAssumption DEF Free, Resumer
<1>4. CASE ReviveFromPaused(t)
  <2>1. Moves BY <1>4 DEF ReviveFromPaused, Label
  <2>2. Same /\ UNCHANGED status BY <1>4 DEF ReviveFromPaused
  <2> QED BY <1>2, <2>1, <2>2, HarmlessInv
<1>5. CASE Hold(t)
  <2>1. Moves BY <1>5 DEF Hold, Label
  <2>2. Same /\ UNCHANGED status BY <1>5 DEF Hold
  <2> QED BY <1>2, <2>1, <2>2, HarmlessInv
<1>6. CASE Arm(t) \/ MarkReady(t)
  <2>1. Moves BY <1>6 DEF Arm, MarkReady, Label
  <2>2. Same /\ ~prompting BY <1>6 DEF Arm, MarkReady
  <2> QED BY <1>2, <2>1, <2>2, HarmlessInv
<1>7. CASE ReadLedger(t)
  <2>1. /\ alive /\ reviveMu = Free /\ reviveMu' = t /\ Goto(t, "spend")
        /\ led' = [led EXCEPT ![t] = used] \/ led' = [led EXCEPT ![t] = ReviveMax]
        /\ UNCHANGED <<logVars, alive, state, status, prompting, deleting, resuming>>
    BY <1>7, Zenon DEF ReadLedger, At
  <2>2. \A s \in Threads : pc[s] \notin {"spend", "close"}
    BY <1>0, <1>3, <2>1, SessionAssumption DEF Locked, Free
  <2>3. resuming \notin {"locked", "rearmed"}
    BY <1>0, <1>3, <2>1 DEF Locked
  <2>4. pc' = [pc EXCEPT ![t] = "spend"]
    BY <2>1 DEF Goto
  <2>5. Types'
    BY <1>0, <2>1, <2>4, SessionAssumption DEF Types, Label
  <2>6. Locked'
    BY <1>0, <2>1, <2>2, <2>3, <2>4 DEF Types, Locked
  <2>7. LedgerCurrent'
    BY <1>0, <2>1, <2>2, <2>3, <2>4 DEF Types, LedgerCurrent
  <2>8. DownIsQuiet' /\ Projection' /\ Budget' /\ PromptLands'
    BY <1>0, <2>1 DEF DownIsQuiet, Projection, Budget, PromptLands, Promptable
  <2> QED BY <2>5, <2>6, <2>7, <2>8 DEF SessionInv
<1>8. ASSUME Moves, reviveMu = t, reviveMu' = Free, alive, led' = led,
             UNCHANGED <<alive, status, prompting, deleting, resuming>>,
             state' \in SessionState, state' = logState', used' \in Nat, Budget',
             state' # state => state \notin {"ready", "idle"}
      PROVE  SessionInv'
  <2>1. \A s \in Threads : pc'[s] \notin {"spend", "close"}
    BY <1>0, <1>1, <1>8 DEF Locked
  <2>2. resuming' \notin {"locked", "rearmed"}
    BY <1>0, <1>3, <1>8 DEF Locked
  <2>3. Types'
    BY <1>0, <1>1, <1>8 DEF Types
  <2>4. Locked' /\ LedgerCurrent'
    BY <2>1, <2>2 DEF Locked, LedgerCurrent
  <2>5. DownIsQuiet' /\ Projection' /\ PromptLands'
    BY <1>0, <1>8 DEF DownIsQuiet, Projection, PromptLands, Promptable
  <2> QED BY <1>8, <2>3, <2>4, <2>5 DEF SessionInv
<1>9. CASE Cooldown(t)
  <2>1. Moves
    BY <1>9 DEF Cooldown, Label
  <2>2. /\ alive /\ reviveMu' = Free /\ pc[t] = "spend"
        /\ UNCHANGED <<logVars, alive, state, status, prompting, deleting, resuming, led>>
    BY <1>9 DEF Cooldown, At
  <2>3. used' \in Nat /\ Budget'
    BY <1>0, <2>2 DEF Types, Budget
  <2> QED BY <1>0, <1>8, <2>1, <2>2, <2>3 DEF Types, Locked, Projection
<1>10. ASSUME NEW ok \in BOOLEAN, ConsumeReviveAttempt(t, ok) PROVE SessionInv'
  <2>1. Moves
    BY <1>10 DEF ConsumeReviveAttempt, Label
  <2>2. /\ alive /\ reviveMu' = Free /\ pc[t] = "spend"
        /\ \/ led[t] < ReviveMax /\ PublishLifecycle("revive_consumed", ok)
           \/ UNCHANGED logVars
        /\ UNCHANGED <<alive, state, status, prompting, deleting, resuming, led>>
    BY <1>10 DEF ConsumeReviveAttempt, At
  <2>3. logState' = logState /\ (used' = used \/ (led[t] < ReviveMax /\ used' \in {used, used + 1}))
    BY <1>0, <2>2, PublishKeepsState
  <2>4. led[t] = used \/ led[t] = ReviveMax
    BY <1>0, <2>2 DEF LedgerCurrent
  <2>5. used' \in Nat /\ Budget'
    BY <1>0, <2>3, <2>4, SessionAssumption DEF Types, Budget
  <2> QED BY <1>0, <1>8, <2>1, <2>2, <2>3, <2>5 DEF Types, Locked, Projection
<1>11. ASSUME NEW ok \in BOOLEAN, CloseLostTurn(t, ok) PROVE SessionInv'
  <2>1. Moves
    BY <1>11 DEF CloseLostTurn, Label
  <2>2. /\ alive /\ reviveMu' = Free /\ pc[t] = "close" /\ Transition("idle", "settled", ok)
        /\ UNCHANGED <<alive, status, prompting, deleting, resuming, led>>
    BY <1>11 DEF CloseLostTurn, At
  <2>3. /\ state' \in SessionState /\ state' = logState' /\ used' = used
        /\ state' # state => "idle" \in sessionTransitions[state]
    BY <1>0, <2>2, TransitionProjects DEF Projection
  <2>4. state \in {"ready", "idle"} => "idle" \notin sessionTransitions[state]
    BY DEF sessionTransitions, SessionState
  <2>5. used' \in Nat /\ Budget'
    BY <1>0, <2>3 DEF Types, Budget
  <2> QED BY <1>0, <1>8, <2>1, <2>2, <2>3, <2>4, <2>5 DEF Types, Locked
<1>12. ASSUME NEW ok \in BOOLEAN, PauseSession(t, ok) PROVE Harmless
  <2>1. Moves
    BY <1>12 DEF PauseSession, Label
  <2>2. /\ alive /\ Transition("paused", "paused", ok)
        /\ UNCHANGED <<alive, status, prompting, deleting, reviveMu, resuming, led>>
    BY <1>12 DEF PauseSession, At
  <2>3. /\ state' \in SessionState /\ state' = logState' /\ used' = used /\ (open' => open)
        /\ state' # state => "paused" \in sessionTransitions[state]
    BY <1>0, <2>2, TransitionProjects DEF Projection
  <2>4. state \in {"ready", "idle"} => "paused" \notin sessionTransitions[state]
    BY DEF sessionTransitions, SessionState
  <2> QED BY <1>1, <2>1, <2>2, <2>3, <2>4 DEF Harmless
<1>13. ASSUME NEW ok \in BOOLEAN, HoldFails(t, ok) PROVE Harmless
  <2>1. Moves
    BY <1>13 DEF HoldFails, Label
  <2>2. /\ alive /\ PublishLifecycle("revive_abandoned", ok)
        /\ UNCHANGED <<alive, state, status, prompting, deleting, reviveMu, resuming, led>>
    BY <1>13 DEF HoldFails, At
  <2>3. logState' = logState /\ used' = used /\ (open' => open)
    BY <1>0, <2>2, PublishKeepsState
  <2> QED BY <1>0, <1>1, <2>1, <2>2, <2>3 DEF Harmless, Types, Projection
<1>14. ASSUME NEW ok \in BOOLEAN, CompleteRevive(t, ok) PROVE SessionInv'
  <2>1. CASE Moves /\ Same /\ UNCHANGED status
    BY <1>2, <2>1, HarmlessInv
  <2>2. CASE Transition("running", "revived", ok) /\ pendingRevive /\ state = "paused"
    <3>1. /\ alive /\ reviveMu = Free
          /\ reviveMu' = (IF ok THEN t ELSE Free)
          /\ Goto(t, IF ok THEN "close" ELSE "pull")
          /\ UNCHANGED <<alive, status, prompting, deleting, resuming, led>>
      BY <1>14, <2>2 DEF CompleteRevive, At
    <3>2. /\ state' \in SessionState /\ state' = logState' /\ used' = used
      BY <1>0, <2>2, <3>1, TransitionProjects DEF Projection
    <3>3. \A s \in Threads : pc[s] \notin {"spend", "close"}
      BY <1>0, <3>1, SessionAssumption DEF Locked, Free
    <3>4. resuming \notin {"locked", "rearmed"}
      BY <1>0, <1>3, <3>1 DEF Locked
    <3>5. pc' = [pc EXCEPT ![t] = IF ok THEN "close" ELSE "pull"]
      BY <3>1 DEF Goto
    <3>6. Types'
      BY <1>0, <3>1, <3>2, <3>5 DEF Types, Label
    <3>7. Locked'
      BY <1>0, <3>1, <3>3, <3>4, <3>5 DEF Types, Locked
    <3>8. LedgerCurrent'
      BY <1>0, <3>1, <3>2, <3>3, <3>4, <3>5 DEF Types, LedgerCurrent
    <3>9. DownIsQuiet' /\ Projection' /\ Budget'
      BY <1>0, <3>1, <3>2 DEF DownIsQuiet, Projection, Budget
    <3>10. PromptLands'
      BY <1>0, <2>2, <3>1 DEF PromptLands, Promptable
    <3> QED BY <3>6, <3>7, <3>8, <3>9, <3>10 DEF SessionInv
  <2>3. (Moves /\ Same /\ UNCHANGED status) \/ (Transition("running", "revived", ok) /\ pendingRevive /\ state = "paused")
    BY <1>14 DEF CompleteRevive, Label
  <2> QED BY <2>1, <2>2, <2>3
<1> QED BY <1>4, <1>5, <1>6, <1>7, <1>9, <1>10, <1>11, <1>12, <1>13, <1>14, HarmlessInv DEF Revive

(* The calls of the front door (agent.go, revive.go): a prompt, a re-arm   *)
(* and a deletion against the loops of the same agent.                     *)
LEMMA FrontDoorInv ==
    ASSUME SessionInv, FrontDoor
    PROVE  SessionInv'
<1>0. Types /\ Projection /\ PromptLands /\ Locked /\ LedgerCurrent /\ DownIsQuiet /\ Budget
  BY DEF SessionInv
<1> USE DEF vars, durable, logVars, callVars, threadVars, daemonVars, bounds
<1> DEFINE Quiet == UNCHANGED <<logVars, alive, state, reviveMu, resuming, led, pc>>
<1>1. Quiet /\ (UNCHANGED <<status, prompting, deleting>> \/ ~prompting' \/ (prompting' = prompting /\ deleting' # "no"))
        => Harmless
  BY <1>0 DEF Harmless, Types, Projection
<1>2. CASE CreateReady \/ PromptReplyLost \/ Command \/ Delete
  <2>1. Quiet /\ ~prompting'
    BY <1>2 DEF CreateReady, PromptReplyLost, Command, Delete
  <2>2. Harmless
    BY <1>0, <2>1 DEF Harmless, Types, Projection
  <2> QED BY <2>2, HarmlessInv
<1>3. CASE DeleteClose
  <2>1. Quiet /\ prompting' = prompting /\ deleting' # "no"
    BY <1>3 DEF DeleteClose
  <2> QED BY <1>1, <2>1, HarmlessInv
<1>4. CASE Prompt
  <2>1. Quiet /\ UNCHANGED <<status, deleting>> /\ alive /\ Promptable
    BY <1>4 DEF Prompt
  <2>2. Types' /\ Locked' /\ LedgerCurrent'
    BY <1>0, <2>1 DEF Types, Locked, LedgerCurrent
  <2>3. DownIsQuiet' /\ Projection' /\ Budget' /\ PromptLands'
    BY <1>0, <2>1 DEF DownIsQuiet, Projection, Budget, PromptLands, Promptable
  <2> QED BY <2>2, <2>3 DEF SessionInv
<1>5. CASE Resume
  <2>1. /\ alive /\ reviveMu = Free /\ reviveMu' = Resumer /\ resuming' = "locked"
        /\ "store" \notin Faults => ~open
        /\ UNCHANGED <<logVars, alive, state, status, prompting, deleting, led, pc>>
    BY <1>5, Zenon DEF Resume, Readable
  <2>2. \A s \in Threads : pc[s] \notin {"spend", "close"}
    BY <1>0, <2>1, SessionAssumption DEF Locked, Free
  <2>3. Types' /\ Locked' /\ LedgerCurrent'
    BY <1>0, <2>1, <2>2 DEF Types, Locked, LedgerCurrent
  <2>4. DownIsQuiet' /\ Projection' /\ Budget' /\ PromptLands'
    BY <1>0, <2>1 DEF DownIsQuiet, Projection, Budget, PromptLands, Promptable
  <2> QED BY <2>3, <2>4 DEF SessionInv
<1>6. ASSUME NEW ok \in BOOLEAN, CreateStarted(ok) PROVE Harmless
  <2>1. /\ alive /\ Transition("ready", "started", ok)
        /\ UNCHANGED <<alive, prompting, reviveMu, resuming, led, pc>>
        /\ UNCHANGED <<status, deleting>> \/ ~prompting
    BY <1>6 DEF CreateStarted
  <2>2. /\ state' \in SessionState /\ state' = logState' /\ used' = used /\ (open' => open)
        /\ state' # state => "ready" \in sessionTransitions[state]
    BY <1>0, <2>1, TransitionProjects DEF Projection
  <2>3. state \in {"ready", "idle"} => "ready" \notin sessionTransitions[state]
    BY DEF sessionTransitions, SessionState
  <2> QED BY <1>0, <2>1, <2>2, <2>3 DEF Harmless, Types
<1>7. ASSUME NEW ok \in BOOLEAN, TurnStarted(ok) PROVE Harmless
  <2>1. /\ alive /\ Transition("running", "turn_started", ok) /\ ~prompting'
        /\ UNCHANGED <<alive, reviveMu, resuming, led, pc>>
    BY <1>7 DEF TurnStarted
  <2>2. state' \in SessionState /\ state' = logState' /\ used' = used /\ (open' => open)
    BY <1>0, <2>1, TransitionProjects DEF Projection
  <2> QED BY <1>0, <2>1, <2>2 DEF Harmless, Types
<1>8. ASSUME NEW ok \in BOOLEAN, PhaseError(ok) PROVE Harmless
  <2>1. /\ alive /\ ~prompting
        /\ UNCHANGED <<alive, state, prompting, reviveMu, resuming, led, pc>>
        /\ UNCHANGED logVars \/ PublishLifecycle("failed", ok)
    BY <1>8 DEF PhaseError, FailAgent
  <2>2. logState' = logState /\ used' = used /\ (open' => open)
    BY <1>0, <2>1, PublishKeepsState
  <2> QED BY <1>0, <2>1, <2>2 DEF Harmless, Types, Projection
<1>9. ASSUME NEW ok \in BOOLEAN, DeleteTransition(ok) PROVE Harmless
  <2>1. /\ alive /\ Transition("terminated", "terminated", ok) /\ deleting' # "no"
        /\ UNCHANGED <<alive, prompting, reviveMu, resuming, led, pc>>
    BY <1>9 DEF DeleteTransition
  <2>2. state' \in SessionState /\ state' = logState' /\ used' = used /\ (open' => open)
    BY <1>0, <2>1, TransitionProjects DEF Projection
  <2> QED BY <1>0, <2>1, <2>2 DEF Harmless, Types
<1>10. ASSUME NEW ok \in BOOLEAN, ResumeRearm(ok) PROVE SessionInv'
  <2>1. /\ alive /\ resuming = "locked" /\ PublishLifecycle("resumed", ok)
        /\ resuming' = (IF ok THEN "rearmed" ELSE "no")
        /\ reviveMu' = (IF ok THEN Resumer ELSE Free)
        /\ UNCHANGED <<alive, state, status, prompting, deleting, led, pc>>
    BY <1>10 DEF ResumeRearm
  <2>2. logState' = logState /\ (IF ok THEN used' = 0 ELSE used' = used)
    BY <1>0, <2>1, PublishKeepsState
  <2>3. \A s \in Threads : pc[s] \notin {"spend", "close"}
    BY <1>0, <2>1, SessionAssumption DEF Locked, Resumer
  <2>4. Types' /\ Budget'
    BY <1>0, <2>1, <2>2, SessionAssumption DEF Types, Budget
  <2>5. Locked' /\ LedgerCurrent'
    BY <2>1, <2>2, <2>3 DEF Locked, LedgerCurrent
  <2>6. DownIsQuiet' /\ Projection' /\ PromptLands'
    BY <1>0, <2>1, <2>2 DEF DownIsQuiet, Projection, PromptLands, Promptable
  <2> QED BY <2>4, <2>5, <2>6 DEF SessionInv
<1>11. ASSUME NEW ok \in BOOLEAN, ResumeConsume(ok) PROVE SessionInv'
  <2>1. /\ alive /\ resuming = "rearmed" /\ PublishLifecycle("revive_consumed", ok)
        /\ resuming' = (IF ok THEN "consumed" ELSE "no")
        /\ UNCHANGED <<alive, state, status, prompting, deleting, led, pc>>
    BY <1>11 DEF ResumeConsume
  <2>2. logState' = logState /\ used' \in {used, used + 1}
    BY <1>0, <2>1, PublishKeepsState
  <2>3. \A s \in Threads : pc[s] \notin {"spend", "close"}
    BY <1>0, <2>1, SessionAssumption DEF Locked, Resumer
  <2>4. used = 0
    BY <1>0, <2>1 DEF LedgerCurrent
  <2>5. Types' /\ Budget'
    BY <1>0, <2>1, <2>2, <2>4, SessionAssumption DEF Types, Budget
  <2>6. Locked' /\ LedgerCurrent'
    BY <2>1, <2>3 DEF Locked, LedgerCurrent
  <2>7. DownIsQuiet' /\ Projection' /\ PromptLands'
    BY <1>0, <2>1, <2>2 DEF DownIsQuiet, Projection, PromptLands, Promptable
  <2> QED BY <2>5, <2>6, <2>7 DEF SessionInv
<1>12. ASSUME NEW t \in Threads, ResumeSpawn(t) PROVE SessionInv'
  <2>1. /\ alive /\ resuming' = "no" /\ pc' = [pc EXCEPT ![t] = "hold"]
        /\ UNCHANGED <<logVars, alive, state, status, prompting, deleting, reviveMu, led>>
    BY <1>12 DEF ResumeSpawn, Goto
  <2>2. \A s \in Threads : pc'[s] \in {"spend", "close"} => pc'[s] = pc[s]
    BY <1>0, <2>1 DEF Types
  <2>3. Types'
    BY <1>0, <2>1 DEF Types, Label
  <2>4. Locked' /\ LedgerCurrent'
    BY <1>0, <2>1, <2>2 DEF Locked, LedgerCurrent
  <2>5. DownIsQuiet' /\ Projection' /\ Budget' /\ PromptLands'
    BY <1>0, <2>1 DEF DownIsQuiet, Projection, Budget, PromptLands, Promptable
  <2> QED BY <2>3, <2>4, <2>5 DEF SessionInv
<1> QED
  BY <1>2, <1>3, <1>4, <1>5, <1>6, <1>7, <1>8, <1>9, <1>10, <1>11, <1>12, HarmlessInv DEF FrontDoor

(* The sandbox, a crash and a restart (fsm.go, registry.go): what is in    *)
(* memory is gone, and replayed.                                           *)
LEMMA OutsideInv ==
    ASSUME SessionInv, Daemon \/ ControllerCrash \/ (\E t \in Threads : RebuildFromLog(t)) \/ UNCHANGED vars
    PROVE  SessionInv'
<1>0. Types /\ Projection /\ PromptLands /\ Locked /\ LedgerCurrent /\ DownIsQuiet /\ Budget
  BY DEF SessionInv
<1> USE DEF vars, durable, logVars, callVars, threadVars, daemonVars, bounds
<1>1. CASE Daemon \/ UNCHANGED vars
  <2>1. UNCHANGED <<logVars, alive, state, status, prompting, deleting, reviveMu, resuming, led, pc>>
    BY <1>1 DEF Daemon, PiSettles, PiExits, DaemonDies, DaemonBoots, ctrlVars
  <2>2. Harmless
    BY <1>0, <2>1 DEF Harmless, Types, Projection
  <2> QED BY <2>2, HarmlessInv
<1>2. CASE ControllerCrash
  <2>1. /\ alive' = FALSE /\ prompting' = FALSE /\ resuming' = "no"
        /\ pc' = [t \in Threads |-> "off"] /\ led' = [t \in Threads |-> 0]
        /\ UNCHANGED <<logVars, state>>
    BY <1>2 DEF ControllerCrash
  <2>2. Types'
    BY <1>0, <2>1 DEF Types, Label
  <2>3. Locked' /\ LedgerCurrent'
    BY <2>1 DEF Locked, LedgerCurrent
  <2>4. DownIsQuiet' /\ Projection' /\ Budget' /\ PromptLands'
    BY <1>0, <2>1 DEF DownIsQuiet, Projection, Budget, PromptLands
  <2> QED BY <2>2, <2>3, <2>4 DEF SessionInv
<1>3. ASSUME NEW t \in Threads, RebuildFromLog(t) PROVE SessionInv'
  <2>1. /\ ~prompting /\ ~prompting' /\ state' = logState
        /\ pc' = [pc EXCEPT ![t] = IF logState = "paused" THEN "replay" ELSE "note"]
        /\ UNCHANGED <<logVars, deleting, reviveMu, resuming, led>>
    BY <1>0, <1>3 DEF RebuildFromLog, Goto, DownIsQuiet
  <2>2. \A s \in Threads : pc'[s] \in {"spend", "close"} => pc'[s] = pc[s]
    BY <1>0, <2>1 DEF Types
  <2>3. Types'
    BY <1>0, <2>1 DEF Types, Label
  <2>4. Locked' /\ LedgerCurrent'
    BY <1>0, <2>1, <2>2 DEF Locked, LedgerCurrent
  <2>5. DownIsQuiet' /\ Projection' /\ Budget' /\ PromptLands'
    BY Zenon, <1>0, <2>1 DEF DownIsQuiet, Projection, Budget, PromptLands
  <2> QED BY <2>3, <2>4, <2>5 DEF SessionInv
<1> QED BY <1>1, <1>2, <1>3

(* A new session has no ledger, no lock holder and no prompt (agent.go).   *)
LEMMA SessionInitial == SessionInit => SessionInv
<1> SUFFICES ASSUME SessionInit PROVE SessionInv OBVIOUS
<1>1. Types
  BY DEF SessionInit, Types, Label, SessionState
<1>2. Locked /\ LedgerCurrent
  BY DEF SessionInit, Locked, LedgerCurrent
<1>3. DownIsQuiet /\ Projection /\ Budget /\ PromptLands
  BY SessionAssumption DEF SessionInit, DownIsQuiet, Projection, Budget, PromptLands
<1> QED BY <1>1, <1>2, <1>3 DEF SessionInv

(* Only the re-arm takes attempts back from the ledger (revive.go).        *)
LEMMA OnlyRearmResets ==
    ASSUME Types, Next, used' < used
    PROVE  \E ok \in BOOLEAN : ResumeRearm(ok)
<1> USE DEF durable, logVars
<1>0. used \in Nat
  BY DEF Types
<1>1. ASSUME NEW ok, NEW ev, ev # "resumed", PublishLifecycle(ev, ok) PROVE ~(used' < used)
  BY <1>0, <1>1 DEF PublishLifecycle, Log, LedgerUsed
<1>2. ASSUME NEW ok, NEW to, NEW ev, ev # "resumed", Transition(to, ev, ok) PROVE ~(used' < used)
  BY <1>0, <1>2 DEF Transition, Log, LedgerUsed
<1>3. ASSUME UNCHANGED used PROVE ~(used' < used)
  BY <1>0, <1>3
<1>4. ASSUME Daemon \/ ControllerCrash \/ \E t \in Threads : RebuildFromLog(t) PROVE UNCHANGED used
  BY <1>4 DEF Daemon, PiSettles, PiExits, DaemonDies, DaemonBoots, ctrlVars, ControllerCrash, RebuildFromLog
<1>5. ASSUME NEW t \in Threads, Loop(t) PROVE ~(used' < used)
  <2>1. CASE \E ok \in BOOLEAN : Settle(t, ok)
    BY <1>2, <2>1 DEF Settle
  <2>2. CASE \E ok \in BOOLEAN : Fail(t, ok)
    BY <1>1, <1>3, <2>2 DEF Fail, FailAgent
  <2>3. ~(\E ok \in BOOLEAN : Settle(t, ok) \/ Fail(t, ok)) => UNCHANGED used
    BY Zenon, <1>5 DEF Loop, NoteBootID, Pull, PullFails, Preflight, PreflightFails, Death, Drain, DrainFails,
             PublishPulled, PublishPulledFails, OnPiRecord, Decide, RecordDaemonBoot, Return
  <2> QED BY <1>3, <2>1, <2>2, <2>3
<1>6. ASSUME NEW t \in Threads, Revive(t) PROVE ~(used' < used)
  <2>1. CASE \E ok \in BOOLEAN : PauseSession(t, ok) \/ CloseLostTurn(t, ok)
    BY <1>2, <2>1 DEF PauseSession, CloseLostTurn
  <2>2. CASE \E ok \in BOOLEAN : ConsumeReviveAttempt(t, ok) \/ HoldFails(t, ok)
    BY <1>1, <1>3, <2>2 DEF ConsumeReviveAttempt, HoldFails
  <2>3. CASE \E ok \in BOOLEAN : CompleteRevive(t, ok)
    BY <1>2, <1>3, <2>3 DEF CompleteRevive
  <2>4. CASE ReadLedger(t) \/ Cooldown(t) \/ ReviveFromPaused(t) \/ Hold(t) \/ Arm(t) \/ MarkReady(t)
    BY <1>3, <2>4 DEF ReadLedger, Cooldown, ReviveFromPaused, Hold, Arm, MarkReady
  <2> QED BY <1>6, <2>1, <2>2, <2>3, <2>4 DEF Revive
<1>7. ASSUME FrontDoor, ~\E ok \in BOOLEAN : ResumeRearm(ok) PROVE ~(used' < used)
  <2>1. CASE \E ok \in BOOLEAN : CreateStarted(ok) \/ TurnStarted(ok) \/ DeleteTransition(ok)
    BY <1>2, <2>1 DEF CreateStarted, TurnStarted, DeleteTransition
  <2>2. CASE \E ok \in BOOLEAN : PhaseError(ok) \/ ResumeConsume(ok)
    BY <1>1, <1>3, <2>2 DEF PhaseError, FailAgent, ResumeConsume
  <2>3. CASE \/ CreateReady \/ Prompt \/ PromptReplyLost \/ Command \/ Resume \/ Delete \/ DeleteClose
             \/ \E t \in Threads : ResumeSpawn(t)
    BY <1>3, <2>3 DEF CreateReady, Prompt, PromptReplyLost, Command, Resume, Delete, DeleteClose, ResumeSpawn
  <2> QED BY <1>7, <2>1, <2>2, <2>3 DEF FrontDoor
<1> QED BY <1>3, <1>4, <1>5, <1>6, <1>7 DEF Next

-----------------------------------------------------------------------------
(* The session invariant, over every interleaving of the pull loops, the   *)
(* revive, the front door and the sandbox (puller.go, revive.go, agent.go).*)
THEOREM SessionInvariant == Spec => []SessionInv
<1>1. SessionInit => SessionInv
  BY SessionInitial
<1>2. SessionInv /\ [Next]_vars => SessionInv'
  <2> SUFFICES ASSUME SessionInv, [Next]_vars PROVE SessionInv' OBVIOUS
  <2> QED BY LoopInv, ReviveInv, FrontDoorInv, OutsideInv DEF Next
<1> QED BY <1>1, <1>2, PTL DEF Spec

(* "a restart derived by replay lands on the identical state" (fsm.go):    *)
(* the session state in memory is always the replay of the log.            *)
THEOREM SessionProjection == Spec => []Projection
<1>1. SessionInv => Projection
  BY DEF SessionInv
<1> QED BY <1>1, SessionInvariant, PTL

(* However many goroutines, restarts and re-arms spend attempts, no more   *)
(* than REVIVE_MAX are spent between two re-arms (revive.go).              *)
THEOREM SessionBudget == Spec => []Budget
<1>1. SessionInv => Budget
  BY DEF SessionInv
<1> QED BY <1>1, SessionInvariant, PTL

(* Nothing moves the session while sendPrompt waits to record the turn     *)
(* that the daemon has accepted, short of a deletion (agent.go).           *)
THEOREM SessionPromptLands == Spec => []PromptLands
<1>1. SessionInv => PromptLands
  BY DEF SessionInv
<1> QED BY <1>1, SessionInvariant, PTL

(* As long as the log can be read, no step resets the ledger while an      *)
(* attempt is open (revive.go): Resume looks under the lock that every     *)
(* spender of attempts has to take.                                        *)
THEOREM SessionRearms == Spec => RearmsClosed
<1>1. SessionInv /\ [Next]_vars => [used' < used /\ "store" \notin Faults => ~open]_vars
  <2> SUFFICES ASSUME SessionInv, Next, used' < used, "store" \notin Faults PROVE ~open
    OBVIOUS
  <2>1. Types /\ LedgerCurrent
    BY DEF SessionInv
  <2>2. PICK ok \in BOOLEAN : ResumeRearm(ok)
    BY <2>1, OnlyRearmResets
  <2> QED BY Zenon, <2>1, <2>2 DEF ResumeRearm, LedgerCurrent
<1> QED BY <1>1, SessionInvariant, PTL DEF Spec, RearmsClosed

-----------------------------------------------------------------------------
(***************************************************************************)
(* The turns of a session until its first revive, on a controller that     *)
(* stays up, with a store and a network that do not fail, for any number   *)
(* of goroutines, prompts, deaths of pi and of the daemon, aborts and      *)
(* re-arms: pi has one turn at a time, and the record that settles a turn  *)
(* is its own and ends it.                                                 *)
(*                                                                         *)
(* The invariant follows the turn: it is with pi, in the spool past the    *)
(* watermark or in the hands of the one loop that pulls, and in none of    *)
(* them when the agent is ready.                                           *)
(***************************************************************************)

Calm == Faults = {} /\ MaxCrashes = 0

USE DEF Closed

(* A loop that pulls; one that revives; one that has a record in hand.     *)
PullLabels == {"note", "pull", "preflight", "death", "drain", "batch", "record", "settle", "decide",
               "legacy", "failOff", "pause", "complete"}
ReviveLabels == {"failConsume", "consume", "spend", "hold", "arm"}
Pulling(t) == pc[t] \in PullLabels
Reviving(t) == pc[t] \in ReviveLabels
InHand(t) == pc[t] \in {"batch", "record", "settle"}

TurnTypes ==
    /\ alive /\ crashes = 0
    /\ owner \in Threads /\ batch \in [Threads -> Seq(Nat)] /\ dead \in [Threads -> BOOLEAN]
    /\ cancelled \in [Threads -> BOOLEAN] /\ seen \in [Threads -> Nat]
    /\ spool \in Seq(Nat) /\ pi \in Seq(Nat) /\ {boot, turns, acked, logTurn, logBoot} \subseteq Nat

(* A boot that is recorded is a boot that was seen; a loop that drains     *)
(* knows of a death, one that pulls does not.                              *)
SeenAt(t) ==
    /\ InHand(t) => batch[t] # <<>>
    /\ pc[t] \in {"note", "pull", "preflight", "complete", "close", "ready"} => ~dead[t]
    /\ pc[t] \in {"drain", "decide", "legacy", "arm"} \/ (InHand(t) /\ dead[t]) => seen[t] # 0

SeenBoot == boot # 0 /\ \A t \in Threads : SeenAt(t)

(* Create and Delete.                                                      *)
EndsMeet ==
    /\ creating = "registered" /\ deleting \in {"no", "marked"} => state = "provision"
    /\ deleting \notin {"no", "marked"} => state = "terminated"
    /\ state = "terminated" => deleting # "no"
    /\ Closed => ~sandbox /\ ~up /\ pi = <<>>
    /\ ~sandbox => ~up
    /\ prompting => status = "ready" /\ state \in {"ready", "idle", "terminated"}

(* One goroutine pulls, none while the session is paused, and only a       *)
(* cancelled one once Delete has begun.                                    *)
OneLoop ==
    /\ \A t \in Threads : pc[t] \notin {"close", "ready", "replay"}
    /\ \A t \in Threads : Reviving(t) => state \in {"paused", "terminated"}
    /\ resuming # "no" => state \in {"paused", "terminated"}
    /\ ~Closed =>
         /\ ~pendingRevive
         /\ \A t \in Threads : Pulling(t) => t = owner /\ state # "paused" /\ resuming = "no"
         /\ deleting # "no" => \A t \in Threads : Pulling(t) => cancelled[t]

(* The turn that is under way is with pi, in the spool or in the hands of  *)
(* the loop, and no turn is under way when the agent is ready.             *)
TurnUnderWay ==
    /\ acked <= Len(spool) /\ Len(spool) <= acked + 1
    /\ \A k \in 1..Len(spool) : spool[k] <= turns
    /\ pi # <<>> => pi = <<turns>> /\ Len(spool) = acked /\ \A t \in Threads : pc[t] \notin {"batch", "record"}
    /\ Len(spool) = acked + 1 => spool[acked + 1] = turns /\ \A t \in Threads : pc[t] # "record"
    /\ \A t \in Threads : pc[t] = "batch" => batch[t] = <<acked + 1>> /\ Len(spool) = acked + 1
    /\ \A t \in Threads : pc[t] \in {"record", "settle"} => batch[t] = <<acked>> /\ acked > 0
    /\ \A t \in Threads : pc[t] = "record" => spool[acked] = turns
    /\ status = "ready" /\ ~prompting =>
         pi = <<>> /\ Len(spool) = acked /\ \A t \in Threads : pc[t] # "record"
    /\ creating # "done" => turns = 0 /\ pi = <<>> /\ spool = <<>> /\ status \in {"creating", "failed", "terminated"}
    /\ (status = "working" \/ prompting) /\ turns \in {spool[k] : k \in 1..acked} => \E t \in Threads : pc[t] = "record"

(* What the log knows of it.                                               *)
TurnLogged ==
    /\ status = "working" => state \in {"running", "paused", "terminated"}
    /\ status = "working" /\ state # "terminated" => logTurn = turns
    /\ deleting # "no" /\ status \in {"ready", "working"} => \A t \in Threads : ~InHand(t)
    /\ creating # "done" => \A t \in Threads : ~InHand(t)
    /\ \A t \in Threads : pc[t] = "settle" =>
         /\ state \in {"running", "terminated"} /\ status # "working"
         /\ spool[Head(batch[t])] = logTurn

TurnInv ==
    /\ TurnTypes /\ SeenBoot /\ EndsMeet
    /\ logBoot = 0 => OneLoop /\ TurnLogged /\ (~Closed => TurnUnderWay)

turnVars == <<alive, crashes, owner, batch, dead, cancelled, seen, spool, pi, boot, turns, acked, logTurn, logBoot>>

(* What the spool holds past the watermark is a sequence of record numbers. *)
LEMMA UnackedTyped == ASSUME TurnTypes PROVE Unacked \in Seq(Nat) /\ (Unacked = <<>> <=> Len(spool) <= acked)
<1>1. Len(spool) \in Nat /\ acked \in Nat
  BY DEF TurnTypes
<1> DEFINE n == Len(spool) - acked
<1>2. n \in Int
  BY <1>1
<1>3. CASE n <= 0
  <2>1. 1..n = {}
    BY <1>2, <1>3
  <2>2. Unacked = <<>>
    BY <2>1 DEF Unacked
  <2> QED BY <1>1, <1>3, <2>2
<1>4. CASE n > 0
  <2>1. n \in Nat
    BY <1>2, <1>4
  <2>2. \A k \in 1..n : acked + k \in Nat
    BY <1>1, <2>1
  <2> HIDE DEF n
  <2>3. [k \in 1..n |-> acked + k] \in Seq(Nat)
    BY <2>1, <2>2
  <2>4. Unacked = [k \in 1..n |-> acked + k]
    BY DEF Unacked, n
  <2>5. Len(Unacked) = n
    BY <2>1, <2>4
  <2>6. Unacked # <<>>
    BY <1>4, <2>1, <2>5
  <2>7. ~(Len(spool) <= acked)
    BY <1>1, <1>4 DEF n
  <2> QED BY <2>3, <2>4, <2>6, <2>7
<1> QED BY <1>2, <1>3, <1>4

(* The controller stays up: it neither crashes nor comes back.             *)
LEMMA NoCrash == ASSUME Calm, TurnTypes PROVE ~ControllerCrash /\ \A t \in Threads : ~RebuildFromLog(t)
<1>1. alive /\ crashes = 0
  BY DEF TurnTypes
<1>2. MaxCrashes = 0
  BY DEF Calm
<1>3. ~(0 < 0)
  OBVIOUS
<1>4. ~(crashes < MaxCrashes)
  BY <1>1, <1>2, <1>3
<1>5. ControllerCrash => crashes < MaxCrashes
  BY DEF ControllerCrash
<1>6. \A t \in Threads : RebuildFromLog(t) => ~alive
  BY DEF RebuildFromLog
<1> QED BY <1>1, <1>4, <1>5, <1>6

(* The steps of a loop and of a revive keep the types.                     *)
LEMMA ThreadTypes ==
    ASSUME Calm, Types, TurnTypes, NEW t \in Threads, Loop(t) \/ Revive(t),
           pc[t] \in {"batch", "record", "settle"} => batch[t] # <<>>
    PROVE  TurnTypes'
<1> USE DEF durable, logVars, callVars, daemonVars, bounds
<1>1. /\ batch \in [Threads -> Seq(Nat)] /\ dead \in [Threads -> BOOLEAN] /\ seen \in [Threads -> Nat]
      /\ {boot, turns, acked, logTurn, logBoot} \subseteq Nat
  BY DEF TurnTypes
<1>2. ASSUME UNCHANGED turnVars PROVE TurnTypes'
  BY <1>2 DEF TurnTypes, turnVars
<1>3. CASE Pull(t) \/ Drain(t)
  <2>1. batch' = [batch EXCEPT ![t] = Unacked] /\ UNCHANGED <<alive, crashes, owner, dead, cancelled, seen, spool, pi,
                                                              boot, turns, acked, logTurn, logBoot>>
    BY <1>3 DEF Pull, Drain
  <2>2. batch' \in [Threads -> Seq(Nat)]
    BY <1>1, <2>1, UnackedTyped
  <2> QED BY <2>1, <2>2 DEF TurnTypes
<1>4. CASE Preflight(t) \/ Death(t) \/ Hold(t)
  <2>1. /\ dead' \in [Threads -> BOOLEAN] /\ seen' \in [Threads -> Nat]
        /\ UNCHANGED <<alive, crashes, owner, batch, cancelled, spool, pi, boot, turns, acked, logTurn, logBoot>>
    BY Zenon, <1>1, <1>4 DEF Preflight, Death, Hold
  <2> QED BY <2>1 DEF TurnTypes
<1>5. CASE PublishPulled(t)
  <2>1. batch[t] # <<>> /\ batch[t] \in Seq(Nat)
    BY Zenon, <1>1, <1>5 DEF PublishPulled, At
  <2>2. Head(batch[t]) \in Nat
    BY <2>1
  <2>3. /\ acked' \in Nat
        /\ UNCHANGED <<alive, crashes, owner, batch, dead, cancelled, seen, spool, pi, boot, turns, logTurn, logBoot>>
    BY Zenon, <1>1, <1>5, <2>2 DEF PublishPulled
  <2> QED BY <2>3 DEF TurnTypes
<1>6. CASE OnPiRecord(t) \/ PublishPulledFails(t) \/ \E ok \in BOOLEAN : Settle(t, ok)
  <2>1. /\ UNCHANGED batch \/ batch' = [batch EXCEPT ![t] = Tail(batch[t])] \/ batch' = [batch EXCEPT ![t] = <<>>]
        /\ UNCHANGED <<alive, crashes, owner, dead, cancelled, seen, spool, pi, boot, turns, acked, logTurn, logBoot>>
        /\ batch[t] # <<>>
    BY <1>6 DEF OnPiRecord, PublishPulledFails, Settle, NextRecord, At
  <2>2. batch[t] \in Seq(Nat)
    BY <1>1
  <2>3. Tail(batch[t]) \in Seq(Nat) /\ <<>> \in Seq(Nat)
    BY <2>1, <2>2
  <2>4. batch' \in [Threads -> Seq(Nat)]
    BY Zenon, <1>1, <2>1, <2>3
  <2> QED BY <2>1, <2>4 DEF TurnTypes
<1>7. CASE RecordDaemonBoot(t) \/ Arm(t)
  <2>1. /\ logBoot' \in Nat /\ dead' \in [Threads -> BOOLEAN]
        /\ UNCHANGED <<alive, crashes, owner, batch, cancelled, seen, spool, pi, boot, turns, acked, logTurn>>
    BY Zenon, <1>1, <1>7 DEF RecordDaemonBoot, Arm
  <2> QED BY <2>1 DEF TurnTypes
<1>8. CASE \/ NoteBootID(t) \/ PullFails(t) \/ PreflightFails(t) \/ DrainFails(t) \/ Decide(t) \/ Return(t)
           \/ \E ok \in BOOLEAN : Fail(t, ok)
  <2>1. UNCHANGED turnVars
    BY Zenon, <1>8 DEF NoteBootID, PullFails, PreflightFails, DrainFails, Decide, Return, Fail, turnVars
  <2> QED BY <1>2, <2>1
<1>9. CASE ReadLedger(t) \/ Cooldown(t) \/ ReviveFromPaused(t) \/ MarkReady(t)
  <2>1. UNCHANGED turnVars
    BY Zenon, <1>9 DEF ReadLedger, Cooldown, ReviveFromPaused, MarkReady, turnVars
  <2> QED BY <1>2, <2>1
<1>10. ASSUME NEW ok \in BOOLEAN, \/ PauseSession(t, ok) \/ ConsumeReviveAttempt(t, ok) \/ HoldFails(t, ok)
                                 \/ CompleteRevive(t, ok) \/ CloseLostTurn(t, ok)
       PROVE  TurnTypes'
  <2>1. UNCHANGED turnVars
    BY Zenon, <1>10 DEF PauseSession, ConsumeReviveAttempt, HoldFails, CompleteRevive, CloseLostTurn, turnVars
  <2> QED BY <1>2, <2>1
<1> QED BY Zenon, <1>3, <1>4, <1>5, <1>6, <1>7, <1>8, <1>9, <1>10 DEF Loop, Revive

(* The calls and the sandbox keep them too; a calm controller stays up.    *)
LEMMA OtherTypes ==
    ASSUME Calm, Types, TurnTypes,
           \/ FrontDoor \/ Daemon \/ ControllerCrash \/ (\E t \in Threads : RebuildFromLog(t)) \/ UNCHANGED vars
    PROVE  TurnTypes'
<1> USE DEF durable, logVars, callVars, threadVars, daemonVars, bounds, ctrlVars
<1>1. /\ alive /\ crashes = 0 /\ owner \in Threads /\ cancelled \in [Threads -> BOOLEAN] /\ dead \in [Threads -> BOOLEAN]
      /\ spool \in Seq(Nat) /\ pi \in Seq(Nat) /\ {boot, turns, acked, logTurn, logBoot} \subseteq Nat
  BY DEF TurnTypes
<1>2. ASSUME UNCHANGED turnVars PROVE TurnTypes'
  BY <1>2 DEF TurnTypes, turnVars
<1>3. CASE ControllerCrash \/ \E t \in Threads : RebuildFromLog(t)
  BY <1>3, NoCrash
<1>4. CASE Prompt \/ PromptReplyLost
  <2>1. /\ turns' = turns + 1 /\ pi' = Append(pi, turns + 1)
        /\ UNCHANGED <<alive, crashes, owner, batch, dead, cancelled, seen, spool, boot, acked, logTurn, logBoot>>
    BY <1>4 DEF Prompt, PromptReplyLost
  <2>2. turns' \in Nat /\ pi' \in Seq(Nat)
    BY <1>1, <2>1
  <2> QED BY <2>1, <2>2 DEF TurnTypes
<1>5. CASE \E ok \in BOOLEAN : TurnStarted(ok)
  <2>1. /\ logTurn' \in Nat
        /\ UNCHANGED <<alive, crashes, owner, batch, dead, cancelled, seen, spool, pi, boot, turns, acked, logBoot>>
    BY Zenon, <1>1, <1>5 DEF TurnStarted
  <2> QED BY <2>1 DEF TurnTypes
<1>6. CASE Delete \/ DeleteClose \/ \E ok \in BOOLEAN : CreateStarted(ok)
  <2>1. /\ UNCHANGED cancelled \/ cancelled' = [cancelled EXCEPT ![owner] = TRUE]
        /\ UNCHANGED pi \/ pi' = <<>>
        /\ UNCHANGED <<alive, crashes, owner, batch, dead, seen, spool, boot, turns, acked, logTurn, logBoot>>
    BY <1>6 DEF Delete, DeleteClose, CreateStarted, CancelOwner, DeleteSandbox
  <2>2. cancelled' \in [Threads -> BOOLEAN]
    BY Zenon, <1>1, <2>1
  <2>3. pi' \in Seq(Nat)
    <3>1. <<>> \in Seq(Nat)
      OBVIOUS
    <3> QED BY Zenon, <1>1, <2>1, <3>1
  <2> QED BY Zenon, <2>1, <2>2, <2>3 DEF TurnTypes
<1>7. ASSUME NEW t \in Threads, ResumeSpawn(t) PROVE TurnTypes'
  <2>1. /\ cancelled' = [cancelled EXCEPT ![owner] = TRUE, ![t] = FALSE] /\ owner' = t
        /\ dead' = [dead EXCEPT ![t] = FALSE]
        /\ UNCHANGED <<alive, crashes, batch, seen, spool, pi, boot, turns, acked, logTurn, logBoot>>
    BY <1>7 DEF ResumeSpawn
  <2>2. cancelled' \in [Threads -> BOOLEAN] /\ dead' \in [Threads -> BOOLEAN]
    BY Zenon, <1>1, <2>1
  <2> QED BY Zenon, <2>1, <2>2 DEF TurnTypes
<1>8. CASE \/ CreateReady \/ Command \/ Resume
           \/ \E ok \in BOOLEAN : PhaseError(ok) \/ ResumeRearm(ok) \/ ResumeConsume(ok) \/ DeleteTransition(ok)
  <2>1. UNCHANGED turnVars
    BY <1>8 DEF CreateReady, Command, Resume, PhaseError, ResumeRearm, ResumeConsume, DeleteTransition, turnVars
  <2> QED BY <1>2, <2>1
<1>9. CASE Daemon
  <2>1. /\ \/ up /\ pi # <<>> /\ spool' = Append(spool, Head(pi)) /\ pi' = Tail(pi) /\ boot' = boot
           \/ spool' = spool /\ pi' = <<>> /\ boot' = boot
           \/ spool' = spool /\ pi' = pi /\ boot' = boot + 1
        /\ UNCHANGED <<alive, crashes, owner, batch, dead, cancelled, seen, turns, acked, logTurn, logBoot>>
    BY <1>9 DEF Daemon, PiSettles, PiExits, DaemonDies, DaemonBoots
  <2>2. <<>> \in Seq(Nat) /\ (pi # <<>> => Head(pi) \in Nat /\ Tail(pi) \in Seq(Nat))
    BY <1>1
  <2>4. pi # <<>> => Append(spool, Head(pi)) \in Seq(Nat)
    BY <1>1, <2>2
  <2>5. spool' \in Seq(Nat)
    BY Zenon, <1>1, <2>1, <2>4
  <2>6. pi' \in Seq(Nat)
    BY Zenon, <1>1, <2>1, <2>2
  <2>7. boot + 1 \in Nat
    BY <1>1
  <2>3. spool' \in Seq(Nat) /\ pi' \in Seq(Nat) /\ boot' \in Nat
    BY Zenon, <1>1, <2>1, <2>5, <2>6, <2>7
  <2> QED BY Zenon, <2>1, <2>3 DEF TurnTypes
<1>10. CASE UNCHANGED vars
  BY <1>2, <1>10 DEF vars, turnVars
<1> QED BY <1>3, <1>4, <1>5, <1>6, <1>7, <1>8, <1>9, <1>10 DEF FrontDoor

(* What a thread knows of the sandbox's deaths changes by its own steps.   *)
LEMMA SeenKept ==
    ASSUME Calm, Types, TurnTypes, SeenBoot, Next \/ UNCHANGED vars
    PROVE  SeenBoot'
<1> USE DEF durable, logVars, callVars, threadVars, daemonVars, bounds, ctrlVars
<1>1. /\ batch \in [Threads -> Seq(Nat)] /\ dead \in [Threads -> BOOLEAN] /\ seen \in [Threads -> Nat]
      /\ pc \in [Threads -> Label] /\ boot \in Nat /\ boot # 0 /\ \A s \in Threads : SeenAt(s)
  BY DEF TurnTypes, Types, SeenBoot
<1>2. ASSUME NEW s \in Threads, pc'[s] = pc[s], batch'[s] = batch[s], dead'[s] = dead[s], seen'[s] = seen[s]
      PROVE  SeenAt(s)'
  BY <1>1, <1>2 DEF SeenAt, InHand
<1>3. ASSUME UNCHANGED <<pc, batch, dead, seen>>, boot' = boot \/ boot' = boot + 1 PROVE SeenBoot'
  <2>1. boot' # 0
    BY <1>1, <1>3
  <2> QED BY <1>2, <1>3, <2>1 DEF SeenBoot
<1>4. ASSUME NEW t \in Threads, NEW l, Goto(t, l), UNCHANGED boot, SeenAt(t)',
             \A s \in Threads \ {t} : batch'[s] = batch[s] /\ dead'[s] = dead[s] /\ seen'[s] = seen[s]
      PROVE  SeenBoot'
  <2>1. \A s \in Threads \ {t} : pc'[s] = pc[s]
    BY <1>1, <1>4 DEF Goto
  <2>2. \A s \in Threads : SeenAt(s)'
    BY <1>2, <1>4, <2>1
  <2> QED BY <1>1, <1>4, <2>2 DEF SeenBoot
<1>5. ASSUME NEW t \in Threads, NEW l, Goto(t, l) PROVE pc'[t] = l
  BY <1>1, <1>5 DEF Goto
<1>6. ASSUME NEW t \in Threads, NEW l, Goto(t, l), UNCHANGED <<boot, batch, dead, seen>>,
             \/ l \in {"off", "death", "failOff", "pause", "failConsume", "consume", "spend", "replay", "hold"}
             \/ l \in {"pull", "preflight", "complete", "close", "ready"} /\ ~dead[t]
             \/ l \in {"decide", "legacy"} /\ seen[t] # 0
             \/ l \in {"record", "settle"} /\ InHand(t)
      PROVE  SeenBoot'
  <2>1. pc'[t] = l
    BY <1>5, <1>6
  <2>2. SeenAt(t)
    BY <1>1
  <2>3. SeenAt(t)'
    BY <1>6, <2>1, <2>2 DEF SeenAt, InHand
  <2> QED BY <1>4, <1>6, <2>3
<1>7. ASSUME NEW t \in Threads, Loop(t) PROVE SeenBoot'
  <2>0. SeenAt(t)
    BY <1>1
  <2>1. CASE NoteBootID(t) \/ PullFails(t) \/ PreflightFails(t) \/ DrainFails(t) \/ Decide(t) \/ Return(t)
    <3>1. CASE NoteBootID(t)
      BY <1>6, <2>0, <3>1 DEF NoteBootID, At, SeenAt
    <3>2. CASE PullFails(t) \/ PreflightFails(t)
      BY <1>6, <2>0, <3>2 DEF PullFails, PreflightFails, At, SeenAt
    <3>3. CASE DrainFails(t) \/ Return(t)
      BY <1>6, <3>3 DEF DrainFails, Return
    <3>4. CASE Decide(t)
      BY Zenon, <1>6, <2>0, <3>4 DEF Decide, At, SeenAt
    <3> QED BY <2>1, <3>1, <3>2, <3>3, <3>4
  <2>2. CASE Pull(t) \/ Drain(t)
    <3> DEFINE l == IF Unacked = <<>> THEN (IF Pull(t) THEN "complete" ELSE "decide") ELSE "batch"
    <3>1. /\ batch' = [batch EXCEPT ![t] = Unacked] /\ UNCHANGED <<boot, dead, seen>>
          /\ Goto(t, l)
          /\ Pull(t) => ~dead[t]
          /\ Drain(t) => seen[t] # 0
      BY Zenon, <2>0, <2>2 DEF Pull, Drain, At, SeenAt
    <3>2. pc'[t] = l /\ batch'[t] = Unacked /\ \A s \in Threads \ {t} : batch'[s] = batch[s]
      BY <1>1, <1>5, <3>1
    <3>3. SeenAt(t)'
      BY <2>2, <3>1, <3>2 DEF SeenAt, InHand
    <3> QED BY <1>4, <3>1, <3>2, <3>3
  <2>3. CASE Preflight(t)
    <3>1. PICK died \in BOOLEAN : /\ dead' = [dead EXCEPT ![t] = died] /\ Goto(t, IF died THEN "death" ELSE "pull")
                                 /\ UNCHANGED <<boot, batch, seen>>
      BY <2>3, Zenon DEF Preflight
    <3>2. pc'[t] = (IF died THEN "death" ELSE "pull") /\ dead'[t] = died /\ \A s \in Threads \ {t} : dead'[s] = dead[s]
      BY <1>1, <1>5, <3>1
    <3>3. SeenAt(t)'
      BY <3>1, <3>2 DEF SeenAt, InHand
    <3> QED BY <1>4, <3>1, <3>2, <3>3
  <2>4. CASE Death(t)
    <3>1. seen' = [seen EXCEPT ![t] = boot] /\ Goto(t, "drain") /\ UNCHANGED <<boot, batch, dead>>
      BY <2>4 DEF Death
    <3>2. pc'[t] = "drain" /\ seen'[t] = boot /\ \A s \in Threads \ {t} : seen'[s] = seen[s]
      BY <1>1, <1>5, <3>1
    <3>3. SeenAt(t)'
      BY <1>1, <3>1, <3>2 DEF SeenAt, InHand
    <3> QED BY <1>4, <3>1, <3>2, <3>3
  <2>5. CASE PublishPulled(t)
    BY <1>6, <2>5 DEF PublishPulled, At, InHand
  <2>6. CASE PublishPulledFails(t)
    BY <2>6 DEF PublishPulledFails, Calm
  <2>7. CASE (OnPiRecord(t) /\ status # "working") \/ \E ok \in BOOLEAN : Settle(t, ok)
    <3> DEFINE l == IF Len(batch[t]) > 1 THEN "batch" ELSE IF dead[t] THEN "drain" ELSE "complete"
    <3>1. batch' = [batch EXCEPT ![t] = Tail(batch[t])] /\ Goto(t, l) /\ UNCHANGED <<boot, dead, seen>> /\ InHand(t)
      BY <2>7 DEF OnPiRecord, Settle, NextRecord, At, InHand
    <3>2. pc'[t] = l /\ batch'[t] = Tail(batch[t]) /\ \A s \in Threads \ {t} : batch'[s] = batch[s]
      BY <1>1, <1>5, <3>1
    <3>3. batch[t] \in Seq(Nat) /\ batch[t] # <<>>
      BY <1>1, <2>0, <3>1 DEF SeenAt
    <3>4. Len(batch[t]) > 1 => Tail(batch[t]) # <<>>
      <4>1. Len(Tail(batch[t])) = Len(batch[t]) - 1 /\ Len(batch[t]) \in Nat
        BY <3>3
      <4>2. \A n \in Nat : n > 1 => n - 1 # 0
        OBVIOUS
      <4>3. Len(batch[t]) > 1 => Len(Tail(batch[t])) # 0
        BY <4>1, <4>2, Zenon
      <4>4. Len(<<>>) = 0
        OBVIOUS
      <4> QED BY <4>3, <4>4, Zenon
    <3>5. SeenAt(t)'
      BY <2>0, <3>1, <3>2, <3>4 DEF SeenAt, InHand
    <3> QED BY <1>4, <3>1, <3>2, <3>5
  <2>8. CASE OnPiRecord(t) /\ status = "working"
    BY Zenon, <1>6, <2>8 DEF OnPiRecord, At, InHand
  <2>9. CASE RecordDaemonBoot(t) \/ \E ok \in BOOLEAN : Fail(t, ok)
    BY Zenon, <1>6, <2>9 DEF RecordDaemonBoot, Fail
  <2> QED BY <1>7, <2>1, <2>2, <2>3, <2>4, <2>5, <2>6, <2>7, <2>8, <2>9 DEF Loop
<1>8. ASSUME NEW t \in Threads, Revive(t) PROVE SeenBoot'
  <2>0. SeenAt(t)
    BY <1>1
  <2>1. CASE ReadLedger(t) \/ Cooldown(t) \/ ReviveFromPaused(t)
    BY Zenon, <1>6, <2>1 DEF ReadLedger, Cooldown, ReviveFromPaused
  <2>2. CASE Hold(t)
    <3>1. seen' = [seen EXCEPT ![t] = boot] /\ Goto(t, "arm") /\ UNCHANGED <<boot, batch, dead>>
      BY <2>2 DEF Hold
    <3>2. pc'[t] = "arm" /\ seen'[t] = boot /\ \A s \in Threads \ {t} : seen'[s] = seen[s]
      BY <1>1, <1>5, <3>1
    <3>3. SeenAt(t)'
      BY <1>1, <3>1, <3>2 DEF SeenAt, InHand
    <3> QED BY Zenon, <1>4, <3>1, <3>2, <3>3
  <2>3. CASE Arm(t)
    <3>1. dead' = [dead EXCEPT ![t] = FALSE] /\ Goto(t, "pull") /\ UNCHANGED <<boot, batch, seen>>
      BY <2>3 DEF Arm
    <3>2. pc'[t] = "pull" /\ dead'[t] = FALSE /\ \A s \in Threads \ {t} : dead'[s] = dead[s]
      BY <1>1, <1>5, <3>1
    <3>3. SeenAt(t)'
      BY <3>1, <3>2 DEF SeenAt, InHand
    <3> QED BY Zenon, <1>4, <3>1, <3>2, <3>3
  <2>4. CASE MarkReady(t)
    BY Zenon, <1>6, <2>0, <2>4 DEF MarkReady, At, SeenAt
  <2>5. ASSUME NEW ok \in BOOLEAN, PauseSession(t, ok) \/ ConsumeReviveAttempt(t, ok) \/ HoldFails(t, ok) \/ CloseLostTurn(t, ok)
        PROVE  SeenBoot'
    <3>1. UNCHANGED <<boot, batch, dead, seen>>
      BY <2>5 DEF PauseSession, ConsumeReviveAttempt, HoldFails, CloseLostTurn
    <3>2. Goto(t, "off") \/ Goto(t, "failConsume") \/ Goto(t, "hold") \/ (Goto(t, "ready") /\ ~dead[t])
      BY Zenon, <2>0, <2>5 DEF PauseSession, ConsumeReviveAttempt, HoldFails, CloseLostTurn, At, SeenAt
    <3> QED BY <1>6, <3>1, <3>2
  <2>6. ASSUME NEW ok \in BOOLEAN, CompleteRevive(t, ok) PROVE SeenBoot'
    BY Zenon, <1>6, <2>0, <2>6 DEF CompleteRevive, At, SeenAt
  <2> QED BY <1>8, <2>1, <2>2, <2>3, <2>4, <2>5, <2>6 DEF Revive
<1>9. CASE FrontDoor
  <2>1. ASSUME NEW t \in Threads, ResumeSpawn(t) PROVE SeenBoot'
    <3>1. dead' = [dead EXCEPT ![t] = FALSE] /\ Goto(t, "hold") /\ UNCHANGED <<boot, batch, seen>>
      BY <2>1 DEF ResumeSpawn
    <3>2. pc'[t] = "hold" /\ \A s \in Threads \ {t} : dead'[s] = dead[s]
      BY <1>1, <1>5, <3>1
    <3>3. SeenAt(t)'
      BY <3>1, <3>2 DEF SeenAt, InHand
    <3> QED BY Zenon, <1>4, <3>1, <3>2, <3>3
  <2>2. CASE CreateReady \/ Prompt \/ PromptReplyLost \/ Command \/ Resume \/ Delete \/ DeleteClose
    BY <1>3, <2>2 DEF CreateReady, Prompt, PromptReplyLost, Command, Resume, Delete, DeleteClose
  <2>3. ASSUME NEW ok \in BOOLEAN, \/ CreateStarted(ok) \/ TurnStarted(ok) \/ PhaseError(ok)
                                  \/ ResumeRearm(ok) \/ ResumeConsume(ok) \/ DeleteTransition(ok)
        PROVE  SeenBoot'
    BY <1>3, <2>3 DEF CreateStarted, TurnStarted, PhaseError, ResumeRearm, ResumeConsume, DeleteTransition
  <2> QED BY <1>9, <2>1, <2>2, <2>3 DEF FrontDoor
<1>10. CASE Daemon \/ UNCHANGED vars
  BY <1>3, <1>10 DEF Daemon, PiSettles, PiExits, DaemonDies, DaemonBoots, vars
<1>11. ~ControllerCrash /\ \A t \in Threads : ~RebuildFromLog(t)
  BY NoCrash
<1> QED BY <1>7, <1>8, <1>9, <1>10, <1>11 DEF Next

(* A transition that has its edge is made, unless the hub is closed (fsm.go). *)
LEMMA CalmTransition ==
    ASSUME Calm, NEW to, NEW ev, NEW ok \in BOOLEAN, Transition(to, ev, ok)
    PROVE  /\ ok => to \in sessionTransitions[state] /\ state' = to /\ ~Closed
           /\ ~ok => state' = state /\ (to \notin sessionTransitions[state] \/ Closed)
<1>1. Stored = IF Closed THEN {FALSE} ELSE {TRUE}
  BY DEF Stored, Calm
<1>2. ok \in IF to \in sessionTransitions[state] THEN Stored ELSE {FALSE}
  BY Zenon DEF Transition
<1>3. state' = IF ok THEN to ELSE state
  BY DEF Transition
<1> QED BY Zenon, <1>1, <1>2, <1>3

(* Where a session can go from (fsm.go).                                   *)
LEMMA Edges ==
    /\ sessionTransitions["provision"] = {"ready", "terminated"}
    /\ sessionTransitions["terminated"] = {}
    /\ \A s \in SessionState :
         /\ "ready" \in sessionTransitions[s] => s \in {"provision", "reviving"}
         /\ "idle" \in sessionTransitions[s] => s = "running"
         /\ "paused" \in sessionTransitions[s] => s = "running"
         /\ "running" \in sessionTransitions[s] <=> s \in {"ready", "idle", "paused"}
         /\ "terminated" \in sessionTransitions[s] <=> s # "terminated"
  BY DEF sessionTransitions, SessionState

(* The transitions the code asks for, and where they start.                *)
LEMMA Settled ==
    ASSUME Calm, state \in SessionState, NEW ok \in BOOLEAN, Transition("idle", "settled", ok)
    PROVE  (ok /\ state = "running" /\ state' = "idle" /\ ~Closed) \/ (~ok /\ state' = state)
<1>1. "idle" \in sessionTransitions[state] => state = "running"
  BY Edges
<1>2. /\ ok => "idle" \in sessionTransitions[state] /\ state' = "idle" /\ ~Closed
      /\ ~ok => state' = state
  BY CalmTransition
<1> QED BY <1>1, <1>2

(* Create's transition.                                                    *)
LEMMA Readied ==
    ASSUME Calm, state = "provision", ~Closed, NEW ok \in BOOLEAN, Transition("ready", "started", ok)
    PROVE  ok /\ state' = "ready"
<1>1. "ready" \in sessionTransitions[state]
  BY Edges
<1>2. /\ ok => state' = "ready"
      /\ ~ok => "ready" \notin sessionTransitions[state] \/ Closed
  BY CalmTransition
<1> QED BY <1>1, <1>2

(* It fails once Delete has ended the session.                             *)
LEMMA Unreadied ==
    ASSUME Calm, state = "terminated", NEW ok \in BOOLEAN, Transition("ready", "started", ok)
    PROVE  ~ok /\ state' = state
<1>1. "ready" \notin sessionTransitions[state]
  BY Edges
<1>2. /\ ok => "ready" \in sessionTransitions[state]
      /\ ~ok => state' = state
  BY CalmTransition
<1> QED BY <1>1, <1>2

(* PauseSession's transition.                                              *)
LEMMA Paused ==
    ASSUME Calm, state \in SessionState, NEW ok \in BOOLEAN, Transition("paused", "paused", ok)
    PROVE  (ok /\ state = "running" /\ state' = "paused" /\ ~Closed) \/ (~ok /\ state' = state)
<1>1. "paused" \in sessionTransitions[state] => state = "running"
  BY Edges
<1>2. /\ ok => "paused" \in sessionTransitions[state] /\ state' = "paused" /\ ~Closed
      /\ ~ok => state' = state
  BY CalmTransition
<1> QED BY <1>1, <1>2

(* The transition of a prompt.                                             *)
LEMMA Started ==
    ASSUME Calm, state \in SessionState, NEW ok \in BOOLEAN, Transition("running", "turn_started", ok)
    PROVE  \/ ok /\ state \in {"ready", "idle", "paused"} /\ state' = "running" /\ ~Closed
           \/ ~ok /\ state' = state /\ (state \notin {"ready", "idle", "paused"} \/ Closed)
<1>1. "running" \in sessionTransitions[state] <=> state \in {"ready", "idle", "paused"}
  BY Edges
<1>2. /\ ok => "running" \in sessionTransitions[state] /\ state' = "running" /\ ~Closed
      /\ ~ok => state' = state /\ ("running" \notin sessionTransitions[state] \/ Closed)
  BY CalmTransition
<1> QED BY <1>1, <1>2

(* Delete's transition.                                                    *)
LEMMA Terminated ==
    ASSUME Calm, state \in SessionState, NEW ok \in BOOLEAN, Transition("terminated", "terminated", ok)
    PROVE  \/ ok /\ state # "terminated" /\ state' = "terminated" /\ ~Closed
           \/ ~ok /\ state' = state /\ (state = "terminated" \/ Closed)
<1>1. "terminated" \in sessionTransitions[state] <=> state # "terminated"
  BY Edges
<1>2. /\ ok => "terminated" \in sessionTransitions[state] /\ state' = "terminated" /\ ~Closed
      /\ ~ok => state' = state /\ ("terminated" \notin sessionTransitions[state] \/ Closed)
  BY CalmTransition
<1> QED BY <1>1, <1>2

(* The goroutines move a session between running, idle and paused.         *)
LEMMA ThreadMoves ==
    ASSUME Calm, Types, NEW t \in Threads, Loop(t) \/ Revive(t)
    PROVE  /\ UNCHANGED <<creating, deleting, prompting, sandbox, up, pi, spool, turns, logTurn, boot, owner, cancelled, resuming>>
           /\ status' # status => ~prompting
           /\ \/ state' = state
              \/ state = "running" /\ state' \in {"idle", "paused"}
              \/ state = "paused" /\ state' = "running" /\ pendingRevive
<1> USE DEF durable, logVars, callVars, daemonVars, bounds
<1>1. CASE \/ NoteBootID(t) \/ Pull(t) \/ PullFails(t) \/ Preflight(t) \/ PreflightFails(t) \/ Death(t) \/ Drain(t)
           \/ DrainFails(t) \/ PublishPulled(t) \/ PublishPulledFails(t) \/ Decide(t) \/ RecordDaemonBoot(t) \/ Return(t)
  BY Zenon, <1>1 DEF NoteBootID, Pull, PullFails, Preflight, PreflightFails, Death, Drain, DrainFails, PublishPulled,
              PublishPulledFails, Decide, RecordDaemonBoot, Return
<1>2. CASE OnPiRecord(t) \/ \E ok \in BOOLEAN : Fail(t, ok)
  BY <1>2 DEF OnPiRecord, Fail, FailAgent
<1>3. CASE ReadLedger(t) \/ Cooldown(t) \/ ReviveFromPaused(t) \/ Hold(t) \/ Arm(t) \/ MarkReady(t)
  BY Zenon, <1>3 DEF ReadLedger, Cooldown, ReviveFromPaused, Hold, Arm, MarkReady
<1>4. ASSUME NEW ok \in BOOLEAN, ConsumeReviveAttempt(t, ok) \/ HoldFails(t, ok)
      PROVE  UNCHANGED <<creating, deleting, prompting, sandbox, up, pi, spool, turns, logTurn, boot, owner, cancelled, resuming,
                         status, state>>
  BY <1>4 DEF ConsumeReviveAttempt, HoldFails
<1>5. ASSUME NEW ok \in BOOLEAN, Settle(t, ok) \/ PauseSession(t, ok) \/ CloseLostTurn(t, ok)
      PROVE  /\ UNCHANGED <<creating, deleting, prompting, sandbox, up, pi, spool, turns, logTurn, boot, owner, cancelled, resuming, status>>
             /\ state' = state \/ (state = "running" /\ state' \in {"idle", "paused"})
  <2>1. /\ UNCHANGED <<creating, deleting, prompting, sandbox, up, pi, spool, turns, logTurn, boot, owner, cancelled, resuming, status>>
        /\ Transition("idle", "settled", ok) \/ Transition("paused", "paused", ok)
    BY <1>5 DEF Settle, PauseSession, CloseLostTurn
  <2>2. state \in SessionState
    BY DEF Types
  <2>3. state' = state \/ (state = "running" /\ state' \in {"idle", "paused"})
    BY <2>1, <2>2, Settled, Paused
  <2> QED BY <2>1, <2>3
<1>6. ASSUME NEW ok \in BOOLEAN, CompleteRevive(t, ok)
      PROVE  /\ UNCHANGED <<creating, deleting, prompting, sandbox, up, pi, spool, turns, logTurn, boot, owner, cancelled, resuming, status>>
             /\ state' = state \/ (state = "paused" /\ state' = "running" /\ pendingRevive)
  <2>1. /\ UNCHANGED <<creating, deleting, prompting, sandbox, up, pi, spool, turns, logTurn, boot, owner, cancelled, resuming, status>>
        /\ \/ UNCHANGED state
           \/ state = "paused" /\ pendingRevive /\ Transition("running", "revived", ok)
    BY <1>6 DEF CompleteRevive
  <2> QED BY <2>1, CalmTransition
<1> QED BY <1>1, <1>2, <1>3, <1>4, <1>5, <1>6 DEF Loop, Revive

(* Create and Delete meet (agent.go).                                      *)
LEMMA EndsKept ==
    ASSUME Calm, Types, TurnTypes, EndsMeet, Next \/ UNCHANGED vars
    PROVE  EndsMeet'
<1> USE DEF durable, logVars, callVars, threadVars, daemonVars, bounds, ctrlVars
<1>0. state \in SessionState /\ alive /\ crashes = 0
  BY DEF Types, TurnTypes
<1>1. ASSUME NEW t \in Threads, Loop(t) \/ Revive(t) PROVE EndsMeet'
  <2>1. /\ UNCHANGED <<creating, deleting, prompting, sandbox, up, pi>>
        /\ status' # status => ~prompting
        /\ \/ state' = state
           \/ state = "running" /\ state' \in {"idle", "paused"}
           \/ state = "paused" /\ state' = "running"
    BY <1>1, ThreadMoves
  <2> QED BY <2>1 DEF EndsMeet
<1>2. ASSUME NEW ok \in BOOLEAN, CreateStarted(ok) PROVE EndsMeet'
  <2>0. creating = "registered" /\ Transition("ready", "started", ok)
    BY <1>2 DEF CreateStarted
  <2>1. CASE deleting \in {"no", "marked"}
    <3>1. state = "provision" /\ ~Closed
      BY <2>0, <2>1 DEF EndsMeet
    <3>2. ok /\ state' = "ready"
      BY <2>0, <3>1, Readied
    <3>3. creating' = "started" /\ UNCHANGED <<status, deleting, sandbox, up, pi, prompting>>
      BY <1>2, <3>2 DEF CreateStarted
    <3>4. ~prompting
      BY <3>1 DEF EndsMeet
    <3> QED BY <2>1, <3>2, <3>3, <3>4 DEF EndsMeet
  <2>2. CASE deleting \notin {"no", "marked"}
    <3>1. state = "terminated"
      BY <2>2 DEF EndsMeet
    <3>2. ~ok /\ state' = state
      BY <2>0, <3>1, Unreadied
    <3>3. /\ creating' = "done" /\ ~prompting' /\ deleting' \in {"closing", "closed"}
          /\ ~sandbox' /\ ~up' /\ pi' = <<>>
      BY <1>2, <3>2 DEF CreateStarted, DeleteSandbox, Calm
    <3> QED BY <3>1, <3>2, <3>3 DEF EndsMeet
  <2> QED BY <2>1, <2>2
<1>3. CASE CreateReady
  <2>1. creating' = "done" /\ ~prompting /\ UNCHANGED <<state, deleting, prompting, sandbox, up, pi>>
    BY <1>3 DEF CreateReady
  <2> QED BY <2>1 DEF EndsMeet
<1>4. CASE Prompt \/ PromptReplyLost
  <2>1. Prompt
    BY <1>4 DEF PromptReplyLost, Calm
  <2>2. Promptable /\ up /\ prompting' = TRUE /\ UNCHANGED <<state, status, creating, deleting, sandbox, up>>
    BY <2>1 DEF Prompt
  <2> QED BY <2>2 DEF EndsMeet, Promptable
<1>5. ASSUME NEW ok \in BOOLEAN, TurnStarted(ok) PROVE EndsMeet'
  <2>1. /\ prompting /\ ~prompting' /\ Transition("running", "turn_started", ok)
        /\ UNCHANGED <<creating, deleting, sandbox, up, pi>>
    BY <1>5 DEF TurnStarted
  <2>2. state' = state \/ (state' = "running" /\ state \in {"ready", "idle", "paused"})
    BY <1>0, <2>1, Started
  <2> QED BY <2>1, <2>2 DEF EndsMeet
<1>6. CASE Command \/ Resume
  <2>1. UNCHANGED <<creating, deleting, state, status, prompting, sandbox, up, pi>>
    BY <1>6 DEF Command, Resume
  <2> QED BY <2>1 DEF EndsMeet
<1>7. ASSUME NEW ok \in BOOLEAN, PhaseError(ok) \/ ResumeRearm(ok) \/ ResumeConsume(ok) PROVE EndsMeet'
  <2>1. UNCHANGED <<creating, deleting, state, prompting, sandbox, up, pi>> /\ (status' # status => ~prompting)
    BY <1>7 DEF PhaseError, FailAgent, ResumeRearm, ResumeConsume
  <2> QED BY <2>1 DEF EndsMeet
<1>8. ASSUME NEW t \in Threads, ResumeSpawn(t) PROVE EndsMeet'
  <2>1. UNCHANGED <<creating, deleting, state, status, prompting, sandbox, up, pi>>
    BY <1>8 DEF ResumeSpawn
  <2> QED BY <2>1 DEF EndsMeet
<1>9. CASE Delete
  <2>1. deleting = "no" /\ deleting' = "marked" /\ ~prompting /\ UNCHANGED <<creating, state, prompting, sandbox, up, pi>>
    BY <1>9 DEF Delete
  <2> QED BY <2>1 DEF EndsMeet
<1>10. ASSUME NEW ok \in BOOLEAN, DeleteTransition(ok) PROVE EndsMeet'
  <2>1. /\ deleting = "marked" /\ deleting' = "logged" /\ Transition("terminated", "terminated", ok)
        /\ UNCHANGED <<creating, status, prompting, sandbox, up, pi>>
    BY <1>10 DEF DeleteTransition
  <2>2. state' = "terminated"
    BY <1>0, <2>1, Terminated
  <2> QED BY <2>1, <2>2 DEF EndsMeet
<1>11. CASE DeleteClose
  <2>1. /\ deleting \in {"logged", "closing"} /\ deleting' = "closed" /\ ~sandbox' /\ ~up' /\ pi' = <<>>
        /\ UNCHANGED <<creating, state, status, prompting>>
    BY <1>11 DEF DeleteClose, DeleteSandbox, Calm
  <2> QED BY <2>1 DEF EndsMeet
<1>12. CASE Daemon
  <2>1. /\ UNCHANGED <<creating, deleting, state, status, prompting, sandbox>>
        /\ \/ up /\ (up' = up \/ up' = FALSE)
           \/ sandbox /\ UNCHANGED pi
    BY <1>12 DEF Daemon, PiSettles, PiExits, DaemonDies, DaemonBoots
  <2> QED BY <2>1 DEF EndsMeet
<1>13. CASE UNCHANGED vars
  <2>1. UNCHANGED <<creating, deleting, state, status, prompting, sandbox, up, pi>>
    BY <1>13 DEF vars
  <2> QED BY <2>1 DEF EndsMeet
<1>14. ~ControllerCrash /\ \A t \in Threads : ~RebuildFromLog(t)
  BY NoCrash
<1> QED BY <1>1, <1>2, <1>3, <1>4, <1>5, <1>6, <1>7, <1>8, <1>9, <1>10, <1>11, <1>12, <1>13, <1>14 DEF Next, FrontDoor

(* One goroutine pulls, until the first revive.                            *)
LEMMA LoopKept ==
    ASSUME Calm, Types, TurnTypes, SeenBoot, EndsMeet, OneLoop, Next \/ UNCHANGED vars, logBoot = 0, logBoot' = 0
    PROVE  OneLoop'
<1> USE DEF durable, logVars, callVars, threadVars, daemonVars, bounds, ctrlVars
<1> DEFINE others == <<owner, resuming, deleting, cancelled>>
<1>0. /\ state \in SessionState /\ pc \in [Threads -> Label] /\ alive /\ crashes = 0
      /\ cancelled \in [Threads -> BOOLEAN] /\ owner \in Threads
  BY DEF Types, TurnTypes
<1>1. ASSUME NEW t \in Threads, NEW l, Goto(t, l), l \notin {"close", "ready", "replay"}, UNCHANGED others,
             l \in PullLabels => Pulling(t), l \in ReviveLabels => Reviving(t),
             pendingRevive' => pendingRevive, state' = state \/ (state = "running" /\ state' = "idle")
      PROVE  OneLoop'
  <2>1. \A s \in Threads : pc'[s] = IF s = t THEN l ELSE pc[s]
    BY <1>0, <1>1 DEF Goto
  <2>2. \A s \in Threads : pc'[s] \notin {"close", "ready", "replay"}
    BY <1>1, <2>1 DEF OneLoop
  <2>3. \A s \in Threads : (Pulling(s)' => Pulling(s)) /\ (Reviving(s)' => Reviving(s))
    BY <1>1, <2>1 DEF Pulling, Reviving
  <2> QED BY <1>1, <2>2, <2>3 DEF OneLoop
<1>2. ASSUME NEW t \in Threads, Loop(t) PROVE OneLoop'
  <2>1. UNCHANGED others
    BY <1>2, ThreadMoves
  <2>2. CASE \/ NoteBootID(t) \/ Pull(t) \/ PullFails(t) \/ Preflight(t) \/ PreflightFails(t) \/ Death(t) \/ Drain(t)
             \/ DrainFails(t) \/ Decide(t) \/ RecordDaemonBoot(t) \/ Return(t) \/ PublishPulled(t)
    <3>1. /\ pc[t] \in {"note", "pull", "preflight", "death", "drain", "batch", "decide", "legacy", "consume"}
          /\ pc[t] = "consume" => Goto(t, "off")
      BY Zenon, <2>2 DEF NoteBootID, Pull, PullFails, Preflight, PreflightFails, Death, Drain, DrainFails,
                  Decide, RecordDaemonBoot, Return, At, PublishPulled
    <3>2. \E l \in {"off", "pull", "preflight", "death", "drain", "batch", "record", "complete", "decide", "legacy", "failOff", "pause"} :
             Goto(t, l)
      BY Zenon, <2>2 DEF NoteBootID, Pull, PullFails, Preflight, PreflightFails, Death, Drain, DrainFails,
                  Decide, RecordDaemonBoot, Return, At, PublishPulled
    <3>3. UNCHANGED <<state, pendingRevive>>
      BY Zenon, <2>2 DEF NoteBootID, Pull, PullFails, Preflight, PreflightFails, Death, Drain, DrainFails,
                  Decide, RecordDaemonBoot, Return, At, PublishPulled
    <3>4. CASE pc[t] = "consume"
      BY <1>1, <2>1, <3>1, <3>3, <3>4 DEF PullLabels, ReviveLabels
    <3>5. CASE pc[t] # "consume"
      BY <1>1, <2>1, <3>1, <3>2, <3>3, <3>5 DEF PullLabels, ReviveLabels, Pulling
    <3> QED BY <3>4, <3>5
  <2>3. CASE PublishPulledFails(t)
    BY <2>3 DEF PublishPulledFails, Calm
  <2>4. CASE OnPiRecord(t)
    <3>1. /\ pc[t] = "record" /\ UNCHANGED <<state, pendingRevive>>
          /\ \E l \in {"settle", "batch", "drain", "complete"} : Goto(t, l)
      BY Zenon, <2>4 DEF OnPiRecord, NextRecord, At
    <3> QED BY <1>1, <2>1, <3>1 DEF PullLabels, ReviveLabels, Pulling
  <2>5. ASSUME NEW ok \in BOOLEAN, Settle(t, ok) PROVE OneLoop'
    <3>1. /\ pc[t] = "settle" /\ UNCHANGED pendingRevive /\ Transition("idle", "settled", ok)
          /\ \E l \in {"batch", "drain", "complete"} : Goto(t, l)
      BY Zenon, <2>5 DEF Settle, NextRecord, At
    <3>2. state' = state \/ (state = "running" /\ state' = "idle")
      BY <1>0, <3>1, Settled
    <3> QED BY <1>1, <2>1, <3>1, <3>2 DEF PullLabels, ReviveLabels, Pulling
  <2>6. ASSUME NEW ok \in BOOLEAN, Fail(t, ok) PROVE OneLoop'
    <3>1. /\ UNCHANGED <<state, pendingRevive>>
          /\ \/ pc[t] = "failConsume" /\ Goto(t, "consume")
             \/ pc[t] = "failOff" /\ Goto(t, "off")
      BY <2>6 DEF Fail, At
    <3> QED BY <1>1, <2>1, <3>1 DEF PullLabels, ReviveLabels, Pulling, Reviving
  <2> QED BY <1>2, <2>2, <2>3, <2>4, <2>5, <2>6 DEF Loop
<1>3. ASSUME NEW t \in Threads, Revive(t) PROVE OneLoop'
  <2>1. UNCHANGED others
    BY <1>3, ThreadMoves
  <2>2. CASE ReadLedger(t) \/ Cooldown(t) \/ Hold(t) \/ \E ok \in BOOLEAN : ConsumeReviveAttempt(t, ok) \/ HoldFails(t, ok)
    <3>1. pc[t] \in ReviveLabels /\ UNCHANGED <<state, pendingRevive>>
      BY Zenon, <2>2 DEF ReadLedger, Cooldown, Hold, ConsumeReviveAttempt, HoldFails, At, ReviveLabels
    <3>2. \E l \in {"spend", "consume", "arm", "hold", "off"} : Goto(t, l)
      BY Zenon, <2>2 DEF ReadLedger, Cooldown, Hold, ConsumeReviveAttempt, HoldFails
    <3> QED BY <1>1, <2>1, <3>1, <3>2 DEF PullLabels, ReviveLabels, Reviving
  <2>3. CASE ReviveFromPaused(t) \/ MarkReady(t) \/ \E ok \in BOOLEAN : CloseLostTurn(t, ok)
    BY Zenon, <2>3 DEF ReviveFromPaused, MarkReady, CloseLostTurn, At, OneLoop
  <2>4. CASE Arm(t)
    <3>1. /\ pc[t] = "arm" /\ Goto(t, "pull") /\ UNCHANGED state
          /\ \E ok \in Stored : logBoot' = IF ok THEN seen[t] ELSE logBoot
      BY <2>4 DEF Arm, At
    <3>2. seen[t] # 0
      BY <3>1 DEF SeenBoot, SeenAt
    <3>3. Closed
      BY Zenon, <3>1, <3>2 DEF Stored, Calm
    <3>4. \A s \in Threads : pc'[s] = IF s = t THEN "pull" ELSE pc[s]
      BY <1>0, <3>1 DEF Goto
    <3> QED BY Zenon, <2>1, <3>1, <3>3, <3>4 DEF OneLoop, Reviving, ReviveLabels
  <2>5. ASSUME NEW ok \in BOOLEAN, CompleteRevive(t, ok) PROVE OneLoop'
    <3>1. ~(pendingRevive /\ state = "paused")
      BY Zenon DEF OneLoop, EndsMeet
    <3>2. pc[t] = "complete" /\ Goto(t, "pull") /\ UNCHANGED state /\ ~pendingRevive'
      BY <2>5, <3>1 DEF CompleteRevive, At
    <3> QED BY <1>1, <2>1, <3>2 DEF PullLabels, ReviveLabels, Pulling
  <2>6. ASSUME NEW ok \in BOOLEAN, PauseSession(t, ok) PROVE OneLoop'
    <3>1. /\ pc[t] = "pause" /\ UNCHANGED pendingRevive /\ Transition("paused", "paused", ok)
          /\ Goto(t, IF ok THEN "failConsume" ELSE "off")
      BY <2>6 DEF PauseSession, At
    <3>2. CASE ~ok
      <4>1. UNCHANGED state /\ Goto(t, "off")
        BY <3>1, <3>2, CalmTransition
      <4> QED BY <1>1, <2>1, <3>1, <4>1 DEF PullLabels, ReviveLabels
    <3>3. CASE ok
      <4>1. state' = "paused" /\ ~Closed /\ Goto(t, "failConsume")
        BY Zenon, <3>1, <3>3, CalmTransition
      <4>2. \A s \in Threads : pc'[s] = IF s = t THEN "failConsume" ELSE pc[s]
        BY <1>0, <4>1 DEF Goto
      <4>3. t = owner /\ \A s \in Threads : Pulling(s) => s = t
        BY <3>1, <4>1 DEF OneLoop, Pulling, PullLabels
      <4>4. \A s \in Threads : ~Pulling(s)'
        BY <4>2, <4>3 DEF Pulling, PullLabels
      <4>5. \A s \in Threads : pc'[s] \notin {"close", "ready", "replay"}
        BY <4>2 DEF OneLoop
      <4> QED BY Zenon, <2>1, <3>1, <4>1, <4>4, <4>5 DEF OneLoop
    <3> QED BY <3>2, <3>3
  <2> QED BY <1>3, <2>2, <2>3, <2>4, <2>5, <2>6 DEF Revive
<1>4. ASSUME UNCHANGED <<pc, pendingRevive, owner, cancelled, deleting>>,
             state' = state \/ (state \notin {"paused", "terminated"} /\ state' # "paused") \/ state' = "terminated",
             resuming' = resuming \/ resuming' = "no" \/ (state = "paused" /\ state' = "paused")
      PROVE  OneLoop'
  BY <1>4 DEF OneLoop, Pulling, Reviving
<1>5. ASSUME NEW ok \in BOOLEAN, CreateStarted(ok) PROVE OneLoop'
  <2>0. creating = "registered" /\ Transition("ready", "started", ok) /\ UNCHANGED <<pc, pendingRevive, owner, resuming>>
    BY <1>5 DEF CreateStarted
  <2>1. CASE deleting \in {"no", "marked"}
    <3>1. state = "provision" /\ ~Closed
      BY <2>0, <2>1 DEF EndsMeet
    <3>2. ok /\ state' = "ready"
      BY <2>0, <3>1, Readied
    <3>3. UNCHANGED <<cancelled, deleting>>
      BY <1>5, <3>2 DEF CreateStarted
    <3> QED BY <1>4, <2>0, <3>1, <3>2, <3>3
  <2>2. CASE deleting \notin {"no", "marked"}
    <3>1. state = "terminated"
      BY <2>2 DEF EndsMeet
    <3>2. ~ok /\ state' = state
      BY <2>0, <3>1, Unreadied
    <3>3. deleting' \in {"closing", "closed"}
      BY <1>5, <3>2 DEF CreateStarted
    <3> QED BY <2>0, <3>2, <3>3 DEF OneLoop, Reviving
  <2> QED BY <2>1, <2>2
<1>6. CASE CreateReady \/ Prompt \/ PromptReplyLost \/ Command \/ Daemon \/ UNCHANGED vars
  <2>1. UNCHANGED <<pc, pendingRevive, owner, cancelled, deleting, resuming, state>>
    BY Zenon, <1>6 DEF CreateReady, Prompt, PromptReplyLost, Command, vars, Daemon, PiSettles, PiExits, DaemonDies, DaemonBoots
  <2> QED BY <1>4, <2>1
<1>7. ASSUME NEW ok \in BOOLEAN, TurnStarted(ok) PROVE OneLoop'
  <2>1. prompting /\ Transition("running", "turn_started", ok) /\ UNCHANGED <<pc, pendingRevive, owner, cancelled, deleting, resuming>>
    BY <1>7 DEF TurnStarted
  <2>2. state' = state \/ (state \in {"ready", "idle"} /\ state' = "running")
    BY <1>0, <2>1, Started DEF EndsMeet
  <2> QED BY <1>4, <2>1, <2>2
<1>8. CASE Resume
  <2>1. state = "paused" /\ UNCHANGED <<pc, pendingRevive, owner, cancelled, deleting, state>>
    BY <1>8 DEF Resume
  <2>2. \A s \in Threads : ~Closed => ~Pulling(s)
    BY Zenon, <2>1 DEF OneLoop
  <2> QED BY Zenon, <2>1, <2>2 DEF OneLoop, Pulling, Reviving
<1>9. ASSUME NEW ok \in BOOLEAN, PhaseError(ok) \/ ResumeRearm(ok) \/ ResumeConsume(ok) PROVE OneLoop'
  <2>1. UNCHANGED <<pc, pendingRevive, owner, cancelled, deleting, state>>
    BY <1>9 DEF PhaseError, ResumeRearm, ResumeConsume
  <2>2. resuming' = resuming \/ resuming' = "no" \/ resuming # "no"
    BY <1>9 DEF PhaseError, ResumeRearm, ResumeConsume
  <2> QED BY <2>1, <2>2 DEF OneLoop, Pulling, Reviving
<1>10. ASSUME NEW t \in Threads, ResumeSpawn(t) PROVE OneLoop'
  <2>1. resuming # "no" /\ resuming' = "no" /\ Goto(t, "hold") /\ UNCHANGED <<deleting, state, pendingRevive>>
    BY <1>10 DEF ResumeSpawn
  <2>2. \A s \in Threads : pc'[s] = IF s = t THEN "hold" ELSE pc[s]
    BY <1>0, <2>1 DEF Goto
  <2>3. \A s \in Threads : ~Closed => ~Pulling(s)'
    BY Zenon, <2>1, <2>2 DEF OneLoop, Pulling, PullLabels
  <2>4. \A s \in Threads : pc'[s] \notin {"close", "ready", "replay"}
    BY Zenon, <2>2 DEF OneLoop
  <2>5. state \in {"paused", "terminated"}
    BY Zenon, <2>1 DEF OneLoop
  <2> QED BY Zenon, <2>1, <2>3, <2>4, <2>5 DEF OneLoop
<1>11. CASE Delete
  <2>1. deleting = "no" /\ deleting' = "marked" /\ cancelled' = [cancelled EXCEPT ![owner] = TRUE]
        /\ UNCHANGED <<pc, pendingRevive, owner, resuming, state>>
    BY <1>11 DEF Delete, CancelOwner
  <2>2. \A s \in Threads : Pulling(s) => cancelled'[s]
    BY <1>0, <2>1 DEF OneLoop
  <2> QED BY <2>1, <2>2 DEF OneLoop, Pulling, Reviving
<1>12. ASSUME NEW ok \in BOOLEAN, DeleteTransition(ok) PROVE OneLoop'
  <2>1. deleting = "marked" /\ deleting' = "logged" /\ Transition("terminated", "terminated", ok)
        /\ UNCHANGED <<pc, pendingRevive, owner, resuming, cancelled>>
    BY <1>12 DEF DeleteTransition
  <2>2. state' = "terminated"
    BY <1>0, <2>1, Terminated
  <2> QED BY Zenon, <2>1, <2>2 DEF OneLoop, Pulling, Reviving
<1>13. CASE DeleteClose
  <2>1. deleting' = "closed" /\ UNCHANGED <<pc, resuming, state>>
    BY <1>13 DEF DeleteClose
  <2> QED BY <2>1 DEF OneLoop, Reviving
<1>14. ~ControllerCrash /\ \A t \in Threads : ~RebuildFromLog(t)
  BY NoCrash
<1> QED BY <1>2, <1>3, <1>5, <1>6, <1>7, <1>8, <1>9, <1>10, <1>11, <1>12, <1>13, <1>14 DEF Next, FrontDoor

(* A step that moves a goroutine between labels where it has no record.    *)
QuietStep(t) ==
    /\ pc[t] \notin {"batch", "record", "settle"}
    /\ \E l \in Label \ {"batch", "record", "settle"} : Goto(t, l)
    /\ \A s \in Threads \ {t} : batch'[s] = batch[s]
    /\ UNCHANGED <<acked, status, state>>

(* A pull that brings records.                                             *)
FetchStep(t) ==
    /\ ~cancelled[t] /\ up /\ pc[t] \in {"pull", "drain"} /\ Unacked # <<>>
    /\ batch' = [batch EXCEPT ![t] = Unacked] /\ Goto(t, "batch")
    /\ UNCHANGED <<acked, status, state>>

(* What a goroutine may do, as far as turns go, until the first revive.    *)
LEMMA ThreadSteps ==
    ASSUME Calm, Types, TurnTypes, SeenBoot, EndsMeet, OneLoop, logBoot = 0, logBoot' = 0,
           NEW t \in Threads, Loop(t) \/ Revive(t)
    PROVE  \/ QuietStep(t) \/ FetchStep(t) \/ PublishPulled(t) \/ OnPiRecord(t)
           \/ \E ok \in BOOLEAN : Settle(t, ok) \/ Fail(t, ok) \/ PauseSession(t, ok)
<1> USE DEF durable, logVars, callVars, threadVars, daemonVars, bounds, ctrlVars
<1>0. batch \in [Threads -> Seq(Nat)] /\ pc \in [Threads -> Label]
  BY Zenon DEF Types, TurnTypes
<1>1. CASE \/ NoteBootID(t) \/ PullFails(t) \/ Preflight(t) \/ PreflightFails(t) \/ Death(t)
           \/ DrainFails(t) \/ Decide(t) \/ RecordDaemonBoot(t) \/ Return(t)
  <2>1. pc[t] \notin {"batch", "record", "settle"} /\ UNCHANGED <<acked, status, state, batch>>
    BY Zenon, <1>1 DEF NoteBootID, PullFails, Preflight, PreflightFails, Death, DrainFails, Decide, RecordDaemonBoot, Return, At
  <2>2. \E l \in {"pull", "preflight", "death", "drain", "pause", "legacy", "failOff", "off"} : Goto(t, l)
    BY Zenon, <1>1 DEF NoteBootID, PullFails, Preflight, PreflightFails, Death, DrainFails, Decide, RecordDaemonBoot, Return
  <2> QED BY Zenon, <2>1, <2>2 DEF QuietStep, Label
<1>2. CASE Pull(t) \/ Drain(t)
  <2>1. /\ ~cancelled[t] /\ up /\ pc[t] \in {"pull", "drain"} /\ batch' = [batch EXCEPT ![t] = Unacked]
        /\ UNCHANGED <<acked, status, state>>
        /\ Unacked # <<>> => Goto(t, "batch")
        /\ Unacked = <<>> => Goto(t, "complete") \/ Goto(t, "decide")
    BY Zenon, <1>2 DEF Pull, Drain, At
  <2>2. \A s \in Threads \ {t} : batch'[s] = batch[s]
    BY <1>0, <2>1
  <2> QED BY Zenon, <2>1, <2>2 DEF QuietStep, FetchStep, Label
<1>3. CASE ReadLedger(t) \/ Cooldown(t) \/ Hold(t) \/ Arm(t) \/ \E ok \in BOOLEAN : ConsumeReviveAttempt(t, ok) \/ HoldFails(t, ok)
  <2>1. pc[t] \notin {"batch", "record", "settle"} /\ UNCHANGED <<acked, status, state, batch>>
    BY Zenon, <1>3 DEF ReadLedger, Cooldown, Hold, Arm, ConsumeReviveAttempt, HoldFails, At
  <2>2. \E l \in {"spend", "consume", "arm", "hold", "off", "pull"} : Goto(t, l)
    BY Zenon, <1>3 DEF ReadLedger, Cooldown, Hold, Arm, ConsumeReviveAttempt, HoldFails
  <2> QED BY Zenon, <2>1, <2>2 DEF QuietStep, Label
<1>4. ASSUME NEW ok \in BOOLEAN, CompleteRevive(t, ok) PROVE QuietStep(t)
  <2>1. ~(pendingRevive /\ state = "paused")
    BY Zenon DEF OneLoop, EndsMeet
  <2>2. pc[t] = "complete" /\ Goto(t, "pull") /\ UNCHANGED <<acked, status, state, batch>>
    BY <1>4, <2>1 DEF CompleteRevive, At
  <2> QED BY <2>2 DEF QuietStep, Label
<1>5. ~ReviveFromPaused(t) /\ ~MarkReady(t) /\ \A ok \in BOOLEAN : ~CloseLostTurn(t, ok)
  BY Zenon DEF ReviveFromPaused, MarkReady, CloseLostTurn, At, OneLoop
<1>6. ~PublishPulledFails(t)
  BY Zenon DEF PublishPulledFails, Calm
<1> QED BY <1>1, <1>2, <1>3, <1>4, <1>5, <1>6 DEF Loop, Revive

(* The log knows of the turn that is under way (agent.go).                 *)
LEMMA LoggedKept ==
    ASSUME Calm, Types, TurnTypes, SeenBoot, EndsMeet, OneLoop, TurnLogged, ~Closed => TurnUnderWay,
           Next \/ UNCHANGED vars, logBoot = 0, logBoot' = 0
    PROVE  TurnLogged'
<1> USE DEF durable, logVars, callVars, threadVars, daemonVars, bounds, ctrlVars
<1>0. /\ state \in SessionState /\ pc \in [Threads -> Label] /\ alive /\ crashes = 0
      /\ batch \in [Threads -> Seq(Nat)] /\ spool \in Seq(Nat) /\ acked \in Nat
  BY DEF Types, TurnTypes
<1>1. ASSUME NEW t \in Threads, NEW l, Goto(t, l)
      PROVE  \A s \in Threads : pc'[s] = IF s = t THEN l ELSE pc[s]
  BY <1>0, <1>1 DEF Goto
<1>2. ASSUME NEW t \in Threads, Loop(t) \/ Revive(t) PROVE TurnLogged'
  <2>0. UNCHANGED <<creating, deleting, prompting, spool, turns, logTurn>>
    BY <1>2, ThreadMoves
  <2>1. ASSUME NEW l, Goto(t, l), l # "settle", l \in {"batch", "record"} => InHand(t),
               \A s \in Threads \ {t} : batch'[s] = batch[s],
               UNCHANGED status \/ status' \notin {"ready", "working"},
               \/ UNCHANGED state
               \/ /\ (state = "running" /\ state' = "paused") \/ status # "working"
                  /\ \A s \in Threads \ {t} : pc[s] # "settle"
        PROVE  TurnLogged'
    <3>1. \A s \in Threads : pc'[s] = IF s = t THEN l ELSE pc[s]
      BY <1>1, <2>1
    <3>2. \A s \in Threads : InHand(s)' => InHand(s)
      BY <2>1, <3>1 DEF InHand
    <3>3. \A s \in Threads : pc'[s] = "settle" => s # t /\ pc[s] = "settle" /\ batch'[s] = batch[s]
      BY <2>1, <3>1
    <3>4. (status' = "working" => state' \in {"running", "paused", "terminated"})
      BY <2>1 DEF TurnLogged
    <3>5. \A s \in Threads : pc'[s] = "settle" =>
             state' \in {"running", "terminated"} /\ status' # "working" /\ spool'[Head(batch'[s])] = logTurn'
      BY <2>0, <2>1, <3>3 DEF TurnLogged
    <3> QED BY <2>0, <2>1, <3>2, <3>4, <3>5 DEF TurnLogged
  <2>2. CASE QuietStep(t)
    <3>1. PICK l \in Label \ {"batch", "record", "settle"} : Goto(t, l)
      BY Zenon, <2>2 DEF QuietStep
    <3> QED BY <2>1, <2>2, <3>1 DEF QuietStep
  <2>3. CASE FetchStep(t)
    <3>1. Pulling(t) /\ ~cancelled[t] /\ up /\ Unacked # <<>>
      BY <2>3 DEF FetchStep, Pulling, PullLabels
    <3>2. ~Closed
      BY <3>1 DEF EndsMeet
    <3>3. deleting = "no"
      BY <3>1, <3>2 DEF OneLoop
    <3>4. creating = "done"
      <4>1. ~(Len(spool) <= acked)
        BY <3>1, UnackedTyped
      <4>2. SUFFICES ASSUME spool = <<>> PROVE FALSE
        BY <3>2 DEF TurnUnderWay
      <4>3. Len(spool) = 0
        BY <4>2
      <4> QED BY <1>0, <4>1, <4>3
    <3>5. \A s \in Threads : pc'[s] = IF s = t THEN "batch" ELSE pc[s]
      BY <1>1, <2>3 DEF FetchStep
    <3>6. \A s \in Threads \ {t} : batch'[s] = batch[s]
      BY <1>0, <2>3 DEF FetchStep
    <3>7. UNCHANGED <<state, status>>
      BY <2>3 DEF FetchStep
    <3>8. \A s \in Threads : pc'[s] = "settle" => s # t /\ pc[s] = "settle" /\ batch'[s] = batch[s]
      BY <3>5, <3>6
    <3>9. \A s \in Threads : pc'[s] = "settle" =>
             state' \in {"running", "terminated"} /\ status' # "working" /\ spool'[Head(batch'[s])] = logTurn'
      BY <2>0, <3>7, <3>8 DEF TurnLogged
    <3> QED BY Zenon, <2>0, <3>3, <3>4, <3>7, <3>9 DEF TurnLogged
  <2>4. CASE PublishPulled(t)
    <3>1. pc[t] = "batch" /\ Goto(t, "record") /\ UNCHANGED <<state, status, batch>>
      BY <2>4 DEF PublishPulled, At
    <3> QED BY <2>1, <3>1 DEF InHand
  <2>5. CASE OnPiRecord(t) /\ status # "working"
    <3>1. /\ pc[t] = "record" /\ batch' = [batch EXCEPT ![t] = Tail(batch[t])] /\ UNCHANGED <<state, status>>
          /\ \E l \in {"batch", "drain", "complete"} : Goto(t, l)
      BY <2>5 DEF OnPiRecord, NextRecord, At
    <3>2. \A s \in Threads \ {t} : batch'[s] = batch[s]
      BY <1>0, <3>1
    <3> QED BY <2>1, <3>1, <3>2 DEF InHand
  <2>6. CASE OnPiRecord(t) /\ status = "working"
    <3>1. pc[t] = "record" /\ status' = "ready" /\ Goto(t, "settle") /\ UNCHANGED <<state, batch>>
      BY <2>6 DEF OnPiRecord, At
    <3>2. InHand(t) /\ Pulling(t)
      BY <3>1 DEF InHand, Pulling, PullLabels
    <3>3. deleting = "no" /\ creating = "done"
      BY <2>6, <3>2 DEF TurnLogged
    <3>4. t = owner /\ state # "paused" /\ \A s \in Threads : Pulling(s) => s = t
      BY <3>2, <3>3 DEF OneLoop
    <3>5. state \in {"running", "terminated"} /\ logTurn = turns
      BY <2>6, <3>3, <3>4 DEF TurnLogged, EndsMeet
    <3>6. batch[t] = <<acked>> /\ spool[acked] = turns
      BY Zenon, <3>1, <3>3 DEF TurnUnderWay
    <3>7. spool[Head(batch[t])] = logTurn
      BY <1>0, <3>5, <3>6
    <3>8. \A s \in Threads : pc'[s] = IF s = t THEN "settle" ELSE pc[s]
      BY Zenon, <1>1, <3>1
    <3>9. \A s \in Threads : pc'[s] = "settle" => s = t
      BY <3>4, <3>8 DEF Pulling, PullLabels
    <3>10. \A s \in Threads : pc'[s] = "settle" =>
             state' \in {"running", "terminated"} /\ status' # "working" /\ spool'[Head(batch'[s])] = logTurn'
      BY <2>0, <3>1, <3>5, <3>7, <3>9
    <3> QED BY Zenon, <2>0, <3>1, <3>3, <3>10 DEF TurnLogged
  <2>7. ASSUME NEW ok \in BOOLEAN, Settle(t, ok) PROVE TurnLogged'
    <3>1. /\ pc[t] = "settle" /\ batch' = [batch EXCEPT ![t] = Tail(batch[t])] /\ UNCHANGED status
          /\ Transition("idle", "settled", ok) /\ \E l \in {"batch", "drain", "complete"} : Goto(t, l)
      BY <2>7 DEF Settle, NextRecord, At
    <3>2. \A s \in Threads \ {t} : batch'[s] = batch[s]
      BY <1>0, <3>1
    <3>3. status # "working"
      BY <3>1 DEF TurnLogged
    <3>4. UNCHANGED state \/ ~Closed
      BY <3>1, CalmTransition
    <3>5. ~Closed => \A s \in Threads \ {t} : pc[s] # "settle"
      BY <3>1 DEF OneLoop, Pulling, PullLabels
    <3> QED BY <2>1, <3>1, <3>2, <3>3, <3>4, <3>5 DEF InHand
  <2>8. ASSUME NEW ok \in BOOLEAN, Fail(t, ok) PROVE TurnLogged'
    <3>1. /\ UNCHANGED <<state, batch>> /\ (UNCHANGED status \/ status' = "failed")
          /\ Goto(t, "consume") \/ Goto(t, "off")
      BY <2>8 DEF Fail, FailAgent
    <3> QED BY <2>1, <3>1
  <2>9. ASSUME NEW ok \in BOOLEAN, PauseSession(t, ok) PROVE TurnLogged'
    <3>1. /\ pc[t] = "pause" /\ UNCHANGED <<status, batch>> /\ Transition("paused", "paused", ok)
          /\ Goto(t, "failConsume") \/ Goto(t, "off")
      BY <2>9 DEF PauseSession, At
    <3>2. UNCHANGED state \/ (~Closed /\ state = "running" /\ state' = "paused")
      BY <1>0, <3>1, Paused
    <3>3. ~Closed => \A s \in Threads \ {t} : pc[s] # "settle"
      BY <3>1 DEF OneLoop, Pulling, PullLabels
    <3> QED BY <2>1, <3>1, <3>2, <3>3
  <2> QED BY <1>2, <2>2, <2>3, <2>4, <2>5, <2>6, <2>7, <2>8, <2>9, ThreadSteps
<1>3. ASSUME UNCHANGED <<pc, batch, spool, turns, logTurn>>, UNCHANGED status \/ status' \notin {"ready", "working"},
             UNCHANGED state \/ state' = "terminated", UNCHANGED deleting \/ deleting # "no" \/ status' = "terminated",
             deleting # "no" => deleting' # "no", UNCHANGED creating \/ creating = "registered"
      PROVE  TurnLogged'
  BY <1>3 DEF TurnLogged, InHand
<1>4. ASSUME NEW ok \in BOOLEAN, CreateStarted(ok) PROVE TurnLogged'
  <2>0. creating = "registered" /\ Transition("ready", "started", ok) /\ UNCHANGED <<pc, batch, spool, logTurn, turns>>
    BY <1>4 DEF CreateStarted
  <2>1. CASE deleting \in {"no", "marked"}
    <3>1. state = "provision" /\ ~Closed
      BY <2>0, <2>1 DEF EndsMeet
    <3>2. ok
      BY <2>0, <3>1, Readied
    <3>3. UNCHANGED <<status, deleting>>
      BY <1>4, <3>2 DEF CreateStarted
    <3>4. status # "working" /\ \A s \in Threads : ~InHand(s)
      BY <2>0, <3>1 DEF TurnLogged
    <3> QED BY <2>0, <3>3, <3>4 DEF TurnLogged, InHand
  <2>2. CASE deleting \notin {"no", "marked"}
    <3>1. state = "terminated"
      BY <2>2 DEF EndsMeet
    <3>2. ~ok /\ state' = state
      BY <2>0, <3>1, Unreadied
    <3>3. deleting' \in {"closing", "closed"} /\ status' = "terminated"
      BY <1>4, <3>2 DEF CreateStarted
    <3> QED BY <1>3, <2>0, <2>2, <3>2, <3>3
  <2> QED BY <2>1, <2>2
<1>5. CASE CreateReady
  <2>1. creating = "started" /\ status' = "ready" /\ UNCHANGED <<pc, deleting, batch, spool, logTurn, turns, state>>
    BY <1>5 DEF CreateReady
  <2>2. \A s \in Threads : ~InHand(s)
    BY <2>1 DEF TurnLogged
  <2> QED BY <2>1, <2>2 DEF TurnLogged, InHand
<1>6. CASE Prompt \/ PromptReplyLost
  <2>1. status = "ready" /\ UNCHANGED <<pc, status, state, deleting, creating, batch, spool, logTurn>>
    BY <1>6 DEF Prompt, PromptReplyLost, Promptable
  <2> QED BY <2>1 DEF TurnLogged, InHand
<1>7. ASSUME NEW ok \in BOOLEAN, TurnStarted(ok) PROVE TurnLogged'
  <2>1. /\ prompting /\ Transition("running", "turn_started", ok) /\ logTurn' = (IF ok THEN turns ELSE logTurn)
        /\ status' = "working" /\ UNCHANGED <<pc, deleting, creating, batch, spool, turns>>
    BY <1>7 DEF TurnStarted
  <2>2. status = "ready" /\ state \in {"ready", "idle", "terminated"}
    BY <2>1 DEF EndsMeet
  <2>3. \/ ok /\ state' = "running"
        \/ ~ok /\ state' = "terminated" /\ state = "terminated"
    BY <2>1, <2>2, Started DEF EndsMeet, SessionState
  <2>4. deleting = "no" => ok
    BY <2>3 DEF EndsMeet
  <2>5. deleting # "no" => \A s \in Threads : ~InHand(s)
    BY <2>2 DEF TurnLogged
  <2>6. \A s \in Threads : pc[s] # "settle"
    BY <2>2, <2>5 DEF TurnLogged, InHand, EndsMeet
  <2> QED BY <2>1, <2>3, <2>4, <2>5, <2>6 DEF TurnLogged, InHand
<1>8. CASE Command \/ Resume \/ Delete \/ DeleteClose \/ UNCHANGED vars
  BY Zenon, <1>3, <1>8 DEF Command, Resume, Delete, DeleteClose, vars
<1>9. ASSUME NEW ok \in BOOLEAN, PhaseError(ok) \/ ResumeRearm(ok) \/ ResumeConsume(ok) PROVE TurnLogged'
  BY <1>3, <1>9 DEF PhaseError, FailAgent, ResumeRearm, ResumeConsume
<1>10. ASSUME NEW ok \in BOOLEAN, DeleteTransition(ok) PROVE TurnLogged'
  <2>1. /\ deleting = "marked" /\ deleting' = "logged" /\ UNCHANGED <<pc, status, creating, batch, spool, logTurn, turns>>
        /\ UNCHANGED state \/ state' = "terminated"
    BY Zenon, <1>10 DEF DeleteTransition, Transition
  <2> QED BY <1>3, <2>1
<1>11. ASSUME NEW t \in Threads, ResumeSpawn(t) PROVE TurnLogged'
  <2>1. Goto(t, "hold") /\ UNCHANGED <<status, state, deleting, creating, batch, spool, logTurn, turns>>
    BY <1>11 DEF ResumeSpawn
  <2>2. \A s \in Threads : pc'[s] = IF s = t THEN "hold" ELSE pc[s]
    BY Zenon, <1>1, <2>1
  <2>3. \A s \in Threads : (InHand(s)' => InHand(s)) /\ (pc'[s] = "settle" => pc[s] = "settle")
    BY <2>2 DEF InHand
  <2> QED BY Zenon, <2>1, <2>3 DEF TurnLogged
<1>12. CASE PiExits \/ DaemonDies \/ DaemonBoots
  BY <1>3, <1>12 DEF PiExits, DaemonDies, DaemonBoots
<1>13. CASE PiSettles
  <2>1. up /\ spool' = Append(spool, Head(pi)) /\ UNCHANGED <<pc, status, state, deleting, creating, batch, logTurn, turns>>
    BY <1>13 DEF PiSettles
  <2>2. TurnUnderWay
    BY <2>1 DEF EndsMeet
  <2>3. acked <= Len(spool) /\ \A s \in Threads : pc[s] = "settle" => batch[s] = <<acked>> /\ acked > 0
    BY <2>2 DEF TurnUnderWay
  <2>4. acked > 0 => Append(spool, Head(pi))[acked] = spool[acked]
    BY <1>0, <2>3
  <2>5. Head(<<acked>>) = acked
    BY <1>0
  <2>6. \A s \in Threads : pc[s] = "settle" => spool'[Head(batch'[s])] = spool[Head(batch[s])]
    BY Zenon, <2>1, <2>3, <2>4, <2>5
  <2> QED BY Zenon, <2>1, <2>6 DEF TurnLogged, InHand
<1>14. ~ControllerCrash /\ \A t \in Threads : ~RebuildFromLog(t)
  BY NoCrash
<1> QED BY <1>2, <1>4, <1>5, <1>6, <1>7, <1>8, <1>9, <1>10, <1>11, <1>12, <1>13, <1>14 DEF Next, FrontDoor, Daemon

(* The turn that is under way is in one place (agent.go, puller.go).       *)
LEMMA UnderWayKept ==
    ASSUME Calm, Types, TurnTypes, SeenBoot, EndsMeet, OneLoop, TurnLogged, ~Closed, TurnUnderWay,
           Next \/ UNCHANGED vars, logBoot = 0, logBoot' = 0, ~Closed'
    PROVE  TurnUnderWay'
<1> USE DEF durable, logVars, callVars, threadVars, daemonVars, bounds, ctrlVars
<1>0. /\ state \in SessionState /\ pc \in [Threads -> Label] /\ alive /\ crashes = 0
      /\ batch \in [Threads -> Seq(Nat)] /\ spool \in Seq(Nat) /\ acked \in Nat /\ turns \in Nat /\ pi \in Seq(Nat)
  BY Zenon DEF Types, TurnTypes
<1>00. Len(spool) \in Nat /\ \A k \in 1..Len(spool) : spool[k] \in Nat
  BY <1>0
<1>1. ASSUME NEW t \in Threads, NEW l, Goto(t, l)
      PROVE  \A s \in Threads : pc'[s] = IF s = t THEN l ELSE pc[s]
  BY <1>0, <1>1 DEF Goto
<1>2. ASSUME UNCHANGED <<acked, spool, turns>>, pi' = pi \/ pi' = <<>>,
             \A s \in Threads : pc'[s] \in {"batch", "record", "settle"} => pc'[s] = pc[s] /\ batch'[s] = batch[s],
             status' = "ready" /\ ~prompting' => status = "ready" /\ ~prompting,
             creating' # "done" => creating # "done" /\ (UNCHANGED status \/ status' \in {"failed", "terminated"}),
             status' = "working" \/ prompting' =>
                /\ status = "working" \/ prompting
                /\ \A s \in Threads : pc[s] = "record" => pc'[s] = "record"
      PROVE  TurnUnderWay'
  <2>1. /\ acked' <= Len(spool)' /\ Len(spool)' <= acked' + 1
        /\ \A k \in 1..Len(spool)' : spool'[k] <= turns'
    BY <1>2 DEF TurnUnderWay
  <2>2. /\ pi' # <<>> => pi' = <<turns'>> /\ Len(spool)' = acked' /\ \A t \in Threads : pc'[t] \notin {"batch", "record"}
        /\ Len(spool)' = acked' + 1 => spool'[acked' + 1] = turns' /\ \A t \in Threads : pc'[t] # "record"
    BY <1>2 DEF TurnUnderWay
  <2>3. /\ \A t \in Threads : pc'[t] = "batch" => batch'[t] = <<acked' + 1>> /\ Len(spool)' = acked' + 1
        /\ \A t \in Threads : pc'[t] \in {"record", "settle"} => batch'[t] = <<acked'>> /\ acked' > 0
        /\ \A t \in Threads : pc'[t] = "record" => spool'[acked'] = turns'
    BY <1>2 DEF TurnUnderWay
  <2>4. /\ status' = "ready" /\ ~prompting' => pi' = <<>> /\ Len(spool)' = acked' /\ \A t \in Threads : pc'[t] # "record"
        /\ creating' # "done" => turns' = 0 /\ pi' = <<>> /\ spool' = <<>> /\ status' \in {"creating", "failed", "terminated"}
    BY <1>2 DEF TurnUnderWay
  <2>5. (status' = "working" \/ prompting') /\ turns' \in {spool'[k] : k \in 1..acked'} => \E t \in Threads : pc'[t] = "record"
    BY <1>2 DEF TurnUnderWay
  <2> QED BY <2>1, <2>2, <2>3, <2>4, <2>5 DEF TurnUnderWay
<1>3. ASSUME NEW t \in Threads, Loop(t) \/ Revive(t) PROVE TurnUnderWay'
  <2>0. /\ UNCHANGED <<creating, deleting, prompting, spool, turns, pi>>
        /\ status' # status => ~prompting
    BY <1>3, ThreadMoves
  <2>1. \A s \in Threads : Pulling(s) /\ Pulling(t) => s = t
    BY Zenon DEF OneLoop
  <2>2. CASE QuietStep(t)
    <3>1. PICK l \in Label \ {"batch", "record", "settle"} : Goto(t, l)
      BY Zenon, <2>2 DEF QuietStep
    <3>2. \A s \in Threads : pc'[s] = IF s = t THEN l ELSE pc[s]
      BY Zenon, <1>1, <3>1
    <3>3. UNCHANGED <<acked, status>> /\ pc[t] # "record" /\ \A s \in Threads \ {t} : batch'[s] = batch[s]
      BY Zenon, <2>2 DEF QuietStep
    <3>4. \A s \in Threads : pc'[s] \in {"batch", "record", "settle"} => pc'[s] = pc[s] /\ batch'[s] = batch[s]
      BY <3>1, <3>2, <3>3
    <3>5. \A s \in Threads : pc[s] = "record" => pc'[s] = "record"
      BY <3>2, <3>3
    <3> QED BY Zenon, <1>2, <2>0, <3>3, <3>4, <3>5
  <2>3. CASE FetchStep(t)
    <3>1. /\ pc[t] \in {"pull", "drain"} /\ Unacked # <<>> /\ batch' = [batch EXCEPT ![t] = Unacked] /\ Goto(t, "batch")
          /\ UNCHANGED <<acked, status>>
      BY <2>3 DEF FetchStep
    <3>2. Len(spool) = acked + 1
      <4>1. ~(Len(spool) <= acked)
        BY <3>1, UnackedTyped
      <4> QED BY <1>0, <1>00, <4>1 DEF TurnUnderWay
    <3>3. Unacked = <<acked + 1>>
      <4>1. Len(spool) - acked = 1
        BY <1>0, <3>2
      <4>2. Unacked = [k \in 1..1 |-> acked + k]
        BY <4>1 DEF Unacked
      <4> QED BY <1>0, <4>2
    <3>4. \A s \in Threads : pc'[s] = IF s = t THEN "batch" ELSE pc[s]
      BY <1>1, <3>1
    <3>5. \A s \in Threads : batch'[s] = IF s = t THEN <<acked + 1>> ELSE batch[s]
      BY <1>0, <3>1, <3>3
    <3>6. pi = <<>>
      BY <1>0, <1>00, <3>2 DEF TurnUnderWay
    <3>7. \A s \in Threads : pc[s] = "record" <=> pc'[s] = "record"
      BY <3>1, <3>4
    <3>8. \A s \in Threads : pc'[s] = "batch" => batch'[s] = <<acked' + 1>> /\ Len(spool)' = acked' + 1
      BY Zenon, <2>0, <3>1, <3>2, <3>4, <3>5 DEF TurnUnderWay
    <3>9. \A s \in Threads : pc'[s] \in {"record", "settle"} => batch'[s] = <<acked'>> /\ acked' > 0
      BY Zenon, <3>1, <3>4, <3>5 DEF TurnUnderWay
    <3> QED BY <2>0, <3>1, <3>6, <3>7, <3>8, <3>9 DEF TurnUnderWay
  <2>4. CASE PublishPulled(t)
    <3>1. /\ pc[t] = "batch" /\ Goto(t, "record") /\ UNCHANGED <<status, batch>>
          /\ acked' = IF acked > Head(batch[t]) THEN acked ELSE Head(batch[t])
      BY <2>4 DEF PublishPulled, At
    <3>2. batch[t] = <<acked + 1>> /\ Len(spool) = acked + 1
      BY Zenon, <3>1 DEF TurnUnderWay
    <3>3. acked' = acked + 1
      <4>1. Head(batch[t]) = acked + 1
        BY <1>0, <3>2
      <4>2. ~(acked > acked + 1)
        BY <1>0
      <4> QED BY <3>1, <4>1, <4>2
    <3>4. spool[acked'] = turns /\ pi = <<>> /\ ~(status = "ready" /\ ~prompting) /\ creating = "done"
      <4>1. Len(spool) # acked
        BY <1>0, <3>2
      <4>2. InHand(t)
        BY <3>1 DEF InHand
      <4> QED BY <3>2, <3>3, <4>1, <4>2 DEF TurnUnderWay, TurnLogged
    <3>5. \A s \in Threads : pc'[s] = IF s = t THEN "record" ELSE pc[s]
      BY <1>1, <3>1
    <3>6. \A s \in Threads : pc'[s] \in {"batch", "record", "settle"} => s = t
      BY <2>1, <3>1, <3>5 DEF Pulling, PullLabels
    <3>7. acked' <= Len(spool)' /\ Len(spool)' <= acked' + 1 /\ Len(spool)' # acked' + 1 /\ acked' > 0
      BY <1>0, <2>0, <3>2, <3>3
    <3>8. /\ \A s \in Threads : pc'[s] = "batch" => FALSE
          /\ \A s \in Threads : pc'[s] \in {"record", "settle"} => batch'[s] = <<acked'>>
          /\ pc'[t] = "record"
      BY <3>1, <3>2, <3>3, <3>5, <3>6
    <3>9. \A k \in 1..Len(spool)' : spool'[k] <= turns'
      BY <2>0 DEF TurnUnderWay
    <3> QED BY Zenon, <2>0, <3>1, <3>4, <3>7, <3>8, <3>9 DEF TurnUnderWay
  <2>5. CASE OnPiRecord(t) /\ status # "working"
    <3> DEFINE l == IF Len(batch[t]) > 1 THEN "batch" ELSE IF dead[t] THEN "drain" ELSE "complete"
    <3>1. /\ pc[t] = "record" /\ ~prompting /\ batch' = [batch EXCEPT ![t] = Tail(batch[t])] /\ UNCHANGED <<status, acked>>
          /\ Goto(t, l)
      BY Zenon, <2>5 DEF OnPiRecord, NextRecord, At
    <3>2. Len(batch[t]) = 1
      <4>1. batch[t] = <<acked>>
        BY <3>1 DEF TurnUnderWay
      <4> QED BY <4>1
    <3>3. l \in {"drain", "complete"}
      BY <3>2
    <3> HIDE DEF l
    <3>4. \A s \in Threads : pc'[s] = IF s = t THEN l ELSE pc[s]
      BY Zenon, <1>1, <3>1
    <3>5. \A s \in Threads \ {t} : batch'[s] = batch[s]
      BY <1>0, <3>1
    <3>6. \A s \in Threads : pc'[s] \in {"batch", "record", "settle"} => pc'[s] = pc[s] /\ batch'[s] = batch[s]
      BY Zenon, <3>3, <3>4, <3>5
    <3> QED BY Zenon, <1>2, <2>0, <2>5, <3>1, <3>6
  <2>6. CASE OnPiRecord(t) /\ status = "working"
    <3>1. pc[t] = "record" /\ ~prompting /\ status' = "ready" /\ Goto(t, "settle") /\ UNCHANGED <<acked, batch>>
      BY <2>6 DEF OnPiRecord, At
    <3>2. \A s \in Threads : pc'[s] = IF s = t THEN "settle" ELSE pc[s]
      BY Zenon, <1>1, <3>1
    <3>3. \A s \in Threads : pc'[s] \in {"batch", "record", "settle"} => s = t
      BY Zenon, <2>1, <3>1, <3>2 DEF Pulling, PullLabels
    <3>4. pi = <<>> /\ Len(spool) = acked
      BY <1>0, <1>00, <3>1 DEF TurnUnderWay
    <3>5. batch[t] = <<acked>> /\ acked > 0 /\ creating = "done"
      BY Zenon, <2>6, <3>1 DEF TurnUnderWay
    <3>6. \A s \in Threads : pc'[s] \notin {"batch", "record"} /\ (pc'[s] = "settle" => batch'[s] = <<acked'>>)
      BY <3>1, <3>2, <3>3, <3>5
    <3>7. Len(spool) # acked + 1
      BY <1>0, <3>4
    <3> QED BY Zenon, <2>0, <3>1, <3>4, <3>5, <3>6, <3>7 DEF TurnUnderWay
  <2>7. ASSUME NEW ok \in BOOLEAN, Settle(t, ok) PROVE TurnUnderWay'
    <3> DEFINE l == IF Len(batch[t]) > 1 THEN "batch" ELSE IF dead[t] THEN "drain" ELSE "complete"
    <3>1. /\ pc[t] = "settle" /\ batch' = [batch EXCEPT ![t] = Tail(batch[t])] /\ UNCHANGED <<status, acked>>
          /\ Goto(t, l)
      BY <2>7 DEF Settle, NextRecord, At
    <3>2. Len(batch[t]) = 1
      <4>1. batch[t] = <<acked>>
        BY <3>1 DEF TurnUnderWay
      <4> QED BY <4>1
    <3>3. l \in {"drain", "complete"}
      BY <3>2
    <3> HIDE DEF l
    <3>4. \A s \in Threads : pc'[s] = IF s = t THEN l ELSE pc[s]
      BY <1>1, <3>1
    <3>5. \A s \in Threads \ {t} : batch'[s] = batch[s]
      BY <1>0, <3>1
    <3>6. \A s \in Threads : pc'[s] \in {"batch", "record", "settle"} => pc'[s] = pc[s] /\ batch'[s] = batch[s]
      BY <3>3, <3>4, <3>5
    <3>7. \A s \in Threads : pc[s] = "record" => pc'[s] = "record"
      BY <3>1, <3>4
    <3> QED BY <1>2, <2>0, <3>1, <3>6, <3>7
  <2>8. ASSUME NEW ok \in BOOLEAN, Fail(t, ok) PROVE TurnUnderWay'
    <3>1. /\ UNCHANGED <<acked, batch>> /\ (UNCHANGED status \/ (status' = "failed" /\ ~prompting))
          /\ pc[t] \in {"failConsume", "failOff"} /\ (Goto(t, "consume") \/ Goto(t, "off"))
      BY <2>8 DEF Fail, FailAgent, At
    <3>2. \A s \in Threads : s # t => pc'[s] = pc[s]
      BY <1>1, <3>1
    <3>3. pc'[t] \in {"consume", "off"}
      BY <1>1, <3>1
    <3> QED BY <1>2, <2>0, <3>1, <3>2, <3>3
  <2>9. ASSUME NEW ok \in BOOLEAN, PauseSession(t, ok) PROVE TurnUnderWay'
    <3>1. UNCHANGED <<acked, batch, status>> /\ pc[t] = "pause" /\ (Goto(t, "failConsume") \/ Goto(t, "off"))
      BY <2>9 DEF PauseSession, At
    <3>2. \A s \in Threads : s # t => pc'[s] = pc[s]
      BY <1>1, <3>1
    <3>3. pc'[t] \in {"failConsume", "off"}
      BY <1>1, <3>1
    <3> QED BY Zenon, <1>2, <2>0, <3>1, <3>2, <3>3
  <2> QED BY <1>3, <2>2, <2>3, <2>4, <2>5, <2>6, <2>7, <2>8, <2>9, ThreadSteps
<1>4. ASSUME UNCHANGED <<pc, batch, acked, spool, turns, prompting>>, pi' = pi \/ pi' = <<>>, creating = "done" => creating' = "done",
             UNCHANGED status \/ (status' \in {"failed", "terminated"} /\ ~prompting)
      PROVE  TurnUnderWay'
  BY <1>2, <1>4
<1>5. ASSUME NEW ok \in BOOLEAN, CreateStarted(ok) \/ PhaseError(ok) \/ ResumeRearm(ok) \/ ResumeConsume(ok) \/ DeleteTransition(ok)
      PROVE  TurnUnderWay'
  <2>1. /\ UNCHANGED <<pc, batch, acked, spool, turns, prompting>>
        /\ pi' = pi \/ pi' = <<>>
        /\ creating = "done" => creating' = "done"
    BY <1>5 DEF CreateStarted, DeleteSandbox, PhaseError, ResumeRearm, ResumeConsume, DeleteTransition
  <2>2. UNCHANGED status \/ (status' \in {"failed", "terminated"} /\ ~prompting)
    BY Zenon, <1>5 DEF CreateStarted, PhaseError, FailAgent, ResumeRearm, ResumeConsume, DeleteTransition
  <2> QED BY <1>4, <2>1, <2>2
<1>6. CASE Command \/ Resume \/ Delete \/ PiExits \/ DaemonDies \/ DaemonBoots \/ UNCHANGED vars
  BY Zenon, <1>4, <1>6 DEF Command, Resume, Delete, PiExits, DaemonDies, DaemonBoots, vars
<1>7. ~DeleteClose
  BY DEF DeleteClose
<1>8. ASSUME NEW t \in Threads, ResumeSpawn(t) PROVE TurnUnderWay'
  <2>1. /\ pc[t] = "off" /\ Goto(t, "hold") /\ UNCHANGED <<batch, acked, spool, turns, prompting, pi, creating, status>>
    BY <1>8 DEF ResumeSpawn
  <2>2. \A s \in Threads : s # t => pc'[s] = pc[s]
    BY Zenon, <1>1, <2>1
  <2>3. pc'[t] = "hold"
    BY Zenon, <1>1, <2>1
  <2> QED BY Zenon, <1>2, <2>1, <2>2, <2>3
<1>9. CASE CreateReady
  <2>1. /\ creating = "started" /\ creating' = "done" /\ status' = "ready" /\ ~prompting
        /\ UNCHANGED <<pc, batch, acked, spool, turns, prompting, pi>>
    BY <1>9 DEF CreateReady
  <2>2. turns = 0 /\ pi = <<>> /\ spool = <<>> /\ \A s \in Threads : pc[s] \notin {"batch", "record", "settle"}
    BY <2>1 DEF TurnUnderWay, TurnLogged, InHand
  <2>3. Len(spool) = 0
    BY <2>2
  <2>4. Len(spool) = acked
    BY <1>0, <2>3 DEF TurnUnderWay
  <2> QED BY Zenon, <2>1, <2>2, <2>4 DEF TurnUnderWay
<1>10. CASE Prompt \/ PromptReplyLost
  <2>0. Prompt
    BY <1>10 DEF PromptReplyLost, Calm
  <2>1. /\ ~prompting /\ status = "ready" /\ turns' = turns + 1 /\ pi' = Append(pi, turns + 1) /\ prompting' = TRUE
        /\ UNCHANGED <<pc, batch, acked, spool, creating, status>>
    BY <2>0 DEF Prompt, Promptable
  <2>2. pi = <<>> /\ Len(spool) = acked /\ \A s \in Threads : pc[s] # "record"
    BY <2>1 DEF TurnUnderWay
  <2>3. Len(spool) # acked + 1
    BY <1>0, <2>2
  <2>4. \A s \in Threads : pc[s] # "batch"
    BY <2>3 DEF TurnUnderWay
  <2>5. pi' = <<turns'>>
    BY <1>0, <2>1, <2>2
  <2>6. \A k \in 1..Len(spool) : spool[k] \in Nat /\ spool[k] <= turns
    BY <1>00 DEF TurnUnderWay
  <2>7. \A k \in 1..Len(spool) : spool[k] <= turns + 1 /\ spool[k] # turns + 1
    BY <1>0, <2>6
  <2>8. creating = "done"
    BY <2>1 DEF TurnUnderWay
  <2>9. turns' \notin {spool'[k] : k \in 1..acked'}
    BY <2>1, <2>2, <2>7
  <2>10. \A k \in 1..Len(spool)' : spool'[k] <= turns'
    BY <2>1, <2>7
  <2> QED BY <2>1, <2>2, <2>3, <2>4, <2>5, <2>8, <2>9, <2>10 DEF TurnUnderWay
<1>11. ASSUME NEW ok \in BOOLEAN, TurnStarted(ok) PROVE TurnUnderWay'
  <2>1. prompting /\ ~prompting' /\ status' = "working" /\ UNCHANGED <<pc, batch, acked, spool, turns, pi, creating>>
    BY <1>11 DEF TurnStarted
  <2>2. status = "ready"
    BY <2>1 DEF EndsMeet
  <2>3. creating = "done"
    BY <2>2 DEF TurnUnderWay
  <2> QED BY <1>2, <2>1, <2>3
<1>12. CASE PiSettles
  <2>1. pi # <<>> /\ spool' = Append(spool, Head(pi)) /\ pi' = Tail(pi) /\ UNCHANGED <<pc, batch, acked, turns, prompting, creating, status>>
    BY <1>12 DEF PiSettles
  <2>2. pi = <<turns>> /\ Len(spool) = acked /\ \A s \in Threads : pc[s] \notin {"batch", "record"}
    BY <2>1 DEF TurnUnderWay
  <2>3. Head(pi) = turns /\ pi' = <<>>
    BY <1>0, <2>1, <2>2
  <2>4. spool' = Append(spool, turns)
    BY <2>1, <2>3
  <2>5. Len(spool') = acked + 1 /\ spool'[acked + 1] = turns
    BY <1>0, <2>2, <2>4
  <2>6. \A k \in 1..acked : spool'[k] = spool[k]
    BY <1>0, <2>2, <2>4
  <2>7. creating = "done" /\ ~(status = "ready" /\ ~prompting)
    BY <2>1 DEF TurnUnderWay
  <2>8. acked' <= Len(spool)' /\ Len(spool)' <= acked' + 1
    BY <1>0, <2>1, <2>5
  <2>9. \A k \in 1..Len(spool)' : spool'[k] <= turns'
    <3>1. \A k \in 1..(acked + 1) : k \in 1..acked \/ k = acked + 1
      BY <1>0
    <3>2. \A k \in 1..acked : spool[k] <= turns
      BY <2>2 DEF TurnUnderWay
    <3> QED BY <1>0, <2>1, <2>5, <2>6, <3>1, <3>2
  <2>10. turns' \in {spool'[k] : k \in 1..acked'} => turns \in {spool[k] : k \in 1..acked}
    BY Zenon, <2>1, <2>6
  <2>11. \A s \in Threads : pc'[s] \in {"record", "settle"} => batch'[s] = <<acked'>> /\ acked' > 0
    BY <2>1 DEF TurnUnderWay
  <2>12. (status' = "working" \/ prompting') /\ turns' \in {spool'[k] : k \in 1..acked'} => \E t \in Threads : pc'[t] = "record"
    BY <2>1, <2>10 DEF TurnUnderWay
  <2> QED BY <2>1, <2>2, <2>3, <2>5, <2>7, <2>8, <2>9, <2>11, <2>12 DEF TurnUnderWay
<1>13. ~ControllerCrash /\ \A t \in Threads : ~RebuildFromLog(t)
  BY NoCrash
<1> QED BY <1>3, <1>5, <1>6, <1>7, <1>8, <1>9, <1>10, <1>11, <1>12, <1>13 DEF Next, FrontDoor, Daemon

(* A revive that is recorded stays recorded, and a closed hub closed.      *)
LEMMA StaysRevived ==
    ASSUME Calm, TurnTypes, SeenBoot, Next \/ UNCHANGED vars
    PROVE  /\ logBoot # 0 => logBoot' # 0
           /\ Closed => Closed'
<1> USE DEF durable, logVars, callVars, threadVars, daemonVars, bounds, ctrlVars
<1>0. alive /\ crashes = 0
  BY DEF TurnTypes
<1>1. ASSUME NEW t \in Threads, RecordDaemonBoot(t) \/ Arm(t)
      PROVE  (logBoot # 0 => logBoot' # 0) /\ UNCHANGED deleting
  <2>1. pc[t] \in {"legacy", "arm"} /\ (\E ok \in Stored : logBoot' = IF ok THEN seen[t] ELSE logBoot) /\ UNCHANGED deleting
    BY <1>1 DEF RecordDaemonBoot, Arm, At
  <2>2. seen[t] # 0
    BY <2>1 DEF SeenBoot, SeenAt
  <2> QED BY <2>1, <2>2
<1>2. ASSUME NEW t \in Threads, Loop(t) \/ Revive(t)
      PROVE  (logBoot # 0 => logBoot' # 0) /\ UNCHANGED deleting
  <2>1. CASE \/ NoteBootID(t) \/ Pull(t) \/ PullFails(t) \/ Preflight(t) \/ PreflightFails(t) \/ Death(t) \/ Drain(t)
             \/ DrainFails(t) \/ PublishPulled(t) \/ PublishPulledFails(t) \/ OnPiRecord(t) \/ Decide(t) \/ Return(t)
    BY Zenon, <2>1 DEF NoteBootID, Pull, PullFails, Preflight, PreflightFails, Death, Drain, DrainFails, PublishPulled,
                PublishPulledFails, OnPiRecord, Decide, Return
  <2>2. CASE ReadLedger(t) \/ Cooldown(t) \/ ReviveFromPaused(t) \/ Hold(t) \/ MarkReady(t)
    BY Zenon, <2>2 DEF ReadLedger, Cooldown, ReviveFromPaused, Hold, MarkReady
  <2>3. ASSUME NEW ok \in BOOLEAN, \/ Settle(t, ok) \/ Fail(t, ok) \/ PauseSession(t, ok) \/ ConsumeReviveAttempt(t, ok)
                                  \/ HoldFails(t, ok) \/ CompleteRevive(t, ok) \/ CloseLostTurn(t, ok)
        PROVE  (logBoot # 0 => logBoot' # 0) /\ UNCHANGED deleting
    BY Zenon, <2>3 DEF Settle, Fail, PauseSession, ConsumeReviveAttempt, HoldFails, CompleteRevive, CloseLostTurn
  <2> QED BY <1>1, <1>2, <2>1, <2>2, <2>3 DEF Loop, Revive
<1>3. CASE FrontDoor
  <2>1. UNCHANGED logBoot
    BY Zenon, <1>3 DEF FrontDoor, CreateReady, Prompt, PromptReplyLost, Command, Resume, Delete, DeleteClose, CreateStarted,
                TurnStarted, PhaseError, ResumeRearm, ResumeConsume, DeleteTransition, ResumeSpawn
  <2>2. Closed => Closed'
    BY Zenon, <1>3 DEF FrontDoor, CreateReady, Prompt, PromptReplyLost, Command, Resume, Delete, DeleteClose, CreateStarted,
                TurnStarted, PhaseError, ResumeRearm, ResumeConsume, DeleteTransition, ResumeSpawn
  <2> QED BY <2>1, <2>2
<1>4. CASE Daemon \/ UNCHANGED vars
  BY Zenon, <1>4 DEF Daemon, PiSettles, PiExits, DaemonDies, DaemonBoots, vars
<1>5. ~ControllerCrash /\ \A t \in Threads : ~RebuildFromLog(t)
  BY NoCrash
<1> QED BY <1>2, <1>3, <1>4, <1>5 DEF Next

(* Create leaves the session as the invariant wants it (agent.go).         *)
LEMMA TurnInitial == ASSUME SessionInit PROVE TurnInv
<1>1. /\ alive /\ crashes = 0 /\ owner \in Threads /\ boot = 1 /\ turns = 0 /\ acked = 0 /\ logTurn = 0 /\ logBoot = 0
      /\ sandbox /\ up /\ pi = <<>> /\ spool = <<>> /\ deleting = "no" /\ creating = "registered" /\ ~prompting
      /\ state = "provision" /\ status = "creating" /\ resuming = "no" /\ pendingRevive = FALSE
  BY DEF SessionInit
<1>2. \A t \in Threads : pc[t] = IF t = owner THEN "note" ELSE "off"
  BY DEF SessionInit
<1>3. cancelled = [t \in Threads |-> FALSE] /\ seen = [t \in Threads |-> 0] /\ dead = [t \in Threads |-> FALSE]
      /\ batch = [t \in Threads |-> <<>>]
  BY DEF SessionInit
<1>4. TurnTypes
  <2>1. <<>> \in Seq(Nat)
    OBVIOUS
  <2>2. batch \in [Threads -> Seq(Nat)]
    BY <1>3, <2>1
  <2>3. dead \in [Threads -> BOOLEAN] /\ cancelled \in [Threads -> BOOLEAN] /\ seen \in [Threads -> Nat]
    BY <1>3
  <2> QED BY <1>1, <2>1, <2>2, <2>3 DEF TurnTypes
<1>5. SeenBoot
  BY <1>1, <1>2, <1>3 DEF SeenBoot, SeenAt, InHand
<1>6. EndsMeet
  BY <1>1 DEF EndsMeet
<1>7. OneLoop
  BY <1>1, <1>2 DEF OneLoop, Pulling, Reviving, PullLabels, ReviveLabels
<1>8. TurnLogged
  BY <1>1, <1>2 DEF TurnLogged, InHand
<1>9. TurnUnderWay
  <2>1. Len(spool) = 0
    BY <1>1
  <2>2. \A t \in Threads : pc[t] \notin {"batch", "record", "settle"}
    BY <1>2
  <2> QED BY <1>1, <2>1, <2>2 DEF TurnUnderWay
<1> QED BY <1>4, <1>5, <1>6, <1>7, <1>8, <1>9 DEF TurnInv

(* Every step keeps the turns in order.                                    *)
LEMMA TurnStep ==
    ASSUME Calm, SessionInv, TurnInv, Next \/ UNCHANGED vars
    PROVE  TurnInv'
<1>0. Types /\ TurnTypes /\ SeenBoot /\ EndsMeet
  BY DEF SessionInv, TurnInv
<1>1. TurnTypes'
  <2>1. CASE FrontDoor \/ Daemon \/ UNCHANGED vars
    BY <1>0, <2>1, OtherTypes
  <2>2. ASSUME NEW t \in Threads, Loop(t) \/ Revive(t) PROVE TurnTypes'
    <3>1. pc[t] \in {"batch", "record", "settle"} => batch[t] # <<>>
      BY <1>0 DEF SeenBoot, SeenAt, InHand
    <3> QED BY <1>0, <2>2, <3>1, ThreadTypes
  <2>3. ~ControllerCrash /\ \A t \in Threads : ~RebuildFromLog(t)
    BY <1>0, NoCrash
  <2> QED BY <2>1, <2>2, <2>3 DEF Next
<1>2. SeenBoot'
  BY <1>0, SeenKept
<1>3. EndsMeet'
  BY <1>0, EndsKept
<1>4. ASSUME logBoot' = 0 PROVE OneLoop' /\ TurnLogged' /\ (~Closed' => TurnUnderWay')
  <2>1. logBoot = 0 /\ (~Closed' => ~Closed)
    BY <1>0, <1>4, StaysRevived
  <2>2. OneLoop /\ TurnLogged /\ (~Closed => TurnUnderWay)
    BY <2>1 DEF TurnInv
  <2>3. OneLoop'
    BY <1>0, <1>4, <2>1, <2>2, LoopKept
  <2>4. TurnLogged'
    BY <1>0, <1>4, <2>1, <2>2, LoggedKept
  <2>5. ASSUME ~Closed' PROVE TurnUnderWay'
    BY <1>0, <1>4, <2>1, <2>2, <2>5, UnderWayKept
  <2> QED BY <2>3, <2>4, <2>5
<1> QED BY <1>1, <1>2, <1>3, <1>4 DEF TurnInv

(* The turn invariant holds on a controller that stays up, with a store    *)
(* and a network that do not fail.                                         *)
THEOREM SessionTurns == ASSUME Calm PROVE Spec => []TurnInv
<1>1. SessionInit => TurnInv
  BY TurnInitial
<1>2. SessionInv /\ TurnInv /\ [Next]_vars => TurnInv'
  BY TurnStep
<1> QED BY <1>1, <1>2, SessionInvariant, PTL DEF Spec

(* "a second prompt while a turn is in flight is rejected" (agent.go): on  *)
(* a controller that stays up, with a store and a network that do not      *)
(* fail, pi never has two turns before the first revive, over any number   *)
(* of prompts, deaths of pi and of the daemon, aborts, and a Delete.       *)
THEOREM SessionSingleTurn == ASSUME Calm PROVE Spec => []SingleTurnUnrevived
<1>1. TurnInv => SingleTurnUnrevived
  <2> SUFFICES ASSUME TurnInv, logBoot = 0 PROVE Len(pi) <= 1
    BY DEF SingleTurnUnrevived, SingleTurn
  <2>1. pi = <<>> \/ pi = <<turns>>
    BY DEF TurnInv, EndsMeet, TurnUnderWay
  <2>2. CASE pi = <<>>
    BY <2>2
  <2>3. CASE pi = <<turns>>
    BY <2>3
  <2> QED BY <2>1, <2>2, <2>3
<1> QED BY <1>1, SessionTurns, PTL

(* Under the same conditions the record that settles a turn is that turn's *)
(* own (onPiRecord, agent.go).                                             *)
THEOREM SessionSettlesOwnTurn == ASSUME Calm PROVE Spec => []SettlesOwnTurn
<1>1. TurnInv => SettlesOwnTurn
  BY DEF TurnInv, TurnLogged, SettlesOwnTurn
<1> QED BY <1>1, SessionTurns, PTL

(* "the agent_settled record ends a turn, flipping working -> ready"       *)
(* (agent.go): under the same conditions, until the first revive, a turn   *)
(* whose record is in the log has the loop about to act on it.             *)
THEOREM SessionSettledEndsTurn == ASSUME Calm PROVE Spec => [](logBoot = 0 => SettledEndsTurn)
<1>1. TurnInv => (logBoot = 0 => SettledEndsTurn)
  <2> SUFFICES ASSUME TurnInv, logBoot = 0, state = "running", status = "working", logTurn \in {spool[k] : k \in 1..acked}
               PROVE  \E t \in Threads : pc[t] = "record"
    BY DEF SettledEndsTurn
  <2>1. logTurn = turns /\ TurnUnderWay
    BY DEF TurnInv, TurnLogged, EndsMeet
  <2> QED BY <2>1 DEF TurnUnderWay
<1> QED BY <1>1, SessionTurns, PTL
=============================================================================
