--------------------------------- MODULE Watch ---------------------------------
(* What watches one agent's turns: the assessment monitor (controller/monitor.go)*)
(* with its timer and its language-model calls, the live fan-out of the event    *)
(* hub (controller/events.go) and the blocking wait (controller/wait.go), beside *)
(* the operations that append lifecycle events: prompt, settle, failure, pause   *)
(* and revive, delete, and the registry's rebuild after a controller restart.    *)
(* One action per critical section or per stretch between two blocking calls.    *)
EXTENDS Lifecycle, Integers, Sequences, FiniteSets, SequencesExt, FiniteSetsExt

CONSTANTS
  Waiters,      \* requests of wait_agent
  Verdicts,     \* the verdicts the classifier may give
  ChanCap       \* capacity of a subscriber's channel; the code's is 256

NoVerdict == "none"
Event(type) == [type |-> type, v |-> NoVerdict, turn |-> 0]
Assessed(v, turn) == [type |-> "assessed", v |-> v, turn |-> turn]  \* turn: the window it judges

VARIABLES
  watchScope,   \* the bounds of this behaviour: turns, ticks, restarts, waiters, and
                \* faults, a subset of {"fail", "pause", "delete", "slm"}
  log,          \* the durable event log
  fsm, status,  \* the session state and the agent status in memory
  registered,   \* the manager holds the agent
  hubClosed,
  turnOpen,     \* pi has yet to report the end of the turn
  settler,      \* onPiRecord: idle, assess (status flipped), slm, settle
  disarming,    \* who ran fail up to agent.failed and has not disarmed yet: puller, poll
  deleting,     \* deleteOne: no, marked, logged, done
  armPending,   \* RebuildFromLog decided to arm and has not yet
  armed,        \* the entry in Monitor.agents, 0 when there is none
  entries,      \* entries made so far
  stale,        \* entries whose gen was bumped
  tick,         \* per entry with a tick in flight: the turn its window is of
  ticks, restarts,
  waiter,       \* per request: where it is and what it knows
  live,         \* per request: its channel
  watchPast     \* history: late, a timer armed after or disarmed after its turn; dropped, overflowed channels

logVars == <<log, fsm, status>>
monVars == <<armed, entries, stale, tick, ticks, armPending>>
opVars == <<registered, hubClosed, turnOpen, settler, disarming, deleting, restarts>>
waitVars == <<waiter, live>>
watchVars == <<watchScope, logVars, monVars, opVars, waitVars, watchPast>>

Asleep == [at |-> "no", after |-> 0, last |-> NoVerdict, base |-> NoVerdict,
           changed |-> {}, state |-> "none"]

WatchInit(bounds) ==
  /\ watchScope = bounds
  /\ log = <<Event("started")>> /\ fsm = "ready" /\ status = "ready"
  /\ registered = TRUE /\ hubClosed = FALSE /\ turnOpen = FALSE /\ settler = "idle"
  /\ disarming = {} /\ deleting = "no" /\ armPending = FALSE /\ restarts = 0
  /\ armed = 0 /\ entries = 0 /\ stale = {} /\ tick = <<>> /\ ticks = 0
  /\ waiter = [w \in Waiters |-> Asleep] /\ live = [w \in Waiters |-> <<>>]
  /\ watchPast = [late |-> FALSE, dropped |-> {}]

-------------------------------------------------------------------------------
(* The hub: append and fan out under its lock *)

Subscribed(w) == waiter[w].at \in {"blocked", "draining"}

PublishNoting(evs, late) ==
  /\ log' = log \o evs
  /\ LET room(w) == IF ChanCap - Len(live[w]) < Len(evs) THEN ChanCap - Len(live[w]) ELSE Len(evs) IN
     /\ live' = [w \in Waiters |-> IF Subscribed(w) THEN live[w] \o SubSeq(evs, 1, room(w)) ELSE live[w]]
     /\ watchPast' = [watchPast EXCEPT !.late = @ \/ late,
                                      !.dropped = @ \cup {w \in Waiters : Subscribed(w) /\ room(w) < Len(evs)}]

Publish(evs) == PublishNoting(evs, FALSE)

(* PublishLifecycle is a no-op once the hub is closed. *)
PublishLifecycle(evs) == IF hubClosed THEN UNCHANGED <<log, live, watchPast>> ELSE Publish(evs)

Turns == Cardinality({i \in DOMAIN log : log[i].type = "turn_started"})
LastIndex(type) == LET I == {i \in DOMAIN log : log[i].type = type} IN IF I = {} THEN 0 ELSE Max(I)

(* assessmentFromEvents: the last assessment if it follows the last turn start *)
Assessment ==
  IF LastIndex("assessed") > LastIndex("turn_started") THEN log[LastIndex("assessed")].v ELSE NoVerdict

-------------------------------------------------------------------------------
(* The monitor's hooks *)

Arm == IF armed # 0 THEN UNCHANGED <<armed, entries>>
       ELSE entries' = entries + 1 /\ armed' = entries'

Disarm == armed' = 0 /\ stale' = stale \cup ({armed} \ {0})

TickBegins ==
  /\ armed # 0 /\ armed \notin DOMAIN tick /\ ticks < watchScope.ticks
  /\ Turns > 0 /\ ticks' = ticks + 1
  /\ tick' = [e \in DOMAIN tick \cup {armed} |-> IF e = armed THEN Turns ELSE tick[e]]
  /\ UNCHANGED <<logVars, armed, entries, stale, armPending, opVars, waitVars, watchPast>>

TickDone(e) == tick' = [f \in DOMAIN tick \ {e} |-> tick[f]]

\* Mutant: the append is not gated by gen.
TickAppendsUngated(e) ==
  /\ e \in DOMAIN tick /\ TickDone(e)
  /\ \E v \in Verdicts : PublishLifecycle(<<Assessed(v, tick[e])>>)
  /\ UNCHANGED <<fsm, status, armed, entries, stale, ticks, armPending, opVars, waiter>>

(* assess for a tick: gen is read and the event appended under e.mu *)
TickAppends(e) ==
  /\ e \in DOMAIN tick /\ e \notin stale /\ TickDone(e)
  /\ \E v \in Verdicts : PublishLifecycle(<<Assessed(v, tick[e])>>)
  /\ UNCHANGED <<fsm, status, armed, entries, stale, ticks, armPending, opVars, waiter>>

(* the model failed, or the gate is closed: no event *)
TickSkips(e) ==
  /\ e \in DOMAIN tick /\ (e \in stale \/ "slm" \in watchScope.faults) /\ TickDone(e)
  /\ UNCHANGED <<logVars, armed, entries, stale, ticks, armPending, opVars, waitVars, watchPast>>

-------------------------------------------------------------------------------
(* The operations *)

(* sendPrompt, under agent.mu; the daemon's 202 is given *)
Prompt ==
  /\ registered /\ ~armPending /\ Turns < watchScope.turns
  /\ fsm \in {"ready", "idle"} /\ status = "ready"
  /\ Publish(<<Event("turn_started")>>) /\ fsm' = "running" /\ status' = "working" /\ turnOpen' = TRUE
  /\ Arm
  /\ UNCHANGED <<stale, tick, ticks, armPending, registered, hubClosed, settler, disarming, deleting, restarts, waiter>>

(* the puller appends pi's agent_settled; onPiRecord flips the status *)
SettleRecord ==
  /\ turnOpen /\ settler = "idle" /\ deleting = "no" /\ turnOpen' = FALSE
  /\ Publish(<<Event("agent_settled")>>)
  /\ IF status = "working" THEN status' = "ready" /\ settler' = "assess" ELSE UNCHANGED <<status, settler>>
  /\ UNCHANGED <<fsm, monVars, registered, hubClosed, disarming, deleting, restarts, waiter>>

SettleDisarms ==
  /\ settler = "assess" /\ settler' = (IF armed = 0 THEN "settle" ELSE "slm")
  /\ Disarm
  /\ UNCHANGED <<logVars, entries, tick, ticks, armPending, registered, hubClosed, turnOpen, disarming, deleting, restarts, waitVars, watchPast>>

(* the terminal assessment: appended, or skipped on failure or at the end of its budget *)
SettleAssess ==
  /\ settler = "slm" /\ settler' = "settle"
  /\ \/ \E v \in Verdicts : PublishLifecycle(<<Assessed(v, Turns)>>)
     \/ "slm" \in watchScope.faults /\ UNCHANGED <<log, live, watchPast>>
  /\ UNCHANGED <<fsm, status, monVars, registered, hubClosed, turnOpen, disarming, deleting, restarts, waiter>>

(* fsm.Transition(idle): an illegal edge or a closed hub leaves the state *)
Settle ==
  /\ settler = "settle" /\ settler' = "idle"
  /\ IF "idle" \in sessionTransitions[fsm] /\ ~hubClosed
     THEN Publish(<<Event("settled")>>) /\ fsm' = "idle"
     ELSE UNCHANGED <<fsm, log, live, watchPast>>
  /\ UNCHANGED <<status, monVars, registered, hubClosed, turnOpen, disarming, deleting, restarts, waiter>>

Failable == status \notin {"failed", "terminated"}

(* fail: status and event in one critical section, the timer after it *)
Fail ==
  /\ "fail" \in watchScope.faults /\ Failable /\ status' = "failed" /\ disarming' = disarming \cup {"poll"}
  /\ PublishLifecycle(<<Event("failed")>>)
  /\ UNCHANGED <<fsm, monVars, registered, hubClosed, turnOpen, settler, deleting, restarts, waiter>>

FailDisarms ==
  /\ \E g \in disarming : disarming' = disarming \ {g}
  /\ Disarm
  /\ UNCHANGED <<logVars, entries, tick, ticks, armPending, registered, hubClosed, turnOpen, settler, deleting, restarts, waitVars, watchPast>>

(* pauseSession after the puller saw a new boot: paused, then fail *)
Pause ==
  /\ "pause" \in watchScope.faults /\ fsm = "running" /\ settler = "idle" /\ deleting = "no" /\ ~hubClosed
  /\ Publish(<<Event("paused")>> \o (IF Failable THEN <<Event("failed")>> ELSE <<>>))
  /\ fsm' = "paused" /\ turnOpen' = FALSE
  /\ status' = (IF Failable THEN "failed" ELSE status) /\ disarming' = disarming \cup (IF Failable THEN {"puller"} ELSE {})
  /\ UNCHANGED <<monVars, registered, hubClosed, settler, deleting, restarts, waiter>>

(* completeRevive: the lost turn is closed unsettled *)
Revive ==
  /\ "pause" \in watchScope.faults /\ fsm = "paused" /\ deleting = "no" /\ "puller" \notin disarming
  /\ PublishNoting(<<Event("revived"), Event("settled")>>, disarming # {}) /\ fsm' = "idle" /\ status' = "ready"
  /\ UNCHANGED <<monVars, opVars, waiter>>

(* deleteOne, in its three stretches *)
DeleteMarks ==
  /\ "delete" \in watchScope.faults /\ registered /\ ~armPending /\ registered' = FALSE /\ status' = "terminated" /\ deleting' = "marked"
  /\ UNCHANGED <<log, fsm, monVars, hubClosed, turnOpen, settler, disarming, restarts, waitVars, watchPast>>

DeleteLogs ==
  /\ deleting = "marked" /\ deleting' = "logged"
  /\ Publish(<<Event("terminated")>>) /\ fsm' = "terminated"
  /\ UNCHANGED <<status, monVars, registered, hubClosed, turnOpen, settler, disarming, restarts, waiter>>

DeleteCloses ==
  /\ deleting = "logged" /\ deleting' = "done" /\ Disarm /\ hubClosed' = TRUE
  /\ UNCHANGED <<logVars, entries, tick, ticks, armPending, registered, turnOpen, settler, disarming, restarts, waitVars, watchPast>>

(* The controller restarts: memory is gone, RebuildFromLog folds the log,      *)
(* starts the puller and only then arms.  Held requests lose their connection. *)
ReplayedSession == FoldLeft(LAMBDA acc, ev : ReplaySession(acc, ev.type), "ready", log)

ReplayedStatus == FoldLeft(LAMBDA acc, ev : ReplayAgentStatus(acc, ev.type), "ready", log)

Restart ==
  /\ restarts < watchScope.restarts /\ restarts' = restarts + 1
  /\ fsm' = ReplayedSession /\ status' = ReplayedStatus
  /\ registered' = (fsm' # "terminated") /\ hubClosed' = (fsm' = "terminated")
  /\ deleting' = (IF fsm' = "terminated" THEN "done" ELSE "no")
  /\ settler' = "idle" /\ disarming' = {}
  /\ armed' = 0 /\ stale' = 1..entries /\ tick' = <<>>
  /\ armPending' = (fsm' = "running" /\ status' = "working")
  /\ waiter' = [w \in Waiters |-> IF waiter[w].at = "done" THEN waiter[w] ELSE Asleep]
  /\ live' = [w \in Waiters |-> <<>>]
  /\ UNCHANGED <<log, entries, ticks, turnOpen, watchPast>>

RebuildArms ==
  /\ armPending /\ armPending' = FALSE /\ Arm
  /\ watchPast' = [watchPast EXCEPT !.late = @ \/ status # "working"]
  /\ UNCHANGED <<logVars, stale, tick, ticks, opVars, waitVars>>

-------------------------------------------------------------------------------
(* Wait *)

Untouched == UNCHANGED <<logVars, monVars, opVars, watchPast>>
Step(w, from, rec) == waiter[w].at = from /\ waiter' = [waiter EXCEPT ![w] = rec]

(* wakeOf folded over one event: the session's lifecycle events and failed     *)
(* always wake, an assessment only when its verdict differs from the last seen *)
WakeTypes == {"turn_started", "settled", "paused", "revived", "terminated", "failed"}
Consume(rec, ev) ==
  IF ev.type \in WakeTypes THEN [rec EXCEPT !.changed = @ \cup {"state"}]
  ELSE IF ev.type = "assessed" /\ ev.v # rec.last
       THEN [rec EXCEPT !.changed = @ \cup {"assessment"}, !.last = ev.v]
       ELSE rec

WaitGets(w) ==
  /\ w \in watchScope.waiters /\ ~armPending
  /\ Step(w, "no", [waiter[w] EXCEPT !.at = IF registered THEN "got" ELSE "done", !.state = IF registered THEN @ ELSE "unknown"])
  /\ UNCHANGED live /\ Untouched

WaitReads(w) ==
  /\ Step(w, "got", [waiter[w] EXCEPT !.at = "read", !.after = Len(log), !.base = Assessment, !.last = Assessment])
  /\ UNCHANGED live /\ Untouched

(* the wake is already in the past: return at once *)
WaitChecks(w) ==
  /\ Step(w, "read", IF fsm = "idle" \/ status = "failed"
                     THEN [waiter[w] EXCEPT !.at = "done", !.state = fsm, !.changed = {"state"}]
                     ELSE [waiter[w] EXCEPT !.at = "subscribing"])
  /\ UNCHANGED live /\ Untouched

\* Mutant: the replay is dropped (the race of PR #241).
WaitSubscribesBlind(w) ==
  /\ Step(w, "subscribing", [waiter[w] EXCEPT !.at = "blocked"])
  /\ live' = [live EXCEPT ![w] = <<>>] /\ Untouched

WaitSubscribes(w) ==
  /\ LET rec == FoldLeft(Consume, waiter[w], SubSeq(log, waiter[w].after + 1, Len(log))) IN
     Step(w, "subscribing", [rec EXCEPT !.at = IF rec.changed = {} THEN "blocked" ELSE "draining"])
  /\ live' = [live EXCEPT ![w] = <<>>] /\ Untouched

WaitReceives(w) ==
  /\ live[w] # <<>> /\ live' = [live EXCEPT ![w] = Tail(@)]
  /\ LET rec == Consume(waiter[w], Head(live[w])) IN
     Step(w, "blocked", [rec EXCEPT !.at = IF rec.changed = {} THEN "blocked" ELSE "draining"])
  /\ Untouched

WaitDrains(w) ==
  /\ live[w] # <<>> /\ live' = [live EXCEPT ![w] = Tail(@)]
  /\ Step(w, "draining", Consume(waiter[w], Head(live[w])))
  /\ Untouched

(* waitSnapshot, and the channel goes with the return *)
Answer(w, from, kinds) ==
  /\ Step(w, from, [waiter[w] EXCEPT !.at = "done", !.changed = @ \cup kinds,
                                     !.state = IF registered THEN fsm ELSE "terminated"])
  /\ live' = [live EXCEPT ![w] = <<>>] /\ Untouched

WaitReturns(w) == Answer(w, "draining", {})
WaitTimesOut(w) == Answer(w, "blocked", {"timeout"})

-------------------------------------------------------------------------------
WatchNext == UNCHANGED watchScope /\
  (\/ TickBegins \/ \E e \in DOMAIN tick : TickAppends(e) \/ TickSkips(e)
   \/ Prompt \/ SettleRecord \/ SettleDisarms \/ SettleAssess \/ Settle
   \/ Fail \/ FailDisarms \/ Pause \/ Revive
   \/ DeleteMarks \/ DeleteLogs \/ DeleteCloses
   \/ Restart \/ RebuildArms
   \/ \E w \in Waiters : \/ WaitGets(w) \/ WaitReads(w) \/ WaitChecks(w) \/ WaitSubscribes(w)
                         \/ WaitReceives(w) \/ WaitDrains(w) \/ WaitReturns(w) \/ WaitTimesOut(w))

-------------------------------------------------------------------------------
(* Properties *)

TurnsBefore(i) == Cardinality({j \in 1..(i - 1) : log[j].type = "turn_started"})

(* An assessment is filed in the turn whose transcript it judges: no tick that *)
(* began in one turn appends in a later one (the gen gate of monitor.assess),  *)
(* unless the rebuild armed a turn that had already ended.                     *)
AssessmentOwnTurn ==
  watchPast.late \/ \A i \in DOMAIN log : log[i].type = "assessed" => log[i].turn = TurnsBefore(i)

(* A settled turn gets no further assessment: between agent.settled and the    *)
(* next agent.turn_started there is none, however long the model call took.    *)
NoAssessmentAfterSettle ==
  watchPast.late \/
  \A i, j \in DOMAIN log : i < j /\ log[i].type = "settled" /\ log[j].type = "assessed"
                            => TurnsBefore(i) < TurnsBefore(j)

(* One timer per running turn, and none left behind: an agent at rest with no  *)
(* hook still to run has no armed timer, and a working turn has one.           *)
TimerFollowsTurn ==
  watchPast.late \/
  /\ (armed # 0 /\ disarming = {} /\ settler # "assess" /\ deleting \in {"no", "done"} => fsm = "running")
  /\ (status = "working" /\ registered /\ ~armPending /\ deleting = "no" => armed # 0)

(* No wake is lost between the baseline, the state check, the subscription and *)
(* the loop: a blocked wait with an empty channel that never overflowed has    *)
(* seen every event since its baseline, none of them a wake, and the agent has *)
(* neither settled nor failed.                                                 *)
NoLostWake ==
  \A w \in Waiters : waiter[w].at = "blocked" /\ live[w] = <<>> /\ w \notin watchPast.dropped =>
    /\ fsm # "idle" /\ status # "failed"
    /\ LET missed == SubSeq(log, waiter[w].after + 1, Len(log)) IN
       FoldLeft(Consume, [waiter[w] EXCEPT !.last = waiter[w].base], missed).changed = {}

(* A wait answered for an assessment alone saw the verdict change: some        *)
(* assessment after its baseline differs from the one before it.               *)
WakesOnlyOnTransition ==
  \A w \in Waiters : waiter[w].at = "done" /\ waiter[w].changed = {"assessment"} =>
    \E i \in (waiter[w].after + 1)..Len(log) : log[i].type = "assessed" /\ log[i].v # waiter[w].base

(* The monitor watches the running turn and no other: what it files, and when   *)
(* its timer is armed (Arm, Disarm, assess, SettleAssess).                      *)
MonitorFollowsTurn == AssessmentOwnTurn /\ NoAssessmentAfterSettle /\ TimerFollowsTurn

(* A wait is woken by every wake and by nothing else (Wait, consumeWakeEvents). *)
WakesExact == NoLostWake /\ WakesOnlyOnTransition

===============================================================================
