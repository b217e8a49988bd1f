---------------------------------- MODULE Pi ----------------------------------
(* The daemon's supervision of pi, its agent subprocess (daemon/pi.go), with   *)
(* the command endpoint that drives it (daemon/http.go) and the ordered        *)
(* shutdown (daemon/main.go).  One action per critical section: the mutex mu   *)
(* guards the process state, piQueueMu the tracker of pi's queue, and every    *)
(* generation of pi has a relay and a waiter of its own.  A steer text is the  *)
(* id of its command; the two halves of pi's queue are one sequence.           *)
EXTENDS Integers, Sequences

CONSTANTS
  PiClients,        \* the request handlers of POST /commands, numbered: the first free one serves
  CommandIds,       \* the command ids they use, numbered in the order of their first use
  MaxGenerations,   \* bound: pi processes launched
  BackoffInitial, BackoffMax, \* the backoff policy, in units of the clock
  DurationBits      \* width of a duration; the code's is 64

ASSUME PiAssumption ==
  /\ PiClients \subseteq Nat \ {0} /\ MaxGenerations \in Nat
  /\ BackoffInitial \in Nat /\ BackoffMax \in Nat \ {0}
  /\ DurationBits \in Nat \ {0} /\ 2^DurationBits \in Nat \ {0}

NoClient == 0
Generations == 1..MaxGenerations

VARIABLES
  handler,     \* per request: at, its command, the exit its backoff sleep was for
  cmds,        \* CommandQueue.cmds: the type each id was accepted with
  posts,       \* requests posted so far
  mu,          \* holder of mu across the two halves of an abort
  generation,  \* process generations started; also names p.cmd (0 is nil)
  running,     \* pi_running
  lastExitUnexpected, intentional, backoff, rapidStreak,
  proc,        \* per generation: unborn, live, exited, reaped, gone
  pipe,        \* per generation: command lines in its stdin
  piQueue,     \* per generation: the messages pi itself has queued
  out,         \* per generation: stdout lines the relay has not spooled
  relay,       \* per generation: reading, tracked (head line), closed, done
  queued,      \* queuedSteering and queuedFollowUp: the tracker
  piSpool,     \* the appends to the spool, stored or refused, how often: Spool.tla has the order
  shutdown,    \* up, terming, killed, down
  target,      \* the generation Shutdown was called for
  past,        \* history: what already happened, for the properties
  scope        \* the bounds of this behaviour: posts, ids, types, uptimes, gens and
               \* faults, a subset of {"exit", "launch", "pipe", "shutdown", "spool"}

procState == <<generation, running, lastExitUnexpected, intentional, backoff, rapidStreak>>
procs == <<proc, pipe, piQueue, out, relay>>
down == <<shutdown, target>>
piVars == <<handler, cmds, posts, mu, procState, procs, queued, piSpool, down, past, scope>>

Idle == [at |-> "idle", id |-> NoClient, type |-> "none", slept |-> 0]
Line(type, id) == [type |-> type, id |-> id]
Rec(type, gen, texts) == [type |-> type, gen |-> gen, texts |-> texts]
Copies(rec, stored) == IF <<rec, stored>> \in DOMAIN piSpool THEN piSpool[<<rec, stored>>] ELSE 0

(* notices.Append: an error is only logged, and the record dropped.            *)
Spools(rec) ==
  \E stored \in {TRUE} \cup IF "spool" \in scope.faults THEN {FALSE} ELSE {} :
    piSpool' = [a \in DOMAIN piSpool \cup {<<rec, stored>>} |->
                 IF a = <<rec, stored>> THEN Copies(rec, stored) + 1 ELSE piSpool[a]]

PiInit(bounds) ==
  /\ scope = bounds
  /\ handler = [c \in PiClients |-> Idle] /\ cmds = [i \in CommandIds |-> "none"] /\ posts = 0
  /\ mu = NoClient /\ generation = 0 /\ running = FALSE
  /\ lastExitUnexpected = FALSE /\ intentional = FALSE /\ backoff = 0 /\ rapidStreak = 0
  /\ proc = [g \in Generations |-> "unborn"] /\ pipe = [g \in Generations |-> <<>>]
  /\ piQueue = [g \in Generations |-> <<>>] /\ out = [g \in Generations |-> <<>>]
  /\ relay = [g \in Generations |-> "reading"]
  /\ queued = <<>> /\ piSpool = <<>> /\ shutdown = "up" /\ target = 0
  /\ past = [crashed |-> [g \in Generations |-> "none"], slept |-> [g \in Generations |-> 0], failed |-> {},
             wrote |-> [g \in Generations |-> 0],
             overlap |-> FALSE, phantom |-> FALSE, late |-> FALSE]

Up == shutdown # "down"

(* int64 arithmetic of time.Duration at DurationBits bits *)
Signed(n) == LET m == n % 2^DurationBits IN IF m >= 2^(DurationBits - 1) THEN m - 2^DurationBits ELSE m
Shl(n, k) == IF k >= DurationBits THEN 0 ELSE Signed(n * 2^k)

RapidBackoff(streak) ==
  LET d == Shl(BackoffInitial, streak - 1) IN IF d > BackoffMax \/ d <= 0 THEN BackoffMax ELSE d

-------------------------------------------------------------------------------
(* POST /commands: Accept, then Start and the write of SendCommand *)

Accept(c) ==
  /\ Up /\ handler[c].at = "idle" /\ (\A d \in PiClients : d < c => handler[d].at # "idle")
  /\ posts < scope.posts /\ posts' = posts + 1
  /\ \E id \in scope.ids, type \in scope.types :
       /\ cmds[id] \in {"none", type} /\ \A i \in CommandIds : i < id => cmds[i] # "none"
       /\ cmds' = [cmds EXCEPT ![id] = type]
       /\ handler' = [handler EXCEPT ![c] = [Idle EXCEPT !.at = "accepted", !.id = id, !.type = type]]
  /\ UNCHANGED <<mu, procState, procs, queued, piSpool, down, past>>

(* The launch itself, in the handler that holds mu; respawn is the decision    *)
(* read before the exit state is cleared.                                      *)
Launched(c, respawn) ==
  /\ lastExitUnexpected' = FALSE /\ intentional' = FALSE
  /\ \/ /\ generation < scope.gens
        /\ generation' = generation + 1 /\ running' = TRUE
        /\ proc' = [proc EXCEPT ![generation'] = "live"]
        /\ IF generation > 0 /\ respawn THEN Spools(Rec("pi_restart", generation', <<>>)) ELSE UNCHANGED piSpool
        /\ handler' = [handler EXCEPT ![c].at = "ready"]
        /\ past' = [past EXCEPT !.slept[generation'] = handler[c].slept,
                                !.late = @ \/ shutdown # "up"]
     \/ /\ "launch" \in scope.faults /\ generation \notin past.failed
        /\ handler' = [handler EXCEPT ![c] = Idle]
        /\ past' = [past EXCEPT !.failed = @ \cup {generation}]
        /\ UNCHANGED <<generation, running, proc, piSpool>>
  /\ UNCHANGED <<backoff, rapidStreak, pipe, piQueue, out, relay>>

Launch(c) == Launched(c, lastExitUnexpected)

Returns(c) ==
  /\ handler' = [handler EXCEPT ![c].at = "ready"]
  /\ UNCHANGED <<procState, procs, piSpool, past>>

Start(c) ==
  /\ Up /\ mu = NoClient /\ handler[c].at = "accepted"
  /\ CASE running -> Returns(c)
       [] ~running /\ lastExitUnexpected /\ backoff > 0 ->
            /\ handler' = [handler EXCEPT ![c].at = "sleeping", ![c].slept = generation]
            /\ UNCHANGED <<procState, procs, piSpool, past>>
       [] OTHER -> Launch(c)
  /\ UNCHANGED <<cmds, posts, mu, queued, down>>

\* Mutant: the sleeper does not look at running again.
WakeBlind(c) ==
  /\ Up /\ mu = NoClient /\ handler[c].at = "sleeping" /\ Launch(c)
  /\ UNCHANGED <<cmds, posts, mu, queued, down>>

Wake(c) ==
  /\ Up /\ mu = NoClient /\ handler[c].at = "sleeping"
  /\ IF running THEN Returns(c) ELSE Launch(c)
  /\ UNCHANGED <<cmds, posts, mu, queued, down>>

(* A line reaches stdin while the process lives; after that the write fails. *)
Reaches(line) == pipe' = IF proc[generation] = "live"
                         THEN [pipe EXCEPT ![generation] = Append(@, line)] ELSE pipe

SendCommand(c) ==
  /\ Up /\ mu = NoClient /\ handler[c].at = "ready" /\ handler[c].type # "abort"
  /\ LET steer == handler[c].type = "steer" IN
     /\ queued' = IF steer THEN Append(queued, handler[c].id) ELSE queued
     /\ past' = [past EXCEPT !.phantom = @ \/ (steer /\ proc[generation] # "live")]
  /\ Reaches(Line(handler[c].type, handler[c].id))
  /\ handler' = [handler EXCEPT ![c] = Idle]
  /\ UNCHANGED <<cmds, posts, mu, procState, proc, piQueue, out, relay, piSpool, down>>

\* Mutant: mu is released between the two lines of the pair.
AbortClearUnlocked(c) ==
  /\ Up /\ mu = NoClient /\ handler[c].at = "ready" /\ handler[c].type = "abort"
  /\ Reaches(Line("clear_queue", handler[c].id))
  /\ handler' = [handler EXCEPT ![c] = IF proc[generation] = "live" THEN [@ EXCEPT !.at = "cleared"] ELSE Idle]
  /\ UNCHANGED <<cmds, posts, mu, procState, proc, piQueue, out, relay, queued, piSpool, down, past>>

AbortClear(c) ==
  /\ Up /\ mu = NoClient /\ handler[c].at = "ready" /\ handler[c].type = "abort"
  /\ Reaches(Line("clear_queue", handler[c].id))
  /\ IF proc[generation] = "live"
     THEN handler' = [handler EXCEPT ![c].at = "cleared"] /\ mu' = c
     ELSE handler' = [handler EXCEPT ![c] = Idle] /\ UNCHANGED mu
  /\ UNCHANGED <<cmds, posts, procState, proc, piQueue, out, relay, queued, piSpool, down, past>>

(* drainNotice and the second line, mu still held *)
AbortDrain(c) ==
  /\ Up /\ handler[c].at = "cleared"
  /\ queued' = <<>>
  /\ IF queued = <<>> THEN UNCHANGED piSpool ELSE Spools(Rec("queue_drained", generation, queued))
  /\ Reaches(Line("abort", handler[c].id))
  /\ handler' = [handler EXCEPT ![c] = Idle] /\ mu' = NoClient
  /\ UNCHANGED <<cmds, posts, procState, proc, piQueue, out, relay, down, past>>

-------------------------------------------------------------------------------
(* pi itself: the built-in one of runFakePi, reading its stdin line by line *)

Emits(g, rec) == out' = [out EXCEPT ![g] = Append(@, rec)]

PiReads(g) ==
  /\ proc[g] = "live" /\ pipe[g] # <<>> /\ pipe' = [pipe EXCEPT ![g] = Tail(@)]
  /\ LET line == Head(pipe[g])
         now == CASE line.type = "steer" -> Append(piQueue[g], line.id)
                  [] line.type = "clear_queue" -> <<>>
                  [] OTHER -> piQueue[g] IN
     /\ piQueue' = [piQueue EXCEPT ![g] = now]
     /\ Emits(g, CASE line.type = "prompt" -> Rec("turn", g, <<line.id>>)
                   [] line.type = "abort" -> Rec("agent_settled", g, <<>>)
                   [] OTHER -> Rec("queue_update", g, now))
     /\ past' = [past EXCEPT !.wrote[g] = @ + 1]
  /\ UNCHANGED <<handler, cmds, posts, mu, procState, proc, relay, queued, piSpool, down>>

PiExits(g) ==
  /\ Up /\ proc[g] = "live"
  /\ "exit" \in scope.faults \/ (shutdown # "up" /\ target = g)
  /\ proc' = [proc EXCEPT ![g] = "exited"]
  /\ UNCHANGED <<handler, cmds, posts, mu, procState, pipe, piQueue, out, relay, queued, piSpool, down, past>>

(* awaitExit, under mu.  Wait closes the read end of stdout as it returns:     *)
(* lines the relay has not taken out of the pipe by then are gone.             *)
AwaitExit(g) ==
  /\ Up /\ mu = NoClient /\ proc[g] = "exited" /\ proc' = [proc EXCEPT ![g] = "reaped"]
  /\ running' = (running /\ generation # g)
  /\ \E k \in 0..Len(out[g]) :
       /\ k = Len(out[g]) \/ ("pipe" \in scope.faults /\ (relay[g] = "tracked" => k > 0))
       /\ out' = [out EXCEPT ![g] = SubSeq(@, 1, k)]
  /\ IF intentional THEN UNCHANGED <<lastExitUnexpected, backoff, rapidStreak, past>>
     ELSE \E uptime \in scope.uptimes :
       /\ lastExitUnexpected' = TRUE
       /\ past' = [past EXCEPT !.crashed[g] = uptime]
       /\ rapidStreak' = CASE uptime = "rapid" -> rapidStreak + 1 [] uptime = "stable" -> 0 [] OTHER -> rapidStreak
       /\ backoff' = CASE uptime = "rapid" -> RapidBackoff(rapidStreak') [] uptime = "stable" -> 0 [] OTHER -> backoff
  /\ UNCHANGED <<handler, cmds, posts, mu, generation, intentional, pipe, piQueue, relay, queued, piSpool, down>>

(* awaitExit after mu is released: the notice, then the tracker *)

ExitReset(g) ==
  /\ Up /\ proc[g] = "reaped" /\ proc' = [proc EXCEPT ![g] = "gone"]
  /\ Spools(Rec("pi_exit", g, <<>>))
  /\ queued' = <<>>
  /\ past' = [past EXCEPT !.overlap = @ \/ g < generation]
  /\ UNCHANGED <<handler, cmds, posts, mu, procState, pipe, piQueue, out, relay, down>>

-------------------------------------------------------------------------------
(* relayStdout: a queue_update is tracked, then spooled; other lines are       *)
(* spooled.  It ends at end of file, or with a notice when Wait has closed the *)
(* pipe under it.                                                              *)
Closed(g) == proc[g] \in {"reaped", "gone"}

RelayTrack(g) ==
  /\ Up /\ relay[g] = "reading" /\ out[g] # <<>> /\ Head(out[g]).type = "queue_update"
  /\ queued' = Head(out[g]).texts /\ relay' = [relay EXCEPT ![g] = "tracked"]
  /\ past' = [past EXCEPT !.overlap = @ \/ g < generation \/ proc[g] = "gone"]
  /\ UNCHANGED <<handler, cmds, posts, mu, procState, proc, pipe, piQueue, out, piSpool, down>>

RelaySpool(g) ==
  /\ Up /\ out[g] # <<>>
  /\ relay[g] = IF Head(out[g]).type = "queue_update" THEN "tracked" ELSE "reading"
  /\ Spools(Rec("stdout", g, <<>>)) /\ out' = [out EXCEPT ![g] = Tail(@)]
  /\ relay' = [relay EXCEPT ![g] = "reading"]
  /\ UNCHANGED <<handler, cmds, posts, mu, procState, proc, pipe, piQueue, queued, down, past>>

\* Mutant: a relay that fails ends like one at end of file.
RelayEndsQuietly(g) ==
  /\ Up /\ relay[g] = "reading" /\ out[g] = <<>> /\ (proc[g] = "exited" \/ Closed(g))
  /\ relay' = [relay EXCEPT ![g] = "done"]
  /\ UNCHANGED <<handler, cmds, posts, mu, procState, proc, pipe, piQueue, out, queued, piSpool, down, past>>

RelayEnds(g) ==
  /\ Up /\ relay[g] = "reading" /\ out[g] = <<>> /\ (proc[g] = "exited" \/ Closed(g))
  /\ relay' = [relay EXCEPT ![g] = "done"]
  /\ IF Closed(g) THEN Spools(Rec("pi_stderr", g, <<>>)) ELSE UNCHANGED piSpool
  /\ UNCHANGED <<handler, cmds, posts, mu, procState, proc, pipe, piQueue, out, queued, down, past>>

-------------------------------------------------------------------------------
(* SIGTERM: Shutdown, then exit.  The server keeps serving meanwhile. *)

ShutdownBegins ==
  /\ "shutdown" \in scope.faults /\ shutdown = "up" /\ mu = NoClient
  /\ intentional' = TRUE /\ target' = generation
  /\ shutdown' = IF generation = 0 THEN "down" ELSE "terming"
  /\ UNCHANGED <<handler, cmds, posts, mu, generation, running, lastExitUnexpected, backoff, rapidStreak,
                 procs, queued, piSpool, past>>

GraceEnds ==
  /\ shutdown = "terming" /\ running /\ shutdown' = "killed"
  /\ proc' = [proc EXCEPT ![target] = IF @ = "live" THEN "exited" ELSE @]
  /\ UNCHANGED <<handler, cmds, posts, mu, procState, pipe, piQueue, out, relay, queued, piSpool, target, past>>

DaemonExits ==
  /\ shutdown = "killed" \/ (shutdown = "terming" /\ ~running)
  /\ shutdown' = "down"
  /\ UNCHANGED <<handler, cmds, posts, mu, procState, procs, queued, piSpool, target, past>>

PiNext ==
  /\ UNCHANGED scope
  /\ \/ \E c \in PiClients : Accept(c) \/ Start(c) \/ Wake(c) \/ SendCommand(c) \/ AbortClear(c) \/ AbortDrain(c)
     \/ \E g \in Generations : PiReads(g) \/ PiExits(g) \/ AwaitExit(g) \/ ExitReset(g)
                               \/ RelayTrack(g) \/ RelaySpool(g) \/ RelayEnds(g)
     \/ ShutdownBegins \/ GraceEnds \/ DaemonExits


-------------------------------------------------------------------------------
(* Properties *)

(* The records of a kind that the spool has stored or refused.                 *)
Offered(type, g) == Copies(Rec(type, g, <<>>), TRUE) + Copies(Rec(type, g, <<>>), FALSE)

(* Two requests that find pi dead both sleep out the backoff without mu (Start,*)
(* pi.go:142); only one may launch.  While a pi lives it is the latest one and *)
(* /status says pi_running.                                                    *)
OneLivePi == \A g \in Generations : proc[g] = "live" => g = generation /\ running

(* README "every respawn after an unexpected exit spools pi_restart": it gives *)
(* the spool exactly one, whoever launches it, unless a launch failed          *)
(* meanwhile (a failed Start has already cleared the exit state), and none     *)
(* after an intended exit.                                                     *)
RestartNoticed ==
  \A g \in 2..generation :
    Offered("pi_restart", g) = IF past.crashed[g - 1] # "none" /\ g - 1 \notin past.failed THEN 1 ELSE 0

(* A process that exited rapidly is not replaced at once: the request that     *)
(* launches the next one has slept out a backoff (Start, pi.go:142), its own   *)
(* or that of an earlier exit, unless a launch failed meanwhile.               *)
RapidExitHeld ==
  \A g \in 2..generation : past.crashed[g - 1] = "rapid" /\ g - 1 \notin past.failed => past.slept[g] > 0

(* The backoff of a streak of rapid exits (awaitExit, pi.go:315) stays within  *)
(* its cap and never shrinks, beyond the streak whose shift overflows.         *)
BackoffMonotone ==
  \A k \in 1..(2 * DurationBits) :
    /\ RapidBackoff(k) \in 1..BackoffMax
    /\ RapidBackoff(k) <= RapidBackoff(k + 1)

(* "pi's abort alone continues queued messages, so the order is the semantics" *)
(* (SendCommand): when pi comes to the abort line of a pair, its queue is      *)
(* empty, whatever other requests steer meanwhile.                             *)
AbortFindsQueueEmpty ==
  \A g \in Generations : pipe[g] # <<>> /\ Head(pipe[g]).type = "abort" => piQueue[g] = <<>>

Quiet ==
  /\ \A c \in PiClients : handler[c].at = "idle"
  /\ \A g \in Generations : proc[g] \in {"unborn", "gone"} \/ (proc[g] = "live" /\ pipe[g] = <<>>)
  /\ \A g \in Generations : out[g] = <<>>

(* Once everything written to pi has come back, the tracker that an abort      *)
(* reports from is pi's own queue, unless a step of an earlier process ran     *)
(* late (awaitExit clears the tracker after releasing mu, and a relay may lag  *)
(* behind it) or a steer was tracked whose write failed.                       *)
TrackerAgrees ==
  Quiet /\ generation > 0 /\ ~past.overlap /\ ~past.phantom =>
    queued = IF proc[generation] = "live" THEN piQueue[generation] ELSE <<>>

(* A line pi wrote is in the spool, or the spool refused it, or its loss gives *)
(* the spool a pi_stderr notice: Wait closes the stdout pipe while the relay   *)
(* may still be reading it (relayStdout, awaitExit).                           *)
StdoutAccounted ==
  \A g \in Generations : relay[g] = "done" =>
    \/ Offered("pi_stderr", g) = 1
    \/ Offered("stdout", g) = past.wrote[g]

(* "On daemon SIGTERM pi is killed first, then the daemon exits": no pi is     *)
(* left behind, unless a request launched one after Shutdown had begun.        *)
NoOrphan == shutdown = "down" /\ ~past.late => \A g \in Generations : proc[g] # "live"

(* The supervisor of pi, whatever exits, sleeps and launches interleave: one    *)
(* pi at a time and none left behind, every unexpected exit noticed once and a  *)
(* rapid one held back (Start, awaitExit, Shutdown).                            *)
Supervised == OneLivePi /\ NoOrphan /\ RestartNoticed /\ RapidExitHeld /\ BackoffMonotone

(* The daemon knows pi's queue when it has to act on it: an abort comes to pi   *)
(* with nothing queued behind it, and the tracker it reports from is pi's own   *)
(* queue (SendCommand, trackQueueUpdate).                                       *)
QueueKnown == AbortFindsQueueEmpty /\ TrackerAgrees

===============================================================================
