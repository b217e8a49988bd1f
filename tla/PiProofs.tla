------------------------------- MODULE PiProofs -------------------------------
(* The supervision of pi holds for every number of requests, command ids,      *)
(* generations, backoff policies and bounds of a behaviour.  Three inductive   *)
(* invariants: SupInv for the processes, the exit state and the notices        *)
(* (Supervised), LossInv for the lines a relay still has to spool              *)
(* (StdoutAccounted) and QueueInv for what is under way between a request      *)
(* and pi and back (QueueKnown); the last two rest on the first, and on the    *)
(* types of the queues.                                                        *)
EXTENDS Pi, SequenceTheorems, TLAPS

(* The behaviours of the module within some bounds.                         *)
PiSpec(bounds) == PiInit(bounds) /\ [][PiNext]_piVars

Uptimes == {"rapid", "stable", "between"}

(* The bounds a behaviour may have.                                         *)
Scopes ==
  [posts : Nat, ids : SUBSET CommandIds, types : SUBSET STRING, uptimes : SUBSET Uptimes,
   gens : 0..MaxGenerations, faults : SUBSET STRING]

Handlers ==
  [at : {"idle", "accepted", "sleeping", "ready", "cleared"}, id : CommandIds \cup {NoClient},
   type : STRING \cup {"none"}, slept : Nat]

Histories ==
  [crashed : [Generations -> Uptimes \cup {"none"}], slept : [Generations -> Nat], failed : SUBSET Nat,
   wrote : [Generations -> Nat], overlap : BOOLEAN, phantom : BOOLEAN, late : BOOLEAN]

(* The types of the supervisor state.                                       *)
PiTypes ==
  /\ scope \in Scopes /\ generation \in 0..scope.gens
  /\ running \in BOOLEAN /\ lastExitUnexpected \in BOOLEAN /\ intentional \in BOOLEAN
  /\ backoff \in Nat /\ rapidStreak \in Nat
  /\ handler \in [PiClients -> Handlers] /\ mu \in PiClients \cup {NoClient}
  /\ proc \in [Generations -> {"unborn", "live", "exited", "reaped", "gone"}]
  /\ past \in Histories
  /\ shutdown \in {"up", "terming", "killed", "down"} /\ target \in Nat
  /\ piSpool \in [DOMAIN piSpool -> Nat]

(* Only the latest process may run, and pi_running says so.                 *)
Latest ==
  /\ \A g \in Generations : /\ proc[g] = "unborn" <=> g > generation
                            /\ g < generation => proc[g] \in {"reaped", "gone"}
  /\ running <=> generation > 0 /\ proc[generation] \in {"live", "exited"}

(* Unless a launch came late, the shutdown is about the latest process.     *)
Stopped ==
  ~past.late =>
    /\ shutdown \in {"terming", "killed"} => target = generation
    /\ shutdown = "killed" => \A g \in Generations : proc[g] # "live"
    /\ NoOrphan

(* The exit state is that of the latest process, and no notice came early.  *)
Noticed ==
  /\ \A g \in Generations : g > generation => Offered("pi_restart", g) = 0 /\ past.crashed[g] = "none"
  /\ \A g \in past.failed : g <= generation
  /\ generation = 0 => ~lastExitUnexpected
  /\ generation > 0 =>
       /\ lastExitUnexpected <=> past.crashed[generation] # "none" /\ generation \notin past.failed
       /\ running => past.crashed[generation] = "none" /\ generation \notin past.failed
  /\ RestartNoticed

(* A rapid exit has a backoff, and a request that slept has slept for some  *)
(* exit.                                                                    *)
Held ==
  /\ lastExitUnexpected /\ past.crashed[generation] = "rapid" => backoff > 0
  /\ \A c \in PiClients : handler[c].at = "sleeping" => handler[c].slept > 0
  /\ RapidExitHeld

SupInv == PiTypes /\ Latest /\ Stopped /\ Noticed /\ Held

(* What is written to pi, and what it writes.                               *)
Commands == [type : STRING \cup {"none", "clear_queue", "abort"}, id : CommandIds]
Lines == [type : {"turn", "agent_settled", "queue_update"}, gen : Generations, texts : Seq(CommandIds)]

QueueTypes ==
  /\ pipe \in [Generations -> Seq(Commands)] /\ out \in [Generations -> Seq(Lines)]
  /\ piQueue \in [Generations -> Seq(CommandIds)] /\ queued \in Seq(CommandIds)
  /\ relay \in [Generations -> {"reading", "tracked", "done"}]
  /\ \A c \in PiClients : handler[c].at # "idle" => handler[c].id \in CommandIds

(* What pi wrote is spooled or still to be spooled until Wait has closed    *)
(* the pipe; a relay that ended before had nothing left, one that ended     *)
(* after left a notice.                                                     *)
LossOf(g) ==
  /\ relay[g] = "done" => proc[g] \in {"exited", "reaped", "gone"}
  /\ relay[g] # "done" => Offered("pi_stderr", g) = 0
  /\ ~Closed(g) => Offered("stdout", g) + Len(out[g]) = past.wrote[g]
  /\ relay[g] = "done" => Offered("pi_stderr", g) = 1 \/ Offered("stdout", g) = past.wrote[g]

LossInv == \A g \in Generations : LossOf(g)

(* In the n lines of a pipe, an abort follows its clear_queue, or finds    *)
(* what is held empty; and one may be written now.                         *)
Paired(lines, n, held) ==
  \A i \in 1..n : lines[i].type = "abort" =>
    IF i = 1 THEN held = <<>> ELSE lines[i - 1].type = "clear_queue"

Cleared(lines, n, held) == IF n = 0 THEN held = <<>> ELSE lines[n].type = "clear_queue"

(* The i-th of the n lines of a relay is an update it has not tracked.     *)
Fresh(lines, n, at, i) == i \in 1..n /\ lines[i].type = "queue_update" /\ (i = 1 => at # "tracked")

NoneFresh(lines, n, at) == \A i \in 1..n : ~Fresh(lines, n, at, i)

LastIs(lines, n, at, held) ==
  \A i \in 1..n : Fresh(lines, n, at, i) /\ (\A j \in 1..n : Fresh(lines, n, at, j) => j <= i) =>
    lines[i].texts = held

(* None of the n lines of a pipe changes what pi holds.                    *)
NoneChanges(lines, n) == \A i \in 1..n : lines[i].type \in {"prompt", "abort"}

(* mu is held exactly between the two lines of an abort, and no line of     *)
(* another request comes between them.                                      *)
Pairs ==
  /\ \A c \in PiClients : /\ handler[c].at = "cleared" <=> mu = c
                          /\ handler[c].at \in {"ready", "cleared"} => generation > 0
  /\ \A g \in Generations : g > generation => pipe[g] = <<>> /\ piQueue[g] = <<>> /\ out[g] = <<>>
  /\ \A g \in Generations : Paired(pipe[g], Len(pipe[g]), piQueue[g])
  /\ mu # NoClient => Cleared(pipe[generation], Len(pipe[generation]), piQueue[generation])

(* A relay has tracked nothing but its head line, and while pi runs the     *)
(* last update not yet tracked is what pi holds.                            *)
Updates ==
  \A g \in Generations :
    /\ relay[g] = "tracked" => Len(out[g]) > 0 /\ out[g][1].type = "queue_update"
    /\ proc[g] \in {"unborn", "live"} => LastIs(out[g], Len(out[g]), relay[g], piQueue[g])

(* No step of an earlier process ran late, and none is still to come.      *)
Clean == ~past.overlap /\ ~past.phantom /\ \A g \in Generations : g < generation => proc[g] = "gone"

(* Nothing is under way to pi or back that changes what it holds.          *)
CaughtUp(g) == NoneChanges(pipe[g], Len(pipe[g])) /\ NoneFresh(out[g], Len(out[g]), relay[g])

(* The tracker is empty when there is no pi, and what pi holds once it has  *)
(* caught up.                                                               *)
Agrees ==
  Clean =>
    /\ generation = 0 \/ proc[generation] = "gone" => queued = <<>>
    /\ generation > 0 /\ proc[generation] = "live" /\ CaughtUp(generation) => queued = piQueue[generation]

QueueInv == Pairs /\ Updates /\ Agrees

-------------------------------------------------------------------------------

(* The counts of the spool: one of the two of the record goes up.          *)
LEMMA SpoolsCounts ==
  ASSUME piSpool \in [DOMAIN piSpool -> Nat], NEW rec, Spools(rec)
  PROVE  /\ piSpool' \in [DOMAIN piSpool' -> Nat]
         /\ Copies(rec, TRUE) \in Nat /\ Copies(rec, FALSE) \in Nat
         /\ Copies(rec, TRUE)' + Copies(rec, FALSE)' = Copies(rec, TRUE) + Copies(rec, FALSE) + 1
         /\ \A r, stored : r # rec => Copies(r, stored)' = Copies(r, stored)
<1>1. Copies(rec, TRUE) \in Nat /\ Copies(rec, FALSE) \in Nat
  BY DEF Copies
<1>2. PICK kept \in BOOLEAN :
        piSpool' = [a \in DOMAIN piSpool \cup {<<rec, kept>>} |->
                     IF a = <<rec, kept>> THEN Copies(rec, kept) + 1 ELSE piSpool[a]]
  BY DEF Spools
<1>3. DOMAIN piSpool' = DOMAIN piSpool \cup {<<rec, kept>>}
  BY <1>2
<1>4. \A a \in DOMAIN piSpool' : piSpool'[a] = IF a = <<rec, kept>> THEN Copies(rec, kept) + 1 ELSE piSpool[a]
  BY <1>2
<1>5. piSpool' \in [DOMAIN piSpool' -> Nat]
  <2>1. Copies(rec, kept) \in Nat
    BY <1>1
  <2>2. \A a \in DOMAIN piSpool' : piSpool'[a] \in Nat
    BY <1>3, <1>4, <2>1
  <2>3. piSpool' = [a \in DOMAIN piSpool' |-> piSpool'[a]]
    BY <1>2, <1>3
  <2> QED  BY <2>2, <2>3
<1>6. Copies(rec, kept)' = Copies(rec, kept) + 1
  BY <1>3, <1>4 DEF Copies
<1>7. ASSUME NEW r, NEW stored, <<r, stored>> # <<rec, kept>> PROVE Copies(r, stored)' = Copies(r, stored)
  BY <1>3, <1>4, <1>7 DEF Copies
<1>8. Copies(rec, TRUE)' + Copies(rec, FALSE)' = Copies(rec, TRUE) + Copies(rec, FALSE) + 1
  <2>1. PICK yes : yes = Copies(rec, TRUE)
    BY Zenon
  <2>2. PICK no : no = Copies(rec, FALSE)
    BY Zenon
  <2>3. yes \in Nat /\ no \in Nat
    BY Zenon, <1>1, <2>1, <2>2
  <2>4. yes + 1 + no = yes + no + 1 /\ yes + (no + 1) = yes + no + 1
    BY <2>3
  <2>5. CASE kept = TRUE
    <3>1. Copies(rec, TRUE)' = yes + 1
      BY Zenon, <1>6, <2>1, <2>5
    <3>2. Copies(rec, FALSE)' = no
      BY Zenon, <1>7, <2>2, <2>5
    <3> QED  BY Zenon, <2>1, <2>2, <2>4, <3>1, <3>2
  <2>6. CASE kept = FALSE
    <3>1. Copies(rec, FALSE)' = no + 1
      BY Zenon, <1>6, <2>2, <2>6
    <3>2. Copies(rec, TRUE)' = yes
      BY Zenon, <1>7, <2>1, <2>6
    <3> QED  BY Zenon, <2>1, <2>2, <2>4, <3>1, <3>2
  <2> QED  BY <2>5, <2>6
<1>9. ASSUME NEW r, NEW stored, r # rec PROVE Copies(r, stored)' = Copies(r, stored)
  BY <1>7, <1>9
<1> QED  BY <1>1, <1>5, <1>8, <1>9

(* A record counts for its kind and generation only.                       *)
LEMMA SpoolsOthers ==
  ASSUME piSpool \in [DOMAIN piSpool -> Nat], NEW type, NEW g, NEW texts, Spools(Rec(type, g, texts)),
         NEW kind, NEW h, kind # type \/ h # g
  PROVE  Offered(kind, h)' = Offered(kind, h)
<1>1. Rec(kind, h, <<>>) # Rec(type, g, texts)
  BY DEF Rec
<1> QED  BY <1>1, SpoolsCounts DEF Offered

(* What is counted is a number.                                            *)
LEMMA SpooledNat ==
  ASSUME piSpool \in [DOMAIN piSpool -> Nat], NEW type, NEW g
  PROVE  Offered(type, g) \in Nat
BY DEF Offered, Copies

(* A notice without texts is counted once more.                             *)
LEMMA SpoolsOne ==
  ASSUME piSpool \in [DOMAIN piSpool -> Nat], NEW type, NEW g, Spools(Rec(type, g, <<>>))
  PROVE  Offered(type, g) \in Nat /\ Offered(type, g)' = Offered(type, g) + 1
<1>1. /\ Copies(Rec(type, g, <<>>), TRUE) \in Nat /\ Copies(Rec(type, g, <<>>), FALSE) \in Nat
      /\ Copies(Rec(type, g, <<>>), TRUE)' + Copies(Rec(type, g, <<>>), FALSE)'
         = Copies(Rec(type, g, <<>>), TRUE) + Copies(Rec(type, g, <<>>), FALSE) + 1
  BY Zenon, SpoolsCounts DEF Rec
<1>2. Offered(type, g) \in Nat
  BY SpooledNat
<1> QED  BY Zenon, <1>1, <1>2 DEF Offered, Rec

(* The backoff of a rapid exit is never zero: a shift that overflows is    *)
(* replaced by the cap.                                                    *)
LEMMA SignedInt == ASSUME NEW n \in Int PROVE Signed(n) \in Int
<1>1. 2^DurationBits \in Nat \ {0} /\ 2^(DurationBits - 1) \in Int
  BY PiAssumption
<1>2. n % 2^DurationBits \in Int
  BY <1>1
<1> QED  BY <1>1, <1>2 DEF Signed

(* awaitExit: the backoff of a rapid exit is never zero, beyond the streak  *)
(* whose shift overflows.                                                   *)
LEMMA BackoffPositive ==
  ASSUME NEW streak \in Nat \ {0} PROVE RapidBackoff(streak) \in Nat /\ RapidBackoff(streak) > 0
<1>1. BackoffMax \in Nat /\ BackoffMax > 0 /\ BackoffInitial \in Nat /\ DurationBits \in Nat /\ DurationBits > 0
  BY PiAssumption
<1> DEFINE d == Shl(BackoffInitial, streak - 1)
<1>2. d \in Int
  <2>1. 2^(streak - 1) \in Int
    OBVIOUS
  <2>2. BackoffInitial * 2^(streak - 1) \in Int
    BY <1>1, <2>1
  <2> QED  BY <2>2, SignedInt DEF Shl
<1> HIDE DEF d
<1> QED  BY <1>1, <1>2 DEF RapidBackoff, d

(* Nothing spooled, nothing counted.                                        *)
LEMMA SpoolSame ==
  ASSUME UNCHANGED piSpool PROVE \A type, g : Offered(type, g)' = Offered(type, g)
BY DEF Offered, Copies

(* A request moves on, the others stay.                                    *)
LEMMA HandlerMoves ==
  ASSUME handler \in [PiClients -> Handlers], NEW c \in PiClients, NEW h \in Handlers,
         handler' = [handler EXCEPT ![c] = h]
  PROVE  /\ handler' \in [PiClients -> Handlers]
         /\ \A d \in PiClients : handler'[d] = IF d = c THEN h ELSE handler[d]
OBVIOUS

(* A request moves to its next step with the command it has.                *)
LEMMA HandlerAt ==
  ASSUME handler \in [PiClients -> Handlers], NEW c \in PiClients,
         NEW at \in {"idle", "accepted", "sleeping", "ready", "cleared"},
         handler' = [handler EXCEPT ![c].at = at]
  PROVE  /\ handler' \in [PiClients -> Handlers]
         /\ \A d \in PiClients : d # c => handler'[d] = handler[d]
         /\ handler'[c].at = at /\ handler'[c].id = handler[c].id
         /\ handler'[c].type = handler[c].type /\ handler'[c].slept = handler[c].slept
BY DEF Handlers

(* A request that is over is a handler at rest.                             *)
LEMMA IdleHandler == Idle \in Handlers /\ Idle.at = "idle"
BY DEF Idle, Handlers

(* A step that does not touch the supervisor's state.                      *)
LEMMA SupKept ==
  ASSUME SupInv, PiTypes',
         UNCHANGED <<generation, running, lastExitUnexpected, backoff, proc, shutdown, target>>,
         past'.crashed = past.crashed, past'.failed = past.failed, past'.slept = past.slept,
         past'.late = past.late,
         \A g \in Generations : Offered("pi_restart", g)' = Offered("pi_restart", g),
         \A c \in PiClients : handler'[c].at = "sleeping" => handler'[c].slept > 0
  PROVE  SupInv'
<1>0. generation \in Nat /\ generation <= MaxGenerations
  BY PiAssumption DEF SupInv, PiTypes, Scopes
<1>1. Latest'
  BY DEF SupInv, Latest
<1>2. Stopped'
  BY DEF SupInv, Stopped, NoOrphan
<1>3. Noticed'
  <2>1. RestartNoticed'
    BY <1>0, PiAssumption DEF SupInv, Noticed, RestartNoticed, Generations
  <2> QED  BY <2>1 DEF SupInv, Noticed
<1>4. Held'
  BY DEF SupInv, Held, RapidExitHeld
<1> QED  BY <1>1, <1>2, <1>3, <1>4 DEF SupInv

(* POST /commands is accepted: no process is touched.                       *)
LEMMA SupAccept ==
  ASSUME SupInv, UNCHANGED scope, NEW c \in PiClients, Accept(c) PROVE SupInv'
<1>1. PICK id \in scope.ids, type \in scope.types :
        handler' = [handler EXCEPT ![c] = [Idle EXCEPT !.at = "accepted", !.id = id, !.type = type]]
  BY Zenon DEF Accept
<1>2. UNCHANGED <<mu, generation, running, lastExitUnexpected, intentional, backoff, rapidStreak, proc,
                  piSpool, shutdown, target, past>>
  BY DEF Accept, procState, procs, down
<1> DEFINE h == [Idle EXCEPT !.at = "accepted", !.id = id, !.type = type]
<1>3. h \in Handlers /\ h.at = "accepted"
  BY Zenon DEF SupInv, PiTypes, Scopes, Handlers, Idle
<1>4. handler \in [PiClients -> Handlers]
  BY DEF SupInv, PiTypes
<1>5. /\ handler' \in [PiClients -> Handlers]
      /\ \A d \in PiClients : handler'[d] = IF d = c THEN h ELSE handler[d]
  <2> HIDE DEF h
  <2>1. handler' = [handler EXCEPT ![c] = h]
    BY <1>1 DEF h
  <2> QED  BY <1>3, <1>4, <2>1, HandlerMoves
<1>6. PiTypes'
  BY <1>2, <1>5 DEF SupInv, PiTypes
<1>7. \A d \in PiClients : handler'[d].at = "sleeping" => handler'[d].slept > 0
  <2> HIDE DEF h
  <2> QED  BY <1>3, <1>5 DEF SupInv, Held
<1> QED  BY <1>2, <1>6, <1>7, SpoolSame, SupKept

(* A step of a request that leaves pi and the history of its processes.    *)
LEMMA SupHandler ==
  ASSUME SupInv, UNCHANGED scope, NEW c \in PiClients,
         handler' \in [PiClients -> Handlers], \A d \in PiClients : d # c => handler'[d] = handler[d],
         handler'[c].at # "sleeping", mu' \in PiClients \cup {NoClient},
         UNCHANGED <<generation, running, lastExitUnexpected, intentional, backoff, rapidStreak, proc,
                     shutdown, target>>,
         past' \in Histories,
         past'.crashed = past.crashed, past'.failed = past.failed, past'.slept = past.slept,
         past'.late = past.late,
         piSpool' \in [DOMAIN piSpool' -> Nat],
         \A g \in Generations : Offered("pi_restart", g)' = Offered("pi_restart", g)
  PROVE  SupInv'
<1>1. PiTypes'
  BY DEF SupInv, PiTypes
<1>2. \A d \in PiClients : handler'[d].at = "sleeping" => handler'[d].slept > 0
  BY DEF SupInv, Held
<1> QED  BY <1>1, <1>2, SupKept

(* Start finds pi running and returns.                                      *)
LEMMA SupReturns ==
  ASSUME SupInv, UNCHANGED <<scope, mu, down>>, NEW c \in PiClients, Returns(c) PROVE SupInv'
<1>1. handler' = [handler EXCEPT ![c].at = "ready"]
  BY DEF Returns
<1>2. UNCHANGED <<generation, running, lastExitUnexpected, intentional, backoff, rapidStreak, proc,
                  piSpool, shutdown, target, past>>
  BY DEF Returns, procState, procs, down
<1>3. /\ handler \in [PiClients -> Handlers] /\ mu \in PiClients \cup {NoClient} /\ past \in Histories
      /\ piSpool \in [DOMAIN piSpool -> Nat]
  BY DEF SupInv, PiTypes
<1>4. /\ handler' \in [PiClients -> Handlers] /\ \A d \in PiClients : d # c => handler'[d] = handler[d]
      /\ handler'[c].at = "ready"
  BY Zenon, <1>1, <1>3, HandlerAt
<1> QED  BY <1>2, <1>3, <1>4, SpoolSame, SupHandler

(* Start, when the exit state asks for a sleep.                            *)
LEMMA SupSleeps ==
  ASSUME SupInv, UNCHANGED <<scope, mu, down, procState, procs, piSpool, past>>, NEW c \in PiClients,
         lastExitUnexpected,
         handler' = [handler EXCEPT ![c].at = "sleeping", ![c].slept = generation]
  PROVE  SupInv'
<1>1. UNCHANGED <<generation, running, lastExitUnexpected, intentional, backoff, rapidStreak, proc,
                  piSpool, shutdown, target, past>>
  BY DEF procState, procs, down
<1>2. generation \in Nat /\ generation > 0
  BY PiAssumption DEF SupInv, PiTypes, Scopes, Noticed
<1>3. handler \in [PiClients -> Handlers]
  BY DEF SupInv, PiTypes
<1>4. /\ handler' \in [PiClients -> Handlers] /\ \A d \in PiClients : d # c => handler'[d] = handler[d]
      /\ handler'[c].slept = generation
  BY Zenon, <1>2, <1>3 DEF Handlers
<1>5. PiTypes'
  BY <1>1, <1>4 DEF SupInv, PiTypes
<1>6. \A d \in PiClients : handler'[d].at = "sleeping" => handler'[d].slept > 0
  BY <1>2, <1>4 DEF SupInv, Held
<1> QED  BY Zenon, <1>1, <1>5, <1>6, SpoolSame, SupKept

(* A command is written: no process is touched.                             *)
LEMMA SupSendCommand ==
  ASSUME SupInv, UNCHANGED scope, NEW c \in PiClients, SendCommand(c) PROVE SupInv'
<1>1. handler' = [handler EXCEPT ![c] = Idle]
  BY DEF SendCommand
<1>2. UNCHANGED <<generation, running, lastExitUnexpected, intentional, backoff, rapidStreak, proc,
                  piSpool, shutdown, target, mu>>
  BY DEF SendCommand, procState, down
<1>3. /\ handler \in [PiClients -> Handlers] /\ mu \in PiClients \cup {NoClient} /\ past \in Histories
      /\ piSpool \in [DOMAIN piSpool -> Nat]
  BY DEF SupInv, PiTypes
<1>4. /\ handler' \in [PiClients -> Handlers] /\ \A d \in PiClients : d # c => handler'[d] = handler[d]
      /\ handler'[c].at # "sleeping"
  BY <1>1, <1>3, HandlerMoves, IdleHandler
<1> DEFINE b == past.phantom \/ (handler[c].type = "steer" /\ proc[generation] # "live")
<1>5. past' = [past EXCEPT !.phantom = b]
  BY DEF SendCommand
<1>6. b \in BOOLEAN
  OBVIOUS
<1>7. /\ past' \in Histories
      /\ past'.crashed = past.crashed /\ past'.failed = past.failed /\ past'.slept = past.slept
      /\ past'.late = past.late
  <2> HIDE DEF b
  <2> QED  BY <1>3, <1>5, <1>6 DEF Histories
<1> HIDE DEF b
<1> QED  BY <1>2, <1>3, <1>4, <1>7, SpoolSame, SupHandler

(* The first line of an abort: no process is touched.                       *)
LEMMA SupAbortClear ==
  ASSUME SupInv, UNCHANGED scope, NEW c \in PiClients, AbortClear(c) PROVE SupInv'
<1>1. \/ handler' = [handler EXCEPT ![c].at = "cleared"] /\ mu' = c
      \/ handler' = [handler EXCEPT ![c] = Idle] /\ mu' = mu
  BY DEF AbortClear
<1>2. UNCHANGED <<generation, running, lastExitUnexpected, intentional, backoff, rapidStreak, proc,
                  piSpool, shutdown, target, past>>
  BY DEF AbortClear, procState, down
<1>3. /\ handler \in [PiClients -> Handlers] /\ mu \in PiClients \cup {NoClient} /\ past \in Histories
      /\ piSpool \in [DOMAIN piSpool -> Nat]
  BY DEF SupInv, PiTypes
<1>4. /\ handler' \in [PiClients -> Handlers] /\ \A d \in PiClients : d # c => handler'[d] = handler[d]
      /\ handler'[c].at # "sleeping"
  BY <1>1, <1>3, HandlerMoves, HandlerAt, IdleHandler
<1>5. mu' \in PiClients \cup {NoClient}
  BY <1>1, <1>3
<1> QED  BY <1>2, <1>3, <1>4, <1>5, SpoolSame, SupHandler

(* The drain notice is not a restart notice.                                *)
LEMMA SupAbortDrain ==
  ASSUME SupInv, UNCHANGED scope, NEW c \in PiClients, AbortDrain(c) PROVE SupInv'
<1>1. handler' = [handler EXCEPT ![c] = Idle] /\ mu' = NoClient
  BY DEF AbortDrain
<1>2. UNCHANGED <<generation, running, lastExitUnexpected, intentional, backoff, rapidStreak, proc,
                  shutdown, target, past>>
  BY DEF AbortDrain, procState, down
<1>3. /\ handler \in [PiClients -> Handlers] /\ past \in Histories
      /\ piSpool \in [DOMAIN piSpool -> Nat]
  BY DEF SupInv, PiTypes
<1>4. /\ handler' \in [PiClients -> Handlers] /\ \A d \in PiClients : d # c => handler'[d] = handler[d]
      /\ handler'[c].at # "sleeping"
  BY <1>1, <1>3, HandlerMoves, IdleHandler
<1>5. /\ piSpool' \in [DOMAIN piSpool' -> Nat]
      /\ \A g \in Generations : Offered("pi_restart", g)' = Offered("pi_restart", g)
  <2>1. CASE queued = <<>>
    BY <1>3, <2>1, SpoolSame DEF AbortDrain
  <2>2. CASE queued # <<>>
    <3>1. Spools(Rec("queue_drained", generation, queued))
      BY <2>2 DEF AbortDrain
    <3> QED  BY <1>3, <3>1, SpoolsCounts, SpoolsOthers
  <2> QED  BY <2>1, <2>2
<1> QED  BY <1>1, <1>2, <1>3, <1>4, <1>5, SupHandler

(* A step of pi or of its relay.                                           *)
LEMMA SupRelays ==
  ASSUME SupInv, UNCHANGED <<scope, handler, mu, procState, proc, down>>,
         past' \in Histories,
         past'.crashed = past.crashed, past'.failed = past.failed, past'.slept = past.slept,
         past'.late = past.late,
         NEW g, NEW type, type # "pi_restart", UNCHANGED piSpool \/ Spools(Rec(type, g, <<>>))
  PROVE  SupInv'
<1>1. UNCHANGED <<generation, running, lastExitUnexpected, intentional, backoff, rapidStreak, proc,
                  shutdown, target, handler, mu>>
  BY DEF procState, down
<1>2. piSpool \in [DOMAIN piSpool -> Nat]
  BY DEF SupInv, PiTypes
<1>3. /\ piSpool' \in [DOMAIN piSpool' -> Nat]
      /\ \A h \in Generations : Offered("pi_restart", h)' = Offered("pi_restart", h)
  <2>1. CASE UNCHANGED piSpool
    BY <1>2, <2>1, SpoolSame
  <2>2. CASE Spools(Rec(type, g, <<>>))
    <3>1. "pi_restart" # type
      OBVIOUS
    <3> QED  BY <1>2, <2>2, <3>1, SpoolsCounts, SpoolsOthers
  <2> QED  BY <2>1, <2>2
<1>4. PiTypes'
  BY <1>1, <1>3 DEF SupInv, PiTypes
<1>5. \A c \in PiClients : handler'[c].at = "sleeping" => handler'[c].slept > 0
  BY <1>1 DEF SupInv, Held
<1> QED  BY <1>1, <1>3, <1>4, <1>5, SupKept

(* pi reads a line: the supervisor sees nothing of it.                      *)
LEMMA SupPiReads ==
  ASSUME SupInv, UNCHANGED scope, NEW g \in Generations, PiReads(g) PROVE SupInv'
<1>1. UNCHANGED <<handler, mu, procState, proc, down, piSpool>>
  BY DEF PiReads
<1>2. past \in Histories /\ past' = [past EXCEPT !.wrote[g] = @ + 1]
  BY DEF SupInv, PiTypes, PiReads
<1>3. /\ past' \in Histories
      /\ past'.crashed = past.crashed /\ past'.failed = past.failed /\ past'.slept = past.slept
      /\ past'.late = past.late
  BY <1>2 DEF Histories
<1>4. "turn" # "pi_restart"
  OBVIOUS
<1> QED  BY <1>1, <1>3, <1>4, SupRelays

(* The relay sets the tracker only.                                         *)
LEMMA SupRelayTrack ==
  ASSUME SupInv, UNCHANGED scope, NEW g \in Generations, RelayTrack(g) PROVE SupInv'
<1>1. UNCHANGED <<handler, mu, procState, proc, down, piSpool>>
  BY DEF RelayTrack
<1> DEFINE b == past.overlap \/ g < generation \/ proc[g] = "gone"
<1>2. past \in Histories /\ past' = [past EXCEPT !.overlap = b] /\ b \in BOOLEAN
  BY DEF SupInv, PiTypes, RelayTrack
<1>3. /\ past' \in Histories
      /\ past'.crashed = past.crashed /\ past'.failed = past.failed /\ past'.slept = past.slept
      /\ past'.late = past.late
  <2> HIDE DEF b
  <2> QED  BY <1>2 DEF Histories
<1>4. "turn" # "pi_restart"
  OBVIOUS
<1> HIDE DEF b
<1> QED  BY <1>1, <1>3, <1>4, SupRelays

(* A spooled stdout line is not a restart notice.                           *)
LEMMA SupRelaySpool ==
  ASSUME SupInv, UNCHANGED scope, NEW g \in Generations, RelaySpool(g) \/ RelayEnds(g) PROVE SupInv'
<1>1. UNCHANGED <<handler, mu, procState, proc, down, past>>
  BY DEF RelaySpool, RelayEnds
<1>2. past \in Histories
  BY DEF SupInv, PiTypes
<1>3. \/ UNCHANGED piSpool \/ Spools(Rec("stdout", g, <<>>)) \/ Spools(Rec("pi_stderr", g, <<>>))
  BY DEF RelaySpool, RelayEnds
<1>4. "stdout" # "pi_restart" /\ "pi_stderr" # "pi_restart"
  OBVIOUS
<1> QED  BY <1>1, <1>2, <1>3, <1>4, SupRelays

(* The numbers of the generations.                                         *)
LEMMA GenerationFacts ==
  ASSUME PiTypes
  PROVE  /\ generation \in Nat /\ scope.gens \in Nat /\ generation <= scope.gens /\ scope.gens <= MaxGenerations
         /\ MaxGenerations \in Nat
         /\ \A g : g \in Generations <=> g \in Nat /\ 1 <= g /\ g <= MaxGenerations
BY PiAssumption DEF PiTypes, Scopes, Generations

(* A process moves on, the notices are as they were.                       *)
LEMMA NoticedKept ==
  ASSUME PiTypes, Noticed, UNCHANGED <<generation, lastExitUnexpected>>, running' => running,
         past'.crashed = past.crashed, past'.failed = past.failed,
         \A g \in Generations : Offered("pi_restart", g)' = Offered("pi_restart", g)
  PROVE  Noticed'
<1>1. RestartNoticed'
  BY GenerationFacts DEF Noticed, RestartNoticed
<1> QED  BY <1>1 DEF Noticed

(* A step that leaves the exit state alone holds what it held.              *)
LEMMA HeldKept ==
  ASSUME Held, UNCHANGED <<generation, lastExitUnexpected, backoff, handler>>,
         past'.crashed = past.crashed, past'.failed = past.failed, past'.slept = past.slept
  PROVE  Held'
BY DEF Held, RapidExitHeld

(* pi exits by itself: running is true until awaitExit has seen it.         *)
LEMMA SupPiExits ==
  ASSUME SupInv, UNCHANGED scope, NEW g \in Generations, PiExits(g) PROVE SupInv'
<1>1. /\ proc[g] = "live" /\ proc' = [proc EXCEPT ![g] = "exited"] /\ shutdown # "down"
      /\ UNCHANGED <<generation, running, lastExitUnexpected, intentional, backoff, rapidStreak,
                     handler, mu, piSpool, shutdown, target, past>>
  BY DEF PiExits, procState, down, Up
<1>2. proc \in [Generations -> {"unborn", "live", "exited", "reaped", "gone"}]
  BY DEF SupInv, PiTypes
<1>3. /\ proc' \in [Generations -> {"unborn", "live", "exited", "reaped", "gone"}]
      /\ proc'[g] = "exited" /\ \A h \in Generations : h # g => proc'[h] = proc[h]
  BY <1>1, <1>2
<1>4. PiTypes'
  BY <1>1, <1>3 DEF SupInv, PiTypes
<1>5. g = generation /\ running /\ generation \in Nat /\ generation > 0
  BY <1>1, GenerationFacts DEF SupInv, Latest
<1>6. Latest'
  <2>1. ASSUME NEW h \in Generations
        PROVE  (proc'[h] = "unborn" <=> h > generation) /\ (h < generation => proc'[h] \in {"reaped", "gone"})
    BY <1>1, <1>3, <1>5 DEF SupInv, Latest
  <2>2. running' <=> generation > 0 /\ proc'[generation] \in {"live", "exited"}
    BY <1>1, <1>3, <1>5
  <2> QED  BY <1>1, <2>1, <2>2 DEF Latest
<1>7. Stopped'
  BY <1>1, <1>3 DEF SupInv, Stopped, NoOrphan
<1>8. Noticed'
  BY <1>1, SpoolSame, NoticedKept DEF SupInv
<1>9. Held'
  BY <1>1, HeldKept DEF SupInv
<1> QED  BY <1>4, <1>6, <1>7, <1>8, <1>9 DEF SupInv

(* SIGKILL after the grace period: the process Shutdown was called for is   *)
(* the last one.                                                            *)
LEMMA SupGraceEnds ==
  ASSUME SupInv, UNCHANGED scope, GraceEnds PROVE SupInv'
<1>1. /\ shutdown = "terming" /\ running /\ shutdown' = "killed"
      /\ proc' = [proc EXCEPT ![target] = IF @ = "live" THEN "exited" ELSE @]
      /\ UNCHANGED <<generation, running, lastExitUnexpected, intentional, backoff, rapidStreak,
                     handler, mu, piSpool, target, past>>
  BY DEF GraceEnds, procState
<1>2. proc \in [Generations -> {"unborn", "live", "exited", "reaped", "gone"}]
  BY DEF SupInv, PiTypes
<1>3. /\ proc' \in [Generations -> {"unborn", "live", "exited", "reaped", "gone"}]
      /\ \A h \in Generations : proc'[h] = IF h = target /\ proc[h] = "live" THEN "exited" ELSE proc[h]
  BY Zenon, <1>1, <1>2
<1>4. PiTypes'
  BY <1>1, <1>3 DEF SupInv, PiTypes
<1>5. generation \in Nat /\ generation > 0 /\ generation \in Generations
  BY <1>1, GenerationFacts DEF SupInv, Latest
<1>6. Latest'
  <2>1. ASSUME NEW h \in Generations
        PROVE  (proc'[h] = "unborn" <=> h > generation) /\ (h < generation => proc'[h] \in {"reaped", "gone"})
    BY <1>1, <1>3, <1>5 DEF SupInv, Latest
  <2>2. running' <=> generation > 0 /\ proc'[generation] \in {"live", "exited"}
    BY <1>1, <1>3, <1>5 DEF SupInv, Latest
  <2> QED  BY <1>1, <2>1, <2>2 DEF Latest
<1>7. Stopped'
  <2>1. ASSUME ~past.late, NEW h \in Generations PROVE proc'[h] # "live"
    <3>1. target = generation
      BY <1>1, <2>1 DEF SupInv, Stopped
    <3>2. CASE h = generation
      BY <1>3, <3>1, <3>2
    <3>3. CASE h # generation
      <4>1. proc[h] # "live"
        BY <3>3, <1>5, GenerationFacts DEF SupInv, Latest
      <4> QED  BY <1>3, <4>1
    <3> QED  BY <3>2, <3>3
  <2>2. ~past.late => target = generation
    BY <1>1 DEF SupInv, Stopped
  <2> QED  BY <1>1, <2>1, <2>2 DEF Stopped, NoOrphan
<1>8. Noticed'
  BY <1>1, SpoolSame, NoticedKept DEF SupInv
<1>9. Held'
  BY <1>1, HeldKept DEF SupInv
<1> QED  BY <1>4, <1>6, <1>7, <1>8, <1>9 DEF SupInv

(* Shutdown and the end of the daemon.                                     *)
LEMMA SupShutdown ==
  ASSUME SupInv, UNCHANGED scope, ShutdownBegins \/ DaemonExits PROVE SupInv'
<1>1. UNCHANGED <<generation, running, lastExitUnexpected, backoff, rapidStreak, proc, handler, mu, piSpool, past>>
  BY DEF ShutdownBegins, DaemonExits, procState, procs
<1>2. PiTypes'
  <2>1. generation \in Nat
    BY GenerationFacts DEF SupInv
  <2>2. intentional' \in BOOLEAN /\ target' \in Nat /\ shutdown' \in {"up", "terming", "killed", "down"}
    BY Zenon, <2>1 DEF SupInv, PiTypes, ShutdownBegins, DaemonExits, procState
  <2> QED  BY <1>1, <2>2 DEF SupInv, PiTypes
<1>3. Latest'
  BY <1>1 DEF SupInv, Latest
<1>4. Stopped'
  <2> SUFFICES ASSUME ~past.late PROVE Stopped'
    BY <1>1 DEF Stopped
  <2>1. CASE ShutdownBegins
    <3>1. generation = 0 => \A g \in Generations : proc[g] # "live"
      BY GenerationFacts DEF SupInv, Latest
    <3> QED  BY <1>1, <2>1, <3>1 DEF Stopped, NoOrphan, ShutdownBegins
  <2>2. CASE DaemonExits
    <3>1. \A g \in Generations : proc[g] # "live"
      <4>1. CASE shutdown = "killed"
        BY <4>1 DEF SupInv, Stopped
      <4>2. CASE ~running
        BY <4>2, GenerationFacts DEF SupInv, Latest
      <4> QED  BY <2>2, <4>1, <4>2 DEF DaemonExits
    <3>2. shutdown' = "down"
      BY <2>2 DEF DaemonExits
    <3> QED  BY <1>1, <3>1, <3>2 DEF Stopped, NoOrphan
  <2> QED  BY <2>1, <2>2
<1>5. Noticed'
  BY <1>1, SpoolSame, NoticedKept DEF SupInv
<1>6. Held'
  BY <1>1, HeldKept DEF SupInv
<1> QED  BY <1>2, <1>3, <1>4, <1>5, <1>6 DEF SupInv

(* awaitExit after mu is released: the notice and the tracker.              *)
LEMMA SupExitReset ==
  ASSUME SupInv, UNCHANGED scope, NEW g \in Generations, ExitReset(g) PROVE SupInv'
<1> DEFINE b == past.overlap \/ g < generation
<1>1. /\ proc[g] = "reaped" /\ proc' = [proc EXCEPT ![g] = "gone"] /\ shutdown # "down"
      /\ Spools(Rec("pi_exit", g, <<>>)) /\ past' = [past EXCEPT !.overlap = b] /\ b \in BOOLEAN
      /\ UNCHANGED <<generation, running, lastExitUnexpected, intentional, backoff, rapidStreak,
                     handler, mu, shutdown, target>>
  BY DEF ExitReset, procState, down, Up
<1>2. /\ proc \in [Generations -> {"unborn", "live", "exited", "reaped", "gone"}]
      /\ past \in Histories /\ piSpool \in [DOMAIN piSpool -> Nat]
  BY DEF SupInv, PiTypes
<1>3. /\ proc' \in [Generations -> {"unborn", "live", "exited", "reaped", "gone"}]
      /\ proc'[g] = "gone" /\ \A h \in Generations : h # g => proc'[h] = proc[h]
  BY <1>1, <1>2
<1>4. /\ past' \in Histories /\ past'.crashed = past.crashed /\ past'.failed = past.failed
      /\ past'.slept = past.slept /\ past'.late = past.late
  <2> HIDE DEF b
  <2> QED  BY Zenon, <1>1, <1>2 DEF Histories
<1> HIDE DEF b
<1>5. /\ piSpool' \in [DOMAIN piSpool' -> Nat]
      /\ \A h \in Generations : Offered("pi_restart", h)' = Offered("pi_restart", h)
  <2>1. "pi_restart" # "pi_exit"
    OBVIOUS
  <2> QED  BY <1>1, <1>2, <2>1, SpoolsCounts, SpoolsOthers
<1>6. PiTypes'
  BY <1>1, <1>3, <1>4, <1>5 DEF SupInv, PiTypes
<1>7. Latest'
  <2>0. generation \in Nat /\ g \in Nat
    BY GenerationFacts DEF SupInv
  <2>1. ASSUME NEW h \in Generations
        PROVE  (proc'[h] = "unborn" <=> h > generation) /\ (h < generation => proc'[h] \in {"reaped", "gone"})
    BY <1>1, <1>3, <2>0 DEF SupInv, Latest
  <2>2. running' <=> generation > 0 /\ proc'[generation] \in {"live", "exited"}
    <3>1. CASE g = generation
      BY <1>1, <1>3, <3>1 DEF SupInv, Latest
    <3>2. CASE g # generation /\ generation > 0
      BY <1>1, <1>3, <3>2, GenerationFacts DEF SupInv, Latest
    <3>3. CASE generation = 0
      BY <1>1, <3>3 DEF SupInv, Latest
    <3> QED  BY <2>0, <3>1, <3>2, <3>3
  <2> QED  BY <1>1, <2>1, <2>2 DEF Latest
<1>8. Stopped'
  BY <1>1, <1>3, <1>4 DEF SupInv, Stopped, NoOrphan
<1>9. Noticed'
  BY <1>1, <1>4, <1>5, NoticedKept DEF SupInv
<1>10. Held'
  BY <1>1, <1>4, HeldKept DEF SupInv
<1> QED  BY <1>6, <1>7, <1>8, <1>9, <1>10 DEF SupInv

(* awaitExit under mu: the exit is recorded against its generation, with    *)
(* the backoff it earns.                                                    *)
LEMMA SupAwaitExit ==
  ASSUME SupInv, UNCHANGED scope, NEW g \in Generations, AwaitExit(g) PROVE SupInv'
<1>1. /\ proc[g] = "exited" /\ proc' = [proc EXCEPT ![g] = "reaped"] /\ shutdown # "down"
      /\ running' = (running /\ generation # g)
      /\ UNCHANGED <<generation, intentional, handler, mu, piSpool, shutdown, target>>
  BY DEF AwaitExit, down, Up
<1>2. /\ proc \in [Generations -> {"unborn", "live", "exited", "reaped", "gone"}] /\ past \in Histories
      /\ backoff \in Nat /\ rapidStreak \in Nat /\ lastExitUnexpected \in BOOLEAN
  BY DEF SupInv, PiTypes
<1>3. /\ proc' \in [Generations -> {"unborn", "live", "exited", "reaped", "gone"}]
      /\ proc'[g] = "reaped" /\ \A h \in Generations : h # g => proc'[h] = proc[h]
  BY <1>1, <1>2
<1>4. g = generation /\ running /\ generation \in Nat /\ generation > 0 /\ running' = FALSE
  <2>1. g = generation /\ generation \in Nat /\ generation > 0
    BY <1>1, GenerationFacts DEF SupInv, Latest
  <2>2. running
    BY <1>1, <2>1 DEF SupInv, Latest
  <2> QED  BY Zenon, <1>1, <2>1, <2>2
<1>5. ~lastExitUnexpected /\ past.crashed[g] = "none" /\ g \notin past.failed
  BY <1>4 DEF SupInv, Noticed
<1>6. \/ UNCHANGED <<lastExitUnexpected, backoff, rapidStreak, past>>
      \/ \E uptime \in Uptimes :
           /\ lastExitUnexpected' = TRUE /\ past' = [past EXCEPT !.crashed[g] = uptime]
           /\ rapidStreak' \in Nat /\ backoff' \in Nat /\ (uptime = "rapid" => backoff' > 0)
  <2> SUFFICES ASSUME ~intentional
               PROVE  \E uptime \in Uptimes :
                        /\ lastExitUnexpected' = TRUE /\ past' = [past EXCEPT !.crashed[g] = uptime]
                        /\ rapidStreak' \in Nat /\ backoff' \in Nat /\ (uptime = "rapid" => backoff' > 0)
    BY Zenon DEF AwaitExit
  <2>1. PICK uptime \in scope.uptimes :
          /\ lastExitUnexpected' = TRUE /\ past' = [past EXCEPT !.crashed[g] = uptime]
          /\ rapidStreak' = CASE uptime = "rapid" -> rapidStreak + 1 [] uptime = "stable" -> 0 [] OTHER -> rapidStreak
          /\ backoff' = CASE uptime = "rapid" -> RapidBackoff(rapidStreak') [] uptime = "stable" -> 0 [] OTHER -> backoff
    BY DEF AwaitExit
  <2>2. uptime \in Uptimes
    BY DEF SupInv, PiTypes, Scopes
  <2>3. CASE uptime = "rapid"
    <3>1. rapidStreak' = rapidStreak + 1 /\ backoff' = RapidBackoff(rapidStreak')
      BY <2>1, <2>3
    <3>2. rapidStreak' \in Nat \ {0}
      BY <1>2, <3>1
    <3>3. backoff' \in Nat /\ backoff' > 0
      BY <3>1, <3>2, BackoffPositive
    <3> QED  BY <2>1, <2>2, <3>2, <3>3
  <2>4. CASE uptime = "stable"
    BY <1>2, <2>1, <2>2, <2>4
  <2>5. CASE uptime = "between"
    BY <1>2, <2>1, <2>2, <2>5
  <2> QED  BY Zenon, <2>2, <2>3, <2>4, <2>5 DEF Uptimes
<1>7. /\ past' \in Histories /\ past'.failed = past.failed /\ past'.slept = past.slept /\ past'.late = past.late
      /\ \A h \in Generations : h # g => past'.crashed[h] = past.crashed[h]
      /\ lastExitUnexpected' <=> past'.crashed[g] # "none"
      /\ lastExitUnexpected' /\ past'.crashed[g] = "rapid" => backoff' > 0
      /\ lastExitUnexpected' \in BOOLEAN /\ backoff' \in Nat /\ rapidStreak' \in Nat
  <2>1. CASE UNCHANGED <<lastExitUnexpected, backoff, rapidStreak, past>>
    <3>1. past' = past /\ backoff' = backoff /\ rapidStreak' = rapidStreak /\ lastExitUnexpected' = lastExitUnexpected
      BY <2>1
    <3>2. ~lastExitUnexpected' /\ past'.crashed[g] = "none" /\ lastExitUnexpected' \in BOOLEAN
      BY <1>2, <1>5, <3>1
    <3> QED  BY <1>2, <3>1, <3>2
  <2>2. CASE \E uptime \in Uptimes :
           /\ lastExitUnexpected' = TRUE /\ past' = [past EXCEPT !.crashed[g] = uptime]
           /\ rapidStreak' \in Nat /\ backoff' \in Nat /\ (uptime = "rapid" => backoff' > 0)
    <3>1. PICK uptime \in Uptimes :
           /\ lastExitUnexpected' = TRUE /\ past' = [past EXCEPT !.crashed[g] = uptime]
           /\ rapidStreak' \in Nat /\ backoff' \in Nat /\ (uptime = "rapid" => backoff' > 0)
      BY <2>2
    <3>2. /\ past' \in Histories /\ past'.failed = past.failed /\ past'.slept = past.slept /\ past'.late = past.late
          /\ past'.crashed[g] = uptime /\ \A h \in Generations : h # g => past'.crashed[h] = past.crashed[h]
      BY <1>2, <3>1 DEF Histories
    <3> QED  BY <3>1, <3>2 DEF Uptimes
  <2> QED  BY Zenon, <1>6, <2>1, <2>2
<1>8. PiTypes'
  BY <1>1, <1>3, <1>4, <1>7 DEF SupInv, PiTypes
<1>9. Latest'
  <2>1. ASSUME NEW h \in Generations
        PROVE  (proc'[h] = "unborn" <=> h > generation) /\ (h < generation => proc'[h] \in {"reaped", "gone"})
    BY <1>1, <1>3, <1>4 DEF SupInv, Latest
  <2>2. ~(proc'[generation] \in {"live", "exited"})
    BY <1>3, <1>4
  <2> QED  BY <1>1, <1>4, <2>1, <2>2 DEF Latest
<1>10. Stopped'
  BY <1>1, <1>3, <1>7 DEF SupInv, Stopped, NoOrphan
<1>11. Noticed'
  <2>1. \A h \in 2..generation : h - 1 \in Generations /\ h - 1 # g
    BY <1>4, GenerationFacts DEF SupInv
  <2>2. RestartNoticed'
    BY <1>1, <1>7, <2>1, SpoolSame DEF SupInv, Noticed, RestartNoticed
  <2>3. \A h \in Generations : h > generation => h # g
    BY <1>4
  <2> QED  BY <1>1, <1>4, <1>5, <1>7, <2>2, <2>3, SpoolSame DEF SupInv, Noticed
<1>12. Held'
  <2>1. \A h \in 2..generation : h - 1 \in Generations /\ h - 1 # g
    BY <1>4, GenerationFacts DEF SupInv
  <2>2. RapidExitHeld'
    BY <1>1, <1>7, <2>1 DEF SupInv, Held, RapidExitHeld
  <2> QED  BY <1>1, <1>4, <1>7, <2>2 DEF SupInv, Held
<1> QED  BY <1>8, <1>9, <1>10, <1>11, <1>12 DEF SupInv

(* Start and Wake launch the next process: none is running, and a rapid    *)
(* exit has been slept out.                                                *)
LEMMA SupLaunch ==
  ASSUME SupInv, UNCHANGED <<scope, mu, down>>, NEW c \in PiClients, Launch(c), ~running,
         lastExitUnexpected /\ backoff > 0 => handler[c].slept > 0
  PROVE  SupInv'
<1>n. PICK n \in Nat : n = generation + 1
  BY GenerationFacts DEF SupInv
<1>0. UNCHANGED <<mu, shutdown, target, backoff, rapidStreak>> /\ lastExitUnexpected' = FALSE /\ intentional' = FALSE
  BY DEF Launch, Launched, down
<1>1. /\ handler \in [PiClients -> Handlers] /\ past \in Histories /\ piSpool \in [DOMAIN piSpool -> Nat]
      /\ proc \in [Generations -> {"unborn", "live", "exited", "reaped", "gone"}]
  BY DEF SupInv, PiTypes
<1>2. /\ generation \in Nat /\ n \in Nat
      /\ \A h : h \in Generations <=> h \in Nat /\ 1 <= h /\ h <= MaxGenerations
  BY <1>n, GenerationFacts DEF SupInv
<1>3. CASE /\ generation < scope.gens
           /\ generation' = n /\ running' = TRUE /\ proc' = [proc EXCEPT ![n] = "live"]
           /\ IF generation > 0 /\ lastExitUnexpected THEN Spools(Rec("pi_restart", n, <<>>)) ELSE UNCHANGED piSpool
           /\ handler' = [handler EXCEPT ![c].at = "ready"]
           /\ past' = [past EXCEPT !.slept[n] = handler[c].slept, !.late = @ \/ shutdown # "up"]
  <2>1. n \in Generations /\ n \in 0..scope.gens
    BY <1>n, <1>2, <1>3, GenerationFacts DEF SupInv
  <2>2. /\ proc' \in [Generations -> {"unborn", "live", "exited", "reaped", "gone"}]
        /\ proc'[n] = "live" /\ \A h \in Generations : h # n => proc'[h] = proc[h]
    BY <1>1, <1>3, <2>1
  <2>3. /\ handler' \in [PiClients -> Handlers] /\ \A d \in PiClients : d # c => handler'[d] = handler[d]
        /\ handler'[c].at = "ready"
    BY Zenon, <1>1, <1>3, HandlerAt
  <2>4. handler[c].slept \in Nat
    BY <1>1 DEF Handlers
  <2>5. /\ past' \in Histories /\ past'.crashed = past.crashed /\ past'.failed = past.failed
        /\ past'.slept[n] = handler[c].slept /\ \A h \in Generations : h # n => past'.slept[h] = past.slept[h]
        /\ past'.late = (past.late \/ shutdown # "up")
    BY Zenon, <1>1, <1>3, <2>1, <2>4 DEF Histories
  <2>6. /\ piSpool' \in [DOMAIN piSpool' -> Nat]
        /\ \A h : h # n => Offered("pi_restart", h)' = Offered("pi_restart", h)
        /\ Offered("pi_restart", n)' = IF generation > 0 /\ lastExitUnexpected THEN 1 ELSE 0
    <3>1. Offered("pi_restart", n) = 0
      BY <1>n, <1>2, <2>1 DEF SupInv, Noticed
    <3>2. CASE generation > 0 /\ lastExitUnexpected
      <4>1. Spools(Rec("pi_restart", n, <<>>))
        BY <1>3, <3>2
      <4>2. Offered("pi_restart", n)' = 1
        <5> QED  BY <1>1, <3>1, <4>1, SpoolsOne
      <4>3. ASSUME NEW h, h # n PROVE Offered("pi_restart", h)' = Offered("pi_restart", h)
        <5> QED  BY <1>1, <4>1, <4>3, SpoolsOthers
      <4>4. piSpool' \in [DOMAIN piSpool' -> Nat]
        BY <1>1, <4>1, SpoolsCounts
      <4> QED  BY <3>2, <4>2, <4>3, <4>4
    <3>3. CASE ~(generation > 0 /\ lastExitUnexpected)
      <4>1. UNCHANGED piSpool
        BY <1>3, <3>3
      <4>2. \A h : Offered("pi_restart", h)' = Offered("pi_restart", h)
        BY <4>1, SpoolSame
      <4>3. piSpool' \in [DOMAIN piSpool' -> Nat]
        BY <1>1, <4>1
      <4> QED  BY <3>1, <3>3, <4>2, <4>3
    <3> QED  BY <3>2, <3>3
  <2>7. PiTypes'
    BY Zenon, <1>0, <1>3, <2>1, <2>2, <2>3, <2>5, <2>6 DEF SupInv, PiTypes
  <2>8. Latest'
    <3>1. ASSUME NEW h \in Generations
          PROVE  (proc'[h] = "unborn" <=> h > n) /\ (h < n => proc'[h] \in {"reaped", "gone"})
      <4>1. CASE h = n
        BY <2>2, <4>1, <1>n, <1>2
      <4>2. CASE h > n
        BY <2>2, <4>2, <1>n, <1>2 DEF SupInv, Latest
      <4>3. CASE h < generation
        BY <2>2, <4>3, <1>n, <1>2 DEF SupInv, Latest
      <4>4. CASE h = generation
        <5>1. proc[h] # "unborn" /\ proc[h] # "live" /\ proc[h] # "exited"
          BY <1>n, <1>2, <4>4 DEF SupInv, Latest
        <5>2. proc[h] \in {"reaped", "gone"}
          BY <1>1, <5>1
        <5> QED  BY <1>n, <1>2, <2>2, <4>4, <5>2
      <4> QED  BY <1>n, <1>2, <4>1, <4>2, <4>3, <4>4
    <3>2. n > 0 /\ proc'[n] \in {"live", "exited"}
      BY <1>n, <1>2, <2>2
    <3> QED  BY <1>3, <3>1, <3>2 DEF Latest
  <2>9. Stopped'
    BY Zenon, <1>0, <2>5 DEF Stopped, NoOrphan
  <2>10. Noticed'
    <3>1. ASSUME NEW h \in Generations, h > n PROVE Offered("pi_restart", h)' = 0 /\ past'.crashed[h] = "none"
      BY <1>n, <1>2, <2>5, <2>6, <3>1 DEF SupInv, Noticed
    <3>2. past'.crashed[n] = "none" /\ n \notin past'.failed /\ \A h \in past'.failed : h <= n
      <4>1. \A h \in past.failed : h \in Nat /\ h <= generation
        BY <1>1 DEF SupInv, Noticed, Histories
      <4> QED  BY <1>n, <1>2, <2>1, <2>5, <4>1 DEF SupInv, Noticed
    <3>3. ASSUME NEW h \in 2..n
          PROVE  Offered("pi_restart", h)' = IF past'.crashed[h - 1] # "none" /\ h - 1 \notin past'.failed THEN 1 ELSE 0
      <4>1. CASE h = n
        <5>1. generation > 0 /\ h - 1 = generation
          BY <1>n, <1>2, <4>1
        <5>2. lastExitUnexpected <=> past.crashed[generation] # "none" /\ generation \notin past.failed
          BY <5>1 DEF SupInv, Noticed
        <5>3. past'.crashed[h - 1] = past.crashed[generation] /\ past'.failed = past.failed
          BY <2>5, <5>1
        <5>4. CASE lastExitUnexpected
          BY <2>6, <4>1, <5>1, <5>2, <5>3, <5>4
        <5>5. CASE ~lastExitUnexpected
          BY <2>6, <4>1, <5>1, <5>2, <5>3, <5>5
        <5> QED  BY <5>4, <5>5
      <4>2. CASE h # n
        <5>1. h \in 2..generation
          BY <1>n, <1>2, <4>2
        <5> QED  BY <2>5, <2>6, <4>2, <5>1 DEF SupInv, Noticed, RestartNoticed
      <4> QED  BY <4>1, <4>2
    <3>4. n > 0
      BY <1>n, <1>2
    <3> QED  BY <1>0, <1>3, <3>1, <3>2, <3>3, <3>4 DEF Noticed, RestartNoticed
  <2>11. Held'
    <3>1. ASSUME NEW h \in 2..n, past'.crashed[h - 1] = "rapid", h - 1 \notin past'.failed
          PROVE  past'.slept[h] > 0
      <4>1. CASE h = n
        <5>1. generation > 0 /\ h - 1 = generation
          BY <1>n, <1>2, <4>1
        <5>2. lastExitUnexpected /\ past.crashed[generation] = "rapid"
          BY <2>5, <3>1, <5>1 DEF SupInv, Noticed
        <5> QED  BY <2>5, <4>1, <5>2 DEF SupInv, Held
      <4>2. CASE h # n
        <5>1. h \in 2..generation /\ h \in Generations
          BY <1>n, <1>2, <4>2, GenerationFacts DEF SupInv
        <5> QED  BY <2>5, <3>1, <4>2, <5>1 DEF SupInv, Held, RapidExitHeld
      <4> QED  BY <4>1, <4>2
    <3>2. \A d \in PiClients : handler'[d].at = "sleeping" => handler'[d].slept > 0
      BY <2>3 DEF SupInv, Held
    <3> QED  BY <1>0, <1>3, <3>1, <3>2 DEF Held, RapidExitHeld
  <2> QED  BY <2>7, <2>8, <2>9, <2>10, <2>11 DEF SupInv
<1>4. CASE /\ handler' = [handler EXCEPT ![c] = Idle]
           /\ past' = [past EXCEPT !.failed = @ \cup {generation}]
           /\ UNCHANGED <<generation, running, proc, piSpool>>
  <2>1. /\ handler' \in [PiClients -> Handlers] /\ \A d \in PiClients : d # c => handler'[d] = handler[d]
        /\ handler'[c].at # "sleeping"
    BY <1>1, <1>4, HandlerMoves, IdleHandler
  <2>2. /\ past' \in Histories /\ past'.crashed = past.crashed /\ past'.failed = past.failed \cup {generation}
        /\ past'.slept = past.slept /\ past'.late = past.late
    BY <1>1, <1>n, <1>2, <1>4 DEF Histories
  <2>3. PiTypes'
    BY Zenon, <1>0, <1>4, <2>1, <2>2 DEF SupInv, PiTypes
  <2>4. Latest'
    BY <1>4 DEF SupInv, Latest
  <2>5. Stopped'
    BY <1>0, <1>4, <2>2 DEF SupInv, Stopped, NoOrphan
  <2>6. Noticed'
    <3>1. \A h \in 2..generation : h - 1 # generation
      BY <1>n, <1>2
    <3>2. RestartNoticed'
      BY <1>4, <2>2, <3>1, SpoolSame DEF SupInv, Noticed, RestartNoticed
    <3>3. \A h \in past'.failed : h <= generation
      BY <1>n, <1>2, <2>2 DEF SupInv, Noticed
    <3> QED  BY <1>0, <1>4, <2>2, <3>2, <3>3, SpoolSame DEF SupInv, Noticed
  <2>7. Held'
    BY <1>0, <1>4, <2>1, <2>2 DEF SupInv, Held, RapidExitHeld
  <2> QED  BY <2>3, <2>4, <2>5, <2>6, <2>7 DEF SupInv
<1> QED  BY Zenon, <1>n, <1>3, <1>4 DEF Launch, Launched

(* The daemon starts with no process.                                       *)
LEMMA SupInitial ==
  ASSUME NEW bounds \in Scopes, PiInit(bounds) PROVE SupInv
<1>1. /\ scope = bounds /\ generation = 0 /\ running = FALSE /\ lastExitUnexpected = FALSE /\ intentional = FALSE
      /\ backoff = 0 /\ rapidStreak = 0 /\ mu = NoClient /\ shutdown = "up" /\ target = 0 /\ piSpool = <<>>
      /\ handler = [c \in PiClients |-> Idle] /\ proc = [g \in Generations |-> "unborn"]
  BY DEF PiInit
<1>2. /\ past.crashed = [g \in Generations |-> "none"] /\ past.slept = [g \in Generations |-> 0]
      /\ past.failed = {} /\ past.late = FALSE /\ past \in Histories
  BY DEF PiInit, Histories
<1>3. \A r, stored : Copies(r, stored) = 0
  BY <1>1 DEF Copies
<1>4. piSpool \in [DOMAIN piSpool -> Nat]
  BY <1>1
<1>5. \A c \in PiClients : handler[c] = Idle
  BY Zenon, <1>1
<1>6. handler \in [PiClients -> Handlers]
  BY <1>1, IdleHandler
<1>7. generation \in 0..scope.gens
  BY <1>1, PiAssumption DEF Scopes
<1>8. proc \in [Generations -> {"unborn", "live", "exited", "reaped", "gone"}]
  BY <1>1
<1>9. PiTypes
  BY Zenon, <1>1, <1>2, <1>4, <1>6, <1>7, <1>8 DEF PiTypes
<1>10. Latest
  BY <1>1, PiAssumption DEF Latest, Generations
<1>11. Stopped
  BY <1>1 DEF Stopped, NoOrphan
<1>12. \A g \in Generations : past.crashed[g] = "none" /\ Offered("pi_restart", g) = 0
  <2>1. 0 + 0 = 0
    OBVIOUS
  <2> QED  BY Zenon, <1>2, <1>3, <2>1 DEF Offered
<1>13. 2..generation = {}
  BY <1>1
<1>14. Noticed
  BY <1>1, <1>2, <1>12, <1>13 DEF Noticed, RestartNoticed
<1>15. Held
  BY <1>1, <1>5, <1>13, IdleHandler DEF Held, RapidExitHeld
<1> QED  BY <1>9, <1>10, <1>11, <1>14, <1>15 DEF SupInv

(* Start: it returns, sleeps or launches.                                   *)
LEMMA SupStart ==
  ASSUME SupInv, UNCHANGED scope, NEW c \in PiClients, Start(c) PROVE SupInv'
<1>1. UNCHANGED <<mu, down>>
  BY DEF Start
<1>2. CASE running
  BY <1>1, <1>2, SupReturns DEF Start
<1>3. CASE ~running /\ lastExitUnexpected /\ backoff > 0
  <2>1. /\ handler' = [handler EXCEPT ![c].at = "sleeping", ![c].slept = generation]
        /\ UNCHANGED <<procState, procs, piSpool, past>>
    BY <1>3 DEF Start
  <2> QED  BY Zenon, <1>1, <1>3, <2>1, SupSleeps
<1>4. CASE ~running /\ ~(lastExitUnexpected /\ backoff > 0)
  <2>1. Launch(c)
    BY <1>4 DEF Start
  <2> QED  BY <1>1, <1>4, <2>1, SupLaunch
<1> QED  BY <1>2, <1>3, <1>4

(* Start after its backoff sleep looks at running again before it launches. *)
LEMMA SupWake ==
  ASSUME SupInv, UNCHANGED scope, NEW c \in PiClients, Wake(c) PROVE SupInv'
<1>1. UNCHANGED <<mu, down>> /\ handler[c].at = "sleeping"
  BY DEF Wake
<1>2. CASE running
  BY <1>1, <1>2, SupReturns DEF Wake
<1>3. CASE ~running
  <2>1. Launch(c)
    BY <1>3 DEF Wake
  <2>2. handler[c].slept > 0
    BY <1>1 DEF SupInv, Held
  <2> QED  BY <1>1, <1>3, <2>1, <2>2, SupLaunch
<1> QED  BY <1>2, <1>3

(* The supervisor invariant is inductive.                                   *)
LEMMA SupStep ==
  ASSUME SupInv, [PiNext]_piVars PROVE SupInv'
<1>1. CASE UNCHANGED piVars
  BY <1>1 DEF piVars, procState, procs, down, SupInv, PiTypes, Latest, Stopped, Noticed, Held, NoOrphan,
     RestartNoticed, RapidExitHeld, Offered, Copies
<1>2. CASE PiNext
  <2>1. UNCHANGED scope
    BY <1>2 DEF PiNext
  <2>2. ASSUME NEW c \in PiClients,
               Accept(c) \/ Start(c) \/ Wake(c) \/ SendCommand(c) \/ AbortClear(c) \/ AbortDrain(c)
        PROVE  SupInv'
    BY <2>1, <2>2, SupAccept, SupStart, SupWake, SupSendCommand, SupAbortClear, SupAbortDrain
  <2>3. ASSUME NEW g \in Generations,
               \/ PiReads(g) \/ PiExits(g) \/ AwaitExit(g) \/ ExitReset(g)
               \/ RelayTrack(g) \/ RelaySpool(g) \/ RelayEnds(g)
        PROVE  SupInv'
    BY <2>1, <2>3, SupPiReads, SupPiExits, SupAwaitExit, SupExitReset, SupRelayTrack, SupRelaySpool
  <2>4. CASE ShutdownBegins \/ GraceEnds \/ DaemonExits
    BY <2>1, <2>4, SupShutdown, SupGraceEnds
  <2> QED  BY <1>2, <2>2, <2>3, <2>4 DEF PiNext
<1> QED  BY <1>1, <1>2

(* The supervisor invariant, and the backoff policy, are what Supervised    *)
(* says.                                                                    *)
LEMMA SupHolds ==
  ASSUME SupInv PROVE OneLivePi /\ NoOrphan /\ RestartNoticed /\ RapidExitHeld
<1>1. OneLivePi
  BY GenerationFacts DEF SupInv, Latest, OneLivePi
<1>2. NoOrphan
  BY DEF SupInv, Stopped, NoOrphan
<1> QED  BY <1>1, <1>2 DEF SupInv, Noticed, Held

(* The processes (Start, awaitExit, Shutdown), for every set of requests,   *)
(* every backoff policy and every bound: while one pi lives it is the       *)
(* latest one and pi_running is true, none is left behind by the shutdown,  *)
(* every unexpected exit is noticed exactly once when pi is launched again, *)
(* and a rapid exit is held back.                                           *)
THEOREM PiProcesses ==
  ASSUME NEW bounds \in Scopes
  PROVE  PiSpec(bounds) => [](OneLivePi /\ NoOrphan /\ RestartNoticed /\ RapidExitHeld)
<1>1. PiInit(bounds) => SupInv
  BY SupInitial
<1>2. SupInv /\ [PiNext]_piVars => SupInv'
  BY SupStep
<1>3. SupInv => OneLivePi /\ NoOrphan /\ RestartNoticed /\ RapidExitHeld
  BY SupHolds
<1> QED  BY <1>1, <1>2, <1>3, PTL DEF PiSpec

(* Supervised for every backoff policy that is monotone: of the processes   *)
(* nothing more is assumed, and that the policy RapidBackoff of a daemon is *)
(* monotone is a fact about powers of two that TLC evaluates.               *)
THEOREM PiSupervised ==
  ASSUME NEW bounds \in Scopes, BackoffMonotone PROVE PiSpec(bounds) => []Supervised
<1>1. OneLivePi /\ NoOrphan /\ RestartNoticed /\ RapidExitHeld => Supervised
  BY DEF Supervised
<1> QED  BY <1>1, PiProcesses, PTL

-------------------------------------------------------------------------------

(* A step that neither pi nor its relay takes: the process may move on     *)
(* towards its end.                                                        *)
LEMMA LossKept ==
  ASSUME LossInv, UNCHANGED <<out, relay>>, past'.wrote = past.wrote,
         \A g \in Generations : /\ Offered("pi_stderr", g)' = Offered("pi_stderr", g)
                                /\ Offered("stdout", g)' = Offered("stdout", g)
                                /\ proc[g] \in {"exited", "reaped", "gone"} => proc'[g] \in {"exited", "reaped", "gone"}
                                /\ Closed(g) => Closed(g)'
  PROVE  LossInv'
<1>1. ASSUME NEW g \in Generations PROVE LossOf(g)'
  <2>1. LossOf(g)
    BY DEF LossInv
  <2>2. /\ Offered("pi_stderr", g)' = Offered("pi_stderr", g) /\ Offered("stdout", g)' = Offered("stdout", g)
        /\ proc[g] \in {"exited", "reaped", "gone"} => proc'[g] \in {"exited", "reaped", "gone"}
        /\ Closed(g) => Closed(g)'
    OBVIOUS
  <2> QED  BY <2>1, <2>2 DEF LossOf
<1> QED  BY <1>1 DEF LossInv

(* A step of the process g, of pi or of its relay leaves the others alone. *)
LEMMA LossOthers ==
  ASSUME LossInv, NEW g \in Generations, LossOf(g)',
         \A h \in Generations : h # g =>
           /\ out'[h] = out[h] /\ relay'[h] = relay[h] /\ proc'[h] = proc[h] /\ past'.wrote[h] = past.wrote[h]
           /\ Offered("pi_stderr", h)' = Offered("pi_stderr", h) /\ Offered("stdout", h)' = Offered("stdout", h)
  PROVE  LossInv'
<1>1. ASSUME NEW h \in Generations, h # g PROVE LossOf(h)'
  <2>1. LossOf(h)
    BY DEF LossInv
  <2>2. /\ out'[h] = out[h] /\ relay'[h] = relay[h] /\ proc'[h] = proc[h] /\ past'.wrote[h] = past.wrote[h]
        /\ Offered("pi_stderr", h)' = Offered("pi_stderr", h) /\ Offered("stdout", h)' = Offered("stdout", h)
    BY <1>1
  <2> QED  BY <2>1, <2>2 DEF LossOf, Closed
<1> QED  BY <1>1 DEF LossInv

(* A request writes to stdin and not to stdout.                             *)
LEMMA LossRequest ==
  ASSUME SupInv, LossInv, NEW c \in PiClients,
         Accept(c) \/ Returns(c) \/ SendCommand(c) \/ AbortClear(c) \/ AbortDrain(c)
  PROVE  LossInv'
<1>1. UNCHANGED <<out, relay, proc>>
  BY Zenon DEF Accept, Returns, SendCommand, AbortClear, AbortDrain, procs
<1>2. past \in Histories /\ piSpool \in [DOMAIN piSpool -> Nat]
  BY DEF SupInv, PiTypes
<1>3. past'.wrote = past.wrote
  <2>1. CASE SendCommand(c)
    <3> DEFINE b == past.phantom \/ (handler[c].type = "steer" /\ proc[generation] # "live")
    <3>1. past' = [past EXCEPT !.phantom = b]
      BY <2>1 DEF SendCommand
    <3> HIDE DEF b
    <3> QED  BY <1>2, <3>1 DEF Histories
  <2> QED  BY Zenon, <2>1 DEF Accept, Returns, AbortClear, AbortDrain
<1>4. \A g \in Generations : /\ Offered("pi_stderr", g)' = Offered("pi_stderr", g)
                             /\ Offered("stdout", g)' = Offered("stdout", g)
  <2>1. UNCHANGED piSpool \/ Spools(Rec("queue_drained", generation, queued))
    BY Zenon DEF Accept, Returns, SendCommand, AbortClear, AbortDrain
  <2>2. "queue_drained" # "pi_stderr" /\ "queue_drained" # "stdout"
    OBVIOUS
  <2> QED  BY <1>2, <2>1, <2>2, SpoolSame, SpoolsOthers
<1> QED  BY <1>1, <1>3, <1>4, LossKept DEF Closed

(* A new process has written nothing, and nothing of it is spooled.         *)
LEMMA LossLaunch ==
  ASSUME SupInv, LossInv, NEW c \in PiClients, Launch(c), ~running
  PROVE  LossInv'
<1>1. /\ past \in Histories /\ piSpool \in [DOMAIN piSpool -> Nat]
      /\ proc \in [Generations -> {"unborn", "live", "exited", "reaped", "gone"}]
  BY DEF SupInv, PiTypes
<1>2. UNCHANGED <<out, relay>>
  BY DEF Launch, Launched
<1>3. past'.wrote = past.wrote
  <2>1. \/ \E x, y : past' = [past EXCEPT !.slept[generation'] = x, !.late = y]
        \/ \E x : past' = [past EXCEPT !.failed = x]
    BY Zenon DEF Launch, Launched
  <2>2. ASSUME NEW x, NEW y, past' = [past EXCEPT !.slept[generation'] = x, !.late = y]
        PROVE  past'.wrote = past.wrote
    BY <1>1, <2>2 DEF Histories
  <2>3. ASSUME NEW x, past' = [past EXCEPT !.failed = x]
        PROVE  past'.wrote = past.wrote
    BY <1>1, <2>3 DEF Histories
  <2> QED  BY Zenon, <2>1, <2>2, <2>3
<1>4. \A g \in Generations : /\ Offered("pi_stderr", g)' = Offered("pi_stderr", g)
                             /\ Offered("stdout", g)' = Offered("stdout", g)
  <2>1. UNCHANGED piSpool \/ Spools(Rec("pi_restart", generation', <<>>))
    BY DEF Launch, Launched
  <2>2. "pi_restart" # "pi_stderr" /\ "pi_restart" # "stdout"
    OBVIOUS
  <2> QED  BY <1>1, <2>1, <2>2, SpoolSame, SpoolsOthers
<1>5. \A g \in Generations : proc'[g] = proc[g] \/ proc[g] = "unborn"
  <2>1. CASE UNCHANGED proc
    BY <2>1
  <2>2. CASE generation' = generation + 1 /\ proc' = [proc EXCEPT ![generation'] = "live"]
    <3>1. ASSUME NEW g \in Generations, g # generation + 1 PROVE proc'[g] = proc[g]
      BY <1>1, <2>2, <3>1
    <3>2. ASSUME NEW g \in Generations, g = generation + 1 PROVE proc[g] = "unborn"
      BY <3>2, GenerationFacts DEF SupInv, Latest
    <3> QED  BY <3>1, <3>2
  <2> QED  BY <2>1, <2>2 DEF Launch, Launched
<1> QED  BY <1>2, <1>3, <1>4, <1>5, LossKept DEF Closed

(* An exit, and its notice, take no line from the relay.                    *)
LEMMA LossProcess ==
  ASSUME SupInv, LossInv, NEW g \in Generations, PiExits(g) \/ ExitReset(g)
  PROVE  LossInv'
<1>1. /\ past \in Histories /\ piSpool \in [DOMAIN piSpool -> Nat]
      /\ proc \in [Generations -> {"unborn", "live", "exited", "reaped", "gone"}]
  BY DEF SupInv, PiTypes
<1>2. UNCHANGED <<out, relay>>
  BY DEF PiExits, ExitReset
<1>3. past'.wrote = past.wrote
  <2>1. UNCHANGED past \/ \E x : past' = [past EXCEPT !.overlap = x]
    BY DEF PiExits, ExitReset
  <2>2. ASSUME NEW x, past' = [past EXCEPT !.overlap = x] PROVE past'.wrote = past.wrote
    BY <1>1, <2>2 DEF Histories
  <2> QED  BY <2>1, <2>2
<1>4. \A h \in Generations : /\ Offered("pi_stderr", h)' = Offered("pi_stderr", h)
                             /\ Offered("stdout", h)' = Offered("stdout", h)
  <2>1. UNCHANGED piSpool \/ Spools(Rec("pi_exit", g, <<>>))
    BY DEF PiExits, ExitReset
  <2>2. "pi_exit" # "pi_stderr" /\ "pi_exit" # "stdout"
    OBVIOUS
  <2> QED  BY <1>1, <2>1, <2>2, SpoolSame, SpoolsOthers
<1>5. \A h \in Generations : \/ proc'[h] = proc[h]
                             \/ proc[h] = "live" /\ proc'[h] = "exited"
                             \/ proc[h] = "reaped" /\ proc'[h] = "gone"
  BY <1>1 DEF PiExits, ExitReset
<1> QED  BY <1>2, <1>3, <1>4, <1>5, LossKept DEF Closed

(* The shutdown takes no line from the relay.                               *)
LEMMA LossShutdown ==
  ASSUME SupInv, LossInv, ShutdownBegins \/ GraceEnds \/ DaemonExits
  PROVE  LossInv'
<1>1. proc \in [Generations -> {"unborn", "live", "exited", "reaped", "gone"}]
  BY DEF SupInv, PiTypes
<1>2. UNCHANGED <<out, relay, piSpool, past>>
  BY DEF ShutdownBegins, GraceEnds, DaemonExits, procs
<1>3. \A h \in Generations : proc'[h] = proc[h] \/ (proc[h] = "live" /\ proc'[h] = "exited")
  <2>1. UNCHANGED proc \/ proc' = [proc EXCEPT ![target] = IF @ = "live" THEN "exited" ELSE @]
    BY DEF ShutdownBegins, GraceEnds, DaemonExits, procs
  <2> QED  BY <1>1, <2>1
<1> QED  BY <1>2, <1>3, SpoolSame, LossKept DEF Closed

(* pi reads a line: what it queues and what it says.                       *)
ReadsLine(g, line, now, rec) ==
  /\ line = Head(pipe[g])
  /\ pipe' = [pipe EXCEPT ![g] = Tail(pipe[g])] /\ piQueue' = [piQueue EXCEPT ![g] = now]
  /\ out' = [out EXCEPT ![g] = Append(out[g], rec)]
  /\ line.type = "clear_queue" => now = <<>>
  /\ IF line.type \in {"prompt", "abort"} THEN now = piQueue[g] /\ rec.type # "queue_update"
     ELSE rec.type = "queue_update" /\ rec.texts = now

(* What a step of pi is: the line it takes, the queue and the record it     *)
(* leaves.                                                                  *)
LEMMA PiReadsLine ==
  ASSUME QueueTypes, NEW g \in Generations, PiReads(g)
  PROVE  \E line \in Commands, now \in Seq(CommandIds), rec \in Lines : ReadsLine(g, line, now, rec)
<1>1. /\ pipe[g] \in Seq(Commands) /\ pipe[g] # <<>> /\ piQueue[g] \in Seq(CommandIds)
      /\ pipe' = [pipe EXCEPT ![g] = Tail(pipe[g])]
  BY DEF QueueTypes, PiReads
<1> DEFINE line == Head(pipe[g])
           now == CASE line.type = "steer" -> Append(piQueue[g], line.id)
                    [] line.type = "clear_queue" -> <<>>
                    [] OTHER -> piQueue[g]
           rec == CASE line.type = "prompt" -> Rec("turn", g, <<line.id>>)
                    [] line.type = "abort" -> Rec("agent_settled", g, <<>>)
                    [] OTHER -> Rec("queue_update", g, now)
<1>2. piQueue' = [piQueue EXCEPT ![g] = now] /\ out' = [out EXCEPT ![g] = Append(out[g], rec)]
  BY DEF PiReads, Emits
<1>3. line \in Commands /\ line.id \in CommandIds
  <2>1. line \in Commands
    BY <1>1, HeadTailProperties
  <2> QED  BY <2>1 DEF Commands
<1>4. now \in Seq(CommandIds)
  BY <1>1, <1>3
<1> HIDE DEF line
<1>5. line.type = "clear_queue" => now = <<>>
  OBVIOUS
<1>6. line.type \in {"prompt", "abort"} => now = piQueue[g]
  OBVIOUS
<1> HIDE DEF now
<1>7. rec \in Lines
  <2>1. <<line.id>> \in Seq(CommandIds) /\ <<>> \in Seq(CommandIds)
    BY <1>3
  <2> QED  BY <1>4, <2>1 DEF Rec, Lines
<1>8. IF line.type \in {"prompt", "abort"} THEN rec.type # "queue_update"
      ELSE rec.type = "queue_update" /\ rec.texts = now
  BY DEF Rec
<1> HIDE DEF rec
<1>9. ReadsLine(g, line, now, rec)
  BY <1>1, <1>2, <1>5, <1>6, <1>8 DEF ReadsLine, line
<1> QED  BY <1>3, <1>4, <1>7, <1>9

(* A line is written to the process there is, or to none.                  *)
LEMMA ReachesPipe ==
  ASSUME PiTypes, QueueTypes, NEW type \in STRING \cup {"none", "clear_queue", "abort"}, NEW id \in CommandIds,
         Reaches(Line(type, id))
  PROVE  /\ pipe' \in [Generations -> Seq(Commands)]
         /\ \A g \in Generations :
              pipe'[g] = IF g = generation /\ proc[g] = "live" THEN Append(pipe[g], Line(type, id)) ELSE pipe[g]
<1>1. Line(type, id) \in Commands
  BY DEF Line, Commands
<1>2. pipe \in [Generations -> Seq(Commands)]
  BY DEF QueueTypes
<1>3. pipe' = IF proc[generation] = "live"
              THEN [pipe EXCEPT ![generation] = Append(@, Line(type, id))] ELSE pipe
  BY DEF Reaches
<1>4. \A g \in Generations : pipe[g] \in Seq(Commands) /\ Append(pipe[g], Line(type, id)) \in Seq(Commands)
  BY <1>1, <1>2, AppendProperties
<1>5. CASE proc[generation] = "live"
  <2> DEFINE q == Append(pipe[generation], Line(type, id))
  <2>1. pipe' = [pipe EXCEPT ![generation] = q]
    BY <1>3, <1>5
  <2>2. generation \in Generations => q \in Seq(Commands)
    BY <1>4
  <2>3. \A g \in Generations : g = generation => q = Append(pipe[g], Line(type, id))
    OBVIOUS
  <2> HIDE DEF q
  <2> QED  BY Zenon, <1>2, <1>5, <2>1, <2>2, <2>3
<1>6. CASE proc[generation] # "live"
  BY <1>2, <1>3, <1>6
<1> QED  BY <1>5, <1>6

(* The types of the queues.                                                *)
LEMMA QueueTypesRequest ==
  ASSUME SupInv, QueueTypes, UNCHANGED scope, NEW c \in PiClients,
         Accept(c) \/ Start(c) \/ Wake(c) \/ SendCommand(c) \/ AbortClear(c) \/ AbortDrain(c)
  PROVE  QueueTypes'
<1>1. handler \in [PiClients -> Handlers] /\ PiTypes /\ <<>> \in Seq(CommandIds)
  BY DEF SupInv, PiTypes
<1>2. UNCHANGED <<piQueue, out, relay>>
  BY Zenon DEF Accept, Start, Wake, SendCommand, AbortClear, AbortDrain, Launch, Launched, Returns, procs
<1>3. pipe' \in [Generations -> Seq(Commands)]
  <2>1. CASE SendCommand(c)
    <3>1. handler[c].id \in CommandIds /\ handler[c].type \in STRING \cup {"none"}
      BY <1>1, <2>1 DEF SendCommand, QueueTypes, Handlers
    <3> QED  BY Zenon, <1>1, <2>1, <3>1, ReachesPipe DEF SendCommand
  <2>2. CASE AbortClear(c)
    <3>1. handler[c].id \in CommandIds
      BY <2>2 DEF AbortClear, QueueTypes
    <3> QED  BY Zenon, <1>1, <2>2, <3>1, ReachesPipe DEF AbortClear
  <2>3. CASE AbortDrain(c)
    <3>1. handler[c].id \in CommandIds
      BY <2>3 DEF AbortDrain, QueueTypes
    <3> QED  BY <1>1, <2>3, <3>1, ReachesPipe DEF AbortDrain
  <2>4. CASE Accept(c) \/ Start(c) \/ Wake(c)
    <3>1. UNCHANGED pipe
      BY Zenon, <2>4 DEF Accept, Start, Wake, Launch, Launched, Returns, procs
    <3> QED  BY <3>1 DEF QueueTypes
  <2> QED  BY <2>1, <2>2, <2>3, <2>4
<1>4. queued' \in Seq(CommandIds)
  <2>1. CASE SendCommand(c)
    <3>1. handler[c].id \in CommandIds /\ queued \in Seq(CommandIds)
      BY <2>1 DEF SendCommand, QueueTypes
    <3>2. queued' = Append(queued, handler[c].id) \/ queued' = queued
      BY <2>1 DEF SendCommand
    <3> QED  BY <3>1, <3>2
  <2>2. CASE AbortDrain(c)
    BY <1>1, <2>2 DEF AbortDrain
  <2>3. CASE Accept(c) \/ Start(c) \/ Wake(c) \/ AbortClear(c)
    <3>1. UNCHANGED queued
      BY Zenon, <2>3 DEF Accept, Start, Wake, AbortClear
    <3> QED  BY <3>1 DEF QueueTypes
  <2> QED  BY <2>1, <2>2, <2>3
<1>5. \A d \in PiClients : handler'[d].at # "idle" => handler'[d].id \in CommandIds
  <2>1. CASE Accept(c)
    <3>1. PICK id \in scope.ids, type \in scope.types :
            handler' = [handler EXCEPT ![c] = [Idle EXCEPT !.at = "accepted", !.id = id, !.type = type]]
      BY Zenon, <2>1 DEF Accept
    <3>2. id \in CommandIds
      BY DEF SupInv, PiTypes, Scopes
    <3>3. \A d \in PiClients : d # c => handler'[d] = handler[d]
      BY <1>1, <3>1
    <3>4. handler'[c].id = id
      BY <1>1, <3>1 DEF Idle
    <3> QED  BY <3>2, <3>3, <3>4 DEF QueueTypes
  <2>2. CASE ~Accept(c)
    <3>1. \/ \E at : handler' = [handler EXCEPT ![c].at = at]
          \/ handler' = [handler EXCEPT ![c].at = "sleeping", ![c].slept = generation]
          \/ handler' = [handler EXCEPT ![c] = Idle]
      BY <2>2 DEF Start, Wake, SendCommand, AbortClear, AbortDrain, Launch, Launched, Returns
    <3>2. handler[c].at # "idle"
      BY <2>2 DEF Start, Wake, SendCommand, AbortClear, AbortDrain
    <3>3. handler[c].id \in CommandIds
      BY <3>2 DEF QueueTypes
    <3>4. CASE handler' = [handler EXCEPT ![c] = Idle]
      BY <1>1, <3>4, HandlerMoves, IdleHandler DEF QueueTypes
    <3>5. CASE handler' = [handler EXCEPT ![c].at = "sleeping", ![c].slept = generation]
      <4>1. handler'[c].id = handler[c].id /\ \A d \in PiClients : d # c => handler'[d] = handler[d]
        BY <1>1, <3>5 DEF Handlers
      <4> QED  BY Zenon, <3>3, <4>1 DEF QueueTypes
    <3>6. ASSUME NEW at, handler' = [handler EXCEPT ![c].at = at]
          PROVE  \A d \in PiClients : handler'[d].at # "idle" => handler'[d].id \in CommandIds
      <4>1. handler'[c].id = handler[c].id /\ \A d \in PiClients : d # c => handler'[d] = handler[d]
        BY <1>1, <3>6 DEF Handlers
      <4> QED  BY Zenon, <3>3, <4>1 DEF QueueTypes
    <3> QED  BY <3>1, <3>4, <3>5, <3>6
  <2> QED  BY <2>1, <2>2
<1> QED  BY <1>2, <1>3, <1>4, <1>5 DEF QueueTypes

(* The types of the queues in a step of a process or its relay.             *)
LEMMA QueueTypesProcess ==
  ASSUME QueueTypes, NEW g \in Generations,
         \/ PiReads(g) \/ PiExits(g) \/ AwaitExit(g) \/ ExitReset(g)
         \/ RelayTrack(g) \/ RelaySpool(g) \/ RelayEnds(g)
  PROVE  QueueTypes'
<1>0. <<>> \in Seq(CommandIds) /\ out[g] \in Seq(Lines)
  BY DEF QueueTypes
<1>1. UNCHANGED handler
  BY DEF PiReads, PiExits, AwaitExit, ExitReset, RelayTrack, RelaySpool, RelayEnds
<1>2. CASE PiReads(g)
  <2>1. PICK line \in Commands, now \in Seq(CommandIds), rec \in Lines : ReadsLine(g, line, now, rec)
    BY <1>2, PiReadsLine
  <2>2. Tail(pipe[g]) \in Seq(Commands) /\ Append(out[g], rec) \in Seq(Lines)
    BY <1>0, <1>2, HeadTailProperties, AppendProperties DEF QueueTypes, PiReads
  <2>3. UNCHANGED <<relay, queued>>
    BY <1>2 DEF PiReads
  <2>4. /\ pipe' \in [Generations -> Seq(Commands)] /\ piQueue' \in [Generations -> Seq(CommandIds)]
        /\ out' \in [Generations -> Seq(Lines)]
    BY <2>1, <2>2 DEF QueueTypes, ReadsLine
  <2> QED  BY <1>1, <2>3, <2>4 DEF QueueTypes
<1>3. CASE PiExits(g)
  BY Zenon, <1>1, <1>3 DEF PiExits, QueueTypes
<1>4. CASE AwaitExit(g)
  <2>1. PICK k \in 0..Len(out[g]) : out' = [out EXCEPT ![g] = SubSeq(out[g], 1, k)]
    BY Zenon, <1>4 DEF AwaitExit
  <2>2. SubSeq(out[g], 1, k) \in Seq(Lines)
    <3>1. Len(out[g]) \in Nat /\ \A i \in 1..Len(out[g]) : out[g][i] \in Lines
      BY <1>0, LenProperties, ElementOfSeq
    <3> QED  BY <2>1, <3>1, SubSeqProperties
  <2>3. UNCHANGED <<pipe, piQueue, relay, queued>>
    BY <1>4 DEF AwaitExit
  <2> QED  BY Zenon, <1>1, <2>1, <2>2, <2>3 DEF QueueTypes
<1>5. CASE ExitReset(g)
  BY <1>0, <1>1, <1>5 DEF ExitReset, QueueTypes
<1>6. CASE RelayTrack(g)
  <2>1. Head(out[g]) \in Lines /\ Head(out[g]).texts \in Seq(CommandIds)
    <3>1. Head(out[g]) \in Lines
      BY <1>0, <1>6, HeadTailProperties DEF RelayTrack
    <3> QED  BY <3>1 DEF Lines
  <2>2. queued' = Head(out[g]).texts /\ relay' = [relay EXCEPT ![g] = "tracked"] /\ UNCHANGED <<pipe, piQueue, out>>
    BY <1>6 DEF RelayTrack
  <2> QED  BY <1>1, <2>1, <2>2 DEF QueueTypes
<1>7. CASE RelaySpool(g)
  <2>1. Tail(out[g]) \in Seq(Lines)
    BY <1>0, <1>7, HeadTailProperties DEF RelaySpool
  <2>2. /\ out' = [out EXCEPT ![g] = Tail(out[g])] /\ relay' = [relay EXCEPT ![g] = "reading"]
        /\ UNCHANGED <<pipe, piQueue, queued>>
    BY <1>7 DEF RelaySpool
  <2> QED  BY <1>1, <2>1, <2>2 DEF QueueTypes
<1>8. CASE RelayEnds(g)
  BY <1>1, <1>8 DEF RelayEnds, QueueTypes
<1> QED  BY <1>2, <1>3, <1>4, <1>5, <1>6, <1>7, <1>8

(* The types of the queues are inductive, given the supervisor invariant.   *)
LEMMA QueueTypesStep ==
  ASSUME SupInv, QueueTypes, [PiNext]_piVars PROVE QueueTypes'
<1>1. CASE UNCHANGED piVars \/ ShutdownBegins \/ GraceEnds \/ DaemonExits
  <2>1. UNCHANGED <<pipe, piQueue, out, relay, queued, handler>>
    BY <1>1 DEF piVars, procs, ShutdownBegins, GraceEnds, DaemonExits
  <2> QED  BY <2>1 DEF QueueTypes
<1>2. CASE PiNext
  <2>1. UNCHANGED scope
    BY <1>2 DEF PiNext
  <2> QED  BY <1>1, <1>2, <2>1, QueueTypesRequest, QueueTypesProcess DEF PiNext
<1> QED  BY <1>1, <1>2

(* pi writes one more line, and the relay has one more to spool.           *)
LEMMA LossPiReads ==
  ASSUME SupInv, QueueTypes, LossInv, NEW g \in Generations, PiReads(g) PROVE LossInv'
<1>1. PICK line \in Commands, now \in Seq(CommandIds), rec \in Lines : ReadsLine(g, line, now, rec)
  BY PiReadsLine
<1>2. /\ proc[g] = "live" /\ UNCHANGED <<proc, relay, piSpool>>
      /\ past' = [past EXCEPT !.wrote[g] = @ + 1] /\ past \in Histories
  BY DEF PiReads, SupInv, PiTypes
<1>3. /\ past'.wrote[g] = past.wrote[g] + 1 /\ past.wrote[g] \in Nat
      /\ \A h \in Generations : h # g => past'.wrote[h] = past.wrote[h]
  BY <1>2 DEF Histories
<1>4. Len(out'[g]) = Len(out[g]) + 1 /\ Len(out[g]) \in Nat /\ \A h \in Generations : h # g => out'[h] = out[h]
  <2>1. out \in [Generations -> Seq(Lines)] /\ out' = [out EXCEPT ![g] = Append(out[g], rec)]
    BY <1>1 DEF QueueTypes, ReadsLine
  <2>2. out[g] \in Seq(Lines) /\ out'[g] = Append(out[g], rec)
    BY <2>1
  <2>3. Len(Append(out[g], rec)) = Len(out[g]) + 1 /\ Len(out[g]) \in Nat
    BY <2>2, AppendProperties, LenProperties
  <2> QED  BY <2>1, <2>2, <2>3
<1>5. LossOf(g)'
  <2>1. LossOf(g) /\ Offered("stdout", g) \in Nat
    BY SpooledNat DEF LossInv, SupInv, PiTypes
  <2>2. Offered("pi_stderr", g)' = Offered("pi_stderr", g) /\ Offered("stdout", g)' = Offered("stdout", g)
    BY <1>2, SpoolSame
  <2>3. relay'[g] # "done" /\ relay'[g] = relay[g]
    BY <1>2, <2>1 DEF LossOf
  <2>4. Offered("stdout", g) + Len(out[g]) = past.wrote[g]
    BY <1>2, <2>1 DEF LossOf, Closed
  <2>5. Offered("stdout", g) + Len(out'[g]) = past'.wrote[g]
    BY <1>3, <1>4, <2>1, <2>4
  <2>6. Offered("stdout", g)' + Len(out'[g]) = past'.wrote[g]
    BY <2>2, <2>5
  <2>7. Offered("pi_stderr", g)' = 0
    BY <2>1, <2>2, <2>3 DEF LossOf
  <2> QED  BY <2>3, <2>6, <2>7 DEF LossOf
<1> QED  BY <1>2, <1>3, <1>4, <1>5, SpoolSame, LossOthers

(* Wait returns: what the relay has not taken by then may be gone.         *)
LEMMA LossAwaitExit ==
  ASSUME SupInv, QueueTypes, LossInv, NEW g \in Generations, AwaitExit(g) PROVE LossInv'
<1>1. /\ proc[g] = "exited" /\ proc' = [proc EXCEPT ![g] = "reaped"] /\ UNCHANGED <<relay, piSpool>>
      /\ \E q : out' = [out EXCEPT ![g] = q]
  BY Zenon DEF AwaitExit
<1>2. proc'[g] = "reaped" /\ \A h \in Generations : h # g => proc'[h] = proc[h]
  BY <1>1 DEF SupInv, PiTypes
<1>3. \A h \in Generations : h # g => out'[h] = out[h]
  BY <1>1 DEF QueueTypes
<1>4. past'.wrote = past.wrote
  <2>1. past \in Histories /\ (UNCHANGED past \/ \E x : past' = [past EXCEPT !.crashed[g] = x])
    BY DEF SupInv, PiTypes, AwaitExit
  <2> QED  BY <2>1 DEF Histories
<1>5. LossOf(g)'
  <2>1. LossOf(g)
    BY DEF LossInv
  <2>2. Offered("pi_stderr", g)' = Offered("pi_stderr", g) /\ Offered("stdout", g)' = Offered("stdout", g)
    BY <1>1, SpoolSame
  <2>3. Closed(g)' /\ proc'[g] = "reaped"
    BY <1>2 DEF Closed
  <2> QED  BY <1>1, <1>4, <2>1, <2>2, <2>3 DEF LossOf
<1> QED  BY <1>1, <1>2, <1>3, <1>4, <1>5, SpoolSame, LossOthers

(* A tracked line is not spooled yet, and not lost.                         *)
LEMMA LossRelayTrack ==
  ASSUME SupInv, QueueTypes, LossInv, NEW g \in Generations, RelayTrack(g) PROVE LossInv'
<1>1. /\ relay[g] = "reading" /\ relay' = [relay EXCEPT ![g] = "tracked"] /\ UNCHANGED <<proc, out, piSpool>>
      /\ \E x : past' = [past EXCEPT !.overlap = x]
  BY Zenon DEF RelayTrack
<1>2. past'.wrote = past.wrote
  BY <1>1 DEF SupInv, PiTypes, Histories
<1>3. relay'[g] = "tracked" /\ \A h \in Generations : h # g => relay'[h] = relay[h]
  BY <1>1 DEF QueueTypes
<1>4. LossOf(g)'
  <2>1. LossOf(g)
    BY DEF LossInv
  <2>2. Offered("pi_stderr", g)' = Offered("pi_stderr", g) /\ Offered("stdout", g)' = Offered("stdout", g)
    BY <1>1, SpoolSame
  <2> QED  BY <1>1, <1>2, <1>3, <2>1, <2>2 DEF LossOf, Closed
<1> QED  BY <1>1, <1>2, <1>3, <1>4, SpoolSame, LossOthers

(* A line leaves the pipe as it is spooled.                                *)
LEMMA LossRelaySpool ==
  ASSUME SupInv, QueueTypes, LossInv, NEW g \in Generations, RelaySpool(g) PROVE LossInv'
<1>1. /\ relay[g] # "done" /\ relay' = [relay EXCEPT ![g] = "reading"] /\ UNCHANGED <<proc, past>>
      /\ out[g] # <<>> /\ out' = [out EXCEPT ![g] = Tail(out[g])] /\ Spools(Rec("stdout", g, <<>>))
  BY DEF RelaySpool
<1>2. relay'[g] = "reading" /\ \A h \in Generations : h # g => relay'[h] = relay[h] /\ out'[h] = out[h]
  BY <1>1 DEF QueueTypes
<1>3. Len(out'[g]) = Len(out[g]) - 1 /\ Len(out[g]) \in Nat
  <2>1. out[g] \in Seq(Lines) /\ out'[g] = Tail(out[g])
    BY <1>1 DEF QueueTypes
  <2> QED  BY Zenon, <1>1, <2>1, HeadTailProperties, LenProperties
<1>4. piSpool \in [DOMAIN piSpool -> Nat] /\ "stdout" # "pi_stderr"
  BY DEF SupInv, PiTypes
<1>5. /\ Offered("stdout", g) \in Nat /\ Offered("stdout", g)' = Offered("stdout", g) + 1
      /\ \A h \in Generations : Offered("pi_stderr", h)' = Offered("pi_stderr", h)
      /\ \A h \in Generations : h # g => Offered("stdout", h)' = Offered("stdout", h)
  BY <1>1, <1>4, SpoolsOne, SpoolsOthers
<1>6. LossOf(g)'
  <2>1. LossOf(g)
    BY DEF LossInv
  <2>2. ~Closed(g)' => Offered("stdout", g)' + Len(out'[g]) = past'.wrote[g]
    <3> SUFFICES ASSUME ~Closed(g)' PROVE Offered("stdout", g)' + Len(out'[g]) = past'.wrote[g]
      OBVIOUS
    <3>1. Offered("stdout", g) + Len(out[g]) = past.wrote[g]
      BY <1>1, <2>1 DEF LossOf, Closed
    <3>2. Offered("stdout", g) + Len(out[g]) = (Offered("stdout", g) + 1) + Len(out'[g])
      BY <1>3, <1>5
    <3> QED  BY <1>1, <1>5, <3>1, <3>2
  <2>3. Offered("pi_stderr", g)' = 0
    BY <1>1, <1>5, <2>1 DEF LossOf
  <2> QED  BY <1>2, <2>2, <2>3 DEF LossOf
<1> QED  BY <1>1, <1>2, <1>5, <1>6, LossOthers

(* The relay ends: at the end of the file with every line spooled, or with *)
(* a notice.                                                               *)
LEMMA LossRelayEnds ==
  ASSUME SupInv, QueueTypes, LossInv, NEW g \in Generations, RelayEnds(g) PROVE LossInv'
<1>1. /\ relay[g] = "reading" /\ relay' = [relay EXCEPT ![g] = "done"] /\ UNCHANGED <<proc, past, out>>
      /\ out[g] = <<>> /\ (proc[g] = "exited" \/ Closed(g))
      /\ IF Closed(g) THEN Spools(Rec("pi_stderr", g, <<>>)) ELSE UNCHANGED piSpool
  BY DEF RelayEnds
<1>2. relay'[g] = "done" /\ \A h \in Generations : h # g => relay'[h] = relay[h]
  BY <1>1 DEF QueueTypes
<1>3. piSpool \in [DOMAIN piSpool -> Nat] /\ "stdout" # "pi_stderr" /\ LossOf(g) /\ Len(out[g]) = 0
  BY <1>1 DEF SupInv, PiTypes, LossInv
<1>4. proc'[g] \in {"exited", "reaped", "gone"}
  BY <1>1 DEF Closed
<1>5. CASE Closed(g)
  <2>1. Spools(Rec("pi_stderr", g, <<>>))
    BY <1>1, <1>5
  <2>2. /\ Offered("pi_stderr", g)' = Offered("pi_stderr", g) + 1
        /\ \A h \in Generations : Offered("stdout", h)' = Offered("stdout", h)
        /\ \A h \in Generations : h # g => Offered("pi_stderr", h)' = Offered("pi_stderr", h)
    BY <1>3, <2>1, SpoolsOne, SpoolsOthers
  <2>3. Offered("pi_stderr", g)' = 1 /\ Closed(g)'
    BY <1>1, <1>3, <1>5, <2>2 DEF LossOf, Closed
  <2>4. LossOf(g)'
    BY <1>2, <1>4, <2>3 DEF LossOf
  <2> QED  BY <1>1, <1>2, <2>2, <2>4, LossOthers
<1>6. CASE ~Closed(g)
  <2>1. UNCHANGED piSpool
    BY <1>1, <1>6
  <2>2. Offered("stdout", g) = past.wrote[g] /\ Offered("stdout", g) \in Nat
    BY <1>3, <1>6, SpooledNat DEF LossOf
  <2>3. Offered("stdout", g)' = past'.wrote[g] /\ Offered("stdout", g)' \in Nat /\ Len(out'[g]) = 0
    BY <1>1, <1>3, <2>1, <2>2, SpoolSame
  <2>4. LossOf(g)'
    BY <1>2, <1>4, <2>3 DEF LossOf
  <2> QED  BY <1>1, <1>2, <2>1, <2>4, SpoolSame, LossOthers
<1> QED  BY <1>5, <1>6

(* The invariant of the relays is inductive.                                *)
LEMMA LossStep ==
  ASSUME SupInv, QueueTypes, LossInv, [PiNext]_piVars PROVE LossInv'
<1>1. CASE UNCHANGED piVars
  <2>1. UNCHANGED <<out, relay, past, proc, piSpool>>
    BY <1>1 DEF piVars, procs
  <2> QED  BY <2>1, SpoolSame, LossKept DEF Closed
<1>2. CASE PiNext
  <2>1. ASSUME NEW c \in PiClients, Start(c) \/ Wake(c) PROVE LossInv'
    <3>1. CASE Returns(c)
      BY <3>1, LossRequest
    <3>2. CASE Launch(c) /\ ~running
      BY <3>2, LossLaunch
    <3>3. CASE UNCHANGED <<procs, piSpool, past>>
      <4>1. UNCHANGED <<out, relay, past, proc, piSpool>>
        BY <3>3 DEF procs
      <4> QED  BY <4>1, SpoolSame, LossKept DEF Closed
    <3> QED  BY <2>1, <3>1, <3>2, <3>3 DEF Start, Wake
  <2> QED  BY <1>2, <2>1, LossRequest, LossPiReads, LossProcess, LossAwaitExit, LossRelayTrack, LossRelaySpool,
              LossRelayEnds, LossShutdown DEF PiNext
<1> QED  BY <1>1, <1>2

(* At the start nothing is queued or written.                               *)
LEMMA LossInitial ==
  ASSUME NEW bounds, PiInit(bounds) PROVE QueueTypes /\ LossInv
<1>1. /\ pipe = [g \in Generations |-> <<>>] /\ out = [g \in Generations |-> <<>>]
      /\ piQueue = [g \in Generations |-> <<>>] /\ queued = <<>> /\ relay = [g \in Generations |-> "reading"]
      /\ piSpool = <<>> /\ past.wrote = [g \in Generations |-> 0] /\ handler = [c \in PiClients |-> Idle]
  BY DEF PiInit
<1>2. \A r, stored : Copies(r, stored) = 0
  BY <1>1 DEF Copies
<1>3. \A c \in PiClients : handler[c].at = "idle"
  BY Zenon, <1>1, IdleHandler
<1>4. <<>> \in Seq(Commands) /\ <<>> \in Seq(Lines) /\ <<>> \in Seq(CommandIds)
  BY EmptySeq
<1>5. QueueTypes
  BY <1>1, <1>3, <1>4 DEF QueueTypes
<1>6. \A type, g : Offered(type, g) = 0
  <2>1. 0 + 0 = 0
    OBVIOUS
  <2> QED  BY Zenon, <1>2, <2>1 DEF Offered
<1>7. LossInv
  BY <1>1, <1>6 DEF LossInv, LossOf
<1> QED  BY <1>5, <1>7

(* StdoutAccounted (relayStdout, awaitExit), for every set of requests    *)
(* and every bound, whatever the spool refuses: when a relay has ended,     *)
(* each line its pi wrote was stored or refused by the spool, or a          *)
(* pi_stderr notice that the pipe was closed under it was.                  *)
THEOREM PiStdoutAccounted ==
  ASSUME NEW bounds \in Scopes PROVE PiSpec(bounds) => []StdoutAccounted
<1> DEFINE Inv == SupInv /\ QueueTypes /\ LossInv
<1>1. PiInit(bounds) => Inv
  BY SupInitial, LossInitial
<1>2. Inv /\ [PiNext]_piVars => Inv'
  BY SupStep, QueueTypesStep, LossStep
<1>3. Inv => StdoutAccounted
  BY DEF LossInv, LossOf, StdoutAccounted
<1> QED  BY <1>1, <1>2, <1>3, PTL DEF PiSpec

-------------------------------------------------------------------------------

(* One more line is written to a pipe.                                      *)
LEMMA PairedAppend ==
  ASSUME NEW p, NEW n \in Nat, NEW held, Paired(p, n, held),
         NEW q, \A i \in 1..n : q[i] = p[i], q[n + 1].type = "abort" => Cleared(p, n, held)
  PROVE  Paired(q, n + 1, held)
<1> SUFFICES ASSUME NEW i \in 1..(n + 1), q[i].type = "abort"
             PROVE  IF i = 1 THEN held = <<>> ELSE q[i - 1].type = "clear_queue"
  BY DEF Paired
<1>1. CASE i \in 1..n
  BY <1>1 DEF Paired
<1>2. CASE i = n + 1
  BY <1>2 DEF Cleared
<1> QED  BY <1>1, <1>2

(* The head line is read: a clear_queue leaves nothing held.                *)
LEMMA PairedTail ==
  ASSUME NEW p, NEW n \in Nat, n > 0, NEW held, Paired(p, n, held), NEW q, \A i \in 1..(n - 1) : q[i] = p[i + 1],
         NEW now, p[1].type = "clear_queue" => now = <<>>
  PROVE  Paired(q, n - 1, now) /\ (Cleared(p, n, held) => Cleared(q, n - 1, now))
<1>1. ASSUME NEW i \in 1..(n - 1), q[i].type = "abort"
      PROVE  IF i = 1 THEN now = <<>> ELSE q[i - 1].type = "clear_queue"
  <2>1. i + 1 \in 1..n /\ i + 1 # 1 /\ p[i + 1].type = "abort"
    BY <1>1
  <2>2. p[i].type = "clear_queue"
    BY <2>1 DEF Paired
  <2>3. CASE i = 1
    BY <2>2, <2>3
  <2>4. CASE i # 1
    <3>1. i - 1 \in 1..(n - 1) /\ (i - 1) + 1 = i
      BY <2>4
    <3> QED  BY <2>2, <2>4, <3>1
  <2> QED  BY <2>3, <2>4
<1>2. Cleared(p, n, held) => Cleared(q, n - 1, now)
  <2>1. CASE n = 1
    BY <2>1 DEF Cleared
  <2>2. CASE n # 1
    <3>1. n - 1 \in 1..(n - 1) /\ (n - 1) + 1 = n
      BY <2>2
    <3> QED  BY <2>2, <3>1 DEF Cleared
  <2> QED  BY <2>1, <2>2
<1> QED  BY <1>1, <1>2 DEF Paired

(* pi writes one more line: the last update not tracked is what it holds    *)
(* now.                                                                     *)
LEMMA FreshAppend ==
  ASSUME NEW p, NEW n \in Nat, NEW at, at = "tracked" => n > 0, NEW held, LastIs(p, n, at, held),
         NEW q, \A i \in 1..n : q[i] = p[i], NEW now,
         IF q[n + 1].type = "queue_update" THEN q[n + 1].texts = now ELSE now = held
  PROVE  LastIs(q, n + 1, at, now)
<1>0. \A i \in 1..n : Fresh(q, n + 1, at, i) <=> Fresh(p, n, at, i)
  BY DEF Fresh
<1>1. CASE q[n + 1].type = "queue_update"
  <2>1. Fresh(q, n + 1, at, n + 1)
    BY <1>1 DEF Fresh
  <2>2. ASSUME NEW i \in 1..(n + 1), \A j \in 1..(n + 1) : Fresh(q, n + 1, at, j) => j <= i PROVE i = n + 1
    BY <2>1, <2>2
  <2>3. LastIs(q, n + 1, at, now)
    BY <1>1, <2>2 DEF LastIs
  <2> QED  BY <2>3
<1>2. CASE q[n + 1].type # "queue_update"
  <2>1. ~Fresh(q, n + 1, at, n + 1)
    BY <1>2 DEF Fresh
  <2>2. ASSUME NEW i \in 1..(n + 1), Fresh(q, n + 1, at, i), \A j \in 1..(n + 1) : Fresh(q, n + 1, at, j) => j <= i
        PROVE  q[i].texts = now
    <3>1. i \in 1..n
      BY <2>1, <2>2
    <3>2. Fresh(p, n, at, i) /\ \A j \in 1..n : Fresh(p, n, at, j) => j <= i
      BY <1>0, <2>2, <3>1
    <3> QED  BY <1>2, <3>1, <3>2 DEF LastIs
  <2> QED  BY <2>2 DEF LastIs
<1> QED  BY <1>1, <1>2

(* When nothing is fresh with one more line, nothing was before, and the    *)
(* line is no update.                                                       *)
LEMMA FreshBefore ==
  ASSUME NEW p, NEW n \in Nat, NEW at, at = "tracked" => n > 0, NEW q, \A i \in 1..n : q[i] = p[i],
         NoneFresh(q, n + 1, at)
  PROVE  NoneFresh(p, n, at) /\ q[n + 1].type # "queue_update"
<1>1. \A i \in 1..n : ~Fresh(p, n, at, i)
  BY DEF NoneFresh, Fresh
<1>2. ~Fresh(q, n + 1, at, n + 1)
  BY DEF NoneFresh
<1>3. q[n + 1].type # "queue_update"
  BY <1>2 DEF Fresh
<1> QED  BY <1>1, <1>3 DEF NoneFresh

(* The relay tracks the head line.                                         *)
LEMMA FreshTracked ==
  ASSUME NEW p, NEW n \in Nat, n > 0, p[1].type = "queue_update", NEW held, LastIs(p, n, "reading", held)
  PROVE  /\ LastIs(p, n, "tracked", held)
         /\ NoneFresh(p, n, "tracked") => p[1].texts = held
<1>1. \A i \in 1..n : i # 1 => (Fresh(p, n, "tracked", i) <=> Fresh(p, n, "reading", i))
  BY DEF Fresh
<1>2. Fresh(p, n, "reading", 1) /\ ~Fresh(p, n, "tracked", 1)
  BY DEF Fresh
<1>3. ASSUME NEW i \in 1..n, Fresh(p, n, "tracked", i), \A j \in 1..n : Fresh(p, n, "tracked", j) => j <= i
      PROVE  p[i].texts = held
  <2>1. i # 1
    BY <1>2, <1>3
  <2>2. \A j \in 1..n : Fresh(p, n, "reading", j) => j <= i
    BY <1>1, <1>3
  <2> QED  BY <1>1, <1>3, <2>1, <2>2 DEF LastIs
<1>4. ASSUME NoneFresh(p, n, "tracked") PROVE p[1].texts = held
  <2>1. 1 \in 1..n /\ \A j \in 1..n : Fresh(p, n, "reading", j) => j <= 1
    BY <1>1, <1>4 DEF NoneFresh
  <2> QED  BY <1>2, <2>1 DEF LastIs
<1> QED  BY <1>3, <1>4 DEF LastIs

(* The relay spools the head line, which was tracked or is no update.      *)
LEMMA FreshSpooled ==
  ASSUME NEW p, NEW n \in Nat, n > 0, NEW at, p[1].type = "queue_update" => at = "tracked",
         NEW held, LastIs(p, n, at, held), NEW q, \A i \in 1..(n - 1) : q[i] = p[i + 1]
  PROVE  /\ LastIs(q, n - 1, "reading", held)
         /\ NoneFresh(q, n - 1, "reading") => NoneFresh(p, n, at)
<1>1. ~Fresh(p, n, at, 1)
  BY DEF Fresh
<1>2. \A i \in 1..(n - 1) : i + 1 \in 1..n /\ (Fresh(q, n - 1, "reading", i) <=> Fresh(p, n, at, i + 1))
  BY DEF Fresh
<1>3. ASSUME NEW i \in 1..(n - 1), Fresh(q, n - 1, "reading", i),
             \A j \in 1..(n - 1) : Fresh(q, n - 1, "reading", j) => j <= i
      PROVE  q[i].texts = held
  <2>1. ASSUME NEW j \in 1..n, Fresh(p, n, at, j) PROVE j <= i + 1
    <3>1. j - 1 \in 1..(n - 1) /\ (j - 1) + 1 = j
      BY <1>1, <2>1
    <3>2. Fresh(q, n - 1, "reading", j - 1)
      BY <1>2, <2>1, <3>1
    <3>3. j - 1 <= i
      BY <1>3, <3>1, <3>2
    <3> QED  BY <3>3
  <2>2. i + 1 \in 1..n /\ Fresh(p, n, at, i + 1)
    BY <1>2, <1>3
  <2>3. p[i + 1].texts = held
    BY <2>1, <2>2 DEF LastIs
  <2> QED  BY <2>3
<1>4. ASSUME NoneFresh(q, n - 1, "reading"), NEW j \in 1..n PROVE ~Fresh(p, n, at, j)
  <2>1. CASE j = 1
    BY <1>1, <2>1
  <2>2. CASE j # 1
    <3>1. j - 1 \in 1..(n - 1) /\ (j - 1) + 1 = j
      BY <2>2
    <3> QED  BY <1>2, <1>4, <3>1 DEF NoneFresh
  <2> QED  BY <2>1, <2>2
<1> QED  BY <1>3, <1>4 DEF LastIs, NoneFresh

(* Sequences, element by element.                                          *)
LEMMA AppendAt ==
  ASSUME NEW S, NEW s \in Seq(S), NEW e \in S
  PROVE  /\ Len(s) \in Nat /\ Len(Append(s, e)) = Len(s) + 1 /\ Append(s, e)[Len(s) + 1] = e
         /\ \A i \in 1..Len(s) : Append(s, e)[i] = s[i]
BY AppendProperties, LenProperties

(* The same for the rest of a sequence.                                     *)
LEMMA TailAt ==
  ASSUME NEW S, NEW s \in Seq(S), s # <<>>
  PROVE  /\ Len(s) \in Nat /\ Len(s) > 0 /\ Head(s) = s[1] /\ Len(Tail(s)) = Len(s) - 1
         /\ \A i \in 1..(Len(s) - 1) : Tail(s)[i] = s[i + 1]
BY HeadTailProperties, LenProperties, EmptySeq

(* A step that writes nothing to pi, and reads nothing.                    *)
LEMMA PairsKept ==
  ASSUME Pairs, UNCHANGED <<mu, generation, pipe, piQueue>>,
         \A c \in PiClients : handler'[c].at = "cleared" <=> handler[c].at = "cleared",
         \A c \in PiClients : handler'[c].at \in {"ready", "cleared"} =>
                                handler[c].at \in {"ready", "cleared"} \/ generation > 0,
         \A g \in Generations : g > generation => out'[g] = <<>>
  PROVE  Pairs'
<1>1. \A g \in Generations : Paired(pipe'[g], Len(pipe'[g]), piQueue'[g])
  BY DEF Pairs
<1>2. mu' # NoClient => Cleared(pipe'[generation'], Len(pipe'[generation']), piQueue'[generation'])
  BY DEF Pairs
<1> QED  BY <1>1, <1>2 DEF Pairs

(* An accepted command is not written yet.                                  *)
LEMMA PairsAccept ==
  ASSUME SupInv, Pairs, NEW c \in PiClients, Accept(c) PROVE Pairs'
<1>1. PICK id \in scope.ids, type \in scope.types :
        handler' = [handler EXCEPT ![c] = [Idle EXCEPT !.at = "accepted", !.id = id, !.type = type]]
  BY Zenon DEF Accept
<1>2. handler \in [PiClients -> Handlers] /\ handler[c].at = "idle"
  BY DEF SupInv, PiTypes, Accept
<1>3. handler'[c].at = "accepted" /\ \A d \in PiClients : d # c => handler'[d] = handler[d]
  BY <1>1, <1>2 DEF Idle
<1>4. UNCHANGED <<mu, generation, pipe, piQueue, out>>
  BY DEF Accept, procState, procs
<1> QED  BY Zenon, <1>2, <1>3, <1>4, PairsKept DEF Pairs

(* A launch: the new process has read and written nothing.                 *)
LEMMA PairsStart ==
  ASSUME SupInv, Pairs, NEW c \in PiClients, Start(c) \/ Wake(c) PROVE Pairs'
<1>1. /\ handler \in [PiClients -> Handlers] /\ handler[c].at \in {"accepted", "sleeping"}
      /\ mu = NoClient /\ UNCHANGED <<mu, pipe, piQueue, out>> /\ generation \in Nat
  <2>1. handler \in [PiClients -> Handlers] /\ generation \in Nat
    BY GenerationFacts DEF SupInv, PiTypes
  <2>2. handler[c].at \in {"accepted", "sleeping"} /\ mu = NoClient /\ UNCHANGED mu
    BY DEF Start, Wake
  <2>3. UNCHANGED <<pipe, piQueue, out>>
    BY DEF Start, Wake, Launch, Launched, Returns, procs
  <2> QED  BY <2>1, <2>2, <2>3
<1>2. \/ /\ handler' = [handler EXCEPT ![c].at = "ready"] /\ running /\ UNCHANGED generation
      \/ /\ handler' = [handler EXCEPT ![c].at = "sleeping", ![c].slept = generation] /\ UNCHANGED generation
      \/ /\ handler' = [handler EXCEPT ![c].at = "ready"] /\ generation' = generation + 1
      \/ /\ handler' = [handler EXCEPT ![c] = Idle] /\ UNCHANGED generation
  BY DEF Start, Wake, Launch, Launched, Returns, procState
<1>3. CASE handler' = [handler EXCEPT ![c].at = "ready"] /\ running /\ UNCHANGED generation
  <2>1. handler'[c].at = "ready" /\ \A d \in PiClients : d # c => handler'[d] = handler[d]
    BY <1>1, <1>3, HandlerAt
  <2>2. generation > 0
    BY <1>3 DEF SupInv, Latest
  <2> QED  BY <1>1, <1>3, <2>1, <2>2, PairsKept DEF Pairs
<1>4. CASE handler' = [handler EXCEPT ![c].at = "sleeping", ![c].slept = generation] /\ UNCHANGED generation
  <2>1. handler'[c].at = "sleeping" /\ \A d \in PiClients : d # c => handler'[d] = handler[d]
    BY <1>1, <1>4 DEF Handlers
  <2> QED  BY <1>1, <1>4, <2>1, PairsKept DEF Pairs
<1>5. CASE handler' = [handler EXCEPT ![c] = Idle] /\ UNCHANGED generation
  <2>1. handler'[c].at = "idle" /\ \A d \in PiClients : d # c => handler'[d] = handler[d]
    BY <1>1, <1>5, HandlerMoves, IdleHandler
  <2> QED  BY Zenon, <1>1, <1>5, <2>1, PairsKept DEF Pairs
<1>6. CASE handler' = [handler EXCEPT ![c].at = "ready"] /\ generation' = generation + 1
  <2>1. handler'[c].at = "ready" /\ \A d \in PiClients : d # c => handler'[d] = handler[d]
    BY <1>1, <1>6, HandlerAt
  <2>2. generation' > 0 /\ \A g \in Generations : g > generation' => g > generation
    BY <1>1, <1>6 DEF Generations
  <2>3. \A d \in PiClients : handler'[d].at = "cleared" <=> mu' = d
    BY <1>1, <2>1 DEF Pairs
  <2>4. \A g \in Generations : g > generation' => pipe'[g] = <<>> /\ piQueue'[g] = <<>> /\ out'[g] = <<>>
    BY <1>1, <2>2 DEF Pairs
  <2>5. \A g \in Generations : Paired(pipe'[g], Len(pipe'[g]), piQueue'[g])
    BY <1>1 DEF Pairs
  <2> QED  BY <1>1, <2>2, <2>3, <2>4, <2>5 DEF Pairs
<1> QED  BY <1>2, <1>3, <1>4, <1>5, <1>6

(* A request writes a line: an abort only behind its clear_queue.          *)
LEMMA PairsWrites ==
  ASSUME SupInv, QueueTypes, Pairs, UNCHANGED <<generation, piQueue, out>>,
         NEW type \in STRING \cup {"none", "clear_queue", "abort"}, NEW id \in CommandIds,
         Reaches(Line(type, id)), type = "abort" => mu # NoClient
  PROVE  /\ \A g \in Generations : g > generation => pipe'[g] = <<>> /\ piQueue'[g] = <<>> /\ out'[g] = <<>>
         /\ \A g \in Generations : Paired(pipe'[g], Len(pipe'[g]), piQueue'[g])
         /\ type = "clear_queue" /\ generation > 0 /\ proc[generation] = "live" =>
              Cleared(pipe'[generation], Len(pipe'[generation]), piQueue'[generation])
<1>1. \A g \in Generations :
        pipe'[g] = IF g = generation /\ proc[g] = "live" THEN Append(pipe[g], Line(type, id)) ELSE pipe[g]
  BY ReachesPipe DEF SupInv
<1>2. Line(type, id) \in Commands /\ Line(type, id).type = type
  BY DEF Line, Commands
<1>3. ASSUME NEW g \in Generations, g = generation, proc[g] = "live"
      PROVE  /\ Paired(pipe'[g], Len(pipe'[g]), piQueue'[g])
             /\ type = "clear_queue" => Cleared(pipe'[g], Len(pipe'[g]), piQueue'[g])
  <2>1. pipe[g] \in Seq(Commands) /\ pipe'[g] = Append(pipe[g], Line(type, id))
    BY Zenon, <1>1, <1>3 DEF QueueTypes
  <2>2. /\ Len(pipe[g]) \in Nat /\ Len(pipe'[g]) = Len(pipe[g]) + 1 /\ pipe'[g][Len(pipe[g]) + 1].type = type
        /\ \A i \in 1..Len(pipe[g]) : pipe'[g][i] = pipe[g][i]
    BY <1>2, <2>1, AppendAt
  <2>3. /\ Paired(pipe[g], Len(pipe[g]), piQueue[g])
        /\ type = "abort" => Cleared(pipe[g], Len(pipe[g]), piQueue[g])
    BY <1>3 DEF Pairs
  <2>4. Paired(pipe'[g], Len(pipe[g]) + 1, piQueue[g])
    BY Zenon, <2>2, <2>3, PairedAppend
  <2>5. type = "clear_queue" => Cleared(pipe'[g], Len(pipe[g]) + 1, piQueue[g])
    BY <2>2 DEF Cleared
  <2> QED  BY <2>2, <2>4, <2>5
<1>4. ASSUME NEW g \in Generations, ~(g = generation /\ proc[g] = "live")
      PROVE  Paired(pipe'[g], Len(pipe'[g]), piQueue'[g])
  BY <1>1, <1>4 DEF Pairs
<1>5. \A g \in Generations : g > generation => pipe'[g] = <<>> /\ piQueue'[g] = <<>> /\ out'[g] = <<>>
  <2>1. \A g \in Generations : g > generation => g # generation
    BY GenerationFacts DEF SupInv
  <2> QED  BY <1>1, <2>1 DEF Pairs
<1>6. generation > 0 => generation \in Generations
  BY GenerationFacts DEF SupInv
<1> QED  BY <1>3, <1>4, <1>5, <1>6

(* A command other than an abort is written only while no pair is open.     *)
LEMMA PairsSendCommand ==
  ASSUME SupInv, QueueTypes, Pairs, NEW c \in PiClients, SendCommand(c) PROVE Pairs'
<1>1. /\ handler[c].at = "ready" /\ handler' = [handler EXCEPT ![c] = Idle] /\ mu = NoClient
      /\ UNCHANGED <<mu, generation, piQueue, out>> /\ Reaches(Line(handler[c].type, handler[c].id))
      /\ handler[c].type # "abort"
  BY DEF SendCommand, procState
<1>2. handler[c].id \in CommandIds /\ handler[c].type \in STRING \cup {"none"} /\ handler \in [PiClients -> Handlers]
  <2>1. handler \in [PiClients -> Handlers] /\ handler[c].id \in CommandIds
    BY <1>1 DEF QueueTypes, SupInv, PiTypes
  <2> QED  BY <2>1 DEF Handlers
<1>3. handler'[c].at = "idle" /\ \A d \in PiClients : d # c => handler'[d] = handler[d]
  BY <1>1, <1>2, HandlerMoves, IdleHandler
<1>4. /\ \A g \in Generations : g > generation => pipe'[g] = <<>> /\ piQueue'[g] = <<>> /\ out'[g] = <<>>
      /\ \A g \in Generations : Paired(pipe'[g], Len(pipe'[g]), piQueue'[g])
  BY Zenon, <1>1, <1>2, PairsWrites
<1>5. \A d \in PiClients : /\ handler'[d].at = "cleared" <=> mu' = d
                           /\ handler'[d].at \in {"ready", "cleared"} => generation' > 0
  BY <1>1, <1>3 DEF Pairs
<1> QED  BY <1>1, <1>4, <1>5 DEF Pairs

(* The first line of the pair, after which mu stays with the request.      *)
LEMMA PairsAbortClear ==
  ASSUME SupInv, QueueTypes, Pairs, NEW c \in PiClients, AbortClear(c) PROVE Pairs'
<1>1. /\ handler[c].at = "ready" /\ mu = NoClient
      /\ UNCHANGED <<generation, piQueue, out>> /\ Reaches(Line("clear_queue", handler[c].id))
      /\ IF proc[generation] = "live" THEN handler' = [handler EXCEPT ![c].at = "cleared"] /\ mu' = c
         ELSE handler' = [handler EXCEPT ![c] = Idle] /\ UNCHANGED mu
  BY DEF AbortClear, procState
<1>2. handler[c].id \in CommandIds /\ handler \in [PiClients -> Handlers] /\ generation > 0 /\ c # NoClient
  <2>1. c # NoClient
    BY PiAssumption DEF NoClient
  <2> QED  BY <1>1, <2>1 DEF QueueTypes, SupInv, PiTypes, Pairs
<1>3. /\ \A g \in Generations : g > generation => pipe'[g] = <<>> /\ piQueue'[g] = <<>> /\ out'[g] = <<>>
      /\ \A g \in Generations : Paired(pipe'[g], Len(pipe'[g]), piQueue'[g])
      /\ proc[generation] = "live" => Cleared(pipe'[generation], Len(pipe'[generation]), piQueue'[generation])
  <2>1. \A type : type = "clear_queue" => type \in STRING \cup {"none", "clear_queue", "abort"} /\ type # "abort"
    OBVIOUS
  <2> QED  BY Zenon, <1>1, <1>2, <2>1, PairsWrites
<1>4. CASE proc[generation] = "live"
  <2>1. handler'[c].at = "cleared" /\ \A d \in PiClients : d # c => handler'[d] = handler[d]
    BY <1>1, <1>2, <1>4, HandlerAt
  <2>2. \A d \in PiClients : /\ handler'[d].at = "cleared" <=> mu' = d
                             /\ handler'[d].at \in {"ready", "cleared"} => generation' > 0
    <3>1. \A d \in PiClients : handler[d].at # "cleared"
      BY <1>1, PiAssumption DEF Pairs, NoClient
    <3> QED  BY <1>1, <1>2, <1>4, <2>1, <3>1
  <2> QED  BY <1>1, <1>3, <1>4, <2>2 DEF Pairs
<1>5. CASE proc[generation] # "live"
  <2>1. handler'[c].at = "idle" /\ \A d \in PiClients : d # c => handler'[d] = handler[d]
    BY <1>1, <1>2, <1>5, HandlerMoves, IdleHandler
  <2>2. \A d \in PiClients : /\ handler'[d].at = "cleared" <=> mu' = d
                             /\ handler'[d].at \in {"ready", "cleared"} => generation' > 0
    BY <1>1, <1>2, <1>5, <2>1 DEF Pairs
  <2> QED  BY <1>1, <1>3, <1>5, <2>2 DEF Pairs
<1> QED  BY <1>4, <1>5

(* The second line: what pi held is cleared before it.                     *)
LEMMA PairsAbortDrain ==
  ASSUME SupInv, QueueTypes, Pairs, NEW c \in PiClients, AbortDrain(c) PROVE Pairs'
<1>1. /\ handler[c].at = "cleared" /\ mu' = NoClient /\ handler' = [handler EXCEPT ![c] = Idle]
      /\ UNCHANGED <<generation, piQueue, out>> /\ Reaches(Line("abort", handler[c].id))
  BY DEF AbortDrain, procState
<1>2. /\ handler[c].id \in CommandIds /\ handler \in [PiClients -> Handlers] /\ generation > 0
      /\ mu = c /\ \A d \in PiClients : d # NoClient
  <2>1. \A d \in PiClients : d # NoClient
    BY PiAssumption DEF NoClient
  <2> QED  BY <1>1, <2>1 DEF QueueTypes, SupInv, PiTypes, Pairs
<1>3. /\ \A g \in Generations : g > generation => pipe'[g] = <<>> /\ piQueue'[g] = <<>> /\ out'[g] = <<>>
      /\ \A g \in Generations : Paired(pipe'[g], Len(pipe'[g]), piQueue'[g])
  BY <1>1, <1>2, PairsWrites
<1>4. handler'[c].at = "idle" /\ \A d \in PiClients : d # c => handler'[d] = handler[d]
  BY <1>1, <1>2, HandlerMoves, IdleHandler
<1>5. \A d \in PiClients : /\ handler'[d].at = "cleared" <=> mu' = d
                           /\ handler'[d].at \in {"ready", "cleared"} => generation' > 0
  BY Zenon, <1>1, <1>2, <1>4 DEF Pairs
<1> QED  BY Zenon, <1>1, <1>3, <1>5 DEF Pairs

(* pi takes the head line of its stdin.                                     *)
LEMMA PairsPiReads ==
  ASSUME SupInv, QueueTypes, Pairs, NEW g \in Generations, PiReads(g) PROVE Pairs'
<1>1. PICK line \in Commands, now \in Seq(CommandIds), rec \in Lines : ReadsLine(g, line, now, rec)
  BY PiReadsLine
<1>2. /\ proc[g] = "live" /\ pipe[g] # <<>> /\ UNCHANGED <<handler, mu, generation>>
  BY DEF PiReads, procState
<1>3. /\ line = Head(pipe[g]) /\ (line.type = "clear_queue" => now = <<>>)
      /\ pipe' = [pipe EXCEPT ![g] = Tail(pipe[g])] /\ piQueue' = [piQueue EXCEPT ![g] = now]
      /\ out' = [out EXCEPT ![g] = Append(out[g], rec)]
  BY <1>1 DEF ReadsLine
<1>s. pipe[g] \in Seq(Commands)
  BY DEF QueueTypes
<1>4. /\ pipe'[g] = Tail(pipe[g]) /\ piQueue'[g] = now
      /\ \A h \in Generations : h # g => pipe'[h] = pipe[h] /\ piQueue'[h] = piQueue[h] /\ out'[h] = out[h]
  BY <1>3 DEF QueueTypes
<1>5. /\ Len(pipe[g]) \in Nat /\ Len(pipe[g]) > 0 /\ Head(pipe[g]) = pipe[g][1]
      /\ Len(pipe'[g]) = Len(pipe[g]) - 1 /\ \A i \in 1..(Len(pipe[g]) - 1) : pipe'[g][i] = pipe[g][i + 1]
  BY <1>s, <1>2, <1>4, TailAt
<1>6. Paired(pipe[g], Len(pipe[g]), piQueue[g]) /\ (pipe[g][1].type = "clear_queue" => now = <<>>)
  BY <1>3, <1>5 DEF Pairs
<1>7. /\ Paired(pipe'[g], Len(pipe[g]) - 1, now)
      /\ Cleared(pipe[g], Len(pipe[g]), piQueue[g]) => Cleared(pipe'[g], Len(pipe[g]) - 1, now)
  BY Zenon, <1>5, <1>6, PairedTail
<1>8. g <= generation /\ g >= generation
  <2>1. ~(g > generation) /\ ~(g < generation)
    BY <1>2 DEF SupInv, Latest
  <2> QED  BY <2>1, GenerationFacts DEF SupInv
<1>9. g = generation
  BY <1>8, GenerationFacts DEF SupInv
<1>10. \A h \in Generations : h > generation => h # g
  BY <1>9, GenerationFacts DEF SupInv
<1>11. \A h \in Generations : h > generation' => pipe'[h] = <<>> /\ piQueue'[h] = <<>> /\ out'[h] = <<>>
  BY <1>2, <1>4, <1>10 DEF Pairs
<1>12. \A h \in Generations : Paired(pipe'[h], Len(pipe'[h]), piQueue'[h])
  BY Zenon, <1>4, <1>5, <1>7 DEF Pairs
<1>13. mu' # NoClient => Cleared(pipe'[generation'], Len(pipe'[generation']), piQueue'[generation'])
  BY Zenon, <1>2, <1>4, <1>5, <1>7, <1>9 DEF Pairs
<1> QED  BY Zenon, <1>2, <1>11, <1>12, <1>13 DEF Pairs

(* In every step each abort stays behind its clear_queue.                   *)
LEMMA PairsStep ==
  ASSUME SupInv, QueueTypes, Pairs, [PiNext]_piVars PROVE Pairs'
<1>0. \A g \in Generations : g > generation => proc[g] = "unborn" /\ out[g] = <<>>
  BY DEF SupInv, Latest, Pairs
<1>1. CASE UNCHANGED piVars \/ ShutdownBegins \/ GraceEnds \/ DaemonExits
  <2>1. UNCHANGED <<handler, mu, generation, pipe, piQueue, out>>
    BY <1>1 DEF piVars, procs, procState, ShutdownBegins, GraceEnds, DaemonExits
  <2> QED  BY <1>0, <2>1, PairsKept
<1>2. ASSUME NEW g \in Generations,
             PiExits(g) \/ AwaitExit(g) \/ ExitReset(g) \/ RelayTrack(g) \/ RelaySpool(g) \/ RelayEnds(g)
      PROVE  Pairs'
  <2>1. UNCHANGED <<handler, mu, generation, pipe, piQueue>>
    BY <1>2 DEF PiExits, AwaitExit, ExitReset, RelayTrack, RelaySpool, RelayEnds, procState
  <2>2. \/ UNCHANGED out
        \/ proc[g] = "exited" /\ \E q : out' = [out EXCEPT ![g] = q]
        \/ out[g] # <<>> /\ \E q : out' = [out EXCEPT ![g] = q]
    BY Zenon, <1>2 DEF PiExits, AwaitExit, ExitReset, RelayTrack, RelaySpool, RelayEnds
  <2>3. out \in [Generations -> Seq(Lines)]
    BY DEF QueueTypes
  <2>4. \A h \in Generations : h > generation => out'[h] = <<>>
    <3>1. CASE UNCHANGED out
      BY <1>0, <3>1
    <3>2. CASE ~UNCHANGED out
      <4>1. ~(g > generation)
        BY <1>0, <2>2, <3>2
      <4>2. PICK q : out' = [out EXCEPT ![g] = q]
        BY <2>2, <3>2
      <4>3. \A h \in Generations : h # g => out'[h] = out[h]
        BY <2>3, <4>2
      <4> QED  BY <1>0, <4>1, <4>3
    <3> QED  BY <3>1, <3>2
  <2> QED  BY <2>1, <2>4, PairsKept
<1>3. CASE PiNext
  BY <1>1, <1>2, <1>3, PairsAccept, PairsStart, PairsSendCommand, PairsAbortClear, PairsAbortDrain, PairsPiReads
     DEF PiNext
<1> QED  BY <1>1, <1>3

(* The relay of g: it has tracked its head line, and while g runs its last *)
(* update is what pi holds.                                                *)
UpdatesOf(g) ==
  /\ relay[g] = "tracked" => Len(out[g]) > 0 /\ out[g][1].type = "queue_update"
  /\ proc[g] \in {"unborn", "live"} => LastIs(out[g], Len(out[g]), relay[g], piQueue[g])

(* One process moves on: the relays of the others are as they were.        *)
LEMMA UpdatesOthers ==
  ASSUME Updates, NEW g \in Generations, UpdatesOf(g)',
         \A h \in Generations : h # g => /\ out'[h] = out[h] /\ relay'[h] = relay[h] /\ piQueue'[h] = piQueue[h]
                                         /\ proc'[h] = proc[h]
  PROVE  Updates'
<1>1. ASSUME NEW h \in Generations, h # g PROVE UpdatesOf(h)'
  <2>1. UpdatesOf(h)
    BY DEF Updates, UpdatesOf
  <2> QED  BY <1>1, <2>1 DEF UpdatesOf
<1>2. \A h \in Generations : UpdatesOf(h)'
  BY <1>1
<1> QED  BY <1>2 DEF Updates, UpdatesOf

(* A step that touches no relay and no queue of pi.                         *)
LEMMA UpdatesKept ==
  ASSUME Updates, UNCHANGED <<out, relay, piQueue>>,
         \A g \in Generations : proc'[g] \in {"unborn", "live"} => proc[g] \in {"unborn", "live"}
  PROVE  Updates'
BY DEF Updates

(* pi reports what it holds after each line that changes it.                *)
LEMMA UpdatesPiReads ==
  ASSUME SupInv, QueueTypes, Updates, NEW g \in Generations, PiReads(g) PROVE Updates'
<1>1. PICK line \in Commands, now \in Seq(CommandIds), rec \in Lines : ReadsLine(g, line, now, rec)
  BY PiReadsLine
<1>2. proc[g] = "live" /\ UNCHANGED <<proc, relay>>
  BY DEF PiReads
<1>3. /\ piQueue' = [piQueue EXCEPT ![g] = now] /\ out' = [out EXCEPT ![g] = Append(out[g], rec)]
      /\ IF rec.type = "queue_update" THEN rec.texts = now ELSE now = piQueue[g]
  BY <1>1 DEF ReadsLine
<1>4. /\ out'[g] = Append(out[g], rec) /\ out[g] \in Seq(Lines) /\ piQueue'[g] = now
      /\ \A h \in Generations : h # g => out'[h] = out[h] /\ piQueue'[h] = piQueue[h]
  BY <1>3 DEF QueueTypes
<1>5. /\ Len(out[g]) \in Nat /\ Len(out'[g]) = Len(out[g]) + 1 /\ out'[g][Len(out[g]) + 1] = rec
      /\ \A i \in 1..Len(out[g]) : out'[g][i] = out[g][i]
  BY <1>4, AppendAt
<1>6. /\ relay[g] = "tracked" => Len(out[g]) > 0 /\ out[g][1].type = "queue_update"
      /\ LastIs(out[g], Len(out[g]), relay[g], piQueue[g])
  BY <1>2 DEF Updates
<1>7. LastIs(out'[g], Len(out[g]) + 1, relay[g], now)
  <2>1. IF out'[g][Len(out[g]) + 1].type = "queue_update" THEN out'[g][Len(out[g]) + 1].texts = now
        ELSE now = piQueue[g]
    BY <1>3, <1>5
  <2> QED  BY Zenon, <1>5, <1>6, <2>1, FreshAppend
<1>8. relay[g] = "tracked" => Len(out'[g]) > 0 /\ out'[g][1].type = "queue_update"
  BY <1>5, <1>6
<1>9. UpdatesOf(g)'
  BY <1>2, <1>4, <1>5, <1>7, <1>8 DEF UpdatesOf
<1> QED  BY <1>2, <1>4, <1>9, UpdatesOthers

(* Wait returns: a line the relay has tracked is not lost.                 *)
LEMMA UpdatesAwaitExit ==
  ASSUME SupInv, QueueTypes, Updates, NEW g \in Generations, AwaitExit(g) PROVE Updates'
<1>1. PICK k \in 0..Len(out[g]) :
        /\ k = Len(out[g]) \/ (relay[g] = "tracked" => k > 0)
        /\ out' = [out EXCEPT ![g] = SubSeq(out[g], 1, k)]
  BY Zenon DEF AwaitExit
<1>2. proc' = [proc EXCEPT ![g] = "reaped"] /\ UNCHANGED <<relay, piQueue>>
  BY DEF AwaitExit
<1>3. proc'[g] = "reaped" /\ \A h \in Generations : h # g => proc'[h] = proc[h]
  BY <1>2 DEF SupInv, PiTypes
<1>4. out'[g] = SubSeq(out[g], 1, k) /\ out[g] \in Seq(Lines) /\ \A h \in Generations : h # g => out'[h] = out[h]
  BY <1>1 DEF QueueTypes
<1>5. ASSUME relay[g] = "tracked" PROVE Len(out'[g]) > 0 /\ out'[g][1].type = "queue_update"
  <2>1. Len(out[g]) \in Nat /\ Len(out[g]) > 0 /\ out[g][1].type = "queue_update"
    BY <1>4, <1>5, LenProperties DEF Updates
  <2>2. k > 0
    BY <1>1, <1>5, <2>1
  <2>3. \A i \in 1..Len(out[g]) : out[g][i] \in Lines
    BY <1>4, ElementOfSeq
  <2>4. Len(SubSeq(out[g], 1, k)) = k /\ SubSeq(out[g], 1, k)[1] = out[g][1]
    BY <1>1, <1>4, <2>1, <2>2
  <2> QED  BY <1>4, <2>1, <2>2, <2>4
<1>6. UpdatesOf(g)'
  BY <1>2, <1>3, <1>5 DEF UpdatesOf
<1> QED  BY <1>2, <1>3, <1>4, <1>6, UpdatesOthers

(* The relay tracks its head line.                                          *)
LEMMA UpdatesRelayTrack ==
  ASSUME SupInv, QueueTypes, Updates, NEW g \in Generations, RelayTrack(g) PROVE Updates'
<1>1. /\ relay[g] = "reading" /\ out[g] # <<>> /\ Head(out[g]).type = "queue_update"
      /\ relay' = [relay EXCEPT ![g] = "tracked"] /\ UNCHANGED <<proc, piQueue, out>>
  BY DEF RelayTrack
<1>2. /\ relay'[g] = "tracked" /\ out[g] \in Seq(Lines)
      /\ \A h \in Generations : h # g => relay'[h] = relay[h]
  BY <1>1 DEF QueueTypes
<1>3. Len(out[g]) \in Nat /\ Len(out[g]) > 0 /\ out[g][1].type = "queue_update"
  BY <1>1, <1>2, TailAt
<1>4. proc[g] \in {"unborn", "live"} => LastIs(out[g], Len(out[g]), "tracked", piQueue[g])
  <2>1. proc[g] \in {"unborn", "live"} => LastIs(out[g], Len(out[g]), "reading", piQueue[g])
    BY <1>1 DEF Updates
  <2> QED  BY Zenon, <1>3, <2>1, FreshTracked
<1>5. UpdatesOf(g)'
  BY <1>1, <1>2, <1>3, <1>4 DEF UpdatesOf
<1> QED  BY <1>1, <1>2, <1>5, UpdatesOthers

(* The relay spools its head line, which is tracked if it is an update.     *)
LEMMA UpdatesRelaySpool ==
  ASSUME SupInv, QueueTypes, Updates, NEW g \in Generations, RelaySpool(g) PROVE Updates'
<1>1. /\ out[g] # <<>> /\ (Head(out[g]).type = "queue_update" => relay[g] = "tracked")
      /\ relay' = [relay EXCEPT ![g] = "reading"] /\ out' = [out EXCEPT ![g] = Tail(out[g])]
      /\ UNCHANGED <<proc, piQueue>>
  BY DEF RelaySpool
<1>2. /\ relay'[g] = "reading" /\ out'[g] = Tail(out[g]) /\ out[g] \in Seq(Lines)
      /\ \A h \in Generations : h # g => relay'[h] = relay[h] /\ out'[h] = out[h]
  BY <1>1 DEF QueueTypes
<1>3. /\ Len(out[g]) \in Nat /\ Len(out[g]) > 0 /\ Head(out[g]) = out[g][1]
      /\ Len(out'[g]) = Len(out[g]) - 1 /\ \A i \in 1..(Len(out[g]) - 1) : out'[g][i] = out[g][i + 1]
  <2>1. out[g] # <<>> /\ out[g] \in Seq(Lines) /\ out'[g] = Tail(out[g])
    BY <1>1, <1>2
  <2> QED  BY <2>1, TailAt
<1>4. proc[g] \in {"unborn", "live"} => LastIs(out'[g], Len(out[g]) - 1, "reading", piQueue[g])
  <2>1. proc[g] \in {"unborn", "live"} => LastIs(out[g], Len(out[g]), relay[g], piQueue[g])
    BY DEF Updates
  <2>2. out[g][1].type = "queue_update" => relay[g] = "tracked"
    BY <1>1, <1>3
  <2> QED  BY Zenon, <1>3, <2>1, <2>2, FreshSpooled
<1>5. UpdatesOf(g)'
  BY <1>1, <1>2, <1>3, <1>4 DEF UpdatesOf
<1> QED  BY <1>1, <1>2, <1>5, UpdatesOthers

(* The relay ends with no line left.                                        *)
LEMMA UpdatesRelayEnds ==
  ASSUME SupInv, QueueTypes, Updates, NEW g \in Generations, RelayEnds(g) PROVE Updates'
<1>1. /\ out[g] = <<>> /\ relay' = [relay EXCEPT ![g] = "done"] /\ UNCHANGED <<proc, piQueue, out>>
  BY DEF RelayEnds
<1>2. relay'[g] = "done" /\ \A h \in Generations : h # g => relay'[h] = relay[h]
  BY <1>1 DEF QueueTypes
<1>3. Len(out'[g]) = 0
  BY <1>1
<1>4. UpdatesOf(g)'
  BY <1>2, <1>3 DEF UpdatesOf, LastIs
<1> QED  BY <1>1, <1>2, <1>4, UpdatesOthers

(* In every step the last update of a running pi is what it holds.          *)
LEMMA UpdatesStep ==
  ASSUME SupInv, QueueTypes, Updates, [PiNext]_piVars PROVE Updates'
<1>0. proc \in [Generations -> {"unborn", "live", "exited", "reaped", "gone"}]
  BY DEF SupInv, PiTypes
<1>1. CASE UNCHANGED piVars \/ ShutdownBegins \/ DaemonExits
  <2>1. UNCHANGED <<proc, out, relay, piQueue>>
    BY <1>1 DEF piVars, procs, ShutdownBegins, DaemonExits
  <2> QED  BY <2>1, UpdatesKept
<1>2. CASE GraceEnds
  <2>1. UNCHANGED <<out, relay, piQueue>> /\ proc' = [proc EXCEPT ![target] = IF @ = "live" THEN "exited" ELSE @]
    BY <1>2 DEF GraceEnds
  <2>2. \A g \in Generations : proc'[g] \in {"unborn", "live"} => proc[g] \in {"unborn", "live"}
    BY <1>0, <2>1
  <2> QED  BY <2>1, <2>2, UpdatesKept
<1>3. ASSUME NEW g \in Generations, PiExits(g) \/ ExitReset(g) PROVE Updates'
  <2>1. UNCHANGED <<out, relay, piQueue>> /\ \E at \in {"exited", "gone"} : proc' = [proc EXCEPT ![g] = at]
    BY <1>3 DEF PiExits, ExitReset
  <2>2. \A h \in Generations : proc'[h] \in {"unborn", "live"} => proc[h] \in {"unborn", "live"}
    BY <1>0, <2>1
  <2> QED  BY <2>1, <2>2, UpdatesKept
<1>4. ASSUME NEW c \in PiClients, Accept(c) \/ SendCommand(c) \/ AbortClear(c) \/ AbortDrain(c) PROVE Updates'
  <2>1. UNCHANGED <<proc, out, relay, piQueue>>
    BY Zenon, <1>4 DEF Accept, SendCommand, AbortClear, AbortDrain, procs
  <2> QED  BY <2>1, UpdatesKept
<1>5. ASSUME NEW c \in PiClients, Start(c) \/ Wake(c) PROVE Updates'
  <2>1. UNCHANGED <<out, relay, piQueue>>
    BY <1>5 DEF Start, Wake, Launch, Launched, Returns, procs
  <2>2. UNCHANGED proc \/ \E n : n = generation + 1 /\ proc' = [proc EXCEPT ![n] = "live"]
    BY <1>5 DEF Start, Wake, Launch, Launched, Returns, procs
  <2>3. \A g \in Generations : g = generation + 1 => proc[g] = "unborn"
    BY GenerationFacts DEF SupInv, Latest
  <2>4. \A g \in Generations : proc'[g] \in {"unborn", "live"} => proc[g] \in {"unborn", "live"}
    BY <1>0, <2>2, <2>3
  <2> QED  BY <2>1, <2>4, UpdatesKept
<1>6. CASE PiNext
  BY <1>1, <1>2, <1>3, <1>4, <1>5, <1>6, UpdatesPiReads, UpdatesAwaitExit, UpdatesRelayTrack, UpdatesRelaySpool,
     UpdatesRelayEnds DEF PiNext
<1> QED  BY <1>1, <1>6

(* A step that leaves the tracker alone.                                   *)
LEMMA AgreesKept ==
  ASSUME SupInv, Agrees, UNCHANGED <<generation, queued>>, ~past'.overlap => ~past.overlap, ~past'.phantom => ~past.phantom,
         \A g \in Generations : proc'[g] = "gone" => proc[g] = "gone",
         \A g \in Generations : g = generation /\ proc'[g] = "live" =>
                                  proc[g] = "live" /\ piQueue'[g] = piQueue[g] /\ (CaughtUp(g)' => CaughtUp(g))
  PROVE  Agrees'
<1>0. generation = 0 \/ generation \in Generations
  BY GenerationFacts DEF SupInv
<1>1. CASE generation = 0
  <2>1. Clean' => Clean
    BY DEF Clean
  <2> QED  BY <1>1, <2>1 DEF Agrees
<1>2. CASE generation \in Generations
  <2>1. Clean' => Clean
    BY DEF Clean
  <2>2. PICK g \in Generations : g = generation
    BY <1>2
  <2>3. generation # 0
    BY <1>2, GenerationFacts DEF SupInv
  <2>4. ASSUME Clean' PROVE proc'[g] = "gone" => queued' = <<>>
    BY <2>1, <2>2, <2>4 DEF Agrees
  <2>5. ASSUME Clean', proc'[g] = "live", CaughtUp(g)', generation > 0 PROVE queued' = piQueue'[g]
    <3>1. proc[g] = "live" /\ piQueue'[g] = piQueue[g] /\ CaughtUp(g)
      BY <2>2, <2>5
    <3> QED  BY <2>1, <2>2, <2>5, <3>1 DEF Agrees
  <2>6. CaughtUp(generation)' = CaughtUp(g)'
    BY <2>2 DEF CaughtUp
  <2> QED  BY <2>2, <2>3, <2>4, <2>5, <2>6 DEF Agrees
<1> QED  BY <1>0, <1>1, <1>2

(* A line more in a pipe: nothing is caught up that was not before.        *)
LEMMA WriteChanges ==
  ASSUME SupInv, QueueTypes, UNCHANGED <<out, relay>>,
         NEW type \in STRING \cup {"none", "clear_queue", "abort"}, NEW id \in CommandIds,
         Reaches(Line(type, id)), NEW g \in Generations
  PROVE  /\ CaughtUp(g)' => CaughtUp(g)
         /\ g = generation /\ proc[g] = "live" /\ CaughtUp(g)' => type \in {"prompt", "abort"}
<1>1. pipe'[g] = IF g = generation /\ proc[g] = "live" THEN Append(pipe[g], Line(type, id)) ELSE pipe[g]
  BY ReachesPipe DEF SupInv
<1>2. CASE g = generation /\ proc[g] = "live"
  <2>1. pipe'[g] = Append(pipe[g], Line(type, id)) /\ pipe[g] \in Seq(Commands)
    BY <1>1, <1>2 DEF QueueTypes
  <2>2. Line(type, id) \in Commands /\ Line(type, id).type = type
    BY DEF Line, Commands
  <2>3. /\ Len(pipe[g]) \in Nat /\ Len(pipe'[g]) = Len(pipe[g]) + 1 /\ pipe'[g][Len(pipe[g]) + 1].type = type
        /\ \A i \in 1..Len(pipe[g]) : pipe'[g][i] = pipe[g][i]
    BY <2>1, <2>2, AppendAt
  <2>4. ASSUME NoneChanges(pipe'[g], Len(pipe'[g]))
        PROVE  NoneChanges(pipe[g], Len(pipe[g])) /\ type \in {"prompt", "abort"}
    <3>1. \A i \in 1..(Len(pipe[g]) + 1) : pipe'[g][i].type \in {"prompt", "abort"}
      BY <2>3, <2>4 DEF NoneChanges
    <3>2. type \in {"prompt", "abort"}
      BY <2>3, <3>1
    <3>3. \A i \in 1..Len(pipe[g]) : i \in 1..(Len(pipe[g]) + 1)
      BY <2>3
    <3> QED  BY <2>3, <3>1, <3>2, <3>3 DEF NoneChanges
  <2> QED  BY <2>4 DEF CaughtUp
<1>3. CASE ~(g = generation /\ proc[g] = "live")
  BY <1>1, <1>3 DEF CaughtUp
<1> QED  BY <1>2, <1>3

(* A steer is tracked as it is written; pi answers it with an update, or    *)
(* the write failed.                                                        *)
LEMMA AgreesSendCommand ==
  ASSUME SupInv, QueueTypes, Pairs, Agrees, NEW c \in PiClients, SendCommand(c) PROVE Agrees'
<1> DEFINE steer == handler[c].type = "steer"
           b == past.phantom \/ (steer /\ proc[generation] # "live")
<1>1. /\ handler[c].at = "ready" /\ UNCHANGED <<generation, proc, piQueue, out, relay>>
      /\ queued' = (IF steer THEN Append(queued, handler[c].id) ELSE queued)
      /\ past' = [past EXCEPT !.phantom = b] /\ Reaches(Line(handler[c].type, handler[c].id))
  BY DEF SendCommand, procState
<1>2. handler[c].id \in CommandIds /\ handler[c].type \in STRING \cup {"none"}
  <2>1. handler \in [PiClients -> Handlers] /\ handler[c].id \in CommandIds
    BY <1>1 DEF QueueTypes, SupInv, PiTypes
  <2> QED  BY <2>1 DEF Handlers
<1>3. past \in Histories /\ generation \in Generations
  BY <1>1, GenerationFacts DEF SupInv, PiTypes, Pairs
<1>4. \A g \in Generations : /\ CaughtUp(g)' => CaughtUp(g)
                             /\ g = generation /\ proc[g] = "live" /\ CaughtUp(g)' => handler[c].type \in {"prompt", "abort"}
  BY <1>1, <1>2, WriteChanges
<1>5. b \in BOOLEAN /\ (~b => ~past.phantom /\ (~steer \/ proc[generation] = "live"))
  BY <1>3 DEF Histories
<1> HIDE DEF b
<1>6. past'.overlap = past.overlap /\ past'.phantom = b
  BY <1>1, <1>3, <1>5 DEF Histories
<1>7. CASE ~steer
  <2>1. UNCHANGED queued
    BY <1>1, <1>7
  <2> QED  BY <1>1, <1>4, <1>5, <1>6, <2>1, AgreesKept
<1>8. CASE steer
  <2>1. Clean' => proc[generation] = "live"
    BY <1>5, <1>6, <1>8 DEF Clean
  <2>2. PICK g \in Generations : g = generation
    BY <1>3
  <2>3. proc[g] = "live" => ~CaughtUp(g)'
    BY <1>4, <1>8, <2>2
  <2>4. CaughtUp(generation)' = CaughtUp(g)' /\ generation # 0
    <3>1. generation # 0
      BY <1>3, GenerationFacts DEF SupInv
    <3> QED  BY <1>1, <2>2, <3>1 DEF CaughtUp
  <2> QED  BY <1>1, <2>1, <2>2, <2>3, <2>4 DEF Agrees
<1> QED  BY <1>7, <1>8

(* The drain empties the tracker: pi has been told, or held nothing.       *)
LEMMA AgreesAbortDrain ==
  ASSUME SupInv, QueueTypes, Pairs, Agrees, NEW c \in PiClients, AbortDrain(c) PROVE Agrees'
<1>1. /\ handler[c].at = "cleared" /\ UNCHANGED <<generation, proc, piQueue, out, relay>> /\ queued' = <<>>
      /\ Reaches(Line("abort", handler[c].id))
  BY DEF AbortDrain, procState
<1>2. handler[c].id \in CommandIds /\ mu # NoClient /\ generation \in Generations
  <2>1. c # NoClient
    BY PiAssumption DEF NoClient
  <2> QED  BY <1>1, <2>1, GenerationFacts DEF QueueTypes, Pairs, SupInv
<1>3. PICK g \in Generations : g = generation
  BY <1>2
<1>4. CaughtUp(g)' => CaughtUp(g)
  BY Zenon, <1>1, <1>2, WriteChanges
<1>5. Cleared(pipe[g], Len(pipe[g]), piQueue[g]) /\ Len(pipe[g]) \in Nat
  <2>1. pipe[g] \in Seq(Commands)
    BY DEF QueueTypes
  <2> QED  BY <1>2, <1>3, <2>1, LenProperties DEF Pairs
<1>6. CaughtUp(g) => piQueue[g] = <<>>
  BY <1>5 DEF CaughtUp, NoneChanges, Cleared
<1>7. CaughtUp(generation)' = CaughtUp(g)'
  BY <1>1, <1>3 DEF CaughtUp
<1> QED  BY <1>1, <1>3, <1>4, <1>6, <1>7 DEF Agrees

(* pi reads a line: an answer is under way, or what it holds is as before.  *)
LEMMA AgreesPiReads ==
  ASSUME SupInv, QueueTypes, Updates, Agrees, NEW g \in Generations, PiReads(g) PROVE Agrees'
<1>1. PICK line \in Commands, now \in Seq(CommandIds), rec \in Lines : ReadsLine(g, line, now, rec)
  BY PiReadsLine
<1>2. /\ proc[g] = "live" /\ pipe[g] # <<>> /\ UNCHANGED <<generation, proc, relay, queued>>
      /\ past' = [past EXCEPT !.wrote[g] = @ + 1]
  BY DEF PiReads, procState
<1>3. past'.overlap = past.overlap /\ past'.phantom = past.phantom
  BY <1>2 DEF SupInv, PiTypes, Histories
<1>4. /\ line = Head(pipe[g]) /\ pipe' = [pipe EXCEPT ![g] = Tail(pipe[g])] /\ piQueue' = [piQueue EXCEPT ![g] = now]
      /\ out' = [out EXCEPT ![g] = Append(out[g], rec)]
      /\ IF line.type \in {"prompt", "abort"} THEN now = piQueue[g] /\ rec.type # "queue_update"
         ELSE rec.type = "queue_update" /\ rec.texts = now
  BY <1>1 DEF ReadsLine
<1>5. pipe[g] \in Seq(Commands) /\ out[g] \in Seq(Lines)
  BY DEF QueueTypes
<1>6. pipe'[g] = Tail(pipe[g]) /\ piQueue'[g] = now /\ out'[g] = Append(out[g], rec)
  BY <1>4 DEF QueueTypes
<1>7. /\ Len(pipe[g]) \in Nat /\ Len(pipe[g]) > 0 /\ line = pipe[g][1]
      /\ Len(pipe'[g]) = Len(pipe[g]) - 1 /\ \A i \in 1..(Len(pipe[g]) - 1) : pipe'[g][i] = pipe[g][i + 1]
  <2>1. /\ Len(pipe[g]) \in Nat /\ Len(pipe[g]) > 0 /\ Head(pipe[g]) = pipe[g][1]
        /\ Len(pipe'[g]) = Len(pipe[g]) - 1 /\ \A i \in 1..(Len(pipe[g]) - 1) : pipe'[g][i] = pipe[g][i + 1]
    BY <1>2, <1>5, <1>6, TailAt
  <2> QED  BY <1>4, <2>1
<1>8. /\ Len(out[g]) \in Nat /\ Len(out'[g]) = Len(out[g]) + 1 /\ out'[g][Len(out[g]) + 1] = rec
      /\ \A i \in 1..Len(out[g]) : out'[g][i] = out[g][i]
  BY <1>5, <1>6, AppendAt
<1>9. ASSUME CaughtUp(g)' PROVE CaughtUp(g) /\ now = piQueue[g]
  <2>1. NoneFresh(out'[g], Len(out[g]) + 1, relay[g]) /\ NoneChanges(pipe'[g], Len(pipe[g]) - 1)
    BY <1>2, <1>7, <1>8, <1>9 DEF CaughtUp
  <2>2. relay[g] = "tracked" => Len(out[g]) > 0
    BY DEF Updates
  <2>4. NoneFresh(out[g], Len(out[g]), relay[g]) /\ out'[g][Len(out[g]) + 1].type # "queue_update"
    BY Zenon, <1>8, <2>1, <2>2, FreshBefore
  <2>5. line.type \in {"prompt", "abort"} /\ now = piQueue[g]
    BY <1>4, <1>8, <2>4
  <2>6. ASSUME NEW i \in 1..Len(pipe[g]) PROVE pipe[g][i].type \in {"prompt", "abort"}
    <3>1. CASE i = 1
      BY <1>7, <2>5, <3>1
    <3>2. CASE i # 1
      <4>1. i - 1 \in 1..(Len(pipe[g]) - 1) /\ (i - 1) + 1 = i
        BY <1>7, <3>2
      <4>2. pipe'[g][i - 1] = pipe[g][i]
        BY <1>7, <4>1
      <4>3. pipe'[g][i - 1].type \in {"prompt", "abort"}
        BY <2>1, <4>1 DEF NoneChanges
      <4> QED  BY <4>2, <4>3
    <3> QED  BY Zenon, <3>1, <3>2
  <2> QED  BY <2>4, <2>5, <2>6 DEF CaughtUp, NoneChanges
<1>10. g = generation
  <2>1. ~(g > generation) /\ ~(g < generation)
    BY <1>2 DEF SupInv, Latest
  <2> QED  BY <2>1, GenerationFacts DEF SupInv
<1>11. CASE CaughtUp(g)'
  <2>1. CaughtUp(g) /\ piQueue'[g] = piQueue[g]
    BY <1>6, <1>9, <1>11
  <2> QED  BY <1>2, <1>3, <1>10, <2>1, AgreesKept
<1>12. CASE ~CaughtUp(g)'
  <2>1. CaughtUp(generation)' = CaughtUp(g)'
    BY <1>2, <1>10 DEF CaughtUp
  <2>2. generation # 0
    BY <1>10, GenerationFacts DEF SupInv
  <2> QED  BY <1>2, <1>10, <1>12, <2>1, <2>2 DEF Agrees
<1> QED  BY <1>11, <1>12

(* awaitExit clears the tracker; if that comes after the next launch, the   *)
(* step ran late.                                                           *)
LEMMA AgreesExitReset ==
  ASSUME SupInv, Agrees, NEW g \in Generations, ExitReset(g) PROVE Agrees'
<1> DEFINE b == past.overlap \/ g < generation
<1>1. /\ proc[g] = "reaped" /\ proc' = [proc EXCEPT ![g] = "gone"] /\ queued' = <<>> /\ UNCHANGED generation
      /\ past' = [past EXCEPT !.overlap = b]
  BY DEF ExitReset, procState
<1>2. b \in BOOLEAN /\ (g < generation => b)
  BY DEF SupInv, PiTypes, Histories
<1> HIDE DEF b
<1>3. past'.overlap = b
  BY <1>1 DEF SupInv, PiTypes, Histories
<1>4. CASE g < generation
  BY <1>2, <1>3, <1>4 DEF Agrees, Clean
<1>5. CASE ~(g < generation)
  <2>1. g = generation
    <3>1. ~(g > generation)
      BY <1>1 DEF SupInv, Latest
    <3> QED  BY <1>5, <3>1, GenerationFacts DEF SupInv
  <2>2. proc'[generation'] = "gone"
    BY <1>1, <2>1 DEF SupInv, PiTypes
  <2> QED  BY <1>1, <2>2 DEF Agrees
<1> QED  BY <1>4, <1>5

(* The tracker takes the head update; when no other is left, it is what pi  *)
(* holds.                                                                   *)
LEMMA AgreesRelayTrack ==
  ASSUME SupInv, QueueTypes, Pairs, Updates, NEW g \in Generations, RelayTrack(g) PROVE Agrees'
<1> DEFINE b == past.overlap \/ g < generation \/ proc[g] = "gone"
<1>1. /\ relay[g] = "reading" /\ out[g] # <<>> /\ Head(out[g]).type = "queue_update"
      /\ queued' = Head(out[g]).texts /\ relay' = [relay EXCEPT ![g] = "tracked"]
      /\ UNCHANGED <<generation, proc, pipe, piQueue, out>> /\ past' = [past EXCEPT !.overlap = b]
  BY DEF RelayTrack, procState
<1>2. b \in BOOLEAN /\ (~b => ~(g < generation) /\ proc[g] # "gone")
  BY DEF SupInv, PiTypes, Histories
<1> HIDE DEF b
<1>3. past'.overlap = b
  BY <1>1 DEF SupInv, PiTypes, Histories
<1>4. CASE b
  BY <1>3, <1>4 DEF Agrees, Clean
<1>5. CASE ~b
  <2>1. g = generation /\ generation # 0
    <3>1. ~(g > generation)
      BY <1>1 DEF Pairs
    <3> QED  BY <1>2, <1>5, <3>1, GenerationFacts DEF SupInv
  <2>2. out[g] \in Seq(Lines) /\ relay'[g] = "tracked"
    BY <1>1 DEF QueueTypes
  <2>3. Len(out[g]) \in Nat /\ Len(out[g]) > 0 /\ Head(out[g]) = out[g][1]
    <3>1. out[g] # <<>>
      BY <1>1
    <3> QED  BY <2>2, <3>1, TailAt
  <2>4. ASSUME proc[g] = "live", NoneFresh(out[g], Len(out[g]), "tracked") PROVE queued' = piQueue[g]
    <3>1. LastIs(out[g], Len(out[g]), "reading", piQueue[g])
      BY <1>1, <2>4 DEF Updates
    <3>2. out[g][1].type = "queue_update"
      BY <1>1, <2>3
    <3>3. out[g][1].texts = piQueue[g]
      BY <2>3, <2>4, <3>1, <3>2, FreshTracked
    <3> QED  BY <1>1, <2>3, <3>3
  <2>5. CaughtUp(generation)' => NoneFresh(out[g], Len(out[g]), "tracked")
    BY <1>1, <2>1, <2>2 DEF CaughtUp
  <2> QED  BY <1>1, <1>2, <1>5, <2>1, <2>4, <2>5 DEF Agrees
<1> QED  BY <1>2, <1>4, <1>5

(* A line that is spooled had been tracked, or is no update.                *)
LEMMA AgreesRelay ==
  ASSUME SupInv, QueueTypes, Updates, Agrees, NEW g \in Generations, RelaySpool(g) \/ RelayEnds(g) PROVE Agrees'
<1>1. UNCHANGED <<generation, queued, proc, pipe, piQueue, past>>
  BY DEF RelaySpool, RelayEnds, procState
<1>2. out[g] \in Seq(Lines)
  BY DEF QueueTypes
<1>3. CASE RelaySpool(g)
  <2>1. /\ out[g] # <<>> /\ (Head(out[g]).type = "queue_update" => relay[g] = "tracked")
        /\ relay' = [relay EXCEPT ![g] = "reading"] /\ out' = [out EXCEPT ![g] = Tail(out[g])]
    BY <1>3 DEF RelaySpool
  <2>2. /\ relay'[g] = "reading" /\ out'[g] = Tail(out[g])
        /\ \A h \in Generations : h # g => relay'[h] = relay[h] /\ out'[h] = out[h]
    BY Zenon, <2>1 DEF QueueTypes
  <2>3. /\ Len(out[g]) \in Nat /\ Len(out[g]) > 0 /\ Head(out[g]) = out[g][1]
        /\ Len(out'[g]) = Len(out[g]) - 1 /\ \A i \in 1..(Len(out[g]) - 1) : out'[g][i] = out[g][i + 1]
    <3>1. out[g] # <<>> /\ out[g] \in Seq(Lines) /\ out'[g] = Tail(out[g])
      BY <1>2, <2>1, <2>2
    <3> QED  BY Zenon, <3>1, TailAt
  <2>4. proc[g] = "live" /\ CaughtUp(g)' => CaughtUp(g)
    <3> SUFFICES ASSUME proc[g] = "live", CaughtUp(g)' PROVE CaughtUp(g)
      OBVIOUS
    <3>1. NoneFresh(out'[g], Len(out[g]) - 1, "reading")
      BY <2>2, <2>3 DEF CaughtUp
    <3>2. LastIs(out[g], Len(out[g]), relay[g], piQueue[g])
      BY DEF Updates
    <3>3. out[g][1].type = "queue_update" => relay[g] = "tracked"
      BY <2>1, <2>3
    <3>4. NoneFresh(out[g], Len(out[g]), relay[g])
      BY Zenon, <2>3, <3>1, <3>2, <3>3, FreshSpooled
    <3> QED  BY <1>1, <3>4 DEF CaughtUp
  <2>5. \A h \in Generations : h # g /\ CaughtUp(h)' => CaughtUp(h)
    BY <1>1, <2>2 DEF CaughtUp
  <2> QED  BY <1>1, <2>4, <2>5, AgreesKept
<1>4. CASE RelayEnds(g)
  <2>1. out[g] = <<>> /\ UNCHANGED out /\ relay' = [relay EXCEPT ![g] = "done"]
    BY <1>4 DEF RelayEnds
  <2>2. Len(out[g]) = 0 /\ \A h \in Generations : h # g => relay'[h] = relay[h]
    BY <2>1 DEF QueueTypes
  <2>3. \A h \in Generations : CaughtUp(h)' => CaughtUp(h)
    BY <1>1, <2>1, <2>2 DEF CaughtUp, NoneFresh
  <2> QED  BY <1>1, <2>3, AgreesKept
<1> QED  BY <1>3, <1>4

(* A launch after the last process is gone: the tracker is empty, and so   *)
(* is the queue of the new one.                                            *)
LEMMA AgreesStart ==
  ASSUME SupInv, Pairs, Agrees, NEW c \in PiClients, Start(c) \/ Wake(c) PROVE Agrees'
<1>1. UNCHANGED <<pipe, piQueue, out, relay, queued>>
  BY DEF Start, Wake, Launch, Launched, Returns, procs
<1>n. PICK n \in Nat : n = generation + 1
  BY GenerationFacts DEF SupInv
<1>2. \/ UNCHANGED <<generation, proc, past>>
      \/ UNCHANGED <<generation, proc>> /\ past' = [past EXCEPT !.failed = @ \cup {generation}]
      \/ /\ generation < scope.gens /\ generation' = n /\ proc' = [proc EXCEPT ![n] = "live"]
         /\ past' = [past EXCEPT !.slept[n] = handler[c].slept, !.late = @ \/ shutdown # "up"]
  <2>1. CASE Launch(c)
    BY Zenon, <1>n, <2>1 DEF Launch, Launched
  <2>2. CASE ~Launch(c)
    BY <2>2 DEF Start, Wake, Returns, procState, procs
  <2> QED  BY <2>1, <2>2
<1>3. past \in Histories
  BY DEF SupInv, PiTypes
<1>4. CASE UNCHANGED <<generation, proc>> /\ (UNCHANGED past \/ past' = [past EXCEPT !.failed = @ \cup {generation}])
  <2>1. past'.overlap = past.overlap /\ past'.phantom = past.phantom
    BY <1>3, <1>4 DEF Histories
  <2> QED  BY <1>1, <1>4, <2>1, AgreesKept DEF CaughtUp
<1>5. CASE /\ generation < scope.gens /\ generation' = n /\ proc' = [proc EXCEPT ![n] = "live"]
           /\ past' = [past EXCEPT !.slept[n] = handler[c].slept, !.late = @ \/ shutdown # "up"]
  <2>1. past'.overlap = past.overlap /\ past'.phantom = past.phantom
    BY <1>3, <1>5 DEF Histories
  <2>2. n \in Generations /\ n > generation /\ n # 0 /\ \A h \in Generations : h < generation => h < n /\ h # n
    BY <1>n, <1>5, GenerationFacts DEF SupInv
  <2>3. generation # 0 => generation \in Generations /\ generation < n /\ generation # n
    BY <1>n, <1>5, GenerationFacts DEF SupInv
  <2>4. proc'[n] = "live" /\ \A h \in Generations : h # n => proc'[h] = proc[h]
    BY <1>5, <2>2 DEF SupInv, PiTypes
  <2>5. piQueue'[n] = <<>>
    BY <1>1, <2>2 DEF Pairs
  <2>6. ASSUME Clean' PROVE queued' = <<>>
    <3>1. \A h \in Generations : h < n => proc'[h] = "gone"
      BY <1>5, <2>6 DEF Clean
    <3>2. Clean
      BY <2>1, <2>2, <2>4, <2>6, <3>1 DEF Clean
    <3>3. generation = 0 \/ proc[generation] = "gone"
      BY <2>3, <2>4, <3>1
    <3> QED  BY <1>1, <3>2, <3>3 DEF Agrees
  <2> QED  BY <1>5, <2>2, <2>4, <2>5, <2>6 DEF Agrees
<1> QED  BY <1>2, <1>4, <1>5

(* The first line of an abort is one that pi answers.                       *)
LEMMA AgreesAbortClear ==
  ASSUME SupInv, QueueTypes, Agrees, NEW c \in PiClients, AbortClear(c) PROVE Agrees'
<1>1. /\ handler[c].at = "ready" /\ UNCHANGED <<generation, proc, piQueue, out, relay, queued, past>>
      /\ Reaches(Line("clear_queue", handler[c].id))
  BY DEF AbortClear, procState
<1>2. handler[c].id \in CommandIds
  BY <1>1 DEF QueueTypes
<1>3. \A g \in Generations : CaughtUp(g)' => CaughtUp(g)
  <2>1. \A type : type = "clear_queue" => type \in STRING \cup {"none", "clear_queue", "abort"}
    OBVIOUS
  <2> QED  BY <1>1, <1>2, <2>1, WriteChanges
<1> QED  BY <1>1, <1>3, AgreesKept

(* A process that has exited is neither live nor gone: nothing is claimed   *)
(* of the tracker.                                                          *)
LEMMA AgreesExits ==
  ASSUME SupInv, QueueTypes, Agrees, NEW g \in Generations, PiExits(g) \/ AwaitExit(g) PROVE Agrees'
<1>1. /\ UNCHANGED <<generation, pipe, piQueue, relay, queued>>
      /\ \E at \in {"exited", "reaped"} : proc' = [proc EXCEPT ![g] = at]
      /\ UNCHANGED out \/ \E q : out' = [out EXCEPT ![g] = q]
      /\ UNCHANGED past \/ \E x : past' = [past EXCEPT !.crashed[g] = x]
  BY Zenon DEF PiExits, AwaitExit, procState
<1>2. past'.overlap = past.overlap /\ past'.phantom = past.phantom
  <2>1. past \in Histories
    BY DEF SupInv, PiTypes
  <2> QED  BY <1>1, <2>1 DEF Histories
<1>3. proc'[g] \in {"exited", "reaped"} /\ \A h \in Generations : h # g => proc'[h] = proc[h] /\ out'[h] = out[h]
  BY <1>1 DEF SupInv, PiTypes, QueueTypes
<1>4. \A h \in Generations : h # g /\ CaughtUp(h)' => CaughtUp(h)
  BY <1>1, <1>3 DEF CaughtUp
<1> QED  BY <1>1, <1>2, <1>3, <1>4, AgreesKept

(* In every step the tracker agrees with pi once nothing is under way.      *)
LEMMA AgreesStep ==
  ASSUME SupInv, QueueTypes, Pairs, Updates, Agrees, [PiNext]_piVars PROVE Agrees'
<1>1. CASE UNCHANGED piVars \/ ShutdownBegins \/ DaemonExits
  <2>1. UNCHANGED <<generation, proc, pipe, piQueue, out, relay, queued, past>>
    BY <1>1 DEF piVars, procs, procState, ShutdownBegins, DaemonExits
  <2> QED  BY <2>1, AgreesKept DEF CaughtUp
<1>2. CASE GraceEnds
  <2>1. /\ UNCHANGED <<generation, pipe, piQueue, out, relay, queued, past>>
        /\ proc' = [proc EXCEPT ![target] = IF @ = "live" THEN "exited" ELSE @]
    BY <1>2 DEF GraceEnds, procState
  <2>2. \A g \in Generations : /\ proc'[g] = "gone" => proc[g] = "gone"
                               /\ proc'[g] = "live" => proc[g] = "live"
    BY <2>1 DEF SupInv, PiTypes
  <2> QED  BY Zenon, <2>1, <2>2, AgreesKept DEF CaughtUp
<1>3. ASSUME NEW c \in PiClients, Accept(c) PROVE Agrees'
  <2>1. UNCHANGED <<generation, proc, pipe, piQueue, out, relay, queued, past>>
    BY <1>3 DEF Accept, procState, procs
  <2> QED  BY Zenon, <2>1, AgreesKept DEF CaughtUp
<1>4. CASE PiNext
  BY <1>1, <1>2, <1>3, <1>4, AgreesStart, AgreesSendCommand, AgreesAbortClear, AgreesAbortDrain, AgreesPiReads,
     AgreesExits, AgreesExitReset, AgreesRelayTrack, AgreesRelay DEF PiNext
<1> QED  BY <1>1, <1>4

(* At the start nothing is queued anywhere.                                 *)
LEMMA QueueInitial ==
  ASSUME NEW bounds, PiInit(bounds) PROVE QueueInv
<1>1. /\ pipe = [g \in Generations |-> <<>>] /\ out = [g \in Generations |-> <<>>] /\ generation = 0
      /\ piQueue = [g \in Generations |-> <<>>] /\ queued = <<>> /\ relay = [g \in Generations |-> "reading"]
      /\ mu = NoClient /\ handler = [c \in PiClients |-> Idle]
  BY DEF PiInit
<1>2. \A g \in Generations : Len(pipe[g]) = 0 /\ Len(out[g]) = 0
  BY <1>1
<1>3. Updates
  <2>1. \A g \in Generations : relay[g] = "reading"
    BY <1>1
  <2>2. ASSUME NEW g \in Generations PROVE LastIs(out[g], Len(out[g]), relay[g], piQueue[g])
    <3>1. 1..Len(out[g]) = {}
      BY <1>2
    <3> QED  BY Zenon, <3>1 DEF LastIs
  <2>3. "reading" # "tracked"
    OBVIOUS
  <2> QED  BY Zenon, <2>1, <2>2, <2>3 DEF Updates
<1>4. Agrees
  BY <1>1 DEF Agrees
<1>5. \A c \in PiClients : handler[c].at = "idle" /\ mu # c
  BY Zenon, <1>1, IdleHandler, PiAssumption DEF NoClient
<1>6. Pairs
  BY <1>1, <1>2, <1>5 DEF Pairs, Paired
<1> QED  BY <1>3, <1>4, <1>6 DEF QueueInv

(* What the invariant says of an abort, and of the tracker at rest.        *)
LEMMA QueueInvKnows ==
  ASSUME SupInv, QueueTypes, QueueInv PROVE QueueKnown
<1>1. ASSUME NEW g \in Generations, pipe[g] # <<>>, Head(pipe[g]).type = "abort" PROVE piQueue[g] = <<>>
  <2>1. pipe[g] \in Seq(Commands)
    BY DEF QueueTypes
  <2>2. Len(pipe[g]) \in Nat /\ Len(pipe[g]) > 0 /\ Head(pipe[g]) = pipe[g][1]
    BY <1>1, <2>1, TailAt
  <2>3. Paired(pipe[g], Len(pipe[g]), piQueue[g])
    BY DEF QueueInv, Pairs
  <2>4. pipe[g][1].type = "abort" /\ 1 \in 1..Len(pipe[g])
    BY <1>1, <2>2
  <2> QED  BY <2>3, <2>4 DEF Paired
<1>2. ASSUME Quiet, generation > 0, ~past.overlap, ~past.phantom
      PROVE  queued = IF proc[generation] = "live" THEN piQueue[generation] ELSE <<>>
  <2>1. generation \in Generations /\ ~(generation > generation)
    BY <1>2, GenerationFacts DEF SupInv
  <2>2. proc[generation] = "gone" \/ (proc[generation] = "live" /\ pipe[generation] = <<>>)
    BY <1>2, <2>1 DEF Quiet, SupInv, Latest
  <2>3. \A g \in Generations : g < generation => proc[g] = "gone"
    BY <1>2 DEF Quiet, SupInv, Latest
  <2>4. Clean
    BY <1>2, <2>3 DEF Clean
  <2>5. proc[generation] = "live" => CaughtUp(generation)
    <3>1. Len(out[generation]) = 0 /\ (proc[generation] = "live" => Len(pipe[generation]) = 0)
      BY <1>2, <2>1, <2>2 DEF Quiet
    <3> QED  BY <3>1 DEF CaughtUp, NoneChanges, NoneFresh
  <2> QED  BY <1>2, <2>2, <2>4, <2>5 DEF QueueInv, Agrees
<1> QED  BY <1>1, <1>2 DEF QueueKnown, AbortFindsQueueEmpty, TrackerAgrees

(* QueueKnown (SendCommand, trackQueueUpdate, awaitExit), for every set of  *)
(* requests and every bound: when pi comes to an abort its queue is empty,  *)
(* whatever other requests steer meanwhile, and once everything has come    *)
(* back the tracker is the queue of pi, unless a step of an earlier process *)
(* ran late or a steer was tracked whose write failed.                      *)
THEOREM PiQueueKnown ==
  ASSUME NEW bounds \in Scopes PROVE PiSpec(bounds) => []QueueKnown
<1> DEFINE Inv == SupInv /\ QueueTypes /\ QueueInv
<1>1. PiInit(bounds) => Inv
  BY SupInitial, LossInitial, QueueInitial
<1>2. Inv /\ [PiNext]_piVars => Inv'
  <2>1. ASSUME Inv, [PiNext]_piVars PROVE QueueInv'
    BY <2>1, PairsStep, UpdatesStep, AgreesStep DEF QueueInv
  <2> QED  BY <2>1, SupStep, QueueTypesStep
<1>3. Inv => QueueKnown
  BY QueueInvKnows
<1> QED  BY <1>1, <1>2, <1>3, PTL DEF PiSpec
===============================================================================
