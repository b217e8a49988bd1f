-------------------------------- MODULE Pull --------------------------------
(***************************************************************************)
(* The record path from the daemon's spool to the controller's durable     *)
(* event log: the pull loop (controller/puller.go), the per-agent EventHub *)
(* (controller/events.go) and the bbolt store (controller/eventstore.go),  *)
(* composed with the daemon's Spool.                                       *)
(*                                                                         *)
(* The store's log and origin watermark survive a controller crash; the    *)
(* hub's counters and the pullers do not.  Pullers may overlap: Resume     *)
(* starts a new loop while the cancelled one still works through the batch *)
(* it has already fetched, since only the loop head looks at its context.  *)
(***************************************************************************)
EXTENDS Spool

CONSTANTS Pullers,    \* pull-loop goroutines of the agent
          Lifecycle,  \* a controller lifecycle event other than the next
          Terminated, \* the agent.terminated event that Delete logs
          MaxLog      \* bound on the length of the durable log

ASSUME PullAssumption == /\ {Lifecycle, Terminated} \cap (Data \cup {Notice}) = {}
                         /\ MaxLog \in Nat

VARIABLES log,        \* the agent's bucket: events in seq order (durable)
          mark,       \* the origin watermark sidecar (durable)
          hubSeq,     \* EventHub.nextSeq (memory)
          hubOrigin,  \* EventHub.origin (memory)
          closed,     \* EventHub.closed (memory)
          alive,      \* the controller process is running
          pc,         \* where each puller is: "idle", "asked" or "batch"
          after,      \* the cursor of each puller's open request
          batch       \* the records each puller has still to append

ctrlVars == <<log, mark, hubSeq, hubOrigin, closed, alive, pc, after, batch>>
vars == <<spoolVars, ctrlVars>>

Event == [seq : Nat, origin : Nat, data : Data \cup {Notice, Lifecycle, Terminated}]

(* NextSeq: the highest stored seq.                                         *)
LastSeq == IF log = <<>> THEN 0 ELSE log[Len(log)].seq

TerminatedLogged == \E i \in DOMAIN log : log[i].data = Terminated

----------------------------------------------------------------------------
PullInit ==
  /\ SpoolInit
  /\ log = <<>> /\ mark = 0
  /\ hubSeq = 0 /\ hubOrigin = 0 /\ closed = FALSE /\ alive = TRUE
  /\ pc = [p \in Pullers |-> "idle"]
  /\ after = [p \in Pullers |-> 0]
  /\ batch = [p \in Pullers |-> <<>>]

(* appendInTx: the transaction commits only an event that advances the log  *)
(* by exactly one.                                                          *)
Commit(ev) == /\ ev.seq = LastSeq + 1
              /\ Len(log) < MaxLog
              /\ log' = Append(log, ev)

(* AppendWithOrigin: event and watermark in one transaction; a stale pull   *)
(* never lowers the watermark.                                              *)
CommitWithOrigin(ev) == /\ Commit(ev)
                        /\ mark' = IF mark > ev.origin THEN mark ELSE ev.origin

(* PublishLifecycle, Publish: an event that does not come from the spool.   *)
(* The session FSM lets agent.terminated through once.                      *)
PublishLifecycle(d) ==
  /\ alive
  /\ ~closed
  /\ d = Terminated => ~TerminatedLogged
  /\ Commit([seq |-> hubSeq + 1, origin |-> 0, data |-> d])
  /\ hubSeq' = hubSeq + 1
  /\ UNCHANGED <<spoolVars, mark, hubOrigin, closed, alive, pc, after, batch>>

(* The loop head: ask for the records above the hub's watermark.            *)
Ask(p) ==
  /\ alive
  /\ pc[p] = "idle"
  /\ pc' = [pc EXCEPT ![p] = "asked"]
  /\ after' = [after EXCEPT ![p] = hubOrigin]
  /\ UNCHANGED <<spoolVars, log, mark, hubSeq, hubOrigin, closed, alive, batch>>

(* Spool.Read answers with what the window holds, an empty list after the   *)
(* wait; the reply reaches the puller.                                      *)
Reply(p) ==
  /\ alive
  /\ up
  /\ pc[p] = "asked"
  /\ LET out == ReadAfter(recs, after[p])
     IN  /\ batch' = [batch EXCEPT ![p] = out]
         /\ pc' = [pc EXCEPT ![p] = IF out = <<>> THEN "idle" ELSE "batch"]
  /\ UNCHANGED <<spoolVars, log, mark, hubSeq, hubOrigin, closed, alive, after>>

(* The pull fails: request or reply lost, timeout, daemon unreachable.      *)
PullFails(p) ==
  /\ alive
  /\ pc[p] = "asked"
  /\ pc' = [pc EXCEPT ![p] = "idle"]
  /\ UNCHANGED <<spoolVars, log, mark, hubSeq, hubOrigin, closed, alive, after, batch>>

(* The puller is done with the first record of its batch.                   *)
NextRecord(p) ==
  /\ batch' = [batch EXCEPT ![p] = Tail(batch[p])]
  /\ pc' = [pc EXCEPT ![p] = IF Len(batch[p]) = 1 THEN "idle" ELSE "batch"]

(* Mutant of PublishPulled: the watermark is not consulted.                 *)
PublishPulledNoDedupe(p) ==
  /\ alive
  /\ pc[p] = "batch"
  /\ LET r == Head(batch[p])
     IN  IF closed
         THEN UNCHANGED <<log, mark, hubSeq, hubOrigin>>
         ELSE /\ CommitWithOrigin([seq |-> hubSeq + 1, origin |-> r.id, data |-> r.data])
              /\ hubSeq' = hubSeq + 1
              /\ hubOrigin' = r.id
  /\ NextRecord(p)
  /\ UNCHANGED <<spoolVars, closed, alive, after>>

(* PublishPulled on the first record of the batch: dropped when the hub is  *)
(* closed or the watermark has reached it, appended otherwise.              *)
PublishPulled(p) ==
  /\ alive
  /\ pc[p] = "batch"
  /\ LET r == Head(batch[p])
     IN  IF closed \/ r.id <= hubOrigin
         THEN UNCHANGED <<log, mark, hubSeq, hubOrigin>>
         ELSE /\ CommitWithOrigin([seq |-> hubSeq + 1, origin |-> r.id, data |-> r.data])
              /\ hubSeq' = hubSeq + 1
              /\ hubOrigin' = r.id
  /\ NextRecord(p)
  /\ UNCHANGED <<spoolVars, closed, alive, after>>

(* Mutant of AppendFails: only the failed record is given up.               *)
AppendFailsSkips(p) ==
  /\ alive
  /\ pc[p] = "batch"
  /\ ~closed
  /\ Head(batch[p]).id > hubOrigin
  /\ NextRecord(p)
  /\ UNCHANGED <<spoolVars, log, mark, hubSeq, hubOrigin, closed, alive, after>>

(* The store refuses the append: the rest of the batch is given up, so that *)
(* no later record overtakes the failed one.                                *)
AppendFails(p) ==
  /\ alive
  /\ pc[p] = "batch"
  /\ ~closed
  /\ Head(batch[p]).id > hubOrigin
  /\ pc' = [pc EXCEPT ![p] = "idle"]
  /\ batch' = [batch EXCEPT ![p] = <<>>]
  /\ UNCHANGED <<spoolVars, log, mark, hubSeq, hubOrigin, closed, alive, after>>

(* EventHub.Close, the step of Delete after agent.terminated was logged or  *)
(* its append failed: no further event enters the log.                      *)
HubClose ==
  /\ alive
  /\ ~closed
  /\ closed' = TRUE
  /\ UNCHANGED <<spoolVars, log, mark, hubSeq, hubOrigin, alive, pc, after, batch>>

(* The controller dies with its hub and its pullers.                        *)
ControllerCrash ==
  /\ alive
  /\ alive' = FALSE
  /\ hubSeq' = 0 /\ hubOrigin' = 0 /\ closed' = FALSE
  /\ pc' = [p \in Pullers |-> "idle"]
  /\ after' = [p \in Pullers |-> 0]
  /\ batch' = [p \in Pullers |-> <<>>]
  /\ UNCHANGED <<spoolVars, log, mark>>

(* NewEventHub at start-up: the counters are read back from the store.  A   *)
(* terminated agent is not rebuilt.                                         *)
NewEventHub ==
  /\ ~alive
  /\ ~TerminatedLogged
  /\ alive' = TRUE
  /\ hubSeq' = LastSeq
  /\ hubOrigin' = mark
  /\ UNCHANGED <<spoolVars, log, mark, closed, pc, after, batch>>

(* A daemon that dies breaks the connections it has not answered.           *)
Daemon ==
  /\ SpoolStep
  /\ pc' = IF up' THEN pc
           ELSE [p \in Pullers |-> IF pc[p] = "asked" THEN "idle" ELSE pc[p]]
  /\ UNCHANGED <<log, mark, hubSeq, hubOrigin, closed, alive, after, batch>>

Controller ==
  \/ \E d \in {Lifecycle, Terminated} : PublishLifecycle(d)
  \/ \E p \in Pullers : Ask(p) \/ Reply(p) \/ PullFails(p) \/ PublishPulled(p) \/ AppendFails(p)
  \/ HubClose
  \/ ControllerCrash
  \/ NewEventHub

Next == Daemon \/ Controller

Spec == PullInit /\ [][Next]_vars

(* The same system on a disk whose writes and syncs may fail.               *)
FaultyNext == \/ Next
              \/ SpoolFault /\ UNCHANGED ctrlVars

FaultySpec == PullInit /\ [][FaultyNext]_vars

(* Fairness of the loops: a daemon that is down is restarted by the sandbox *)
(* and a controller by its Deployment, the pull loop never stops asking,    *)
(* and a network and a store that are tried again and again do not fail     *)
(* every time.  Crashes come to an end: a daemon or a controller that never *)
(* stays up long enough to pull delivers nothing.                           *)
Fairness ==
  /\ <>[][(up => up') /\ (alive => alive')]_vars
  /\ WF_vars(Recover /\ Daemon)
  /\ WF_vars(NewEventHub)
  /\ \A p \in Pullers : WF_vars(Ask(p)) /\ SF_vars(Reply(p)) /\ SF_vars(PublishPulled(p))

FairSpec == Spec /\ Fairness

----------------------------------------------------------------------------
(* Types of the variables: entries carry the id and the data of the spool   *)
(* envelope, log events a seq and the origin id (0 for lifecycle events).   *)
TypeOK ==
  /\ file \in Seq(spoolEntry) /\ recs \in Seq(spoolEntry)
  /\ torn \in BOOLEAN /\ corrupt \in BOOLEAN /\ up \in BOOLEAN
  /\ next \in Nat \ {0}
  /\ log \in Seq(Event)
  /\ mark \in Nat /\ hubSeq \in Nat /\ hubOrigin \in Nat
  /\ closed \in BOOLEAN /\ alive \in BOOLEAN
  /\ pc \in [Pullers -> {"idle", "asked", "batch"}]
  /\ after \in [Pullers -> Nat]
  /\ batch \in [Pullers -> Seq(spoolEntry)]

Pulled == {i \in DOMAIN log : log[i].origin > 0}

Logged(id) == \E i \in DOMAIN log : log[i].origin = id

(* "No gaps, no duplicates" (puller.go): the events pulled from the spool   *)
(* enter the log in spool order and each at most once, whatever overlaps,   *)
(* crashes or is pulled again, and the watermark is the last of them.       *)
ExactlyOnceInOrder ==
  /\ \A i, j \in Pulled : i < j => log[i].origin < log[j].origin
  /\ \A i \in Pulled : log[i].origin <= mark
  /\ mark > 0 => Logged(mark)

(* The seqs of the log are 1, 2, 3, ... over controller restarts: the store *)
(* refuses any other, and the hub never offers one it would refuse.         *)
GaplessSeq ==
  /\ \A i \in DOMAIN log : log[i].seq = i
  /\ alive => hubSeq = Len(log) /\ hubOrigin = mark

(* A pulled event is verbatim the record that the spool file holds under    *)
(* its id, so no id ever names two records.                                 *)
Verbatim ==
  \A i \in Pulled : \A k \in DOMAIN file :
    file[k].id = log[i].origin => file[k].data = log[i].data

(* "so the controller learns of the loss" (spool.go): a spooled record that *)
(* the watermark has passed without its being logged is followed by a       *)
(* truncation notice that is logged or will still be pulled.                *)
NoSilentLoss ==
  \A k \in DOMAIN file :
    (file[k].id <= mark /\ ~Logged(file[k].id)) =>
      \E n \in DOMAIN file : /\ file[n].data = Notice
                             /\ file[n].id > file[k].id
                             /\ file[n].id > mark \/ Logged(file[n].id)

(* Ids "continue across daemon restarts with no reset and no reuse"         *)
(* (spool.go): two lines of the file never carry the same spool id.         *)
NoIdReuse == \A j, k \in DOMAIN file : j # k => file[j].id # file[k].id

(* A daemon can always boot: no append leaves a line that recovery refuses, *)
(* the boot loop that NewSpool cuts the torn tail to avoid.                 *)
NoBootLoop == ~corrupt

(* History is never rewritten: no step changes or drops an event of the     *)
(* log, lowers the watermark, or writes to the log of a closed hub.         *)
AppendOnly ==
  [][/\ Len(log) <= Len(log')
     /\ \A i \in DOMAIN log : log'[i] = log[i]
     /\ mark <= mark'
     /\ closed => log' = log]_vars

(* The record path as a whole (spool.go, puller.go, events.go,              *)
(* eventstore.go) implements EventLog: its log is a faithful, ordered copy  *)
(* of the spool file with every loss announced, whichever pull loops        *)
(* overlap and whichever process dies at which step.                        *)
L == INSTANCE EventLog WITH source <- file, taken <- mark, Own <- {Lifecycle, Terminated}

ImplementsEventLog == L!Spec

(* Every spooled record is eventually behind the watermark (logged or       *)
(* covered by a notice), unless the agent is deleted or the log's bound     *)
(* stops it.                                                                *)
Delivered ==
  \A k \in 1..MaxId :
    (\E i \in DOMAIN file : file[i].id = k)
      ~> (mark >= k \/ TerminatedLogged \/ closed \/ Len(log) = MaxLog)
=============================================================================
