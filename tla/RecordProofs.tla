---------------------------- MODULE RecordProofs -----------------------------
(***************************************************************************)
(* The task of an event says what happened to it, for any number of        *)
(* replicas, messages, tasks and actions, any number of crashes and any    *)
(* loss of acknowledgements or answers.                                    *)
(*                                                                         *)
(* A request for a task outlives the replica that sent it, so everything a *)
(* row may still become is in the requests: each is for a task that was    *)
(* drawn, the one a replica waits for is for its own task and of the kind  *)
(* its label sends, and one that will write Failed is for an event that is *)
(* dead-lettered.                                                          *)
(***************************************************************************)
EXTENDS RuntimeProofs

Drawn == UNION {taskOf[e] : e \in Events}

Outcomes == {"Completed", "SchemaValidationFailed"}

RecordTypes ==
    /\ result \in [Replicas -> Outcomes \cup {Absent}]
    /\ \A r \in Replicas : pc[r] \in {"update", "actions", "record"} => result[r] \in Outcomes
    /\ finished \subseteq TaskIds /\ listed \subseteq TaskIds /\ dlq \subseteq Events

Known ==
    /\ \A h \in Handlers : req[h].ids \subseteq Drawn
    /\ \A id \in TaskIds : rows[id].status # Absent => id \in Drawn
    /\ \A id \in listed : rows[id].status # Absent

Creating == {"create", "createBad"}

(* Before its create is sent, nobody else knows a task.                    *)
Unborn ==
    \A r \in Replicas :
        pc[r] \in Creating /\ (\A h \in Handlers : ~Waits(r, h)) => ~Created(task[r])

OpOf(label) ==
    IF label \in Creating THEN "create" ELSE IF label = "delete" THEN "delete" ELSE "update"

Asked ==
    \A r \in Replicas, h \in Handlers : Waits(r, h) =>
        /\ pc[r] \in Calling
        /\ req[h].op = OpOf(pc[r]) /\ req[h].ids = {task[r]}
        /\ \A g \in Handlers : Waits(r, g) => g = h

Deletes ==
    \A h \in Handlers : req[h].op = "delete" =>
        /\ req[h].step \in {"write", "ok", "err"}
        /\ req[h].step = "ok" => \A id \in req[h].ids : rows[id].status = Deleted

DeadLetters ==
    "nats" \notin Faults =>
        /\ \A r \in Replicas : At(r, "fail") => ev[r] \in dlq
        /\ \A h \in Handlers : req[h].status = "Failed" =>
             \A e \in Events : \A id \in req[h].ids \cap taskOf[e] : e \in dlq
        /\ \A e \in Events : \A id \in taskOf[e] : rows[id].status = "Failed" => e \in dlq

RecordInv ==
    /\ CountInv /\ ServiceInv
    /\ RecordTypes /\ Known /\ Unborn /\ Asked /\ Deletes /\ DeadLetters /\ ReturnedIsClosed

(* The invariant of the record holds before the first event.               *)
LEMMA RecordInitial == RuntimeInit => RecordInv
<1> SUFFICES ASSUME RuntimeInit PROVE RecordInv
  OBVIOUS
<1>1. CountInv /\ ServiceInv
  BY CountInitial, TaskServiceInitial DEF RuntimeInit
<1> USE DEF RuntimeInit, ReplicasInit, TaskServiceInit
<1>2. RecordTypes /\ ReturnedIsClosed
  BY DEF RecordTypes, ReturnedIsClosed
<1>3. Known
  BY DEF Known, Idle, NoRow
<1>4. Unborn
  BY DEF Unborn, Creating
<1>5. Asked
  <2>1. ASSUME NEW r \in Replicas, NEW h \in Handlers PROVE ~Waits(r, h)
    BY RuntimeAssumption, TaskServiceAssumption DEF Waits, Idle
  <2> QED  BY <2>1 DEF Asked
<1>6. Deletes
  BY DEF Deletes, Idle
<1>7. DeadLetters
  BY DEF DeadLetters, Idle, At, NoRow
<1> QED  BY <1>1, <1>2, <1>3, <1>4, <1>5, <1>6, <1>7 DEF RecordInv

(* What one statement or publish of the server changes: the rows its       *)
(* request names, to what the request says, and its own request.           *)
LEMMA ServerEffect ==
    ASSUME ServiceInv, NEW h \in Handlers, ServerStep(h)
    PROVE  /\ req[h].op # "none" /\ req[h].step \in {"find", "write", "reread", "publish"}
           /\ \A g \in Handlers \ {h} : req'[g] = req[g]
           /\ \/ req'[h] = Idle /\ req[h].client \notin Clients
              \/ /\ req'[h].op = req[h].op /\ req'[h].status = req[h].status
                 /\ req'[h].client = req[h].client
                 /\ req'[h].ids \subseteq req[h].ids
                 /\ req[h].op # "bulk" => req'[h].ids = req[h].ids
           /\ \A id \in TaskIds : rows'[id] # rows[id] =>
                id \in req[h].ids /\ rows'[id].status \in {"Processing", Deleted, req[h].status}
           /\ req[h].op = "delete" /\ req[h].step = "write" =>
                \/ req'[h].op = "none"
                \/ req'[h].step = "err"
                \/ req'[h].step = "ok" /\ \A id \in req'[h].ids : rows'[id].status = Deleted
<1>0. /\ req \in [Handlers -> Requests] /\ rows \in [TaskIds -> Row]
      /\ req[h] \in Requests /\ Shape
  BY DEF ServiceInv, Types
<1> DEFINE Effect ==
      /\ \A g \in Handlers \ {h} : req'[g] = req[g]
      /\ \/ req'[h] = Idle /\ req[h].client \notin Clients
         \/ /\ req'[h].op = req[h].op /\ req'[h].status = req[h].status
            /\ req'[h].client = req[h].client
            /\ req'[h].ids \subseteq req[h].ids
            /\ req[h].op # "bulk" => req'[h].ids = req[h].ids
    Written ==
      \A id \in TaskIds : rows'[id] # rows[id] =>
        id \in req[h].ids /\ rows'[id].status \in {"Processing", Deleted, req[h].status}
    Removed ==
      req[h].op = "delete" /\ req[h].step = "write" =>
        \/ req'[h].op = "none"
        \/ req'[h].step = "err"
        \/ req'[h].step = "ok" /\ \A id \in req'[h].ids : rows'[id].status = Deleted
<1>step. req[h].step \in {"find", "write", "reread", "publish"}
  BY DEF ServerStep, CreateTask, FindByID, UpdateStatus, Reread, DeleteTask, BulkUpdateStatus,
         StatementFails, Cancelled, Publish, On
<1>op. req[h].op # "none"
  BY <1>0, <1>step DEF Shape
<1> SUFFICES Effect /\ Written /\ Removed
  BY <1>step, <1>op
<1>1. ASSUME NEW answer \in {"ok", "err"}, Answer(h, answer)
      PROVE  /\ Effect
             /\ req'[h].op = "none" \/ (req'[h].step = answer /\ req'[h].ids = req[h].ids)
  <2>1. CASE req[h].client \in Clients
    <3>1. req' = [req EXCEPT ![h] = [req[h] EXCEPT !.step = answer]]
      BY <1>1, <2>1 DEF Answer
    <3> QED  BY <1>0, <3>1 DEF Requests
  <2>2. CASE req[h].client \notin Clients
    <3>1. req' = [req EXCEPT ![h] = Idle]
      BY <1>1, <2>2 DEF Answer
    <3> QED  BY <1>0, <2>2, <3>1 DEF Idle
  <2> QED  BY <2>1, <2>2
<1>2. ASSUME NEW step, Goes(h, step) PROVE Effect
  BY <1>0, <1>2 DEF Goes, Requests
<1>3. CASE CreateTask(h)
  <2>1. /\ rows' = [rows EXCEPT ![IdOf(h)] = [status |-> "Processing", actions |-> FALSE]]
        /\ req' = [req EXCEPT ![h].step = "publish", ![h].read = "Processing"]
        /\ req[h].op = "create" /\ req[h].ids = {IdOf(h)}
    BY <1>0, <1>3 DEF CreateTask, On, Shape
  <2>2. Effect
    BY <1>0, <2>1 DEF Requests
  <2>3. Written
    BY <1>0, <2>1
  <2> QED  BY Zenon, <2>1, <2>2, <2>3
<1>4. CASE FindByID(h)
  BY <1>1, <1>2, <1>4 DEF FindByID, On
<1>5. CASE UpdateStatus(h)
  <2>1. req[h].op = "update" /\ req[h].ids = {IdOf(h)}
    BY <1>0, <1>5 DEF UpdateStatus, On, Shape
  <2>2. Effect
    BY <1>1, <1>2, <1>5 DEF UpdateStatus
  <2>3. Written
    <3>1. CASE UNCHANGED rows
      BY <3>1
    <3>2. CASE rows' = [rows EXCEPT ![IdOf(h)] =
                          [status |-> req[h].status, actions |-> rows[IdOf(h)].actions \/ req[h].actions]]
      BY <1>0, <2>1, <3>2
    <3> QED  BY <1>5, <3>1, <3>2 DEF UpdateStatus
  <2> QED  BY <2>1, <2>2, <2>3
<1>6. CASE Reread(h)
  <2>1. req[h].op = "update" /\ UNCHANGED rows
    BY <1>6 DEF Reread, On
  <2>2. Effect
    <3>1. CASE Answer(h, "err")
      BY <1>1, <3>1
    <3>2. CASE req' = [req EXCEPT ![h].step = "publish", ![h].read = rows[IdOf(h)].status]
      BY <1>0, <3>2 DEF Requests
    <3> QED  BY <1>6, <3>1, <3>2 DEF Reread
  <2> QED  BY <2>1, <2>2
<1>7. CASE DeleteTask(h)
  <2>1. req[h].op = "delete" /\ req[h].ids = {IdOf(h)}
    BY <1>0, <1>7 DEF DeleteTask, On, Shape
  <2>2. CASE Answer(h, "err") /\ UNCHANGED rows
    BY <1>1, <2>2
  <2>3. CASE Answer(h, "ok") /\ rows' = [rows EXCEPT ![IdOf(h)] = Gone]
    <3>1. Effect /\ (req'[h].op = "none" \/ (req'[h].step = "ok" /\ req'[h].ids = {IdOf(h)}))
      BY <1>1, <2>1, <2>3
    <3>2. IdOf(h) \in TaskIds
      BY <1>0, <2>1 DEF Requests
    <3>3. Written /\ rows'[IdOf(h)].status = Deleted
      BY <1>0, <2>1, <2>3, <3>2 DEF Gone
    <3> QED  BY <3>1, <3>3
  <2> QED  BY <1>7, <2>2, <2>3 DEF DeleteTask
<1>8. CASE BulkUpdateStatus(h)
  <2> DEFINE hit == {id \in req[h].ids : rows[id].status \notin Missing}
  <2>1. req[h].op = "bulk"
    BY <1>8 DEF BulkUpdateStatus, On
  <2>2. CASE Answer(h, "err") /\ UNCHANGED rows
    BY <1>1, <2>1, <2>2
  <2>3. CASE /\ rows' = [id \in TaskIds |-> IF id \in hit THEN [rows[id] EXCEPT !.status = req[h].status]
                                            ELSE rows[id]]
             /\ Answer(h, "ok") \/ req' = [req EXCEPT ![h].ids = hit, ![h].step = "publish"]
    <3>1. Written
      BY <1>0, <2>3 DEF Row
    <3>2. CASE Answer(h, "ok")
      BY <1>1, <2>1, <3>1, <3>2
    <3>3. CASE req' = [req EXCEPT ![h].ids = hit, ![h].step = "publish"]
      BY <1>0, <2>1, <3>1, <3>3 DEF Requests
    <3> QED  BY <2>3, <3>2, <3>3
  <2> QED  BY <1>8, <2>2, <2>3 DEF BulkUpdateStatus
<1>9. CASE StatementFails(h)
  BY <1>1, <1>9 DEF StatementFails
<1>10. CASE Cancelled(h)
  <2>1. req' = [req EXCEPT ![h] = Idle] /\ req[h].client \notin Clients /\ UNCHANGED rows
    BY <1>10, TaskServiceAssumption DEF Cancelled
  <2> QED  BY <1>0, <2>1 DEF Idle
<1>11. CASE \E id \in TaskIds : Publish(h, id)
  <2>1. PICK id \in TaskIds : Publish(h, id)
    BY <1>11
  <2>2. UNCHANGED rows /\ req[h].step = "publish" /\ id \in req[h].ids
    BY <2>1 DEF Publish
  <2>3. CASE req[h].ids = {id}
    BY <1>1, <2>1, <2>2, <2>3 DEF Publish
  <2>4. CASE req[h].ids # {id}
    <3>1. req' = [req EXCEPT ![h].ids = req[h].ids \ {id}]
      BY <1>0, <2>1, <2>4 DEF Publish
    <3>2. req[h].op \notin {"create", "update", "delete", "none"}
      BY <1>0, <2>2, <2>4 DEF Shape
    <3> QED  BY <1>0, <2>2, <3>1, <3>2 DEF Requests
  <2> QED  BY <2>3, <2>4
<1> QED  BY <1>3, <1>4, <1>5, <1>6, <1>7, <1>8, <1>9, <1>10, <1>11 DEF ServerStep

(* A step of the server keeps the record true: it writes what a request    *)
(* asked, and what a request asks does not change.                         *)
LEMMA ServerRecord ==
    ASSUME RecordInv, NEW h \in Handlers, Server(h)
    PROVE  RecordInv'
<1> USE DEF RecordInv
<1>1. ServerStep(h) /\ UNCHANGED <<msg, pc, ev, task, result, todo, runs, taskOf, dlq, finished, listed, lost>>
  BY DEF Server, rtVars, agentVars, actionVars
<1>2. CountInv' /\ ServiceInv' /\ Keeps
  BY <1>1, CountUntouched, StepInv, StepKeeps DEF TaskServiceNext
<1>3. /\ \A g \in Handlers \ {h} : req'[g] = req[g]
      /\ req[h].op # "none" /\ req[h].step \in {"find", "write", "reread", "publish"}
      /\ req[h].op = "delete" /\ req[h].step = "write" =>
           \/ req'[h].op = "none"
           \/ req'[h].step = "err"
           \/ req'[h].step = "ok" /\ \A id \in req'[h].ids : rows'[id].status = Deleted
  BY <1>1, ServerEffect
<1>4. \/ req'[h] = Idle /\ req[h].client \notin Clients
      \/ /\ req'[h].op = req[h].op /\ req'[h].status = req[h].status
         /\ req'[h].client = req[h].client
         /\ req'[h].ids \subseteq req[h].ids
         /\ req[h].op # "bulk" => req'[h].ids = req[h].ids
  BY <1>1, ServerEffect
<1>5. \A id \in TaskIds : rows'[id] # rows[id] =>
        id \in req[h].ids /\ rows'[id].status \in {"Processing", Deleted, req[h].status}
  BY <1>1, ServerEffect
<1>6. /\ \A g \in Handlers : req'[g].ids \subseteq req[g].ids
      /\ \A g \in Handlers : req'[g].op # "none" => req'[g].op = req[g].op
  <2>1. CASE req'[h] = Idle
    BY <1>3, <2>1 DEF Idle
  <2>2. CASE req'[h].op = req[h].op /\ req'[h].ids \subseteq req[h].ids
    BY <1>3, <2>2
  <2> QED  BY <1>4, <2>1, <2>2
<1>7. RecordTypes'
  BY <1>1 DEF RecordTypes
<1>8. Known'
  <2>1. Drawn' = Drawn
    BY <1>1 DEF Drawn
  <2>2. \A g \in Handlers : req'[g].ids \subseteq Drawn
    BY <1>6 DEF Known
  <2>3. \A id \in TaskIds : rows'[id].status # Absent => id \in Drawn
    BY <1>5 DEF Known
  <2>4. \A id \in listed : rows'[id].status # Absent
    BY <1>2 DEF Known, Keeps, RecordTypes
  <2> QED  BY <1>1, <2>1, <2>2, <2>3, <2>4 DEF Known
<1>9. ASSUME NEW r \in Replicas, NEW g \in Handlers PROVE Waits(r, g)' <=> Waits(r, g)
  <2>1. r \in Clients /\ r # Nobody
    BY RuntimeAssumption, TaskServiceAssumption
  <2> QED  BY <1>3, <1>4, <2>1 DEF Waits, Idle
<1>10. Unborn'
  <2> SUFFICES ASSUME NEW r \in Replicas, pc[r] \in Creating, \A g \in Handlers : ~Waits(r, g)
               PROVE  ~Created(task[r])'
    BY <1>1, <1>9 DEF Unborn
  <2>1. ~Created(task[r]) /\ task[r] \in TaskIds
    BY DEF Unborn, Creating, CountInv, Held, ReplicaTypes, Busy, Early
  <2> QED  BY <1>1, <1>3, <1>5, <1>6, <2>1 DEF Created
<1>11. Asked'
  <2> SUFFICES ASSUME NEW r \in Replicas, NEW g \in Handlers, Waits(r, g)
               PROVE  /\ pc[r] \in Calling
                      /\ req'[g].op = OpOf(pc[r]) /\ req'[g].ids = {task[r]}
                      /\ \A k \in Handlers : Waits(r, k) => k = g
    BY <1>1, <1>9 DEF Asked, OpOf
  <2>1. /\ pc[r] \in Calling /\ req[g].op = OpOf(pc[r]) /\ req[g].ids = {task[r]}
        /\ \A k \in Handlers : Waits(r, k) => k = g
    BY DEF Asked
  <2>2. req[g].op # "bulk" /\ req[g].client \in Clients
    BY <2>1, RuntimeAssumption DEF OpOf, Waits
  <2> QED  BY <1>3, <1>4, <2>1, <2>2
<1>12. Deletes'
  <2> SUFFICES ASSUME NEW g \in Handlers, req'[g].op = "delete"
               PROVE  /\ req'[g].step \in {"write", "ok", "err"}
                      /\ req'[g].step = "ok" => \A id \in req'[g].ids : rows'[id].status = Deleted
    BY DEF Deletes, Deleted
  <2>1. CASE g = h
    BY <1>3, <1>6, <2>1 DEF Deletes
  <2>2. CASE g # h
    <3>1. req[g].ids \subseteq TaskIds
      BY DEF ServiceInv, Types, Requests
    <3> QED  BY <1>2, <1>3, <1>6, <2>2, <3>1 DEF Deletes, Keeps
  <2> QED  BY <2>1, <2>2
<1>13. DeadLetters'
  <2> SUFFICES ASSUME "nats" \notin Faults
               PROVE  /\ \A r \in Replicas : At(r, "fail")' => ev[r] \in dlq
                      /\ \A g \in Handlers : req'[g].status = "Failed" =>
                           \A e \in Events : \A id \in req'[g].ids \cap taskOf[e] : e \in dlq
                      /\ \A e \in Events : \A id \in taskOf[e] : rows'[id].status = "Failed" => e \in dlq
    BY <1>1 DEF DeadLetters
  <2>1. \A r \in Replicas : At(r, "fail")' => ev[r] \in dlq
    BY <1>1 DEF DeadLetters, At
  <2>2. \A g \in Handlers : req'[g].status = "Failed" => req[g].status = "Failed"
    BY <1>3, <1>4 DEF Idle, Absent
  <2>3. \A g \in Handlers : req'[g].status = "Failed" =>
          \A e \in Events : \A id \in req'[g].ids \cap taskOf[e] : e \in dlq
    BY <1>6, <2>2 DEF DeadLetters
  <2>4. ASSUME NEW e \in Events, NEW id \in taskOf[e], rows'[id].status = "Failed" PROVE e \in dlq
    <3>1. id \in TaskIds
      BY DEF CountInv, ReplicaTypes
    <3>2. CASE rows'[id] = rows[id]
      BY <2>4, <3>2 DEF DeadLetters
    <3>3. CASE rows'[id] # rows[id]
      <4>1. id \in req[h].ids /\ req[h].status = "Failed"
        BY <1>5, <2>4, <3>1, <3>3 DEF Deleted
      <4> QED  BY <4>1 DEF DeadLetters
    <3> QED  BY <3>2, <3>3
  <2> QED  BY <2>1, <2>3, <2>4
<1>14. ReturnedIsClosed'
  BY <1>1, <1>2 DEF ReturnedIsClosed, Keeps, RecordTypes, Gone
<1> QED  BY <1>2, <1>7, <1>8, <1>10, <1>11, <1>12, <1>13, <1>14

(* A step of one replica that writes no row and sends no request; what it  *)
(* was waiting for, if anything, it waits for no longer.                   *)
LEMMA MoveRecord ==
    ASSUME RecordInv, CountInv', ServiceInv', NEW r \in Replicas, NEW next, Goto(r, next),
           next \notin Creating, UNCHANGED <<rows, taskOf, listed>>,
           \A s \in Replicas \ {r} : ev'[s] = ev[s] /\ task'[s] = task[s] /\ result'[s] = result[s],
           \A h \in Handlers : req'[h] \in {req[h], Idle, [req[h] EXCEPT !.client = Nobody]},
           \A h \in Handlers : ~Waits(r, h)',
           \A s \in Replicas \ {r}, h \in Handlers : Waits(s, h) => req'[h] = req[h],
           result' \in [Replicas -> Outcomes \cup {Absent}],
           next \in {"update", "actions", "record"} => result'[r] \in Outcomes,
           \A id \in finished' : id \in finished \/ (id \in TaskIds /\ rows[id].status \in Terminal \cup {Deleted}),
           dlq \subseteq dlq', dlq' \subseteq Events,
           next = "fail" => ("nats" \notin Faults => ev'[r] \in dlq')
    PROVE  RecordInv'
<1> USE DEF RecordInv
<1>1. pc'[r] = next /\ \A s \in Replicas \ {r} : pc'[s] = pc[s]
  BY DEF Goto, CountInv, ReplicaTypes
<1>2. \A h \in Handlers : /\ req'[h].ids \subseteq req[h].ids
                          /\ req'[h].status # Absent => req'[h].status = req[h].status
                          /\ req'[h].op # "none" => /\ req'[h].op = req[h].op
                                                    /\ req'[h].step = req[h].step
                                                    /\ req'[h].ids = req[h].ids
  <2> SUFFICES ASSUME NEW h \in Handlers
               PROVE  /\ req'[h].ids \subseteq req[h].ids
                      /\ req'[h].status # Absent => req'[h].status = req[h].status
                      /\ req'[h].op # "none" => /\ req'[h].op = req[h].op
                                                /\ req'[h].step = req[h].step
                                                /\ req'[h].ids = req[h].ids
    OBVIOUS
  <2>1. CASE req'[h] = Idle
    BY <2>1 DEF Idle
  <2>2. CASE req'[h] = [req[h] EXCEPT !.client = Nobody]
    <3>1. req[h] \in Requests
      BY DEF ServiceInv, Types
    <3> QED  BY <2>2, <3>1 DEF Requests
  <2> QED  BY <2>1, <2>2
<1>3. \A s \in Replicas, h \in Handlers : Waits(s, h)' => s # r /\ Waits(s, h) /\ req'[h] = req[h]
  <2> SUFFICES ASSUME NEW s \in Replicas, NEW h \in Handlers, Waits(s, h)'
               PROVE  s # r /\ Waits(s, h) /\ req'[h] = req[h]
    OBVIOUS
  <2>1. s # Nobody
    BY RuntimeAssumption, TaskServiceAssumption
  <2>2. req[h] \in Requests
    BY DEF ServiceInv, Types
  <2>3. req'[h].client # Nobody
    BY <2>1 DEF Waits
  <2>4. req'[h] = req[h]
    BY <2>2, <2>3 DEF Idle, Requests
  <2> QED  BY <2>4 DEF Waits
<1>4. RecordTypes'
  <2>1. \A s \in Replicas : pc'[s] \in {"update", "actions", "record"} => result'[s] \in Outcomes
    BY <1>1 DEF RecordTypes
  <2>2. finished' \subseteq TaskIds
    BY DEF RecordTypes
  <2> QED  BY <2>1, <2>2 DEF RecordTypes
<1>5. Known'
  BY <1>2 DEF Known, Drawn
<1>6. Unborn'
  <2> SUFFICES ASSUME NEW s \in Replicas, pc'[s] \in Creating, \A h \in Handlers : ~Waits(s, h)'
               PROVE  ~Created(task[s])' /\ s # r
    BY DEF Unborn
  <2>1. s # r /\ pc[s] \in Creating /\ task'[s] = task[s]
    BY <1>1
  <2>2. \A h \in Handlers : ~Waits(s, h)
    BY <2>1 DEF Waits
  <2>3. ~Created(task[s])
    BY <2>1, <2>2 DEF Unborn
  <2> QED  BY <1>2, <2>1, <2>3 DEF Created
<1>7. Asked'
  <2> SUFFICES ASSUME NEW s \in Replicas, NEW h \in Handlers, Waits(s, h)'
               PROVE  /\ pc'[s] \in Calling
                      /\ req'[h].op = OpOf(pc'[s]) /\ req'[h].ids = {task'[s]}
                      /\ \A g \in Handlers : Waits(s, g)' => g = h
    BY DEF Asked, OpOf
  <2>1. s # r /\ Waits(s, h) /\ req'[h] = req[h] /\ pc'[s] = pc[s] /\ task'[s] = task[s]
    BY <1>1, <1>3
  <2> QED  BY <1>3, <2>1 DEF Asked
<1>8. Deletes'
  BY <1>2 DEF Deletes
<1>9. DeadLetters'
  <2> SUFFICES ASSUME "nats" \notin Faults
               PROVE  /\ \A s \in Replicas : At(s, "fail")' => ev'[s] \in dlq'
                      /\ \A g \in Handlers : req'[g].status = "Failed" =>
                           \A e \in Events : \A id \in req'[g].ids \cap taskOf[e] : e \in dlq'
                      /\ \A e \in Events : \A id \in taskOf[e] : rows[id].status = "Failed" => e \in dlq'
    BY DEF DeadLetters
  <2>1. \A s \in Replicas : At(s, "fail")' => ev'[s] \in dlq'
    BY <1>1 DEF DeadLetters, At
  <2>2. \A g \in Handlers : req'[g].status = "Failed" => req[g].status = "Failed"
    BY <1>2 DEF Absent
  <2> QED  BY <1>2, <2>1, <2>2 DEF DeadLetters
<1>10. ReturnedIsClosed'
  BY DEF ReturnedIsClosed
<1> QED  BY <1>4, <1>5, <1>6, <1>7, <1>8, <1>9, <1>10

(* Steps 1 to 3 of process_message: the fresh ULID is in no row and no     *)
(* request.                                                                *)
LEMMA AckRecord ==
    ASSUME RecordInv, CountInv', NEW r \in Replicas, Ack(r)
    PROVE  RecordInv'
<1> USE DEF RecordInv
<1>1. PICK id \in TaskIds :
        /\ id \notin Drawn
        /\ task' = [task EXCEPT ![r] = id]
        /\ taskOf' = [taskOf EXCEPT ![ev[r]] = taskOf[ev[r]] \cup {id}]
  BY Zenon DEF Ack, Drawn
<1>2. PICK next \in Creating : Goto(r, next)
  BY DEF Ack, Creating
<1>3. UNCHANGED <<rows, req, chan, feed, ev, result, dlq, finished, listed>> /\ At(r, "ack")
  BY DEF Ack, tsVars, agentVars
<1>4. ev[r] \in Events
  BY <1>3 DEF CountInv, Held
<1>5. /\ pc'[r] = next /\ task'[r] = id
      /\ \A s \in Replicas \ {r} : pc'[s] = pc[s] /\ task'[s] = task[s]
  BY <1>1, <1>2 DEF Goto, CountInv, ReplicaTypes
<1>6. \A e \in Events : taskOf[e] \subseteq taskOf'[e] /\ taskOf'[e] \subseteq taskOf[e] \cup {id}
  BY <1>1, <1>4 DEF CountInv, ReplicaTypes
<1>7. ~Created(id) /\ rows[id].status = Absent /\ \A h \in Handlers : id \notin req[h].ids
  BY <1>1 DEF Known, Created
<1>8. ServiceInv'
  BY <1>3, StepInv DEF tsVars
<1>9. RecordTypes'
  BY <1>3, <1>5 DEF RecordTypes, Creating
<1>10. Known'
  <2>1. Drawn \subseteq Drawn'
    BY <1>6 DEF Drawn
  <2> QED  BY <1>3, <2>1 DEF Known
<1>11. Unborn'
  <2> SUFFICES ASSUME NEW s \in Replicas, pc'[s] \in Creating, \A h \in Handlers : ~Waits(s, h)'
               PROVE  ~Created(task'[s])
    BY <1>3 DEF Unborn, Created
  <2>1. \A h \in Handlers : ~Waits(s, h)
    BY <1>3 DEF Waits
  <2> QED  BY <1>5, <1>7, <2>1 DEF Unborn
<1>12. Asked'
  <2> SUFFICES ASSUME NEW s \in Replicas, NEW h \in Handlers, Waits(s, h)'
               PROVE  (/\ pc[s] \in Calling
                       /\ req[h].op = OpOf(pc[s]) /\ req[h].ids = {task[s]}
                       /\ \A g \in Handlers : Waits(s, g) => g = h)'
    BY DEF Asked
  <2>1. \A g \in Handlers : Waits(s, g)' <=> Waits(s, g)
    BY <1>3 DEF Waits
  <2>2. /\ pc[s] \in Calling
        /\ req[h].op = OpOf(pc[s]) /\ req[h].ids = {task[s]}
        /\ \A g \in Handlers : Waits(s, g) => g = h
    BY <2>1 DEF Asked
  <2>3. s # r
    BY <1>3, <2>2 DEF Calling, At
  <2>4. pc'[s] = pc[s] /\ task'[s] = task[s] /\ req' = req
    BY <1>3, <1>5, <2>3
  <2>5. OpOf(pc[s])' = OpOf(pc[s])
    BY <2>4 DEF OpOf
  <2> QED  BY <2>1, <2>2, <2>4, <2>5
<1>13. Deletes'
  BY <1>3 DEF Deletes
<1>14. DeadLetters'
  <2> SUFFICES ASSUME "nats" \notin Faults
               PROVE  /\ \A s \in Replicas : At(s, "fail")' => ev[s] \in dlq
                      /\ \A g \in Handlers : req[g].status = "Failed" =>
                           \A e \in Events : \A i \in req[g].ids \cap taskOf'[e] : e \in dlq
                      /\ \A e \in Events : \A i \in taskOf'[e] : rows[i].status = "Failed" => e \in dlq
    BY <1>3 DEF DeadLetters
  <2>1. \A s \in Replicas : At(s, "fail")' => ev[s] \in dlq
    BY <1>5 DEF DeadLetters, At, Creating
  <2>2. \A g \in Handlers : req[g].status = "Failed" =>
          \A e \in Events : \A i \in req[g].ids \cap taskOf'[e] : e \in dlq
    BY <1>6, <1>7 DEF DeadLetters
  <2>3. \A e \in Events : \A i \in taskOf'[e] : rows[i].status = "Failed" => e \in dlq
    BY <1>6, <1>7 DEF DeadLetters, Absent
  <2> QED  BY <2>1, <2>2, <2>3
<1>15. ReturnedIsClosed'
  BY <1>3 DEF ReturnedIsClosed
<1> QED  BY <1>8, <1>9, <1>10, <1>11, <1>12, <1>13, <1>14, <1>15

(* A request is sent, by a replica for its own task or by the dashboard    *)
(* for tasks it has seen.                                                  *)
LEMMA SendRecord ==
    ASSUME RecordInv, CountInv', ServiceInv', NEW h \in Handlers, NEW c \in Clients,
           NEW op \in {"create", "update", "delete", "bulk"}, NEW ids \in SUBSET Drawn,
           NEW st, NEW done, Receive(h, Request(op, ids, st, done, c)),
           UNCHANGED <<rows, pc, ev, task, result, taskOf, dlq, finished>>, listed' \subseteq listed,
           \A g \in Handlers : ~Waits(c, g),
           c \in Replicas => pc[c] \in Calling /\ op = OpOf(pc[c]) /\ ids = {task[c]},
           \A s \in Replicas \ {c} :
             pc[s] \in Creating /\ (\A g \in Handlers : ~Waits(s, g)) => task[s] \notin ids,
           st = "Failed" /\ "nats" \notin Faults =>
             \A e \in Events : \A id \in ids \cap taskOf[e] : e \in dlq
    PROVE  RecordInv'
<1> USE DEF RecordInv
<1>1. /\ req[h] = Idle /\ \A g \in Handlers \ {h} : req'[g] = req[g]
      /\ req'[h].op = op /\ req'[h].ids = ids /\ req'[h].status = st /\ req'[h].client = c
      /\ req'[h].step \in {"find", "write"}
      /\ op = "delete" => req'[h].step = "write"
  BY DEF Receive, Request, ServiceInv, Types
<1>2. RecordTypes'
  BY DEF RecordTypes
<1>3. Known'
  <2>1. Drawn' = Drawn
    BY DEF Drawn
  <2>2. \A g \in Handlers : req'[g].ids \subseteq Drawn
    BY <1>1 DEF Known
  <2>3. /\ \A id \in TaskIds : rows[id].status # Absent => id \in Drawn
        /\ \A id \in listed' : rows[id].status # Absent
    BY DEF Known
  <2> QED  BY <2>1, <2>2, <2>3 DEF Known
<1>4. ASSUME NEW s \in Replicas, NEW g \in Handlers
      PROVE  Waits(s, g)' <=> Waits(s, g) \/ (s = c /\ g = h)
  <2>1. s # Nobody
    BY RuntimeAssumption, TaskServiceAssumption
  <2>2. CASE g = h
    <3>1. req[g].client = Nobody /\ req'[g].client = c
      BY <1>1, <2>2 DEF Idle
    <3> QED  BY <2>1, <2>2, <3>1 DEF Waits
  <2>3. CASE g # h
    <3>1. req'[g] = req[g]
      BY <1>1, <2>3
    <3> QED  BY <2>3, <3>1 DEF Waits
  <2> QED  BY <2>2, <2>3
<1>5. Unborn'
  <2> SUFFICES ASSUME NEW s \in Replicas, pc[s] \in Creating, \A g \in Handlers : ~Waits(s, g)'
               PROVE  ~Created(task[s])'
    BY DEF Unborn
  <2>1. s # c /\ \A g \in Handlers : ~Waits(s, g)
    BY Zenon, <1>4
  <2>2. ~Created(task[s]) /\ task[s] \notin ids
    BY <2>1 DEF Unborn
  <2> QED  BY Zenon, <1>1, <2>2 DEF Created
<1>6. Asked'
  <2> SUFFICES ASSUME NEW s \in Replicas, NEW g \in Handlers, Waits(s, g)'
               PROVE  (/\ pc[s] \in Calling
                       /\ req[g].op = OpOf(pc[s]) /\ req[g].ids = {task[s]}
                       /\ \A k \in Handlers : Waits(s, k) => k = g)'
    BY DEF Asked
  <2>0. pc' = pc /\ task' = task /\ OpOf(pc[s])' = OpOf(pc[s])
    BY Zenon DEF OpOf
  <2>1. CASE s = c
    <3>1. g = h /\ \A k \in Handlers : Waits(s, k)' => k = h
      BY <1>4, <2>1
    <3>2. req'[g].op = op /\ req'[g].ids = ids
      BY Zenon, <1>1, <3>1
    <3>3. pc[s] \in Calling /\ op = OpOf(pc[s]) /\ ids = {task[s]}
      BY <2>1
    <3> QED  BY <2>0, <3>1, <3>2, <3>3
  <2>2. CASE s # c
    <3>1. Waits(s, g) /\ \A k \in Handlers : Waits(s, k)' => Waits(s, k)
      BY <1>4, <2>2
    <3>2. g # h
      BY <1>1, <2>2 DEF Waits
    <3>3. req'[g] = req[g]
      BY Zenon, <1>1, <3>2
    <3>4. /\ pc[s] \in Calling
          /\ req[g].op = OpOf(pc[s]) /\ req[g].ids = {task[s]}
          /\ \A k \in Handlers : Waits(s, k) => k = g
      BY <3>1 DEF Asked
    <3> QED  BY <2>0, <3>1, <3>3, <3>4
  <2> QED  BY <2>1, <2>2
<1>7. Deletes'
  BY <1>1 DEF Deletes
<1>8. DeadLetters'
  <2> SUFFICES ASSUME "nats" \notin Faults
               PROVE  /\ \A s \in Replicas : At(s, "fail")' => ev[s] \in dlq
                      /\ \A g \in Handlers : req'[g].status = "Failed" =>
                           \A e \in Events : \A i \in req'[g].ids \cap taskOf[e] : e \in dlq
                      /\ \A e \in Events : \A i \in taskOf[e] : rows[i].status = "Failed" => e \in dlq
    BY DEF DeadLetters
  <2>1. \A s \in Replicas : At(s, "fail")' => ev[s] \in dlq
    BY DEF DeadLetters, At
  <2> QED  BY <1>1, <2>1 DEF DeadLetters
<1>9. ReturnedIsClosed'
  BY DEF ReturnedIsClosed
<1> QED  BY <1>2, <1>3, <1>5, <1>6, <1>7, <1>8, <1>9

(* TaskServiceClient's calls (consumer.py:112-264). *)
LEMMA CallRecord ==
    ASSUME RecordInv, CountInv', NEW r \in Replicas, Call(r)
    PROVE  RecordInv'
<1> USE DEF RecordInv
<1>1. /\ pc[r] \in Calling /\ \A g \in Handlers : ~Waits(r, g)
      /\ UNCHANGED <<rows, chan, feed, pc, ev, task, result, taskOf, dlq, finished, listed>>
  BY DEF Call, rtVars, agentVars
<1>2. PICK h \in Handlers : Receive(h, CallOf(r))
  BY DEF Call
<1>3. r \in Clients /\ ev[r] \in Events /\ task[r] \in taskOf[ev[r]] /\ task[r] \in TaskIds
  BY <1>1, RuntimeAssumption DEF Calling, CountInv, Held, ReplicaTypes, Busy, Early, Late
<1> DEFINE op == OpOf(pc[r])
<1>4. PICK st \in Statuses, done \in BOOLEAN :
        /\ CallOf(r) = Request(op, {task[r]}, st, done, r)
        /\ op = "update" => st \in Terminal
        /\ st = "Failed" => At(r, "fail")
  <2>1. pc[r] \in {"update", "record"} => result[r] \in Outcomes
    BY DEF RecordTypes
  <2>2. CASE pc[r] \in Creating
    <3>1. CallOf(r) = Request(op, {task[r]}, "Processing", FALSE, r)
      BY Zenon, <2>2 DEF CallOf, Creating, OpOf
    <3>2. "Processing" \in Statuses /\ op # "update"
      BY <2>2 DEF OpOf, Statuses, TaskStatus
    <3> QED  BY Zenon, <3>1, <3>2
  <2>3. CASE pc[r] = "unprocessable"
    <3>1. CallOf(r) = Request(op, {task[r]}, "UnprocessableEvent", FALSE, r)
      BY <2>3 DEF CallOf, Creating, OpOf
    <3>2. "UnprocessableEvent" \in Statuses /\ "UnprocessableEvent" \in Terminal
      BY DEF Statuses, TaskStatus, Terminal
    <3> QED  BY Zenon, <3>1, <3>2
  <2>4. CASE pc[r] = "delete"
    <3>1. CallOf(r) = Request(op, {task[r]}, Absent, FALSE, r)
      BY <2>4 DEF CallOf, Creating, OpOf
    <3>2. Absent \in Statuses /\ op # "update"
      BY <2>4 DEF OpOf, Creating, Statuses, Missing
    <3>3. Absent # "Failed"
      BY DEF Absent
    <3> QED  BY Zenon, <3>1, <3>2, <3>3
  <2>5. CASE pc[r] = "update"
    <3>1. CallOf(r) = Request(op, {task[r]}, result[r], FALSE, r)
      BY <2>5 DEF CallOf, Creating, OpOf
    <3>2. result[r] \in Statuses /\ result[r] \in Terminal /\ result[r] # "Failed"
      BY <2>1, <2>5 DEF Outcomes, Statuses, TaskStatus, Terminal
    <3> QED  BY <3>1, <3>2, Zenon
  <2>6. CASE pc[r] = "record"
    <3>1. CallOf(r) = Request(op, {task[r]}, result[r], TRUE, r)
      BY <2>6 DEF CallOf, Creating, OpOf
    <3>2. result[r] \in Statuses /\ result[r] \in Terminal /\ result[r] # "Failed"
      BY <2>1, <2>6 DEF Outcomes, Statuses, TaskStatus, Terminal
    <3> QED  BY <3>1, <3>2, Zenon
  <2>7. CASE pc[r] = "fail"
    <3>1. CallOf(r) = Request(op, {task[r]}, "Failed", FALSE, r)
      BY <2>7 DEF CallOf, Creating, OpOf
    <3>2. "Failed" \in Statuses /\ "Failed" \in Terminal /\ At(r, "fail")
      BY <2>7 DEF Statuses, TaskStatus, Terminal, At
    <3> QED  BY Zenon, <3>1, <3>2
  <2> QED  BY Zenon, <1>1, <2>2, <2>3, <2>4, <2>5, <2>6, <2>7 DEF Calling, Creating
<1>5. op \in {"create", "update", "delete"} /\ (op = "create" <=> pc[r] \in Creating)
  BY DEF OpOf
<1>6. op = "create" => ~Created(task[r])
  BY <1>1, <1>5 DEF Unborn
<1> HIDE DEF op
<1>7. ServiceInv'
  <2>1. Receive(h, Request(op, {task[r]}, st, done, r))
    BY <1>2, <1>4
  <2>2. /\ {task[r]} \in SUBSET TaskIds /\ op # "bulk"
        /\ op \in {"create", "update", "delete", "bulk"}
        /\ \E id \in TaskIds : {task[r]} = {id}
        /\ op = "create" => \A id \in {task[r]} : ~Created(id)
    BY <1>3, <1>5, <1>6
  <2> QED  BY Zenon, <1>1, <1>3, <1>4, <2>1, <2>2, ReceiveInv
<1>8. ASSUME NEW s \in Replicas \ {r}, pc[s] \in Creating PROVE task[s] \notin {task[r]}
  BY <1>1, <1>8 DEF CountInv, Held, Creating, Calling, Busy, Early, Late
<1>9. ASSUME st = "Failed", "nats" \notin Faults, NEW e \in Events, NEW id \in {task[r]} \cap taskOf[e]
      PROVE  e \in dlq
  <2>1. e = ev[r]
    BY Zenon, <1>3 DEF CountInv, Held
  <2> QED  BY <1>4, <1>9, <2>1 DEF DeadLetters
<1>10. {task[r]} \in SUBSET Drawn
  BY <1>3 DEF Drawn
<1>11. Receive(h, Request(op, {task[r]}, st, done, r)) /\ op \in {"create", "update", "delete", "bulk"}
  BY <1>2, <1>4, <1>5
<1>12. r \in Replicas => pc[r] \in Calling /\ op = OpOf(pc[r]) /\ {task[r]} = {task[r]}
  BY Zenon, <1>1 DEF op
<1> QED  BY <1>1, <1>3, <1>7, <1>8, <1>9, <1>10, <1>11, <1>12, SendRecord

(* The answer of task-service, or the timeout; when process_message        *)
(* returns on a 2xx the row is closed by what the answer says of it.       *)
LEMMA ResponseRecord ==
    ASSUME RecordInv, CountInv', NEW r \in Replicas, Response(r)
    PROVE  RecordInv'
<1> USE DEF RecordInv
<1>1. PICK h \in Handlers :
        /\ Waits(r, h)
        /\ \/ /\ req[h].step = "ok"
              /\ req' = [req EXCEPT ![h] = Idle]
              /\ Continue(r, NextAfterOk(r))
           \/ /\ req' \in {[req EXCEPT ![h] = Idle], [req EXCEPT ![h].client = Nobody]}
              /\ Continue(r, NextAfterError(r))
  BY DEF Response
<1>2. PICK next \in {"age", "unprocessable", "actions", "fetch", "dlq", "exited"} :
        /\ Continue(r, next)
        /\ next = "actions" => At(r, "update")
        /\ next = "fetch" => req[h].step = "ok" /\ pc[r] \notin Creating
  <2>1. /\ NextAfterOk(r) \in {"age", "unprocessable", "actions", "fetch"}
        /\ NextAfterOk(r) = "actions" => At(r, "update")
        /\ NextAfterOk(r) = "fetch" => pc[r] \notin Creating
    BY DEF NextAfterOk, At, Creating
  <2>2. NextAfterError(r) \in {"dlq", "exited"}
    BY DEF NextAfterError
  <2> QED  BY <1>1, <2>1, <2>2
<1>3. Goto(r, next) /\ UNCHANGED <<rows, chan, feed, taskOf, dlq, listed>>
  BY <1>2 DEF Continue
<1>4. /\ pc[r] \in Calling /\ req[h].op = OpOf(pc[r]) /\ req[h].ids = {task[r]}
      /\ \A g \in Handlers : Waits(r, g) => g = h
  BY <1>1 DEF Asked
<1>5. ServiceInv'
  <2>1. Keeps
    BY <1>3 DEF Keeps
  <2> QED  BY <1>1, <1>3, <2>1, LeaveInv
<1>6. /\ \A s \in Replicas \ {r} : ev'[s] = ev[s] /\ task'[s] = task[s] /\ result'[s] = result[s]
      /\ result' \in [Replicas -> Outcomes \cup {Absent}]
      /\ next = "actions" => result'[r] \in Outcomes
  <2>1. CASE next \in {"fetch", "exited"}
    BY Zenon, <1>2, <2>1 DEF Continue, Leave, CountInv, ReplicaTypes, RecordTypes
  <2>2. CASE next \notin {"fetch", "exited"}
    BY Zenon, <1>2, <2>2 DEF Continue, RecordTypes, agentVars, At
  <2> QED  BY <2>1, <2>2
<1>7. \A g \in Handlers : /\ req'[g] \in {req[g], Idle, [req[g] EXCEPT !.client = Nobody]}
                          /\ g # h => req'[g] = req[g]
                          /\ req'[h].client = Nobody
  <2>1. req \in [Handlers -> Requests] /\ req[h] \in Requests
    BY DEF ServiceInv, Types
  <2>2. CASE req' = [req EXCEPT ![h] = Idle]
    BY <2>1, <2>2 DEF Idle
  <2>3. CASE req' = [req EXCEPT ![h].client = Nobody]
    BY <2>1, <2>3 DEF Requests
  <2> QED  BY <1>1, <2>2, <2>3
<1>8. /\ \A g \in Handlers : ~Waits(r, g)'
      /\ \A s \in Replicas \ {r}, g \in Handlers : Waits(s, g) => req'[g] = req[g]
  <2>1. r # Nobody
    BY RuntimeAssumption, TaskServiceAssumption
  <2> QED  BY <1>1, <1>4, <1>7, <2>1 DEF Waits
<1>9. ASSUME next = "fetch" PROVE task[r] \in TaskIds /\ rows[task[r]].status \in Terminal \cup {Deleted}
  <2>1. req[h].step = "ok" /\ req[h].op \in {"update", "delete"}
    BY <1>2, <1>4, <1>9 DEF OpOf
  <2>2. CASE req[h].op = "update"
    BY Zenon, <1>4, <2>1, <2>2 DEF ServiceInv, OkMeansWritten, Shape, Types, Requests
  <2>3. CASE req[h].op = "delete"
    BY <1>4, <2>1, <2>3 DEF Deletes, ServiceInv, Types, Requests
  <2> QED  BY <2>1, <2>2, <2>3
<1>10. \A id \in finished' :
         id \in finished \/ (id \in TaskIds /\ rows[id].status \in Terminal \cup {Deleted})
  BY Zenon, <1>2, <1>9 DEF Continue
<1>11. dlq' = dlq /\ dlq \subseteq Events /\ next \notin Creating /\ next # "fail"
       /\ next \notin {"update", "record"}
  BY <1>3 DEF RecordTypes, Creating
<1> QED  BY <1>3, <1>5, <1>6, <1>7, <1>8, <1>10, <1>11, MoveRecord

(* The pod dies; the request it was waiting for goes on without a caller.  *)
LEMMA CrashRecord ==
    ASSUME RecordInv, CountInv', NEW r \in Replicas, Crash(r)
    PROVE  RecordInv'
<1> USE DEF RecordInv
<1>1. Goto(r, "exited") /\ UNCHANGED <<rows, chan, feed, taskOf, dlq, finished, listed>>
  BY DEF Crash
<1>2. req \in [Handlers -> Requests] /\ r # Nobody
  BY RuntimeAssumption, TaskServiceAssumption DEF ServiceInv, Types
<1>3. ASSUME NEW g \in Handlers
      PROVE  /\ ~Waits(r, g) => req'[g] = req[g]
             /\ Waits(r, g) => req'[g] \in {Idle, [req[g] EXCEPT !.client = Nobody]}
             /\ ~Waits(r, g)'
  <2>1. req'[g] = IF ~Waits(r, g) THEN req[g]
                  ELSE IF req[g].step \in {"ok", "err"} THEN Idle
                  ELSE [req[g] EXCEPT !.client = Nobody]
    BY DEF Crash
  <2>2. CASE ~Waits(r, g)
    BY <2>1, <2>2 DEF Waits
  <2>3. CASE Waits(r, g)
    <3>1. req'[g] \in {Idle, [req[g] EXCEPT !.client = Nobody]}
      BY <2>1, <2>3
    <3>2. req'[g].client = Nobody
      BY <1>2, <3>1 DEF Idle, Requests
    <3> QED  BY <1>2, <2>3, <3>1, <3>2 DEF Waits
  <2> QED  BY <2>2, <2>3
<1>4. ServiceInv'
  <2>1. Keeps
    BY <1>1 DEF Keeps
  <2>2. DOMAIN req' = Handlers /\ req' = [g \in Handlers |-> req'[g]]
    BY DEF Crash
  <2>3. CASE \A g \in Handlers : ~Waits(r, g)
    <3>1. req' = req
      BY <1>2, <1>3, <2>2, <2>3
    <3> QED  BY <1>1, <3>1, StepInv DEF tsVars
  <2>4. ASSUME NEW h \in Handlers, Waits(r, h) PROVE ServiceInv'
    <3>1. \A g \in Handlers \ {h} : req'[g] = req[g]
      BY <1>3, <2>4 DEF Asked
    <3>2. \/ req' = [req EXCEPT ![h] = Idle]
          \/ req' = [req EXCEPT ![h].client = Nobody]
      BY <1>2, <1>3, <2>2, <2>4, <3>1
    <3> QED  BY <1>1, <2>1, <3>2, LeaveInv
  <2> QED  BY <2>3, <2>4
<1>5. /\ \A s \in Replicas \ {r} : ev'[s] = ev[s] /\ task'[s] = task[s] /\ result'[s] = result[s]
      /\ result' \in [Replicas -> Outcomes \cup {Absent}]
  BY DEF Crash, Leave, CountInv, ReplicaTypes, RecordTypes
<1>6. /\ \A g \in Handlers : req'[g] \in {req[g], Idle, [req[g] EXCEPT !.client = Nobody]}
      /\ \A g \in Handlers : ~Waits(r, g)'
      /\ \A s \in Replicas \ {r}, g \in Handlers : Waits(s, g) => req'[g] = req[g]
  BY <1>3 DEF Waits
<1>7. /\ "exited" \notin Creating /\ "exited" # "fail"
      /\ "exited" \notin {"update", "actions", "record"}
      /\ \A id \in finished' : id \in finished
      /\ dlq \subseteq dlq' /\ dlq' \subseteq Events
  BY <1>1 DEF Creating, RecordTypes
<1> QED  BY <1>1, <1>4, <1>5, <1>6, <1>7, MoveRecord

(* The other steps of a replica: it is not waiting for task-service.       *)
LEMMA InsideRecord ==
    ASSUME RecordInv, CountInv', NEW r \in Replicas, UNCHANGED tsVars,
           \/ \E e \in Events : Fetch(r, e)
           \/ Staleness(r) \/ Reason(r) \/ CallTools(r) \/ Respond(r)
           \/ \E a \in Actions : RunAction(r, a)
           \/ PublishDLQ(r) \/ Restart(r)
    PROVE  RecordInv'
<1> USE DEF RecordInv
<1>1. ServiceInv' /\ rows' = rows /\ req' = req
  BY StepInv DEF tsVars
<1> DEFINE Inside(next) ==
      /\ Goto(r, next) /\ pc[r] \notin Calling
      /\ UNCHANGED <<taskOf, listed, finished>>
      /\ \A s \in Replicas \ {r} : ev'[s] = ev[s] /\ task'[s] = task[s] /\ result'[s] = result[s]
      /\ result' \in [Replicas -> Outcomes \cup {Absent}]
      /\ next \in {"update", "actions", "record"} => result'[r] \in Outcomes
      /\ dlq \subseteq dlq' /\ dlq' \subseteq Events
      /\ next = "fail" => ("nats" \notin Faults => ev'[r] \in dlq')
<1>2. ASSUME NEW next, next \notin Creating, Inside(next) PROVE RecordInv'
  <2>1. \A h \in Handlers : ~Waits(r, h)' /\ req'[h] = req[h]
    BY Zenon, <1>1, <1>2 DEF Asked, Waits
  <2> QED  BY <1>1, <1>2, <2>1, MoveRecord
<1> USE DEF RecordTypes, Creating, Calling, At
<1>3. CASE \E e \in Events : Fetch(r, e)
  <2>1. Inside("ack")
    BY Zenon, <1>3 DEF Fetch, agentVars, CountInv, ReplicaTypes
  <2> QED  BY Zenon, <1>2, <2>1
<1>4. CASE Staleness(r)
  <2>1. PICK next \in {"delete", "reason"} : Continue(r, next)
    BY <1>4 DEF Staleness
  <2>2. Inside(next)
    BY Zenon, <1>4, <2>1 DEF Staleness, Continue, agentVars
  <2> QED  BY Zenon, <1>2, <2>2
<1>5. CASE Reason(r)
  <2>1. PICK next \in {"tools", "respond", "reason", "dlq"} : Goto(r, next)
    BY <1>5 DEF Reason
  <2>2. Inside(next)
    BY Zenon, <1>5, <2>1 DEF Reason
  <2> QED  BY Zenon, <1>2, <2>2
<1>6. CASE CallTools(r)
  <2>1. PICK next \in {"reason", "dlq"} : Goto(r, next)
    BY <1>6 DEF CallTools
  <2>2. Inside(next)
    BY Zenon, <1>6, <2>1 DEF CallTools
  <2> QED  BY Zenon, <1>2, <2>2
<1>7. CASE Respond(r)
  <2>1. Inside("update")
    BY Zenon, <1>7 DEF Respond, Outcomes
  <2> QED  BY Zenon, <1>2, <2>1
<1>8. CASE \E a \in Actions : RunAction(r, a)
  <2>1. PICK next \in {"record", "actions"} : Goto(r, next)
    BY <1>8 DEF RunAction
  <2>2. Inside(next)
    BY <1>8, <2>1 DEF RunAction, agentVars
  <2> QED  BY Zenon, <1>2, <2>2
<1>9. CASE PublishDLQ(r)
  <2>1. ev[r] \in Events
    BY Zenon, <1>9 DEF PublishDLQ, CountInv, Held, Busy, Late
  <2>2. Inside("fail")
    BY Zenon, <1>9, <2>1 DEF PublishDLQ, agentVars
  <2> QED  BY Zenon, <1>2, <2>2
<1>10. CASE Restart(r)
  <2>1. Inside("fetch")
    BY Zenon, <1>10 DEF Restart, agentVars
  <2> QED  BY Zenon, <1>2, <2>1
<1> QED  BY Zenon, <1>3, <1>4, <1>5, <1>6, <1>7, <1>8, <1>9, <1>10

(* The dashboard: what it lists exists, so it marks no task that is about  *)
(* to be created (UpdateTaskStatus, BulkUpdateStatus).                     *)
LEMMA DashboardRecord ==
    ASSUME RecordInv, CountInv', ListTasks \/ MarkTimeout \/ DashboardAnswer
    PROVE  RecordInv'
<1> USE DEF RecordInv
<1>0. Dashboard \in Clients /\ Dashboard \notin Replicas /\ Dashboard # Nobody
  BY RuntimeAssumption, TaskServiceAssumption
<1>1. CASE ListTasks
  <2>1. /\ UNCHANGED <<rows, req, chan, feed, pc, ev, task, result, taskOf, dlq, finished>>
        /\ listed' = {id \in TaskIds : rows[id].status = "Processing"}
    BY <1>1 DEF ListTasks, tsVars, agentVars
  <2>2. ServiceInv'
    BY <2>1, StepInv DEF tsVars
  <2>3. RecordTypes' /\ ReturnedIsClosed'
    BY Zenon, <2>1 DEF RecordTypes, ReturnedIsClosed
  <2>4. Known'
    BY <2>1 DEF Known, Drawn, Absent
  <2>5. Deletes' /\ DeadLetters'
    BY Zenon, <2>1 DEF Deletes, DeadLetters, At
  <2>6. Unborn'
    BY <2>1 DEF Unborn, Waits, Created
  <2>7. \A s \in Replicas, h \in Handlers : Waits(s, h)' <=> Waits(s, h)
    BY <2>1 DEF Waits
  <2>8. \A s \in Replicas : OpOf(pc[s])' = OpOf(pc[s])
    BY <2>1 DEF OpOf
  <2>9. Asked'
    BY <2>1, <2>7, <2>8 DEF Asked
  <2> QED  BY <2>2, <2>3, <2>4, <2>5, <2>6, <2>9
<1>2. CASE MarkTimeout
  <2>1. PICK h \in Handlers, op \in {"update", "bulk"}, ids \in SUBSET listed :
          /\ Receive(h, Request(op, ids, "Timeout", FALSE, Dashboard))
          /\ op = "update" => \E id \in listed : ids = {id}
    BY Zenon, <1>2 DEF MarkTimeout
  <2>2. /\ UNCHANGED <<rows, chan, feed, pc, ev, task, result, taskOf, dlq, finished>>
        /\ listed' = {} /\ \A g \in Handlers : ~Waits(Dashboard, g)
    BY <1>2 DEF MarkTimeout, agentVars
  <2>3. ids \in SUBSET TaskIds /\ ids \in SUBSET Drawn /\ \A id \in ids : rows[id].status # Absent
    BY DEF RecordTypes, Known
  <2>4. "Timeout" \in Statuses /\ "Timeout" \in Terminal /\ "Timeout" \in TaskStatus
    BY DEF Statuses, TaskStatus, Terminal
  <2>5. ServiceInv'
    <3>1. op \in {"create", "update", "delete", "bulk"} /\ op # "create"
      BY <2>1
    <3>2. op # "bulk" => \E id \in TaskIds : ids = {id}
      BY <2>1, <2>3
    <3> QED  BY Zenon, <1>0, <2>1, <2>2, <2>3, <2>4, <3>1, <3>2, ReceiveInv
  <2>6. ASSUME NEW s \in Replicas, pc[s] \in Creating, \A g \in Handlers : ~Waits(s, g)
        PROVE  task[s] \notin ids
    BY <2>3, <2>6 DEF Unborn, Created
  <2>7. op \in {"create", "update", "delete", "bulk"} /\ listed' \subseteq listed
    BY <2>1, <2>2
  <2> QED  BY Zenon, <1>0, <2>1, <2>2, <2>3, <2>5, <2>6, <2>7, SendRecord
<1>3. CASE DashboardAnswer
  <2>1. PICK h \in Handlers : Waits(Dashboard, h) /\ Take(h)
    BY <1>3 DEF DashboardAnswer
  <2>2. UNCHANGED <<rows, chan, feed, pc, ev, task, result, taskOf, dlq, finished, listed>>
    BY <1>3, <2>1 DEF DashboardAnswer, Take, rtVars, agentVars
  <2>3. Keeps /\ ServiceInv'
    BY <2>1, StepInv, StepKeeps DEF TaskServiceNext
  <2>4. req'[h] = Idle /\ \A g \in Handlers \ {h} : req'[g] = req[g]
    BY <2>1 DEF Take, ServiceInv, Types
  <2>5. \A s \in Replicas, g \in Handlers : Waits(s, g)' <=> Waits(s, g)
    <3>1. \A s \in Replicas : s # Nobody /\ s # Dashboard
      BY RuntimeAssumption, TaskServiceAssumption
    <3>2. req'[h].client = Nobody /\ req[h].client = Dashboard
      BY <2>1, <2>4 DEF Waits, Idle
    <3>3. \A g \in Handlers \ {h} : req'[g].client = req[g].client
      BY <2>4
    <3> QED  BY <3>1, <3>2, <3>3 DEF Waits
  <2>6. RecordTypes' /\ ReturnedIsClosed'
    BY <2>2 DEF RecordTypes, ReturnedIsClosed
  <2>7. Known'
    <3>1. Drawn' = Drawn
      BY <2>2 DEF Drawn
    <3>2. req'[h].ids = {}
      BY <2>4 DEF Idle
    <3>3. \A g \in Handlers : req'[g].ids \subseteq Drawn
      BY <2>4, <3>2 DEF Known
    <3> QED  BY <2>2, <3>1, <3>3 DEF Known
  <2>8. Unborn'
    <3> SUFFICES ASSUME NEW s \in Replicas, pc'[s] \in Creating, \A g \in Handlers : ~Waits(s, g)'
                 PROVE  ~Created(task[s])'
      BY Zenon DEF Unborn
    <3>1. ~Created(task[s])
      BY Zenon, <2>2, <2>5 DEF Unborn
    <3>2. req'[h].op = "none"
      BY <2>4 DEF Idle
    <3> QED  BY Zenon, <2>2, <2>4, <3>1, <3>2 DEF Created
  <2>9. Asked'
    <3> SUFFICES ASSUME NEW s \in Replicas, NEW g \in Handlers, Waits(s, g)'
                 PROVE  (/\ pc[s] \in Calling
                         /\ req[g].op = OpOf(pc[s]) /\ req[g].ids = {task[s]}
                         /\ \A k \in Handlers : Waits(s, k) => k = g)'
      BY DEF Asked
    <3>1. /\ pc[s] \in Calling
          /\ req[g].op = OpOf(pc[s]) /\ req[g].ids = {task[s]}
          /\ \A k \in Handlers : Waits(s, k) => k = g
      BY <2>5 DEF Asked
    <3>2. g # h
      BY <1>0, <2>1, <2>5 DEF Waits
    <3>3. req'[g] = req[g] /\ OpOf(pc[s])' = OpOf(pc[s])
      BY <2>2, <2>4, <3>2 DEF OpOf
    <3> QED  BY Zenon, <2>2, <2>5, <3>1, <3>3
  <2>10. Deletes'
    <3>1. req'[h].op = "none"
      BY <2>4 DEF Idle
    <3>2. \A g \in Handlers : req'[g].op = "delete" => req'[g] = req[g]
      BY <2>4, <3>1
    <3> QED  BY Zenon, <2>2, <3>2 DEF Deletes
  <2>11. DeadLetters'
    BY <2>2, <2>4 DEF DeadLetters, Idle, At
  <2> QED  BY <2>3, <2>6, <2>7, <2>8, <2>9, <2>10, <2>11
<1> QED  BY <1>1, <1>2, <1>3

(* No step writes a row it may not (RecordInv supplies what the service    *)
(* needs of its callers), and every step keeps the record.                 *)
LEMMA RecordStep == RecordInv /\ [Next]_vars => RecordInv' /\ Keeps
<1> SUFFICES ASSUME RecordInv, [Next]_vars PROVE RecordInv' /\ Keeps
  OBVIOUS
<1>0. CountInv' /\ ServiceInv
  BY CountStep DEF RecordInv
<1>1. ASSUME rows' = rows PROVE Keeps
  BY <1>1 DEF Keeps
<1>2. ASSUME NEW r \in Replicas, Consumer(r) PROVE RecordInv' /\ Keeps
  <2>1. CASE Ack(r)
    BY Zenon, <1>0, <1>1, <2>1, AckRecord DEF Ack, tsVars
  <2>2. CASE Call(r)
    BY <1>0, <1>1, <2>2, CallRecord DEF Call
  <2>3. CASE Response(r)
    BY <1>0, <1>1, <2>3, ResponseRecord DEF Response, Continue
  <2>4. CASE \/ \E e \in Events : Fetch(r, e)
             \/ Staleness(r) \/ Reason(r) \/ CallTools(r) \/ Respond(r)
             \/ \E a \in Actions : RunAction(r, a)
             \/ PublishDLQ(r) \/ Restart(r)
    <3>1. UNCHANGED tsVars
      BY Zenon, <2>4 DEF Fetch, Staleness, Continue, Reason, CallTools, Respond, RunAction, PublishDLQ,
                  Restart, tsVars
    <3>2. RecordInv'
      BY <1>0, <2>4, <3>1, InsideRecord
    <3> QED  BY <1>1, <3>1, <3>2 DEF tsVars
  <2> QED  BY <1>2, <2>1, <2>2, <2>3, <2>4 DEF Consumer
<1>3. ASSUME NEW r \in Replicas, Crash(r) PROVE RecordInv' /\ Keeps
  BY <1>0, <1>1, <1>3, CrashRecord DEF Crash
<1>4. ASSUME NEW h \in Handlers, Server(h) PROVE RecordInv' /\ Keeps
  BY <1>0, <1>4, ServerRecord, StepKeeps DEF Server, TaskServiceNext
<1>5. CASE ListTasks \/ MarkTimeout \/ DashboardAnswer
  BY Zenon, <1>0, <1>1, <1>5, DashboardRecord DEF ListTasks, MarkTimeout, DashboardAnswer, Take, tsVars
<1>6. CASE (\E e \in Events : Redeliver(e)) \/ UNCHANGED vars
  <2>1. UNCHANGED <<rows, req, chan, feed, pc, ev, task, result, taskOf, dlq, finished, listed>>
    BY <1>6 DEF Redeliver, vars, rtVars, tsVars, agentVars
  <2>2. ServiceInv'
    BY <1>0, <2>1, StepInv DEF tsVars
  <2>3. RecordTypes' /\ ReturnedIsClosed' /\ Known'
    BY Zenon, <2>1 DEF RecordInv, RecordTypes, ReturnedIsClosed, Known, Drawn
  <2>4. (\A r, h : Waits(r, h)' = Waits(r, h)) /\ (\A t : Created(t)' = Created(t))
    BY <2>1 DEF Waits, Created
  <2>5. Unborn'
    BY <2>1, <2>4 DEF RecordInv, Unborn
  <2>6. Asked'
    BY <2>1, <2>4 DEF RecordInv, Asked, OpOf
  <2>7. Deletes' /\ DeadLetters'
    BY <2>1 DEF RecordInv, Deletes, DeadLetters, At
  <2> QED  BY <1>0, <1>1, <2>1, <2>2, <2>3, <2>5, <2>6, <2>7 DEF RecordInv
<1> QED  BY <1>2, <1>3, <1>4, <1>5, <1>6 DEF Next

(* What the record of an event says is what happened to it: the task of an *)
(* event that was worked off is closed, and one marked Failed has its      *)
(* event on the dead letter subject (consumer.py:129-264), however         *)
(* requests that outlive their caller interleave with the operator's.      *)
THEOREM RuntimeRecordTrue == Spec => []RecordTrue
<1>1. RecordInv => RecordTrue
  BY DEF RecordInv, RecordTrue, DeadLetters, FailedIsDeadLettered
<1> QED  BY <1>1, RecordInitial, RecordStep, PTL DEF Spec

(* The runtime and the dashboard are callers under which task-service      *)
(* keeps its promises: an update that answers 200 has written its status,  *)
(* and no terminal row is changed (update_status.go:45-58, migration       *)
(* 000004).                                                                *)
THEOREM RuntimeKeepsService == Spec => []OkMeansWritten /\ TerminalImmutable
<1>1. RecordInv => OkMeansWritten
  BY DEF RecordInv, ServiceInv
<1>2. RecordInv /\ [Next]_vars =>
        [\A id \in TaskIds : rows[id].status \in Terminal => rows'[id] \in {rows[id], Gone}]_tsVars
  BY RecordStep DEF Keeps
<1>3. Spec => []OkMeansWritten
  BY <1>1, RecordInitial, RecordStep, PTL DEF Spec
<1>4. Spec => TerminalImmutable
  BY <1>2, RecordInitial, RecordStep, PTL DEF Spec, TerminalImmutable
<1> QED  BY <1>3, <1>4, PTL
=============================================================================
