---------------------------- MODULE RuntimeProofs ----------------------------
(***************************************************************************)
(* The promises of task-service and of the handler runtime that calls it.  *)
(*                                                                         *)
(* The first part is task-service alone, for any number of request         *)
(* goroutines, tasks and subscribers: a terminal task never changes, an    *)
(* update that answers 200 has written what it was asked, and the live     *)
(* feed shows no terminal status the table does not hold.  One fact        *)
(* carries all three.  Keeps says what a step may do to a row: a terminal  *)
(* one stays or is deleted, a deleted one stays deleted and an inserted    *)
(* one is never absent again.  Whatever was true of a terminal row when a  *)
(* request wrote or read it is then true for good, so it is still true     *)
(* when the message of the request is published and shown.                 *)
(*                                                                         *)
(* The second part counts what the runtime does with an event, for any     *)
(* number of replicas, messages, tasks and actions, any number of crashes  *)
(* and any loss of acknowledgements.  JetStream's copy of a message is     *)
(* either queued, with one pod about to acknowledge it, or acknowledged;   *)
(* so each task drawn for an event is paid for by a lost acknowledgement,  *)
(* except one.  Actions are counted against tasks: Spent is the set of     *)
(* tasks that no replica will run the action for any more.                 *)
(***************************************************************************)
EXTENDS Runtime, FiniteSetTheorems, TLAPS

Statuses == TaskStatus \cup Missing

Requests ==
    [op : {"none", "create", "update", "delete", "bulk"}, ids : SUBSET TaskIds,
     status : Statuses, actions : BOOLEAN, read : Statuses,
     step : {"idle", "find", "write", "reread", "publish", "ok", "err"},
     client : Clients \cup {Nobody}]

Types ==
    /\ rows \in [TaskIds -> Row]
    /\ req \in [Handlers -> Requests]
    /\ chan \in [Subscribers -> Seq(TaskIds \X Statuses)]
    /\ feed \in [Subscribers -> [TaskIds -> Statuses]]

(* What NewRouter's dispatch gives each kind of request.                   *)
Shape ==
    \A h \in Handlers :
        /\ req[h].op \in {"create", "update", "delete"} => req[h].ids = {IdOf(h)}
        /\ req[h].op = "update" => req[h].status \in Terminal
        /\ req[h].op = "bulk" => req[h].status \in TaskStatus /\ req[h].read = req[h].status
        /\ req[h].op = "none" => req[h].step = "idle"

(* A create about to write is the only one for its id, which has no row.   *)
Creates(h, id) == On(h, "create", "write") /\ id \in req[h].ids

Fresh ==
    \A h \in Handlers, id \in TaskIds :
        Creates(h, id) =>
            /\ rows[id].status = Absent
            /\ \A g \in Handlers : Creates(g, id) => g = h

(* What someone has said of a terminal row, and what is true of it.        *)
True(id, status) == status \in Terminal => rows[id].status \in {status, Deleted}

Reported ==
    \A h \in Handlers : \A id \in req[h].ids :
        req[h].step = "publish" => True(id, req[h].read)

Sent == \A s \in Subscribers : \A i \in 1..Len(chan[s]) : True(chan[s][i][1], chan[s][i][2])

Shown == \A s \in Subscribers, id \in TaskIds : True(id, feed[s][id])

ServiceInv ==
    Types /\ Shape /\ Fresh /\ OkMeansWritten /\ Reported /\ Sent /\ Shown

(* What a step may do to a row.                                            *)
Keeps ==
    \A id \in TaskIds :
        /\ rows[id].status \in Terminal => rows'[id] \in {rows[id], Gone}
        /\ rows[id].status = Deleted => rows'[id].status = Deleted
        /\ rows[id].status # Absent => rows'[id].status # Absent

-----------------------------------------------------------------------------
(* A step that keeps rows keeps what was said of them (update_status.go).  *)
LEMMA TrueStays ==
    ASSUME Types, Keeps, NEW id \in TaskIds, NEW status, True(id, status)
    PROVE  True(id, status)'
BY DEF Types, Keeps, True, Row, Gone, Terminal, Deleted

(* An empty table and no request: the invariant holds (main.go).           *)
LEMMA TaskServiceInitial == TaskServiceInit => ServiceInv
<1> SUFFICES ASSUME TaskServiceInit PROVE ServiceInv OBVIOUS
<1> USE DEF TaskServiceInit, Statuses, TaskStatus, Missing, Terminal, Absent, Deleted, Nobody
<1>1. Types
  BY DEF Types, Row, NoRow, Idle, Requests
<1>2. Shape /\ Fresh /\ OkMeansWritten /\ Reported
  BY DEF Shape, Fresh, OkMeansWritten, Reported, Idle, Creates, On
<1>3. Sent /\ Shown
  BY DEF Sent, Shown, True
<1> QED BY <1>1, <1>2, <1>3 DEF ServiceInv

(* No statement of the service breaks a row (create_task.go,               *)
(* update_status.go, bulk_update_status.go, delete_task.go, migration      *)
(* 000004): an insert finds none, an update none that is terminal.         *)
LEMMA StepKeeps == ServiceInv /\ [TaskServiceNext]_tsVars => Keeps
<1> SUFFICES ASSUME ServiceInv, [TaskServiceNext]_tsVars PROVE Keeps OBVIOUS
<1>0. Types /\ Shape /\ Fresh BY DEF ServiceInv
<1> USE DEF Missing, Terminal, Absent, Deleted
<1>1. ASSUME rows' = rows PROVE Keeps
  BY <1>1 DEF Keeps
<1>2. ASSUME NEW h \in Handlers, CreateTask(h) PROVE Keeps
  <2>1. IdOf(h) \in TaskIds /\ Creates(h, IdOf(h))
    BY <1>0, <1>2 DEF CreateTask, On, Shape, Types, Requests, Creates
  <2>2. rows[IdOf(h)].status = Absent
    BY <1>0, <2>1 DEF Fresh
  <2> QED BY <1>0, <1>2, <2>1, <2>2 DEF CreateTask, Keeps, Types, Row
<1>3. ASSUME NEW h \in Handlers, UpdateStatus(h) PROVE Keeps
  <2>1. IdOf(h) \in TaskIds /\ req[h].status \in Terminal
    BY <1>0, <1>3 DEF UpdateStatus, On, Shape, Types, Requests
  <2> QED BY <1>0, <1>3, <2>1 DEF UpdateStatus, Keeps, Types, Row
<1>4. ASSUME NEW h \in Handlers, DeleteTask(h) PROVE Keeps
  <2>1. IdOf(h) \in TaskIds
    BY <1>0, <1>4 DEF DeleteTask, On, Shape, Types, Requests
  <2> QED BY <1>0, <1>4, <2>1 DEF DeleteTask, Keeps, Types, Row, Gone
<1>5. ASSUME NEW h \in Handlers, BulkUpdateStatus(h) PROVE Keeps
  <2>1. req[h].status \in TaskStatus
    BY <1>0, <1>5 DEF BulkUpdateStatus, On, Shape
  <2>2. ASSUME NEW id \in TaskIds
        PROVE  \/ rows'[id] = rows[id]
               \/ /\ rows[id].status \notin Terminal \cup Missing
                  /\ rows'[id] = [rows[id] EXCEPT !.status = req[h].status]
    BY <1>5 DEF BulkUpdateStatus
  <2>3. ASSUME NEW id \in TaskIds PROVE rows[id] \in Row
    BY <1>0 DEF Types
  <2> QED BY <2>1, <2>2, <2>3, Zenon DEF Keeps, Row, TaskStatus
<1>6. ASSUME NEW h \in Handlers, ServerStep(h) PROVE Keeps
  BY <1>1, <1>2, <1>3, <1>4, <1>5, <1>6
     DEF ServerStep, FindByID, Reread, StatementFails, Cancelled, Publish
<1>7. CASE UNCHANGED tsVars
  BY <1>1, <1>7 DEF tsVars
<1> QED BY <1>1, <1>6, <1>7, Zenon DEF TaskServiceNext, Arrive, Take, GiveUp, ServeHTTP

(* What must be true of the request h is left with by a step: its shape,   *)
(* that an insert it is about to make is fresh, and what it says of rows.  *)
WellFormed(r) ==
    /\ r \in Requests
    /\ r.op \in {"create", "update", "delete"} => \E id \in TaskIds : r.ids = {id}
    /\ r.op = "update" => r.status \in Terminal
    /\ r.op = "bulk" => r.status \in TaskStatus /\ r.read = r.status
    /\ r.op = "none" => r.step = "idle"

Inserts(h, r) ==
    r.op = "create" /\ r.step = "write" =>
        \A id \in r.ids :
            rows'[id].status = Absent /\ \A g \in Handlers \ {h} : ~Creates(g, id)

Claims(r) ==
    \A id \in r.ids :
        /\ r.op = "update" /\ r.step \in {"reread", "publish", "ok"} =>
             rows'[id].status \in {r.status, Deleted}
        /\ r.step = "publish" /\ r.read \in Terminal =>
             rows'[id].status \in {r.read, Deleted}

(* The other requests do not notice: the step of one goroutine leaves what *)
(* the others rely on (server.go serves every request on its own).         *)
LEMMA OneRequest ==
    ASSUME ServiceInv, Keeps, NEW h \in Handlers, NEW r,
           req' = [req EXCEPT ![h] = r], rows' \in [TaskIds -> Row],
           WellFormed(r), Inserts(h, r), Claims(r),
           \A g \in Handlers \ {h}, id \in TaskIds : Creates(g, id) => rows'[id].status = Absent
    PROVE  /\ req' \in [Handlers -> Requests]
           /\ Shape' /\ Fresh' /\ OkMeansWritten' /\ Reported'
<1>0. Types /\ Shape /\ Fresh /\ OkMeansWritten /\ Reported BY DEF ServiceInv
<1>1. req' \in [Handlers -> Requests]
  BY <1>0 DEF Types, WellFormed
<1>2. /\ req'[h] = r
      /\ \A g \in Handlers \ {h} : req'[g] = req[g]
  BY <1>0 DEF Types
<1>3. Shape'
  <2> SUFFICES ASSUME NEW g \in Handlers
               PROVE  /\ req'[g].op \in {"create", "update", "delete"} => req'[g].ids = {IdOf(g)'}
                      /\ req'[g].op = "update" => req'[g].status \in Terminal
                      /\ req'[g].op = "bulk" => /\ req'[g].status \in TaskStatus
                                                /\ req'[g].read = req'[g].status
                      /\ req'[g].op = "none" => req'[g].step = "idle"
    BY DEF Shape
  <2>1. CASE g = h
    <3>1. ASSUME NEW id, r.ids = {id} PROVE r.ids = {CHOOSE i \in r.ids : TRUE}
      BY <3>1
    <3> QED BY <1>2, <2>1, <3>1 DEF WellFormed, IdOf
  <2>2. CASE g # h
    BY <1>0, <1>2, <2>2 DEF Shape, IdOf
  <2> QED BY <2>1, <2>2
<1>4. Fresh'
  <2> SUFFICES ASSUME NEW g \in Handlers, NEW id \in TaskIds, Creates(g, id)'
               PROVE  rows'[id].status = Absent /\ \A k \in Handlers : Creates(k, id)' => k = g
    BY DEF Fresh
  <2>1. ASSUME NEW k \in Handlers, k # h PROVE Creates(k, id)' <=> Creates(k, id)
    BY <1>2, <2>1 DEF Creates, On
  <2>2. Creates(h, id)' => /\ rows'[id].status = Absent
                           /\ \A k \in Handlers \ {h} : ~Creates(k, id)
    BY <1>2 DEF Creates, On, Inserts
  <2>3. CASE g = h
    BY <2>1, <2>2, <2>3
  <2>4. CASE g # h
    BY <1>0, <2>1, <2>2, <2>4 DEF Fresh
  <2> QED BY <2>3, <2>4
<1>5. ASSUME NEW id \in TaskIds, NEW status, rows[id].status \in {status, Deleted}, status \in Terminal
      PROVE  rows'[id].status \in {status, Deleted}
  BY <1>0, <1>5, TrueStays DEF True, Types
<1>6. OkMeansWritten'
  <2> SUFFICES ASSUME NEW g \in Handlers, req'[g].op = "update",
                      req'[g].step \in {"reread", "publish", "ok"}, NEW id \in req'[g].ids
               PROVE  rows'[id].status \in {req'[g].status, Deleted}
    BY DEF OkMeansWritten, Deleted
  <2>1. CASE g = h
    BY <1>2, <2>1 DEF Claims
  <2>2. CASE g # h
    <3>1. id \in TaskIds /\ req[g].status \in Terminal /\ rows[id].status \in {req[g].status, Deleted}
      BY <1>0, <1>2, <2>2 DEF OkMeansWritten, Shape, Types, Requests
    <3> QED BY <1>2, <1>5, <2>2, <3>1
  <2> QED BY <2>1, <2>2
<1>7. Reported'
  <2> SUFFICES ASSUME NEW g \in Handlers, NEW id \in req'[g].ids, req'[g].step = "publish",
                      req'[g].read \in Terminal
               PROVE  rows'[id].status \in {req'[g].read, Deleted}
    BY DEF Reported, True, Terminal, Deleted
  <2>1. CASE g = h
    BY <1>2, <2>1 DEF Claims
  <2>2. CASE g # h
    <3>1. id \in TaskIds /\ rows[id].status \in {req[g].read, Deleted}
      BY <1>0, <1>2, <2>2 DEF Reported, True, Types, Requests
    <3> QED BY <1>2, <1>5, <2>2, <3>1
  <2> QED BY <2>1, <2>2
<1> QED BY <1>1, <1>3, <1>4, <1>6, <1>7

(* A step that leaves channels and pages alone leaves what they say true.  *)
LEMMA Quiet ==
    ASSUME ServiceInv, Keeps, UNCHANGED <<chan, feed>>
    PROVE  Sent' /\ Shown'
<1>0. Types /\ Sent /\ Shown BY DEF ServiceInv
<1>1. Sent'
  <2> SUFFICES ASSUME NEW s \in Subscribers, NEW i \in 1..Len(chan[s])
               PROVE  True(chan[s][i][1], chan[s][i][2])'
    BY DEF Sent
  <2>1. chan[s][i] \in TaskIds \X Statuses
    BY <1>0 DEF Types
  <2>2. chan[s][i][1] \in TaskIds /\ True(chan[s][i][1], chan[s][i][2])
    BY <1>0, <2>1 DEF Sent
  <2>3. True(chan[s][i][1], chan[s][i][2]) => rows'[chan[s][i][1]].status \in {chan[s][i][2], Deleted}
                                              \/ chan[s][i][2] \notin Terminal
    BY <1>0, <2>2 DEF True, Keeps, Types, Row, Gone, Terminal, Deleted
  <2> QED BY <2>2, <2>3 DEF True
<1>2. Shown'
  <2> SUFFICES ASSUME NEW s \in Subscribers, NEW id \in TaskIds PROVE True(id, feed[s][id])'
    BY DEF Shown
  <2> QED BY <1>0 DEF Shown, True, Keeps, Types, Row, Gone, Terminal, Deleted
<1> QED BY <1>1, <1>2

(* Answering ends a request or hands its result over (writeJSON,           *)
(* writeError): "ok" is only said of what was written.                     *)
LEMMA AnswerInv ==
    ASSUME ServiceInv, Keeps, NEW h \in Handlers, NEW outcome \in {"ok", "err"},
           Answer(h, outcome), req[h].op # "none", rows' \in [TaskIds -> Row], UNCHANGED feed,
           chan' \in [Subscribers -> Seq(TaskIds \X Statuses)], Sent', Shown',
           \A g \in Handlers \ {h}, id \in TaskIds : Creates(g, id) => rows'[id].status = Absent,
           req[h].op = "update" /\ outcome = "ok" => req[h].step = "publish"
    PROVE  ServiceInv'
<1>0. Types /\ Shape /\ OkMeansWritten BY DEF ServiceInv
<1> DEFINE r == IF req[h].client \in Clients THEN [req[h] EXCEPT !.step = outcome] ELSE Idle
<1>1. req' = [req EXCEPT ![h] = r]
  BY <1>0 DEF Answer, Types
<1>2. req[h] \in Requests
  BY <1>0 DEF Types
<1>3. WellFormed(r)
  <2>1. CASE req[h].client \in Clients
    <3>1. r = [req[h] EXCEPT !.step = outcome]
      BY <2>1
    <3>2. req[h].op \in {"create", "update", "delete"} => \E id \in TaskIds : req[h].ids = {id}
      BY <1>0, <1>2, Zenon DEF Shape, Requests
    <3> HIDE DEF r
    <3>3. /\ r \in Requests /\ r.op = req[h].op /\ r.ids = req[h].ids
          /\ r.status = req[h].status /\ r.read = req[h].read
      BY <1>2, <3>1, Zenon DEF Requests
    <3> QED BY <1>0, <3>2, <3>3 DEF WellFormed, Shape
  <2>2. CASE req[h].client \notin Clients
    BY <2>2 DEF WellFormed, Idle, Requests, Statuses, Missing, Absent, Nobody
  <2> QED BY <2>1, <2>2
<1>4. /\ r.step \in {"ok", "err", "idle"}
      /\ r.step = "ok" => outcome = "ok" /\ r.op = req[h].op /\ r.ids = req[h].ids /\ r.status = req[h].status
  BY <1>2 DEF Requests, Idle
<1>5. Inserts(h, r)
  BY <1>4 DEF Inserts
<1>6. Claims(r)
  <2> SUFFICES ASSUME NEW id \in r.ids, r.op = "update", r.step = "ok"
               PROVE  rows'[id].status \in {r.status, Deleted}
    BY <1>4 DEF Claims
  <2> HIDE DEF r
  <2>1. /\ id \in TaskIds /\ req[h].status \in Terminal
        /\ rows[id].status \in {req[h].status, Deleted}
    BY <1>0, <1>2, <1>4 DEF OkMeansWritten, Shape, Requests
  <2> QED BY <1>0, <1>4, <2>1, TrueStays DEF True
<1> HIDE DEF r
<1>7. req' \in [Handlers -> Requests] /\ Shape' /\ Fresh' /\ OkMeansWritten' /\ Reported'
  BY <1>1, <1>3, <1>5, <1>6, OneRequest, Zenon
<1> QED BY <1>0, <1>7 DEF ServiceInv, Types

(* A request that goes on, with channels and pages unchanged.              *)
LEMMA ProceedInv ==
    ASSUME ServiceInv, Keeps, NEW h \in Handlers, NEW r,
           req' = [req EXCEPT ![h] = r], rows' \in [TaskIds -> Row], UNCHANGED <<chan, feed>>,
           WellFormed(r), Inserts(h, r), Claims(r),
           \A g \in Handlers \ {h}, id \in TaskIds : Creates(g, id) => rows'[id].status = Absent
    PROVE  ServiceInv'
<1>1. req' \in [Handlers -> Requests] /\ Shape' /\ Fresh' /\ OkMeansWritten' /\ Reported'
  BY OneRequest, Zenon
<1>2. Sent' /\ Shown'
  BY Quiet
<1> QED BY <1>1, <1>2 DEF ServiceInv, Types

(* An update that fails its check, meets a terminal row or loses its row   *)
(* is refused; nothing is written (update_status.go:38-57).                *)
LEMMA RefusalInv ==
    ASSUME ServiceInv, Keeps, NEW h \in Handlers, Answer(h, "err"), req[h].op # "none",
           UNCHANGED <<rows, chan, feed>>
    PROVE  ServiceInv'
<1>1. Types /\ Fresh BY DEF ServiceInv
<1>2. Sent' /\ Shown' BY Quiet
<1>3. \A g \in Handlers \ {h}, id \in TaskIds : Creates(g, id) => rows'[id].status = Absent
  BY <1>1 DEF Fresh
<1> QED BY <1>1, <1>2, <1>3, AnswerInv DEF Types

(* A request arrives; a create brings an id nobody else uses (server.go).  *)
LEMMA ReceiveInv ==
    ASSUME ServiceInv, NEW h \in Handlers, NEW c \in Clients,
           NEW op \in {"create", "update", "delete", "bulk"}, NEW ids \in SUBSET TaskIds,
           NEW st \in Statuses, NEW done \in BOOLEAN,
           Receive(h, Request(op, ids, st, done, c)), UNCHANGED <<rows, chan, feed>>,
           op # "bulk" => \E id \in TaskIds : ids = {id},
           op = "create" => \A id \in ids : ~Created(id),
           op = "update" => st \in Terminal,
           op = "bulk" => st \in TaskStatus
    PROVE  ServiceInv'
<1>0. Types /\ Fresh BY DEF ServiceInv
<1> DEFINE r == Request(op, ids, st, done, c)
<1>1. Keeps BY DEF Keeps
<1>2. req' = [req EXCEPT ![h] = r]
  BY DEF Receive
<1>3. /\ r \in Requests /\ r.op = op /\ r.ids = ids /\ r.status = st /\ r.read = st
      /\ r.step \in {"find", "write"}
  BY DEF Request, Requests
<1> HIDE DEF r
<1>4. WellFormed(r)
  BY <1>3 DEF WellFormed
<1>5. Inserts(h, r)
  <2> SUFFICES ASSUME op = "create", NEW id \in ids
               PROVE  rows[id].status = Absent /\ \A g \in Handlers \ {h} : ~Creates(g, id)
    BY <1>3 DEF Inserts
  <2> QED BY DEF Created, Creates, On
<1>6. Claims(r)
  BY <1>3 DEF Claims
<1>7. \A g \in Handlers \ {h}, id \in TaskIds : Creates(g, id) => rows'[id].status = Absent
  BY <1>0 DEF Fresh
<1> QED BY <1>0, <1>1, <1>2, <1>4, <1>5, <1>6, <1>7, ProceedInv, Zenon DEF Types

(* The requests of the service on its own are such requests.               *)
LEMMA ArriveInv ==
    ASSUME ServiceInv, NEW h \in Handlers, Arrive(h)
    PROVE  ServiceInv'
<1> USE DEF Statuses, TaskStatus, Missing, Terminal, Absent, Deleted, Nobody
<1>1. PICK c \in Clients, op \in {"create", "update", "delete", "bulk"}, ids \in SUBSET TaskIds,
           st \in Statuses, done \in BOOLEAN :
         /\ Receive(h, Request(op, ids, st, done, c))
         /\ op # "bulk" => \E id \in TaskIds : ids = {id}
         /\ op = "create" => \A id \in ids : ~Created(id)
         /\ op = "update" => st \in Terminal
         /\ op = "bulk" => st \in TaskStatus
  BY Zenon DEF Arrive
<1>2. UNCHANGED <<rows, chan, feed>>
  BY DEF Arrive
<1> QED BY <1>1, <1>2, ReceiveInv, Zenon

(* The INSERT of a create (create_task.go).                                *)
LEMMA CreateTaskInv ==
    ASSUME ServiceInv, Keeps, NEW h \in Handlers, CreateTask(h)
    PROVE  ServiceInv'
<1>0. Types /\ Shape /\ Fresh BY DEF ServiceInv
<1> USE DEF Statuses, TaskStatus, Missing, Terminal, Absent, Deleted
<1> DEFINE r == [req[h] EXCEPT !.step = "publish", !.read = "Processing"]
<1>1. req[h] \in Requests /\ req[h].op = "create" /\ req[h].ids = {IdOf(h)} /\ IdOf(h) \in TaskIds
  BY <1>0 DEF CreateTask, On, Types, Shape, Requests
<1>2. req' = [req EXCEPT ![h] = r] /\ UNCHANGED <<chan, feed>>
  BY <1>0, Zenon DEF CreateTask, Types
<1>3. rows' \in [TaskIds -> Row]
  BY <1>0, <1>1 DEF CreateTask, Types, Row
<1>4. r \in Requests /\ r.op = "create" /\ r.ids = {IdOf(h)} /\ r.step = "publish" /\ r.read = "Processing"
  BY <1>1, Zenon DEF Requests
<1> HIDE DEF r
<1>5. WellFormed(r) /\ Inserts(h, r) /\ Claims(r)
  BY <1>1, <1>4 DEF WellFormed, Inserts, Claims
<1>6. \A g \in Handlers \ {h}, id \in TaskIds : Creates(g, id) => rows'[id].status = Absent
  <2>1. Creates(h, IdOf(h))
    BY <1>1 DEF Creates, CreateTask
  <2>2. ASSUME NEW g \in Handlers \ {h}, NEW id \in TaskIds, Creates(g, id)
        PROVE  id # IdOf(h) /\ rows[id].status = Absent
    BY <1>0, <1>1, <2>1, <2>2 DEF Fresh
  <2> QED BY <1>0, <2>2 DEF CreateTask, Types
<1> QED BY <1>2, <1>3, <1>5, <1>6, ProceedInv, Zenon

(* The read and the check of an update (update_status.go:38-48).           *)
LEMMA FindByIDInv ==
    ASSUME ServiceInv, Keeps, NEW h \in Handlers, FindByID(h)
    PROVE  ServiceInv'
<1>0. Types /\ Shape /\ Fresh BY DEF ServiceInv
<1>1. CASE Answer(h, "err")
  BY <1>1, RefusalInv DEF FindByID, On
<1>2. CASE Goes(h, "write")
  <2> DEFINE r == [req[h] EXCEPT !.step = "write"]
  <2>1. req[h] \in Requests /\ req[h].op = "update" /\ req[h].ids = {IdOf(h)} /\ IdOf(h) \in TaskIds
    BY <1>0 DEF FindByID, On, Types, Shape, Requests
  <2>2. req' = [req EXCEPT ![h] = r] /\ UNCHANGED <<rows, chan, feed>>
    BY <1>0, <1>2 DEF Goes, FindByID, Types
  <2>3. r \in Requests /\ r.op = "update" /\ r.ids = {IdOf(h)} /\ r.step = "write" /\ r.status = req[h].status
    BY <2>1 DEF Requests
  <2> HIDE DEF r
  <2>4. WellFormed(r) /\ Inserts(h, r) /\ Claims(r)
    BY <1>0, <2>1, <2>3 DEF WellFormed, Inserts, Claims, Shape
  <2>5. \A g \in Handlers \ {h}, id \in TaskIds : Creates(g, id) => rows'[id].status = Absent
    BY <1>0, <2>2 DEF Fresh
  <2> QED BY <1>0, <2>2, <2>4, <2>5, ProceedInv, Zenon DEF Types
<1> QED BY <1>1, <1>2 DEF FindByID

(* The UPDATE and its trigger (update_status.go:50-53, migration 000004).  *)
LEMMA UpdateStatusInv ==
    ASSUME ServiceInv, Keeps, NEW h \in Handlers, UpdateStatus(h)
    PROVE  ServiceInv'
<1>0. Types /\ Shape /\ Fresh BY DEF ServiceInv
<1> USE DEF Statuses, TaskStatus, Missing, Terminal, Absent, Deleted
<1>1. /\ req[h] \in Requests /\ req[h].op = "update" /\ req[h].ids = {IdOf(h)}
      /\ req[h].status \in Terminal /\ IdOf(h) \in TaskIds
  BY <1>0 DEF UpdateStatus, On, Types, Shape, Requests
<1>2. CASE Answer(h, "err") /\ UNCHANGED rows
  BY <1>1, <1>2, RefusalInv DEF UpdateStatus
<1>3. CASE /\ rows[IdOf(h)].status \notin Terminal \cup Missing
           /\ rows' = [rows EXCEPT ![IdOf(h)] =
                         [status |-> req[h].status, actions |-> rows[IdOf(h)].actions \/ req[h].actions]]
           /\ Goes(h, "reread")
  <2> DEFINE r == [req[h] EXCEPT !.step = "reread"]
  <2>1. req' = [req EXCEPT ![h] = r] /\ UNCHANGED <<chan, feed>>
    BY <1>0, <1>3 DEF Goes, UpdateStatus, Types
  <2>2. rows' \in [TaskIds -> Row] /\ rows'[IdOf(h)].status = req[h].status
    BY <1>0, <1>1, <1>3 DEF Types, Row
  <2>3. /\ r \in Requests /\ r.op = "update" /\ r.ids = {IdOf(h)} /\ r.step = "reread"
        /\ r.status = req[h].status
    BY <1>1 DEF Requests
  <2> HIDE DEF r
  <2>4. WellFormed(r) /\ Inserts(h, r) /\ Claims(r)
    BY <1>1, <2>2, <2>3 DEF WellFormed, Inserts, Claims
  <2>5. \A g \in Handlers \ {h}, id \in TaskIds : Creates(g, id) => rows'[id].status = Absent
    BY <1>0, <1>1, <1>3 DEF Fresh, Types
  <2> QED BY <2>1, <2>2, <2>4, <2>5, ProceedInv, Zenon
<1> QED BY <1>2, <1>3 DEF UpdateStatus

(* The row read back is still the one written (update_status.go:54-57).    *)
LEMMA RereadInv ==
    ASSUME ServiceInv, Keeps, NEW h \in Handlers, Reread(h)
    PROVE  ServiceInv'
<1>0. Types /\ Shape /\ Fresh /\ OkMeansWritten BY DEF ServiceInv
<1>1. /\ req[h] \in Requests /\ req[h].op = "update" /\ req[h].ids = {IdOf(h)}
      /\ req[h].step = "reread" /\ req[h].status \in Terminal /\ IdOf(h) \in TaskIds
  BY <1>0 DEF Reread, On, Types, Shape, Requests
<1>2. CASE Answer(h, "err")
  BY <1>1, <1>2, RefusalInv DEF Reread
<1>3. CASE req' = [req EXCEPT ![h].step = "publish", ![h].read = rows[IdOf(h)].status]
  <2> DEFINE r == [req[h] EXCEPT !.step = "publish", !.read = rows[IdOf(h)].status]
  <2>1. req' = [req EXCEPT ![h] = r] /\ UNCHANGED <<rows, chan, feed>>
    BY <1>0, <1>3, Zenon DEF Reread, Types
  <2>2. rows[IdOf(h)].status \in Statuses
    BY <1>0, <1>1 DEF Types, Row, Statuses
  <2>3. /\ r \in Requests /\ r.op = "update" /\ r.ids = {IdOf(h)} /\ r.step = "publish"
        /\ r.status = req[h].status /\ r.read = rows[IdOf(h)].status
    BY <1>1, <2>2, Zenon DEF Requests
  <2> HIDE DEF r
  <2>4. rows[IdOf(h)].status \in {req[h].status, Deleted}
    BY <1>0, <1>1 DEF OkMeansWritten
  <2>5. WellFormed(r) /\ Inserts(h, r) /\ Claims(r)
    BY <1>1, <2>1, <2>3, <2>4 DEF WellFormed, Inserts, Claims
  <2>6. \A g \in Handlers \ {h}, id \in TaskIds : Creates(g, id) => rows'[id].status = Absent
    BY <1>0, <2>1 DEF Fresh
  <2> QED BY <1>0, <2>1, <2>5, <2>6, ProceedInv, Zenon DEF Types
<1> QED BY <1>2, <1>3 DEF Reread

(* A DELETE, after which nothing said of the row can be wrong.             *)
LEMMA DeleteTaskInv ==
    ASSUME ServiceInv, Keeps, NEW h \in Handlers, DeleteTask(h)
    PROVE  ServiceInv'
<1>0. Types /\ Shape /\ Fresh BY DEF ServiceInv
<1> USE DEF Statuses, TaskStatus, Missing, Terminal, Absent, Deleted
<1>1. req[h].op = "delete" /\ IdOf(h) \in TaskIds
  BY <1>0 DEF DeleteTask, On, Types, Shape, Requests
<1>2. CASE Answer(h, "err") /\ UNCHANGED rows
  BY <1>1, <1>2, RefusalInv DEF DeleteTask
<1>3. CASE /\ rows[IdOf(h)].status \notin Missing
           /\ Answer(h, "ok") /\ rows' = [rows EXCEPT ![IdOf(h)] = Gone]
  <2>1. rows' \in [TaskIds -> Row]
    BY <1>0, <1>1, <1>3 DEF Types, Row, Gone
  <2>2. \A g \in Handlers \ {h}, id \in TaskIds : Creates(g, id) => rows'[id].status = Absent
    BY <1>0, <1>1, <1>3 DEF Fresh, Types
  <2>3. UNCHANGED <<chan, feed>>
    BY DEF DeleteTask
  <2>4. Sent' /\ Shown'
    BY <2>3, Quiet
  <2>5. chan' \in [Subscribers -> Seq(TaskIds \X Statuses)]
    BY <1>0, <2>3 DEF Types
  <2> QED BY <1>1, <1>3, <2>1, <2>2, <2>3, <2>4, <2>5, AnswerInv
<1> QED BY <1>2, <1>3 DEF DeleteTask

(* The bulk UPDATE, all rows or none (task_repository.go).                 *)
LEMMA BulkUpdateStatusInv ==
    ASSUME ServiceInv, Keeps, NEW h \in Handlers, BulkUpdateStatus(h)
    PROVE  ServiceInv'
<1>0. Types /\ Shape /\ Fresh BY DEF ServiceInv
<1> DEFINE hit == {id \in req[h].ids : rows[id].status \notin Missing}
           written == [id \in TaskIds |->
                         IF id \in hit THEN [rows[id] EXCEPT !.status = req[h].status] ELSE rows[id]]
           r == [req[h] EXCEPT !.ids = hit, !.step = "publish"]
<1>1. /\ req[h] \in Requests /\ req[h].op = "bulk"
      /\ req[h].status \in TaskStatus /\ req[h].read = req[h].status
      /\ hit \subseteq TaskIds /\ UNCHANGED <<chan, feed>>
  BY <1>0 DEF BulkUpdateStatus, On, Types, Shape, Requests
<1>2. CASE Answer(h, "err") /\ UNCHANGED rows
  BY <1>1, <1>2, RefusalInv
<1>3. ASSUME rows' = written
      PROVE  /\ rows' \in [TaskIds -> Row]
             /\ \A id \in hit : rows'[id].status = req[h].status
             /\ \A g \in Handlers \ {h}, id \in TaskIds : Creates(g, id) => rows'[id].status = Absent
  <2>1. ASSUME NEW id \in TaskIds PROVE written[id] \in Row /\ (id \in hit => written[id].status = req[h].status)
    BY <1>0, <1>1, <2>1 DEF Types, Row
  <2>2. rows' \in [TaskIds -> Row] /\ \A id \in hit : rows'[id].status = req[h].status
    BY <1>1, <1>3, <2>1
  <2>3. ASSUME NEW g \in Handlers \ {h}, NEW id \in TaskIds, Creates(g, id)
        PROVE  rows'[id].status = Absent
    BY <1>0, <1>3, <2>3 DEF Fresh, Missing
  <2> QED BY <2>2, <2>3
<1>4. CASE rows' = written /\ Answer(h, "ok")
  <2>1. Sent' /\ Shown'
    BY <1>1, Quiet
  <2>2. chan' \in [Subscribers -> Seq(TaskIds \X Statuses)]
    BY <1>0, <1>1 DEF Types
  <2> HIDE DEF hit, written
  <2> QED BY <1>1, <1>3, <1>4, <2>1, <2>2, AnswerInv
<1>5. CASE /\ rows' = written
           /\ req' = [req EXCEPT ![h].ids = hit, ![h].step = "publish"]
  <2>1. /\ r \in Requests /\ r.op = "bulk" /\ r.ids = hit /\ r.step = "publish"
        /\ r.status = req[h].status /\ r.read = req[h].read
    BY Zenon, <1>1 DEF Requests
  <2>2. req' = [req EXCEPT ![h] = r]
    BY <1>0, <1>5, Zenon DEF Types
  <2> HIDE DEF hit, written, r
  <2>3. WellFormed(r) /\ Inserts(h, r)
    BY <1>1, <2>1 DEF WellFormed, Inserts
  <2>4. Claims(r)
    BY <1>1, <1>3, <1>5, <2>1 DEF Claims
  <2> QED BY <1>1, <1>3, <1>5, <2>2, <2>3, <2>4, ProceedInv, Zenon
<1> QED BY <1>2, <1>4, <1>5 DEF BulkUpdateStatus

(* A send to a channel with room (hub.go:30): the message comes last.      *)
LEMMA Appended ==
    ASSUME NEW S, NEW q \in Seq(S), NEW e \in S
    PROVE  /\ Append(q, e) \in Seq(S)
           /\ \A i \in 1..Len(Append(q, e)) :
                Append(q, e)[i] = e \/ (i \in 1..Len(q) /\ Append(q, e)[i] = q[i])
OBVIOUS

(* Hub.Publish (hub.go:25-34) puts into the channels what the request      *)
(* reports, or drops it.                                                   *)
LEMMA PublishInv ==
    ASSUME ServiceInv, Keeps, NEW h \in Handlers, NEW id \in TaskIds, Publish(h, id)
    PROVE  ServiceInv'
<1>0. Types /\ Shape /\ Fresh /\ Reported /\ OkMeansWritten /\ Sent /\ Shown BY DEF ServiceInv
<1>1. /\ req[h] \in Requests /\ req[h].step = "publish" /\ id \in req[h].ids
      /\ req[h].op # "none" /\ req[h].read \in Statuses /\ UNCHANGED <<rows, feed>>
  BY <1>0 DEF Publish, Types, Shape, Requests
<1>2. True(id, req[h].read)
  BY <1>0, <1>1 DEF Reported
<1> DEFINE m == <<id, req[h].read>>
<1>3. ASSUME NEW s \in Subscribers
      PROVE  /\ chan'[s] \in Seq(TaskIds \X Statuses)
             /\ \A i \in 1..Len(chan'[s]) : chan'[s][i] = m \/ (i \in 1..Len(chan[s]) /\ chan'[s][i] = chan[s][i])
  <2>1. chan[s] \in Seq(TaskIds \X Statuses) /\ m \in TaskIds \X Statuses
    BY <1>0, <1>1 DEF Types
  <2>2. chan'[s] = Append(chan[s], m) \/ chan'[s] = chan[s]
    BY DEF Publish
  <2> HIDE DEF m
  <2>3. CASE chan'[s] = Append(chan[s], m)
    BY <2>1, <2>3, Appended
  <2>4. CASE chan'[s] = chan[s]
    BY <2>1, <2>4
  <2> QED BY <2>2, <2>3, <2>4
<1>4. chan' \in [Subscribers -> Seq(TaskIds \X Statuses)]
  BY <1>3 DEF Publish
<1>5. Sent'
  <2> SUFFICES ASSUME NEW s \in Subscribers, NEW i \in 1..Len(chan'[s])
               PROVE  True(chan'[s][i][1], chan'[s][i][2])
    BY <1>1 DEF Sent, True
  <2>1. m[1] = id /\ m[2] = req[h].read
    OBVIOUS
  <2> HIDE DEF m
  <2> QED BY <1>0, <1>2, <1>3, <2>1 DEF Sent
<1>6. Shown'
  BY <1>0, <1>1 DEF Shown, True
<1>7. \A g \in Handlers \ {h}, i \in TaskIds : Creates(g, i) => rows'[i].status = Absent
  BY <1>0, <1>1 DEF Fresh
<1>8. CASE Answer(h, "ok")
  BY <1>0, <1>1, <1>4, <1>5, <1>6, <1>7, <1>8, AnswerInv, Zenon DEF Types
<1>9. CASE req[h].ids # {id} /\ req' = [req EXCEPT ![h].ids = @ \ {id}]
  <2> DEFINE r == [req[h] EXCEPT !.ids = @ \ {id}]
  <2>1. req' = [req EXCEPT ![h] = r]
    BY <1>0, <1>9 DEF Types
  <2>2. /\ r \in Requests /\ r.op = req[h].op /\ r.ids = req[h].ids \ {id} /\ r.step = "publish"
        /\ r.status = req[h].status /\ r.read = req[h].read
    BY <1>1 DEF Requests
  <2>3. req[h].op \notin {"create", "update", "delete"}
    BY <1>0, <1>1, <1>9 DEF Shape
  <2> HIDE DEF r
  <2>4. WellFormed(r) /\ Inserts(h, r)
    BY <1>0, <1>1, <2>2, <2>3 DEF WellFormed, Inserts, Shape
  <2>5. Claims(r)
    BY <1>0, <1>1, <2>2, <2>3 DEF Claims, Reported, True
  <2>6. req' \in [Handlers -> Requests] /\ Shape' /\ Fresh' /\ OkMeansWritten' /\ Reported'
    BY <1>0, <1>1, <1>7, <2>1, <2>4, <2>5, OneRequest, Zenon DEF Types
  <2> QED BY <1>0, <1>1, <1>4, <1>5, <1>6, <2>6 DEF ServiceInv, Types
<1> QED BY <1>8, <1>9 DEF Publish

(* A page shows the oldest message of its channel (sse_handler.go).        *)
LEMMA ServeHTTPInv ==
    ASSUME ServiceInv, NEW s \in Subscribers, ServeHTTP(s)
    PROVE  ServiceInv'
<1>0. Types /\ Shape /\ Fresh /\ OkMeansWritten /\ Reported /\ Sent /\ Shown BY DEF ServiceInv
<1>1. /\ chan[s] \in Seq(TaskIds \X Statuses) /\ chan[s] # <<>> /\ UNCHANGED <<rows, req>>
  BY <1>0 DEF ServeHTTP, Types
<1> DEFINE m == Head(chan[s])
<1>2. m = chan[s][1] /\ m \in TaskIds \X Statuses /\ 1 \in 1..Len(chan[s])
  BY <1>1
<1>3. m[1] \in TaskIds /\ m[2] \in Statuses /\ True(m[1], m[2])
  BY <1>0, <1>2 DEF Sent
<1>4. chan' = [chan EXCEPT ![s] = Tail(@)] /\ feed' = [feed EXCEPT ![s][m[1]] = m[2]]
  BY DEF ServeHTTP
<1> HIDE DEF m
<1>5. /\ Tail(chan[s]) \in Seq(TaskIds \X Statuses)
      /\ \A i \in 1..Len(Tail(chan[s])) : i + 1 \in 1..Len(chan[s]) /\ Tail(chan[s])[i] = chan[s][i + 1]
  BY <1>1
<1>6. chan' \in [Subscribers -> Seq(TaskIds \X Statuses)] /\ feed' \in [Subscribers -> [TaskIds -> Statuses]]
  BY <1>0, <1>3, <1>4, <1>5 DEF Types
<1>7. Sent'
  <2> SUFFICES ASSUME NEW t \in Subscribers, NEW i \in 1..Len(chan'[t])
               PROVE  True(chan'[t][i][1], chan'[t][i][2])
    BY <1>1 DEF Sent, True
  <2>1. CASE t = s
    BY <1>0, <1>4, <1>5, <2>1 DEF Sent, Types
  <2>2. CASE t # s
    BY <1>0, <1>4, <2>2 DEF Sent, Types
  <2> QED BY <2>1, <2>2
<1>8. Shown'
  <2> SUFFICES ASSUME NEW t \in Subscribers, NEW id \in TaskIds PROVE True(id, feed'[t][id])
    BY <1>1 DEF Shown, True
  <2>1. feed'[t][id] = feed[t][id] \/ (id = m[1] /\ feed'[t][id] = m[2])
    BY <1>0, <1>3, <1>4 DEF Types
  <2> QED BY <1>0, <1>3, <2>1 DEF Shown
<1>9. Shape' /\ Fresh' /\ OkMeansWritten' /\ Reported'
  BY <1>0, <1>1 DEF Shape, Fresh, OkMeansWritten, Reported, True, IdOf, Creates, On
<1> QED BY <1>0, <1>1, <1>6, <1>7, <1>8, <1>9 DEF ServiceInv, Types

(* A goroutine ends, or its client stops waiting (server.go).              *)
LEMMA LeaveInv ==
    ASSUME ServiceInv, Keeps, NEW h \in Handlers,
           \/ req' = [req EXCEPT ![h] = Idle]
           \/ req' = [req EXCEPT ![h].client = Nobody],
           UNCHANGED <<rows, chan, feed>>
    PROVE  ServiceInv'
<1>0. Types /\ Shape /\ Fresh /\ OkMeansWritten /\ Reported BY DEF ServiceInv
<1>1. \A g \in Handlers \ {h}, id \in TaskIds : Creates(g, id) => rows'[id].status = Absent
  BY <1>0 DEF Fresh
<1>2. CASE req' = [req EXCEPT ![h] = Idle]
  <2>1. WellFormed(Idle) /\ Inserts(h, Idle) /\ Claims(Idle)
    BY DEF WellFormed, Inserts, Claims, Idle, Requests, Statuses, Missing, Absent, Nobody
  <2> QED BY <1>0, <1>1, <1>2, <2>1, ProceedInv, Zenon DEF Types
<1>3. CASE req' = [req EXCEPT ![h].client = Nobody]
  <2> DEFINE r == [req[h] EXCEPT !.client = Nobody]
  <2>1. req[h] \in Requests /\ req' = [req EXCEPT ![h] = r]
    BY <1>0, <1>3 DEF Types
  <2>2. /\ r \in Requests /\ r.op = req[h].op /\ r.ids = req[h].ids /\ r.step = req[h].step
        /\ r.status = req[h].status /\ r.read = req[h].read
    BY <2>1 DEF Requests
  <2>3. req[h].op \in {"create", "update", "delete"} => \E id \in TaskIds : req[h].ids = {id}
    BY <1>0, <2>1 DEF Shape, Requests
  <2> HIDE DEF r
  <2>4. WellFormed(r)
    BY <1>0, <2>2, <2>3 DEF WellFormed, Shape
  <2>5. Inserts(h, r)
    <3> SUFFICES ASSUME On(h, "create", "write"), NEW id \in req[h].ids
                 PROVE  rows[id].status = Absent /\ \A g \in Handlers \ {h} : ~Creates(g, id)
      BY <2>2 DEF Inserts, On
    <3>1. id \in TaskIds /\ Creates(h, id)
      BY <2>1 DEF Requests, Creates
    <3> QED BY <1>0, <3>1 DEF Fresh
  <2>6. Claims(r)
    BY <1>0, <2>2 DEF Claims, OkMeansWritten, Reported, True
  <2> QED BY <1>0, <1>1, <2>1, <2>4, <2>5, <2>6, ProceedInv, Zenon DEF Types
<1> QED BY <1>2, <1>3

(* One step of any actor keeps the invariant.                              *)
LEMMA StepInv == ServiceInv /\ [TaskServiceNext]_tsVars => ServiceInv'
<1> SUFFICES ASSUME ServiceInv, [TaskServiceNext]_tsVars PROVE ServiceInv' OBVIOUS
<1>1. Keeps BY StepKeeps
<1>2. ASSUME NEW h \in Handlers, ServerStep(h) PROVE ServiceInv'
  <2>1. CASE StatementFails(h)
    <3>1. req[h].op # "none"
      BY <2>1 DEF StatementFails, ServiceInv, Shape
    <3> QED BY <1>1, <2>1, <3>1, RefusalInv DEF StatementFails
  <2>2. CASE Cancelled(h)
    BY <1>1, <2>2, LeaveInv, Zenon DEF Cancelled
  <2>3. CASE \E id \in TaskIds : Publish(h, id)
    BY <1>1, <2>3, PublishInv
  <2> QED BY <1>1, <1>2, <2>1, <2>2, <2>3, CreateTaskInv, FindByIDInv, UpdateStatusInv, RereadInv,
             DeleteTaskInv, BulkUpdateStatusInv DEF ServerStep
<1>3. ASSUME NEW h \in Handlers, Arrive(h) PROVE ServiceInv'
  BY <1>3, ArriveInv
<1>4. ASSUME NEW h \in Handlers, Take(h) \/ GiveUp(h) PROVE ServiceInv'
  BY <1>1, <1>4, LeaveInv DEF Take, GiveUp
<1>5. ASSUME NEW s \in Subscribers, ServeHTTP(s) PROVE ServiceInv'
  BY <1>5, ServeHTTPInv
<1>6. CASE UNCHANGED tsVars
  BY <1>6 DEF tsVars, ServiceInv, Types, Shape, Fresh, OkMeansWritten, Reported, Sent, Shown,
              True, IdOf, Creates, On
<1> QED BY <1>2, <1>3, <1>4, <1>5, <1>6 DEF TaskServiceNext

(* The invariant holds of every behaviour of the service (server.go).      *)
THEOREM TaskServiceInvariant == TaskServiceSpec => []ServiceInv
BY TaskServiceInitial, StepInv, PTL DEF TaskServiceSpec

(* A PATCH that has written, and in particular one that answers 200, has   *)
(* the status it asked for in the table unless the task was deleted        *)
(* (update_status.go:38-58), for any number of concurrent requests.        *)
THEOREM TaskServiceOkMeansWritten == TaskServiceSpec => []OkMeansWritten
<1>1. ServiceInv => OkMeansWritten BY DEF ServiceInv
<1> QED BY <1>1, TaskServiceInvariant, PTL

(* No request changes a terminal task other than by deleting it            *)
(* (ADR-0013, migration 000004), for any number of concurrent requests.    *)
THEOREM TaskServiceTerminalImmutable == TaskServiceSpec => TerminalImmutable
<1>1. ServiceInv /\ [TaskServiceNext]_tsVars
        => [\A id \in TaskIds :
              rows[id].status \in Terminal => rows'[id] \in {rows[id], Gone}]_tsVars
  BY StepKeeps DEF Keeps
<1> QED BY <1>1, TaskServiceInvariant, PTL DEF TaskServiceSpec, TerminalImmutable

(* A page never shows a terminal status other than the table's             *)
(* (hub.go:25-34), for any buffer and any number of subscribers.           *)
THEOREM TaskServiceFeedTruth == TaskServiceSpec => []FeedTruth
<1>1. ServiceInv => FeedTruth
  <2> SUFFICES ASSUME ServiceInv PROVE FeedTruth
    OBVIOUS
  <2>1. DOMAIN feed = Subscribers
    BY DEF ServiceInv, Types
  <2> QED BY <2>1 DEF ServiceInv, Shown, True, FeedTruth
<1> QED BY <1>1, TaskServiceInvariant, PTL

-----------------------------------------------------------------------------
(* The runtime: what a replica holds, and the counts.                      *)

(* Labels of process_message before the actions, and after them.           *)
Early == {"create", "createBad", "unprocessable", "delete", "age", "reason",
          "tools", "respond", "update"}

Late == {"actions", "record", "dlq", "fail"}

Busy == Early \cup Late

ReplicaTypes ==
    /\ msg \in [Events -> {"queued", "delivered", "acked"}]
    /\ pc \in [Replicas -> Busy \cup {"fetch", "ack", "exited"}]
    /\ ev \in [Replicas -> Events \cup {NoEvent}]
    /\ task \in [Replicas -> TaskIds \cup {NoEvent}]
    /\ todo \in [Replicas -> SUBSET Actions]
    /\ runs \in [Events -> [Actions -> Nat]]
    /\ taskOf \in [Events -> SUBSET TaskIds]
    /\ lost \in [Events -> Nat]

(* What a replica holds is its own.                                        *)
Held ==
    /\ \A r \in Replicas :
         /\ At(r, "ack") => ev[r] \in Events /\ msg[ev[r]] = "delivered"
         /\ pc[r] \in Busy => ev[r] \in Events /\ task[r] \in taskOf[ev[r]]
    /\ \A r, s \in Replicas : r # s =>
         /\ At(r, "ack") /\ At(s, "ack") => ev[r] # ev[s]
         /\ pc[r] \in Busy /\ pc[s] \in Busy => task[r] # task[s]
    /\ \A e, f \in Events : e # f => taskOf[e] \cap taskOf[f] = {}

(* A task may still be the reason for a run of the action.                 *)
Owes(r, a) == pc[r] \in Early \/ (At(r, "actions") /\ a \in todo[r])

Spent(e, a) == {id \in taskOf[e] : \A r \in Replicas : task[r] = id => ~Owes(r, a)}

Counted ==
    \A e \in Events :
        /\ IsFiniteSet(taskOf[e])
        /\ Cardinality(taskOf[e]) <= lost[e] + (IF msg[e] = "acked" THEN 1 ELSE 0)
        /\ \A a \in Actions : runs[e][a] <= Cardinality(Spent(e, a))

CountInv == ReplicaTypes /\ Held /\ Counted

-----------------------------------------------------------------------------
(* The counting. *)

LEMMA CountInitial == ReplicasInit => CountInv
<1> SUFFICES ASSUME ReplicasInit PROVE CountInv
  OBVIOUS
<1> USE DEF ReplicasInit
<1>1. ReplicaTypes
  BY DEF ReplicaTypes
<1>2. Held
  BY DEF Held, At, Busy, Early, Late
<1>3. Counted
  <2>1. ASSUME NEW e \in Events, NEW a \in Actions PROVE Spent(e, a) = {}
    BY DEF Spent
  <2>2. ASSUME NEW e \in Events PROVE taskOf[e] = {} /\ lost[e] = 0 /\ msg[e] = "queued"
    OBVIOUS
  <2>3. ASSUME NEW e \in Events, NEW a \in Actions PROVE runs[e][a] = 0
    OBVIOUS
  <2> QED  BY <2>1, <2>2, <2>3, FS_EmptySet DEF Counted
<1> QED  BY <1>1, <1>2, <1>3 DEF CountInv

(* As long as no action runs and no message is acknowledged, tasks that    *)
(* become spent can only help.                                             *)
LEMMA StillCounted ==
    ASSUME CountInv, UNCHANGED <<runs, lost, taskOf>>,
           \A e \in Events : msg[e] = "acked" => msg'[e] = "acked",
           \A e \in Events, a \in Actions : Spent(e, a) \subseteq Spent(e, a)'
    PROVE  Counted'
<1> SUFFICES ASSUME NEW e \in Events
             PROVE  /\ IsFiniteSet(taskOf[e])
                    /\ Cardinality(taskOf[e]) <= lost[e] + (IF msg'[e] = "acked" THEN 1 ELSE 0)
                    /\ \A a \in Actions : runs[e][a] <= Cardinality(Spent(e, a)')
  BY DEF Counted
<1>1. /\ IsFiniteSet(taskOf[e]) /\ Cardinality(taskOf[e]) \in Nat
      /\ Cardinality(taskOf[e]) <= lost[e] + (IF msg[e] = "acked" THEN 1 ELSE 0)
      /\ lost[e] \in Nat
  BY FS_CardinalityType DEF CountInv, Counted, ReplicaTypes
<1>2. Cardinality(taskOf[e]) <= lost[e] + (IF msg'[e] = "acked" THEN 1 ELSE 0)
  BY <1>1
<1>3. ASSUME NEW a \in Actions PROVE runs[e][a] <= Cardinality(Spent(e, a)')
  <2>1. Spent(e, a)' \subseteq taskOf[e]
    BY DEF Spent
  <2>2. IsFiniteSet(Spent(e, a)')
    BY <1>1, <2>1, FS_Subset
  <2>3. /\ IsFiniteSet(Spent(e, a))
        /\ Cardinality(Spent(e, a)) <= Cardinality(Spent(e, a)')
    BY <2>2, FS_Subset
  <2>4. Cardinality(Spent(e, a)) \in Nat /\ Cardinality(Spent(e, a)') \in Nat
    BY <2>2, <2>3, FS_CardinalityType
  <2>5. runs[e][a] \in Nat /\ runs[e][a] <= Cardinality(Spent(e, a))
    BY DEF CountInv, Counted, ReplicaTypes
  <2> QED  BY <2>3, <2>4, <2>5
<1> QED  BY <1>1, <1>2, <1>3

(* process_message goes on with its event and its task, and does not go    *)
(* back to what precedes the actions.                                      *)
LEMMA ProceedCounted ==
    ASSUME CountInv, NEW r \in Replicas, pc[r] \in Busy, NEW next \in Busy, Goto(r, next),
           next \in Early => pc[r] \in Early,
           todo' \in [Replicas -> SUBSET Actions],
           \A s \in Replicas \ {r} : todo'[s] = todo[s],
           next = "actions" => pc[r] \in Early,
           UNCHANGED <<msg, ev, task, runs, taskOf, lost>>
    PROVE  CountInv'
<1> USE DEF CountInv, Goto
<1>1. ReplicaTypes'
  BY Zenon DEF ReplicaTypes
<1>2. Held'
  BY DEF Held, At, ReplicaTypes, Busy, Early, Late
<1>3. ASSUME NEW e \in Events, NEW a \in Actions PROVE Spent(e, a) \subseteq Spent(e, a)'
  <2>1. ASSUME NEW s \in Replicas, Owes(s, a)' PROVE Owes(s, a)
    BY <2>1 DEF Owes, At, ReplicaTypes, Busy, Early, Late
  <2> QED  BY <2>1 DEF Spent
<1>4. Counted'
  BY <1>3, StillCounted
<1> QED  BY <1>1, <1>2, <1>4

(* process_message is left; what it had not run it never will.             *)
LEMMA LeaveCounted ==
    ASSUME CountInv, NEW r \in Replicas, NEW next \in {"fetch", "exited"}, Goto(r, next), Leave(r),
           UNCHANGED <<msg, runs, taskOf, lost>>
    PROVE  CountInv'
<1> USE DEF CountInv, Goto, Leave
<1>1. ReplicaTypes'
  BY DEF ReplicaTypes
<1>2. Held'
  BY DEF Held, At, ReplicaTypes, Busy, Early, Late
<1>3. ASSUME NEW e \in Events, NEW a \in Actions PROVE Spent(e, a) \subseteq Spent(e, a)'
  <2>1. ASSUME NEW s \in Replicas, Owes(s, a)' PROVE Owes(s, a) /\ task'[s] = task[s]
    BY <2>1 DEF Owes, At, ReplicaTypes, Busy, Early, Late
  <2> QED  BY <2>1 DEF Spent
<1>4. Counted'
  BY <1>3, StillCounted
<1> QED  BY <1>1, <1>2, <1>4

(* JetStream hands a message out, or takes back one nobody acknowledged.   *)
LEMMA DeliveryCounted ==
    ASSUME CountInv, (\E r \in Replicas, e \in Events : Fetch(r, e)) \/ (\E e \in Events : Redeliver(e))
    PROVE  CountInv'
<1> USE DEF CountInv
<1>1. CASE \E r \in Replicas, e \in Events : Fetch(r, e)
  <2>1. PICK r \in Replicas, e \in Events : Fetch(r, e)
    BY <1>1
  <2> USE <2>1 DEF Fetch, Goto, actionVars
  <2>2. ReplicaTypes'
    BY DEF ReplicaTypes
  <2>3. Held'
    BY DEF Held, At, ReplicaTypes, Busy, Early, Late
  <2>4. ASSUME NEW f \in Events, NEW a \in Actions PROVE Spent(f, a) \subseteq Spent(f, a)'
    <3>1. ASSUME NEW s \in Replicas, Owes(s, a)' PROVE Owes(s, a)
      BY <3>1 DEF Owes, At, ReplicaTypes, Busy, Early, Late
    <3> QED  BY Zenon, <3>1 DEF Spent
  <2>5. \A f \in Events : msg[f] = "acked" => msg'[f] = "acked"
    BY DEF ReplicaTypes
  <2>6. Counted'
    BY <2>4, <2>5, StillCounted
  <2> QED  BY <2>2, <2>3, <2>6
<1>2. CASE \E e \in Events : Redeliver(e)
  <2>1. PICK e \in Events : Redeliver(e)
    BY <1>2
  <2> USE <2>1 DEF Redeliver, actionVars
  <2>2. ReplicaTypes'
    BY DEF ReplicaTypes
  <2>3. Held'
    BY DEF Held, At, ReplicaTypes
  <2>4. ASSUME NEW f \in Events, NEW a \in Actions PROVE Spent(f, a) \subseteq Spent(f, a)'
    BY Zenon DEF Spent, Owes, At
  <2>5. \A f \in Events : msg[f] = "acked" => msg'[f] = "acked"
    BY DEF ReplicaTypes
  <2>6. Counted'
    BY <2>4, <2>5, StillCounted
  <2> QED  BY <2>2, <2>3, <2>6
<1> QED  BY <1>1, <1>2

(* Steps 1 to 3 of process_message: one task more, for a message that is   *)
(* acknowledged now or whose acknowledgement is lost.                      *)
LEMMA AckCounted ==
    ASSUME CountInv, NEW r \in Replicas, Ack(r)
    PROVE  CountInv'
<1> USE DEF CountInv
<1> DEFINE mine == ev[r]
<1>1. mine \in Events /\ msg[mine] = "delivered" /\ At(r, "ack")
  BY DEF Ack, Held
<1>2. PICK id \in TaskIds :
        /\ \A e \in Events : id \notin taskOf[e]
        /\ task' = [task EXCEPT ![r] = id]
        /\ taskOf' = [taskOf EXCEPT ![mine] = taskOf[mine] \cup {id}]
  BY Zenon DEF Ack
<1>3. PICK next \in {"create", "createBad"} : Goto(r, next)
  BY DEF Ack
<1>4. \/ msg' = [msg EXCEPT ![mine] = "acked"] /\ UNCHANGED lost
      \/ lost' = [lost EXCEPT ![mine] = lost[mine] + 1] /\ UNCHANGED msg
  BY DEF Ack
<1>5. UNCHANGED <<ev, todo, runs>>
  BY DEF Ack, actionVars
<1> HIDE DEF mine
<1>6. ReplicaTypes'
  <2>1. msg' \in [Events -> {"queued", "delivered", "acked"}] /\ lost' \in [Events -> Nat]
    <3>1. CASE msg' = [msg EXCEPT ![mine] = "acked"] /\ UNCHANGED lost
      BY Zenon, <3>1 DEF ReplicaTypes
    <3>2. CASE lost' = [lost EXCEPT ![mine] = lost[mine] + 1] /\ UNCHANGED msg
      <4>1. lost[mine] + 1 \in Nat
        BY <1>1 DEF ReplicaTypes
      <4> QED  BY Zenon, <3>2, <4>1 DEF ReplicaTypes
    <3> QED  BY <1>4, <3>1, <3>2
  <2>2. pc' \in [Replicas -> Busy \cup {"fetch", "ack", "exited"}]
    BY <1>3 DEF ReplicaTypes, Goto, Busy, Early
  <2>3. /\ task' \in [Replicas -> TaskIds \cup {NoEvent}]
        /\ taskOf' \in [Events -> SUBSET TaskIds]
    BY <1>1, <1>2 DEF ReplicaTypes
  <2> QED  BY <1>5, <2>1, <2>2, <2>3 DEF ReplicaTypes
<1>7. Held'
  <2>1. \A s \in Replicas :
          /\ At(s, "ack")' => ev[s] \in Events /\ msg'[ev[s]] = "delivered"
          /\ pc'[s] \in Busy => ev[s] \in Events /\ task'[s] \in taskOf'[ev[s]]
    BY <1>1, <1>2, <1>3, <1>4, <1>5 DEF Held, At, ReplicaTypes, Goto, Busy, Early, Late, mine
  <2>2. \A s, q \in Replicas : s # q =>
          /\ At(s, "ack")' /\ At(q, "ack")' => ev[s] # ev[q]
          /\ pc'[s] \in Busy /\ pc'[q] \in Busy => task'[s] # task'[q]
    BY <1>1, <1>2, <1>3, <1>5 DEF Held, At, ReplicaTypes, Goto, Busy, Early, Late
  <2>3. \A e, f \in Events : e # f => taskOf'[e] \cap taskOf'[f] = {}
    BY <1>1, <1>2 DEF Held, ReplicaTypes
  <2> QED  BY Zenon, <1>5, <2>1, <2>2, <2>3 DEF Held
<1>8. Counted'
  <2> SUFFICES ASSUME NEW e \in Events
               PROVE  /\ IsFiniteSet(taskOf'[e])
                      /\ Cardinality(taskOf'[e]) <= lost'[e] + (IF msg'[e] = "acked" THEN 1 ELSE 0)
                      /\ \A a \in Actions : runs[e][a] <= Cardinality(Spent(e, a)')
    BY <1>5 DEF Counted
  <2>1. /\ IsFiniteSet(taskOf[e]) /\ Cardinality(taskOf[e]) \in Nat /\ lost[e] \in Nat
        /\ Cardinality(taskOf[e]) <= lost[e] + (IF msg[e] = "acked" THEN 1 ELSE 0)
    BY FS_CardinalityType DEF Counted, ReplicaTypes
  <2>2. /\ IsFiniteSet(taskOf'[e])
        /\ Cardinality(taskOf'[e]) <= lost'[e] + (IF msg'[e] = "acked" THEN 1 ELSE 0)
    <3>1. CASE e = mine
      <4>1. taskOf'[e] = taskOf[e] \cup {id} /\ id \notin taskOf[e]
        BY <1>1, <1>2, <3>1 DEF ReplicaTypes
      <4>2. IsFiniteSet(taskOf'[e]) /\ Cardinality(taskOf'[e]) = Cardinality(taskOf[e]) + 1
        <5>1. /\ IsFiniteSet(taskOf[e] \cup {id})
              /\ Cardinality(taskOf[e] \cup {id}) = Cardinality(taskOf[e]) + 1
          BY <2>1, <4>1, FS_AddElement, Zenon
        <5> QED  BY <4>1, <5>1
      <4>3. \/ msg'[e] = "acked" /\ lost'[e] = lost[e]
            \/ msg'[e] = msg[e] /\ lost'[e] = lost[e] + 1
        <5>1. CASE msg' = [msg EXCEPT ![mine] = "acked"] /\ UNCHANGED lost
          BY <3>1, <5>1 DEF ReplicaTypes
        <5>2. CASE lost' = [lost EXCEPT ![mine] = lost[mine] + 1] /\ UNCHANGED msg
          BY <3>1, <5>2 DEF ReplicaTypes
        <5> QED  BY <1>4, <5>1, <5>2
      <4> QED  BY <1>1, <2>1, <3>1, <4>2, <4>3
    <3>2. CASE e # mine
      <4>1. taskOf'[e] = taskOf[e] /\ lost'[e] = lost[e] /\ msg'[e] = msg[e]
        BY <1>1, <1>2, <1>4, <3>2 DEF ReplicaTypes
      <4> QED  BY <2>1, <4>1
    <3> QED  BY <3>1, <3>2
  <2>3. ASSUME NEW a \in Actions PROVE runs[e][a] <= Cardinality(Spent(e, a)')
    <3>1. Spent(e, a) \subseteq Spent(e, a)'
      <4> SUFFICES ASSUME NEW i \in Spent(e, a) PROVE i \in Spent(e, a)'
        OBVIOUS
      <4>1. i \in taskOf[e] /\ i # id /\ i \in taskOf'[e]
        BY <1>1, <1>2 DEF Spent, ReplicaTypes
      <4>2. ASSUME NEW s \in Replicas, task'[s] = i PROVE ~Owes(s, a)'
        <5>1. s # r /\ task[s] = i
          BY <1>2, <4>1, <4>2 DEF ReplicaTypes
        <5> QED  BY <1>3, <1>5, <5>1 DEF Spent, Owes, At, Goto, ReplicaTypes
      <4> QED  BY Zenon, <4>1, <4>2 DEF Spent
    <3>2. IsFiniteSet(Spent(e, a)') /\ Spent(e, a)' \subseteq taskOf'[e]
      BY <2>2, FS_Subset DEF Spent
    <3>3. IsFiniteSet(Spent(e, a)) /\ Cardinality(Spent(e, a)) <= Cardinality(Spent(e, a)')
      BY <3>1, <3>2, FS_Subset
    <3>4. Cardinality(Spent(e, a)) \in Nat /\ Cardinality(Spent(e, a)') \in Nat
      BY <3>2, <3>3, FS_CardinalityType
    <3> QED  BY <3>3, <3>4 DEF Counted, ReplicaTypes
  <2> QED  BY Zenon, <2>2, <2>3
<1> QED  BY <1>6, <1>7, <1>8

(* run_actions: the run is charged to the replica's own task, which no     *)
(* other replica has.                                                      *)
LEMMA RunActionCounted ==
    ASSUME CountInv, NEW r \in Replicas, NEW b \in Actions, RunAction(r, b)
    PROVE  CountInv'
<1> USE DEF CountInv
<1> DEFINE mine == ev[r]
<1>1. At(r, "actions") /\ b \in todo[r] /\ mine \in Events /\ task[r] \in taskOf[mine]
  BY DEF RunAction, Held, At, Busy, Late
<1>2. PICK next \in {"record", "actions"} : Goto(r, next)
  BY DEF RunAction
<1>3. /\ runs' = [runs EXCEPT ![mine][b] = runs[mine][b] + 1]
      /\ todo' = [todo EXCEPT ![r] = todo[r] \ {b}]
      /\ UNCHANGED <<msg, ev, task, taskOf, lost>>
  BY DEF RunAction
<1> HIDE DEF mine
<1>4. ReplicaTypes'
  BY <1>1, <1>2, <1>3 DEF ReplicaTypes, Goto, Busy, Late
<1>5. Held'
  BY <1>1, <1>2, <1>3 DEF Held, At, ReplicaTypes, Goto, Busy, Early, Late
<1>6. ASSUME NEW s \in Replicas, NEW a \in Actions, Owes(s, a)' PROVE Owes(s, a)
  BY <1>1, <1>2, <1>3, <1>6 DEF Owes, At, ReplicaTypes, Goto, Early
<1>7. Counted'
  <2> SUFFICES ASSUME NEW e \in Events
               PROVE  /\ IsFiniteSet(taskOf[e])
                      /\ Cardinality(taskOf[e]) <= lost[e] + (IF msg[e] = "acked" THEN 1 ELSE 0)
                      /\ \A a \in Actions : runs'[e][a] <= Cardinality(Spent(e, a)')
    BY <1>3 DEF Counted
  <2>1. /\ IsFiniteSet(taskOf[e])
        /\ Cardinality(taskOf[e]) <= lost[e] + (IF msg[e] = "acked" THEN 1 ELSE 0)
    BY DEF Counted
  <2>2. ASSUME NEW a \in Actions PROVE runs'[e][a] <= Cardinality(Spent(e, a)')
    <3>1. Spent(e, a) \subseteq Spent(e, a)'
      BY <1>3, <1>6 DEF Spent
    <3>2. IsFiniteSet(Spent(e, a)')
      BY <1>3, <2>1, FS_Subset DEF Spent
    <3>3. IsFiniteSet(Spent(e, a)) /\ Cardinality(Spent(e, a)) <= Cardinality(Spent(e, a)')
      BY <3>1, <3>2, FS_Subset
    <3>4. Cardinality(Spent(e, a)) \in Nat /\ Cardinality(Spent(e, a)') \in Nat
      BY <3>2, <3>3, FS_CardinalityType
    <3>5. runs[e][a] \in Nat /\ runs[e][a] <= Cardinality(Spent(e, a))
      BY DEF Counted, ReplicaTypes
    <3>6. CASE e = mine /\ a = b
      <4>1. runs'[e][a] = runs[e][a] + 1
        BY <1>1, <1>3, <3>6 DEF ReplicaTypes
      <4>2. task[r] \notin Spent(e, a)
        BY <1>1, <3>6 DEF Spent, Owes
      <4>3. task[r] \in Spent(e, a)'
        <5>1. task[r] \in taskOf'[e]
          BY <1>1, <1>3, <3>6
        <5>2. ASSUME NEW s \in Replicas, task'[s] = task[r], Owes(s, a)' PROVE FALSE
          <6>1. Owes(s, a) /\ task[s] = task[r]
            BY <1>3, <1>6, <5>2
          <6>2. s = r
            BY <1>1, <6>1 DEF Held, Owes, At, Busy, Early, Late
          <6> QED  BY <1>1, <1>2, <1>3, <3>6, <5>2, <6>2 DEF Owes, At, Goto, ReplicaTypes, Early
        <5> QED  BY <5>1, <5>2 DEF Spent
      <4>4. Spent(e, a) \cup {task[r]} \subseteq Spent(e, a)'
        BY <3>1, <4>3
      <4>5. Cardinality(Spent(e, a) \cup {task[r]}) = Cardinality(Spent(e, a)) + 1
        BY Zenon, <3>3, <4>2, FS_AddElement
      <4>6. Cardinality(Spent(e, a) \cup {task[r]}) <= Cardinality(Spent(e, a)')
        BY <3>2, <4>4, FS_Subset
      <4> QED  BY <3>4, <3>5, <4>1, <4>5, <4>6
    <3>7. CASE ~(e = mine /\ a = b)
      <4>1. runs'[e][a] = runs[e][a]
        BY <1>1, <1>3, <3>7 DEF ReplicaTypes
      <4> QED  BY <3>3, <3>4, <3>5, <4>1
    <3> QED  BY <3>6, <3>7
  <2> QED  BY <2>1, <2>2
<1> QED  BY <1>4, <1>5, <1>7

(* Continue, from a label of process_message to one that may follow it.    *)
LEMMA ContinueCounted ==
    ASSUME CountInv, NEW r \in Replicas,
           NEW next \in {"fetch", "exited", "age", "unprocessable", "actions", "dlq", "delete", "reason"},
           Continue(r, next),
           next \notin {"fetch", "exited", "dlq"} => pc[r] \in Early,
           next = "dlq" => pc[r] \in Busy
    PROVE  CountInv'
<1>1. CASE next \in {"fetch", "exited"}
  BY <1>1, LeaveCounted DEF Continue
<1>2. CASE next \notin {"fetch", "exited"}
  <2>1. /\ Goto(r, next) /\ UNCHANGED <<msg, ev, task, runs, taskOf, lost>>
        /\ todo' = [todo EXCEPT ![r] = IF next = "actions" THEN Actions ELSE todo[r]]
    BY <1>2 DEF Continue
  <2>2. /\ todo' \in [Replicas -> SUBSET Actions]
        /\ \A s \in Replicas \ {r} : todo'[s] = todo[s]
    BY <2>1 DEF CountInv, ReplicaTypes
  <2>3. next \in Busy /\ pc[r] \in Busy /\ (next \in Early => pc[r] \in Early)
        /\ (next = "actions" => pc[r] \in Early)
    BY <1>2 DEF Busy, Early, Late
  <2> QED  BY <2>1, <2>2, <2>3, ProceedCounted
<1> QED  BY <1>1, <1>2

(* Nothing the counting looks at changes.                                  *)
LEMMA CountUntouched ==
    ASSUME CountInv, UNCHANGED <<msg, pc, ev, task, todo, runs, taskOf, lost>>
    PROVE  CountInv'
<1> USE DEF CountInv
<1>1. ReplicaTypes' /\ Held'
  BY DEF ReplicaTypes, Held, At
<1>2. \A e \in Events, a \in Actions : Spent(e, a)' = Spent(e, a)
  BY DEF Spent, Owes, At
<1>3. Counted'
  BY <1>2 DEF Counted
<1> QED  BY <1>1, <1>3

(* Every step of a replica, its broker and the task-service keeps it.      *)
LEMMA CountStep == CountInv /\ [Next]_vars => CountInv'
<1> SUFFICES ASSUME CountInv, [Next]_vars PROVE CountInv'
  OBVIOUS
<1>1. ASSUME NEW r \in Replicas, Consumer(r) PROVE CountInv'
  <2>1. CASE \E e \in Events : Fetch(r, e)
    BY <2>1, DeliveryCounted
  <2>2. CASE Ack(r)
    BY <2>2, AckCounted
  <2>3. CASE Call(r)
    BY <2>3, CountUntouched DEF Call, rtVars, actionVars
  <2>4. CASE Response(r)
    <3>1. Continue(r, NextAfterOk(r)) \/ Continue(r, NextAfterError(r))
      BY <2>4 DEF Response
    <3>2. /\ NextAfterOk(r) \in {"age", "unprocessable", "actions", "fetch"}
          /\ NextAfterOk(r) # "fetch" => pc[r] \in Early
      BY DEF NextAfterOk, At, Early
    <3>3. /\ NextAfterError(r) \in {"dlq", "exited"}
          /\ NextAfterError(r) = "dlq" => pc[r] \in Busy
      BY DEF NextAfterError, Busy, Early, Late
    <3> HIDE DEF NextAfterOk, NextAfterError
    <3> QED  BY <3>1, <3>2, <3>3, ContinueCounted
  <2>5. CASE Staleness(r)
    <3>1. PICK next \in {"delete", "reason"} : Continue(r, next)
      BY <2>5 DEF Staleness
    <3>2. pc[r] \in Early
      BY <2>5 DEF Staleness, At, Early
    <3> QED  BY <3>1, <3>2, ContinueCounted
  <2>6. CASE Reason(r) \/ CallTools(r) \/ Respond(r) \/ PublishDLQ(r)
    <3>1. PICK next \in {"tools", "respond", "reason", "dlq", "update", "fail"} : Goto(r, next)
      BY <2>6 DEF Reason, CallTools, Respond, PublishDLQ
    <3>2. /\ pc[r] \in {"reason", "tools", "respond", "dlq"} /\ (At(r, "dlq") => next = "fail")
          /\ UNCHANGED <<msg, ev, task, runs, todo, taskOf, lost>>
      <4>1. CASE Reason(r)
        BY <3>1, <4>1 DEF Reason, At, actionVars
      <4>2. CASE CallTools(r)
        BY <3>1, <4>2 DEF CallTools, At, actionVars
      <4>3. CASE Respond(r)
        BY <3>1, <4>3 DEF Respond, At, actionVars
      <4>4. CASE PublishDLQ(r)
        <5>1. next = "fail"
          BY <3>1, <4>4 DEF PublishDLQ, Goto, CountInv, ReplicaTypes
        <5> QED  BY <4>4, <5>1 DEF PublishDLQ, At, actionVars
      <4> QED  BY <2>6, <4>1, <4>2, <4>3, <4>4
    <3>3. /\ next \in Busy /\ pc[r] \in Busy /\ (next \in Early => pc[r] \in Early)
          /\ next # "actions"
      BY <3>2 DEF Busy, Early, Late, At
    <3>4. todo' \in [Replicas -> SUBSET Actions]
      BY <3>2 DEF CountInv, ReplicaTypes
    <3> QED  BY <3>1, <3>2, <3>3, <3>4, ProceedCounted
  <2>7. CASE \E a \in Actions : RunAction(r, a)
    BY <2>7, RunActionCounted
  <2>8. CASE Restart(r)
    <3> USE <2>8 DEF Restart, Goto, actionVars, CountInv
    <3>1. ReplicaTypes'
      BY DEF ReplicaTypes
    <3>2. Held'
      BY DEF Held, At, ReplicaTypes, Busy, Early, Late
    <3>3. ASSUME NEW e \in Events, NEW a \in Actions PROVE Spent(e, a) \subseteq Spent(e, a)'
      BY DEF Spent, Owes, At, ReplicaTypes, Early
    <3>4. Counted'
      BY <3>3, StillCounted
    <3> QED  BY <3>1, <3>2, <3>4
  <2> QED  BY <1>1, <2>1, <2>2, <2>3, <2>4, <2>5, <2>6, <2>7, <2>8 DEF Consumer
<1>2. ASSUME NEW r \in Replicas, Crash(r) PROVE CountInv'
  BY <1>2, LeaveCounted DEF Crash
<1>3. CASE \E e \in Events : Redeliver(e)
  BY <1>3, DeliveryCounted
<1>4. CASE (\E h \in Handlers : Server(h)) \/ ListTasks \/ MarkTimeout \/ DashboardAnswer
  BY Zenon, <1>4, CountUntouched DEF Server, ListTasks, MarkTimeout, DashboardAnswer, rtVars, actionVars
<1>5. CASE UNCHANGED vars
  BY <1>5, CountUntouched DEF vars, rtVars, actionVars
<1> QED  BY <1>1, <1>2, <1>3, <1>4, <1>5 DEF Next

(* "ACK immediately": an event gets one task, and each of its actions runs *)
(* once, but for one more of each per acknowledgement that was lost        *)
(* (consumer.py:102), whatever pods die and whatever is redelivered.       *)
THEOREM RuntimeAtMostOnce == Spec => []AtMostOnce
<1>1. CountInv => AtMostOnce
  <2> SUFFICES ASSUME CountInv, NEW e \in Events
               PROVE  /\ Cardinality(taskOf[e]) <= 1 + lost[e]
                      /\ \A a \in Actions : runs[e][a] <= 1 + lost[e]
    BY DEF AtMostOnce
  <2>1. /\ IsFiniteSet(taskOf[e]) /\ lost[e] \in Nat
        /\ Cardinality(taskOf[e]) <= lost[e] + (IF msg[e] = "acked" THEN 1 ELSE 0)
    BY DEF CountInv, Counted, ReplicaTypes
  <2>2. Cardinality(taskOf[e]) \in Nat
    BY <2>1, FS_CardinalityType
  <2>3. Cardinality(taskOf[e]) <= 1 + lost[e]
    BY <2>1, <2>2
  <2>4. ASSUME NEW a \in Actions PROVE runs[e][a] <= 1 + lost[e]
    <3>1. Spent(e, a) \subseteq taskOf[e]
      BY DEF Spent
    <3>2. IsFiniteSet(Spent(e, a)) /\ Cardinality(Spent(e, a)) <= Cardinality(taskOf[e])
      BY <2>1, <3>1, FS_Subset
    <3>3. Cardinality(Spent(e, a)) \in Nat
      BY <3>2, FS_CardinalityType
    <3>4. runs[e][a] \in Nat /\ runs[e][a] <= Cardinality(Spent(e, a))
      BY DEF CountInv, Counted, ReplicaTypes
    <3> QED  BY <2>1, <2>2, <2>3, <3>2, <3>3, <3>4
  <2> QED  BY <2>3, <2>4
<1> QED  BY <1>1, CountInitial, CountStep, PTL DEF Spec, RuntimeInit

=============================================================================
