------------------------------ MODULE TaskService ------------------------------
(***************************************************************************)
(* task-service: the record of every event a handler worked on, behind an  *)
(* HTTP interface, with a live feed of changes.                            *)
(*                                                                         *)
(* Every request is served by a goroutine of its own (a member of          *)
(* Handlers).  A PATCH is four steps that other requests interleave with:  *)
(* read the row, check the transition, write, read back and publish.  One  *)
(* SQL statement is one step; the trigger of migration 000004 is part of   *)
(* the statement that fires it.  A task is abstracted to its status and    *)
(* whether action results are stored with it.                              *)
(***************************************************************************)
EXTENDS Naturals, Sequences, FiniteSets

CONSTANTS
    TaskIds,       \* ULIDs the runtime may draw
    Handlers,      \* request goroutines of the server
    Clients,       \* callers that wait for an answer
    Subscribers,   \* open /tasks/stream connections
    Buffer,        \* capacity of a subscriber's channel (16 in the code)
    Faults         \* "db": a statement may fail

Nobody == "nobody"

ASSUME TaskServiceAssumption ==
    /\ Buffer \in Nat \ {0}
    /\ Nobody \notin Clients

VARIABLES
    rows,          \* the tasks table
    req,           \* the request each handler goroutine is serving
    chan,          \* channel of each subscriber; absent ones have none
    feed           \* what each subscriber's page shows of each task

tsVars == <<rows, req, chan, feed>>

Absent == "Absent"      \* not inserted yet
Deleted == "Deleted"    \* inserted and deleted; to the service the same thing
Missing == {Absent, Deleted}

Terminal == {"Completed", "Failed", "SchemaValidationFailed", "ActionError",
             "UnprocessableEvent", "Timeout", "Retried"}

TaskStatus == Terminal \cup {"Processing", "PendingApproval"}

(* The transitions UpdateStatusCommand allows; a status with no entry has  *)
(* none, which includes PendingApproval.                                   *)
validTransitions(from) == IF from = "Processing" THEN Terminal ELSE {}

NoRow == [status |-> Absent, actions |-> FALSE]

Gone == [status |-> Deleted, actions |-> FALSE]

Row == [status : TaskStatus \cup Missing, actions : BOOLEAN]

Idle == [op |-> "none", ids |-> {}, status |-> Absent, actions |-> FALSE,
         read |-> Absent, step |-> "idle", client |-> Nobody]

(* NewRouter dispatches on the method: only PATCH /tasks/{id}/status reads *)
(* before it writes.                                                       *)
Request(op, ids, status, actions, client) ==
    [op |-> op, ids |-> ids, status |-> status, actions |-> actions,
     read |-> status, step |-> IF op = "update" THEN "find" ELSE "write",
     client |-> client]

IdOf(h) == CHOOSE id \in req[h].ids : TRUE

Goes(h, step) == req' = [req EXCEPT ![h].step = step]

(* writeJSON or writeError: a client that is still there gets the answer.  *)
Answer(h, result) ==
    req' = [req EXCEPT ![h] =
              IF @.client \in Clients THEN [@ EXCEPT !.step = result] ELSE Idle]

On(h, op, step) == req[h].op = op /\ req[h].step = step

TaskServiceInit ==
    /\ rows = [id \in TaskIds |-> NoRow]
    /\ req = [h \in Handlers |-> Idle]
    /\ chan = [s \in Subscribers |-> <<>>]
    /\ feed = [s \in Subscribers |-> [id \in TaskIds |-> Absent]]

(* A request arrives and gets a goroutine. *)
Receive(h, request) ==
    /\ req[h] = Idle
    /\ req' = [req EXCEPT ![h] = request]

(* POST /tasks: one INSERT, whatever status the body asks for. *)
CreateTask(h) ==
    /\ On(h, "create", "write")
    /\ rows' = [rows EXCEPT ![IdOf(h)] =
                  [status |-> "Processing", actions |-> FALSE]]
    /\ req' = [req EXCEPT ![h].step = "publish", ![h].read = "Processing"]
    /\ UNCHANGED <<chan, feed>>

(* PATCH /tasks/{id}/status, first part: 404 and 409 answer here. *)
FindByID(h) ==
    /\ On(h, "update", "find")
    /\ IF req[h].status \in validTransitions(rows[IdOf(h)].status)
         THEN Goes(h, "write")
         ELSE Answer(h, "err")
    /\ UNCHANGED <<rows, chan, feed>>

(* Mutant of UpdateStatus: a refused write is answered like the others.    *)
UpdateStatusSwallows(h) ==
    /\ On(h, "update", "write")
    /\ LET id == IdOf(h)
           old == rows[id]
       IN IF old.status \in Missing
            THEN Answer(h, "err") /\ UNCHANGED rows
            ELSE /\ rows' = [rows EXCEPT ![id] =
                               IF old.status \in Terminal THEN old ELSE
                               [status |-> req[h].status,
                                actions |-> old.actions \/ req[h].actions]]
                 /\ Goes(h, "reread")
    /\ UNCHANGED <<chan, feed>>

(* Second part, the UPDATE: columns the body leaves out keep their value,  *)
(* and the trigger refuses a row that has become terminal meanwhile.       *)
UpdateStatus(h) ==
    /\ On(h, "update", "write")
    /\ LET id == IdOf(h)
           old == rows[id]
       IN IF old.status \in Terminal \cup Missing
            THEN Answer(h, "err") /\ UNCHANGED rows
            ELSE /\ rows' = [rows EXCEPT ![id] =
                               [status |-> req[h].status,
                                actions |-> old.actions \/ req[h].actions]]
                 /\ Goes(h, "reread")
    /\ UNCHANGED <<chan, feed>>

(* Third part: the row is read back for the feed and the answer. *)
Reread(h) ==
    /\ On(h, "update", "reread")
    /\ LET now == rows[IdOf(h)].status
       IN IF now \in Missing
            THEN Answer(h, "err")
            ELSE req' = [req EXCEPT ![h].step = "publish", ![h].read = now]
    /\ UNCHANGED <<rows, chan, feed>>

(* DELETE /tasks/{id}: nothing is published. *)
DeleteTask(h) ==
    /\ On(h, "delete", "write")
    /\ IF rows[IdOf(h)].status \in Missing
         THEN Answer(h, "err") /\ UNCHANGED rows
         ELSE Answer(h, "ok") /\ rows' = [rows EXCEPT ![IdOf(h)] = Gone]
    /\ UNCHANGED <<chan, feed>>

(* Mutant of BulkUpdateStatus: terminal rows are written over.             *)
BulkUpdateStatusUnchecked(h) ==
    /\ On(h, "bulk", "write")
    /\ LET hit == {id \in req[h].ids : rows[id].status \notin Missing}
       IN /\ rows' = [id \in TaskIds |->
                        IF id \in hit THEN [rows[id] EXCEPT !.status = req[h].status]
                                      ELSE rows[id]]
          /\ IF hit = {} THEN Answer(h, "ok")
             ELSE req' = [req EXCEPT ![h].ids = hit, ![h].step = "publish"]
    /\ UNCHANGED <<chan, feed>>

(* Mutant of BulkUpdateStatus: a refused update is published too.          *)
BulkUpdateStatusAnnounces(h) ==
    /\ On(h, "bulk", "write")
    /\ LET hit == {id \in req[h].ids : rows[id].status \notin Missing}
       IN /\ rows' = [id \in TaskIds |->
                        IF id \in hit /\ rows[id].status \notin Terminal
                          THEN [rows[id] EXCEPT !.status = req[h].status] ELSE rows[id]]
          /\ IF hit = {} THEN Answer(h, "ok")
             ELSE req' = [req EXCEPT ![h].ids = hit, ![h].step = "publish"]
    /\ UNCHANGED <<chan, feed>>

(* PATCH /tasks/bulk/status: one UPDATE over every listed row.  Rows that  *)
(* do not exist are not matched; a terminal one makes the trigger abort    *)
(* the whole statement.                                                    *)
BulkUpdateStatus(h) ==
    /\ On(h, "bulk", "write")
    /\ LET hit == {id \in req[h].ids : rows[id].status \notin Missing}
       IN IF \E id \in hit : rows[id].status \in Terminal
            THEN Answer(h, "err") /\ UNCHANGED rows
            ELSE /\ rows' = [id \in TaskIds |->
                               IF id \in hit
                                 THEN [rows[id] EXCEPT !.status = req[h].status]
                                 ELSE rows[id]]
                 /\ IF hit = {} THEN Answer(h, "ok")
                    ELSE req' = [req EXCEPT ![h].ids = hit, ![h].step = "publish"]
    /\ UNCHANGED <<chan, feed>>

(* Hub.Publish of one task, last step of a create or an update and one of  *)
(* several of a bulk update: a full channel drops the message.             *)
Publish(h, id) ==
    /\ req[h].step = "publish"
    /\ id \in req[h].ids
    /\ chan' = [s \in Subscribers |->
                  IF Len(chan[s]) < Buffer
                    THEN Append(chan[s], <<id, req[h].read>>) ELSE chan[s]]
    /\ IF req[h].ids = {id} THEN Answer(h, "ok")
       ELSE req' = [req EXCEPT ![h].ids = @ \ {id}]
    /\ UNCHANGED <<rows, feed>>

(* SSEHandler writes the next message and the page upserts it. *)
ServeHTTP(s) ==
    /\ chan[s] # <<>>
    /\ chan' = [chan EXCEPT ![s] = Tail(@)]
    /\ feed' = [feed EXCEPT ![s][Head(chan[s])[1]] = Head(chan[s])[2]]
    /\ UNCHANGED <<rows, req>>

(* A statement fails: the handler answers 500 and changes nothing. *)
StatementFails(h) ==
    /\ "db" \in Faults
    /\ req[h].step \in {"find", "write", "reread"}
    /\ Answer(h, "err")
    /\ UNCHANGED <<rows, chan, feed>>

(* The caller has gone, so the request's context is cancelled and the next *)
(* statement does not run.                                                 *)
Cancelled(h) ==
    /\ req[h].client = Nobody
    /\ req[h].step \in {"find", "write", "reread"}
    /\ req' = [req EXCEPT ![h] = Idle]
    /\ UNCHANGED <<rows, chan, feed>>

ServerStep(h) ==
    \/ CreateTask(h) \/ FindByID(h) \/ UpdateStatus(h) \/ Reread(h)
    \/ DeleteTask(h) \/ BulkUpdateStatus(h)
    \/ StatementFails(h) \/ Cancelled(h)
    \/ \E id \in TaskIds : Publish(h, id)

-----------------------------------------------------------------------------
(* The service on its own, under requests for one task or several from     *)
(* callers that do not coordinate.  A task is created once: its id is a    *)
(* fresh ULID.                                                             *)

Created(id) == \/ rows[id].status # Absent
               \/ \E h \in Handlers : req[h].op # "none" /\ id \in req[h].ids

Arrive(h) ==
    /\ \E c \in Clients :
         /\ \A g \in Handlers : req[g].client # c
         /\ \/ \E id \in TaskIds :
                 /\ ~Created(id)
                 /\ Receive(h, Request("create", {id}, "Processing", FALSE, c))
            \/ \E id \in TaskIds, st \in {"Completed", "Failed", "Timeout"} :
                 Receive(h, Request("update", {id}, st, st = "Completed", c))
            \/ \E id \in TaskIds : Receive(h, Request("delete", {id}, Absent, FALSE, c))
            \/ \E ids \in SUBSET TaskIds, st \in {"Timeout", "PendingApproval"} :
                 /\ ids # {}
                 /\ Receive(h, Request("bulk", ids, st, FALSE, c))
    /\ UNCHANGED <<rows, chan, feed>>

(* The client takes the answer, and the goroutine ends. *)
Take(h) ==
    /\ req[h].step \in {"ok", "err"}
    /\ req' = [req EXCEPT ![h] = Idle]
    /\ UNCHANGED <<rows, chan, feed>>

(* The client gives up (a 10 s timeout in the runtime) while the request   *)
(* is being served.                                                        *)
GiveUp(h) ==
    /\ req[h].client \in Clients
    /\ req[h].step \notin {"idle", "ok", "err"}
    /\ req' = [req EXCEPT ![h].client = Nobody]
    /\ UNCHANGED <<rows, chan, feed>>

TaskServiceNext ==
    \/ \E h \in Handlers : Arrive(h) \/ Take(h) \/ GiveUp(h) \/ ServerStep(h)
    \/ \E s \in Subscribers : ServeHTTP(s)

TaskServiceSpec == TaskServiceInit /\ [][TaskServiceNext]_tsVars

-----------------------------------------------------------------------------
(* A PATCH that has written tells the truth: until it answers, and in a    *)
(* 200 answer, the task has the status it asked for, unless someone        *)
(* deleted it.  It needs the check at update_status.go:45-48 and the       *)
(* trigger together: either alone lets a second request, past its check,   *)
(* overwrite the first one's outcome.                                      *)
OkMeansWritten ==
    \A h \in Handlers :
        req[h].op = "update" /\ req[h].step \in {"reread", "publish", "ok"} =>
            \A id \in req[h].ids :
                rows[id].status \in {req[h].status, Deleted}

(* No statement changes a task in a terminal status: it keeps status and   *)
(* action results until it is deleted (ADR-0013, migration 000004).        *)
TerminalImmutable ==
    [][\A id \in TaskIds :
         rows[id].status \in Terminal => rows'[id] \in {rows[id], Gone}]_tsVars

(* A page that shows a task in a terminal status shows the status the      *)
(* table holds, however late the message is and whatever was dropped on a  *)
(* full channel (hub.go:25-34, update_status.go:54-58).                    *)
FeedTruth ==
    \A s \in DOMAIN feed, id \in TaskIds :
        feed[s][id] \in Terminal => rows[id].status \in {feed[s][id], Deleted}

=============================================================================
