-------------------------------- MODULE Runtime --------------------------------
(***************************************************************************)
(* The handler runtime (ConsumerLoop and its LangGraph agent) composed     *)
(* with task-service, JetStream and the dashboard.                         *)
(*                                                                         *)
(* A replica takes one message at a time: it acknowledges, creates the     *)
(* task, runs the agent, writes the outcome, runs the configured actions   *)
(* and writes their results.  Every call to task-service is a request that *)
(* interleaves with those of the other replicas and of an operator; an     *)
(* error raised outside the try block of process_message ends the process, *)
(* which the kubelet starts again.  JetStream redelivers a message nobody  *)
(* acknowledged.                                                           *)
(***************************************************************************)
EXTENDS TaskService

CONSTANTS
    Events,        \* messages of the handler's subject
    Malformed,     \* the ones whose CloudEvents envelope does not parse
    Replicas,      \* pods of the handler
    Actions,       \* configured post-decision actions
    MaxAttempts,   \* _llm_retry: stop_after_attempt (5 in the code)
    ToolTurns,     \* tool rounds before LangGraph's recursion limit
    MaxCrashes     \* bound: pods killed

Dashboard == "dashboard"

ASSUME RuntimeAssumption ==
    /\ Clients = Replicas \cup {Dashboard}
    /\ Dashboard \notin Replicas
    /\ Malformed \subseteq Events
    /\ {MaxAttempts, ToolTurns, MaxCrashes} \subseteq Nat

VARIABLES
    msg,           \* JetStream's view of each message
    pc, ev, task,  \* per replica: where it is, its message, its task
    result,        \* task_status the graph returned
    attempt, turn, \* retries of the graph, tool rounds of this attempt
    todo,          \* actions not run yet
    runs,          \* per event and action: how often it was evaluated
    taskOf,        \* ids of the tasks created for each event
    dlq,           \* events published to the dead letter subject
    finished,      \* tasks whose process_message returned
    lost,          \* per event: acknowledgements JetStream never got
    listed,        \* tasks on the operator's screen
    crashes

agentVars == <<result, attempt, turn>>
actionVars == <<todo, runs>>
rtVars == <<msg, pc, ev, task, agentVars, actionVars, taskOf, dlq, finished,
            listed, lost, crashes>>
vars == <<tsVars, rtVars>>

NoEvent == "none"

ReplicasInit ==
    /\ msg = [e \in Events |-> "queued"]
    /\ pc = [r \in Replicas |-> "fetch"]
    /\ ev = [r \in Replicas |-> NoEvent]
    /\ task = [r \in Replicas |-> NoEvent]
    /\ result = [r \in Replicas |-> Absent]
    /\ attempt = [r \in Replicas |-> 1]
    /\ turn = [r \in Replicas |-> 0]
    /\ todo = [r \in Replicas |-> {}]
    /\ runs = [e \in Events |-> [a \in Actions |-> 0]]
    /\ taskOf = [e \in Events |-> {}]
    /\ lost = [e \in Events |-> 0]
    /\ dlq = {} /\ finished = {} /\ listed = {}
    /\ crashes = 0

RuntimeInit == TaskServiceInit /\ ReplicasInit

At(r, label) == pc[r] = label
Goto(r, label) == pc' = [pc EXCEPT ![r] = label]

(* process_message is left, by return, by an exception or with the pod:    *)
(* its local variables are gone.                                           *)
Leave(r) ==
    /\ ev' = [ev EXCEPT ![r] = NoEvent]
    /\ task' = [task EXCEPT ![r] = NoEvent]
    /\ result' = [result EXCEPT ![r] = Absent]
    /\ attempt' = [attempt EXCEPT ![r] = 1]
    /\ turn' = [turn EXCEPT ![r] = 0]
    /\ todo' = [todo EXCEPT ![r] = {}]

-----------------------------------------------------------------------------
(* JetStream, as the consumer uses it. *)

(* sub.fetch(1): a queued message goes to one of the waiting pods. *)
Fetch(r, e) ==
    /\ At(r, "fetch") /\ msg[e] = "queued"
    /\ msg' = [msg EXCEPT ![e] = "delivered"]
    /\ ev' = [ev EXCEPT ![r] = e]
    /\ Goto(r, "ack")
    /\ UNCHANGED <<tsVars, task, agentVars, actionVars, taskOf, dlq, finished,
                   listed, lost, crashes>>

(* The ack wait runs out for a message nobody is about to acknowledge: its *)
(* pod died first, or the acknowledgement was lost.                        *)
Redeliver(e) ==
    /\ msg[e] = "delivered"
    /\ \A r \in Replicas : ~(At(r, "ack") /\ ev[r] = e)
    /\ msg' = [msg EXCEPT ![e] = "queued"]
    /\ UNCHANGED <<tsVars, pc, ev, task, agentVars, actionVars, taskOf, dlq,
                   finished, listed, lost, crashes>>

-----------------------------------------------------------------------------
(* process_message *)

(* Mutant of Ack: the message is acknowledged after the work.              *)
AckAfterwards(r) ==
    /\ At(r, "ack")
    /\ UNCHANGED <<msg, lost>>
    /\ \E id \in TaskIds \ UNION {taskOf[e] : e \in Events} :
         /\ task' = [task EXCEPT ![r] = id]
         /\ taskOf' = [taskOf EXCEPT ![ev[r]] = @ \cup {id}]
    /\ Goto(r, IF ev[r] \in Malformed THEN "createBad" ELSE "create")
    /\ UNCHANGED <<tsVars, ev, agentVars, actionVars, dlq, finished, listed, crashes>>

(* Steps 1 to 3: a fresh ULID, the acknowledgement (a publish whose        *)
(* delivery nobody confirms: "ack" in Faults loses it) and the parse.      *)
Ack(r) ==
    /\ At(r, "ack")
    /\ \/ msg' = [msg EXCEPT ![ev[r]] = "acked"] /\ UNCHANGED lost
       \/ "ack" \in Faults /\ lost' = [lost EXCEPT ![ev[r]] = @ + 1] /\ UNCHANGED msg
    /\ \E id \in TaskIds \ UNION {taskOf[e] : e \in Events} :
         /\ task' = [task EXCEPT ![r] = id]
         /\ taskOf' = [taskOf EXCEPT ![ev[r]] = @ \cup {id}]
    /\ Goto(r, IF ev[r] \in Malformed THEN "createBad" ELSE "create")
    /\ UNCHANGED <<tsVars, ev, agentVars, actionVars, dlq, finished, listed, crashes>>

(* The task-service call each label makes. *)
CallOf(r) ==
    LET upd(st, acts) == Request("update", {task[r]}, st, acts, r)
    IN CASE pc[r] \in {"create", "createBad"} ->
              Request("create", {task[r]}, "Processing", FALSE, r)
         [] pc[r] = "unprocessable" -> upd("UnprocessableEvent", FALSE)
         [] pc[r] = "delete" -> Request("delete", {task[r]}, Absent, FALSE, r)
         [] pc[r] = "update" -> upd(result[r], FALSE)
         [] pc[r] = "record" -> upd(result[r], TRUE)
         [] pc[r] = "fail" -> upd("Failed", FALSE)

Calling == {"create", "createBad", "unprocessable", "delete", "update", "record", "fail"}

Waits(r, h) == req[h].client = r

(* TaskServiceClient sends the request. *)
Call(r) ==
    /\ pc[r] \in Calling
    /\ \A h \in Handlers : ~Waits(r, h)
    /\ \E h \in Handlers : Receive(h, CallOf(r))
    /\ UNCHANGED <<rows, chan, feed, rtVars>>

(* Where a successful call leads; actions run only on a validated output.  *)
NextAfterOk(r) ==
    CASE At(r, "create") -> "age"
      [] At(r, "createBad") -> "unprocessable"
      [] At(r, "update") /\ result[r] = "Completed" /\ Actions # {} -> "actions"
      [] OTHER -> "fetch"

(* Mutant of NextAfterError: an error is passed over.                      *)
NextAfterErrorIgnored(r) ==
    IF pc[r] \in {"update", "record"} THEN "fetch" ELSE "exited"

(* raise_for_status: inside the try block the except branch takes over,    *)
(* outside it the exception leaves process_message and run().              *)
NextAfterError(r) ==
    IF pc[r] \in {"update", "record"} THEN "dlq" ELSE "exited"

Continue(r, next) ==
    /\ Goto(r, next)
    /\ finished' = IF next = "fetch" THEN finished \cup {task[r]} ELSE finished
    /\ IF next \in {"fetch", "exited"}
         THEN Leave(r)
         ELSE /\ todo' = [todo EXCEPT ![r] = IF next = "actions" THEN Actions ELSE @]
              /\ UNCHANGED <<ev, task, agentVars>>
    /\ UNCHANGED <<rows, chan, feed, msg, runs, taskOf, dlq, listed, lost, crashes>>

(* The answer arrives, or the client's 10 s timeout does and the request   *)
(* goes on without a caller.                                               *)
Response(r) ==
    \E h \in Handlers :
        /\ Waits(r, h)
        /\ \/ /\ req[h].step = "ok"
              /\ req' = [req EXCEPT ![h] = Idle]
              /\ Continue(r, NextAfterOk(r))
           \/ /\ req[h].step = "err"
              /\ req' = [req EXCEPT ![h] = Idle]
              /\ Continue(r, NextAfterError(r))
           \/ /\ "timeout" \in Faults /\ req[h].step \notin {"ok", "err"}
              /\ req' = [req EXCEPT ![h].client = Nobody]
              /\ Continue(r, NextAfterError(r))

(* Mutant of Staleness: the task of a stale event stays open.              *)
StalenessKeepsTask(r) ==
    /\ At(r, "age")
    /\ \E label \in {"fetch", "reason"} : Continue(r, label)
    /\ UNCHANGED req

(* Step 4: an event that is too old is dropped with its task. *)
Staleness(r) ==
    /\ At(r, "age")
    /\ \E label \in {"delete", "reason"} : Continue(r, label)
    /\ UNCHANGED req

(* The reason node: the model asks for tools, or is done, or the call      *)
(* fails.  A transient failure runs the whole graph again until the        *)
(* attempts are used up; any other one is handled by the except branch.    *)
Reason(r) ==
    /\ At(r, "reason")
    /\ \/ Goto(r, "tools") /\ UNCHANGED <<attempt, turn>>
       \/ Goto(r, "respond") /\ UNCHANGED <<attempt, turn>>
       \/ /\ attempt[r] < MaxAttempts
          /\ attempt' = [attempt EXCEPT ![r] = @ + 1]
          /\ turn' = [turn EXCEPT ![r] = 0]
          /\ Goto(r, "reason")
       \/ Goto(r, "dlq") /\ UNCHANGED <<attempt, turn>>
    /\ UNCHANGED <<tsVars, msg, ev, task, result, actionVars, taskOf,
                   dlq, finished, listed, lost, crashes>>

(* The ToolNode, then back to reason; past the recursion limit the graph   *)
(* raises.                                                                 *)
CallTools(r) ==
    /\ At(r, "tools")
    /\ IF turn[r] < ToolTurns
         THEN turn' = [turn EXCEPT ![r] = @ + 1] /\ Goto(r, "reason")
         ELSE UNCHANGED turn /\ Goto(r, "dlq")
    /\ UNCHANGED <<tsVars, msg, ev, task, result, attempt, actionVars,
                   taskOf, dlq, finished, listed, lost, crashes>>

(* The respond node catches every exception of the structured call, a rate *)
(* limit included, and reports SchemaValidationFailed.                     *)
Respond(r) ==
    /\ At(r, "respond")
    /\ \E st \in {"Completed", "SchemaValidationFailed"} :
         result' = [result EXCEPT ![r] = st]
    /\ Goto(r, "update")
    /\ UNCHANGED <<tsVars, msg, ev, task, attempt, turn, actionVars, taskOf, dlq,
                   finished, listed, lost, crashes>>

(* run_actions: each action in turn is skipped by its condition, succeeds  *)
(* or fails; none of these raises, and dry_run is not consulted.           *)
RunAction(r, a) ==
    /\ At(r, "actions") /\ a \in todo[r]
    /\ runs' = [runs EXCEPT ![ev[r]][a] = @ + 1]
    /\ todo' = [todo EXCEPT ![r] = @ \ {a}]
    /\ Goto(r, IF todo[r] = {a} THEN "record" ELSE "actions")
    /\ UNCHANGED <<tsVars, msg, ev, task, agentVars, taskOf, dlq, finished,
                   listed, lost, crashes>>

(* The except branch: the original event goes to the dead letter subject   *)
(* (a failing publish is only logged), then the task is marked Failed.     *)
PublishDLQ(r) ==
    /\ At(r, "dlq")
    /\ \/ dlq' = dlq \cup {ev[r]}
       \/ "nats" \in Faults /\ UNCHANGED dlq
    /\ Goto(r, "fail")
    /\ UNCHANGED <<tsVars, msg, ev, task, agentVars, actionVars, taskOf, finished,
                   listed, lost, crashes>>

-----------------------------------------------------------------------------
(* The pod and the operator *)

(* The pod is killed; the server notices the broken connection. *)
Crash(r) ==
    /\ crashes < MaxCrashes /\ ~At(r, "exited")
    /\ crashes' = crashes + 1
    /\ Goto(r, "exited")
    /\ Leave(r)
    /\ req' = [h \in Handlers |->
                 IF ~Waits(r, h) THEN req[h]
                 ELSE IF req[h].step \in {"ok", "err"} THEN Idle
                 ELSE [req[h] EXCEPT !.client = Nobody]]
    /\ UNCHANGED <<rows, chan, feed, msg, runs, taskOf, dlq, finished, listed, lost>>

(* The container is started again and main() subscribes anew. *)
Restart(r) ==
    /\ At(r, "exited")
    /\ Goto(r, "fetch")
    /\ UNCHANGED <<tsVars, msg, ev, task, agentVars, actionVars, taskOf, dlq,
                   finished, listed, lost, crashes>>

(* GET /tasks?status=Processing fills the operator's screen. *)
ListTasks ==
    /\ listed' = {id \in TaskIds : rows[id].status = "Processing"}
    /\ listed' # listed
    /\ UNCHANGED <<tsVars, msg, pc, ev, task, agentVars, actionVars, taskOf, dlq,
                   finished, lost, crashes>>

(* The operator marks one task on the screen, or all of them, as Timeout;  *)
(* the screen may be out of date by then.                                  *)
MarkTimeout ==
    /\ listed # {}
    /\ \A h \in Handlers : ~Waits(Dashboard, h)
    /\ \E h \in Handlers :
         \/ \E id \in listed :
              Receive(h, Request("update", {id}, "Timeout", FALSE, Dashboard))
         \/ Receive(h, Request("bulk", listed, "Timeout", FALSE, Dashboard))
    /\ listed' = {}
    /\ UNCHANGED <<rows, chan, feed, msg, pc, ev, task, agentVars, actionVars,
                   taskOf, dlq, finished, lost, crashes>>

DashboardAnswer ==
    /\ \E h \in Handlers : Waits(Dashboard, h) /\ Take(h)
    /\ UNCHANGED rtVars

Consumer(r) ==
    \/ \E e \in Events : Fetch(r, e)
    \/ Ack(r) \/ Call(r) \/ Response(r) \/ Staleness(r)
    \/ Reason(r) \/ CallTools(r) \/ Respond(r)
    \/ \E a \in Actions : RunAction(r, a)
    \/ PublishDLQ(r) \/ Restart(r)

Server(h) == ServerStep(h) /\ UNCHANGED rtVars

Next ==
    \/ \E r \in Replicas : Consumer(r) \/ Crash(r)
    \/ \E e \in Events : Redeliver(e)
    \/ \E h \in Handlers : Server(h)
    \/ ListTasks \/ MarkTimeout \/ DashboardAnswer

Spec == RuntimeInit /\ [][Next]_vars

(* The event loop keeps running, the server keeps serving and the kubelet  *)
(* restarts a pod.  The model eventually stops asking for tools or         *)
(* failing only by the bounds on both.                                     *)
Fairness ==
    /\ \A r \in Replicas : WF_vars(Consumer(r))
    /\ \A h \in Handlers : WF_vars(Server(h))
    /\ \A e \in Events : WF_vars(Redeliver(e))
    /\ WF_vars(DashboardAnswer)

FairSpec == Spec /\ Fairness

-----------------------------------------------------------------------------
Working(e) == \E r \in Replicas : ev[r] = e

(* "ACK immediately — prevents other replicas from receiving this message" *)
(* (consumer.py:102): however pods die and messages are redelivered, an    *)
(* event gets one task and each of its actions runs at most once, and once *)
(* more for every acknowledgement that got lost.                           *)
AtMostOnce ==
    \A e \in Events :
        /\ Cardinality(taskOf[e]) <= 1 + lost[e]
        /\ \A a \in Actions : runs[e][a] <= 1 + lost[e]

(* When process_message returns the task it created is closed: terminal,   *)
(* or deleted because the event was stale (consumer.py:129-264).           *)
ReturnedIsClosed ==
    \A id \in finished : rows[id].status \in Terminal \cup {Deleted}

(* A task is marked Failed only after its event reached the dead letter    *)
(* subject, also when the pod dies between the two (consumer.py:241-264);  *)
(* a publish that fails is given up.                                       *)
FailedIsDeadLettered ==
    \A e \in Events : \A id \in taskOf[e] :
        rows[id].status = "Failed" /\ "nats" \notin Faults => e \in dlq

(* What a task says of its event is what happened to it (consumer.py): the *)
(* task of an event that was worked off is closed, and one marked Failed   *)
(* has its event on the dead letter subject.                               *)
RecordTrue == ReturnedIsClosed /\ FailedIsDeadLettered

(* Without crashes every message is worked off: in the end all are         *)
(* acknowledged, no replica is busy and no task is left Processing.        *)
Drained ==
    <>[](/\ \A e \in Events : msg[e] = "acked" /\ ~Working(e)
         /\ \A id \in TaskIds : rows[id].status # "Processing")

(* "Persist action results alongside the task record" (consumer.py:221):   *)
(* once the replica is done with an event whose actions ran, the task      *)
(* holds their results.                                                    *)
ActionsRecorded ==
    \A e \in Events :
        ~Working(e) /\ (\E a \in Actions : runs[e][a] > 0) =>
            \E id \in taskOf[e] : rows[id].actions

=============================================================================
