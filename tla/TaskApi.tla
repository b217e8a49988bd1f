-------------------------------- MODULE TaskApi --------------------------------
(***************************************************************************)
(* The read side of task-service: paging through the tasks table, the      *)
(* retry lineage of a task, and the monthly partitions a row has to fall   *)
(* into.  TaskService models the writes request by request; here a write   *)
(* is one statement that may fall between two pages of a reader.           *)
(*                                                                         *)
(* A task's id is its place in ULID order, its received_at a day of a      *)
(* calendar with months of different lengths.  The primary key is          *)
(* (id, received_at), and the runtime draws every id once.                 *)
(***************************************************************************)
EXTENDS Integers, Sequences, FiniteSets, SequencesExt

CONSTANTS
    ApiIds,         \* ids the runtimes may draw, each once; numbers in ULID order
    ApiHandlers,    \* handlers the tasks belong to
    Readers,        \* clients that page through GET /tasks
    Queries,        \* the query strings they send
    MonthStarts,    \* the days the months 0, 1, 2 ... begin on, a sequence
    MaxTick,        \* bound on the clock, in days
    MaxReadTick,    \* the same in the scenarios that are not about months
    DefaultLimit    \* 50 in the code

VARIABLES
    apiScope,       \* what happens in this scenario: "retry", "update",
                    \* "delete", "read", "month"
    drawn,          \* ids in use or used up
    tasks,          \* the tasks table: a set of rows
    partitions,     \* months that have a partition
    clock,          \* the day it is
    started,        \* the day task-service was last started
    reader          \* each reader's walk through the pages

apiVars == <<apiScope, drawn, tasks, partitions, clock, started, reader>>

NoTask == 0

Month(day) == Cardinality({i \in DOMAIN MonthStarts : MonthStarts[i] <= day}) - 1

(* time.AddDate(0, 1, 0): a day the next month does not have runs over     *)
(* into the month after it.                                                *)
NextMonth(day) == Month(MonthStarts[Month(day) + 2] + (day - MonthStarts[Month(day) + 1]))

ApiStatus == {"Processing", "Completed"}

(* taskRow: what the queries below look at.                                *)
TaskRow == [id : ApiIds, at : 0..MaxTick, handler : ApiHandlers,
            status : ApiStatus, retryOf : ApiIds \cup {NoTask}]

NoQuery == [handler |-> "", status |-> "", since |-> 0, asc |-> FALSE, limit |-> 0]

NoReader == [query |-> NoQuery, pages |-> <<>>, next |-> NoTask, turn |-> "idle",
             held |-> {}]

(* EnsurePartition, for now and for now.AddDate(0, 1, 0).                  *)
Ensured(day) == {Month(day), NextMonth(day)}

TaskApiInit(scopes) ==
    /\ apiScope \in scopes
    /\ drawn = {}
    /\ tasks = {}
    /\ clock \in (IF "month" \in apiScope THEN {d \in 0..MaxTick : Month(d) = 0} ELSE {0})
    /\ started = clock
    /\ partitions = Ensured(clock)
    /\ reader = [r \in Readers |-> NoReader]

(* main: the migrations, then the partitions, then the listener.           *)
ServiceStarts ==
    /\ "month" \in apiScope /\ started # clock
    /\ partitions' = partitions \cup Ensured(clock)
    /\ started' = clock
    /\ UNCHANGED <<apiScope, drawn, tasks, clock, reader>>

Ticks ==
    /\ clock < (IF "month" \in apiScope THEN MaxTick ELSE MaxReadTick)
    /\ clock' = clock + 1
    /\ UNCHANGED <<apiScope, drawn, tasks, partitions, started, reader>>

(* What a new row may carry: the runtime draws the ULID, whose low bits    *)
(* are random, and then reads the clock, and the INSERT arrives later.  So *)
(* the ids of two rows need not be in the order of their received_at, and  *)
(* two rows may have the same.                                             *)
Fresh(row) ==
    /\ row.at \in {clock, clock - 1}
    /\ row.status = "Processing"
    /\ row.id \notin drawn
    /\ row.retryOf # NoTask => /\ "retry" \in apiScope
                              /\ \E t \in tasks : t.id = row.retryOf

(* Ids and received_at put these two rows in the same order.               *)
Agree(t, u) == t.id = u.id \/ (t.id < u.id /\ t.at < u.at) \/ (t.id > u.id /\ t.at > u.at)

(* Readers in rs need not meet these ids any more (history).               *)
Releases(ids, rs) ==
    [r \in Readers |-> IF r \in rs THEN [reader[r] EXCEPT !.held = @ \ ids]
                       ELSE reader[r]]

(* POST /tasks.  The INSERT fails when no partition takes the row.         *)
CreateRow(row) ==
    /\ Fresh(row)
    /\ drawn' = drawn \cup {row.id}
    /\ tasks' = IF Month(row.at) \in partitions THEN tasks \cup {row} ELSE tasks
    /\ reader' = Releases({t.id : t \in {u \in tasks : ~Agree(u, row)}}, Readers)
    /\ UNCHANGED <<apiScope, partitions, clock, started>>

(* A PATCH that went through: a row leaves Processing.                     *)
UpdateRow(t, status) ==
    /\ "update" \in apiScope
    /\ t.status = "Processing" /\ status # "Processing"
    /\ tasks' = (tasks \ {t}) \cup {[t EXCEPT !.status = status]}
    /\ reader' = Releases({t.id}, {r \in Readers : reader[r].query.status # ""})
    /\ UNCHANGED <<apiScope, drawn, partitions, clock, started>>

DeleteRow(t) ==
    /\ "delete" \in apiScope
    /\ tasks' = tasks \ {t}
    /\ reader' = Releases({t.id}, Readers)
    /\ UNCHANGED <<apiScope, drawn, partitions, clock, started>>

Matches(q, t) ==
    /\ q.handler # "" => t.handler = q.handler
    /\ q.status # "" => t.status = q.status
    /\ t.at >= q.since

(* Mutant of After: the row the cursor names comes again.                  *)
AfterInclusive(q, cursor, t) ==
    cursor = NoTask \/ (IF q.asc THEN t.id >= cursor ELSE t.id <= cursor)

(* The cursor is an id: the page begins after it in the direction read.    *)
After(q, cursor, t) ==
    cursor = NoTask \/ (IF q.asc THEN t.id > cursor ELSE t.id < cursor)

(* ORDER BY received_at: rows that have the same come in any order.        *)
InOrder(q, rows) ==
    {s \in SetToSeqs(rows) : IsSorted(s, LAMBDA t, u : IF q.asc THEN t.at <= u.at ELSE t.at >= u.at)}

Capped(s, n) == SubSeq(s, 1, IF Len(s) < n THEN Len(s) ELSE n)

(* TaskRepository.List: filter, order, and the default limit for any limit *)
(* that is not positive.  The pages it may answer with.                    *)
List(q, cursor) ==
    {Capped(s, IF q.limit <= 0 THEN DefaultLimit ELSE q.limit) :
       s \in InOrder(q, {t \in tasks : Matches(q, t) /\ After(q, cursor, t)})}

(* ListTasksQuery: a full page names its last row as the next cursor; a    *)
(* limit that is not positive never has a next page.                       *)
NextCursor(q, page) ==
    IF Len(page) = q.limit /\ q.limit > 0 THEN Last(page).id ELSE NoTask

(* The rows a walk that begins now has to meet.                            *)
Owed(q) == {t.id : t \in {u \in tasks : Matches(q, u) /\ \A v \in tasks : Agree(u, v)}}

(* GET /tasks: the first page of a query, or the page after the cursor.    *)
ListTasks(r, q) ==
    LET first == reader[r].turn = "idle"
    IN /\ "read" \in apiScope
       /\ first \/ (reader[r].turn = "paging" /\ q = reader[r].query)
       /\ \E page \in List(q, reader[r].next) :
            LET next == NextCursor(q, page)
            IN reader' = [reader EXCEPT ![r] =
                 [query |-> q, next |-> next,
                  pages |-> @.pages \o [i \in DOMAIN page |-> page[i].id],
                  turn |-> IF next = NoTask THEN "done" ELSE "paging",
                  held |-> IF first THEN Owed(q) ELSE @.held]]
       /\ UNCHANGED <<apiScope, drawn, tasks, partitions, clock, started>>

(* findRoot: up the retry_of links; a link to a deleted task is an error   *)
(* (NoTask).                                                               *)
findRoot(id) ==
    LET link == [i \in {t.id : t \in tasks} |->
                    (CHOOSE t \in tasks : t.id = i).retryOf]
        up[i \in ApiIds] == IF i \notin DOMAIN link THEN NoTask
                            ELSE IF link[i] = NoTask THEN i ELSE up[link[i]]
    IN up[id]

(* TaskRepository.Lineage: the root and the rows that name it.             *)
Lineage(id) ==
    LET root == findRoot(id)
    IN IF root = NoTask THEN {}
       ELSE {t \in tasks : t.id = root \/ t.retryOf = root}

TaskApiNext ==
    \/ ServiceStarts
    \/ Ticks
    \/ \E row \in TaskRow : CreateRow(row)
    \/ \E t \in tasks, s \in ApiStatus : UpdateRow(t, s)
    \/ \E t \in tasks : DeleteRow(t)
    \/ \E r \in Readers, q \in Queries : ListTasks(r, q)

-----------------------------------------------------------------------------
(* A client that follows next_cursor to the end has met exactly once every *)
(* task that matched when it began, neither was deleted nor left the       *)
(* status asked for meanwhile, and stood with every other task in the same *)
(* order by id and by received_at: whatever was inserted, updated or       *)
(* deleted between its pages, and however the others are ordered (List and *)
(* ListTasksQuery, which sort by the one and cut by the other).  A limit   *)
(* that is not positive is answered with one page and no cursor, and is    *)
(* not covered.                                                            *)
PagesAddUp ==
    \A r \in Readers :
        LET w == reader[r]
            met(id) == Cardinality({i \in DOMAIN w.pages : w.pages[i] = id})
        IN w.query.limit > 0 =>
             \A id \in w.held : met(id) <= 1 /\ (w.turn = "done" => met(id) = 1)

(* findRoot and Lineage: wherever a task stands in a chain of retries, and *)
(* whatever was deleted from the chain, it is answered with the lineage of *)
(* the task it retries, and a direct retry of a root finds both in it.  A  *)
(* retry of a retry is in no lineage, its own included.                    *)
LineageShared ==
    \A t, u \in tasks : t.retryOf = u.id =>
        /\ Lineage(t.id) = Lineage(u.id)
        /\ u.retryOf = NoTask => {t, u} \subseteq Lineage(t.id)

(* What a client reads of the table: the pages of a walk add up for every  *)
(* task that is in order, and the attempts at a task share their lineage   *)
(* (List, Lineage).                                                        *)
RowsFound == PagesAddUp /\ LineageShared

(* main, "Ensure current and next month partitions exist": a task-service  *)
(* that was started this month or the month before takes today's tasks.    *)
PartitionsReachNextMonth ==
    Month(clock) \in {Month(started), Month(started) + 1} => Month(clock) \in partitions
=============================================================================
