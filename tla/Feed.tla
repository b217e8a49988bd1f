---------------------------------- MODULE Feed ----------------------------------
(* How clients read one agent's event log: the bounded cursor reads of REST and *)
(* MCP (EventHub.Read, ReadFiltered, ReadLast), the one-batch replay of          *)
(* stream_events and the server-sent-event stream with its re-attach             *)
(* (controller/events.go, http.go, mcpapi.go).  A client polls on from the last  *)
(* sequence number it was given and re-attaches with its Last-Event-ID.          *)
EXTENDS Integers, Sequences

CONSTANTS
  Streams,        \* SSE connections' clients
  MaxFeed,        \* bound: events appended
  FeedCap,        \* capacity of a subscriber's channel; the code's is 256
  MaxAttach,      \* bound: attachments of one stream client
  ReadRequests    \* the queries: records over after, limit, last, types, deltas

(* the value of an absent query parameter, and of one that does not parse *)
Absent == -1
Bad == -2
Delta == "text_delta"
EventTypes == {"message", Delta}
DefaultReadLimit == MaxFeed  \* the code's 1000: more than the log ever holds here

ASSUME FeedAssumption ==
  /\ MaxFeed \in Nat /\ FeedCap \in Nat
  /\ ReadRequests \subseteq [api : {"rest", "mcp"}, after : Int, limit : Int, last : Int,
                             types : SUBSET EventTypes, deltas : BOOLEAN]

VARIABLES
  feed,      \* the stored log: event types, the position is the sequence number
  poller,    \* the polling client: its query, its cursor and what it was given
  answer,    \* the last answer: mode, what it holds, the log length it was read at
  stream,    \* per stream client: attached, received sequence numbers, attachments, overflow
  feedChan   \* per stream client: its channel

feedVars == <<feed, poller, answer, stream, feedChan>>

FeedInit ==
  /\ feed = <<>> /\ poller \in [query : ReadRequests, after : {0}, got : {<<>>}]
  /\ answer = [mode |-> "none", seqs |-> <<>>, limit |-> 0, at |-> 0]
  /\ stream = [s \in Streams |-> [on |-> FALSE, got |-> <<>>, attached |-> 0, overflowed |-> FALSE]]
  /\ feedChan = [s \in Streams |-> <<>>]

-------------------------------------------------------------------------------
(* The reads *)

Wanted(seq, types) == types = {} \/ feed[seq] \in types

Kept(after, types, exclude) ==
  {seq \in DOMAIN feed : seq > after /\ feed[seq] \notin exclude /\ Wanted(seq, types)}

(* the loop over the log, which stops at the limit; 0 is no limit *)
Taken(kept, limit) ==
  LET out[n \in 0..Len(feed)] ==
        IF n = 0 THEN <<>>
        ELSE IF n \notin kept \/ (limit > 0 /\ Len(out[n - 1]) = limit) THEN out[n - 1]
        ELSE Append(out[n - 1], n)
  IN out[Len(feed)]

\* Mutant: the event at the cursor is given again.
FilterEventsInclusive(after, limit, types, exclude) == Taken(Kept(after - 1, types, exclude), limit)

(* filterEventsExcluding: what the filter passes counts towards the limit *)
FilterEvents(after, limit, types, exclude) == Taken(Kept(after, types, exclude), limit)

ReadLast(n, types) ==
  LET seqs == FilterEvents(0, 0, types, {}) IN
  IF Len(seqs) > n THEN SubSeq(seqs, Len(seqs) - n + 1, Len(seqs)) ELSE seqs

(* parseReadParams: which query is refused *)
Refused(q) ==
  \/ q.after # Absent /\ q.last # Absent
  \/ q.last # Absent /\ q.limit # Absent
  \/ Bad \in {q.after, q.limit, q.last}
  \/ q.limit # Absent /\ q.limit <= 0

(* no pull parameter: the request is a stream request *)
IsPull(q) == q.after # Absent \/ q.limit # Absent \/ q.last # Absent \/ q.types # {}

(* one request of the polling client: its own cursor replaces the query's *)
PollAnswer(q, after) ==
  IF q.api = "rest"
  THEN CASE Refused(q) -> [mode |-> "refused", seqs |-> <<>>, limit |-> 0]
         [] ~Refused(q) /\ q.last # Absent -> [mode |-> "last", seqs |-> ReadLast(q.last, q.types), limit |-> q.last]
         [] OTHER -> LET n == IF q.limit = Absent THEN DefaultReadLimit ELSE q.limit IN
                     [mode |-> "read", seqs |-> FilterEvents(after, n, q.types, {}), limit |-> n]
  ELSE IF q.limit < 0 /\ q.limit # Absent THEN [mode |-> "refused", seqs |-> <<>>, limit |-> 0]
       ELSE LET n == IF q.limit \in {Absent, 0} THEN DefaultReadLimit ELSE q.limit IN
            [mode |-> "read", seqs |-> FilterEvents(after, n, q.types, IF q.deltas THEN {} ELSE {Delta}), limit |-> n]

Poll ==
  LET a == PollAnswer(poller.query, poller.after) IN
  /\ poller.query.api = "mcp" \/ IsPull(poller.query)
  /\ answer' = [mode |-> a.mode, seqs |-> a.seqs, limit |-> a.limit, at |-> Len(feed)]
  /\ poller' = IF a.mode = "read" /\ a.seqs # <<>>
               THEN [poller EXCEPT !.got = @ \o a.seqs, !.after = a.seqs[Len(a.seqs)]]
               ELSE poller
  /\ UNCHANGED <<feed, stream, feedChan>>

-------------------------------------------------------------------------------
(* Append and fan-out; the stream *)

(* a subscriber whose channel is full is skipped *)
FeedAppend(type) ==
  /\ Len(feed) < MaxFeed /\ feed' = Append(feed, type)
  /\ LET full(s) == stream[s].on /\ Len(feedChan[s]) = FeedCap IN
     /\ feedChan' = [s \in Streams |-> IF stream[s].on /\ ~full(s) THEN Append(feedChan[s], Len(feed')) ELSE feedChan[s]]
     /\ stream' = [s \in Streams |-> [stream[s] EXCEPT !.overflowed = @ \/ full(s)]]
  /\ UNCHANGED <<poller, answer>>

Cursor(s) == LET got == stream[s].got IN IF got = <<>> THEN 0 ELSE got[Len(got)]

ReplayAfter(cursor) == SubSeq([i \in DOMAIN feed |-> i], cursor + 1, Len(feed))

\* Mutant: the replay is read before the channel is registered, without the lock.
AttachGap(s) ==
  /\ ~stream[s].on /\ stream[s].attached < MaxAttach
  /\ stream' = [stream EXCEPT ![s].on = TRUE, ![s].attached = @ + 1,
                              ![s].got = @ \o SubSeq(ReplayAfter(Cursor(s)), 1, Len(feed) - Cursor(s) - 1)]
  /\ feedChan' = [feedChan EXCEPT ![s] = <<>>]
  /\ UNCHANGED <<feed, poller, answer>>

(* serveSSE: Subscribe from Last-Event-ID, then the replay is written out *)
Attach(s) ==
  /\ ~stream[s].on /\ stream[s].attached < MaxAttach
  /\ stream' = [stream EXCEPT ![s].on = TRUE, ![s].attached = @ + 1,
                              ![s].got = @ \o ReplayAfter(Cursor(s))]
  /\ feedChan' = [feedChan EXCEPT ![s] = <<>>]
  /\ UNCHANGED <<feed, poller, answer>>

Deliver(s) ==
  /\ stream[s].on /\ feedChan[s] # <<>>
  /\ stream' = [stream EXCEPT ![s].got = Append(@, Head(feedChan[s]))]
  /\ feedChan' = [feedChan EXCEPT ![s] = Tail(@)]
  /\ UNCHANGED <<feed, poller, answer>>

(* the connection ends, by the client, the network or a controller restart; *)
(* what is in the channel is gone                                            *)
Detach(s) ==
  /\ stream[s].on
  /\ stream' = [stream EXCEPT ![s].on = FALSE] /\ feedChan' = [feedChan EXCEPT ![s] = <<>>]
  /\ UNCHANGED <<feed, poller, answer>>

FeedNext ==
  \/ Poll \/ \E t \in EventTypes : FeedAppend(t)
  \/ \E s \in Streams : Attach(s) \/ Deliver(s) \/ Detach(s)

FeedSpec == FeedInit /\ [][FeedNext]_feedVars

-------------------------------------------------------------------------------
(* Properties *)

Excluded == IF poller.query.api = "mcp" /\ ~poller.query.deltas THEN {Delta} ELSE {}
Matching(upto) == {seq \in 1..upto : feed[seq] \notin Excluded /\ Wanted(seq, poller.query.types)}

Given(seqs) == {seqs[i] : i \in 1..Len(seqs)}
Increasing(seqs) == \A i, j \in 1..Len(seqs) : i < j => seqs[i] < seqs[j]

(* Polling on from the last sequence number neither skips nor repeats an event, *)
(* whatever the limit, the type filter and the appends between two polls:       *)
(* read_events promises no gaps and no duplicates across polls.                 *)
PollsAddUp == Increasing(poller.got) /\ Given(poller.got) = Matching(poller.after)

(* A batch shorter than its limit means there was nothing more to give: the     *)
(* excluded deltas never use up the limit (ReadFiltered).                       *)
ShortMeansDone ==
  answer.mode = "read" /\ Len(answer.seqs) < answer.limit => Given(poller.got) = Matching(answer.at)

(* A stream client that re-attaches with its Last-Event-ID sees every event     *)
(* once and in order, except where its channel overflowed.                      *)
StreamNoGap ==
  \A s \in Streams : ~stream[s].overflowed => stream[s].got = [i \in 1..Len(stream[s].got) |-> i]

(* Even then nothing is repeated or reordered.                                  *)
StreamOrdered == \A s \in Streams : Increasing(stream[s].got)

(* read_events: an agent that polls on sees each event it asked for once, and   *)
(* knows from a short batch that it has seen them all.                          *)
PollsFaithful == PollsAddUp /\ ShortMeansDone

(* serveSSE: a page that re-attaches has the feed in order, with no gap the     *)
(* overflow of its own channel did not make.                                    *)
StreamFaithful == StreamNoGap /\ StreamOrdered
===============================================================================
