------------------------------ MODULE Adapters ------------------------------
(***************************************************************************)
(* The event adapters: the alertmanager and the audit webhook, the builder *)
(* of their CloudEvents and the publisher with its retries.                *)
(*                                                                         *)
(* A sender posts a batch and may post it again when it was not answered   *)
(* in time; the handler of the first post goes on meanwhile.  The stream   *)
(* (JetStream, external) stores a message, or drops it as a duplicate when *)
(* it has seen the message id within its window, and its answer may be     *)
(* lost on the way.  The window (60 s) is as long as the time to live of a *)
(* publish: it does not end for a message while the publish that stored it *)
(* is still being retried, and may end at any moment after that.           *)
(***************************************************************************)
EXTENDS Naturals, Sequences, FiniteSets

CONSTANTS
    Batches,      \* the batches a sender may post: sequences of alerts, with or
                  \* without the kape_subject label, and of audit events
    MaxPosts,     \* bound: posts, repeated ones included
    MaxOutages    \* bound: publish attempts that fail or whose answer is lost

(* An alert (labelled or not), or one stage of an audit event, whose name is its *)
(* auditID: the stages of one event share it.                                    *)
Items == [kind : {"alert", "unlabelled", "audit"}, name : STRING, stage : STRING]

ASSUME BatchesAssumption == Batches \subseteq Seq(Items)

VARIABLES
    post,      \* the requests: batch, items done, state of the current publish
    stored,    \* the messages of the stream: item, id, the post and place it came from,
               \* and whether the stream still knows the id
    tally,     \* the counters: received, published, errors; skipped is only logged
    outages    \* publish attempts that failed so far

adapterVars == <<post, stored, tally, outages>>

AdaptersInit ==
    /\ post = <<>> /\ stored = <<>> /\ outages = 0
    /\ tally = [received |-> 0, published |-> 0, errors |-> 0, skipped |-> 0]

NoId == [post |-> 0, at |-> 0, name |-> "none"]

(* A sender posts a batch, for the first time or again; an empty one is    *)
(* answered at once.                                                       *)
Receive(batch) ==
    /\ Len(post) < MaxPosts
    /\ post' = Append(post, [batch |-> batch, at |-> 1, pc |-> IF batch = <<>> THEN "answered" ELSE "item",
                             id |-> NoId, outcome |-> <<>>])
    /\ UNCHANGED <<stored, tally, outages>>

(* Build and BuildAudit: a new UUID for an alert, the auditID, whatever    *)
(* the stage, for an audit event.                                          *)
EventId(p, at, item) ==
    IF item.kind = "audit" THEN [post |-> 0, at |-> 0, name |-> item.name]
    ELSE [post |-> p, at |-> at, name |-> "none"]

Item(p) == post[p].batch[post[p].at]

(* The loop goes on to the next item, or answers 200.                      *)
NextItem(p, outcome) ==
    LET rest == post[p].at < Len(post[p].batch)
    IN post' = [post EXCEPT ![p].at = @ + 1, ![p].outcome = Append(@, outcome), ![p].id = NoId,
                            ![p].pc = IF rest THEN "item" ELSE "answered"]

Count(field) == tally' = [tally EXCEPT ![field] = @ + 1]

(* ServeHTTP takes the next item: one that Build refuses is skipped.       *)
TakeItem(p) ==
    /\ post[p].pc = "item"
    /\ IF Item(p).kind = "unlabelled"
         THEN /\ tally' = [tally EXCEPT !.received = @ + 1, !.skipped = @ + 1]
              /\ NextItem(p, "skipped")
         ELSE Count("received") /\ post' = [post EXCEPT ![p].pc = "publish", ![p].id = EventId(p, post[p].at, Item(p))]
    /\ UNCHANGED <<stored, outages>>

(* The stream takes the message, unless it knows its id.                   *)
Stores(p) ==
    stored' = IF \E i \in DOMAIN stored : stored[i].id = post[p].id /\ stored[i].known THEN stored
              ELSE Append(stored, [item |-> Item(p), id |-> post[p].id, post |-> p, at |-> post[p].at,
                                   known |-> TRUE])

(* Publish: the attempt is acknowledged.                                   *)
PublishOk(p) ==
    /\ post[p].pc = "publish"
    /\ Stores(p) /\ Count("published") /\ NextItem(p, "published")
    /\ UNCHANGED outages

(* An attempt fails, before the stream took it or after; it is retried     *)
(* with backoff.                                                           *)
PublishFails(p, taken) ==
    /\ post[p].pc = "publish" /\ outages < MaxOutages
    /\ outages' = outages + 1
    /\ IF taken THEN Stores(p) ELSE UNCHANGED stored
    /\ UNCHANGED <<post, tally>>

(* Mutant of PublishExpires: the rest of the batch is given up as well.    *)
PublishExpiresAll(p) ==
    /\ post[p].pc = "publish" /\ outages > 0
    /\ Count("errors") /\ post' = [post EXCEPT ![p].pc = "answered"]
    /\ UNCHANGED <<stored, outages>>

(* The time to live runs out: the event is dropped, the loop goes on.      *)
PublishExpires(p) ==
    /\ post[p].pc = "publish" /\ outages > 0
    /\ Count("errors") /\ NextItem(p, "dropped")
    /\ UNCHANGED <<stored, outages>>

(* The window ends for a message whose publish is over.                    *)
WindowEnds(i) ==
    /\ stored[i].known
    /\ post[stored[i].post].at # stored[i].at
    /\ stored' = [stored EXCEPT ![i].known = FALSE]
    /\ UNCHANGED <<post, tally, outages>>

AdaptersNext ==
    \/ \E batch \in Batches : Receive(batch)
    \/ \E i \in DOMAIN stored : WindowEnds(i)
    \/ \E p \in DOMAIN post :
         \/ TakeItem(p) \/ PublishOk(p) \/ PublishExpires(p)
         \/ \E taken \in BOOLEAN : PublishFails(p, taken)

-----------------------------------------------------------------------------
(* Properties.                                                             *)

(* Publish with WithMsgID: whatever answers are lost, an attempt and its   *)
(* retries leave one message, and however often an audit event is posted,  *)
(* and by however many handlers at once, the stream takes its auditID again *)
(* only when the window of the earlier message is over (ADR-0044).         *)
StoredOnce ==
    \A i, j \in DOMAIN stored :
        i < j /\ stored[i].id = stored[j].id =>
            ~stored[i].known /\ <<stored[i].post, stored[i].at>> # <<stored[j].post, stored[j].at>>

(* ServeHTTP: a post that was answered 200 has an outcome for each of its  *)
(* items, those after a dropped one included; the counters add up to the   *)
(* items received; and what counts as published is in the stream, except   *)
(* that of an audit event another stage may have come first and stand for  *)
(* it.                                                                     *)
AnsweredAccounted ==
    /\ \A p \in DOMAIN post : post[p].pc = "answered" =>
         /\ Len(post[p].outcome) = Len(post[p].batch)
         /\ \A k \in DOMAIN post[p].outcome : post[p].outcome[k] = "published" =>
              \E i \in DOMAIN stored :
                /\ stored[i].id = EventId(p, k, post[p].batch[k])
                /\ stored[i].item = [post[p].batch[k] EXCEPT !.stage = stored[i].item.stage]
                /\ post[p].batch[k].kind = "alert" => stored[i].item = post[p].batch[k]
    /\ tally.received = tally.published + tally.errors + tally.skipped
                          + Cardinality({p \in DOMAIN post : post[p].pc = "publish"})

(* An answered webhook tells the truth: each item it counts as published is in *)
(* the stream, once for each window, and the others are counted as lost        *)
(* (ServeHTTP, Publish).                                                       *)
WebhookTruth == StoredOnce /\ AnsweredAccounted
=============================================================================
