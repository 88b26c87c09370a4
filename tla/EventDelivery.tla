----------------------------- MODULE EventDelivery -----------------------------
(***************************************************************************)
(* How an event gets from B2B to moderation.  A handler of B2B inserts an  *)
(* outbox row in its transaction; publish_outbox_events, started over and  *)
(* over by a shell loop, adds the committed rows to the Redis stream;      *)
(* consume_b2b_events reads the stream as a consumer of a group.           *)
(*                                                                         *)
(* Any of these processes can die between two steps.                       *)
(***************************************************************************)
EXTENDS Naturals, Sequences, FiniteSets

CONSTANTS
    MaxRows,     \* bound: outbox rows ever inserted
    Relays,      \* concurrent runs of publish_outbox_events
    BatchLimit,  \* rows one run publishes at most (200)
    Consumers,   \* consumers of moderation's group
    ReadLimit,   \* stream entries one read returns at most (20)
    MaxCrashes   \* bound: runs, consumers and handlers that fail

ASSUME DeliveryAssumption ==
    /\ MaxRows \in Nat
    /\ BatchLimit \in Nat \ {0}
    /\ ReadLimit \in Nat \ {0}
    /\ MaxCrashes \in Nat

VARIABLES
    outbox,    \* per row id, the state of the row
    prior,     \* history: the rows that were committed when a row was inserted
    relay,     \* per run, the rows it has yet to publish
    stream,    \* the stream: row ids, in the order they were added
    consumer,  \* per consumer, the entries it has yet to process
    read,      \* the last entry the group has read (last-delivered-id)
    inbox,     \* IntegrationInbox: the entries recorded
    handled,   \* the entries enqueue_from_event has handled
    acked,     \* the entries acknowledged
    crashes    \* failures so far

outboxVars == <<outbox, prior>>
groupVars == <<consumer, read, inbox, handled, acked>>
deliveryVars == <<outbox, prior, relay, stream, consumer, read, inbox, handled, acked, crashes>>

Ids == 1..MaxRows
RowStates == {"none", "inserted", "rolled back", "waiting", "published"}
RelayState == [todo : SUBSET Ids, added : BOOLEAN]
IdleRelay == [todo |-> {}, added |-> FALSE]
ConsumerState == [todo : SUBSET (Nat \ {0}), pc : {"next", "recorded", "handled"}]
IdleConsumer == [todo |-> {}, pc |-> "next"]

TypeOK ==
    /\ outbox \in [Ids -> RowStates]
    /\ prior \in [Ids -> SUBSET Ids]
    /\ relay \in [Relays -> RelayState]
    /\ stream \in Seq(Ids)
    /\ consumer \in [Consumers -> ConsumerState]
    /\ \A c \in Consumers : consumer[c].todo \subseteq 1..read
    /\ read \in 0..Len(stream)
    /\ inbox \in SUBSET (1..read)
    /\ handled \in SUBSET (1..read)
    /\ acked \in SUBSET (1..read)
    /\ crashes \in 0..MaxCrashes

Init ==
    /\ outbox = [i \in Ids |-> "none"]
    /\ prior = [i \in Ids |-> {}]
    /\ relay = [r \in Relays |-> IdleRelay]
    /\ stream = <<>>
    /\ consumer = [c \in Consumers |-> IdleConsumer]
    /\ read = 0
    /\ inbox = {}
    /\ handled = {}
    /\ acked = {}
    /\ crashes = 0

-----------------------------------------------------------------------------
(* The outbox: the id is drawn when the row is inserted, the row can be    *)
(* seen when its transaction has committed.                                *)

Waiting == {i \in Ids : outbox[i] = "waiting"}
Committed == {i \in Ids : outbox[i] \in {"waiting", "published"}}
IsFirst(i, S) == i \in S /\ \A j \in S : i <= j

Insert(i) ==
    /\ outbox[i] = "none"
    /\ \A j \in Ids : j < i => outbox[j] # "none"
    /\ outbox' = [outbox EXCEPT ![i] = "inserted"]
    /\ prior' = [prior EXCEPT ![i] = Committed]
    /\ UNCHANGED <<relay, stream, groupVars, crashes>>

Commit(i) ==
    /\ outbox[i] = "inserted"
    /\ outbox' = [outbox EXCEPT ![i] = "waiting"]
    /\ UNCHANGED <<prior, relay, stream, groupVars, crashes>>

RollBack(i) ==
    /\ outbox[i] = "inserted"
    /\ outbox' = [outbox EXCEPT ![i] = "rolled back"]
    /\ UNCHANGED <<prior, relay, stream, groupVars, crashes>>

-----------------------------------------------------------------------------
(* publish_outbox_events.                                                  *)

(* The first BatchLimit unpublished rows in the order of their ids.        *)
AnyBatch(S) ==                                                          \* mutant
    /\ S \subseteq Waiting
    /\ Cardinality(S) <= BatchLimit
    /\ Cardinality(S) < BatchLimit => S = Waiting
IsBatch(S) ==
    /\ S \subseteq Waiting
    /\ \A i \in S, j \in Waiting : j < i => j \in S
    /\ Cardinality(S) <= BatchLimit
    /\ Cardinality(S) < BatchLimit => S = Waiting

ListRows(r) ==
    /\ relay[r].todo = {}
    /\ Waiting # {}
    /\ \E S \in SUBSET Ids :
         /\ IsBatch(S)
         /\ relay' = [relay EXCEPT ![r].todo = S]
    /\ UNCHANGED <<outboxVars, stream, groupVars, crashes>>

AddToStream(r) ==
    /\ ~relay[r].added
    /\ \E i \in Ids :
         /\ IsFirst(i, relay[r].todo)
         /\ stream' = Append(stream, i)
    /\ relay' = [relay EXCEPT ![r].added = TRUE]
    /\ UNCHANGED <<outboxVars, groupVars, crashes>>

Publish(r, i) ==
    /\ IsFirst(i, relay[r].todo)
    /\ outbox' = [outbox EXCEPT ![i] = "published"]
    /\ relay' = [relay EXCEPT ![r] = [todo |-> @.todo \ {i}, added |-> FALSE]]
    /\ UNCHANGED <<prior, stream, groupVars, crashes>>

MarkUnadded(r) == \E i \in Ids : Publish(r, i)                           \* mutant
MarkPublished(r) == relay[r].added /\ \E i \in Ids : Publish(r, i)

(* The run dies, or Redis or the database refuses a call.                  *)
RelayCrash(r) ==
    /\ relay[r].todo # {}
    /\ crashes < MaxCrashes
    /\ relay' = [relay EXCEPT ![r] = IdleRelay]
    /\ crashes' = crashes + 1
    /\ UNCHANGED <<outboxVars, stream, groupVars>>

-----------------------------------------------------------------------------
(* consume_b2b_events.                                                     *)

(* XREADGROUP ">": entries no consumer of the group has been given.        *)
ReadTo(c, last) ==
    /\ consumer[c].todo = {}
    /\ read < Len(stream)
    /\ read' = last
    /\ consumer' = [consumer EXCEPT ![c].todo = (read + 1)..last]
    /\ UNCHANGED <<outboxVars, relay, stream, inbox, handled, acked, crashes>>

ReadFull(c) == ReadTo(c, read + ReadLimit)                              \* mutant
ReadEntries(c) ==
    ReadTo(c, IF Len(stream) - read < ReadLimit THEN Len(stream) ELSE read + ReadLimit)

(* The inbox row commits on its own, before the event is handled.  Entries *)
(* are read once, so the lookup before it never finds one.                 *)
RecordEntry(c) ==
    /\ consumer[c].pc = "next"
    /\ \E e \in 1..read :
         /\ IsFirst(e, consumer[c].todo)
         /\ inbox' = inbox \union {e}
    /\ consumer' = [consumer EXCEPT ![c].pc = "recorded"]
    /\ UNCHANGED <<outboxVars, relay, stream, read, handled, acked, crashes>>

HandleEntry(c) ==
    /\ consumer[c].pc = "recorded"
    /\ \E e \in 1..read :
         /\ IsFirst(e, consumer[c].todo)
         /\ handled' = handled \union {e}
    /\ consumer' = [consumer EXCEPT ![c].pc = "handled"]
    /\ UNCHANGED <<outboxVars, relay, stream, read, inbox, acked, crashes>>

(* On to the next entry of the read.                                       *)
Leave(c, e) ==
    /\ IsFirst(e, consumer[c].todo)
    /\ consumer' = [consumer EXCEPT ![c] = [todo |-> @.todo \ {e}, pc |-> "next"]]
    /\ UNCHANGED <<outboxVars, relay, stream, read, inbox, handled>>

Acknowledge(c) ==
    /\ consumer[c].pc = "handled"
    /\ \E e \in 1..read : Leave(c, e) /\ acked' = acked \union {e}
    /\ UNCHANGED crashes

(* An exception is logged, and the loop goes on with the next entry.       *)
FailEntry(c) ==
    /\ crashes < MaxCrashes
    /\ crashes' = crashes + 1
    /\ \E e \in 1..read : Leave(c, e)
    /\ UNCHANGED acked

(* The consumer dies with the entries it has read; its next life reads     *)
(* ">" again.                                                              *)
ConsumerCrash(c) ==
    /\ consumer[c].todo # {}
    /\ crashes < MaxCrashes
    /\ crashes' = crashes + 1
    /\ consumer' = [consumer EXCEPT ![c] = IdleConsumer]
    /\ UNCHANGED <<outboxVars, relay, stream, read, inbox, handled, acked>>

-----------------------------------------------------------------------------
RelayStep(r) == ListRows(r) \/ AddToStream(r) \/ MarkPublished(r)
ConsumerStep(c) == ReadEntries(c) \/ RecordEntry(c) \/ HandleEntry(c) \/ Acknowledge(c)

Next ==
    \/ \E i \in Ids : Insert(i) \/ Commit(i) \/ RollBack(i)
    \/ \E r \in Relays : RelayStep(r) \/ RelayCrash(r)
    \/ \E c \in Consumers : ConsumerStep(c) \/ FailEntry(c) \/ ConsumerCrash(c)

Spec == Init /\ [][Next]_deliveryVars

(* The shell loop starts the relay again and again, and the consumer's     *)
(* loop never ends: neither stands still while it has something to do.     *)
FairSpec ==
    /\ Spec
    /\ \A r \in Relays : WF_deliveryVars(RelayStep(r))
    /\ \A c \in Consumers : WF_deliveryVars(ConsumerStep(c))

-----------------------------------------------------------------------------
(* Properties.                                                             *)

InStream(i) == \E p \in 1..Len(stream) : stream[p] = i

(* A row is marked published only when it is in the stream: a crash        *)
(* between the two leaves a duplicate behind, never a gap.                 *)
PublishedInStream == \A i \in Ids : outbox[i] = "published" => InStream(i)

(* Nothing overtakes: wherever a row is in the stream, each row that was   *)
(* committed when it was inserted is in the stream before it, however many *)
(* runs overlap or die, and although ids are drawn before they commit.     *)
CausalOrder ==
    \A p \in 1..Len(stream) : \A i \in prior[stream[p]] :
        \E q \in 1..(p - 1) : stream[q] = i

(* The outbox and the relay provide the channel.                           *)
Channel == INSTANCE EventChannel WITH
    Events <- Ids,
    sent <- Committed,
    causes <- [i \in Ids |-> IF i \in Committed THEN prior[i] ELSE {}],
    log <- stream
ImplementsChannel == Channel!Spec

(* "At-least-once delivery (no messages lost)": every event that was       *)
(* committed is handled.                                                   *)
AtLeastOnce ==
    \A i \in Ids : (i \in Committed) ~> (\E p \in handled : stream[p] = i)
=============================================================================
