-------------------------- MODULE EventDelivery_proofs --------------------------
(* What holds of the way from the outbox to the stream for any number of   *)
(* overlapping runs of the relay, any batch size and any failures.         *)
EXTENDS EventDelivery, TLAPS

USE DeliveryAssumption

(* The variables of the outbox and the relay are typed.                    *)
SenderTyped ==
    /\ outbox \in [Ids -> RowStates]
    /\ prior \in [Ids -> SUBSET Ids]
    /\ relay \in [Relays -> RelayState]
    /\ stream \in Seq(Ids)

(* Ids are drawn in order.                                                 *)
IdsInOrder == \A i, j \in Ids : i < j /\ outbox[j] # "none" => outbox[i] # "none"

(* What came before a row has a smaller id and is committed.               *)
PriorCommitted == \A j \in Ids : \A i \in prior[j] : i < j /\ i \in Committed

(* A run publishes committed rows; so the stream holds committed rows.     *)
ListedCommitted == \A r \in Relays : relay[r].todo \subseteq Committed
StreamCommitted == \A p \in 1..Len(stream) : stream[p] \in Committed

(* The row a run has added and not yet marked is in the stream.            *)
AddedInStream ==
    \A r \in Relays, i \in Ids :
        relay[r].added /\ IsFirst(i, relay[r].todo) => InStream(i)

AddedListed == \A r \in Relays : relay[r].added => relay[r].todo # {}

(* What came before a row on a run's list is in the stream or on the list. *)
ListClosed ==
    \A r \in Relays : \A j \in relay[r].todo : \A i \in prior[j] :
        InStream(i) \/ i \in relay[r].todo

(* CausalOrder is kept by AddToStream because the list is closed and taken *)
(* in the order of the ids; the list is closed because a published row is  *)
(* in the stream, which needs AddedInStream.                               *)
IInv ==
    /\ SenderTyped
    /\ IdsInOrder
    /\ PriorCommitted
    /\ ListedCommitted
    /\ StreamCommitted
    /\ AddedInStream
    /\ AddedListed
    /\ ListClosed
    /\ PublishedInStream
    /\ CausalOrder

-----------------------------------------------------------------------------
LEMMA InitInv == Init => IInv
<1> SUFFICES ASSUME Init PROVE IInv
  OBVIOUS
<1>1. SenderTyped
  BY DEF Init, SenderTyped, RowStates, RelayState, IdleRelay
<1>2. IdsInOrder /\ PriorCommitted /\ PublishedInStream
  BY DEF Init, IdsInOrder, PriorCommitted, PublishedInStream
<1>3. ListedCommitted /\ AddedInStream /\ AddedListed /\ ListClosed
  BY DEF Init, ListedCommitted, AddedInStream, AddedListed, ListClosed, IdleRelay
<1>4. StreamCommitted /\ CausalOrder
  BY DEF Init, StreamCommitted, CausalOrder
<1> QED
  BY <1>1, <1>2, <1>3, <1>4 DEF IInv

(* The consumers leave all of it alone.                                    *)
LEMMA SenderUnchanged ==
    ASSUME IInv, UNCHANGED <<outbox, prior, relay, stream>>
    PROVE  IInv'
  BY DEF IInv, SenderTyped, IdsInOrder, PriorCommitted, ListedCommitted, StreamCommitted,
         AddedInStream, AddedListed, ListClosed, PublishedInStream, CausalOrder, InStream,
         Committed, IsFirst

(* A longer stream holds what the shorter one held.                        *)
LEMMA Appended ==
    ASSUME NEW s \in Seq(Ids), NEW i \in Ids, NEW t, t = Append(s, i)
    PROVE  /\ t \in Seq(Ids)
           /\ Len(t) = Len(s) + 1
           /\ t[Len(s) + 1] = i
           /\ \A p \in 1..Len(s) : t[p] = s[p]
  OBVIOUS

-----------------------------------------------------------------------------
(* The outbox.                                                             *)
LEMMA InsertInv ==
    ASSUME IInv, NEW i \in Ids, Insert(i)
    PROVE  IInv'
<1> USE DEF IInv, SenderTyped
<1>1. /\ outbox' = [outbox EXCEPT ![i] = "inserted"]
      /\ prior' = [prior EXCEPT ![i] = Committed]
      /\ UNCHANGED <<relay, stream>>
      /\ outbox[i] = "none"
      /\ \A j \in Ids : j < i => outbox[j] # "none"
  BY DEF Insert
<1>2. Committed' = Committed /\ i \notin Committed /\ Committed \subseteq Ids
  BY <1>1 DEF Committed
<1>3. SenderTyped'
  BY <1>1, <1>2 DEF RowStates
<1>4. IdsInOrder'
  BY <1>1 DEF IdsInOrder, Ids
<1>5. PriorCommitted'
  <2>1. \A j \in Committed : j < i
    BY <1>1, <1>2 DEF IdsInOrder, Committed, Ids
  <2> QED
    BY <1>1, <1>2, <2>1 DEF PriorCommitted
<1>6. ListedCommitted' /\ StreamCommitted'
  BY <1>1, <1>2 DEF ListedCommitted, StreamCommitted
<1>7. AddedInStream' /\ AddedListed'
  BY <1>1 DEF AddedInStream, AddedListed, IsFirst, InStream
<1>8. ListClosed'
  <2>1. \A r \in Relays : i \notin relay[r].todo
    BY <1>2 DEF ListedCommitted
  <2> QED
    BY <1>1, <1>2, <2>1 DEF ListClosed, InStream, ListedCommitted
<1>9. PublishedInStream'
  BY <1>1 DEF PublishedInStream, InStream
<1>10. CausalOrder'
  BY <1>1, <1>2 DEF CausalOrder, StreamCommitted
<1> QED
  BY <1>3, <1>4, <1>5, <1>6, <1>7, <1>8, <1>9, <1>10

LEMMA EndInv ==
    ASSUME IInv, NEW i \in Ids, Commit(i) \/ RollBack(i)
    PROVE  IInv'
<1> USE DEF IInv, SenderTyped
<1>1. PICK new \in {"waiting", "rolled back"} : outbox' = [outbox EXCEPT ![i] = new]
  BY DEF Commit, RollBack
<1>2. outbox[i] = "inserted" /\ UNCHANGED <<prior, relay, stream>>
  BY DEF Commit, RollBack
<1>3. Committed \subseteq Committed'
  BY <1>1, <1>2 DEF Committed
<1>4. SenderTyped'
  BY <1>1, <1>2 DEF RowStates
<1>5. IdsInOrder'
  BY <1>1, <1>2 DEF IdsInOrder
<1>6. PriorCommitted' /\ ListedCommitted' /\ StreamCommitted'
  BY <1>2, <1>3 DEF PriorCommitted, ListedCommitted, StreamCommitted
<1>7. AddedInStream' /\ AddedListed'
  BY <1>2 DEF AddedInStream, AddedListed, IsFirst, InStream
<1>8. ListClosed'
  BY <1>2 DEF ListClosed, InStream
<1>9. CausalOrder'
  <2>1. CausalOrder /\ prior' = prior /\ stream' = stream
    BY <1>2
  <2> QED
    BY ONLY <2>1, ZenonT(30) DEF CausalOrder
<1>10. PublishedInStream'
  BY <1>1, <1>2 DEF PublishedInStream, InStream
<1> QED
  BY <1>4, <1>5, <1>6, <1>7, <1>8, <1>9, <1>10

-----------------------------------------------------------------------------
(* The relay.                                                              *)
LEMMA ListRowsInv ==
    ASSUME IInv, NEW r \in Relays, ListRows(r)
    PROVE  IInv'
<1> USE DEF IInv, SenderTyped
<1>1. PICK S \in SUBSET Ids : IsBatch(S) /\ relay' = [relay EXCEPT ![r].todo = S]
  BY DEF ListRows
<1>2. relay[r].todo = {} /\ UNCHANGED <<outbox, prior, stream>>
  BY DEF ListRows, outboxVars
<1>3. S \subseteq Committed /\ \A i \in S, j \in Waiting : j < i => j \in S
  BY <1>1 DEF IsBatch, Waiting, Committed
<1>4. SenderTyped'
  BY <1>1, <1>2 DEF RelayState
<1>5. ListedCommitted'
  BY <1>1, <1>2, <1>3 DEF ListedCommitted, Committed, RelayState
<1>6. AddedInStream' /\ AddedListed'
  <2>1. ~relay[r].added
    BY <1>2 DEF AddedListed
  <2>2. ~relay'[r].added
    BY <2>1, <1>1 DEF RelayState
  <2>3. \A q \in Relays : q # r => relay'[q] = relay[q]
    BY <1>1
  <2> QED
    BY <1>2, <2>2, <2>3 DEF AddedInStream, AddedListed, IsFirst, InStream
<1>7. ListClosed'
  <2>1. \A j \in S : \A i \in prior[j] : InStream(i) \/ i \in S
    BY <1>3 DEF PriorCommitted, PublishedInStream, Committed, Waiting
  <2> QED
    BY <1>1, <1>2, <2>1 DEF ListClosed, InStream, RelayState
<1>8. IdsInOrder' /\ PriorCommitted' /\ StreamCommitted' /\ PublishedInStream' /\ CausalOrder'
  BY <1>2 DEF IdsInOrder, PriorCommitted, StreamCommitted, PublishedInStream, CausalOrder,
              InStream, Committed
<1> QED
  BY <1>4, <1>5, <1>6, <1>7, <1>8

(* The row a run adds is the first on its list: what came before it has a  *)
(* smaller id, so it is off the list and, the list being closed, in the    *)
(* stream.                                                                 *)
LEMMA AddToStreamInv ==
    ASSUME IInv, NEW r \in Relays, AddToStream(r)
    PROVE  IInv'
<1> USE DEF IInv, SenderTyped
<1>1. PICK i \in Ids : IsFirst(i, relay[r].todo) /\ stream' = Append(stream, i)
  BY DEF AddToStream
<1>2. relay' = [relay EXCEPT ![r].added = TRUE] /\ UNCHANGED <<outbox, prior>>
  BY DEF AddToStream, outboxVars
<1>3. /\ stream' \in Seq(Ids)
      /\ Len(stream') = Len(stream) + 1
      /\ stream'[Len(stream) + 1] = i
      /\ \A p \in 1..Len(stream) : stream'[p] = stream[p]
  BY <1>1, Appended
<1>4. /\ InStream(i)'
      /\ \A j : InStream(j) => InStream(j)'
  BY <1>3, SMTT(30) DEF InStream
<1>5. /\ i \in relay[r].todo /\ i \in Committed
      /\ \A j \in relay[r].todo : i <= j
  BY <1>1 DEF IsFirst, ListedCommitted
<1>6. \A q \in Relays : relay'[q].todo = relay[q].todo
  BY <1>2 DEF RelayState
<1>7. SenderTyped'
  BY <1>2, <1>3 DEF RelayState
<1>8. IdsInOrder' /\ PriorCommitted'
  BY <1>2 DEF IdsInOrder, PriorCommitted, Committed
<1>9. ListedCommitted'
  BY <1>2, <1>6 DEF ListedCommitted, Committed
<1>10. StreamCommitted'
  BY <1>2, <1>3, <1>5 DEF StreamCommitted, Committed
<1>11. AddedInStream'
  <2> SUFFICES ASSUME NEW q \in Relays, NEW j \in Ids,
                      relay'[q].added, IsFirst(j, relay[q].todo)
               PROVE  InStream(j)'
    BY <1>6 DEF AddedInStream, IsFirst
  <2>1. CASE q = r
    BY <2>1, <1>1, <1>4 DEF IsFirst, Ids
  <2>2. CASE q # r
    BY <2>2, <1>2, <1>4 DEF AddedInStream
  <2> QED
    BY <2>1, <2>2
<1>12. AddedListed'
  BY <1>2, <1>5, <1>6 DEF AddedListed, RelayState
<1>13. ListClosed'
  BY <1>2, <1>4, <1>6 DEF ListClosed
<1>14. PublishedInStream'
  BY <1>2, <1>4 DEF PublishedInStream
<1>15. \A j \in prior[i] : InStream(j)
  BY <1>5 DEF ListClosed, PriorCommitted, Ids
<1>16. CausalOrder'
  <2> SUFFICES ASSUME NEW p \in 1..Len(stream'), NEW j \in prior[stream'[p]]
               PROVE  \E q \in 1..(p - 1) : stream'[q] = j
    BY <1>2 DEF CausalOrder
  <2>1. CASE p \in 1..Len(stream)
    <3>1. PICK q \in 1..(p - 1) : stream[q] = j
      BY <2>1, <1>3 DEF CausalOrder
    <3> QED
      BY <2>1, <3>1, <1>3
  <2>2. CASE p = Len(stream) + 1
    <3>1. PICK q \in 1..Len(stream) : stream[q] = j
      BY <2>2, <1>3, <1>15 DEF InStream
    <3> QED
      BY <2>2, <3>1, <1>3
  <2> QED
    BY <2>1, <2>2, <1>3
<1> QED
  BY <1>7, <1>8, <1>9, <1>10, <1>11, <1>12, <1>13, <1>14, <1>16

LEMMA MarkPublishedInv ==
    ASSUME IInv, NEW r \in Relays, MarkPublished(r)
    PROVE  IInv'
<1> USE DEF IInv, SenderTyped
<1>1. PICK i \in Ids : Publish(r, i)
  BY DEF MarkPublished
<1>2. /\ relay[r].added
      /\ IsFirst(i, relay[r].todo)
      /\ outbox' = [outbox EXCEPT ![i] = "published"]
      /\ relay' = [relay EXCEPT ![r] = [todo |-> relay[r].todo \ {i}, added |-> FALSE]]
      /\ UNCHANGED <<prior, stream>>
  BY <1>1 DEF MarkPublished, Publish
<1>3. InStream(i) /\ i \in Committed
  BY <1>2 DEF AddedInStream, ListedCommitted, IsFirst
<1>4. Committed' = Committed
  BY <1>2, <1>3 DEF Committed
<1>5. SenderTyped'
  <2>1. relay[r].todo \in SUBSET Ids
    BY DEF RelayState
  <2>2. [todo |-> relay[r].todo \ {i}, added |-> FALSE] \in RelayState
    BY <2>1 DEF RelayState
  <2>3. relay' \in [Relays -> RelayState]
    BY <1>2, <2>2
  <2>4. outbox' \in [Ids -> RowStates]
    BY <1>2 DEF RowStates
  <2>5. prior' \in [Ids -> SUBSET Ids] /\ stream' \in Seq(Ids)
    BY <1>2
  <2> QED
    BY <2>3, <2>4, <2>5 DEF RowStates, RelayState
<1>6. IdsInOrder'
  <2>1. \A j \in Ids : outbox'[j] # "none" <=> outbox[j] # "none"
    BY <1>2, <1>3 DEF Committed
  <2> QED
    BY <2>1 DEF IdsInOrder
<1>7. PriorCommitted' /\ StreamCommitted'
  BY <1>2, <1>4 DEF PriorCommitted, StreamCommitted
<1>8. \A q \in Relays : relay'[q].todo \in {relay[q].todo, relay[q].todo \ {i}}
  BY <1>2 DEF RelayState
<1>9. ListedCommitted'
  BY <1>4, <1>8 DEF ListedCommitted
<1>10. AddedInStream' /\ AddedListed'
  <2>1. \A q \in Relays : relay'[q].added => relay'[q] = relay[q] /\ relay[q].added
    BY <1>2
  <2> QED
    BY <1>2, <2>1 DEF AddedInStream, AddedListed, InStream, IsFirst
<1>11. ListClosed'
  BY <1>2, <1>3, <1>8 DEF ListClosed, InStream
<1>12. PublishedInStream'
  BY <1>2, <1>3 DEF PublishedInStream, InStream
<1>13. CausalOrder'
  BY <1>2 DEF CausalOrder
<1> QED
  BY <1>5, <1>6, <1>7, <1>9, <1>10, <1>11, <1>12, <1>13

LEMMA RelayCrashInv ==
    ASSUME IInv, NEW r \in Relays, RelayCrash(r)
    PROVE  IInv'
<1> USE DEF IInv, SenderTyped
<1>1. relay' = [relay EXCEPT ![r] = IdleRelay] /\ UNCHANGED <<outbox, prior, stream>>
  BY DEF RelayCrash, outboxVars
<1>2. SenderTyped'
  BY <1>1 DEF RelayState, IdleRelay
<1>3. ListedCommitted' /\ AddedInStream' /\ AddedListed' /\ ListClosed'
  BY <1>1 DEF ListedCommitted, AddedInStream, AddedListed, ListClosed, IdleRelay, InStream,
              IsFirst, Committed
<1>4. IdsInOrder' /\ PriorCommitted' /\ StreamCommitted' /\ PublishedInStream' /\ CausalOrder'
  BY <1>1 DEF IdsInOrder, PriorCommitted, StreamCommitted, PublishedInStream, CausalOrder,
              InStream, Committed
<1> QED
  BY <1>2, <1>3, <1>4

-----------------------------------------------------------------------------
LEMMA ConsumerKeeps ==
    ASSUME NEW c \in Consumers, ConsumerStep(c) \/ FailEntry(c) \/ ConsumerCrash(c)
    PROVE  UNCHANGED <<outbox, prior, relay, stream>>
  BY DEF ConsumerStep, ReadEntries, ReadTo, RecordEntry, HandleEntry, Acknowledge, Leave,
         FailEntry, ConsumerCrash, outboxVars

LEMMA NextInv == IInv /\ [Next]_deliveryVars => IInv'
<1> SUFFICES ASSUME IInv, [Next]_deliveryVars PROVE IInv'
  OBVIOUS
<1>1. CASE \E i \in Ids : Insert(i)
  BY <1>1, InsertInv
<1>2. CASE \E i \in Ids : Commit(i) \/ RollBack(i)
  BY <1>2, EndInv
<1>3. CASE \E r \in Relays : ListRows(r)
  BY <1>3, ListRowsInv
<1>4. CASE \E r \in Relays : AddToStream(r)
  BY <1>4, AddToStreamInv
<1>5. CASE \E r \in Relays : MarkPublished(r)
  BY <1>5, MarkPublishedInv
<1>6. CASE \E r \in Relays : RelayCrash(r)
  BY <1>6, RelayCrashInv
<1>7. CASE \E c \in Consumers : ConsumerStep(c) \/ FailEntry(c) \/ ConsumerCrash(c)
  BY <1>7, ConsumerKeeps, SenderUnchanged
<1>8. CASE UNCHANGED deliveryVars
  BY <1>8, SenderUnchanged DEF deliveryVars
<1> QED
  BY <1>1, <1>2, <1>3, <1>4, <1>5, <1>6, <1>7, <1>8 DEF Next, RelayStep

LEMMA Invariance == Spec => []IInv
  BY InitInv, NextInv, PTL DEF Spec

(* However many runs of publish_outbox_events overlap and wherever they    *)
(* die, a row is marked published only when it is in the stream.           *)
THEOREM RowsPublished == Spec => []PublishedInStream
<1>1. IInv => PublishedInStream
  BY DEF IInv
<1> QED
  BY <1>1, Invariance, PTL

(* However many runs of publish_outbox_events overlap and wherever they    *)
(* die, no event is in the stream before one that was committed when its   *)
(* row was inserted.                                                       *)
THEOREM NothingOvertakes == Spec => []CausalOrder
<1>1. IInv => CausalOrder
  BY DEF IInv
<1> QED
  BY <1>1, Invariance, PTL

-----------------------------------------------------------------------------
(* The group of consumers.                                                 *)

GroupTyped ==
    /\ consumer \in [Consumers -> ConsumerState]
    /\ \A c \in Consumers : consumer[c].todo \subseteq 1..read
    /\ read \in 0..Len(stream)
    /\ inbox \in SUBSET (1..read)
    /\ handled \in SUBSET (1..read)
    /\ acked \in SUBSET (1..read)
    /\ crashes \in 0..MaxCrashes

LEMMA TypedParts == TypeOK <=> SenderTyped /\ GroupTyped
  BY DEF TypeOK, SenderTyped, GroupTyped

(* The relay only makes the stream longer, and counts its failures.        *)
LEMMA RelayGroup ==
    ASSUME SenderTyped, GroupTyped,
           \/ \E i \in Ids : Insert(i) \/ Commit(i) \/ RollBack(i)
           \/ \E r \in Relays : RelayStep(r) \/ RelayCrash(r)
    PROVE  GroupTyped'
<1>1. UNCHANGED <<consumer, read, inbox, handled, acked>>
  BY DEF Insert, Commit, RollBack, RelayStep, ListRows, AddToStream, MarkPublished, Publish,
         RelayCrash, groupVars
<1>2. stream' = stream \/ \E i \in Ids : stream' = Append(stream, i)
  BY DEF Insert, Commit, RollBack, RelayStep, ListRows, AddToStream, MarkPublished, Publish,
         RelayCrash
<1>3. Len(stream) \in Nat /\ Len(stream') \in Nat /\ Len(stream) <= Len(stream')
  BY <1>2, Appended DEF SenderTyped
<1>4. crashes' = crashes \/ (crashes < MaxCrashes /\ crashes' = crashes + 1)
  BY DEF Insert, Commit, RollBack, RelayStep, ListRows, AddToStream, MarkPublished, Publish,
         RelayCrash, groupVars
<1>5. crashes' \in 0..MaxCrashes
  BY <1>4 DEF GroupTyped
<1> QED
  BY <1>1, <1>3, <1>5 DEF GroupTyped

(* A read takes the entries after the last one, and never past the end of  *)
(* the stream.                                                             *)
LEMMA ReadGroup ==
    ASSUME SenderTyped, GroupTyped, NEW c \in Consumers, ReadEntries(c)
    PROVE  GroupTyped'
<1> DEFINE last == IF Len(stream) - read < ReadLimit THEN Len(stream) ELSE read + ReadLimit
<1>1. Len(stream) \in Nat /\ read \in Nat /\ read <= Len(stream)
  BY DEF SenderTyped, GroupTyped
<1>2. /\ consumer[c].todo = {} /\ read < Len(stream)
      /\ read' = last
      /\ consumer' = [consumer EXCEPT ![c].todo = (read + 1)..last]
      /\ UNCHANGED <<stream, inbox, handled, acked, crashes>>
  BY DEF ReadEntries, ReadTo
<1>3. last \in Nat /\ read <= last /\ last <= Len(stream)
  BY <1>1, <1>2
<1>4. (read + 1)..last \subseteq 1..last /\ 1..read \subseteq 1..last
  BY <1>1, <1>3
<1> HIDE DEF last
<1>5. consumer' \in [Consumers -> ConsumerState]
  <2>1. (read + 1)..last \in SUBSET (Nat \ {0})
    BY <1>1, <1>3
  <2> QED
    BY <1>2, <2>1 DEF GroupTyped, ConsumerState
<1>6. \A d \in Consumers : consumer'[d].todo \subseteq 1..read'
  BY <1>2, <1>4 DEF GroupTyped, ConsumerState
<1> QED
  BY <1>1, <1>2, <1>3, <1>4, <1>5, <1>6 DEF GroupTyped

(* A consumer goes through what it has read, in the order of the stream.   *)
LEMMA EntryGroup ==
    ASSUME SenderTyped, GroupTyped, NEW c \in Consumers,
           \/ RecordEntry(c) \/ HandleEntry(c) \/ Acknowledge(c)
           \/ FailEntry(c) \/ ConsumerCrash(c)
    PROVE  GroupTyped'
<1>1. UNCHANGED <<stream, read>>
  BY DEF RecordEntry, HandleEntry, Acknowledge, Leave, FailEntry, ConsumerCrash
<1>2. inbox' \in SUBSET (1..read) /\ handled' \in SUBSET (1..read) /\ acked' \in SUBSET (1..read)
  BY DEF RecordEntry, HandleEntry, Acknowledge, Leave, FailEntry, ConsumerCrash, GroupTyped
<1>3. crashes' \in 0..MaxCrashes
  BY DEF RecordEntry, HandleEntry, Acknowledge, Leave, FailEntry, ConsumerCrash, GroupTyped
<1>4. PICK next \in ConsumerState :
        consumer' = [consumer EXCEPT ![c] = next] /\ next.todo \subseteq consumer[c].todo
  <2>0. consumer[c] \in ConsumerState
    BY DEF GroupTyped
  <2>1. CASE RecordEntry(c) \/ HandleEntry(c)
    <3>1. PICK pc \in {"recorded", "handled"} :
            consumer' = [consumer EXCEPT ![c] = [consumer[c] EXCEPT !.pc = pc]]
      BY <2>1 DEF RecordEntry, HandleEntry
    <3>2. /\ [consumer[c] EXCEPT !.pc = pc] \in ConsumerState
          /\ [consumer[c] EXCEPT !.pc = pc].todo = consumer[c].todo
      BY <2>0 DEF ConsumerState
    <3> QED
      BY <3>1, <3>2
  <2>3. CASE \E e \in 1..read : Leave(c, e)
    <3>1. PICK e \in 1..read :
            consumer' = [consumer EXCEPT ![c] = [todo |-> consumer[c].todo \ {e}, pc |-> "next"]]
      BY <2>3 DEF Leave
    <3>2. [todo |-> consumer[c].todo \ {e}, pc |-> "next"] \in ConsumerState
      BY <2>0 DEF ConsumerState
    <3> QED
      BY <3>1, <3>2
  <2>4. CASE ConsumerCrash(c)
    <3>1. consumer' = [consumer EXCEPT ![c] = IdleConsumer]
      BY <2>4 DEF ConsumerCrash
    <3>2. IdleConsumer \in ConsumerState /\ IdleConsumer.todo = {}
      BY DEF IdleConsumer, ConsumerState
    <3> QED
      BY <3>1, <3>2
  <2> QED
    BY <2>1, <2>3, <2>4 DEF Acknowledge, FailEntry
<1>5. consumer' \in [Consumers -> ConsumerState]
  BY <1>4 DEF GroupTyped
<1>6. \A d \in Consumers : consumer'[d].todo \subseteq 1..read
  BY <1>4 DEF GroupTyped
<1> QED
  BY <1>1, <1>2, <1>3, <1>5, <1>6 DEF GroupTyped

(* The rows, the stream and what the consumers do keep their shape: no     *)
(* consumer is given an entry past the end of the stream, and nothing is   *)
(* recorded, handled or acknowledged that was not read.                    *)
THEOREM DeliveryTyped == Spec => []TypeOK
<1>1. Init => TypeOK
  BY DEF Init, TypeOK, RowStates, RelayState, IdleRelay, ConsumerState, IdleConsumer
<1>2. IInv /\ IInv' /\ TypeOK /\ [Next]_deliveryVars => TypeOK'
  <2> SUFFICES ASSUME IInv, IInv', SenderTyped, GroupTyped, [Next]_deliveryVars
               PROVE  GroupTyped'
    BY TypedParts DEF IInv, TypeOK, SenderTyped, GroupTyped
  <2>1. CASE UNCHANGED deliveryVars
    BY <2>1 DEF deliveryVars, GroupTyped
  <2> QED
    BY <2>1, RelayGroup, ReadGroup, EntryGroup DEF Next, ConsumerStep
<1> QED
  BY <1>1, <1>2, Invariance, PTL DEF Spec

-----------------------------------------------------------------------------
(* The channel, safety part: Commit sends, AddToStream delivers.           *)

Causes == [i \in Ids |-> IF i \in Committed THEN prior[i] ELSE {}]

LEMMA InitChannel == Init => Channel!Init
<1> SUFFICES ASSUME Init PROVE Channel!Init
  OBVIOUS
<1>1. Committed = {} /\ stream = <<>>
  BY DEF Init, Committed
<1> QED
  BY <1>1 DEF Channel!Init

LEMMA CommitSends ==
    ASSUME IInv, NEW i \in Ids, Commit(i)
    PROVE  Channel!Send(i)
<1>1. /\ outbox[i] = "inserted"
      /\ outbox' = [outbox EXCEPT ![i] = "waiting"]
      /\ prior' = prior
      /\ stream' = stream
  BY DEF Commit
<1>2. i \notin Committed /\ Committed' = Committed \union {i}
  BY <1>1 DEF Committed, IInv, SenderTyped
<1>3. prior[i] \in SUBSET Committed
  BY DEF IInv, PriorCommitted
<1>4. Causes' = [Causes EXCEPT ![i] = prior[i]]
  BY <1>1, <1>2 DEF Causes
<1> QED
  BY <1>1, <1>2, <1>3, <1>4 DEF Channel!Send, Causes

LEMMA AddDelivers ==
    ASSUME IInv, NEW r \in Relays, AddToStream(r)
    PROVE  \E i \in Ids : Channel!Deliver(i)
<1>1. PICK i \in Ids : IsFirst(i, relay[r].todo) /\ stream' = Append(stream, i)
  BY DEF AddToStream
<1>2. UNCHANGED <<outbox, prior>>
  BY DEF AddToStream, outboxVars
<1>3. i \in Committed /\ \A j \in relay[r].todo : i <= j
  BY <1>1 DEF IInv, IsFirst, ListedCommitted
<1>4. \A j \in prior[i] : InStream(j)
  <2>1. \A j \in prior[i] : j < i /\ j \in Ids
    BY DEF IInv, PriorCommitted, Committed
  <2>2. \A j \in prior[i] : j \notin relay[r].todo
    BY <1>3, <2>1 DEF Ids
  <2> QED
    BY <1>1, <2>2 DEF IInv, IsFirst, ListClosed
<1>5. Committed' = Committed /\ Causes' = Causes /\ Causes[i] = prior[i]
  BY <1>2, <1>3 DEF Committed, Causes
<1>6. Channel!Deliver(i)
  BY <1>1, <1>3, <1>4, <1>5 DEF Channel!Deliver, Channel!Logged, InStream, Causes
<1> QED
  BY <1>6

LEMMA OthersStutter ==
    ASSUME IInv,
           \/ \E i \in Ids : Insert(i) \/ RollBack(i)
           \/ \E r \in Relays : ListRows(r) \/ MarkPublished(r) \/ RelayCrash(r)
           \/ UNCHANGED <<outbox, prior, relay, stream>>
    PROVE  UNCHANGED <<Committed, Causes, stream>>
<1> USE DEF IInv, SenderTyped
<1>1. CASE \E i \in Ids : Insert(i)
  <2>1. PICK i \in Ids : Insert(i)
    BY <1>1
  <2>2. i \notin Committed /\ Committed' = Committed /\ stream' = stream
    BY <2>1 DEF Insert, Committed
  <2>3. \A j \in Ids : j # i => prior'[j] = prior[j]
    BY <2>1 DEF Insert
  <2> QED
    BY <2>2, <2>3 DEF Causes
<1>2. CASE \E i \in Ids : RollBack(i)
  <2>1. Committed' = Committed /\ prior' = prior /\ stream' = stream
    BY <1>2 DEF RollBack, Committed
  <2> QED
    BY <2>1 DEF Causes
<1>3. CASE \E r \in Relays : MarkPublished(r)
  <2>1. PICK r \in Relays, i \in Ids : relay[r].added /\ Publish(r, i)
    BY <1>3 DEF MarkPublished
  <2>2. i \in Committed
    BY <2>1 DEF Publish, IsFirst, ListedCommitted
  <2>3. Committed' = Committed /\ prior' = prior /\ stream' = stream
    BY <2>1, <2>2 DEF Publish, Committed
  <2> QED
    BY <2>3 DEF Causes
<1>4. CASE \/ \E r \in Relays : ListRows(r) \/ RelayCrash(r)
           \/ UNCHANGED <<outbox, prior, relay, stream>>
  BY <1>4 DEF ListRows, RelayCrash, outboxVars, Committed, Causes
<1> QED
  BY <1>1, <1>2, <1>3, <1>4

(* The outbox and the relay implement the channel's safety: an event is in *)
(* the stream only after its transaction has committed and after every     *)
(* event that was committed when it was made.                              *)
THEOREM ImplementsSafety == Spec => Channel!Safety
<1>1. IInv /\ [Next]_deliveryVars => [Channel!Next]_(Channel!channelVars)
  <2> SUFFICES ASSUME IInv, [Next]_deliveryVars
               PROVE  [Channel!Next]_(Channel!channelVars)
    OBVIOUS
  <2>1. CASE \E i \in Ids : Commit(i)
    BY <2>1, CommitSends DEF Channel!Next
  <2>2. CASE \E r \in Relays : AddToStream(r)
    BY <2>2, AddDelivers DEF Channel!Next
  <2>3. CASE \/ \E i \in Ids : Insert(i) \/ RollBack(i)
             \/ \E r \in Relays : ListRows(r) \/ MarkPublished(r) \/ RelayCrash(r)
    BY <2>3, OthersStutter DEF Channel!channelVars, Causes
  <2>4. CASE \E c \in Consumers : ConsumerStep(c) \/ FailEntry(c) \/ ConsumerCrash(c)
    BY <2>4, ConsumerKeeps, OthersStutter DEF Channel!channelVars, Causes
  <2>5. CASE UNCHANGED deliveryVars
    BY <2>5, OthersStutter DEF deliveryVars, Channel!channelVars, Causes
  <2> QED
    BY <2>1, <2>2, <2>3, <2>4, <2>5 DEF Next, RelayStep
<1> QED
  BY <1>1, InitChannel, Invariance, PTL DEF Spec, Channel!Safety
=============================================================================
