------------------------------- MODULE Outbox -------------------------------
(***************************************************************************)
(* The transactional outbox of the device registry and the pipeline that   *)
(* drains it.                                                              *)
(*                                                                         *)
(* A change of a resource writes, in its database transaction, one outbox  *)
(* row per changed path (PostgresOutboxAccessor::create) and, after the    *)
(* commit, sends the same events to Kafka (KafkaEventSender::notify). The  *)
(* outbox controller consumes the topic and deletes the rows it has seen   *)
(* (mark_seen); its Resender periodically sends the rows that are left.    *)
(*                                                                         *)
(* This module is about the pipeline: the writer is any sequence of        *)
(* changes whose (uid, revision) is newer than every earlier change of the *)
(* same key and uid. Module RegistryOutbox replaces it by the registry.    *)
(*                                                                         *)
(* A key is the unique index (APP, DEVICE, PATH) of the outbox table.      *)
(* The topic is one log: mark_seen only touches the row of its own key, so *)
(* the order of events of different keys (partitions) makes no difference. *)
(* It holds the events from the committed offset on; "position" counts the *)
(* ones the consumer has handled since.                                    *)
(***************************************************************************)
EXTENDS Naturals, Sequences, FiniteSets

CONSTANTS
    Keys,       \* (application, device, path) of an outbox row
    KeySets,    \* the sets of keys one transaction may change together
    Uids,       \* the values of the UID column
    NoRow,      \* the key has no row
    MaxRev,     \* bound: revisions are 0 .. MaxRev
    MaxInflight,\* bound: number of handlers that are sending
    MaxTopic    \* bound: number of events from the committed offset on

ASSUME OutboxAssumption == /\ KeySets \subseteq (SUBSET Keys) \ {{}}
                           /\ MaxRev \in Nat
                           /\ MaxTopic \in Nat
                           /\ NoRow \notin [uid : Uids, rev : Nat]

VARIABLES
    outbox,     \* the table: key -> row or NoRow
    changes,    \* history: the changes ever committed, as events
    last,       \* history: the last change of every key, as its row
    unsent,     \* history: keys changed since their last event was sent
    inflight,   \* handlers that committed and still have events to send
    resending,  \* rows the Resender has read and not sent yet
    topic,      \* the Kafka log from the committed offset on
    position    \* number of events of "topic" the consumer has handled

outboxVars == <<outbox, changes, last, unsent, inflight, resending, topic, position>>

Rows == [uid : Uids, rev : Nat]
Events == [key : Keys, uid : Uids, rev : Nat]
Batches == [keys : SUBSET Keys, uid : Uids, rev : Nat]

OutboxInit ==
    /\ outbox = [k \in Keys |-> NoRow]
    /\ changes = {}
    /\ last = [k \in Keys |-> NoRow]
    /\ unsent = {}
    /\ inflight = {}
    /\ resending = {}
    /\ topic = <<>>
    /\ position = 0

-----------------------------------------------------------------------------
(* The table.                                                              *)

(* A faulty variant: the uid is not compared.                              *)
UpsertIgnoringUid(row, uid, rev) ==
    IF row = NoRow \/ row.rev < rev THEN [uid |-> uid, rev |-> rev] ELSE row

(* INSERT ... ON CONFLICT (APP, DEVICE, PATH) DO UPDATE ... WHERE          *)
Upsert(row, uid, rev) ==
    IF row = NoRow \/ row.rev < rev \/ row.uid # uid
    THEN [uid |-> uid, rev |-> rev]
    ELSE row

(* Faulty variants: the uid is not compared; only older rows are deleted.  *)
SeenIgnoringUid(row, e) == row # NoRow /\ row.rev <= e.rev
SeenStrictly(row, e) == row # NoRow /\ row.rev < e.rev /\ row.uid = e.uid

(* The rows DELETE ... WHERE key AND REVISION <= $4 AND UID = $5 matches.  *)
Seen(row, e) == row # NoRow /\ row.rev <= e.rev /\ row.uid = e.uid

(* The rows of the table, as the events From<OutboxEntry> makes of them.   *)
Unread == {[key |-> k, uid |-> outbox[k].uid, rev |-> outbox[k].rev] :
              k \in {j \in Keys : outbox[j] # NoRow}}

-----------------------------------------------------------------------------
(* The writer.                                                             *)

(* The change is newer than every earlier one of the same key and uid.     *)
Newer(K, uid, rev) ==
    \A c \in changes : c.key \in K /\ c.uid = uid => c.rev < rev

(* The transaction of a change of the paths K commits: the rows are        *)
(* written, and the handler is about to send the events.                   *)
Commit(K, uid, rev) ==
    /\ Cardinality(inflight) < MaxInflight
    /\ inflight' = inflight \cup {[keys |-> K, uid |-> uid, rev |-> rev]}
    /\ outbox' = [k \in Keys |-> IF k \in K THEN Upsert(outbox[k], uid, rev)
                                            ELSE outbox[k]]
    /\ changes' = changes \cup [key : K, uid : {uid}, rev : {rev}]
    /\ last' = [k \in Keys |-> IF k \in K THEN [uid |-> uid, rev |-> rev]
                                          ELSE last[k]]
    /\ unsent' = unsent \cup K
    /\ UNCHANGED <<resending, topic, position>>

Change ==
    \E K \in KeySets, uid \in Uids, rev \in 0 .. MaxRev :
        /\ Newer(K, uid, rev)
        /\ Commit(K, uid, rev)

-----------------------------------------------------------------------------
(* The senders.                                                            *)

(* The broker appends an event.                                            *)
Publish(e) ==
    /\ Len(topic) < MaxTopic
    /\ topic' = Append(topic, e)
    /\ unsent' = unsent \ {e.key}

(* The handler of a change sends its next event.                           *)
Send(b, k) ==
    /\ k \in b.keys
    /\ Publish([key |-> k, uid |-> b.uid, rev |-> b.rev])
    /\ inflight' = (inflight \ {b}) \cup
          {c \in {[keys |-> b.keys \ {k}, uid |-> b.uid, rev |-> b.rev]} :
              c.keys # {}}
    /\ UNCHANGED <<outbox, changes, last, resending, position>>

(* Sending fails, or the process dies: the other events are not sent.      *)
SendFails(b) ==
    /\ inflight' = inflight \ {b}
    /\ UNCHANGED <<outbox, changes, last, unsent, resending, topic, position>>

(* The Resender reads the rows S, the ones that are older than "before".   *)
RetrieveUnseen(S) ==
    /\ resending = {}
    /\ S # {}
    /\ resending' = S
    /\ UNCHANGED <<outbox, changes, last, unsent, inflight, topic, position>>

ResendEntry(e) ==
    /\ Publish(e)
    /\ resending' = resending \ {e}
    /\ UNCHANGED <<outbox, changes, last, inflight, position>>

(* An error ends the pass; the rest waits for the next interval.           *)
ResendFails ==
    /\ resending # {}
    /\ resending' = {}
    /\ UNCHANGED <<outbox, changes, last, unsent, inflight, topic, position>>

-----------------------------------------------------------------------------
(* The consumer.                                                           *)

(* The outbox controller handles the next event and stores its offset.     *)
MarkSeen ==
    /\ position < Len(topic)
    /\ LET e == topic[position + 1]
       IN outbox' = [outbox EXCEPT ![e.key] = IF Seen(@, e) THEN NoRow ELSE @]
    /\ position' = position + 1
    /\ UNCHANGED <<changes, last, unsent, inflight, resending, topic>>

(* The stored offset is committed, by the timer of the Kafka client.       *)
CommitOffset ==
    /\ position > 0
    /\ topic' = SubSeq(topic, position + 1, Len(topic))
    /\ position' = 0
    /\ UNCHANGED <<outbox, changes, last, unsent, inflight, resending>>

(* The handler failed too often, or the process ended: the controller      *)
(* starts again from the committed offset.                                 *)
Restart ==
    /\ position > 0
    /\ position' = 0
    /\ UNCHANGED <<outbox, changes, last, unsent, inflight, resending, topic>>

-----------------------------------------------------------------------------
Pipeline ==
    \/ \E b \in inflight : \E k \in b.keys : Send(b, k)
    \/ \E b \in inflight : SendFails(b)
    \/ \E S \in SUBSET Unread : RetrieveUnseen(S)
    \/ \E e \in resending : ResendEntry(e)
    \/ ResendFails
    \/ MarkSeen
    \/ CommitOffset
    \/ Restart

OutboxNext == Pipeline \/ Change

OutboxSpec == OutboxInit /\ [][OutboxNext]_outboxVars

(* The Resender ticks forever, and once no more changes are made every row *)
(* gets older than "before"; the Kafka client commits on a timer; neither  *)
(* the database nor the broker fails forever.                              *)
OutboxFairness ==
    /\ SF_outboxVars(RetrieveUnseen(Unread))
    /\ \A k \in Keys :
          SF_outboxVars(\E e \in resending : e.key = k /\ ResendEntry(e))
    /\ SF_outboxVars(MarkSeen)
    /\ SF_outboxVars(CommitOffset)

OutboxFairSpec == OutboxSpec /\ OutboxFairness

-----------------------------------------------------------------------------
(* Properties.                                                             *)

OutboxTypeOK ==
    /\ outbox \in [Keys -> Rows \cup {NoRow}]
    /\ changes \subseteq Events
    /\ last \in [Keys -> Rows \cup {NoRow}]
    /\ unsent \subseteq Keys
    /\ inflight \subseteq Batches
    /\ resending \subseteq Events
    /\ topic \in Seq(Events)
    /\ position \in 0 .. Len(topic)

(* A change that was committed is either announced by an event that was    *)
(* sent for its key since the commit, or it still has its outbox row, from *)
(* which the Resender will announce it: neither a late or repeated         *)
(* mark_seen of an older event, nor one of an earlier resource of the same *)
(* name, takes the row away.                                               *)
NoLostChange == \A k \in unsent : outbox[k] # NoRow

(* The row of a key is its last change: the conditional upsert never keeps *)
(* an older revision, nor a resource that had the same name before, so     *)
(* that what is re-sent is the latest.                                     *)
RowIsNewest == \A k \in Keys : outbox[k] \in {NoRow, last[k]}

(* Every committed change is eventually announced, however often sending   *)
(* and re-sending fail, and every row is eventually seen and removed.      *)
OutboxDrains ==
    \A k \in Keys :
        /\ k \in unsent ~> k \notin unsent
        /\ outbox[k] # NoRow ~> outbox[k] = NoRow

=============================================================================
