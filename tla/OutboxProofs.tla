---------------------------- MODULE OutboxProofs ----------------------------
(***************************************************************************)
(* Proofs about module Outbox: for any keys, any number of handlers,       *)
(* failures, restarts and re-sent events, a committed change is announced  *)
(* or still in the table, and what is in the table is the newest change.   *)
(***************************************************************************)
EXTENDS Outbox, TLAPS

(* Everything on its way to the consumer, and the last change of every     *)
(* key, was committed at some time.                                        *)
Known ==
    /\ \A k \in Keys : last[k] # NoRow =>
          [key |-> k, uid |-> last[k].uid, rev |-> last[k].rev] \in changes
    /\ \A i \in 1 .. Len(topic) : topic[i] \in changes
    /\ resending \subseteq changes
    /\ \A b \in inflight : \A k \in b.keys :
          [key |-> k, uid |-> b.uid, rev |-> b.rev] \in changes

(* Nothing in the topic can make mark_seen remove the row of a change that *)
(* was not announced: events of the same key and uid are all older.        *)
Protected(k) ==
    /\ outbox[k] # NoRow
    /\ \A i \in 1 .. Len(topic) :
          topic[i].key = k /\ topic[i].uid = outbox[k].uid
              => topic[i].rev < outbox[k].rev

UnsentProtected == \A k \in unsent : Protected(k)

(* The inductive invariant.                                                *)
OutboxIInv == OutboxTypeOK /\ RowIsNewest /\ Known /\ UnsentProtected

-----------------------------------------------------------------------------
LEMMA OutboxInitIInv == OutboxInit => OutboxIInv
BY OutboxAssumption
   DEF OutboxInit, OutboxIInv, OutboxTypeOK, RowIsNewest, Known, UnsentProtected,
       Rows, Events

(* Every row, and every event made of one, is well formed.                 *)
LEMMA UpsertType ==
    ASSUME NEW row \in Rows \cup {NoRow}, NEW uid \in Uids, NEW rev \in Nat
    PROVE  Upsert(row, uid, rev) \in Rows
BY DEF Upsert, Rows

LEMMA UnreadType ==
    ASSUME OutboxTypeOK
    PROVE  Unread \subseteq Events
BY DEF OutboxTypeOK, Unread, Rows, Events

(* What the broker appends is well formed.                                 *)
LEMMA PublishType ==
    ASSUME OutboxTypeOK, NEW e \in Events, Publish(e)
    PROVE  /\ topic' \in Seq(Events)
           /\ Len(topic') = Len(topic) + 1
           /\ unsent' \subseteq Keys
BY DEF OutboxTypeOK, Publish

LEMMA OutboxTypeStep == OutboxTypeOK /\ [OutboxNext]_outboxVars => OutboxTypeOK'
<1> SUFFICES ASSUME OutboxTypeOK, [OutboxNext]_outboxVars
             PROVE  OutboxTypeOK'
    OBVIOUS
<1> USE DEF OutboxTypeOK
<1>1. CASE Change
  <2>1. PICK K \in KeySets, uid \in Uids, rev \in 0 .. MaxRev : Commit(K, uid, rev)
        BY <1>1 DEF Change
  <2>2. K \subseteq Keys /\ rev \in Nat
        BY OutboxAssumption
  <2>3. outbox' \in [Keys -> Rows \cup {NoRow}]
        BY <2>1, <2>2, UpsertType DEF Commit
  <2>4. last' \in [Keys -> Rows \cup {NoRow}]
        BY <2>1, <2>2 DEF Commit, Rows
  <2>5. changes' \subseteq Events /\ unsent' \subseteq Keys /\ inflight' \subseteq Batches
        BY <2>1, <2>2 DEF Commit, Events, Batches
  <2>6. QED
        BY <2>1, <2>3, <2>4, <2>5 DEF Commit
<1>2. ASSUME NEW b \in inflight, NEW k \in b.keys, Send(b, k)
      PROVE  OutboxTypeOK'
  <2> DEFINE e == [key |-> k, uid |-> b.uid, rev |-> b.rev]
  <2>1. e \in Events /\ b \in Batches
        BY DEF Events, Batches
  <2>2. Publish(e)
        BY <1>2 DEF Send
  <2>3. /\ topic' \in Seq(Events) /\ Len(topic') = Len(topic) + 1
        /\ unsent' \subseteq Keys
        BY <2>1, <2>2, PublishType
  <2>4. inflight' \subseteq Batches
        BY <1>2, <2>1 DEF Send, Batches
  <2>5. QED
        BY <1>2, <2>3, <2>4 DEF Send
<1>3. ASSUME NEW b \in inflight, SendFails(b)
      PROVE  OutboxTypeOK'
      BY <1>3 DEF SendFails
<1>4. ASSUME NEW S \in SUBSET Unread, RetrieveUnseen(S)
      PROVE  OutboxTypeOK'
      BY <1>4, UnreadType DEF RetrieveUnseen
<1>5. ASSUME NEW e \in resending, ResendEntry(e)
      PROVE  OutboxTypeOK'
  <2>1. /\ topic' \in Seq(Events) /\ Len(topic') = Len(topic) + 1
        /\ unsent' \subseteq Keys
        BY <1>5, PublishType DEF ResendEntry
  <2>2. QED
        BY <1>5, <2>1 DEF ResendEntry
<1>6. CASE ResendFails
      BY <1>6 DEF ResendFails
<1>7. CASE MarkSeen
  <2>1. topic[position + 1] \in Events
        BY <1>7 DEF MarkSeen
  <2>2. outbox' \in [Keys -> Rows \cup {NoRow}]
        BY <1>7, <2>1 DEF MarkSeen, Events
  <2>3. QED
        BY <1>7, <2>2 DEF MarkSeen
<1>8. CASE CommitOffset
  <2>1. topic' \in Seq(Events)
        BY <1>8 DEF CommitOffset
  <2>2. QED
        BY <1>8, <2>1 DEF CommitOffset
<1>9. CASE Restart
      BY <1>9 DEF Restart
<1>10. CASE UNCHANGED outboxVars
      BY <1>10 DEF outboxVars
<1>11. QED
      BY <1>1, <1>2, <1>3, <1>4, <1>5, <1>6, <1>7, <1>8, <1>9, <1>10
      DEF OutboxNext, Pipeline

-----------------------------------------------------------------------------
(* Appending an event of a committed change keeps what is known of the     *)
(* events, and the other keys protected.                                   *)
LEMMA PublishKeeps ==
    ASSUME OutboxIInv, NEW e \in Events, e \in changes, Publish(e),
           UNCHANGED <<outbox, changes, last>>
    PROVE  /\ RowIsNewest'
           /\ \A i \in 1 .. Len(topic') : topic'[i] \in changes'
           /\ UnsentProtected'
<1> USE DEF OutboxIInv, OutboxTypeOK
<1>1. RowIsNewest'
      BY DEF RowIsNewest
<1>2. /\ Len(topic') = Len(topic) + 1
      /\ \A i \in 1 .. Len(topic) : topic'[i] = topic[i]
      /\ topic'[Len(topic) + 1] = e
      BY DEF Publish
<1>3. \A i \in 1 .. Len(topic') : topic'[i] \in changes'
      BY <1>2 DEF Known
<1>4. ASSUME NEW k \in unsent'
      PROVE  Protected(k)'
  <2>1. k \in unsent /\ k # e.key
        BY DEF Publish
  <2>2. Protected(k)
        BY <2>1 DEF UnsentProtected
  <2>3. QED
        BY <1>2, <2>1, <2>2 DEF Protected
<1>5. QED
      BY <1>1, <1>3, <1>4 DEF UnsentProtected

(* A newer change replaces the row of each of its keys.                    *)
LEMMA CommitWrites ==
    ASSUME OutboxIInv, NEW K \in KeySets, NEW uid \in Uids, NEW rev \in 0 .. MaxRev,
           Newer(K, uid, rev), Commit(K, uid, rev), NEW k \in K
    PROVE  k \in Keys /\ outbox'[k] = [uid |-> uid, rev |-> rev]
<1> USE DEF OutboxIInv, OutboxTypeOK
<1>1. k \in Keys
      BY OutboxAssumption
<1>2. outbox'[k] = Upsert(outbox[k], uid, rev)
      BY <1>1 DEF Commit
<1>3. CASE outbox[k] = NoRow
      BY <1>1, <1>2, <1>3 DEF Upsert
<1>4. CASE outbox[k] # NoRow
  <2>1. outbox[k] \in Rows
        BY <1>1, <1>4
  <2>2. outbox[k].uid = uid => outbox[k].rev < rev
        BY <1>1, <1>4 DEF RowIsNewest, Known, Newer
  <2>3. QED
        BY <1>1, <1>2, <2>1, <2>2 DEF Upsert
<1>5. QED
      BY <1>3, <1>4

LEMMA CommitKeeps ==
    ASSUME OutboxIInv, OutboxTypeOK', NEW K \in KeySets, NEW uid \in Uids,
           NEW rev \in 0 .. MaxRev, Newer(K, uid, rev), Commit(K, uid, rev)
    PROVE  RowIsNewest' /\ Known' /\ UnsentProtected'
<1> USE DEF OutboxIInv, OutboxTypeOK
<1>0. rev \in Nat /\ K \subseteq Keys
      BY OutboxAssumption
<1>1. \A k \in K : outbox'[k] = [uid |-> uid, rev |-> rev]
      BY CommitWrites
<1>2. \A k \in Keys \ K : outbox'[k] = outbox[k]
      BY DEF Commit
<1>3. \A c : c \in changes' <=>
          c \in changes \/ c \in [key : K, uid : {uid}, rev : {rev}]
      BY DEF Commit
<1>4. \A k \in Keys : last'[k] = IF k \in K THEN [uid |-> uid, rev |-> rev] ELSE last[k]
      BY DEF Commit
<1>5. RowIsNewest'
      BY <1>1, <1>2, <1>4 DEF RowIsNewest
<1>6. Known'
  <2>0. ASSUME NEW k \in Keys, last'[k] # NoRow
        PROVE  [key |-> k, uid |-> last'[k].uid, rev |-> last'[k].rev] \in changes'
        BY <1>3, <1>4, <2>0 DEF Known
  <2>1. \A i \in 1 .. Len(topic') : topic'[i] \in changes'
        BY <1>3 DEF Commit, Known
  <2>2. resending' \subseteq changes'
        BY <1>3 DEF Commit, Known
  <2>3. ASSUME NEW b \in inflight', NEW k \in b.keys
        PROVE  [key |-> k, uid |-> b.uid, rev |-> b.rev] \in changes'
        BY <1>3, <2>3 DEF Commit, Known
  <2>4. QED
        BY <2>0, <2>1, <2>2, <2>3 DEF Known
<1>7. ASSUME NEW k \in unsent'
      PROVE  Protected(k)'
  <2>1. CASE k \in K
    <3>1. outbox'[k] \in Rows /\ outbox'[k] # NoRow
          BY <1>0, <1>1, <2>1, OutboxAssumption DEF Rows
    <3>2. ASSUME NEW i \in 1 .. Len(topic), topic[i].key = k, topic[i].uid = uid
          PROVE  topic[i].rev < rev
          BY <2>1, <3>2 DEF Known, Newer
    <3>3. topic' = topic
          BY DEF Commit
    <3>4. QED
          BY <1>1, <2>1, <3>1, <3>2, <3>3 DEF Protected
  <2>2. CASE k \notin K
    <3>1. k \in unsent /\ outbox'[k] = outbox[k] /\ topic' = topic
          BY <1>2, <2>2 DEF Commit
    <3>2. QED
          BY <3>1 DEF UnsentProtected, Protected
  <2>3. QED
        BY <2>1, <2>2
<1>8. QED
      BY <1>5, <1>6, <1>7 DEF UnsentProtected

(* mark_seen leaves the rows of unannounced changes alone.                 *)
LEMMA MarkSeenKeeps ==
    ASSUME OutboxIInv, MarkSeen
    PROVE  RowIsNewest' /\ Known' /\ UnsentProtected'
<1> USE DEF OutboxIInv, OutboxTypeOK
<1> DEFINE e == topic[position + 1]
<1>1. position + 1 \in 1 .. Len(topic) /\ e \in Events
      BY DEF MarkSeen
<1>2. \A k \in Keys : outbox'[k] = outbox[k] \/ outbox'[k] = NoRow
      BY <1>1 DEF MarkSeen, Events
<1>3. RowIsNewest'
      BY <1>2 DEF MarkSeen, RowIsNewest
<1>4. Known'
      BY DEF MarkSeen, Known
<1>5. ASSUME NEW k \in unsent'
      PROVE  Protected(k)'
  <2>1. k \in unsent /\ k \in Keys /\ Protected(k)
        BY DEF MarkSeen, UnsentProtected
  <2>2. outbox[k] \in Rows /\ (e.key = k /\ e.uid = outbox[k].uid => e.rev < outbox[k].rev)
        BY <1>1, <2>1 DEF Protected
  <2>3. outbox'[k] = outbox[k]
    <3>1. CASE e.key = k
      <4>1. ~Seen(outbox[k], e)
            BY <1>1, <2>2, <3>1 DEF Seen, Rows, Events
      <4>2. QED
            BY <2>1, <3>1, <4>1 DEF MarkSeen
    <3>2. CASE e.key # k
          BY <2>1, <3>2 DEF MarkSeen
    <3>3. QED
          BY <3>1, <3>2
  <2>4. QED
        BY <2>1, <2>3 DEF Protected, MarkSeen
<1>6. QED
      BY <1>3, <1>4, <1>5 DEF UnsentProtected

LEMMA OutboxIInvStep == OutboxIInv /\ [OutboxNext]_outboxVars => OutboxIInv'
<1> SUFFICES ASSUME OutboxIInv, [OutboxNext]_outboxVars
             PROVE  OutboxIInv'
    OBVIOUS
<1> USE DEF OutboxIInv
<1>0. OutboxTypeOK'
      BY OutboxTypeStep
<1>1. CASE Change
  <2>1. PICK K \in KeySets, uid \in Uids, rev \in 0 .. MaxRev :
            Newer(K, uid, rev) /\ Commit(K, uid, rev)
        BY <1>1 DEF Change
  <2>2. QED
        BY <1>0, <2>1, CommitKeeps
<1>2. ASSUME NEW b \in inflight, NEW k \in b.keys, Send(b, k)
      PROVE  OutboxIInv'
  <2> DEFINE e == [key |-> k, uid |-> b.uid, rev |-> b.rev]
  <2>1. e \in changes /\ e \in Events
        BY DEF Known, OutboxTypeOK
  <2>2. Publish(e) /\ UNCHANGED <<outbox, changes, last, resending, position>>
        BY <1>2 DEF Send
  <2>3. /\ RowIsNewest' /\ UnsentProtected'
        /\ \A i \in 1 .. Len(topic') : topic'[i] \in changes'
        BY <2>1, <2>2, PublishKeeps
  <2>4. ASSUME NEW c \in inflight', NEW j \in c.keys
        PROVE  [key |-> j, uid |-> c.uid, rev |-> c.rev] \in changes
        BY <1>2, <2>4 DEF Send, Known
  <2>5. QED
        BY <1>0, <2>2, <2>3, <2>4 DEF Known
<1>3. ASSUME NEW b \in inflight, SendFails(b)
      PROVE  OutboxIInv'
      BY <1>0, <1>3 DEF SendFails, RowIsNewest, Known, UnsentProtected, Protected
<1>4. ASSUME NEW S \in SUBSET Unread, RetrieveUnseen(S)
      PROVE  OutboxIInv'
  <2>1. Unread \subseteq changes
        BY DEF Unread, RowIsNewest, Known
  <2>2. QED
        BY <1>0, <1>4, <2>1
        DEF RetrieveUnseen, RowIsNewest, Known, UnsentProtected, Protected
<1>5. ASSUME NEW e \in resending, ResendEntry(e)
      PROVE  OutboxIInv'
  <2>1. e \in changes /\ e \in Events
        BY DEF Known, OutboxTypeOK
  <2>2. Publish(e) /\ UNCHANGED <<outbox, changes, last, inflight>>
        BY <1>5 DEF ResendEntry
  <2>3. /\ RowIsNewest' /\ UnsentProtected'
        /\ \A i \in 1 .. Len(topic') : topic'[i] \in changes'
        BY <2>1, <2>2, PublishKeeps
  <2>4. resending' \subseteq changes'
        BY <1>5 DEF ResendEntry, Known
  <2>5. QED
        BY <1>0, <2>2, <2>3, <2>4 DEF Known
<1>6. CASE ResendFails
      BY <1>0, <1>6 DEF ResendFails, RowIsNewest, Known, UnsentProtected, Protected
<1>7. CASE MarkSeen
      BY <1>0, <1>7, MarkSeenKeeps
<1>8. CASE CommitOffset
  <2>1. \A i \in 1 .. Len(topic') :
            position + i \in 1 .. Len(topic) /\ topic'[i] = topic[position + i]
        BY <1>8 DEF CommitOffset, OutboxTypeOK
  <2>2. Known' /\ RowIsNewest'
        BY <1>8, <2>1 DEF CommitOffset, Known, RowIsNewest
  <2>3. ASSUME NEW k \in unsent'
        PROVE  Protected(k)'
    <3>1. Protected(k) /\ outbox' = outbox
          BY <1>8 DEF CommitOffset, UnsentProtected
    <3>2. QED
          BY <2>1, <3>1 DEF Protected
  <2>4. QED
        BY <1>0, <2>2, <2>3 DEF UnsentProtected
<1>9. CASE Restart
      BY <1>0, <1>9 DEF Restart, RowIsNewest, Known, UnsentProtected, Protected
<1>10. CASE UNCHANGED outboxVars
      BY <1>0, <1>10 DEF outboxVars, RowIsNewest, Known, UnsentProtected, Protected
<1>11. QED
      BY <1>1, <1>2, <1>3, <1>4, <1>5, <1>6, <1>7, <1>8, <1>9, <1>10
      DEF OutboxNext, Pipeline

-----------------------------------------------------------------------------
(* The inductive invariant holds in every reachable state.                 *)
THEOREM OutboxInvariant == OutboxSpec => []OutboxIInv
BY OutboxInitIInv, OutboxIInvStep, PTL DEF OutboxSpec

(* The types of the table and of the pipeline's variables.                 *)
THEOREM OutboxTypeCorrect == OutboxSpec => []OutboxTypeOK
<1>1. OutboxIInv => OutboxTypeOK
      BY DEF OutboxIInv
<1>2. QED
      BY <1>1, OutboxInvariant, PTL

(* No committed change is lost, whatever fails: as long as none of its     *)
(* events was sent since, its row is in the table (send_to_outbox within   *)
(* the transaction; create and mark_seen comparing revision and uid).      *)
THEOREM NothingLost == OutboxSpec => []NoLostChange
<1>1. OutboxIInv => NoLostChange
      BY DEF OutboxIInv, UnsentProtected, Protected, NoLostChange
<1>2. QED
      BY <1>1, OutboxInvariant, PTL

(* What the Resender sends for a key is its newest change: the conditional *)
(* ON CONFLICT update of PostgresOutboxAccessor::create never keeps an     *)
(* older one.                                                              *)
THEOREM NewestIsResent == OutboxSpec => []RowIsNewest
<1>1. OutboxIInv => RowIsNewest
      BY DEF OutboxIInv
<1>2. QED
      BY <1>1, OutboxInvariant, PTL

=============================================================================
