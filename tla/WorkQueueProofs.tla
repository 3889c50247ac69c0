--------------------------- MODULE WorkQueueProofs ---------------------------
(***************************************************************************)
(* No request is lost in the work queue, for any keys, instances, delays   *)
(* and bounds, provided the clocks of several instances do not lag behind  *)
(* the database's; a single instance may have any clock.                   *)
(***************************************************************************)
EXTENDS WorkQueue, TLAPS

SingleInstance == \A i, j \in Instances : i = j
ClocksNotBehind == \A s \in Skews : s >= 0

Working(i) == reader[i].pc # "next"

\* The entry the reader of i works on is the one that is in the table.
WouldAck(i) == /\ queue[reader[i].key].ts <= reader[i].ts
               /\ queue[reader[i].key].rev = reader[i].rev

\* NoLostWork, strengthened: an entry in work was due when it was fetched; its
\* acknowledgement removes no row that was asked for since; and the only
\* instance finds the row of its key as old as it was, or newer.
EntryInv(i) ==
  Working(i) =>
    /\ reader[i].ts < now
    /\ reader[i].key \in pending => ~WouldAck(i)
    /\ SingleInstance => /\ queue[reader[i].key] # NoRow
                         /\ queue[reader[i].key].rev >= reader[i].rev

IInv == TypeOK /\ NoLostWork /\ \A i \in Instances : EntryInv(i)

\* Initially no entry is in work and nothing is pending.
LEMMA InitIInv == Init => IInv
<1>. SUFFICES ASSUME Init PROVE IInv
  OBVIOUS
<1>1. queue \in [Keys -> Rows \cup {NoRow}]
  BY DEF Init, Rows
<1>2. PICK k \in Keys :
        /\ reader = [i \in Instances |->
                       [pc |-> "next", key |-> k, ts |-> 0, rev |-> 0,
                        retries |-> 0, after |-> 0]]
        /\ event = [i \in Instances |->
                       [pc |-> "idle", key |-> k, retries |-> 0, after |-> 0]]
  BY DEF Init
<1>3. reader \in [Instances -> ReaderStates] /\ event \in [Instances -> EventStates]
  BY <1>2 DEF ReaderStates, EventStates
<1>4. \A i \in Instances : ~Working(i)
  BY <1>2 DEF Working
<1>. QED
  BY <1>1, <1>3, <1>4 DEF Init, IInv, EntryInv, TypeOK, NoLostWork

\* Insert leaves a row for its key, of the table's type.
LEMMA InsertType ==
  ASSUME TypeOK, NEW k \in Keys, NEW ts \in Int
  PROVE  Insert(k, ts) \in Rows
  <1>1. queue[k] = NoRow \/ queue[k] \in Rows
    BY DEF TypeOK
  <1>. QED
    BY <1>1 DEF Insert, Rows

\* What an operation may end in.
LEMMA OutcomeType ==
  ASSUME NEW retries \in Nat, NEW done, NEW o \in Outcome(retries, done)
  PROVE  o.pc \in {done, "add", "process"} /\ o.retries \in Nat /\ o.after \in Nat
  BY TimeAssumption DEF Outcome

\* Adding a key keeps the table's part of the invariant, whatever the adding
\* task is: either the row becomes newer than every entry in work, or it was.
LEMMA AddKeeps ==
  ASSUME IInv, ClocksNotBehind \/ SingleInstance,
         NEW k \in Keys, NEW after \in Nat, Add(k, after),
         NEW i \in Instances, Working(i)
  PROVE  LET row == queue'[reader[i].key]
         IN  /\ reader[i].key \in pending'
                  => ~(row.ts <= reader[i].ts /\ row.rev = reader[i].rev)
             /\ SingleInstance => row # NoRow /\ row.rev >= reader[i].rev
<1>1. PICK skew \in Skews : /\ queue' = [queue EXCEPT ![k] = Insert(k, now + skew + after)]
                            /\ pending' = pending \cup {k}
  BY DEF Add
<1>2. /\ skew \in Int /\ now \in Nat
      /\ queue \in [Keys -> Rows \cup {NoRow}]
      /\ reader[i] \in ReaderStates
  BY TimeAssumption DEF IInv, TypeOK
<1>3. reader[i].key \in Keys /\ reader[i].ts \in Int /\ reader[i].rev \in Nat
  BY <1>2 DEF ReaderStates
<1>4. CASE reader[i].key # k
  BY <1>1, <1>2, <1>3, <1>4 DEF IInv, EntryInv, WouldAck
<1>5. CASE reader[i].key = k
  <2>. DEFINE ts == now + skew + after
              row == Insert(k, ts)
  <2>1. queue'[k] = row
    BY <1>1, <1>2
  <2>2. row \in Rows
    BY <1>2, InsertType DEF IInv
  <2>3. reader[i].ts < now
    BY DEF IInv, EntryInv
  <2>4. CASE queue[k] = NoRow
    <3>1. row = [ts |-> ts, rev |-> 0] /\ ~SingleInstance
      BY <2>4, <1>5 DEF Insert, IInv, EntryInv
    <3>2. row.ts > reader[i].ts
      BY <3>1, <2>3, <1>2, <1>3 DEF ClocksNotBehind
    <3>. QED
      BY <1>5, <2>1, <3>1, <3>2, <2>2, <1>3 DEF Rows
  <2>5. CASE queue[k] # NoRow /\ (queue[k].ts > ts \/ queue[k].ts < now)
    <3>1. queue[k] \in Rows /\ row = [ts |-> ts, rev |-> queue[k].rev + 1]
      BY <2>5, <1>2 DEF Insert
    <3>2. SingleInstance => row.rev > reader[i].rev
      BY <3>1, <1>3, <1>5 DEF IInv, EntryInv, Rows
    <3>3. ~SingleInstance => row.ts > reader[i].ts
      BY <3>1, <2>3, <1>2, <1>3 DEF ClocksNotBehind
    <3>4. row # NoRow
      BY <2>2, NoRowAssumption DEF Rows
    <3>. HIDE DEF row
    <3>. QED
      BY <1>5, <2>1, <2>2, <3>2, <3>3, <3>4, <1>3 DEF Rows
  <2>6. CASE queue[k] # NoRow /\ ~(queue[k].ts > ts \/ queue[k].ts < now)
    <3>1. queue[k] \in Rows /\ row = queue[k]
      BY <2>6, <1>2 DEF Insert
    <3>2. row.ts > reader[i].ts
      BY <3>1, <2>6, <2>3, <1>2, <1>3 DEF Rows
    <3>3. SingleInstance => row.rev >= reader[i].rev
      BY <3>1, <1>5 DEF IInv, EntryInv
    <3>. QED
      BY <1>5, <2>1, <2>6, <3>1, <3>2, <3>3, <1>3 DEF Rows
  <2>. QED
    BY <2>4, <2>5, <2>6
<1>. QED
  BY <1>4, <1>5

\* Adding a key gives it a row and takes none away.
LEMMA AddFills ==
  ASSUME TypeOK, NoLostWork, NEW k \in Keys, NEW after \in Nat, Add(k, after)
  PROVE  NoLostWork'
<1>1. PICK skew \in Skews : /\ queue' = [queue EXCEPT ![k] = Insert(k, now + skew + after)]
                            /\ pending' = pending \cup {k}
  BY DEF Add
<1>2. Insert(k, now + skew + after) \in Rows
  BY InsertType, TimeAssumption DEF TypeOK
<1>. QED
  BY <1>1, <1>2, NoRowAssumption DEF NoLostWork, TypeOK, Rows

\* Every step has well-typed results.
LEMMA TypeStep == TypeOK /\ [Next]_vars => TypeOK'
<1>. SUFFICES ASSUME TypeOK, [Next]_vars PROVE TypeOK'
  OBVIOUS
<1>. USE DEF TypeOK
<1>1. CASE Tick
  BY <1>1 DEF Tick
<1>2. ASSUME NEW i \in Instances, EventNext(i) PROVE TypeOK'
  <2>0. event[i] \in EventStates
    OBVIOUS
  <2>1. CASE EventArrives(i)
    BY <2>1 DEF EventArrives, EventStates
  <2>2. CASE EventLock(i)
    BY <2>0, <2>2 DEF EventLock, EventStates
  <2>3. CASE EventProcess(i)
    <3>1. PICK o \in Outcome(event[i].retries, "idle") :
            event' = [event EXCEPT ![i].pc = o.pc, ![i].retries = o.retries,
                                   ![i].after = o.after]
      BY <2>3 DEF EventProcess
    <3>2. event[i].retries \in Nat
      BY <2>0 DEF EventStates
    <3>3. o.pc \in {"idle", "add", "process"} /\ o.retries \in Nat /\ o.after \in Nat
      BY <3>2, OutcomeType
    <3>. QED
      BY <2>0, <2>3, <3>1, <3>3 DEF EventProcess, EventStates
  <2>4. CASE EventAdd(i)
    BY <2>0, <2>4, InsertType, TimeAssumption DEF EventAdd, Add, EventStates
  <2>5. CASE EventAddFails(i)
    BY <2>0, <2>5 DEF EventAddFails, EventStates
  <2>. QED
    BY <1>2, <2>1, <2>2, <2>3, <2>4, <2>5 DEF EventNext
<1>3. ASSUME NEW i \in Instances, ReaderNext(i) PROVE TypeOK'
  <2>0. reader[i] \in ReaderStates
    OBVIOUS
  <2>1. CASE Fetch(i)
    BY <2>1 DEF Fetch, Oldest, Due, Rows, ReaderStates
  <2>2. CASE ReaderLock(i)
    BY <2>0, <2>2 DEF ReaderLock, ReaderStates
  <2>3. CASE ReaderProcess(i)
    <3>1. PICK o \in Outcome(reader[i].retries, "ack") :
            reader' = [reader EXCEPT ![i].pc = o.pc, ![i].retries = o.retries,
                                     ![i].after = o.after]
      BY <2>3 DEF ReaderProcess
    <3>2. reader[i].retries \in Nat
      BY <2>0 DEF ReaderStates
    <3>3. o.pc \in {"ack", "add", "process"} /\ o.retries \in Nat /\ o.after \in Nat
      BY <3>2, OutcomeType
    <3>. QED
      BY <2>0, <2>3, <3>1, <3>3 DEF ReaderProcess, ReaderStates
  <2>4. CASE ReaderAdd(i)
    BY <2>0, <2>4, InsertType, TimeAssumption DEF ReaderAdd, Add, ReaderStates
  <2>5. CASE ReaderAddFails(i)
    BY <2>0, <2>5 DEF ReaderAddFails, ReaderStates
  <2>6. CASE Ack(i)
    BY <2>0, <2>6 DEF Ack, DoAck, ReaderStates
  <2>7. CASE AckFails(i)
    BY <2>0, <2>7 DEF AckFails, ReaderStates
  <2>. QED
    BY <1>3, <2>1, <2>2, <2>3, <2>4, <2>5, <2>6, <2>7 DEF ReaderNext
<1>4. ASSUME NEW i \in Instances, Crash(i) PROVE TypeOK'
  <2>1. reader[i] \in ReaderStates /\ event[i] \in EventStates
    OBVIOUS
  <2>. QED
    BY <1>4, <2>1 DEF Crash, ReaderStates, EventStates
<1>5. CASE UNCHANGED vars
  BY <1>5 DEF vars
<1>. QED
  BY <1>1, <1>2, <1>3, <1>4, <1>5 DEF Next

\* A step that leaves the table, the pending keys and the entries of the
\* readers alone, and starts no work, keeps the invariant.
LEMMA TableUnchanged ==
  ASSUME IInv, TypeOK', queue' = queue, pending' = pending, now' \in Nat, now <= now',
         \A i \in Instances : /\ Working(i)' => Working(i)
                              /\ reader'[i].key = reader[i].key
                              /\ reader'[i].ts = reader[i].ts
                              /\ reader'[i].rev = reader[i].rev
  PROVE  IInv'
<1>1. NoLostWork'
  BY DEF IInv, NoLostWork
<1>2. ASSUME NEW i \in Instances PROVE EntryInv(i)'
  <2>1. reader[i].ts \in Int /\ now \in Nat
    BY DEF IInv, TypeOK, ReaderStates
  <2>2. EntryInv(i)
    BY DEF IInv
  <2>. QED
    BY <2>1, <2>2 DEF EntryInv, WouldAck, SingleInstance
<1>. QED
  BY <1>1, <1>2 DEF IInv

\* Every step keeps the invariant.
LEMMA IInvStep ==
  ASSUME ClocksNotBehind \/ SingleInstance, IInv, [Next]_vars
  PROVE  IInv'
<1>0. TypeOK /\ TypeOK'
  BY TypeStep DEF IInv
<1>1. CASE Tick
  BY <1>0, <1>1, TableUnchanged DEF Tick, Working, TypeOK
<1>2. ASSUME NEW i \in Instances, EventNext(i) PROVE IInv'
  <2>1. CASE EventAdd(i)
    <3>1. event[i].key \in Keys /\ event[i].after \in Nat
      BY <1>0 DEF TypeOK, EventStates
    <3>2. ASSUME NEW j \in Instances PROVE EntryInv(j)'
      <4>1. CASE Working(j)
        <5>1. reader[j].ts < now
          BY <4>1 DEF IInv, EntryInv
        <5>. QED
          BY <2>1, <3>1, <4>1, <5>1, AddKeeps DEF EventAdd, EntryInv, WouldAck, SingleInstance
      <4>2. CASE ~Working(j)
        BY <2>1, <4>2 DEF EventAdd, EntryInv, Working
      <4>. QED
        BY <4>1, <4>2
    <3>3. NoLostWork'
      BY <1>0, <2>1, <3>1, AddFills DEF EventAdd, IInv
    <3>. QED
      BY <1>0, <3>2, <3>3 DEF IInv
  <2>2. CASE ~EventAdd(i)
    <3>1. UNCHANGED <<queue, now, reader, pending>>
      BY <1>2, <2>2 DEF EventNext, EventArrives, EventLock, EventProcess, EventAddFails
    <3>. QED
      BY <1>0, <3>1, TableUnchanged DEF Working, TypeOK
  <2>. QED
    BY <2>1, <2>2
<1>3. ASSUME NEW i \in Instances, ReaderNext(i) PROVE IInv'
  <2>0. reader \in [Instances -> ReaderStates]
    BY <1>0 DEF TypeOK
  <2>1. CASE Fetch(i)
    <3>1. PICK k \in Oldest :
            /\ reader' = [reader EXCEPT ![i] =
                            [pc |-> IF k \in Unparsable THEN "ack" ELSE "lock",
                             key |-> k, ts |-> queue[k].ts, rev |-> queue[k].rev,
                             retries |-> 0, after |-> 0]]
            /\ pending' = pending \ {k}
            /\ UNCHANGED <<queue, now, event>>
      BY <2>1 DEF Fetch
    <3>2. k \in Keys /\ queue[k] # NoRow /\ queue[k].ts < now /\ queue[k] \in Rows
      BY <1>0 DEF Oldest, Due, TypeOK
    <3>3. ASSUME NEW j \in Instances PROVE EntryInv(j)'
      <4>1. CASE j = i
        BY <2>0, <3>1, <3>2, <4>1 DEF EntryInv, Rows
      <4>2. CASE j # i
        BY <2>0, <3>1, <4>2 DEF IInv, EntryInv, Working, WouldAck, SingleInstance
      <4>. QED
        BY <4>1, <4>2
    <3>4. NoLostWork'
      BY <3>1 DEF IInv, NoLostWork
    <3>. QED
      BY <1>0, <3>3, <3>4 DEF IInv
  <2>2. CASE ReaderAdd(i)
    <3>1. reader[i].key \in Keys /\ reader[i].after \in Nat
      BY <2>0 DEF ReaderStates
    <3>2. ASSUME NEW j \in Instances PROVE EntryInv(j)'
      <4>1. /\ Working(j)' => Working(j)
            /\ reader'[j].key = reader[j].key /\ reader'[j].ts = reader[j].ts
            /\ reader'[j].rev = reader[j].rev
        BY <2>0, <2>2 DEF ReaderAdd, Working, ReaderStates
      <4>2. CASE Working(j)
        <5>1. reader[j].ts < now
          BY <4>2 DEF IInv, EntryInv
        <5>. QED
          BY <2>2, <3>1, <4>1, <4>2, <5>1, AddKeeps DEF ReaderAdd, EntryInv, WouldAck, SingleInstance
      <4>3. CASE ~Working(j)
        BY <4>1, <4>3 DEF EntryInv
      <4>. QED
        BY <4>2, <4>3
    <3>3. NoLostWork'
      BY <1>0, <2>2, <3>1, AddFills DEF ReaderAdd, IInv
    <3>. QED
      BY <1>0, <3>2, <3>3 DEF IInv
  <2>3. CASE Ack(i)
    <3>. DEFINE k == reader[i].key
    <3>1. Working(i) /\ EntryInv(i) /\ k \in Keys
      BY <2>0, <2>3 DEF Ack, Working, IInv, ReaderStates
    <3>2. \A key \in Keys : queue'[key] # queue[key]
                              => key = k /\ WouldAck(i) /\ queue'[key] = NoRow
      BY <1>0, <2>3 DEF Ack, DoAck, WouldAck, TypeOK
    <3>3. NoLostWork'
      BY <1>0, <2>3, <3>1, <3>2 DEF Ack, EntryInv, IInv, NoLostWork, TypeOK
    <3>4. ASSUME NEW j \in Instances PROVE EntryInv(j)'
      <4>1. CASE j = i
        BY <2>0, <2>3, <4>1 DEF Ack, EntryInv, Working, ReaderStates
      <4>2. CASE j # i
        <5>1. reader'[j] = reader[j] /\ now' = now /\ pending' = pending
          BY <2>0, <2>3, <4>2 DEF Ack
        <5>2. ~SingleInstance
          BY <4>2 DEF SingleInstance
        <5>3. reader[j].key \in Keys
          BY <2>0 DEF ReaderStates
        <5>4. EntryInv(j)
          BY DEF IInv
        <5>5. reader[j].key \in pending => queue'[reader[j].key] = queue[reader[j].key]
          BY <3>1, <3>2, <5>3 DEF EntryInv
        <5>. QED
          BY <5>1, <5>2, <5>4, <5>5 DEF EntryInv, Working, WouldAck, SingleInstance
      <4>. QED
        BY <4>1, <4>2
    <3>. QED
      BY <1>0, <3>3, <3>4 DEF IInv
  <2>4. CASE ReaderLock(i) \/ ReaderProcess(i) \/ ReaderAddFails(i) \/ AckFails(i)
    <3>1. UNCHANGED <<queue, now, pending>>
      BY <2>4 DEF ReaderLock, ReaderProcess, ReaderAddFails, AckFails
    <3>2. \A j \in Instances : /\ Working(j)' => Working(j)
                               /\ reader'[j].key = reader[j].key
                               /\ reader'[j].ts = reader[j].ts
                               /\ reader'[j].rev = reader[j].rev
      <4>1. CASE ReaderProcess(i)
        BY <2>0, <4>1 DEF ReaderProcess, Working, ReaderStates
      <4>2. CASE ReaderLock(i) \/ ReaderAddFails(i) \/ AckFails(i)
        BY <2>0, <4>2 DEF ReaderLock, ReaderAddFails, AckFails, Working, ReaderStates
      <4>. QED
        BY <2>4, <4>1, <4>2
    <3>. QED
      BY <1>0, <3>1, <3>2, TableUnchanged DEF TypeOK
  <2>. QED
    BY <1>3, <2>1, <2>2, <2>3, <2>4 DEF ReaderNext
<1>4. ASSUME NEW i \in Instances, Crash(i) PROVE IInv'
  <2>1. \A j \in Instances : /\ Working(j)' => Working(j)
                             /\ reader'[j].key = reader[j].key
                             /\ reader'[j].ts = reader[j].ts
                             /\ reader'[j].rev = reader[j].rev
    BY <1>0, <1>4 DEF Crash, Working, ReaderStates, TypeOK
  <2>. QED
    BY <1>0, <1>4, <2>1, TableUnchanged DEF Crash, TypeOK
<1>5. CASE UNCHANGED vars
  BY <1>0, <1>5, TableUnchanged DEF vars, Working, TypeOK
<1>. QED
  BY <1>1, <1>2, <1>3, <1>4, <1>5 DEF Next

\* The type invariant of the work queue holds in every state.
THEOREM TypeCorrect == Spec => []TypeOK
<1>1. Init => TypeOK
  BY InitIInv DEF IInv
<1>. QED
  BY <1>1, TypeStep, PTL DEF Spec

\* Nothing asked for is lost from the queue (insert, fetch, do_ack), when the
\* clocks of the instances are not behind the database's or there is only one
\* instance.
THEOREM QueueLosesNothing ==
  ASSUME ClocksNotBehind \/ SingleInstance
  PROVE  Spec => []NoLostWork
<1>1. IInv /\ [Next]_vars => IInv'
  BY IInvStep
<1>2. IInv => NoLostWork
  BY DEF IInv
<1>. QED
  BY InitIInv, <1>1, <1>2, PTL DEF Spec

\* A single instance works on a key only while its row is in the table.
THEOREM SingleInstanceKeepsWork ==
  ASSUME SingleInstance
  PROVE  Spec => []WorkKeptUntilAcked
<1>1. IInv /\ [Next]_vars => IInv'
  BY IInvStep
<1>2. IInv => WorkKeptUntilAcked
  BY DEF IInv, EntryInv, Working, WorkKeptUntilAcked
<1>. QED
  BY InitIInv, <1>1, <1>2, PTL DEF Spec

=============================================================================
