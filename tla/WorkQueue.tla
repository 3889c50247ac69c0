------------------------------ MODULE WorkQueue ------------------------------
(***************************************************************************)
(* The persistent work queue of the operators, and the base controller     *)
(* that feeds and drains it (operator-common/src/controller/base).         *)
(*                                                                         *)
(* Every operator instance runs two tasks over one operation: the event    *)
(* task (BaseController::process, called for each registry event) and the  *)
(* reader task (WorkQueueReader).  Both run the operation under the        *)
(* instance's mutex.  A key whose operation asks for a retry is added to   *)
(* the WORKQUEUE table, which all instances share.                         *)
(***************************************************************************)
EXTENDS Integers

CONSTANTS
  Keys,        \* the keys of the table
  Unparsable,  \* those that K::from_string rejects; nothing adds them any more
  Instances,   \* the operator instances
  Delays,      \* the delays an operation may ask for
  Skews,       \* an instance's clock minus the database's clock
  MAX_RETRIES, \* local retries before the key goes to the queue
  NoRow,       \* the key has no row
  Horizon,     \* bound: no crash and no request for a retry after this time
  MaxTime,     \* bound: the clock stops here
  MaxRev       \* bound on REV

ASSUME KeysAssumption == Unparsable \subseteq Keys
ASSUME TimeAssumption == /\ Delays \subseteq Nat /\ 0 \in Delays
                         /\ Skews \subseteq Int
                         /\ Horizon \in Nat /\ MaxTime \in Nat
                         /\ MAX_RETRIES \in Nat /\ MaxRev \in Nat
ASSUME NoRowAssumption == NoRow \notin [ts : Int, rev : Nat]

VARIABLES
  queue,    \* the table: key -> row
  now,      \* the database's clock, now()
  reader,   \* instance -> its reader task, with the Entry it works on
  event,    \* instance -> its event task
  pending   \* keys added to the queue and not fetched since (history)

vars == <<queue, now, reader, event, pending>>

Rows == [ts : Int, rev : Nat]

\* The reader task: waiting for an entry, waiting for the mutex, running the
\* operation, adding the key again, deleting the entry.
ReaderStates ==
  [pc : {"next", "lock", "process", "add", "ack"}, key : Keys, ts : Int,
   rev : Nat, retries : Nat, after : Nat]

\* The event task; it keeps the mutex while it adds the key.
EventStates ==
  [pc : {"idle", "lock", "process", "add"}, key : Keys, retries : Nat,
   after : Nat]

TypeOK ==
  /\ queue \in [Keys -> Rows \cup {NoRow}]
  /\ now \in Nat
  /\ reader \in [Instances -> ReaderStates]
  /\ event \in [Instances -> EventStates]
  /\ pending \subseteq Keys

Init ==
  /\ queue = [k \in Keys |-> IF k \in Unparsable THEN [ts |-> 0, rev |-> 0]
                                                 ELSE NoRow]
  /\ now = 1
  /\ \E k \in Keys :
       /\ reader = [i \in Instances |->
                      [pc |-> "next", key |-> k, ts |-> 0, rev |-> 0,
                       retries |-> 0, after |-> 0]]
       /\ event = [i \in Instances |->
                      [pc |-> "idle", key |-> k, retries |-> 0, after |-> 0]]
  /\ pending = {}

-----------------------------------------------------------------------------
(* The three statements on the table. *)

\* Faulty variants: the row is always replaced; REV is decremented.
InsertAlways(k, ts) ==
  IF queue[k] = NoRow THEN [ts |-> ts, rev |-> 0]
  ELSE [ts |-> ts, rev |-> queue[k].rev + 1]
\* INSERT ... ON CONFLICT: the row of k once ts has been inserted.
Insert(k, ts) ==
  IF queue[k] = NoRow THEN [ts |-> ts, rev |-> 0]
  ELSE IF queue[k].ts > ts \/ queue[k].ts < now
  THEN [ts |-> ts, rev |-> queue[k].rev + 1]
  ELSE queue[k]

\* add: k is scheduled at the instance's own clock plus the delay.
Add(k, after) ==
  \E skew \in Skews :
    /\ Insert(k, now + skew + after).rev <= MaxRev
    /\ queue' = [queue EXCEPT ![k] = Insert(k, now + skew + after)]
    /\ pending' = pending \cup {k}

\* SELECT ... WHERE TS < now() ORDER BY TS LIMIT 1: the keys it may return.
Due == {k \in Keys : queue[k] # NoRow /\ queue[k].ts < now}
Oldest == {k \in Due : \A other \in Due : queue[k].ts <= queue[other].ts}

\* Faulty variants: the entry is deleted by its key alone; only earlier rows are
\* deleted.
DoAckByKey(k, ts, rev) == [queue EXCEPT ![k] = NoRow]
DoAckEarlier(k, ts, rev) ==
  IF queue[k] # NoRow /\ queue[k].ts < ts /\ queue[k].rev = rev
  THEN [queue EXCEPT ![k] = NoRow]
  ELSE queue

\* DELETE ... WHERE KEY, TS <= and REV =: the rows it removes.
DoAck(k, ts, rev) ==
  IF queue[k] # NoRow /\ queue[k].ts <= ts /\ queue[k].rev = rev
  THEN [queue EXCEPT ![k] = NoRow]
  ELSE queue

-----------------------------------------------------------------------------
(* The mutex around the operation. *)

Unlocked(i) == /\ reader[i].pc # "process"
               /\ event[i].pc \notin {"process", "add"}

\* InnerBaseController::process: what a task may do after one result of the
\* operation, when it had been retried so many times; done is where the task
\* goes when nothing is left to do.
Outcome(retries, done) ==
  {[pc |-> done, retries |-> retries, after |-> 0]}
    \cup (IF now > Horizon THEN {}
          ELSE {[pc |-> "add", retries |-> retries, after |-> d] : d \in Delays \ {0}}
                 \cup {IF retries + 1 > MAX_RETRIES
                       THEN [pc |-> "add", retries |-> retries + 1, after |-> 0]
                       ELSE [pc |-> "process", retries |-> retries + 1, after |-> 0]})

-----------------------------------------------------------------------------
(* The event task. *)

EventArrives(i) ==
  /\ event[i].pc = "idle"
  /\ \E k \in Keys \ Unparsable :
       event' = [event EXCEPT ![i] = [pc |-> "lock", key |-> k,
                                      retries |-> 0, after |-> 0]]
  /\ UNCHANGED <<queue, now, reader, pending>>

EventLock(i) ==
  /\ event[i].pc = "lock" /\ Unlocked(i)
  /\ event' = [event EXCEPT ![i].pc = "process"]
  /\ UNCHANGED <<queue, now, reader, pending>>

EventProcess(i) ==
  /\ event[i].pc = "process"
  /\ \E o \in Outcome(event[i].retries, "idle") :
       event' = [event EXCEPT ![i].pc = o.pc, ![i].retries = o.retries,
                              ![i].after = o.after]
  /\ UNCHANGED <<queue, now, reader, pending>>

EventAdd(i) ==
  /\ event[i].pc = "add"
  /\ Add(event[i].key, event[i].after)
  /\ event' = [event EXCEPT ![i].pc = "idle"]
  /\ UNCHANGED <<now, reader>>

\* The add fails: process returns an error, and the event source delivers the
\* event again.
EventAddFails(i) ==
  /\ event[i].pc = "add"
  /\ event' = [event EXCEPT ![i].pc = "lock", ![i].retries = 0]
  /\ UNCHANGED <<queue, now, reader, pending>>

-----------------------------------------------------------------------------
(* The reader task. *)

\* A faulty variant: the entry is taken out of the table.
FetchAndDelete(i) ==
  /\ reader[i].pc = "next"
  /\ \E k \in Oldest :
       /\ reader' = [reader EXCEPT ![i] =
                       [pc |-> IF k \in Unparsable THEN "ack" ELSE "lock",
                        key |-> k, ts |-> queue[k].ts, rev |-> queue[k].rev,
                        retries |-> 0, after |-> 0]]
       /\ queue' = [queue EXCEPT ![k] = NoRow]
       /\ pending' = pending \ {k}
  /\ UNCHANGED <<now, event>>

\* fetch: an entry whose key cannot be parsed is acknowledged at once.
Fetch(i) ==
  /\ reader[i].pc = "next"
  /\ \E k \in Oldest :
       /\ reader' = [reader EXCEPT ![i] =
                       [pc |-> IF k \in Unparsable THEN "ack" ELSE "lock",
                        key |-> k, ts |-> queue[k].ts, rev |-> queue[k].rev,
                        retries |-> 0, after |-> 0]]
       /\ pending' = pending \ {k}
  /\ UNCHANGED <<queue, now, event>>

ReaderLock(i) ==
  /\ reader[i].pc = "lock" /\ Unlocked(i)
  /\ reader' = [reader EXCEPT ![i].pc = "process"]
  /\ UNCHANGED <<queue, now, event, pending>>

\* The operation runs; the next thing to do is to acknowledge or to add.
ReaderProcess(i) ==
  /\ reader[i].pc = "process"
  /\ \E o \in Outcome(reader[i].retries, "ack") :
       reader' = [reader EXCEPT ![i].pc = o.pc, ![i].retries = o.retries,
                                ![i].after = o.after]
  /\ UNCHANGED <<queue, now, event, pending>>

ReaderAdd(i) ==
  /\ reader[i].pc = "add"
  /\ Add(reader[i].key, reader[i].after)
  /\ reader' = [reader EXCEPT ![i].pc = "ack"]
  /\ UNCHANGED <<now, event>>

\* The add fails: the entry is not acknowledged.
ReaderAddFails(i) ==
  /\ reader[i].pc = "add"
  /\ reader' = [reader EXCEPT ![i].pc = "next"]
  /\ UNCHANGED <<queue, now, event, pending>>

Ack(i) ==
  /\ reader[i].pc = "ack"
  /\ queue' = DoAck(reader[i].key, reader[i].ts, reader[i].rev)
  /\ reader' = [reader EXCEPT ![i].pc = "next"]
  /\ UNCHANGED <<now, event, pending>>

\* The statement fails, which is only logged.
AckFails(i) ==
  /\ reader[i].pc = "ack"
  /\ reader' = [reader EXCEPT ![i].pc = "next"]
  /\ UNCHANGED <<queue, now, event, pending>>

-----------------------------------------------------------------------------
\* The instance stops at any point.  Its entry stays in the table, and the
\* event it had not acknowledged is delivered again.
Crash(i) ==
  /\ now <= Horizon
  /\ reader' = [reader EXCEPT ![i].pc = "next"]
  /\ event' = [event EXCEPT ![i].pc = IF @ = "idle" THEN "idle" ELSE "lock",
                            ![i].retries = 0]
  /\ UNCHANGED <<queue, now, pending>>

\* Time passes; bound: not past the horizon while an add is in flight.
Tick ==
  /\ now < MaxTime
  /\ now >= Horizon => \A i \in Instances : "add" \notin {reader[i].pc, event[i].pc}
  /\ now' = now + 1
  /\ UNCHANGED <<queue, reader, event, pending>>

EventNext(i) == EventArrives(i) \/ EventLock(i) \/ EventProcess(i)
                  \/ EventAdd(i) \/ EventAddFails(i)
ReaderNext(i) == Fetch(i) \/ ReaderLock(i) \/ ReaderProcess(i)
                   \/ ReaderAdd(i) \/ ReaderAddFails(i) \/ Ack(i) \/ AckFails(i)

Next == Tick \/ \E i \in Instances : EventNext(i) \/ ReaderNext(i) \/ Crash(i)

Spec == Init /\ [][Next]_vars

\* Tasks run when they can, statements on the database do not fail forever and
\* the mutex is handed out in order.
Fairness ==
  /\ SF_vars(Tick)
  /\ \A i \in Instances :
       /\ SF_vars(EventLock(i)) /\ WF_vars(EventProcess(i)) /\ SF_vars(EventAdd(i))
       /\ WF_vars(Fetch(i)) /\ SF_vars(ReaderLock(i)) /\ WF_vars(ReaderProcess(i))
       /\ SF_vars(ReaderAdd(i)) /\ SF_vars(Ack(i))

FairSpec == Spec /\ Fairness

-----------------------------------------------------------------------------
\* A key added to the queue keeps a row until a reader has fetched it after
\* the add: neither an acknowledgement of an earlier entry of the key nor a
\* conflicting insert loses the request (insert, fetch, do_ack).
NoLostWork == \A k \in pending : queue[k] # NoRow

\* While the reader's operation has not finished, the row of its key stays in
\* the table, so that a crash repeats the work instead of losing it.  One
\* instance only: a second one may acknowledge the same entry first.
WorkKeptUntilAcked ==
  \A i \in Instances : reader[i].pc \in {"lock", "process", "add"}
                         => queue[reader[i].key] # NoRow

\* An insert moves the row of a key to a later time only when the row was due
\* already; a row that is still in the future can only be brought forward.
PostponedOnlyWhenDue ==
  [][\A k \in Keys : queue[k] # NoRow /\ queue'[k] # NoRow
                       /\ queue'[k].ts > queue[k].ts
                         => queue[k].ts < now]_vars

\* Every key added to the queue is fetched in the end: no other key's retries,
\* failed statements or events keep the reader from it for ever.
EveryAddIsFetched == \A k \in Keys : k \in pending ~> k \notin pending
=============================================================================
