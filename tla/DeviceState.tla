----------------------------- MODULE DeviceState -----------------------------
(***************************************************************************)
(* Connection states of devices: the device state service with its         *)
(* database (device-state-service), and the state controller, runner and   *)
(* mux inside every connection-oriented endpoint (service-common/src/state)*)
(* that calls it over HTTP.                                                *)
(*                                                                         *)
(* An endpoint process has one session.  Each connection of a device has a *)
(* token of its own.  Calls may be delayed, and requests and answers may   *)
(* get lost; the caller then only knows that the call failed.              *)
(***************************************************************************)
EXTENDS Naturals

CONSTANTS
  Sessions,       \* endpoint processes, each with the session it opens
  Devices,        \* the devices
  Tokens,         \* the connections, by the token each is created with
  None,           \* no row, no token
  StateAttempts,  \* how often an occupied state is tried again
  RetryDeletes    \* config.retry_deletes

ASSUME NoneAssumption ==
  /\ None \notin Tokens
  /\ None \notin [session : Sessions, token : Tokens, lost : BOOLEAN]
ASSUME AttemptsAssumption == StateAttempts \in Nat /\ RetryDeletes \in Nat

VARIABLES
  session,    \* table sessions: "none", "active", "expired" or "pruned"
  states,     \* table states: device -> row
  process,    \* the endpoint process: "off", "up", "ending"
  conn,       \* token -> the task that serves the connection
  net,        \* the requests that are under way to the service
  answer,     \* token -> the answer under way to its task
  mux,        \* process -> device -> the token registered with the mux
  signalled,  \* tokens whose StateWatcher has fired
  reported,   \* process -> lost ids of the last ping, not handled yet
  event       \* device -> the last connection event sent downstream

vars == <<session, states, process, conn, net, answer, mux, signalled, reported, event>>

Row == [session : Sessions, token : Tokens, lost : BOOLEAN]

\* A task is creating the state, recovering from a failed creation, connected,
\* deleting the state, or done: closed, occupied, failed or dead (its process
\* is gone).
Task == [pc : {"idle", "creating", "recovering", "connected", "deleting",
               "closed", "occupied", "failed", "dead"},
         session : Sessions, device : Devices, attempts : Nat]

Request == {"create", "delete"} \X Tokens

TypeOK ==
  /\ session \in [Sessions -> {"none", "active", "expired", "pruned"}]
  /\ states \in [Devices -> Row \cup {None}]
  /\ process \in [Sessions -> {"off", "up", "ending"}]
  /\ conn \in [Tokens -> Task]
  /\ net \subseteq Request
  /\ answer \in [Tokens -> {"none", "created", "occupied", "deleted", "error"}]
  /\ mux \in [Sessions -> [Devices -> Tokens \cup {None}]]
  /\ signalled \subseteq Tokens
  /\ reported \in [Sessions -> SUBSET Devices]
  /\ event \in [Devices -> {"none", "connected", "disconnected"}]

Init ==
  /\ session = [s \in Sessions |-> "none"]
  /\ states = [d \in Devices |-> None]
  /\ process = [s \in Sessions |-> "off"]
  /\ conn \in [Tokens -> {[pc |-> "idle", session |-> s, device |-> d,
                           attempts |-> 0] : s \in Sessions, d \in Devices}]
  /\ net = {}
  /\ answer = [t \in Tokens |-> "none"]
  /\ mux = [s \in Sessions |-> [d \in Devices |-> None]]
  /\ signalled = {}
  /\ reported = [s \in Sessions |-> {}]
  /\ event = [d \in Devices |-> "none"]

Running(s) == process[s] # "off"
HasSession(s) == session[s] \in {"active", "expired"}

-----------------------------------------------------------------------------
(* The session of an endpoint process. *)

\* init; when the answer is lost, the row stays and the process asks again.
StartSession(s) ==
  /\ session[s] = "none"
  /\ session' = [session EXCEPT ![s] = "active"]
  /\ \/ process' = [process EXCEPT ![s] = "up"]
     \/ UNCHANGED process
  /\ UNCHANGED <<states, conn, net, answer, mux, signalled, reported, event>>

\* StateRunner::ping and PostgresDeviceStateService::ping: the session is
\* refreshed and all its lost ids come back; without session the runner, and
\* with it the process, comes to its end.
Ping(s) ==
  /\ process[s] = "up" /\ reported[s] = {}
  /\ \/ /\ session[s] = "active"
        /\ reported' = [reported EXCEPT ![s] =
                          {d \in Devices : /\ states[d] # None
                                           /\ states[d].session = s
                                           /\ states[d].lost}]
        /\ UNCHANGED process
     \/ /\ session[s] # "active"
        /\ process' = [process EXCEPT ![s] = "ending"]
        /\ UNCHANGED reported
  /\ UNCHANGED <<session, states, conn, net, answer, mux, signalled, event>>

\* A faulty variant: the handle is removed, and its watcher not triggered.
HandleLostSilently(s, d) ==
  /\ process[s] = "up" /\ d \in reported[s]
  /\ reported' = [reported EXCEPT ![s] = @ \ {d}]
  /\ mux' = [mux EXCEPT ![s][d] = None]
  /\ UNCHANGED <<session, states, process, conn, net, answer, signalled, event>>

\* Mux::handle_lost, for one of the reported ids.
HandleLost(s, d) ==
  /\ process[s] = "up" /\ d \in reported[s]
  /\ reported' = [reported EXCEPT ![s] = @ \ {d}]
  /\ signalled' = signalled \cup ({mux[s][d]} \ {None})
  /\ mux' = [mux EXCEPT ![s][d] = None]
  /\ UNCHANGED <<session, states, process, conn, net, answer, event>>

\* The session was not refreshed for longer than the timeout.
Expire(s) ==
  /\ session[s] = "active"
  /\ session' = [session EXCEPT ![s] = "expired"]
  /\ UNCHANGED <<states, process, conn, net, answer, mux, signalled, reported, event>>

\* prune_session: the states go with an event each, then the session.
Prune(s) ==
  /\ session[s] = "expired"
  /\ states' = [d \in Devices |-> IF states[d] # None /\ states[d].session = s
                                  THEN None ELSE states[d]]
  /\ event' = [d \in Devices |-> IF states[d] # states'[d]
                                 THEN "disconnected" ELSE event[d]]
  /\ session' = [session EXCEPT ![s] = "pruned"]
  /\ UNCHANGED <<process, conn, net, answer, mux, signalled, reported>>

\* An event or the commit fails: the transaction is rolled back, the events
\* already sent remain.
PruneFails(s) ==
  /\ session[s] = "expired"
  /\ \E d \in Devices : /\ states[d] # None /\ states[d].session = s
                        /\ event' = [event EXCEPT ![d] = "disconnected"]
  /\ UNCHANGED <<session, states, process, conn, net, answer, mux, signalled, reported>>

\* The process ends, by a crash or because its runner did.
Stop(s) ==
  /\ Running(s)
  /\ process' = [process EXCEPT ![s] = "off"]
  /\ conn' = [t \in Tokens |-> IF conn[t].session = s /\ conn[t].pc # "idle"
                               THEN [conn[t] EXCEPT !.pc = "dead"] ELSE conn[t]]
  /\ answer' = [t \in Tokens |-> IF conn[t].session = s THEN "none" ELSE answer[t]]
  /\ mux' = [mux EXCEPT ![s] = [d \in Devices |-> None]]
  /\ reported' = [reported EXCEPT ![s] = {}]
  /\ UNCHANGED <<session, states, net, signalled, event>>

-----------------------------------------------------------------------------
(* The service: create and delete. *)

\* An answer reaches the task if it still waits for this call.
Reply(t, op, result) ==
  /\ net' = net \ {<<op, t>>}
  /\ answer' = [answer EXCEPT ![t] =
                  IF conn[t].pc \in (IF op = "create" THEN {"creating"}
                                     ELSE {"recovering", "deleting"})
                  THEN result ELSE @]

\* A faulty variant: the session is not checked.
CreateWithoutSession(t) ==
  LET s == conn[t].session
      d == conn[t].device
  IN /\ <<"create", t>> \in net
     /\ \/ /\ states[d] = None
           /\ states' = [states EXCEPT ![d] = [session |-> s, token |-> t, lost |-> FALSE]]
           /\ event' = [event EXCEPT ![d] = "connected"]
           /\ Reply(t, "create", "created")
        \/ /\ states[d] # None
           /\ states' = [states EXCEPT ![d].lost = TRUE]
           /\ Reply(t, "create", "occupied")
           /\ UNCHANGED event
     /\ UNCHANGED <<session, process, conn, mux, signalled, reported>>

\* INSERT ... ON CONFLICT SET lost.  The foreign key is only looked at when the
\* row is really inserted.
ServiceCreate(t) ==
  LET s == conn[t].session
      d == conn[t].device
  IN /\ <<"create", t>> \in net
     /\ \/ /\ states[d] = None /\ HasSession(s)
           /\ states' = [states EXCEPT ![d] = [session |-> s, token |-> t, lost |-> FALSE]]
           /\ event' = [event EXCEPT ![d] = "connected"]
           /\ Reply(t, "create", "created")
        \/ /\ states[d] = None /\ ~HasSession(s)
           /\ Reply(t, "create", "error")
           /\ UNCHANGED <<states, event>>
        \/ /\ states[d] # None
           /\ states' = [states EXCEPT ![d].lost = TRUE]
           /\ Reply(t, "create", "occupied")
           /\ UNCHANGED event
     /\ UNCHANGED <<session, process, conn, mux, signalled, reported>>

\* A statement, the event or the commit fails.  The event is sent before the
\* commit, and remains.
ServiceCreateFails(t) ==
  LET d == conn[t].device
  IN /\ <<"create", t>> \in net
     /\ Reply(t, "create", "error")
     /\ \/ UNCHANGED event
        \/ /\ states[d] = None /\ HasSession(conn[t].session)
           /\ event' = [event EXCEPT ![d] = "connected"]
     /\ UNCHANGED <<session, states, process, conn, mux, signalled, reported>>

\* A faulty variant: the token is not compared.
OwnedBySession(t) == /\ states[conn[t].device] # None
                     /\ states[conn[t].device].session = conn[t].session

\* The row that a DELETE with this session and token finds.
Owned(t) == /\ states[conn[t].device] # None
            /\ states[conn[t].device].session = conn[t].session
            /\ states[conn[t].device].token = t

\* A faulty variant: the event is sent whether or not a row was deleted.
DeleteAlwaysTells(t) ==
  LET d == conn[t].device
  IN /\ <<"delete", t>> \in net
     /\ states' = IF Owned(t) THEN [states EXCEPT ![d] = None] ELSE states
     /\ event' = [event EXCEPT ![d] = "disconnected"]
     /\ Reply(t, "delete", "deleted")
     /\ UNCHANGED <<session, process, conn, mux, signalled, reported>>

ServiceDelete(t) ==
  LET d == conn[t].device
  IN /\ <<"delete", t>> \in net
     /\ \/ /\ Owned(t)
           /\ states' = [states EXCEPT ![d] = None]
           /\ event' = [event EXCEPT ![d] = "disconnected"]
        \/ /\ ~Owned(t)
           /\ UNCHANGED <<states, event>>
     /\ Reply(t, "delete", "deleted")
     /\ UNCHANGED <<session, process, conn, mux, signalled, reported>>

ServiceDeleteFails(t) ==
  /\ <<"delete", t>> \in net
  /\ Reply(t, "delete", "error")
  /\ \/ UNCHANGED event
     \/ /\ Owned(t)
        /\ event' = [event EXCEPT ![conn[t].device] = "disconnected"]
  /\ UNCHANGED <<session, states, process, conn, mux, signalled, reported>>

\* A request or an answer gets lost.
Lose(t) ==
  /\ \/ \E op \in {"create", "delete"} : /\ <<op, t>> \in net
                                         /\ net' = net \ {<<op, t>>}
                                         /\ UNCHANGED answer
     \/ /\ answer[t] # "none"
        /\ answer' = [answer EXCEPT ![t] = "none"]
        /\ UNCHANGED net
  /\ UNCHANGED <<session, states, process, conn, mux, signalled, reported, event>>

-----------------------------------------------------------------------------
(* The task of a connection: StateController::create and delete, StateHandle. *)

\* A device connects: the first attempt to create its state.
Connect(t) ==
  /\ conn[t].pc = "idle" /\ process[conn[t].session] = "up"
  /\ conn' = [conn EXCEPT ![t].pc = "creating", ![t].attempts = StateAttempts]
  /\ net' = net \cup {<<"create", t>>}
  /\ UNCHANGED <<session, states, process, answer, mux, signalled, reported, event>>

\* The state is created: the handle is registered with the mux, and the watcher
\* of the handle it replaces fires.
Created(t) ==
  LET s == conn[t].session
      d == conn[t].device
  IN /\ conn[t].pc = "creating" /\ answer[t] = "created"
     /\ conn' = [conn EXCEPT ![t].pc = "connected"]
     /\ answer' = [answer EXCEPT ![t] = "none"]
     /\ mux' = [mux EXCEPT ![s][d] = t]
     /\ signalled' = signalled \cup ({mux[s][d]} \ {None})
     /\ UNCHANGED <<session, states, process, net, reported, event>>

\* The state is occupied: the task tries again, or gives up.
Occupied(t) ==
  /\ conn[t].pc = "creating" /\ answer[t] = "occupied"
  /\ answer' = [answer EXCEPT ![t] = "none"]
  /\ \/ /\ conn[t].attempts > 0
        /\ conn' = [conn EXCEPT ![t].attempts = @ - 1]
        /\ net' = net \cup {<<"create", t>>}
     \/ /\ conn[t].attempts = 0
        /\ conn' = [conn EXCEPT ![t].pc = "occupied"]
        /\ UNCHANGED net
  /\ UNCHANGED <<session, states, process, mux, signalled, reported, event>>

\* The call failed, or no answer came: the state may have been created.
CreateFailed(t) ==
  /\ conn[t].pc = "creating" /\ answer[t] \in {"none", "error"}
  /\ conn' = [conn EXCEPT ![t].pc = "recovering", ![t].attempts = RetryDeletes]
  /\ answer' = [answer EXCEPT ![t] = "none"]
  /\ net' = net \cup {<<"delete", t>>}
  /\ UNCHANGED <<session, states, process, mux, signalled, reported, event>>

\* The connection is closed: by the device, or because the watcher has fired.
Close(t) ==
  /\ conn[t].pc = "connected"
  /\ conn' = [conn EXCEPT ![t].pc = "deleting", ![t].attempts = RetryDeletes]
  /\ net' = net \cup {<<"delete", t>>}
  /\ UNCHANGED <<session, states, process, answer, mux, signalled, reported, event>>

\* Mux::deleted: only the handle with this token is removed.
MuxDeleted(t) ==
  LET s == conn[t].session
      d == conn[t].device
  IN  IF mux[s][d] = t THEN [mux EXCEPT ![s][d] = None] ELSE mux

\* The delete succeeds.  Only a handle has an entry in the mux.
Deleted(t) ==
  /\ answer[t] = "deleted"
  /\ \/ /\ conn[t].pc = "deleting"
        /\ mux' = MuxDeleted(t)
        /\ conn' = [conn EXCEPT ![t].pc = "closed"]
     \/ /\ conn[t].pc = "recovering"
        /\ conn' = [conn EXCEPT ![t].pc = "failed"]
        /\ UNCHANGED mux
  /\ answer' = [answer EXCEPT ![t] = "none"]
  /\ UNCHANGED <<session, states, process, net, signalled, reported, event>>

\* The delete fails, or no answer comes.  The last attempt kills the runner, or
\* aborts the process when the runner was killed before.  The loop goes on in
\* any case: attempts is unsigned and wraps around, never to be zero again.
DeleteFailed(t) ==
  LET s == conn[t].session
  IN /\ conn[t].pc \in {"deleting", "recovering"} /\ answer[t] \in {"none", "error"}
     /\ net' = net \cup {<<"delete", t>>}
     /\ answer' = [answer EXCEPT ![t] = "none"]
     /\ conn' = [conn EXCEPT ![t].attempts = IF @ = 0 THEN 0 ELSE @ - 1]
     /\ process' = IF conn[t].attempts = 1 THEN [process EXCEPT ![s] = "ending"]
                                           ELSE process
     /\ UNCHANGED <<session, states, mux, signalled, reported, event>>

-----------------------------------------------------------------------------
SessionNext(s) ==
  \/ StartSession(s) \/ Ping(s) \/ Expire(s) \/ Prune(s) \/ PruneFails(s) \/ Stop(s)
  \/ \E d \in Devices : HandleLost(s, d)

ServiceNext(t) == ServiceCreate(t) \/ ServiceCreateFails(t) \/ ServiceDelete(t)
                    \/ ServiceDeleteFails(t) \/ Lose(t)

TaskNext(t) == Connect(t) \/ Created(t) \/ Occupied(t) \/ CreateFailed(t)
                 \/ Close(t) \/ Deleted(t) \/ DeleteFailed(t)

Next == \/ \E s \in Sessions : SessionNext(s)
        \/ \E t \in Tokens : ServiceNext(t) \/ TaskNext(t)

Spec == Init /\ [][Next]_vars

\* The runner pings, handles what it gets, and ends with its process; a fired
\* watcher closes the connection; the session of a process that is gone is not
\* refreshed any more, and the pruner, restarted when it fails, gets to it.
Fairness ==
  /\ \A s \in Sessions :
       /\ WF_vars(Ping(s)) /\ WF_vars(process[s] = "ending" /\ Stop(s))
       /\ \A d \in Devices : WF_vars(HandleLost(s, d))
       /\ WF_vars(process[s] = "off" /\ Expire(s)) /\ SF_vars(Prune(s))
  /\ \A t \in Tokens :
       /\ WF_vars(Created(t)) /\ WF_vars(Occupied(t)) /\ WF_vars(Deleted(t))
       /\ WF_vars(t \in signalled /\ Close(t))

FairSpec == Spec /\ Fairness

-----------------------------------------------------------------------------
\* A connection whose session is still in the table owns the state of its
\* device: no other endpoint, no retried, delayed or lost call and no pruning
\* of other sessions takes the row away from under it. A device has one row, so
\* there are never two such connections of it.
ConnectionOwnsState ==
  \A t \in Tokens :
    conn[t].pc = "connected" /\ HasSession(conn[t].session) => Owned(t)

\* As long as a connection and its session last, the last event the application
\* has seen for the device is that it is connected: a late or repeated
\* "disconnected" of an earlier connection never comes after it.
ConnectedIsLastEvent ==
  \A t \in Tokens :
    conn[t].pc = "connected" /\ session[conn[t].session] = "active"
      => event[conn[t].device] = "connected"

\* A connection that another one has marked as lost is closed in the end, even
\* when the mux did not know it yet at the time of the first report.
LostIsNoticed ==
  \A t \in Tokens :
    conn[t].pc = "connected" /\ Owned(t) /\ states[conn[t].device].lost
      ~> conn[t].pc # "connected"

\* The state a process leaves behind when it dies goes away with its session,
\* even when the create call was still under way at the time.
DeadStatesArePruned ==
  \A d \in Devices :
    states[d] # None /\ process[states[d].session] = "off" ~> states[d] = None
=============================================================================
