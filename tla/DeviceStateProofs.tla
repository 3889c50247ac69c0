------------------------- MODULE DeviceStateProofs -------------------------
(***************************************************************************)
(* Proofs about module DeviceState: for any endpoint processes, devices    *)
(* and connections, a connection owns the state of its device as long as   *)
(* its session lasts, and the last event tells that it is connected.       *)
(***************************************************************************)
EXTENDS DeviceState, TLAPS

(* A session exists before its process does, and before its connections;   *)
(* a task that has not called gets no answer.                              *)
Started ==
  /\ \A s \in Sessions : process[s] # "off" => session[s] # "none"
  /\ \A t \in Tokens : IF conn[t].pc = "idle" THEN answer[t] = "none"
                       ELSE session[conn[t].session] # "none"

(* A delete is only ever sent for a connection that has ended: it may be   *)
(* late, but never early.                                                  *)
DeletesAreLate ==
  \A t \in Tokens : <<"delete", t>> \in net => conn[t].pc \notin {"idle", "creating", "connected"}

(* The state of t was created, and its task knows or is about to learn it. *)
Holding(t) ==
  \/ conn[t].pc = "connected"
  \/ conn[t].pc = "creating" /\ answer[t] = "created"

Owns(t) == Holding(t) /\ HasSession(conn[t].session) => Owned(t)

Told(t) == Holding(t) /\ session[conn[t].session] = "active"
             => event[conn[t].device] = "connected"

(* The inductive invariant.                                                *)
StateIInv ==
  /\ TypeOK /\ Started /\ DeletesAreLate
  /\ \A t \in Tokens : Owns(t) /\ Told(t)

-----------------------------------------------------------------------------
(* Type correctness. *)

LEMMA StateTypeInit == Init => TypeOK
<1> SUFFICES ASSUME Init PROVE TypeOK
    OBVIOUS
<1>1. conn \in [Tokens -> Task]
  <2>1. \A s \in Sessions, d \in Devices :
          [pc |-> "idle", session |-> s, device |-> d, attempts |-> 0] \in Task
        BY DEF Task
  <2>2. QED
        BY <2>1 DEF Init
<1>2. QED
      BY <1>1 DEF Init, TypeOK

(* Tasks and rows keep their types when one of their fields is changed.     *)
LEMMA TaskEdits ==
  ASSUME NEW k \in Task
  PROVE  /\ \A pc \in {"idle", "creating", "recovering", "connected", "deleting",
                      "closed", "occupied", "failed", "dead"} : [k EXCEPT !.pc = pc] \in Task
         /\ \A n \in Nat : [k EXCEPT !.attempts = n] \in Task
BY DEF Task

LEMMA RowEdit == ASSUME NEW r \in Row PROVE [r EXCEPT !.lost = TRUE] \in Row
BY DEF Row

LEMMA ReplyType ==
  ASSUME TypeOK, NEW t \in Tokens, NEW op \in {"create", "delete"},
         NEW result \in {"created", "occupied", "deleted", "error"},
         Reply(t, op, result)
  PROVE  /\ net' \subseteq Request
         /\ answer' \in [Tokens -> {"none", "created", "occupied", "deleted", "error"}]
BY DEF TypeOK, Reply

LEMMA SessionKeepsType ==
  ASSUME TypeOK, NEW s \in Sessions, SessionNext(s)
  PROVE  TypeOK'
<1>1. CASE StartSession(s)
      BY <1>1 DEF StartSession, TypeOK
<1>2. CASE Ping(s)
      BY <1>2 DEF Ping, TypeOK
<1>3. CASE Expire(s)
      BY <1>3 DEF Expire, TypeOK
<1>4. CASE Prune(s)
      BY <1>4 DEF Prune, TypeOK
<1>5. CASE PruneFails(s)
      BY <1>5 DEF PruneFails, TypeOK
<1>6. CASE Stop(s)
  <2>1. conn' \in [Tokens -> Task]
        BY <1>6, TaskEdits DEF Stop, TypeOK
  <2>2. QED
        BY <1>6, <2>1 DEF Stop, TypeOK
<1>7. ASSUME NEW d \in Devices, HandleLost(s, d)
      PROVE  TypeOK'
  <2>1. mux[s][d] \in Tokens \cup {None}
        BY DEF TypeOK
  <2>2. QED
        BY <1>7, <2>1 DEF HandleLost, TypeOK
<1>8. QED
      BY <1>1, <1>2, <1>3, <1>4, <1>5, <1>6, <1>7 DEF SessionNext

LEMMA ServiceKeepsType ==
  ASSUME TypeOK, NEW t \in Tokens, ServiceNext(t)
  PROVE  TypeOK'
<1>0. conn[t].session \in Sessions /\ conn[t].device \in Devices
      BY DEF TypeOK, Task
<1>1. CASE ServiceCreate(t)
  <2>1. /\ net' \subseteq Request
        /\ answer' \in [Tokens -> {"none", "created", "occupied", "deleted", "error"}]
        BY <1>1, ReplyType DEF ServiceCreate
  <2>2. states' \in [Devices -> Row \cup {None}]
    <3>1. [session |-> conn[t].session, token |-> t, lost |-> FALSE] \in Row
          BY <1>0 DEF Row
    <3>2. QED
          BY <1>0, <1>1, <3>1, RowEdit DEF ServiceCreate, TypeOK
  <2>3. event' \in [Devices -> {"none", "connected", "disconnected"}]
        BY <1>0, <1>1 DEF ServiceCreate, TypeOK
  <2>4. QED
        BY <1>1, <2>1, <2>2, <2>3 DEF ServiceCreate, TypeOK
<1>2. CASE ServiceCreateFails(t)
  <2>1. /\ net' \subseteq Request
        /\ answer' \in [Tokens -> {"none", "created", "occupied", "deleted", "error"}]
        BY <1>2, ReplyType DEF ServiceCreateFails
  <2>2. QED
        BY <1>0, <1>2, <2>1 DEF ServiceCreateFails, TypeOK
<1>3. CASE ServiceDelete(t)
  <2>1. /\ net' \subseteq Request
        /\ answer' \in [Tokens -> {"none", "created", "occupied", "deleted", "error"}]
        BY <1>3, ReplyType DEF ServiceDelete
  <2>2. QED
        BY <1>0, <1>3, <2>1 DEF ServiceDelete, TypeOK
<1>4. CASE ServiceDeleteFails(t)
  <2>1. /\ net' \subseteq Request
        /\ answer' \in [Tokens -> {"none", "created", "occupied", "deleted", "error"}]
        BY <1>4, ReplyType DEF ServiceDeleteFails
  <2>2. QED
        BY <1>0, <1>4, <2>1 DEF ServiceDeleteFails, TypeOK
<1>5. CASE Lose(t)
      BY <1>5 DEF Lose, TypeOK
<1>6. QED
      BY <1>1, <1>2, <1>3, <1>4, <1>5 DEF ServiceNext

LEMMA TaskKeepsType ==
  ASSUME TypeOK, NEW t \in Tokens, TaskNext(t)
  PROVE  TypeOK'
<1>0. /\ conn[t] \in Task
      /\ conn[t].session \in Sessions /\ conn[t].device \in Devices
      /\ <<"create", t>> \in Request /\ <<"delete", t>> \in Request
      BY DEF TypeOK, Task, Request
<1>9. conn[t].attempts \in Nat /\ (conn[t].attempts > 0 => conn[t].attempts - 1 \in Nat)
      BY <1>0 DEF Task
<1>1. CASE Connect(t)
      BY <1>0, <1>1, AttemptsAssumption DEF Connect, TypeOK, Task
<1>2. CASE Created(t)
  <2>1. mux[conn[t].session][conn[t].device] \in Tokens \cup {None}
        BY <1>0 DEF TypeOK
  <2>2. conn' \in [Tokens -> Task]
        BY <1>0, <1>2, <1>9, TaskEdits DEF Created, TypeOK
  <2>3. QED
        BY <1>0, <1>2, <2>1, <2>2 DEF Created, TypeOK
<1>3. CASE Occupied(t)
  <2>1. conn' \in [Tokens -> Task]
    <3>1. CASE conn[t].attempts > 0
      <4>1. [conn[t] EXCEPT !.attempts = conn[t].attempts - 1] \in Task
            BY <1>0, <1>9, <3>1, TaskEdits
      <4>2. conn' = [conn EXCEPT ![t] = [conn[t] EXCEPT !.attempts = conn[t].attempts - 1]]
            BY <1>3, <1>9, <3>1 DEF Occupied
      <4>3. QED
            BY <4>1, <4>2 DEF TypeOK
    <3>2. CASE conn[t].attempts = 0
      <4>1. [conn[t] EXCEPT !.pc = "occupied"] \in Task
            BY <1>0, TaskEdits
      <4>2. conn' = [conn EXCEPT ![t] = [conn[t] EXCEPT !.pc = "occupied"]]
            BY <1>3, <1>9, <3>2 DEF Occupied
      <4>3. QED
            BY <4>1, <4>2 DEF TypeOK
    <3>3. QED
          BY <1>9, <3>1, <3>2
  <2>2. QED
        BY <1>0, <1>3, <2>1 DEF Occupied, TypeOK
<1>4. CASE CreateFailed(t)
      BY <1>0, <1>4, AttemptsAssumption DEF CreateFailed, TypeOK, Task
<1>5. CASE Close(t)
      BY <1>0, <1>5, AttemptsAssumption DEF Close, TypeOK, Task
<1>6. CASE Deleted(t)
  <2>1. conn' \in [Tokens -> Task]
    <3>1. /\ [conn[t] EXCEPT !.pc = "closed"] \in Task
          /\ [conn[t] EXCEPT !.pc = "failed"] \in Task
          BY <1>0, TaskEdits
    <3>2. \/ conn' = [conn EXCEPT ![t] = [conn[t] EXCEPT !.pc = "closed"]]
          \/ conn' = [conn EXCEPT ![t] = [conn[t] EXCEPT !.pc = "failed"]]
          BY <1>6 DEF Deleted
    <3>3. QED
          BY <3>1, <3>2 DEF TypeOK
  <2>2. mux' \in [Sessions -> [Devices -> Tokens \cup {None}]]
    <3> DEFINE s == conn[t].session
               d == conn[t].device
    <3>1. mux \in [Sessions -> [Devices -> Tokens \cup {None}]]
          BY DEF TypeOK
    <3>2. [mux EXCEPT ![s][d] = None] \in [Sessions -> [Devices -> Tokens \cup {None}]]
          BY <1>0, <3>1
    <3>3. mux' = mux \/ mux' = [mux EXCEPT ![s][d] = None]
          BY <1>6 DEF Deleted, MuxDeleted
    <3>4. QED
          BY <3>1, <3>2, <3>3
  <2>3. QED
        BY <1>6, <2>1, <2>2 DEF Deleted, TypeOK
<1>7. CASE DeleteFailed(t)
  <2>1. conn' \in [Tokens -> Task]
    <3> DEFINE n == IF conn[t].attempts = 0 THEN 0 ELSE conn[t].attempts - 1
    <3>1. n \in Nat
          BY <1>9
    <3>2. [conn[t] EXCEPT !.attempts = n] \in Task
          BY <1>0, <3>1, TaskEdits
    <3>3. conn' = [conn EXCEPT ![t] = [conn[t] EXCEPT !.attempts = n]]
          BY <1>7 DEF DeleteFailed
    <3>4. QED
          BY <3>2, <3>3 DEF TypeOK
  <2>2. QED
        BY <1>0, <1>7, <2>1 DEF DeleteFailed, TypeOK
<1>8. QED
      BY <1>1, <1>2, <1>3, <1>4, <1>5, <1>6, <1>7 DEF TaskNext

-----------------------------------------------------------------------------
(* The inductive step, except for the types. *)

Rest == Started /\ DeletesAreLate /\ \A t \in Tokens : Owns(t) /\ Told(t)

(* Only the pruning of an expired session takes states away, those of the  *)
(* session, and a session that is gone never comes back.                   *)
LEMMA SessionKeeps ==
  ASSUME StateIInv, NEW s \in Sessions, SessionNext(s)
  PROVE  Rest'
<1> USE DEF StateIInv, Rest
<1>0. \A t \in Tokens : conn[t].session \in Sessions /\ conn[t].device \in Devices
      BY DEF TypeOK, Task
<1>1. CASE StartSession(s)
  <2>1. \A t \in Tokens : conn[t].pc # "idle" => conn[t].session # s
        BY <1>1 DEF StartSession, Started
  <2>2. Started'
        BY <1>0, <1>1, <2>1 DEF StartSession, Started, TypeOK
  <2>3. \A t \in Tokens : Owns(t)' /\ Told(t)'
        BY <1>0, <1>1, <2>1 DEF StartSession, Owns, Told, Holding, Owned, HasSession, TypeOK
  <2>4. QED
        BY <1>1, <2>2, <2>3 DEF StartSession, DeletesAreLate
<1>2. CASE Ping(s)
      BY <1>2 DEF Ping, Started, DeletesAreLate, Owns, Told, Holding, Owned, HasSession, TypeOK
<1>3. CASE Expire(s)
      BY <1>0, <1>3 DEF Expire, Started, DeletesAreLate, Owns, Told, Holding, Owned, HasSession, TypeOK
<1>4. CASE Prune(s)
  <2>1. Started' /\ DeletesAreLate'
        BY <1>0, <1>4 DEF Prune, Started, DeletesAreLate, TypeOK
  <2>2. ASSUME NEW t \in Tokens, Holding(t)', HasSession(conn[t].session)'
        PROVE  /\ Holding(t) /\ Owned(t) /\ conn[t].session # s
               /\ session'[conn[t].session] = session[conn[t].session]
        BY <1>0, <1>4, <2>2 DEF Prune, Owns, Holding, HasSession, TypeOK
  <2>3. ASSUME NEW t \in Tokens, Holding(t)', HasSession(conn[t].session)'
        PROVE  /\ states'[conn[t].device] = states[conn[t].device]
               /\ event'[conn[t].device] = event[conn[t].device]
        BY <1>0, <1>4, <2>2, <2>3 DEF Prune, Owned, TypeOK
  <2>4. \A t \in Tokens : Owns(t)'
        BY <1>4, <2>2, <2>3 DEF Prune, Owns, Owned, HasSession
  <2>5. \A t \in Tokens : Told(t)'
        BY <1>4, <2>2, <2>3 DEF Prune, Told, HasSession
  <2>6. QED
        BY <2>1, <2>4, <2>5
<1>5. CASE PruneFails(s)
  <2>1. PICK d \in Devices : /\ states[d] # None /\ states[d].session = s
                             /\ event' = [event EXCEPT ![d] = "disconnected"]
        BY <1>5 DEF PruneFails
  <2>2. \A t \in Tokens : Told(t)'
        BY <1>0, <1>5, <2>1 DEF PruneFails, Owns, Told, Holding, Owned, HasSession, TypeOK
  <2>3. QED
        BY <1>5, <2>2 DEF PruneFails, Started, DeletesAreLate, Owns, Holding, Owned, HasSession
<1>6. CASE Stop(s)
  <2>1. ASSUME NEW t \in Tokens
        PROVE  /\ conn'[t].session = conn[t].session /\ conn'[t].device = conn[t].device
               /\ conn'[t].pc = conn[t].pc \/ conn'[t].pc = "dead"
               /\ conn'[t].pc = "idle" => conn[t].pc = "idle"
               /\ conn[t].pc = "idle" => conn'[t].pc = "idle"
               /\ answer'[t] \in {"none", answer[t]}
    <3>1. conn[t] \in Task
          BY DEF TypeOK
    <3>2. conn'[t] = IF conn[t].session = s /\ conn[t].pc # "idle"
                     THEN [conn[t] EXCEPT !.pc = "dead"] ELSE conn[t]
          BY <1>6 DEF Stop
    <3>3. answer'[t] = IF conn[t].session = s THEN "none" ELSE answer[t]
          BY <1>6 DEF Stop
    <3>4. QED
          BY <3>1, <3>2, <3>3 DEF Task
  <2>2. Started'
        BY <1>6, <2>1 DEF Stop, Started, TypeOK
  <2>3. DeletesAreLate'
        BY <1>6, <2>1 DEF Stop, DeletesAreLate
  <2>4. \A t \in Tokens : Owns(t)' /\ Told(t)'
        BY <1>6, <2>1 DEF Stop, Owns, Told, Holding, Owned, HasSession
  <2>5. QED
        BY <2>2, <2>3, <2>4
<1>7. ASSUME NEW d \in Devices, HandleLost(s, d)
      PROVE  Rest'
      BY <1>7 DEF HandleLost, Started, DeletesAreLate, Owns, Told, Holding, Owned, HasSession
<1>8. QED
      BY <1>1, <1>2, <1>3, <1>4, <1>5, <1>6, <1>7 DEF SessionNext

(* A row is inserted where there is none, and deleted by the connection it *)
(* belongs to, which has ended: never under a connection that holds it.    *)
LEMMA ServiceKeeps ==
  ASSUME StateIInv, NEW t \in Tokens, ServiceNext(t)
  PROVE  Rest'
<1> USE DEF StateIInv, Rest
<1>0. \A u \in Tokens : conn[u].session \in Sessions /\ conn[u].device \in Devices
      BY DEF TypeOK, Task
<1> DEFINE d == conn[t].device
<1>1. CASE ServiceCreate(t)
  <2>0. Started' /\ DeletesAreLate'
        BY <1>1 DEF ServiceCreate, Reply, Started, DeletesAreLate, TypeOK
  <2>1. CASE states[d] = None /\ HasSession(conn[t].session)
    <3>1. \A u \in Tokens \ {t} : Holding(u)' => Holding(u)
          BY <1>1 DEF ServiceCreate, Reply, Holding, TypeOK
    <3>2. \A u \in Tokens : conn[u].device = d /\ HasSession(conn[u].session) => ~Holding(u)
          BY <2>1 DEF Owns, Owned
    <3>3. /\ states' = [states EXCEPT ![d] = [session |-> conn[t].session, token |-> t, lost |-> FALSE]]
          /\ event' = [event EXCEPT ![d] = "connected"]
          BY <1>1, <2>1 DEF ServiceCreate
    <3>4. Owned(t)' /\ event'[d] = "connected"
      <4>1. states'[d] = [session |-> conn[t].session, token |-> t, lost |-> FALSE]
            BY <1>0, <3>3 DEF TypeOK
      <4>2. states'[d] # None
        <5>1. states'[d] \in Row
              BY <1>0, <4>1 DEF Row
        <5>2. None \notin Row
              BY NoneAssumption DEF Row
        <5>3. QED
              BY <5>1, <5>2
      <4>3. QED
            BY <1>0, <1>1, <3>3, <4>1, <4>2 DEF ServiceCreate, Owned, TypeOK
    <3>5. \A u \in Tokens \ {t} : Owns(u)' /\ Told(u)'
          BY <1>0, <1>1, <3>1, <3>2, <3>3 DEF ServiceCreate, Owns, Told, Owned, HasSession, TypeOK
    <3>6. Owns(t)' /\ Told(t)'
          BY <1>1, <3>4 DEF ServiceCreate, Owns, Told
    <3>7. QED
          BY <2>0, <3>5, <3>6
  <2>2. CASE states[d] = None /\ ~HasSession(conn[t].session)
    <3>1. \A u \in Tokens : Holding(u)' => Holding(u)
          BY <1>1, <2>2 DEF ServiceCreate, Reply, Holding, TypeOK
    <3>2. QED
          BY <1>1, <2>0, <2>2, <3>1 DEF ServiceCreate, Owns, Told, Owned, HasSession
  <2>3. CASE states[d] # None
    <3>1. \A u \in Tokens : Holding(u)' => Holding(u)
          BY <1>1, <2>3 DEF ServiceCreate, Reply, Holding, TypeOK
    <3>2. \A u \in Tokens : Owned(u) => Owned(u)'
      <4>1. states[d] \in Row
            BY <1>0, <2>3 DEF TypeOK
      <4>2. states' = [states EXCEPT ![d] = [states[d] EXCEPT !.lost = TRUE]]
            BY <1>1, <2>3 DEF ServiceCreate
      <4>3. /\ states'[d] = [states[d] EXCEPT !.lost = TRUE]
            /\ \A e \in Devices \ {d} : states'[e] = states[e]
            BY <1>0, <4>2 DEF TypeOK
      <4>4. /\ states'[d] \in Row /\ states'[d].session = states[d].session
            /\ states'[d].token = states[d].token
            BY <4>1, <4>3 DEF Row
      <4>5. states'[d] # None
            BY <4>4, NoneAssumption DEF Row
      <4>6. QED
            BY <1>0, <1>1, <4>3, <4>4, <4>5 DEF ServiceCreate, Owned
    <3>3. UNCHANGED <<session, conn, event>>
          BY <1>1, <2>3 DEF ServiceCreate
    <3>4. QED
          BY <2>0, <3>1, <3>2, <3>3 DEF Owns, Told, HasSession
  <2>4. QED
        BY <2>1, <2>2, <2>3
<1>2. CASE ServiceCreateFails(t)
  <2>1. \A u \in Tokens : Holding(u)' => Holding(u)
        BY <1>2 DEF ServiceCreateFails, Reply, Holding, TypeOK
  <2>2. \A u \in Tokens : event[conn[u].device] = "connected" => event'[conn[u].device] = "connected"
        BY <1>0, <1>2 DEF ServiceCreateFails, TypeOK
  <2>3. Started' /\ DeletesAreLate'
        BY <1>2 DEF ServiceCreateFails, Reply, Started, DeletesAreLate, TypeOK
  <2>4. QED
        BY <1>2, <2>1, <2>2, <2>3 DEF ServiceCreateFails, Owns, Told, Owned, HasSession
<1>3. ASSUME ServiceDelete(t) \/ ServiceDeleteFails(t)
      PROVE  Rest'
  <2>1. \A u \in Tokens : Holding(u)' => Holding(u)
        BY <1>3 DEF ServiceDelete, ServiceDeleteFails, Reply, Holding, TypeOK
  <2>2. ~Holding(t)
        BY <1>3 DEF ServiceDelete, ServiceDeleteFails, DeletesAreLate, Holding
  <2>3. UNCHANGED <<session, process, conn>>
        BY <1>3 DEF ServiceDelete, ServiceDeleteFails
  <2>4. Started' /\ DeletesAreLate'
        BY <1>3, <2>3 DEF ServiceDelete, ServiceDeleteFails, Reply, Started, DeletesAreLate, TypeOK
  <2>5. ASSUME NEW u \in Tokens, Holding(u), HasSession(conn[u].session)
        PROVE  /\ Owned(u)
               /\ states'[conn[u].device] = states[conn[u].device]
               /\ event'[conn[u].device] = event[conn[u].device]
    <3>1. Owned(u) /\ u # t
          BY <2>2, <2>5 DEF Owns
    <3>2. conn[u].device = d => ~Owned(t)
          BY <3>1 DEF Owned
    <3>3. QED
          BY <1>0, <1>3, <3>1, <3>2 DEF ServiceDelete, ServiceDeleteFails, TypeOK
  <2>6. \A u \in Tokens : Owns(u)' /\ Told(u)'
        BY <2>1, <2>3, <2>5 DEF Owns, Told, Owned, HasSession
  <2>7. QED
        BY <2>4, <2>6
<1>4. CASE Lose(t)
      BY <1>4 DEF Lose, Started, DeletesAreLate, Owns, Told, Holding, Owned, HasSession, TypeOK
<1>5. QED
      BY <1>1, <1>2, <1>3, <1>4 DEF ServiceNext

(* What a step of the task of t does to t itself, and that it leaves the   *)
(* other tasks alone.                                                      *)
LEMMA TaskStep ==
  ASSUME StateIInv, NEW t \in Tokens, TaskNext(t)
  PROVE  /\ \A u \in Tokens \ {t} : conn'[u] = conn[u] /\ answer'[u] = answer[u]
         /\ conn'[t].session = conn[t].session /\ conn'[t].device = conn[t].device
         /\ conn'[t].pc # "idle"
         /\ conn[t].pc = "idle" => process[conn[t].session] = "up"
         /\ conn'[t].pc = "connected" => Holding(t)
         /\ conn'[t].pc = "creating" => answer'[t] # "created"
         /\ conn[t].pc \notin {"idle", "creating", "connected"}
              => conn'[t].pc \notin {"idle", "creating", "connected"}
         /\ \A u \in Tokens : <<"delete", u>> \in net' =>
              \/ <<"delete", u>> \in net
              \/ u = t /\ conn'[t].pc \notin {"idle", "creating", "connected"}
         /\ UNCHANGED <<session, states, event>>
         /\ \A s \in Sessions : process'[s] # "off" => process[s] # "off" \/ conn[t].session = s
<1> USE DEF StateIInv
<1>0. conn[t] \in Task /\ conn[t].session \in Sessions
      BY DEF TypeOK, Task
<1>1. CASE Connect(t)
      BY <1>0, <1>1 DEF Connect, TypeOK, Task, Holding, Started
<1>2. CASE Created(t)
      BY <1>0, <1>2 DEF Created, TypeOK, Task, Holding
<1>3. CASE Occupied(t)
      BY <1>0, <1>3 DEF Occupied, TypeOK, Task, Holding
<1>4. CASE CreateFailed(t)
      BY <1>0, <1>4 DEF CreateFailed, TypeOK, Task, Holding
<1>5. CASE Close(t)
      BY <1>0, <1>5 DEF Close, TypeOK, Task, Holding
<1>6. CASE Deleted(t)
      BY <1>0, <1>6 DEF Deleted, TypeOK, Task, Holding
<1>7. CASE DeleteFailed(t)
      BY <1>0, <1>7 DEF DeleteFailed, TypeOK, Task, Holding
<1>8. QED
      BY <1>1, <1>2, <1>3, <1>4, <1>5, <1>6, <1>7 DEF TaskNext

LEMMA TaskKeeps ==
  ASSUME StateIInv, NEW t \in Tokens, TaskNext(t)
  PROVE  Rest'
<1> USE DEF StateIInv, Rest
<1>1. Started'
  <2>1. session[conn[t].session] # "none"
        BY TaskStep DEF Started, TypeOK, Task
  <2>2. QED
        BY <2>1, TaskStep DEF Started
<1>2. DeletesAreLate'
      BY TaskStep DEF DeletesAreLate
<1>3. \A u \in Tokens : Holding(u)' => Holding(u)
      BY TaskStep DEF Holding
<1>4. \A u \in Tokens : conn'[u].session = conn[u].session /\ conn'[u].device = conn[u].device
      BY TaskStep
<1>5. UNCHANGED <<session, states, event>>
      BY TaskStep
<1>6. \A u \in Tokens : Owns(u)' /\ Told(u)'
      BY <1>3, <1>4, <1>5 DEF Owns, Told, Owned, HasSession
<1>7. QED
      BY <1>1, <1>2, <1>6

-----------------------------------------------------------------------------
LEMMA StateInvInit == Init => StateIInv
<1> SUFFICES ASSUME Init PROVE StateIInv
    OBVIOUS
<1>1. TypeOK
      BY StateTypeInit
<1>2. \A t \in Tokens : conn[t].pc = "idle"
      BY DEF Init
<1>3. QED
      BY <1>1, <1>2 DEF Init, StateIInv, Started, DeletesAreLate, Owns, Told, Holding

LEMMA StateInvNext == StateIInv /\ [Next]_vars => StateIInv'
<1> SUFFICES ASSUME StateIInv, [Next]_vars PROVE StateIInv'
    OBVIOUS
<1>1. ASSUME NEW s \in Sessions, SessionNext(s) PROVE StateIInv'
      BY <1>1, SessionKeepsType, SessionKeeps DEF StateIInv, Rest
<1>2. ASSUME NEW t \in Tokens, ServiceNext(t) PROVE StateIInv'
      BY <1>2, ServiceKeepsType, ServiceKeeps DEF StateIInv, Rest
<1>3. ASSUME NEW t \in Tokens, TaskNext(t) PROVE StateIInv'
      BY <1>3, TaskKeepsType, TaskKeeps DEF StateIInv, Rest
<1>4. CASE UNCHANGED vars
  <2>1. TypeOK'
        BY <1>4 DEF StateIInv, vars, TypeOK
  <2>2. Rest'
        BY <1>4 DEF StateIInv, vars, Rest, Started, DeletesAreLate, Owns, Told, Holding, Owned, HasSession
  <2>3. QED
        BY <2>1, <2>2 DEF StateIInv, Rest
<1>5. QED
      BY <1>1, <1>2, <1>3, <1>4 DEF Next

(* The invariant holds whatever the processes, the service and the network *)
(* do.                                                                     *)
THEOREM StateInvariant == Spec => []StateIInv
BY StateInvInit, StateInvNext, PTL DEF Spec

(* The tables, the tasks and the calls under way keep their types.         *)
THEOREM StateTypeCorrect == Spec => []TypeOK
<1>1. StateIInv => TypeOK
      BY DEF StateIInv
<1>2. QED
      BY <1>1, StateInvariant, PTL

(* A connection owns the state of its device as long as its session is in  *)
(* the table, however many endpoints, devices and connections there are    *)
(* and whatever calls are delayed, lost or repeated.                       *)
THEOREM NobodyTakesTheState == Spec => []ConnectionOwnsState
<1>1. StateIInv => ConnectionOwnsState
      BY DEF StateIInv, ConnectionOwnsState, Owns, Holding
<1>2. QED
      BY <1>1, StateInvariant, PTL

(* No late "disconnected" follows the "connected" of a connection that     *)
(* lasts.                                                                  *)
THEOREM EventsFollowTheState == Spec => []ConnectedIsLastEvent
<1>1. StateIInv => ConnectedIsLastEvent
      BY DEF StateIInv, ConnectedIsLastEvent, Told, Holding
<1>2. QED
      BY <1>1, StateInvariant, PTL

=============================================================================
