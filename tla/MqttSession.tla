---------------------------- MODULE MqttSession -----------------------------
(***************************************************************************)
(* One connection of a device to the MQTT endpoint (mqtt-endpoint/service).*)
(* The server runs the handlers of a session concurrently; they share its  *)
(* disconnect handle (a fair reader/writer lock), the cache of the devices *)
(* that it may publish for, and its inbox, each behind a mutex.            *)
(***************************************************************************)
EXTENDS FiniteSets, SequencesExt, MqttServer, MqttDialect

CONSTANTS
  Own,         \* the name of the connected device
  Others,      \* the names of other devices of the application
  Granted,     \* those that it is a gateway of when it connects
  Paths,       \* the topics that the device publishes to
  Filters,     \* the topics that it subscribes to
  Workers,     \* the handlers that may run at the same time
  CacheSize,   \* the capacity of the device cache
  MaxPackets,  \* bound on the packets of the device
  MaxChanges   \* bound on the changes of permissions and expiries

ASSUME SessionAssumption ==
    /\ Own \notin Others /\ Granted \subseteq Others
    /\ CacheSize \in Nat \ {0}

Tasks == Workers \cup {"PeerGone", "Closed"}

VARIABLES
  conn,       \* the connection
  setup,      \* its version, and its dialect
  inner,      \* the state in the disconnect handle
  lockq,      \* the tasks that wait for the lock of the disconnect handle
  readers,    \* the tasks that hold a ConnectedGuard
  task,       \* the handlers that run
  cache,      \* the device cache, the most recently used entry first
  evictDue,   \* next_evict is not in the future
  cacheOwner, \* the task that holds the mutex of the cache
  inbox,      \* the topics in inbox_reader
  inboxOwner, \* the task that holds its mutex
  subs,       \* the topics with a subscription in Commands
  handle,     \* the session has its state handle
  closing,    \* the server is about to close the connection
  allowed,    \* the devices this one is a gateway of, in the registry
  packets, changes,
  answer,     \* the last answer of authorize_as for each device (history)
  goodbye,    \* the reason in the first DISCONNECT (history)
  deletes     \* the deletions of the device state: skip_lwt (history)

lockVars == <<inner, lockq, readers>>
cacheVars == <<cache, evictDue, cacheOwner>>
inboxVars == <<inbox, inboxOwner, subs>>
endVars == <<handle, deletes>>
worldVars == <<allowed, changes>>
sessionVars == <<conn, setup, lockVars, task, cacheVars, inboxVars, endVars, closing,
                 worldVars, packets, answer, goodbye>>

SessionInit ==
    /\ conn = "none"
    /\ setup = [version |-> "v3", dialect |-> "DrogueV1"]
    /\ inner = [state |-> "Connected", skip |-> FALSE]
    /\ lockq = <<>> /\ readers = {}
    /\ task = [t \in Tasks |-> None]
    /\ cache = <<>> /\ evictDue = TRUE /\ cacheOwner = None
    /\ inbox = {} /\ inboxOwner = None /\ subs = {}
    /\ handle = FALSE /\ closing = FALSE
    /\ allowed = Granted
    /\ packets = 0 /\ changes = 0
    /\ answer = [d \in Others |-> None]
    /\ goodbye = None /\ deletes = <<>>

-----------------------------------------------------------------------------
(* The connection. *)

(* The client's connection is accepted, by TLS and by the transport.       *)
Accept(transport, tls, client) ==
    /\ conn = "none"
    /\ conn' = IF AcceptTls(tls, client) /\ CreateServer(transport, client)
               THEN "accepted" ELSE "refused"
    /\ UNCHANGED <<setup, lockVars, task, cacheVars, inboxVars, endVars, closing, worldVars,
                   packets, answer, goodbye>>

(* No CONNECT within the handshake timeout. *)
HandshakeTimeout ==
    /\ conn = "accepted"
    /\ conn' = "refused"
    /\ UNCHANGED <<setup, lockVars, task, cacheVars, inboxVars, endVars, closing, worldVars,
                   packets, answer, goodbye>>

(* App::authenticate, and create_session: the dialect is the device's or   *)
(* the application's, and the device state must be free.                   *)
CreateSession(spec, state) ==
    CASE spec = "invalid" -> "Configuration"
      [] spec # "invalid" /\ state = "Occupied" -> "StateError"
      [] spec # "invalid" /\ state = "Failed" -> "InternalError"
      [] spec # "invalid" /\ state = "Created" -> "created"

ConnectResult(clean, auth, spec, state) ==
    CASE ~clean -> "UnsupportedOperation"
      [] clean /\ auth # "Pass" -> "AuthenticationFailed"
      [] clean /\ auth = "Pass" -> CreateSession(spec, state)

(* App::connect *)
Connect(version, clean, auth, spec, state) ==
    /\ conn = "accepted"
    /\ LET result == ConnectResult(clean, auth, spec, state)
       IN  /\ conn' = IF ConnectAck(result) = "Success" THEN "open" ELSE "refused"
           /\ handle' = (result = "created")
    /\ setup' = [version |-> version,
                 dialect |-> IF spec \in Dialects THEN spec ELSE "DrogueV1"]
    /\ UNCHANGED <<lockVars, task, cacheVars, inboxVars, closing, deletes, worldVars,
                   packets, answer, goodbye>>

Idle(t) == task[t] = None

Packet(t, packet, arg, pc) ==
    /\ conn = "open" /\ Idle(t) /\ packets < MaxPackets
    /\ packets' = packets + 1
    /\ task' = [task EXCEPT ![t] = [packet |-> packet, arg |-> arg, pc |-> pc,
                                    device |-> None, pass |-> FALSE]]
    /\ UNCHANGED <<conn, setup, inner, readers, cacheVars, inboxVars, endVars, closing,
                   worldVars, answer>>

At(t, pc) == task[t] # None /\ task[t].pc = pc
Goto(t, pc) == task' = [task EXCEPT ![t].pc = pc]

(* A handler returns: its guard is dropped, and the server answers. *)
Return(t, ack) ==
    /\ task' = [task EXCEPT ![t] = None]
    /\ readers' = readers \ {t}
    /\ closing' = (closing \/ ack = "drop")

-----------------------------------------------------------------------------
(* Session::publish *)

Publish(t) ==
    /\ \E path \in Paths : Packet(t, "Publish", path, "ensure")
    /\ lockq' = Append(lockq, t)
    /\ UNCHANGED goodbye

(* A faulty variant: the guard is dropped at once. *)
EnsureAndRelease(t) ==
    /\ At(t, "ensure") /\ lockq # <<>> /\ Head(lockq) = t
    /\ lockq' = Tail(lockq)
    /\ IF inner.state = "Connected"
       THEN Goto(t, "eval") /\ UNCHANGED <<readers, closing>>
       ELSE Return(t, PublishAck(setup.version, "ProtocolError"))
    /\ UNCHANGED <<conn, setup, inner, cacheVars, inboxVars, endVars, worldVars,
                   packets, answer, goodbye>>

(* DisconnectHandle::ensure: readers wait behind writers that came first. *)
Ensure(t) ==
    /\ At(t, "ensure") /\ lockq # <<>> /\ Head(lockq) = t
    /\ lockq' = Tail(lockq)
    /\ IF inner.state = "Connected"
       THEN Goto(t, "eval") /\ readers' = readers \cup {t} /\ UNCHANGED closing
       ELSE Return(t, PublishAck(setup.version, "ProtocolError"))
    /\ UNCHANGED <<conn, setup, inner, cacheVars, inboxVars, endVars, worldVars,
                   packets, answer, goodbye>>

(* Session::eval_device: for another device, the cache is asked. *)
EvalDevice(t) ==
    /\ At(t, "eval")
    /\ LET topic == ParsePublish(setup.dialect, task[t].arg)
       IN  CASE topic.error # None ->
                  Return(t, PublishAck(setup.version, "TopicNameInvalid"))
             [] topic.error = None /\ topic.device \in {None, Own} ->
                  /\ task' = [task EXCEPT ![t].pc = "send", ![t].device = Own]
                  /\ UNCHANGED <<readers, closing>>
             [] topic.error = None /\ topic.device \notin {None, Own} ->
                  /\ task' = [task EXCEPT ![t].pc = "fetch", ![t].device = topic.device]
                  /\ UNCHANGED <<readers, closing>>
    /\ UNCHANGED <<conn, setup, inner, lockq, cacheVars, inboxVars, endVars, worldVars,
                   packets, answer, goodbye>>

(* DownstreamSender::publish with its outcomes. *)
SendResult(outcome) ==
    CASE outcome = "Accepted" -> "Ok"
      [] outcome = "Rejected" -> "UnspecifiedError"
      [] outcome = "QueueFull" -> "QuotaExceeded"
      [] outcome = "Error" -> "InternalError"

Send(t) ==
    /\ At(t, "send")
    /\ \E outcome \in {"Accepted", "Rejected", "QueueFull", "Error"} :
         Return(t, PublishAck(setup.version, SendResult(outcome)))
    /\ UNCHANGED <<conn, setup, inner, lockq, cacheVars, inboxVars, endVars, worldVars,
                   packets, answer, goodbye>>

-----------------------------------------------------------------------------
(* DeviceCache. Its mutex is held from the lookup to the insertion, also   *)
(* while the authentication service is asked.                              *)

Entries(d) == {i \in 1..Len(cache) : cache[i].device = d}
Without(d) == SelectSeq(cache, LAMBDA e : e.device # d)
Outcome(t, pass) ==
    IF pass THEN Goto(t, "send") /\ UNCHANGED <<readers, closing>>
            ELSE Return(t, PublishAck(setup.version, "NotAuthorized"))

(* fetch: an entry is used, and moved to the front, unless it expired. *)
FetchHit(t) ==
    /\ At(t, "fetch") /\ cacheOwner = None
    /\ \E i \in Entries(task[t].device) :
         /\ ~cache[i].expired
         /\ cache' = <<cache[i]>> \o Without(task[t].device)
         /\ Outcome(t, cache[i].pass)
    /\ UNCHANGED <<conn, setup, inner, lockq, evictDue, cacheOwner, inboxVars, endVars,
                   worldVars, packets, answer, goodbye>>

(* A faulty variant: the mutex is not held while the service is asked. *)
FetchMissUnlocked(t) ==
    /\ At(t, "fetch") /\ cacheOwner = None
    /\ \A i \in Entries(task[t].device) : cache[i].expired
    /\ cache' = Without(task[t].device)
    /\ Goto(t, "authorize")
    /\ UNCHANGED <<conn, setup, lockVars, evictDue, cacheOwner, inboxVars, endVars, closing,
                   worldVars, packets, answer, goodbye>>

(* fetch: an expired entry is removed, and the service is asked. *)
FetchMiss(t) ==
    /\ At(t, "fetch") /\ cacheOwner = None
    /\ \A i \in Entries(task[t].device) : cache[i].expired
    /\ cache' = Without(task[t].device)
    /\ cacheOwner' = t
    /\ Goto(t, "authorize")
    /\ UNCHANGED <<conn, setup, lockVars, evictDue, inboxVars, endVars, closing,
                   worldVars, packets, answer, goodbye>>

(* authorize_as, in the authentication service. *)
AuthorizeAs(t) ==
    /\ At(t, "authorize")
    /\ LET pass == task[t].device \in allowed
       IN  /\ task' = [task EXCEPT ![t].pc = "store", ![t].pass = pass]
           /\ answer' = [answer EXCEPT ![task[t].device] = pass]
    /\ UNCHANGED <<conn, setup, lockVars, cacheVars, inboxVars, endVars, closing, worldVars,
                   packets, goodbye>>

(* A faulty variant: the mutex stays locked. *)
AuthorizeFailedLocked(t) ==
    /\ At(t, "authorize") /\ changes < MaxChanges
    /\ changes' = changes + 1
    /\ Return(t, PublishAck(setup.version, "InternalError"))
    /\ UNCHANGED <<conn, setup, inner, lockq, cacheVars, inboxVars, endVars,
                   allowed, packets, answer, goodbye>>

(* load_and_cache: a call that failed leaves nothing in the cache. *)
AuthorizeFailed(t) ==
    /\ At(t, "authorize") /\ changes < MaxChanges
    /\ changes' = changes + 1
    /\ cacheOwner' = None
    /\ Return(t, PublishAck(setup.version, "InternalError"))
    /\ UNCHANGED <<conn, setup, inner, lockq, cache, evictDue, inboxVars, endVars,
                   allowed, packets, answer, goodbye>>

(* load_and_cache: a full cache is cleaned first, but not more than once   *)
(* in the time to live of an entry; the least recently used entry makes    *)
(* room for the new one.                                                   *)
LoadAndCache(t) ==
    /\ At(t, "store")
    /\ LET evict == Len(cache) >= CacheSize /\ evictDue
           kept == IF evict THEN SelectSeq(cache, LAMBDA e : ~e.expired) ELSE cache
           entry == [device |-> task[t].device, pass |-> task[t].pass, expired |-> FALSE]
           full == <<entry>> \o SelectSeq(kept, LAMBDA e : e.device # entry.device)
       IN  /\ cache' = SubSeq(full, 1, IF Len(full) > CacheSize THEN CacheSize ELSE Len(full))
           /\ evictDue' = (evictDue /\ ~evict)
    /\ cacheOwner' = None
    /\ Outcome(t, task[t].pass)
    /\ UNCHANGED <<conn, setup, inner, lockq, inboxVars, endVars, worldVars, packets,
                   answer, goodbye>>

-----------------------------------------------------------------------------
(* The inbox: subscriptions to commands. *)

(* Session::subscribe: subscription identifiers are not supported, and     *)
(* neither is any topic outside of the inbox.                              *)
Subscribe(t) ==
    /\ \E f \in Filters, id \in SubscriptionIds(setup.version) :
         Packet(t, "Subscribe", f,
                IF id \/ ParseSubscribe(f).error # None THEN "fail" ELSE "lock")
    /\ UNCHANGED <<lockq, goodbye>>

SubscribeFailed(t) ==
    /\ At(t, "fail")
    /\ Return(t, ControlAck("Ok"))
    /\ UNCHANGED <<conn, setup, inner, lockq, cacheVars, inboxVars, endVars, worldVars,
                   packets, answer, goodbye>>

(* subscribe_inbox: the mutex is held while Commands is asked, unless the  *)
(* topic is there already.                                                 *)
SubscribeInbox(t) ==
    /\ At(t, "lock") /\ Handler(task[t].packet) = "subscribe" /\ inboxOwner = None
    /\ IF task[t].arg \in inbox
       THEN Return(t, ControlAck("Ok")) /\ UNCHANGED inboxOwner
       ELSE Goto(t, "subscribe") /\ inboxOwner' = t /\ UNCHANGED <<readers, closing>>
    /\ UNCHANGED <<conn, setup, inner, lockq, cacheVars, inbox, subs, endVars, worldVars,
                   packets, answer, goodbye>>

(* InboxSubscription::new *)
InboxNew(t) ==
    /\ At(t, "subscribe")
    /\ subs' = subs \cup {task[t].arg}
    /\ inbox' = inbox \cup {task[t].arg}
    /\ inboxOwner' = None
    /\ Return(t, ControlAck("Ok"))
    /\ UNCHANGED <<conn, setup, inner, lockq, cacheVars, endVars, worldVars, packets,
                   answer, goodbye>>

Unsubscribe(t) ==
    /\ \E f \in Filters : Packet(t, "Unsubscribe", f, "lock")
    /\ UNCHANGED <<lockq, goodbye>>

(* Session::unsubscribe: the entry is removed, and closed.                 *)
UnsubscribeInbox(t) ==
    /\ At(t, "lock") /\ Handler(task[t].packet) = "unsubscribe" /\ inboxOwner = None
    /\ inbox' = inbox \ {task[t].arg}
    /\ IF task[t].arg \in inbox
       THEN Goto(t, "unsubscribe") /\ inboxOwner' = t /\ UNCHANGED <<readers, closing>>
       ELSE Return(t, ControlAck("Ok")) /\ UNCHANGED inboxOwner
    /\ UNCHANGED <<conn, setup, inner, lockq, cacheVars, subs, endVars, worldVars, packets,
                   answer, goodbye>>

(* A faulty variant: the subscription in Commands is forgotten. *)
InboxCloseForgets(t) ==
    /\ At(t, "unsubscribe")
    /\ inboxOwner' = None
    /\ Return(t, ControlAck("Ok"))
    /\ UNCHANGED <<conn, setup, inner, lockq, cacheVars, inbox, subs, endVars, worldVars,
                   packets, answer, goodbye>>

(* InboxSubscription::close *)
InboxClose(t) ==
    /\ At(t, "unsubscribe")
    /\ subs' = subs \ {task[t].arg}
    /\ inboxOwner' = None
    /\ Return(t, ControlAck("Ok"))
    /\ UNCHANGED <<conn, setup, inner, lockq, cacheVars, inbox, endVars, worldVars, packets,
                   answer, goodbye>>

(* The commands for which this device is the gateway. *)
GatewayCommands == [gateway : {Own}, device : {Own} \cup Others, name : {"set"}]

(* InboxSubscription::send_command: the topic of a command for topic f.    *)
SendCommand(f, c) == EncodeCommandTopic(ParseSubscribe(f).forced, c)

(* The commands that the inbox of topic f receives from the dispatcher.    *)
InboxReceives(f, c) == Receives(IntoCommandFilter(Own, ParseSubscribe(f).device), c)

-----------------------------------------------------------------------------
(* The end of the connection. *)

Disconnect(t) ==
    /\ \E reason \in DisconnectReasons(setup.version) :
         /\ Packet(t, "Disconnect", reason, "write")
         /\ goodbye' = IF goodbye = None THEN reason ELSE goodbye
    /\ lockq' = Append(lockq, t)

(* The write lock: it is the task's turn, and nobody publishes. *)
Writes(t) == At(t, "write") /\ lockq # <<>> /\ Head(lockq) = t /\ readers = {}

(* DisconnectHandle::disconnected. A second one is a protocol error. *)
Disconnected(t) ==
    /\ Writes(t) /\ Handler(task[t].packet) = "disconnect"
    /\ lockq' = Tail(lockq)
    /\ inner' = IF inner.state = "Connected"
                THEN [state |-> "Disconnected", skip |-> task[t].arg = "NormalDisconnection"]
                ELSE inner
    /\ task' = [task EXCEPT ![t] = None]
    /\ closing' = TRUE
    /\ UNCHANGED <<conn, setup, readers, cacheVars, inboxVars, endVars, worldVars, packets,
                   answer, goodbye>>

(* The peer is gone, or the connection was closed by either side, or both: *)
(* the server calls Session::closed each time.                             *)
ConnectionEnds(t) ==
    /\ Idle(t)
    /\ IF t = "PeerGone" THEN conn = "open" /\ conn' = "gone"
                         ELSE conn \in {"open", "gone"} /\ conn' = "closed"
    /\ task' = [task EXCEPT ![t] = [packet |-> t, arg |-> None, pc |-> "write",
                                    device |-> None, pass |-> FALSE]]
    /\ lockq' = Append(lockq, t)
    /\ UNCHANGED <<setup, inner, readers, cacheVars, inboxVars, endVars, closing, worldVars,
                   packets, answer, goodbye>>

(* Session::closed: DisconnectHandle::close tells whether to skip the last *)
(* will, and the state handle is taken and deleted.                        *)
Closed(t) ==
    /\ Writes(t) /\ Handler(task[t].packet) = "closed"
    /\ lockq' = Tail(lockq)
    /\ inner' = [inner EXCEPT !.state = "Closed"]
    /\ handle' = FALSE
    /\ deletes' = IF handle THEN Append(deletes, inner.skip) ELSE deletes
    /\ Goto(t, "drain")
    /\ UNCHANGED <<conn, setup, readers, cacheVars, inboxVars, closing, worldVars, packets,
                   answer, goodbye>>

(* ... and the inbox is drained, with its mutex held to the end. *)
Drain(t) ==
    /\ At(t, "drain") /\ inboxOwner \in {None, t}
    /\ IF inbox = {}
       THEN Return(t, ControlAck("Ok")) /\ inboxOwner' = None /\ UNCHANGED <<inbox, subs>>
       ELSE /\ \E f \in inbox : inbox' = inbox \ {f} /\ subs' = subs \ {f}
            /\ inboxOwner' = t
            /\ UNCHANGED <<task, readers, closing>>
    /\ UNCHANGED <<conn, setup, inner, lockq, cacheVars, endVars, worldVars, packets,
                   answer, goodbye>>

(* The last reference to the session goes, when its handlers are done, or  *)
(* when the handshake is lost: Session::drop, and the drop of what is left *)
(* in the inbox.                                                           *)
DropSession ==
    /\ conn = "closed" \/ (conn = "open" /\ packets = 0)
    /\ \A t \in Tasks : Idle(t)
    /\ conn' = "dropped"
    /\ handle' = FALSE
    /\ deletes' = IF handle THEN Append(deletes, FALSE) ELSE deletes
    /\ inbox' = {} /\ cache' = <<>>
    /\ UNCHANGED <<setup, lockVars, task, evictDue, cacheOwner, inboxOwner, subs, closing, worldVars,
                   packets, answer, goodbye>>

(* InboxSubscription::drop spawns the task that unsubscribes. *)
LateUnsubscribe(f) ==
    /\ conn = "dropped" /\ f \in subs
    /\ subs' = subs \ {f}
    /\ UNCHANGED <<conn, setup, lockVars, task, cacheVars, inbox, inboxOwner, endVars,
                   closing, worldVars, packets, answer, goodbye>>

(* The watcher of the device state closes the sink when the state is lost. *)
StateLost ==
    /\ conn = "open" /\ ~closing
    /\ closing' = TRUE
    /\ UNCHANGED <<conn, setup, lockVars, task, cacheVars, inboxVars, endVars, worldVars,
                   packets, answer, goodbye>>

-----------------------------------------------------------------------------
(* The world: permissions change, and entries of the cache expire. *)

PermissionChanges ==
    /\ conn = "open" /\ changes < MaxChanges
    /\ \E d \in Others : allowed' = IF d \in allowed THEN allowed \ {d} ELSE allowed \cup {d}
    /\ changes' = changes + 1
    /\ UNCHANGED <<conn, setup, lockVars, task, cacheVars, inboxVars, endVars, closing,
                   packets, answer, goodbye>>

(* DeviceCacheEntry::expired *)
Expires ==
    /\ conn = "open" /\ changes < MaxChanges
    /\ \E i \in 1..Len(cache) : ~cache[i].expired /\ cache' = [cache EXCEPT ![i].expired = TRUE]
    /\ evictDue' \in {evictDue, TRUE}
    /\ changes' = changes + 1
    /\ UNCHANGED <<conn, setup, lockVars, task, cacheOwner, inboxVars, endVars, closing,
                   allowed, packets, answer, goodbye>>

-----------------------------------------------------------------------------
Handling(t) ==
    \/ Ensure(t) \/ EvalDevice(t) \/ FetchHit(t) \/ FetchMiss(t) \/ AuthorizeAs(t)
    \/ AuthorizeFailed(t) \/ LoadAndCache(t) \/ Send(t)
    \/ SubscribeFailed(t) \/ SubscribeInbox(t) \/ InboxNew(t)
    \/ UnsubscribeInbox(t) \/ InboxClose(t)
    \/ Disconnected(t) \/ Closed(t) \/ Drain(t)

Device ==
    \/ \E transport \in {"Mqtt", "Websocket"}, tls \in BOOLEAN,
          client \in [tls : BOOLEAN, request : {"Mqtt", "Upgrade", "Get"}] :
            Accept(transport, tls, client)
    \/ \E version \in Versions, clean \in BOOLEAN, auth \in {"Pass", "Fail", "Err"},
          spec \in Dialects \cup {"absent", "invalid"},
          state \in {"Created", "Occupied", "Failed"} :
            Connect(version, clean, auth, spec, state)
    \/ \E t \in Workers : Publish(t) \/ Subscribe(t) \/ Unsubscribe(t) \/ Disconnect(t)
    \/ \E t \in {"PeerGone", "Closed"} : ConnectionEnds(t)

SessionNext ==
    \/ Device
    \/ \E t \in Tasks : Handling(t)
    \/ DropSession \/ (\E f \in Filters : LateUnsubscribe(f))
    \/ HandshakeTimeout \/ StateLost \/ PermissionChanges \/ Expires

SessionSpec == SessionInit /\ [][SessionNext]_sessionVars

(* What the server does by itself: it runs handlers, closes what it wants  *)
(* to close and what has lost its peer, and drops what is closed.          *)
Server ==
    \/ \E t \in Tasks : Handling(t)
    \/ (closing \/ conn = "gone") /\ ConnectionEnds("Closed")
    \/ conn = "closed" /\ DropSession
    \/ HandshakeTimeout
    \/ \E f \in Filters : LateUnsubscribe(f)

(* The server makes progress while there is anything that it can do.       *)
SessionFairSpec == SessionSpec /\ WF_sessionVars(Server)

-----------------------------------------------------------------------------
(* Every piece of state has a value of its kind; the cache is not larger   *)
(* than it may be and knows a device once, and only handlers that run hold *)
(* or await a lock.                                                        *)
SessionTypeOK ==
    /\ conn \in {"none", "accepted", "refused", "open", "gone", "closed", "dropped"}
    /\ setup \in [version : Versions, dialect : Dialects]
    /\ inner \in [state : {"Connected", "Disconnected", "Closed"}, skip : BOOLEAN]
    /\ Len(cache) <= CacheSize
    /\ \A i, j \in 1..Len(cache) : cache[i].device = cache[j].device => i = j
    /\ inbox \cup subs \subseteq Filters
    /\ \A t \in readers \cup ToSet(lockq) \cup ({cacheOwner, inboxOwner} \ {None}) : ~Idle(t)
    /\ handle \in BOOLEAN /\ closing \in BOOLEAN

(* Nothing is published for a device that has disconnected: when its state *)
(* goes, and the application is told, all of its events are out. The state *)
(* is deleted once, and the last will is skipped exactly when the device   *)
(* said goodbye before its connection ended, no matter how its packets are *)
(* delayed behind each other.                                              *)
GoodbyeIsFinal ==
    /\ \A t \in Tasks : At(t, "send") => inner.state = "Connected" /\ deletes = <<>>
    /\ deletes # <<>> => deletes = <<goodbye = "NormalDisconnection">>

(* What the cache says of a device is the last thing the authentication    *)
(* service said of it.                                                     *)
CacheHoldsLastAnswer ==
    \A i \in 1..Len(cache) : cache[i].pass = answer[cache[i].device]

(* Between the steps of its handlers the inbox has the subscriptions that  *)
(* the dispatcher of commands has.                                         *)
InboxMatchesCommands ==
    inboxOwner = None /\ conn # "dropped" => inbox = subs

(* An event goes out for the device that its topic names, at the place the *)
(* dialect has for it, or for the connected one. A command comes on a      *)
(* topic that its subscription matches, if that asks for more than the     *)
(* commands of the device itself.                                          *)
TopicsAreRight ==
    /\ \A t \in Tasks : At(t, "send") =>
         \/ task[t].device = Own
         \/ /\ Len(task[t].arg) > 1
            /\ task[t].device = IF setup.dialect = "DrogueV1" THEN Last(task[t].arg)
                                                              ELSE Head(task[t].arg)
    /\ \A f \in subs, c \in GatewayCommands :
         InboxReceives(f, c) /\ f[3] \notin {"", Own} => TopicMatches(f, SendCommand(f, c))

(* A connection that ends is cleaned up: its device state is deleted and   *)
(* its subscriptions go.                                                   *)
EndsCleanly ==
    conn \in {"gone", "closed"} ~> (deletes # <<>> /\ subs = {} /\ conn = "dropped")
=============================================================================
