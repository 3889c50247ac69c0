-------------------------- MODULE MqttIntegration ---------------------------
(***************************************************************************)
(* Sessions of the MQTT integration (mqtt-integration/service): a client   *)
(* subscribes to the events of an application, and each subscription has a *)
(* stream, run by a task of its own that sends the events to the client.   *)
(* The session holds on to the tasks by their topic, without the prefix of *)
(* a shared subscription.                                                  *)
(***************************************************************************)
EXTENDS TLC, Functions, EventStream, MqttServer

CONSTANTS
  Sessions,     \* the connections of MQTT clients
  MqttStreams,  \* the streams that are available to them
  Topics        \* what clients (un)subscribe: a sequence of segments

VARIABLES
  session,   \* the sessions
  held,      \* Session::streams, for each session
  runner     \* the task of each stream

mqttVars == <<session, held, runner>>

MqttInit ==
    /\ session = [c \in Sessions |-> [state |-> "none", id |-> FALSE]]
    /\ held = [c \in Sessions |-> <<>>]
    /\ runner = [s \in MqttStreams |-> None]

(* Streams and sessions are named in the order they are created. *)
NextStream == CHOOSE s \in MqttStreams : runner[s] = None
Alive(s) == runner[s] # None /\ runner[s].alive

-----------------------------------------------------------------------------
(* App::authenticate: two credentials are an access token, one is a token. *)
Authenticate(user, password, sso, answer) ==
    CASE user /\ password -> IF sso THEN answer ELSE "error"
      [] user # password -> answer
      [] ~user /\ ~password -> "known"

(* App::connect *)
ConnectUser(clean, enabled, user, password, sso, answer) ==
    CASE ~clean -> "UnsupportedOperation"
      [] clean /\ enabled /\ Authenticate(user, password, sso, answer) # "known" -> "AuthenticationFailed"
      [] OTHER -> "created"

ConnectSession(c, id, result) ==
    /\ session[c].state = "none"
    /\ session' = [session EXCEPT ![c] =
          [state |-> IF ConnectAck(result) = "Success" THEN "open" ELSE "refused", id |-> id]]
    /\ UNCHANGED <<held, runner, kafkaVars>>

-----------------------------------------------------------------------------
(* Session::subscribe_to *)

Shared(topic) == Len(topic) > 1 /\ topic[1] \in {"$share", "$shared"}
GroupName(c, topic) ==
    CASE Shared(topic) -> topic[2]
      [] ~Shared(topic) /\ session[c].id -> c
      [] ~Shared(topic) /\ ~session[c].id -> None
Plain(topic) == IF Shared(topic) THEN SubSeq(topic, 3, Len(topic)) ELSE topic

SubscribeRefused(topic, allowed, lookup) ==
    CASE \E i \in 1..Len(Plain(topic)) : Plain(topic)[i] \in {"+", "#"} ->
           "WildcardSubscriptionsNotSupported"
      [] Plain(topic) = <<>> -> "NotAuthorized"
      [] Plain(topic) # <<>> /\ (Len(Plain(topic)) # 2 \/ Plain(topic)[1] \notin {"a", "app", "application"}) ->
           "TopicFilterInvalid"
      [] OTHER -> IF ~allowed THEN "NotAuthorized"
                  ELSE IF lookup # "found" THEN "UnspecifiedError" ELSE None

Qos(qos) == IF qos = 0 THEN "AtMostOnce" ELSE "AtLeastOnce"

(* Session::attach_stream: a task that was held for the same topic is let  *)
(* go of, and goes on.                                                     *)
AttachStream(c, s, topic, qos) ==
    /\ runner' = [runner EXCEPT ![s] =
                     [session |-> c, topic |-> Plain(topic), qos |-> Qos(qos), alive |-> TRUE]]
    /\ held' = [held EXCEPT ![c] = (Plain(topic) :> s) @@ @]

(* Session::subscribe. An unknown content mode ends the connection. *)
SubscribeSession(c, s, topic, qos, mode, allowed, lookup) ==
    /\ session[c].state = "open" /\ runner[s] = None /\ s = NextStream
    /\ IF mode = "unknown"
       THEN /\ session' = [session EXCEPT ![c].state = "closing"]
            /\ UNCHANGED <<held, runner, kafkaVars>>
       ELSE /\ SubscribeRefused(topic, allowed, lookup) = None
            /\ NewStream(s, GroupName(c, topic), "CustomAck")
            /\ AttachStream(c, s, topic, qos)
            /\ UNCHANGED session

(* A task ends, or is aborted, and drops its stream. *)
End(s) == DropStreams({s}) /\ runner' = [runner EXCEPT ![s].alive = FALSE]

(* Session::unsubscribe, Session::detach: the topic is looked up as it is. *)
UnsubscribeSession(c, topic) ==
    /\ session[c].state = "open" /\ topic \in DOMAIN held[c]
    /\ End(held[c][topic])
    /\ held' = [held EXCEPT ![c] = Restrict(@, DOMAIN @ \ {topic})]
    /\ UNCHANGED session

-----------------------------------------------------------------------------
(* Stream::run *)

SinkOpen(c) == session[c].state \in {"open", "closing"}

(* QoS::send_v3, send_v5: once it is sent, or acknowledged by the client,  *)
(* the event is acknowledged; run_v3, run_v5_structured, run_v5_binary     *)
(* differ only in how an event is encoded.                                 *)
SendEvent(s) ==
    /\ Alive(s) /\ Holding(s) /\ stream[s].handle.ok /\ SinkOpen(runner[s].session)
    /\ Sent(s)
    /\ UNCHANGED mqttVars

(* The stream ends, and closes the connection. *)
RunEnds(s) ==
    /\ End(s)
    /\ session' = IF SinkOpen(runner[s].session)
                  THEN [session EXCEPT ![runner[s].session].state = "closing"] ELSE session
    /\ UNCHANGED held

(* A faulty variant: that the connection is closed goes unnoticed. *)
RunFailsOnError(s) ==
    /\ Alive(s) /\ Holding(s) /\ ~stream[s].handle.ok
    /\ RunEnds(s)

(* The event is an error, or the connection is closed. *)
RunFails(s) ==
    /\ Alive(s) /\ Holding(s) /\ (stream[s].handle.ok => ~SinkOpen(runner[s].session))
    /\ RunEnds(s)

(* A faulty variant: the event is acknowledged although it was refused. *)
ClientRefusesAcked(s) ==
    /\ Alive(s) /\ Holding(s) /\ stream[s].handle.ok /\ SinkOpen(runner[s].session)
    /\ runner[s].qos = "AtLeastOnce"
    /\ stream' = [stream EXCEPT ![s].stored = stream[s].handle.at, ![s].handle = None]
    /\ UNCHANGED <<produced, groupVars, faults, delivered, mqttVars>>

(* The client answers an event with an error. *)
ClientRefuses(s) ==
    /\ Alive(s) /\ Holding(s) /\ stream[s].handle.ok /\ SinkOpen(runner[s].session)
    /\ runner[s].qos = "AtLeastOnce"
    /\ RunEnds(s)

-----------------------------------------------------------------------------
(* The connection ends, by the client or by the server. *)
EndSession(c) ==
    /\ session[c].state \in {"open", "closing"}
    /\ session' = [session EXCEPT ![c].state = "closed"]
    /\ UNCHANGED <<held, runner, kafkaVars>>

(* Session::drop, and the task that it spawns: what is held is aborted. *)
DropSession(c) ==
    LET streams == {s \in Range(held[c]) : Alive(s)}
    IN  /\ session[c].state = "closed"
        /\ session' = [session EXCEPT ![c].state = "dropped"]
        /\ held' = [held EXCEPT ![c] = <<>>]
        /\ DropStreams(streams)
        /\ runner' = [s \in MqttStreams |->
                        IF s \in streams THEN [runner[s] EXCEPT !.alive = FALSE] ELSE runner[s]]

(* What the integration does by itself. *)
MqttStep ==
    \/ \E s \in MqttStreams : Alive(s) /\ PollNext(s) /\ UNCHANGED mqttVars
    \/ \E s \in MqttStreams : SendEvent(s) \/ RunFails(s)
    \/ \E c \in Sessions : (session[c].state = "closing" /\ EndSession(c)) \/ DropSession(c)
=============================================================================
