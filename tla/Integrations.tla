---------------------------- MODULE Integrations ----------------------------
(***************************************************************************)
(* The services that applications talk to: the MQTT and the WebSocket      *)
(* integration, which stream events from Kafka, and the sending of         *)
(* commands. Clients of both may share a consumer group.                   *)
(***************************************************************************)
EXTENDS MqttIntegration, WsIntegration, SendCommands

CONSTANTS
  Deployments,   \* the clients that there may be, together
  Devices,       \* devices that commands are sent to
  Gateways       \* what gateways a device may have

VARIABLE deployed  \* the clients that there are

vars == <<kafkaVars, mqttVars, wsVars, commandVars, deployed>>

Init ==
    /\ StreamInit /\ MqttInit /\ WsInit /\ CommandInit
    /\ deployed \in Deployments

MqttClient(c) ==
    \/ /\ session[c].state = "none"
       /\ c = CHOOSE d \in deployed \cap Sessions : session[d].state = "none"
       /\ \E id \in BOOLEAN, clean \in BOOLEAN, user \in BOOLEAN, password \in BOOLEAN,
             answer \in {"known", "unknown"} :
               ConnectSession(c, id, ConnectUser(clean, TRUE, user, password, TRUE, answer))
    \/ \E s \in MqttStreams, topic \in Topics, qos \in 0..1, mode \in {"binary", "unknown"},
          allowed \in BOOLEAN, lookup \in {"found", "missing"} :
            SubscribeSession(c, s, topic, qos, mode, allowed, lookup)
    \/ \E topic \in Topics : UnsubscribeSession(c, topic)
    \/ EndSession(c)

WsClient(h) ==
    \/ \E group \in {"g", None}, token \in {"none", "valid"} :
          Started(h, group, None, token)
    \/ HeartbeatFails(h) \/ ClientCloses(h) \/ RefreshAccessToken(h)
    \/ TokenValidated(h) \/ TokenRefused(h) \/ TokenExpires(h)

rest == <<commandVars, deployed>>

(* What the services and Kafka do by themselves. *)
System ==
    \/ MqttStep /\ UNCHANGED <<wsVars, rest>>
    \/ WsStep /\ UNCHANGED <<mqttVars, rest>>
    \/ KafkaStep /\ UNCHANGED <<mqttVars, wsVars, rest>>

(* The pod of the MQTT integration crashes. *)
Crash ==
    /\ faults < MaxFaults
    /\ \E s \in MqttStreams : Alive(s)
    /\ session' = [c \in Sessions |-> [session[c] EXCEPT !.state = IF @ = "none" THEN @ ELSE "dropped"]]
    /\ held' = [c \in Sessions |-> <<>>]
    /\ runner' = [s \in MqttStreams |-> IF runner[s] = None THEN None ELSE [runner[s] EXCEPT !.alive = FALSE]]
    /\ stream' = [s \in Streams |-> IF s \in MqttStreams THEN None ELSE stream[s]]
    /\ assigned' = [g \in AllGroups |-> IF assigned[g] \in MqttStreams THEN None ELSE assigned[g]]
    /\ faults' = faults + 1
    /\ UNCHANGED <<produced, committed, rebalance, from, delivered, wsVars, rest>>

SendCommand ==
    /\ deployed = {}
    /\ \E origin \in {"mqtt", "http"}, topic \in {"command/app/device/name", "other"},
          allowed \in BOOLEAN, lookup \in {"found", "missing", "failed"},
          name \in {"set", "port:1", "port:invalid"}, device \in Devices, gateways \in Gateways :
            Begin(origin, topic, allowed, lookup, name, device, gateways)

Next ==
    \/ \E c \in deployed \cap Sessions : MqttClient(c) /\ UNCHANGED <<wsVars, rest>>
    \/ \E h \in deployed \cap Clients : WsClient(h) /\ UNCHANGED <<mqttVars, rest>>
    \/ \E s \in MqttStreams : ClientRefuses(s) /\ UNCHANGED <<wsVars, rest>>
    \/ \E h \in Clients : GetStreamFails(h) /\ UNCHANGED <<mqttVars, rest>>
    \/ \E s \in Streams : PollFails(s) /\ UNCHANGED <<mqttVars, wsVars, rest>>
    \/ Produce /\ UNCHANGED <<mqttVars, wsVars, rest>>
    \/ System
    \/ Crash
    \/ SendCommand /\ UNCHANGED <<kafkaVars, mqttVars, wsVars, deployed>>
    \/ CommandStep /\ UNCHANGED <<kafkaVars, mqttVars, wsVars, deployed>>

Spec == Init /\ [][Next]_vars

(* The services and Kafka make progress while they can. *)
FairSpec == Spec /\ WF_vars(System)

-----------------------------------------------------------------------------
(* Every piece of state has a value of its kind; a stream runs as long as  *)
(* its task does.                                                          *)
IntegrationsTypeOK ==
    /\ StreamTypeOK
    /\ \A s \in MqttStreams : Running(s) <=> Alive(s)
    /\ \A h \in Clients : Running(h) <=> run[h] = "stream"

(* The offset that a group has committed is not past an event that was not *)
(* sent to any of its clients, however often streams fail, groups          *)
(* rebalance or the service crashes: MQTT clients get events at least      *)
(* once. (A group that WebSocket clients are part of has no such promise.) *)
AtLeastOnce ==
    \A g \in AllGroups :
        committed[g] # None /\ deployed \cap Clients = {}
          => \A i \in 1..committed[g] : i > from[g] => i \in delivered[g]

(* An event that is ahead of a shared group's stream arrives at a client   *)
(* of the group, unless the group loses all of its streams, or its place   *)
(* in the topic because it had not committed any yet. (A WebSocket client  *)
(* that leaves may take an event along that counts as handled, so that MQTT*)
(* clients of its group have no such promise.)                             *)
EventsArrive ==
    \A g \in Groups \ Sessions, i \in 1..Len(Log) :
        (/\ deployed \cap Clients = {} \/ deployed \cap Sessions = {}
         /\ \E s \in Streams :
               Owns(s) /\ stream[s].group = g /\ stream[s].pos < i /\ i <= produced)
          ~> (i \in delivered[g] \/ (from[g] # None /\ from[g] >= i)
              \/ \A s \in Streams : Running(s) => stream[s].group # g)

(* Once a WebSocket connection has stopped, its stream is gone; and when   *)
(* the stream fails, or the token expires and is not renewed, it stops.    *)
(* When a session of the MQTT integration is dropped, a stream of it is    *)
(* left only if it was replaced by another one for the same topic.         *)
OnlyReplacedOutlive ==
    \A s \in MqttStreams :
        Alive(s) /\ session[runner[s].session].state = "dropped" =>
            \E t \in MqttStreams \ {s} :
                /\ runner[t] # None
                /\ runner[t].session = runner[s].session /\ runner[t].topic = runner[s].topic
ConnectionsAndStreamsEnd ==
    /\ []OnlyReplacedOutlive
    /\ \A h \in Clients :
        /\ ws[h].state = "stopped" ~> (h \notin clients /\ ~Running(h))
        /\ run[h] = "done" \/ ws[h].token = "expired"
             ~> ws[h].state = "stopped" \/ (ws[h].token = "valid" /\ run[h] # "done")
=============================================================================
