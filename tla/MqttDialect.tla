---------------------------- MODULE MqttDialect -----------------------------
(***************************************************************************)
(* The topics of the MQTT endpoint (service/session/dialect), and the      *)
(* filters that the subscribed ones stand for. A topic is the sequence of  *)
(* its segments, that is, its text split at every slash.                   *)
(***************************************************************************)
EXTENDS Naturals, Sequences

CONSTANT None

Dialects == {"DrogueV1", "PlainTopic", "PrefixedTopic"}

Err(e) == [error |-> e]
Parsed(channel, device) == [error |-> None, channel |-> channel, device |-> device]

(* A faulty variant: the device is the first segment. *)
ParseV1Swapped(path) ==
    CASE path = <<"">> -> Err("Empty")
      [] Len(path) = 1 /\ path # <<"">> -> Parsed(path, None)
      [] Len(path) = 2 -> Parsed(<<path[2]>>, path[1])
      [] OTHER -> Err("Syntax")

(* MqttDialect::parse_publish for DrogueV1: channel, or channel/device. *)
ParseV1(path) ==
    CASE path = <<"">> -> Err("Empty")
      [] Len(path) = 1 /\ path # <<"">> -> Parsed(path, None)
      [] Len(path) = 2 -> Parsed(<<path[1]>>, path[2])
      [] OTHER -> Err("Syntax")

(* ... for PlainTopic: all of it is the channel. *)
ParsePlain(path) ==
    IF path = <<"">> THEN Err("Empty") ELSE Parsed(path, None)

(* ... for PlainTopic with the device prefix: device/channel. *)
ParsePrefixed(path) ==
    CASE path = <<"">> -> Err("Empty")
      [] Len(path) = 1 /\ path # <<"">> -> Err("Syntax")
      [] Len(path) > 1 -> Parsed(Tail(path), IF path[1] = "" THEN None ELSE path[1])

ParsePublish(dialect, path) ==
    CASE dialect = "DrogueV1" -> ParseV1(path)
      [] dialect = "PlainTopic" -> ParsePlain(path)
      [] dialect = "PrefixedTopic" -> ParsePrefixed(path)

-----------------------------------------------------------------------------
(* Subscriptions. *)

Inbox(path) == Len(path) > 2 /\ path[1] = "command" /\ path[2] = "inbox"

(* MqttDialect::parse_subscribe: the DeviceFilter, and whether the device  *)
(* is always reported in the topics of the commands.                       *)
ParseSubscribe(path) ==
    CASE Inbox(path) /\ SubSeq(path, 3, Len(path)) \in {<<"#">>, <<"+", "#">>} ->
           [error |-> None, device |-> "wildcard", forced |-> FALSE]
      [] Inbox(path) /\ SubSeq(path, 3, Len(path)) = <<"", "#">> ->
           [error |-> None, device |-> "own", forced |-> FALSE]
      [] Inbox(path) /\ Len(path) = 4 /\ path[3] \notin {"", "+"} /\ path[4] = "#" ->
           [error |-> None, device |-> path[3], forced |-> TRUE]
      [] OTHER -> Err("Syntax")

(* SubscribeFilter::into_command_filter *)
IntoCommandFilter(own, device) ==
    CASE device = "wildcard" -> [gateway |-> own, device |-> None]
      [] device \in {"own", own} -> [gateway |-> own, device |-> own]
      [] OTHER -> [gateway |-> own, device |-> device]

(* Commands::subscribe makes a filter for the gateway itself one for all   *)
(* of its devices.                                                         *)
Registered(filter) ==
    IF filter.device = filter.gateway THEN [filter EXCEPT !.device = None] ELSE filter

(* The commands that a subscription gets from Commands::send. *)
Receives(filter, command) ==
    /\ Registered(filter).gateway = command.gateway
    /\ Registered(filter).device \in {None, command.device}

(* DefaultCommandTopicEncoder::encode_command_topic *)
EncodeCommandTopic(forced, command) ==
    <<"command", "inbox",
      IF forced \/ command.gateway # command.device THEN command.device ELSE "",
      command.name>>

(* The topics that a topic filter of MQTT stands for: + is any segment,    *)
(* and a # at the end is all the segments that follow.                     *)
TopicMatches(filter, topic) ==
    LET open == filter[Len(filter)] = "#"
        fixed == IF open THEN Len(filter) - 1 ELSE Len(filter)
    IN  /\ IF open THEN Len(topic) >= fixed ELSE Len(topic) = fixed
        /\ \A i \in 1..fixed : filter[i] \in {"+", topic[i]}
=============================================================================
