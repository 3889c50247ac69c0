---------------------------- MODULE SendCommands ----------------------------
(***************************************************************************)
(* Sending a command to a device (integration-common/commands), for the    *)
(* command endpoint (HTTP) and for the MQTT integration.                   *)
(***************************************************************************)
EXTENDS Naturals, Sequences, Option

VARIABLES
  command,    \* the command that is processed
  published   \* the targets that it was published for (history)

commandVars == <<command, published>>

CommandInit == command = None /\ published = {}

-----------------------------------------------------------------------------
(* External endpoints. *)

(* to_builder: method, URL and headers of the endpoint are valid. *)
ToBuilder(endpoint) == endpoint.valid

(* The answer to the request, by way of default_error. *)
Success(reply) == reply = "success"

(* DefaultSender::send *)
SendDefault(endpoint, reply) == ToBuilder(endpoint) /\ Success(reply)

(* TtnV2Sender::send, TtnV3Sender::send: "port:<port>" names a port, which *)
(* must be a number.                                                       *)
SendTtnV2(endpoint, name, reply) ==
    ToBuilder(endpoint) /\ name # "port:invalid" /\ Success(reply)
SendTtnV3(endpoint, name, reply) ==
    ToBuilder(endpoint) /\ name # "port:invalid" /\ Success(reply)

SendToExternal(endpoint, name, reply) ==
    CASE endpoint.type = None -> SendDefault(endpoint, reply)
      [] endpoint.type \in {"ttn", "ttnv2"} -> SendTtnV2(endpoint, name, reply)
      [] endpoint.type = "ttnv3" -> SendTtnV3(endpoint, name, reply)
      [] OTHER -> FALSE

-----------------------------------------------------------------------------
(* process_command *)

(* The gateways that may take the command. *)
Enabled(gateways) == SelectSeq(gateways, LAMBDA g : g.enabled)

(* The first one with an external endpoint gets it, else all of them do,   *)
(* after the device itself.                                                *)
Externals(gateways) == SelectSeq(Enabled(gateways), LAMBDA g : g.external # None)

(* A faulty variant: the gateways are not asked whether they are enabled. *)
TargetsOfAll(device, gateways) ==
    <<device.name>> \o [i \in 1..Len(gateways) |-> gateways[i].name]

Targets(device, gateways) ==
    <<device.name>> \o [i \in 1..Len(Enabled(gateways)) |-> Enabled(gateways)[i].name]

(* The answer to the client. The MQTT integration has process_command's    *)
(* response, but looks only for errors, which there are none of.           *)
Answered(origin, response) == IF origin = "mqtt" THEN "Ok" ELSE response

Answer(response) ==
    command' = [command EXCEPT !.pc = "answered", !.response = response,
                               !.answer = Answered(command.origin, response)]

(* Session::publish: what is answered before the command is processed. *)
PublishRefused(topic, allowed, lookup) ==
    CASE topic # "command/app/device/name" -> "UnsupportedOperation"
      [] topic = "command/app/device/name" /\ ~allowed -> "NotAuthorized"
      [] topic = "command/app/device/name" /\ allowed ->
           [found |-> None, missing |-> "NotAuthorized", failed |-> "InternalError"][lookup]

(* v1alpha1::command *)
CommandRefused(lookup) == IF lookup = "found" THEN None ELSE "NotAcceptable"

(* A command arrives: application, device and gateways are looked up in    *)
(* the registry.                                                           *)
Begin(origin, topic, allowed, lookup, name, device, gateways) ==
    /\ command = None
    /\ LET refused == IF origin = "mqtt" THEN PublishRefused(topic, allowed, lookup)
                                         ELSE CommandRefused(lookup)
       IN  command' = [origin |-> origin, name |-> name, device |-> device, gateways |-> gateways,
                       todo |-> Targets(device, gateways),
                       pc |-> IF refused = None THEN "process" ELSE "answered",
                       response |-> refused, answer |-> refused]
    /\ UNCHANGED published

(* A device that is disabled gets no commands. *)
Disabled ==
    /\ command # None /\ command.pc = "process" /\ ~command.device.enabled
    /\ Answer("NotAcceptable")
    /\ UNCHANGED published

External ==
    /\ command # None /\ command.pc = "process" /\ command.device.enabled
    /\ Externals(command.gateways) # <<>>
    /\ \E reply \in {"success", "failure", "lost"} :
         LET gateway == Head(Externals(command.gateways))
             sent == SendToExternal(gateway.external, command.name, reply)
         IN  /\ Answer(IF sent THEN "Ok" ELSE "NotAcceptable")
             /\ published' = IF sent THEN {gateway.name} ELSE published

(* UpstreamSender::publish, for one target after the other, until one is   *)
(* Rejected, finds its queue full, or fails.                               *)
Publish ==
    /\ command # None /\ command.pc = "process" /\ command.device.enabled
    /\ Externals(command.gateways) = <<>>
    /\ IF command.todo = <<>>
       THEN Answer("Accepted") /\ UNCHANGED published
       ELSE \/ /\ published' = published \cup {Head(command.todo)}
               /\ command' = [command EXCEPT !.todo = Tail(@)]
            \/ Answer("NotAcceptable") /\ UNCHANGED published
            \/ Answer("ServiceUnavailable") /\ UNCHANGED published
            \/ Answer("InternalServerError") /\ UNCHANGED published

CommandStep == Disabled \/ External \/ Publish

-----------------------------------------------------------------------------
(* A command goes to devices that are enabled, and not to any if its own   *)
(* device is not. It is Accepted only if it was published for the device   *)
(* and for all of its enabled gateways, and an endpoint outside is the     *)
(* only one to get it.                                                     *)
CommandsReachTargets ==
    command # None =>
      LET gateways == {command.gateways[i] : i \in 1..Len(command.gateways)}
          enabled == {command.device.name} \cup {g.name : g \in {h \in gateways : h.enabled}}
      IN  /\ published # {} => command.device.enabled
          /\ published \subseteq enabled
          /\ command.response = "Accepted" => published = enabled
          /\ command.response = "Ok" => \E g \in gateways : g.enabled /\ g.external # None /\ published = {g.name}
=============================================================================
