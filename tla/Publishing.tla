----------------------------- MODULE Publishing -----------------------------
(***************************************************************************)
(* Publishing an event (endpoint-common/sender): it is built, runs through *)
(* the rules of the application, and goes to the application's topic.      *)
(***************************************************************************)
EXTENDS Naturals, Sequences, SequencesExt, Option

-----------------------------------------------------------------------------
(* PublishIdPair::with_devices *)
WithDevices(device, as) ==
    [device |-> IF as = None THEN device.name ELSE as.name, sender |-> device.name]

(* is_json *)
IsJson(type) == type \in {"application/json", "text/json", "x+json"}

(* The body and its content type: a body that claims to be JSON is parsed. *)
(* None: it is not JSON.                                                   *)
Content(type, body) ==
    CASE type # None /\ IsJson(type) ->
           IF body = "json" THEN [type |-> "application/json", data |-> "json"] ELSE None
      [] type # None /\ ~IsJson(type) -> [type |-> type, data |-> "bytes"]
      [] type = None ->
           IF body = "json" THEN [type |-> "application/json", data |-> "json"]
                            ELSE [type |-> "application/octet-stream", data |-> "bytes"]

(* publish: the event. *)
Event(app, ids, channel, content, extensions) ==
    [app |-> app.name, device |-> ids.device, sender |-> ids.sender,
     subject |-> channel, type |-> "io.drogue.event.v1", content |-> content, schema |-> None,
     ext |-> extensions @@ [partitionkey |-> <<app.name, ids.sender>>]]

-----------------------------------------------------------------------------
(* Processor: the rules. *)

RECURSIVE IsWhen(_, _)
IsWhen(when, event) ==
    CASE when.type = "Always" -> TRUE
      [] when.type = "Not" -> ~IsWhen(when.of, event)
      [] when.type = "And" ->
           when.of # <<>> /\ \A i \in DOMAIN when.of : IsWhen(when.of[i], event)
      [] when.type = "Or" -> \E i \in DOMAIN when.of : IsWhen(when.of[i], event)
      [] when.type = "IsChannel" -> event.subject = when.of

Continue(event) == [outcome |-> "Continue", event |-> event]
Accept(event) == [outcome |-> "Accept", event |-> event]
Stop(outcome) == [outcome |-> outcome, event |-> None]

(* set_attribute; None removes. *)
SetAttribute(event, name, value) ==
    CASE name = "datacontenttype" -> Continue([event EXCEPT !.content.type = value])
      [] name = "dataschema" ->
           IF value = "not a URL" THEN Stop("Error") ELSE Continue([event EXCEPT !.schema = value])
      [] name = "subject" -> Continue([event EXCEPT !.subject = value])
      [] name = "type" ->
           IF value = None THEN Stop("Error") ELSE Continue([event EXCEPT !.type = value])
      [] OTHER -> Stop("Error")

(* ExternalClient::new: the certificate of the TLS options is one.         *)
(* ExternalClientPool::get: the client that was cached is the same.        *)
NewClient(tls) == tls = None \/ tls # "bad certificate"
PoolGet(endpoint) == NewClient(endpoint.tls)

(* ExternalClient::process: method, URL and headers are valid, and there   *)
(* is an answer in time. web gives the answers of the endpoints.           *)
CallExternal(endpoint, web) ==
    IF PoolGet(endpoint) /\ endpoint.valid THEN web[endpoint.url] ELSE "none"

Validate(endpoint, event, web) ==
    LET answer == CallExternal(endpoint, web)
    IN  CASE answer \in {"OK", "NoContent"} -> Continue(event)
          [] answer = "Accepted" -> Accept(event)
          [] answer = "ClientError" -> Stop("Reject")
          [] OTHER -> Stop("Error")

(* enrich: the answer is the new event, or its new data. *)
Enrich(endpoint, raw, event, web) ==
    IF CallExternal(endpoint, web) # "OK" THEN Stop("Error")
    ELSE Continue([event EXCEPT !.content = [type |-> "application/octet-stream", data |-> "enriched"],
                                !.type = IF raw THEN @ ELSE "enriched"])

Step(step, event, web) ==
    CASE step.type = "Drop" -> Stop("Drop")
      [] step.type = "Break" -> Accept(event)
      [] step.type = "Reject" -> Stop("Reject")
      [] step.type = "SetAttribute" -> SetAttribute(event, step.name, step.value)
      [] step.type = "RemoveAttribute" -> SetAttribute(event, step.name, None)
      [] step.type = "SetExtension" ->
           Continue([event EXCEPT !.ext = (step.name :> step.value) @@ @])
      [] step.type = "RemoveExtension" ->
           Continue([event EXCEPT !.ext = [k \in DOMAIN @ \ {step.name} |-> @[k]]])
      [] step.type = "Validate" -> Validate(step.endpoint, event, web)
      [] step.type = "Enrich" -> Enrich(step.endpoint, step.raw, event, web)

(* handle: step after step, while they say to continue. *)
Handle(then, event, web) ==
    FoldLeft(LAMBDA r, step : IF r.outcome = "Continue" THEN Step(step, r.event, web) ELSE r,
             Continue(event), then)

(* process: rule after rule; what none of them stops is accepted. *)
Process(rules, event, web) ==
    LET result == FoldLeft(LAMBDA r, rule :
                              IF r.outcome = "Continue" /\ IsWhen(rule.when, r.event)
                              THEN Handle(rule.then, r.event, web) ELSE r,
                           Continue(event), rules)
    IN  IF result.outcome = "Continue" THEN Accept(result.event) ELSE result

(* TryFrom: the rules of the application, if they can be read. *)
RulesOf(app) == IF app.rules = None THEN <<>> ELSE app.rules

(* publish, up to the sink. *)
Prepare(app, ids, channel, type, body, extensions, web) ==
    LET content == Content(type, body)
    IN  IF content = None THEN Stop("Reject")
        ELSE IF ~app.rulesValid THEN Stop("Error")
        ELSE Process(RulesOf(app), Event(app, ids, channel, content, extensions), web)

-----------------------------------------------------------------------------
(* KafkaSink *)

(* check_ready, is_ready *)
IsReady(app) == app.kafkaReady
CheckReady(app, checkReady) == checkReady => IsReady(app)

(* A faulty variant: every event has a key of its own. *)
KeyById(event, id) == <<"id", id>>

(* The events of a key stay in order. *)
Key(event, id) ==
    IF "partitionkey" \in DOMAIN event.ext THEN event.ext.partitionkey ELSE <<"id", id>>
=============================================================================
