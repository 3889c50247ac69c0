--------------------------- MODULE DeviceEndpoints --------------------------
(***************************************************************************)
(* The HTTP endpoint, its variant for The Things Network (TTN), and the    *)
(* CoAP endpoint: a device connects, and its requests are authenticated    *)
(* against a registry that changes meanwhile, published to Kafka, and      *)
(* answered, possibly with a command. There is one connection at a time:   *)
(* connections share nothing but the registry and the Kafka producer.      *)
(***************************************************************************)
EXTENDS DeviceAuth, Publishing

CONSTANTS
  Registries,    \* what the registry may hold, by number; 1 is where it begins
  Changes,       \* the changes from one to another by a call of its API
  Connections,   \* how a device may connect
  Requests,      \* what a device may request, by number
  Webs,          \* the answers of the external endpoints of the rules
  CheckKafka,    \* check_kafka_topic_ready
  MaxChanges,    \* bound on the changes of the registry
  MaxRequests    \* bound on the requests

VARIABLES
  history,    \* the numbers of what the registry has been, the last is current
  conn,       \* the connection
  req,        \* the request that is being handled
  queue,      \* the events in the queue of the producer
  topic,      \* the events of the application: of which request each is
  replies     \* the answers to the requests so far

regVars == <<history>>
kafkaVars == <<queue, topic>>
vars == <<history, conn, req, queue, topic, replies>>

reg == Registries[history[Len(history)]]
now == Len(history)
At(i) == Registries[history[i]]    \* the registry at that time
Number == Len(replies) + 1    \* of the current request

Init ==
    /\ history = <<1>> /\ conn = None /\ req = None
    /\ queue = <<>> /\ topic = <<>> /\ replies = <<>>

(* The management API: see module Registry. *)
Manage ==
    /\ Len(history) <= MaxChanges
    /\ \E r \in DOMAIN Registries :
         <<history[now], r>> \in Changes /\ history' = Append(history, r)
    /\ UNCHANGED <<conn, req, kafkaVars, replies>>

-----------------------------------------------------------------------------
(* Connections *)

(* A client connects. With a pre-shared key, the handshake waits for the   *)
(* authentication service.                                                 *)
Connect ==
    /\ conn = None /\ Len(replies) < MaxRequests
    /\ \E c \in Connections :
         LET hint == IF c.hint = None THEN None ELSE ParseIdentity(c.hint)
         IN  conn' = [kind |-> c.kind, certs |-> c.certs, hint |-> hint, key |-> c.key,
                      app |-> 0, identity |-> None, since |-> now,
                      pc |-> CASE c.hint = None -> "open"
                               [] c.hint # None /\ hint # None -> "app"
                               [] c.hint # None /\ hint = None -> "failed"]
    /\ UNCHANGED <<regVars, req, kafkaVars, replies>>

(* request_key: the application, then the device. *)
RequestKeyApp ==
    /\ conn # None /\ conn.pc = "app"
    /\ LET app == LookupApp(reg, conn.hint.app)
       IN  conn' = IF app # None /\ ValidateApp(app)
                   THEN [conn EXCEPT !.app = now, !.pc = "device"]
                   ELSE [conn EXCEPT !.pc = "failed"]
    /\ UNCHANGED <<regVars, req, kafkaVars, replies>>

(* The callback of the handshake, which fails if the keys differ. *)
RequestKeyDevice ==
    /\ conn # None /\ conn.pc = "device"
    /\ LET device == LookupDevice(reg, conn.hint.device)
           key == IF device = None THEN None ELSE LocatePsk(device)
       IN  conn' = IF key # None /\ key = conn.key
                   THEN [conn EXCEPT !.pc = "open",
                           !.identity = [app |-> conn.app, device |-> now]]
                   ELSE [conn EXCEPT !.pc = "failed"]
    /\ UNCHANGED <<regVars, req, kafkaVars, replies>>

(* ReqwestAuthenticatorClient::request fails: so does the handshake. *)
RequestKeyFails ==
    /\ conn # None /\ conn.pc \in {"app", "device"}
    /\ conn' = [conn EXCEPT !.pc = "failed"]
    /\ UNCHANGED <<regVars, req, kafkaVars, replies>>

(* The identity that a request has of its connection. The one of an HTTP   *)
(* connection is kept as an Option, and not found by that type.            *)
HttpIdentity(c) == None
CoapIdentity(c) == c.identity

NoOptions == [app |-> None, device |-> None, as |-> None, ct |-> 0]

(* The answer to a request, and what became of its event. *)
Answer(answer, r) ==
    [answer |-> answer, dropped |-> r.dropped]

(* The client leaves, or the session of a CoAP client expires: a request   *)
(* that is being handled is dropped where it is.                           *)
Disconnect ==
    /\ conn # None
    /\ conn' = None /\ req' = None
    /\ replies' = IF req = None THEN replies ELSE Append(replies, Answer("gone", req))
    /\ UNCHANGED <<regVars, kafkaVars>>

-----------------------------------------------------------------------------
(* Requests *)

(* HttpEndpointError::status_code, CoapEndpointError::status_code *)
ErrorStatus(error) ==
    CASE error \in {"InvalidFormat", "InvalidRequest"} -> "BadRequest"
      [] error = "ConfigurationError" -> "InternalServerError"
      [] error = "AuthenticationServiceError" -> "ServiceUnavailable"
      [] error = "AuthenticationError" -> "Forbidden"

Invalid(answer) == [type |-> "answer", answer |-> answer]

(* publish_plain, publish_tail: what to ask, or what to answer at once. *)
HttpPublish(r, c) ==
    IF r.query = "invalid" THEN Invalid("BadRequest")
    ELSE AuthenticateHttp(r.options.app, r.options.device, r.header, c.certs,
                          HttpIdentity(c), r.options.as)

(* publish_v2, publish_v3 *)
DecodeUplink(r) ==
    CASE r.payload = "garbage" -> "InvalidFormat"
      [] r.payload = "other" /\ r.kind = "ttn v3" -> "InvalidRequest"
      [] r.payload = "other" /\ r.kind = "ttn v2" -> "InvalidFormat"
      [] r.payload = "uplink" -> "ok"

(* publish_uplink: as the device that the uplink is of. *)
PublishUplink(r, c) ==
    IF DecodeUplink(r) # "ok" THEN Invalid(ErrorStatus(DecodeUplink(r)))
    ELSE AuthenticateHttp(r.options.app, r.options.device, r.header, c.certs, None, r.uplink)

(* path_parser: "v1", the channel, and the rest as one segment. *)
PathParser(path) ==
    IF Len(path) >= 2 /\ path[1] = "v1" THEN SubSeq(path, 2, IF Len(path) = 2 THEN 2 ELSE 3)
                                       ELSE None

(* params *)
Params(r) == IF r.path = None THEN None ELSE PathParser(r.path)

(* publish_handler: a query that cannot be read is ignored, but if there   *)
(* is more than a channel there is no answer without a query.              *)
PublishHandler(r, c) ==
    LET path == Params(r)
        options == IF r.query = "ok" THEN r.options ELSE NoOptions
    IN  CASE path = None -> Invalid(ErrorStatus("InvalidRequest"))
          [] path # None /\ Len(path) = 2 /\ r.query # "ok" -> Invalid("nothing")
          [] path # None /\ (Len(path) = 2 => r.query = "ok") ->
               AuthenticateCoap(options.app, options.device, r.header, c.certs, CoapIdentity(c))

Question(r, c) ==
    CASE r.kind = "http" -> HttpPublish(r, c)
      [] r.kind \in {"ttn v2", "ttn v3"} -> PublishUplink(r, c)
      [] r.kind = "coap" -> PublishHandler(r, c)

Reply(answer) ==
    /\ req' = None
    /\ replies' = Append(replies, Answer(answer, req))

(* The next request of the connection. *)
Receive ==
    /\ conn # None /\ conn.pc = "open" /\ req = None /\ Len(replies) < MaxRequests
    /\ \E r \in DOMAIN Requests :
         /\ Requests[r].kind = "coap" <=> conn.kind = "coap"
         /\ req' = [pc |-> "received", r |-> r, app |-> 0, device |-> 0, as |-> 0,
                    since |-> now, dropped |-> FALSE]
    /\ UNCHANGED <<regVars, conn, kafkaVars, replies>>

(* The request, its question, and what was found for it in the registry. *)
Is(pc) == req # None /\ req.pc = pc
request == Requests[req.r]
question == Question(request, conn)
verified == question.type = "verified"
TheApp == At(req.app).app
TheDevice ==
    StripCredentials(LookupDevice(At(req.device),
                                  IF verified THEN conn.hint.device ELSE question.device))
TheAs == IF req.as = 0 THEN None ELSE StripCredentials(LookupDevice(At(req.as), question.as))

(* Without a question there is an answer, or the identity of the handshake.*)
Decide ==
    /\ Is("received")
    /\ LET q == question
       IN  CASE q.type = "answer" -> Reply(q.answer)
             [] q.type = "fail" -> Reply(ErrorStatus("AuthenticationError"))
             [] q.type = "error" -> Reply(ErrorStatus("AuthenticationServiceError"))
             [] q.type = "ask" -> req' = [req EXCEPT !.pc = "app"] /\ UNCHANGED replies
             [] q.type = "verified" ->
                  /\ req' = [req EXCEPT !.pc = "publish", !.since = conn.since,
                               !.app = q.identity.app, !.device = q.identity.device]
                  /\ UNCHANGED replies
    /\ UNCHANGED <<regVars, conn, kafkaVars>>

(* authenticate: the application, the device, and the device to act as are *)
(* looked up one after the other.                                          *)
AuthenticateApp ==
    /\ Is("app")
    /\ LET found == LookupApp(reg, question.app)
       IN  IF found # None /\ ValidateApp(found)
           THEN req' = [req EXCEPT !.app = now, !.pc = "device"] /\ UNCHANGED replies
           ELSE Reply(ErrorStatus("AuthenticationError"))
    /\ UNCHANGED <<regVars, conn, kafkaVars>>

AuthenticateDevice ==
    /\ Is("device")
    /\ LET q == question
           found == LookupDevice(reg, q.device)
       IN  IF found # None /\ ValidateCredential(TheApp, found, q.device, q.credential)
           THEN /\ req' = [req EXCEPT !.device = now,
                             !.pc = IF q.as = None \/ q.as = q.device THEN "publish" ELSE "gateway"]
                /\ UNCHANGED replies
           ELSE Reply(ErrorStatus("AuthenticationError"))
    /\ UNCHANGED <<regVars, conn, kafkaVars>>

AuthenticateGateway ==
    /\ Is("gateway")
    /\ IF ValidateGateway(LookupDevice(reg, question.as), TheDevice)
       THEN req' = [req EXCEPT !.as = now, !.pc = "publish"] /\ UNCHANGED replies
       ELSE Reply(ErrorStatus("AuthenticationError"))
    /\ UNCHANGED <<regVars, conn, kafkaVars>>

(* ReqwestAuthenticatorClient::request fails. *)
AuthenticateFails ==
    /\ req # None /\ req.pc \in {"app", "device", "gateway"}
    /\ Reply(ErrorStatus("AuthenticationServiceError"))
    /\ UNCHANGED <<regVars, conn, kafkaVars>>

-----------------------------------------------------------------------------
(* Publishing *)

(* The payload and the channel: of an uplink, by the section "ttn". *)
GetSpec == IF TheAs = None THEN TheDevice ELSE TheAs

UplinkContent ==
    CASE GetSpec.ttn = "raw" -> [type |-> "application/octet-stream", body |-> "bytes"]
      [] GetSpec.ttn = "fields" -> [type |-> "application/json", body |-> "json"]
      [] OTHER -> [type |-> None, body |-> "json"]

SendUplink == [channel |-> "1", content |-> UplinkContent, ext |-> [lorawanport |-> "1"]]

ToPublish ==
    IF request.kind \in {"ttn v2", "ttn v3"} THEN SendUplink
    ELSE [channel |-> request.channel, content |-> [type |-> request.type, body |-> request.body],
          ext |-> <<>>]

Prepared(web) ==
    LET p == ToPublish
    IN  Prepare(TheApp, WithDevices(TheDevice, TheAs), p.channel, p.content.type, p.content.body,
                p.ext, web)

(* The answer to an event that was accepted: at once, or when a command    *)
(* arrives in time.                                                        *)
CommandTimeout ==
    IF request.kind \in {"ttn v2", "ttn v3"} \/ request.query # "ok" THEN 0
    ELSE request.options.ct

Accepted(r) ==
    IF CommandTimeout > 0
    THEN req' = [r EXCEPT !.pc = "waiting"] /\ UNCHANGED replies
    ELSE req' = None /\ replies' = Append(replies, Answer("Accepted", r))

(* KafkaSink::publish; for the properties, with who it was and when. *)
Proof ==
    CASE verified -> conn.key
      [] ~verified /\ question.credential.type = "Certificate" ->
           Head(question.credential.chain).signer
      [] ~verified /\ question.credential.type # "Certificate" -> question.credential.password

Enqueue(event) ==
    queue' = Append(queue, [n |-> Number, key |-> Key(event, Number), event |-> event,
                            proof |-> Proof, since |-> req.since,
                            until |-> IF verified THEN req.device ELSE now])

(* Publisher::publish, up to the queue of the producer. *)
Publish ==
    /\ Is("publish")
    /\ \E web \in Webs :
         LET result == Prepared(web)
         IN  CASE result.outcome = "Reject" -> Reply("NotAcceptable") /\ UNCHANGED kafkaVars
               [] result.outcome = "Error" -> Reply("InternalServerError") /\ UNCHANGED kafkaVars
               [] result.outcome = "Drop" ->
                    Accepted([req EXCEPT !.dropped = TRUE]) /\ UNCHANGED kafkaVars
               [] result.outcome = "Accept" ->
                    IF CheckReady(TheApp, CheckKafka)
                    THEN Enqueue(result.event) /\ req' = [req EXCEPT !.pc = "sent"]
                         /\ UNCHANGED <<topic, replies>>
                    ELSE Reply("InternalServerError") /\ UNCHANGED kafkaVars
    /\ UNCHANGED <<regVars, conn>>

(* KafkaSink::send_with: the queue is full, or does not take the event. *)
QueueFull ==
    /\ Is("publish")
    /\ \E web \in Webs : Prepared(web).outcome = "Accept"
    /\ CheckReady(TheApp, CheckKafka)
    /\ \E answer \in {"ServiceUnavailable", "InternalServerError"} : Reply(answer)
    /\ UNCHANGED <<regVars, conn, kafkaVars>>

(* The producer: the first event of a key is written, and the request, if  *)
(* there still is one, is told; or it is told of an error, and the event   *)
(* may have been written nevertheless.                                     *)
First(i) == \A j \in 1..(i - 1) : queue[j].key # queue[i].key

Awaits(n) == Is("sent") /\ Number = n

Deliver(i) ==
    /\ i \in DOMAIN queue /\ First(i)
    /\ queue' = RemoveAt(queue, i)
    /\ topic' = Append(topic, queue[i].n)
    /\ IF Awaits(queue[i].n) THEN Accepted(req) ELSE UNCHANGED <<req, replies>>
    /\ UNCHANGED <<regVars, conn>>

(* A faulty variant: the error is ignored. *)
DeliveryFailsQuietly(i) ==
    /\ i \in DOMAIN queue /\ First(i)
    /\ queue' = RemoveAt(queue, i)
    /\ topic' \in {topic, Append(topic, queue[i].n)}
    /\ IF Awaits(queue[i].n) THEN Accepted(req) ELSE UNCHANGED <<req, replies>>
    /\ UNCHANGED <<regVars, conn>>

DeliveryFails(i) ==
    /\ i \in DOMAIN queue /\ First(i)
    /\ queue' = RemoveAt(queue, i)
    /\ topic' \in {topic, Append(topic, queue[i].n)}
    /\ IF Awaits(queue[i].n) THEN Reply(ErrorStatus("ConfigurationError"))
                             ELSE UNCHANGED <<req, replies>>
    /\ UNCHANGED <<regVars, conn>>

(* wait_for_command *)
CommandArrives ==
    /\ Is("waiting") /\ Reply("Command")
    /\ UNCHANGED <<regVars, conn, kafkaVars>>

CommandTimesOut ==
    /\ Is("waiting") /\ Reply("Accepted")
    /\ UNCHANGED <<regVars, conn, kafkaVars>>

-----------------------------------------------------------------------------
(* What the endpoints, the authentication service and Kafka do. *)
System ==
    \/ RequestKeyApp \/ RequestKeyDevice \/ RequestKeyFails
    \/ Decide \/ AuthenticateApp \/ AuthenticateDevice \/ AuthenticateGateway
    \/ AuthenticateFails \/ Publish \/ QueueFull \/ CommandArrives \/ CommandTimesOut
    \/ \E i \in 1..Len(queue) : Deliver(i) \/ DeliveryFails(i)

Next == Manage \/ Connect \/ Disconnect \/ Receive \/ System

Spec == Init /\ [][Next]_vars

-----------------------------------------------------------------------------
TypeOK ==
    /\ Len(history) \in 1..(MaxChanges + 1) /\ Len(replies) \in 0..MaxRequests
    /\ conn # None => conn.pc \in {"app", "device", "open", "failed"}
    /\ req # None =>
         /\ conn # None /\ conn.pc = "open"
         /\ req.pc \in {"received", "app", "device", "gateway", "publish", "sent", "waiting"}
         /\ \A i \in {req.since, req.app, req.device, req.as} : i \in 0..now
    /\ \A i \in DOMAIN queue : queue[i].n <= Number

(* The question that a device may ask of the registry at one moment: is    *)
(* the application in use, is this the secret of the sender, and does the  *)
(* device have the sender for a gateway?                                   *)
AppInUse(r, name) == r.app # None /\ r.app.name = name /\ ~r.app.deleted /\ r.app.core = "ok"

Secret(r, name, proof) ==
    \E d \in r.devices :
        /\ d.name = name /\ ~d.deleted
        /\ \/ \E c \in d.auth.credentials :
                 IF c.type = "PreSharedKey" THEN c.key = proof ELSE c.password.secret = proof
           \/ \E a \in r.app.anchors : a.root = proof

ActsFor(r, sender, device) ==
    \E d \in r.devices : d.name = device /\ ~d.deleted /\ sender \in d.gateways

(* An event that is sent to Kafka says who sent it, and for which device.  *)
(* That was so, at one time after the other, while the request, or the     *)
(* handshake of its connection, was handled: the application was in use,   *)
(* then the sender's secret was the one presented, then the device had the *)
(* sender for a gateway. The services use no transaction for that.         *)
PublishedAsAuthorized ==
    \A n \in DOMAIN queue :
        LET e == queue[n].event
            time == queue[n].since..queue[n].until
        IN  \E i, j, k \in time :
              /\ i <= j /\ j <= k
              /\ AppInUse(At(i), e.app)
              /\ Secret(At(j), e.sender, queue[n].proof)
              /\ e.device # e.sender => ActsFor(At(k), e.sender, e.device)

(* A device that is told that its event was accepted finds it in the topic *)
(* or has rules that drop it, and one that is told that it was not         *)
(* accepted may send it again without sending it twice. Only an internal   *)
(* error leaves that open.                                                 *)
AnswersAreTrue ==
    \A n \in DOMAIN replies :
        LET written == \E i \in DOMAIN topic : topic[i] = n
            queued == \E i \in DOMAIN queue : queue[i].n = n
        IN  CASE replies[n].answer \in {"Accepted", "Command"} -> written \/ replies[n].dropped
              [] replies[n].answer \in {"InternalServerError", "gone"} -> TRUE
              [] OTHER -> ~written /\ ~queued

(* The events of a sender are in the topic in the order of its requests,   *)
(* even if it did not wait for the answers, and none is there twice.       *)
EventsInOrder == \A i, j \in DOMAIN topic : i < j => topic[i] < topic[j]

(* The same credentials mean the same device to HTTP, CoAP and MQTT (where *)
(* the client id names the device), except that over CoAP it acts only for *)
(* itself; and a gateway may act for a device over MQTT if over HTTP it    *)
(* may. Devices move between the endpoints.                                *)
EndpointsAgree ==
    /\ Is("received") /\ request.kind = "http" =>
         LET o == request.options
             h == request.header
             coap == AuthenticateCoap(o.app, o.device, h, conn.certs, None)
             named == o.app # None /\ o.device # None
             client == IF named THEN o.device \o o.app ELSE <<"client">>
         IN  /\ AuthenticateHttp(o.app, o.device, h, conn.certs, None, None) = coap
             /\ h # None /\ (named \/ (o.app = None /\ o.device = None)) =>
                  AuthenticateMqtt(h.username, h.password, client, conn.certs, None) = coap
    /\ Is("gateway") /\ AppInUse(reg, question.app) /\ GetDevice(reg, TheDevice.name) # None =>
         (AuthorizeGateway(reg, question.app, TheDevice.name, question.as)
          <=> ValidateGateway(LookupDevice(reg, question.as), TheDevice))
=============================================================================
