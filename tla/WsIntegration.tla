--------------------------- MODULE WsIntegration ----------------------------
(***************************************************************************)
(* The WebSocket integration: an actor (WsHandler) for each connection,    *)
(* and one (Service) that runs the streams of all of them. A connection    *)
(* asks the service for its stream, and tells it when it stops.            *)
(***************************************************************************)
EXTENDS EventStream

CONSTANT
  Clients      \* the connections; each may have one stream, of its name

VARIABLES
  ws,          \* the actor of each connection
  mailbox,     \* the messages for the service
  clients,     \* Service::clients
  run          \* the task that runs the stream of a connection

wsVars == <<ws, mailbox, clients, run>>

WsInit ==
    /\ ws = [h \in Clients |-> [state |-> "none", group |-> None, channel |-> None,
                                token |-> "none", refresh |-> FALSE, error |-> FALSE]]
    /\ mailbox = <<>> /\ clients = {}
    /\ run = [h \in Clients |-> "none"]

Message(type, h) == [type |-> type, id |-> h]
Set(h, field, value) == ws' = [ws EXCEPT ![h][field] = value]

-----------------------------------------------------------------------------
(* WsHandler *)

(* start_websocket, WsHandler::new, WsHandler::started: the actor waits    *)
(* for the answer to Subscribe. A token expires, an access token does not. *)
Started(h, group, channel, token) ==
    /\ ws[h].state = "none"
    /\ ws' = [ws EXCEPT ![h] = [state |-> "starting", group |-> group, channel |-> channel,
                                token |-> token, refresh |-> FALSE, error |-> FALSE]]
    /\ mailbox' = Append(mailbox, Message("Subscribe", h))
    /\ UNCHANGED <<clients, run, kafkaVars>>

(* ctx.stop, WsHandler::stopping *)
Stop(h) ==
    /\ ws[h].state = "running"
    /\ ws' = [ws EXCEPT ![h].state = "stopped", ![h].refresh = FALSE, ![h].error = FALSE]
    /\ mailbox' = Append(mailbox, Message("Disconnect", h))
    /\ UNCHANGED <<clients, run, kafkaVars>>

(* WsHandler::heartbeat: the client is silent for too long. *)
HeartbeatFails(h) == Stop(h)

(* The client's own messages: it closes, breaks the protocol, or sends a   *)
(* new token.                                                              *)
ClientCloses(h) == Stop(h)

RefreshAccessToken(h) ==
    /\ ws[h].state = "running" /\ ~ws[h].refresh
    /\ Set(h, "refresh", TRUE)
    /\ UNCHANGED <<mailbox, clients, run, kafkaVars>>

(* AuthContext::validate_token: Allow comes with a new expiration. *)
TokenValidated(h) ==
    /\ ws[h].state = "running" /\ ws[h].refresh
    /\ ws' = [ws EXCEPT ![h].refresh = FALSE, ![h].token = "valid"]
    /\ UNCHANGED <<mailbox, clients, run, kafkaVars>>

TokenRefused(h) == ws[h].refresh /\ Stop(h)

TokenExpires(h) ==
    /\ ws[h].state = "running" /\ ws[h].token = "valid"
    /\ Set(h, "token", "expired")
    /\ UNCHANGED <<mailbox, clients, run, kafkaVars>>

(* WsHandler::check_token_expiration *)
CheckTokenExpiration(h) == ws[h].token = "expired" /\ Stop(h)

(* Handler<StreamError> for WsHandler: the client is told, and stopped. *)
HandleError(h) == ws[h].error /\ Stop(h)

-----------------------------------------------------------------------------
(* Service *)

Mail(type) == mailbox # <<>> /\ Head(mailbox).type = type

(* Handler<Subscribe>: the task is spawned, and the answer is sent. *)
HandleSubscribe ==
    /\ Mail("Subscribe")
    /\ LET h == Head(mailbox).id
       IN  /\ run' = [run EXCEPT ![h] = "setup"]
           /\ clients' = clients \cup {h}
           /\ Set(h, "state", "running")
    /\ mailbox' = Tail(mailbox)
    /\ UNCHANGED kafkaVars

(* The task ends: the service gets a StreamError for it. *)
TaskEnds(h) ==
    /\ run' = [run EXCEPT ![h] = "done"]
    /\ mailbox' = Append(mailbox, Message("StreamError", h))
    /\ UNCHANGED <<ws, clients>>

(* Service::get_stream *)
GetStream(h) ==
    /\ run[h] = "setup"
    /\ NewStream(h, ws[h].group, "AutoAck")
    /\ run' = [run EXCEPT ![h] = "stream"]
    /\ UNCHANGED <<ws, mailbox, clients>>

GetStreamFails(h) ==
    /\ run[h] = "setup"
    /\ TaskEnds(h)
    /\ UNCHANGED kafkaVars

(* Service::run_stream: an event is sent to the actor, which forwards it   *)
(* if it is for the client's channel. It ends with an event that is an     *)
(* error, and when the actor is no more.                                   *)
RunStream(h) ==
    /\ run[h] = "stream" /\ Holding(h)
    /\ IF stream[h].handle.ok /\ ws[h].state = "running"
       THEN Sent(h) /\ UNCHANGED wsVars
       ELSE DropStreams({h}) /\ TaskEnds(h)

CancelFuture(h) ==
    /\ run' = [run EXCEPT ![h] = "done"]
    /\ IF run[h] = "stream" THEN DropStreams({h}) ELSE UNCHANGED kafkaVars

(* Handler<Disconnect> for Service *)
HandleDisconnect ==
    /\ Mail("Disconnect")
    /\ LET h == Head(mailbox).id
       IN  /\ IF h \in clients THEN CancelFuture(h) ELSE UNCHANGED <<run, kafkaVars>>
           /\ clients' = clients \ {h}
    /\ mailbox' = Tail(mailbox)
    /\ UNCHANGED ws

(* A faulty variant: the connection is not told. *)
HandleStreamErrorQuietly ==
    /\ Mail("StreamError")
    /\ clients' = clients \ {Head(mailbox).id}
    /\ mailbox' = Tail(mailbox)
    /\ UNCHANGED <<ws, run, kafkaVars>>

(* Handler<StreamError> for Service: the actor gets it, if the client is   *)
(* still known. The task to be cancelled has ended.                        *)
HandleStreamError ==
    /\ Mail("StreamError")
    /\ LET h == Head(mailbox).id
       IN  /\ ws' = [ws EXCEPT ![h].error = h \in clients /\ ws[h].state = "running"]
           /\ clients' = clients \ {h}
    /\ mailbox' = Tail(mailbox)
    /\ UNCHANGED <<run, kafkaVars>>

(* What the actors do by themselves. *)
WsStep ==
    \/ HandleSubscribe \/ HandleDisconnect \/ HandleStreamError
    \/ \E h \in Clients :
         \/ run[h] = "stream" /\ PollNext(h) /\ UNCHANGED wsVars
         \/ GetStream(h) \/ RunStream(h)
         \/ CheckTokenExpiration(h) \/ HandleError(h)
=============================================================================
