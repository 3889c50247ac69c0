----------------------------- MODULE MqttServer -----------------------------
(***************************************************************************)
(* What the MQTT server common to the device endpoint and the MQTT         *)
(* integration (mqtt-common) makes of the result of a session's handler,   *)
(* for both versions of the protocol.                                      *)
(***************************************************************************)

Versions == {"v3", "v5"}

(* build_rustls, build_openssl: with TLS, the TLS handshake comes first. *)
AcceptTls(tls, client) == tls => client.tls

(* create_server_ws: the WebSocket handshake; a request that is not an     *)
(* upgrade is NotFound.                                                    *)
UpgradeWs(client) == client.request = "Upgrade"

(* create_server: what reaches the MQTT server for the configured transport. *)
CreateServer(transport, client) ==
    CASE transport = "Mqtt" -> client.request = "Mqtt"
      [] transport = "Websocket" -> UpgradeWs(client)

(* connect_v3, connect_v5: whatever went wrong, the client is told that    *)
(* its credentials are bad.                                                *)
ConnectAck(result) ==
    IF result = "created" THEN "Success" ELSE "BadUserNameOrPassword"

(* MqttResponse for PublishError. *)
Reason(error) ==
    CASE error \in {"InternalError", "UnspecifiedError", "ProtocolError"} -> "UnspecifiedError"
      [] error = "UnsupportedOperation" -> "ImplementationSpecificError"
      [] OTHER -> error

(* publish_v3: an error is a server error, which ends the connection. *)
PublishV3(result) == IF result = "Ok" THEN "ack" ELSE "drop"

(* publish_v5: an error is the reason code of the acknowledgement. *)
PublishV5(result) == IF result = "Ok" THEN "ack" ELSE Reason(result)

PublishAck(version, result) ==
    IF version = "v3" THEN PublishV3(result) ELSE PublishV5(result)

(* Subscribe::id: MQTT v3 has no subscription identifiers. *)
SubscriptionIds(version) == IF version = "v3" THEN {FALSE} ELSE BOOLEAN

(* Disconnect::reason_code *)
DisconnectReasons(version) ==
    IF version = "v3" THEN {"NormalDisconnection"}
                      ELSE {"NormalDisconnection", "DisconnectWithWill"}

(* control_v3, control_v5: the control packets that reach the session. The *)
(* others (ping, authentication, protocol errors) are answered on the      *)
(* spot. A packet whose handler fails ends the connection, as an error.    *)
Handler(packet) ==
    CASE packet = "Subscribe" -> "subscribe"
      [] packet = "Unsubscribe" -> "unsubscribe"
      [] packet = "Disconnect" -> "disconnect"
      [] packet \in {"PeerGone", "Closed"} -> "closed"

ControlAck(result) == IF result = "Ok" THEN "ack" ELSE "drop"
=============================================================================
