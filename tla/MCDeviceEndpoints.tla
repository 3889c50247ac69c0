------------------------- MODULE MCDeviceEndpoints --------------------------
(* Model checking the endpoints with an application, a gateway and a       *)
(* device behind it.                                                       *)
EXTENDS DeviceEndpoints

Gw == <<"gw">>
Dev == <<"dev">>
App == <<"app">>
Pass(s) == [type |-> "Password", password |-> [secret |-> s, readable |-> TRUE]]
User(u, s) == [type |-> "UsernamePassword", username |-> u, unique |-> TRUE,
               password |-> [secret |-> s, readable |-> TRUE]]
Psk(k, o) == [type |-> "PreSharedKey", key |-> k, order |-> o, inTime |-> TRUE]

When(type, of) == [type |-> type, of |-> of]
Only(c) == When("And", <<When("IsChannel", c), When("Not", When("Or", <<When("IsChannel", "x")>>))>>)
Endpoint == [url |-> "u", tls |-> None, valid |-> TRUE]
SomeRules == <<[when |-> Only("drop"), then |-> <<[type |-> "Drop"]>>],
               [when |-> Only("check"),
                then |-> <<[type |-> "Validate", endpoint |-> Endpoint],
                           [type |-> "SetAttribute", name |-> "subject", value |-> "checked"]>>],
               [when |-> Only("checked"),
                then |-> <<[type |-> "Enrich", endpoint |-> Endpoint, raw |-> TRUE],
                           [type |-> "Break"]>>],
               [when |-> Only("c"), then |-> <<[type |-> "SetExtension", name |-> "a", value |-> "b"]>>]>>

Gateway ==
    [name |-> Gw, aliases |-> {Gw, <<"user">>}, deleted |-> FALSE, ttn |-> "raw", gateways |-> {},
     auth |-> [valid |-> TRUE, credentials |-> {Pass("p"), User(<<"user">>, "q"), Psk("k", 1)}]]
Device ==
    [name |-> Dev, aliases |-> {Dev}, deleted |-> FALSE, ttn |-> "fields", gateways |-> {Gw},
     auth |-> [valid |-> TRUE, credentials |-> {}]]
Application ==
    [name |-> App, aliases |-> {App}, deleted |-> FALSE, core |-> "ok",
     anchors |-> {[valid |-> TRUE, inTime |-> TRUE, parses |-> TRUE, root |-> "ca"]},
     rules |-> SomeRules, rulesValid |-> TRUE, kafkaReady |-> TRUE]
Reg(a, d) == [app |-> a, devices |-> d]

(* The gateway is deleted, then gone; it gets another password; the device *)
(* no longer has that gateway; the application is disabled, or broken.     *)
SomeRegistries ==
    <<Reg(Application, {Gateway, Device}),
      Reg(Application, {[Gateway EXCEPT !.deleted = TRUE], Device}),
      Reg(Application, {Device}),
      Reg(Application, {[Gateway EXCEPT !.auth.credentials = {Pass("new"), Psk("new", 2)}], Device}),
      Reg(Application, {Gateway, [Device EXCEPT !.gateways = {}]}),
      Reg([Application EXCEPT !.core = "disabled"], {Gateway, Device}),
      Reg([Application EXCEPT !.rulesValid = FALSE, !.kafkaReady = FALSE], {Gateway, Device})>>
SomeChanges == {<<1, 2>>, <<2, 3>>, <<1, 4>>, <<4, 1>>, <<1, 5>>, <<5, 1>>, <<1, 6>>, <<6, 1>>, <<1, 7>>}

Cert == <<[parses |-> TRUE, issuer |-> App, subject |-> Gw, signer |-> "ca"]>>
SomeConnections ==
    {[kind |-> "http", certs |-> None, hint |-> None, key |-> None],
     [kind |-> "http", certs |-> Cert, hint |-> None, key |-> None],
     [kind |-> "coap", certs |-> None, hint |-> None, key |-> None],
     [kind |-> "coap", certs |-> None, hint |-> <<"gw", "app">>, key |-> "k"],
     [kind |-> "coap", certs |-> None, hint |-> <<"gw">>, key |-> "k"]}

Basic(u, p) == [scheme |-> "Basic", decodes |-> TRUE, username |-> u, password |-> p]
Options(app, device, as, ct) == [app |-> app, device |-> device, as |-> as, ct |-> ct]
Http(header, options, channel, body) ==
    [kind |-> "http", query |-> "ok", header |-> header, options |-> options, channel |-> channel,
     type |-> "application/json", body |-> body]
Uplink(kind, payload) ==
    [kind |-> kind, query |-> "ok", header |-> Basic(<<"gw", "app">>, "p"), options |-> NoOptions,
     payload |-> payload, uplink |-> Dev]
Coap(header, path, query, options, channel) ==
    [kind |-> "coap", header |-> header, path |-> path, query |-> query, options |-> options,
     channel |-> channel, type |-> None, body |-> "bytes"]

SomeRequests ==
    <<Http(Basic(<<"gw", "app">>, "p"), Options(None, None, Dev, 1), "c", "json"),
      Http(Basic(<<"gw">>, "p"), Options(App, Gw, Gw, 0), "drop", "json"),
      Http(Basic(<<"user">>, "q"), Options(App, None, None, 0), "check", "json"),
      Http(Basic(<<"user", "app">>, "q"), Options(None, Gw, None, 0), "c", "bytes"),
      Http(None, NoOptions, "c", "json"),
      Uplink("ttn v2", "uplink"), Uplink("ttn v3", "other"),
      Coap(Basic(<<"gw", "app">>, "p"), <<"v1", "c">>, "ok", Options(None, None, None, 1), "c"),
      Coap(None, <<"v1", "c">>, "none", NoOptions, "c"),
      Coap(None, <<"v1", "c", "s">>, "none", NoOptions, "c"),
      Coap(None, <<"v2", "c">>, "none", NoOptions, "c")>>

SomeWebs == {[u \in {"u"} |-> a] : a \in {"OK", "Accepted", "ClientError", "none"}}
=============================================================================
