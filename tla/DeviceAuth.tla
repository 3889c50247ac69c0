----------------------------- MODULE DeviceAuth -----------------------------
(***************************************************************************)
(* How a device says who it is (endpoint-common/auth), and how the         *)
(* authentication service finds out if that is so. A string that may hold  *)
(* an '@' is the sequence of its parts: "d@app" is <<"d", "app">>.         *)
(***************************************************************************)
EXTENDS Naturals, Sequences, FiniteSets, Option

-----------------------------------------------------------------------------
(* The endpoints: DeviceAuthenticator. *)

(* percent_decode_str *)
Decode(part) == IF part = "d%40x" THEN <<"d", "x">> ELSE <<part>>

(* Username::from: what precedes the first '@' is the device. *)
Username(s) ==
    IF Len(s) > 1 THEN [scope |-> Tail(s), device |-> Decode(Head(s))]
                  ELSE [scope |-> None, device |-> s]

(* Username::into_string *)
IntoString(u) == IF u.scope = None THEN u.device ELSE u.scope \o u.device

(* AuthValue::from, of a header that may be absent. *)
AuthValue(header) ==
    CASE header = None -> [type |-> "None"]
      [] header # None /\ header.scheme = "Basic" /\ header.decodes ->
           [type |-> "Basic", username |-> Username(header.username), password |-> header.password]
      [] header # None /\ header.scheme = "Bearer" -> [type |-> "Bearer"]
      [] header # None /\ header.scheme # "Bearer" /\ ~(header.scheme = "Basic" /\ header.decodes) ->
           [type |-> "Unknown"]

Password(password) == [type |-> "Password", password |-> password]
UsernamePassword(username, password) ==
    [type |-> "UsernamePassword", username |-> username, password |-> password]

(* authenticate: the question for the authentication service. *)
Authenticate(app, device, credential, as) ==
    [type |-> "ask", app |-> app, device |-> device, credential |-> credential, as |-> as]

Failed == [type |-> "fail"]

(* device_cert: the first certificate. *)
DeviceCert(certs) == IF certs # <<>> /\ Head(certs).parses THEN Head(certs) ELSE None

(* ids_from_cert *)
IdsFromCert(certs) ==
    IF DeviceCert(certs) = None THEN None
    ELSE [app |-> DeviceCert(certs).issuer, device |-> DeviceCert(certs).subject]

(* authenticate_cert *)
AuthenticateCert(certs) ==
    IF IdsFromCert(certs) = None THEN [type |-> "error"]
    ELSE Authenticate(IdsFromCert(certs).app, IdsFromCert(certs).device,
                      [type |-> "Certificate", chain |-> certs], None)

(* authenticate_verified_identity: no question, it was answered during the *)
(* handshake.                                                              *)
AuthenticateVerifiedIdentity(identity) == [type |-> "verified", identity |-> identity]

(* A faulty variant: the user is taken for the device. *)
AuthenticateHttpAsUser(app, device, header, certs, identity, as) ==
    LET auth == AuthValue(header)
    IN  IF auth.type = "Basic" /\ certs = None /\ identity = None
        THEN Authenticate(IF app = None THEN auth.username.scope ELSE app,
                          auth.username.device, Password(auth.password), as)
        ELSE Failed

(* authenticate_http *)
AuthenticateHttp(app, device, header, certs, identity, as) ==
    LET auth == AuthValue(header)
        basic == auth.type = "Basic" /\ certs = None /\ identity = None
        scoped == basic /\ auth.username.scope # None
        no(x) == x = None
        bare == no(app) /\ no(device) /\ auth.type = "None"
    IN  CASE no(app) /\ no(device) /\ scoped ->
               Authenticate(auth.username.scope, auth.username.device, Password(auth.password), as)
          [] ~no(app) /\ no(device) /\ basic ->
               Authenticate(app, IntoString(auth.username), Password(auth.password), as)
          [] ~no(app) /\ ~no(device) /\ basic ->
               Authenticate(app, device,
                            UsernamePassword(IntoString(auth.username), auth.password), as)
          [] no(app) /\ ~no(device) /\ scoped ->
               Authenticate(auth.username.scope, device,
                            UsernamePassword(auth.username.device, auth.password), as)
          [] bare /\ ~no(certs) /\ no(identity) -> AuthenticateCert(certs)
          [] bare /\ no(certs) /\ ~no(identity) -> AuthenticateVerifiedIdentity(identity)
          [] OTHER -> Failed

(* authenticate_coap: without a device to act as. *)
AuthenticateCoap(app, device, header, certs, identity) ==
    LET auth == AuthValue(header)
        plain == auth.type = "Basic" /\ certs = None /\ identity = None
        scope == IF plain THEN auth.username.scope ELSE None
    IN  CASE plain /\ device = None /\ app # None ->
               Authenticate(app, IntoString(auth.username), Password(auth.password), None)
          [] plain /\ device = None /\ app = None /\ scope # None ->
               Authenticate(scope, auth.username.device, Password(auth.password), None)
          [] plain /\ device # None /\ app # None ->
               Authenticate(app, device,
                            UsernamePassword(IntoString(auth.username), auth.password), None)
          [] plain /\ device # None /\ app = None /\ scope # None ->
               Authenticate(scope, device,
                            UsernamePassword(auth.username.device, auth.password), None)
          [] <<app, device, header, identity>> = <<None, None, None, None>> /\ certs # None ->
               AuthenticateCert(certs)
          [] <<app, device, header, certs>> = <<None, None, None, None>> /\ identity # None ->
               AuthenticateVerifiedIdentity(identity)
          [] OTHER -> Failed

(* authenticate_mqtt: a user or, with the device, the client id is scoped. *)
AuthenticateMqtt(username, password, clientId, certs, identity) ==
    LET user == IF username = None THEN None ELSE Username(username)
        client == Username(clientId)
        login == user # None /\ password # None /\ certs = None /\ identity = None
    IN  CASE login /\ user.scope # None ->
               Authenticate(user.scope, user.device, Password(password), None)
          [] login /\ user.scope = None /\ client.scope # None ->
               Authenticate(client.scope, client.device,
                            UsernamePassword(user.device, password), None)
          [] <<username, password, identity>> = <<None, None, None>> /\ certs # None ->
               AuthenticateCert(certs)
          [] <<username, password, certs>> = <<None, None, None>> /\ identity # None ->
               AuthenticateVerifiedIdentity(identity)
          [] OTHER -> Failed

(* Identity::parse: the identity hint of a PSK handshake. *)
ParseIdentity(hint) ==
    IF Len(hint) > 1 THEN [device |-> <<Head(hint)>>, app |-> Tail(hint)] ELSE None

-----------------------------------------------------------------------------
(* The registry, as the authentication service reads it: one row of a      *)
(* table at a time.                                                        *)

(* The lookups of applications and devices by alias; a name is an alias.   *)
LookupApp(reg, id) == IF reg.app # None /\ id \in reg.app.aliases THEN reg.app ELSE None

LookupDevice(reg, id) ==
    LET found == {d \in reg.devices : id \in d.aliases}
    IN  IF found = {} THEN None ELSE CHOOSE d \in found : TRUE

(* DeviceAccessor::get, by name. *)
GetDevice(reg, name) ==
    LET found == {d \in reg.devices : d.name = name}
    IN  IF found = {} THEN None ELSE CHOOSE d \in found : TRUE

-----------------------------------------------------------------------------
(* The authentication service. *)

ValidateApp(app) == ~app.deleted /\ app.core \notin {"disabled", "invalid"}

(* strip_credentials *)
StripCredentials(device) == [device EXCEPT !.auth = None]

(* password_matches: plain, or by a hash that can be read. *)
PasswordMatches(expected, provided) == expected.readable /\ expected.secret = provided

Credentials(device) == IF device.auth = None THEN {} ELSE device.auth.credentials

ValidatePassword(device, providedDevice, password) ==
    \E c \in Credentials(device) :
        /\ \/ c.type = "Password"
           \/ c.type = "UsernamePassword" /\ c.unique /\ c.username = providedDevice
           \/ c.type = "UsernamePassword" /\ ~c.unique /\ c.username = device.name
        /\ PasswordMatches(c.password, password)

ValidateUsernamePassword(device, username, password) ==
    \E c \in Credentials(device) :
        /\ \/ c.type = "Password" /\ username = device.name
           \/ c.type = "UsernamePassword" /\ c.username = username
        /\ PasswordMatches(c.password, password)

(* verify_client_cert: the chain is signed by the root. *)
VerifyClientCert(root, end) == end.signer = root

ValidateTrustAnchor(anchor, chain) ==
    /\ anchor.valid /\ chain # <<>> /\ anchor.inTime /\ anchor.parses
    /\ VerifyClientCert(anchor.root, chain[Len(chain)])

ValidateCertificate(app, chain) ==
    chain # <<>> /\ \E a \in app.anchors : ValidateTrustAnchor(a, chain)

(* A faulty variant: a device that is being deleted passes. *)
ValidateCredentialDeleted(app, device, providedDevice, cred) ==
    CASE cred.type = "Password" -> ValidatePassword(device, providedDevice, cred.password)
      [] cred.type = "UsernamePassword" ->
           ValidateUsernamePassword(device, cred.username, cred.password)
      [] cred.type = "Certificate" -> ValidateCertificate(app, cred.chain)

ValidateCredential(app, device, providedDevice, cred) ==
    /\ ~device.deleted
    /\ device.auth = None \/ device.auth.valid
    /\ CASE cred.type = "Password" -> ValidatePassword(device, providedDevice, cred.password)
         [] cred.type = "UsernamePassword" ->
              ValidateUsernamePassword(device, cred.username, cred.password)
         [] cred.type = "Certificate" -> ValidateCertificate(app, cred.chain)

(* locate_psk: of the keys that are valid now, the first in their order. *)
LocatePsk(device) ==
    LET keys == {c \in Credentials(device) : c.type = "PreSharedKey" /\ c.inTime}
    IN  IF device.deleted \/ device.auth = None \/ (device.auth # None /\ ~device.auth.valid) \/ keys = {}
        THEN None
        ELSE (CHOOSE k \in keys : \A l \in keys : k.order <= l.order).key

(* validate_gateway: does the device let this one act for it? *)
ValidateGateway(as, device) ==
    as # None /\ ~as.deleted /\ as.gateways # None /\ device.name \in as.gateways

(* authorize_gateway: asked for by the MQTT endpoint, of a device that is  *)
(* connected already.                                                      *)
AuthorizeGateway(reg, app, device, as) ==
    LET a == LookupApp(reg, app)
        d == GetDevice(reg, device)
    IN  a # None /\ ValidateApp(a) /\ d # None /\ ValidateGateway(LookupDevice(reg, as), d)
=============================================================================
