----------------------------- MODULE MCCommands -----------------------------
(* Instances of Commands for TLC: a gateway gw with the device d1 behind it. *)
EXTENDS Commands, TLC

CONSTANTS gw, d1, inboxAll, inboxDevice, request

GatewayAddresses == {[gateway |-> gw, device |-> gw], [gateway |-> gw, device |-> d1]}

MCFilter == (inboxAll :> [gateway |-> gw, device |-> NoDevice])
         @@ (inboxDevice :> [gateway |-> gw, device |-> d1])
         @@ (request :> [gateway |-> gw, device |-> d1])

MCAccepts == [s \in DOMAIN MCFilter |-> IF s = inboxAll THEN {"set", "get"} ELSE {"set"}]
=============================================================================
