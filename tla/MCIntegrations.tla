--------------------------- MODULE MCIntegrations ---------------------------
(* Model checking the integrations with a few clients and three events.     *)
EXTENDS Integrations

Binary == [kind |-> "Binary", json |-> TRUE, utf8 |-> TRUE]
SomeLog == <<[parses |-> TRUE, type |-> "application/json", data |-> Binary],
             [parses |-> FALSE, type |-> None, data |-> None],
             [parses |-> TRUE, type |-> "text/plain", data |-> Binary]>>

SomeTopics == {<<"app", "A">>, <<"$share", "g", "app", "A">>, <<"app", "#">>}
SomeDevices == [name : {"d"}, enabled : BOOLEAN]
Endpoints == {None} \cup [type : {None, "ttnv2", "ttnv3", "other"}, valid : BOOLEAN]
SomeGateways == {<<>>} \cup {<<g, h>> : g \in [name : {"g1"}, enabled : BOOLEAN, external : {None}],
                                        h \in [name : {"g2"}, enabled : BOOLEAN, external : Endpoints]}
SomeDeployments == {{}, {"m1"}, {"w1"}}
=============================================================================
