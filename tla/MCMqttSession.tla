--------------------------- MODULE MCMqttSession ----------------------------
(* Model checking one connection of a device to the MQTT endpoint.         *)
EXTENDS MqttSession

SomePaths == {<<"d2", "d3">>, <<"d1", "d2">>, <<"d3", "", "d1">>}
SomeFilters == {<<"command", "inbox", "+", "#">>, <<"command", "inbox", "d2", "#">>,
                <<"command", "#">>}
=============================================================================
