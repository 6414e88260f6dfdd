------------------------------ MODULE MCBroker ------------------------------
(* The instance of Broker that is checked: the device tells events to two  *)
(* clients that share a filter, one of which holds a second filter that    *)
(* overlaps it and matches what that client publishes itself.              *)
EXTENDS Broker

Event == <<"events", "d1">>
Command == <<"command", "d1">>

ClientFilters == [device  |-> {Command},
                  backend |-> {Event, <<"+", "#">>},
                  monitor |-> {Event}]
ClientTopics == [device |-> {Event}, backend |-> {Command}, monitor |-> {}]
=============================================================================
