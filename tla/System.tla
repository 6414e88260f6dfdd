------------------------------- MODULE System -------------------------------
(***************************************************************************)
(* The way of a command and of its answer: from a button of the page       *)
(* (dashboard.js) by the proxy (dashboard/app.py) to the backend's         *)
(* /command, from there over the broker to the device, and back as an      *)
(* event into the backend's store.  Processes start in any order, and      *)
(* the broker, the device and the connections fail.                        *)
(*                                                                         *)
(* The parts are taken as coarsely as this needs: append() and pop(0) of   *)
(* the device's queue are one step (MqttClient has two), so is a packet in *)
(* the broker (Broker).  Both ends of a connection see at once that it is  *)
(* lost, which the network thread of the device does between callbacks     *)
(* only.  Presses and events are numbered in their order.                  *)
(***************************************************************************)
EXTENDS Integers, SequencesExt, Selection

CONSTANTS
  MaxQueue,       \* 50 messages in the device's offline_queue
  MaxPresses,     \* bound: buttons pressed
  MaxMessages,    \* bound: those and the device's events that answer no command
  MaxIncidents    \* bound: losses of a connection, of the broker, of the device

ASSUME SystemAssumption ==
  MaxQueue \in Nat \ {0} /\ {MaxPresses, MaxMessages, MaxIncidents} \subseteq Nat

Clients == {"backend", "device"}
Presses == 1..MaxPresses

VARIABLES
  link,           \* where each client's connection is; see Links
  up, down,       \* client -> packets on their way to and from the broker
  broker,         \* whether its process runs
  subscribed,     \* clients the broker knows the subscription of
  requests,       \* press -> where the backend's request thread is
  shown,          \* press -> what the page says of it
  events,         \* what add_event() was given; Storage keeps the last 200
  queue,          \* the device's offline_queue, from where its flush has got to
  passed,         \* how many positions of the list the flush has passed
  reporting,      \* where publish_json() is in a thread that holds the lock
  executed,       \* history: presses the device has handled, in order
  reports,        \* history: the device's events; 0, or the press answered
  incidents

page_vars == <<requests, shown>>
device_vars == <<queue, passed, reporting, executed, reports>>
vars == <<link, up, down, broker, subscribed, page_vars, events, device_vars, incidents>>

(* "off": the process has not started; "deaf": it has no network thread;   *)
(* "lost": that thread will connect; "open": it is connected, and its      *)
(* on_connect has yet to run; "flushing", "clearing": it is in the loop of *)
(* on_connect, or before its clear().                                      *)
Links == {"off", "deaf", "lost", "open", "flushing", "clearing", "ready"}
Connected(c) == link[c] \in {"open", "flushing", "clearing", "ready"}

Packet(kind, no) == [kind |-> kind, no |-> no]
Of(kind, packets) == {p.no : p \in {q \in ToSet(packets) : q.kind = kind}}

Init ==
  /\ link = [backend |-> "off", device |-> "lost"]
  /\ up = [c \in Clients |-> <<>>]
  /\ down = [c \in Clients |-> <<>>]
  /\ broker \in BOOLEAN
  /\ subscribed = {}
  /\ requests = [n \in Presses |-> "none"]
  /\ shown = [n \in Presses |-> "nothing"]
  /\ events = <<>>
  /\ queue = <<>> /\ passed = 0 /\ reporting = "no"
  /\ executed = <<>> /\ reports = <<>>
  /\ incidents = 0

Pressed == {n \in Presses : requests[n] # "none"}
Spent == Cardinality(Pressed) + Cardinality({i \in DOMAIN reports : reports[i] = 0})

-----------------------------------------------------------------------------
(* The page and the backend's request threads.                             *)

(* sendCommand: the buttons send nothing but ALLOWED_COMMANDS.             *)
Press(n) ==
  /\ link["backend"] # "off"
  /\ Pressed = 1..(n - 1)
  /\ Spent < MaxMessages
  /\ requests' = [requests EXCEPT ![n] = "received"]
  /\ shown' = [shown EXCEPT ![n] = "sending"]
  /\ UNCHANGED <<link, up, down, broker, subscribed, events, device_vars, incidents>>

(* publish() without a socket returns an error code that nobody looks at.  *)
PublishCommand(n) ==
  /\ requests[n] = "received"
  /\ requests' = [requests EXCEPT ![n] = "published"]
  /\ up' = [up EXCEPT !["backend"] =
              IF Connected("backend") THEN Append(@, Packet("command", n)) ELSE @]
  /\ UNCHANGED <<link, down, broker, subscribed, shown, events, device_vars, incidents>>

(* Variation: a request that nobody waits for is not logged.               *)
LogSentIfAwaited(n) ==
  /\ requests[n] = "published"
  /\ requests' = [requests EXCEPT ![n] = "logged"]
  /\ events' = IF shown[n] = "sending" THEN Append(events, Packet("sent", n)) ELSE events
  /\ UNCHANGED <<link, up, down, broker, subscribed, shown, device_vars, incidents>>

LogSent(n) ==
  /\ requests[n] = "published"
  /\ requests' = [requests EXCEPT ![n] = "logged"]
  /\ events' = Append(events, Packet("sent", n))
  /\ UNCHANGED <<link, up, down, broker, subscribed, shown, device_vars, incidents>>

ShowSent(n) ==
  /\ requests[n] = "logged" /\ shown[n] = "sending"
  /\ shown' = [shown EXCEPT ![n] = "sent"]
  /\ UNCHANGED <<link, up, down, broker, subscribed, requests, events, device_vars, incidents>>

(* The proxy waits for three seconds; the backend's thread goes on.        *)
ShowError(n) ==
  /\ shown[n] = "sending"
  /\ shown' = [shown EXCEPT ![n] = "error"]
  /\ UNCHANGED <<link, up, down, broker, subscribed, requests, events, device_vars, incidents>>

Serve(n) == PublishCommand(n) \/ LogSent(n) \/ ShowSent(n)

-----------------------------------------------------------------------------
(* Connections.                                                            *)

(* start_mqtt: if connect() raises, loop_start() is not reached.           *)
StartMqtt ==
  /\ link["backend"] = "off"
  /\ link' = [link EXCEPT !["backend"] = IF broker THEN "lost" ELSE "deaf"]
  /\ UNCHANGED <<up, down, broker, subscribed, page_vars, events, device_vars, incidents>>

Connect(c) ==
  /\ link[c] = "lost" /\ broker
  /\ link' = [link EXCEPT ![c] = "open"]
  /\ UNCHANGED <<up, down, broker, subscribed, page_vars, events, device_vars, incidents>>

(* Variations: the queue is not sent but cleared; the device only flushes, *)
(* as if its subscription outlived the connection.                         *)
OnConnectClearing(c) ==
  /\ link[c] = "open"
  /\ link' = [link EXCEPT ![c] = "ready"]
  /\ up' = [up EXCEPT ![c] = Append(@, Packet("subscribe", 0))]
  /\ queue' = IF c = "device" THEN <<>> ELSE queue
  /\ UNCHANGED <<down, broker, subscribed, page_vars, events, passed, reporting, executed,
                 reports, incidents>>
OnConnectFlushing(c) ==
  /\ link[c] = "open"
  /\ link' = [link EXCEPT ![c] = IF c = "device" /\ queue # <<>> THEN "flushing" ELSE "ready"]
  /\ up' = [up EXCEPT ![c] = IF c = "device" THEN @ ELSE Append(@, Packet("subscribe", 0))]
  /\ UNCHANGED <<down, broker, subscribed, page_vars, events, device_vars, incidents>>

(* on_connect subscribes; that of the device tests its queue.              *)
OnConnect(c) ==
  /\ link[c] = "open"
  /\ link' = [link EXCEPT ![c] = IF c = "device" /\ queue # <<>> THEN "flushing" ELSE "ready"]
  /\ up' = [up EXCEPT ![c] = Append(@, Packet("subscribe", 0))]
  /\ UNCHANGED <<down, broker, subscribed, page_vars, events, device_vars, incidents>>

(* The loop over the queue, to which another thread may append meanwhile,  *)
(* and which that thread may shorten under the loop's feet (StoreReport).  *)
FlushNext ==
  /\ link["device"] = "flushing" /\ queue # <<>>
  /\ up' = [up EXCEPT !["device"] = Append(@, Packet("event", Head(queue)))]
  /\ queue' = Tail(queue) /\ passed' = passed + 1
  /\ UNCHANGED <<link, down, broker, subscribed, page_vars, events, reporting, executed,
                 reports, incidents>>

FlushEnd ==
  /\ link["device"] = "flushing" /\ queue = <<>>
  /\ link' = [link EXCEPT !["device"] = "clearing"]
  /\ UNCHANGED <<up, down, broker, subscribed, page_vars, events, device_vars, incidents>>

(* clear() takes with it what was appended after the loop.                 *)
Clear ==
  /\ link["device"] = "clearing"
  /\ link' = [link EXCEPT !["device"] = "ready"]
  /\ queue' = <<>> /\ passed' = 0
  /\ UNCHANGED <<up, down, broker, subscribed, page_vars, events, reporting, executed,
                 reports, incidents>>

Flush == FlushNext \/ FlushEnd \/ Clear

(* Variation: the broker keeps the subscriptions.                          *)
DisconnectUnnoticed(cs) ==
  /\ link' = [c \in Clients |-> IF c \in cs /\ Connected(c) THEN "lost" ELSE link[c]]
  /\ up' = [c \in Clients |-> IF c \in cs THEN <<>> ELSE up[c]]
  /\ down' = [c \in Clients |-> IF c \in cs THEN <<>> ELSE down[c]]
  /\ incidents < MaxIncidents
  /\ incidents' = incidents + 1
  /\ UNCHANGED subscribed

(* What goes with the connections of cs: in the broker, _cleanup.          *)
Disconnect(cs) ==
  /\ link' = [c \in Clients |-> IF c \in cs /\ Connected(c) THEN "lost" ELSE link[c]]
  /\ up' = [c \in Clients |-> IF c \in cs THEN <<>> ELSE up[c]]
  /\ down' = [c \in Clients |-> IF c \in cs THEN <<>> ELSE down[c]]
  /\ subscribed' = subscribed \ cs
  /\ incidents < MaxIncidents
  /\ incidents' = incidents + 1

InCallback == link["device"] \in {"flushing", "clearing"}

LoseConnection(c) ==
  /\ Connected(c) /\ ~(c = "device" /\ InCallback)
  /\ Disconnect({c})
  /\ UNCHANGED <<broker, page_vars, events, device_vars>>

StopBroker ==
  /\ broker /\ broker' = FALSE
  /\ ~InCallback
  /\ Disconnect(Clients)
  /\ UNCHANGED <<page_vars, events, device_vars>>

StartBroker ==
  /\ ~broker /\ broker' = TRUE
  /\ UNCHANGED <<link, up, down, subscribed, page_vars, events, device_vars, incidents>>

(* The queue is in memory only.                                            *)
RestartDevice ==
  /\ Disconnect({"device"})
  /\ queue' = <<>> /\ passed' = 0 /\ reporting' = "no"
  /\ UNCHANGED <<broker, page_vars, events, executed, reports>>

-----------------------------------------------------------------------------
(* Packets.                                                                *)

Receiver == [command |-> "device", event |-> "backend"]

(* The broker takes a packet: the subscriber of the other client's topic   *)
(* gets it if its subscription is known just then.                         *)
Route(c) ==
  /\ up[c] # <<>>
  /\ up' = [up EXCEPT ![c] = Tail(@)]
  /\ LET p == Head(up[c]) IN
     \/ /\ p.kind = "subscribe"
        /\ subscribed' = subscribed \cup {c}
        /\ UNCHANGED down
     \/ /\ p.kind # "subscribe"
        /\ down' = IF Receiver[p.kind] \in subscribed
                   THEN [down EXCEPT ![Receiver[p.kind]] = Append(@, p)] ELSE down
        /\ UNCHANGED subscribed
  /\ UNCHANGED <<link, broker, page_vars, events, device_vars, incidents>>

(* publish_json() of a new event in a tick or an update, both of which hold*)
(* the lock of the device: the test of is_connected() ...                  *)
ReportOwn ==
  /\ reporting = "no"
  /\ Spent < MaxMessages
  /\ reports' = Append(reports, 0)
  /\ reporting' = IF Connected("device") THEN "publish" ELSE "store"
  /\ UNCHANGED <<link, up, down, broker, subscribed, page_vars, events, queue, passed,
                 executed, incidents>>

(* Variation: what is published is stored as well, to be on the safe side. *)
PublishAndStore ==
  /\ reporting = "publish" /\ reporting' = "no"
  /\ up' = [up EXCEPT !["device"] =
              IF Connected("device") THEN Append(@, Packet("event", Len(reports))) ELSE @]
  /\ queue' = IF Len(queue) < MaxQueue THEN Append(queue, Len(reports)) ELSE queue
  /\ UNCHANGED <<link, down, broker, subscribed, page_vars, events, passed, executed,
                 reports, incidents>>

(* ... then publish(), which may find no socket by now, ...                *)
PublishReport ==
  /\ reporting = "publish" /\ reporting' = "no"
  /\ up' = [up EXCEPT !["device"] =
              IF Connected("device") THEN Append(@, Packet("event", Len(reports))) ELSE @]
  /\ UNCHANGED <<link, down, broker, subscribed, page_vars, events, queue, passed,
                 executed, reports, incidents>>

(* ... or append(), whether or not on_connect has run meanwhile.  In a list*)
(* that is full, pop(0) moves all events up by a place, so that a loop that*)
(* has passed some of them skips the next.                                 *)
StoreReport ==
  /\ reporting = "store" /\ reporting' = "no"
  /\ queue' = LET longer == Append(queue, Len(reports))
              IN  IF passed + Len(queue) = MaxQueue THEN Tail(longer) ELSE longer
  /\ UNCHANGED <<link, up, down, broker, subscribed, page_vars, events, passed, executed,
                 reports, incidents>>

(* on_message of the device: handle_command(), which waits for the lock,   *)
(* and whose event is the answer.  This is the network thread, so that the *)
(* client is connected.                                                    *)
HandleCommand ==
  /\ link["device"] = "ready" /\ down["device"] # <<>>
  /\ reporting = "no"
  /\ LET n == Head(down["device"]).no
     IN  executed' = Append(executed, n) /\ reports' = Append(reports, n)
  /\ up' = [up EXCEPT !["device"] = Append(@, Packet("event", Len(reports) + 1))]
  /\ down' = [down EXCEPT !["device"] = Tail(@)]
  /\ UNCHANGED <<link, broker, subscribed, page_vars, events, queue, passed, reporting,
                 incidents>>

(* on_message of the backend.                                              *)
AddEvent ==
  /\ link["backend"] = "ready" /\ down["backend"] # <<>>
  /\ events' = Append(events, Head(down["backend"]))
  /\ down' = [down EXCEPT !["backend"] = Tail(@)]
  /\ UNCHANGED <<link, up, broker, subscribed, page_vars, device_vars, incidents>>

Network == \/ \E c \in Clients : Connect(c) \/ OnConnect(c) \/ Route(c)
           \/ Flush \/ HandleCommand \/ AddEvent

(* Bound: no message is left to send.                                      *)
AllDone ==
  /\ Spent = MaxMessages /\ reporting = "no"
  /\ \A n \in Pressed : requests[n] = "logged" /\ shown[n] # "sending"
  /\ broker /\ \A c \in Clients : link[c] \in {"ready", "deaf"} /\ up[c] = <<>> /\ down[c] = <<>>
  /\ UNCHANGED vars

Next ==
  \/ \E n \in Presses : Press(n) \/ Serve(n) \/ ShowError(n)
  \/ StartMqtt \/ StopBroker \/ StartBroker \/ RestartDevice
  \/ \E c \in Clients : LoseConnection(c)
  \/ ReportOwn \/ PublishReport \/ StoreReport
  \/ Network
  \/ AllDone

(* Request threads, network threads, the broker's threads and a call of    *)
(* publish_json() go on.  Nobody has to press a button, or to start the    *)
(* broker.                                                                 *)
Spec ==
  /\ Init /\ [][Next]_vars
  /\ \A n \in Presses : WF_vars(Serve(n))
  /\ \A c \in Clients : WF_vars(Connect(c)) /\ WF_vars(OnConnect(c)) /\ WF_vars(Route(c))
  /\ WF_vars(Flush) /\ WF_vars(PublishReport \/ StoreReport)
  /\ WF_vars(HandleCommand) /\ WF_vars(AddEvent)

-----------------------------------------------------------------------------
(* PROPERTIES                                                              *)

(* Every variable keeps its type; the broker serves only what is connected.*)
TypeOK ==
  /\ link \in [Clients -> Links] /\ broker \in BOOLEAN
  /\ subscribed \subseteq {c \in Clients : link[c] \in {"flushing", "clearing", "ready"}}
  /\ \A c \in Clients : ~Connected(c) => up[c] = <<>> /\ down[c] = <<>>
  /\ \A c \in Clients : Connected(c) => broker
  /\ requests \in [Presses -> {"none", "received", "published", "logged"}]
  /\ shown \in [Presses -> {"nothing", "sending", "sent", "error"}]
  /\ queue \in Seq(DOMAIN reports) /\ passed \in Nat /\ passed + Len(queue) <= MaxQueue
  /\ reporting \in {"no", "publish", "store"}
  /\ incidents \in 0..MaxIncidents

PendingCommands == UNION {{n \in Presses : requests[n] = "received"},
                          Of("command", up["backend"]), Of("command", down["device"])}
Reported == IF reporting = "no" THEN {} ELSE {Len(reports)}
PendingEvents == UNION {Reported, ToSet(queue),
                        Of("event", up["device"]), Of("event", down["backend"])}
Received == LET seen == Selected(events, [kind : {"event"}, no : Nat])
            IN  [i \in DOMAIN seen |-> seen[i].no]

(* Each press is executed at most once, and none comes back after it was   *)
(* lost, although connections are renewed under way.                       *)
C == INSTANCE Mailbox WITH published <- Cardinality(Pressed), pending <- PendingCommands,
                           delivered <- executed

(* Each event of the device gets into the store at most once, whether or   *)
(* not it had to wait in the device's queue.                               *)
E == INSTANCE Mailbox WITH published <- Len(reports), pending <- PendingEvents,
                           delivered <- Received

(* Both ways are mailboxes.                                                *)
AtMostOnce == C!Spec /\ E!Spec

(* A packet is lost in these ways only: with the connection it was on, or  *)
(* because the broker knew no subscriber for it.                           *)
Gone(kind, no, c) ==
  /\ no \in Of(kind, up[c]) \cup Of(kind, down[Receiver[kind]])
  /\ \/ link'[c] = "lost" \/ link'[Receiver[kind]] = "lost"
     \/ Head(up[c]) = Packet(kind, no) /\ Receiver[kind] \notin subscribed

(* A command that was pressed gets lost in these ways, or because the      *)
(* backend is not connected, whatever the page says of it.  An event is    *)
(* lost in these ways; because the device's queue is full, in which case   *)
(* the oldest goes that no flush has passed, or the new one if there is    *)
(* none; by clear(), if it was appended after the loop; because publish()  *)
(* finds no socket; or with the device's process.                          *)
LossExplained ==
  [][/\ \A n \in PendingCommands \ (PendingCommands' \cup ToSet(executed')) :
          ~Connected("backend") \/ Gone("command", n, "backend")
     /\ \A m \in PendingEvents \ (PendingEvents' \cup ToSet(Received')) :
          \/ Gone("event", m, "device")
          \/ /\ passed + Len(queue) = MaxQueue /\ reporting = "store" /\ reporting' = "no"
             /\ m = Head(Append(queue, Len(reports)))
          \/ link["device"] = "clearing" /\ link'["device"] = "ready" /\ m \in ToSet(queue)
          \/ ~Connected("device") /\ reporting = "publish" /\ m = Len(reports)
          \/ RestartDevice /\ m \in Reported \cup ToSet(queue)]_vars

(* An answer in the store is explained there: the line that says that the  *)
(* command was sent is there too, or its request thread is about to add it.*)
AnswersExplained ==
  \A m \in ToSet(Received) :
    LET n == reports[m] IN
    n # 0 => Packet("sent", n) \in ToSet(events) \/ requests[n] = "published"

(* Once the broker stays up and the incidents are over, everything finds   *)
(* together again without help: the subscriptions are renewed and the      *)
(* queue is emptied, but for one event at most, whose call was between its *)
(* test and its append() when on_connect ran: it waits for the next        *)
(* connection.  Only a backend that started without a broker stays deaf.   *)
Recovers ==
  <>[]broker => <>[](/\ link["device"] = "ready" /\ Len(queue) <= 1
                     /\ subscribed = {c \in Clients : link[c] = "ready"}
                     /\ link["backend"] \in {"off", "deaf", "ready"})
=============================================================================
