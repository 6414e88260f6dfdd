----------------------------- MODULE MqttClient -----------------------------
(***************************************************************************)
(* The device's MQTT client (device/mqtt_client.py): publish_json(), which *)
(* sends at once or stores in offline_queue, and the on_connect callback,  *)
(* which flushes the queue.                                                *)
(*                                                                         *)
(* publish_json() is called by the telemetry loop, the OTA threads and the *)
(* console, and by the MQTT network thread itself when a command arrives,  *)
(* always under Device.lock, so at most one call is under way.  on_connect *)
(* runs on the network thread WITHOUT that lock, so every step of the two  *)
(* that touches the queue is an action of its own.                         *)
(*                                                                         *)
(* Messages are numbered in the order they are published.  paho's part is  *)
(* external: its connection state, the packets it holds for the socket     *)
(* (cleared by a reconnect), and its QoS 0 publish().                      *)
(***************************************************************************)
EXTENDS Integers, SequencesExt

CONSTANTS
  MaxQueue,      \* 50 messages
  MaxMessages,   \* bound: messages published
  MaxLosses      \* bound: connections lost

ASSUME ClientAssumption ==
  MaxQueue \in Nat \ {0} /\ MaxMessages \in Nat /\ MaxLosses \in Nat

VARIABLES
  conn,        \* paho's connection state; is_connected() is conn = "connected"
  outgoing,    \* packets paho holds for the socket
  delivered,   \* messages the broker has received
  queue,       \* offline_queue
  step,        \* where the caller of publish_json is; "idle": nobody is in it
  message,     \* the message it publishes
  count,       \* messages published so far
  net,         \* where the network thread is
  cursor,      \* position of the flush loop's list iterator
  losses

pub_vars == <<step, message, count>>
vars == <<conn, outgoing, delivered, queue, pub_vars, net, cursor, losses>>

Init ==
  /\ conn \in {"lost", "connecting"}     \* connect() may fail at start-up
  /\ outgoing = <<>>
  /\ delivered = <<>>
  /\ queue = <<>>
  /\ step = "idle" /\ message = 0 /\ count = 0
  /\ net = "loop"
  /\ cursor = 1
  /\ losses = 0

-----------------------------------------------------------------------------
(* paho's publish() at QoS 0: without a socket it returns an error code,   *)
(* which no caller looks at.                                               *)
Publish(m) ==
  outgoing' = IF conn = "lost" THEN outgoing ELSE Append(outgoing, m)

(* Variation: paho counts as connected only when on_connect has returned.  *)
EnterAfterCallback ==
  /\ step = "idle"
  /\ count < MaxMessages
  /\ count' = count + 1
  /\ message' = count + 1
  /\ step' = IF conn = "connected" /\ net = "loop" THEN "send" ELSE "store"

(* publish_json: the test of is_connected() ...                            *)
Enter ==
  /\ step = "idle"
  /\ count < MaxMessages
  /\ count' = count + 1
  /\ message' = count + 1
  /\ step' = IF conn = "connected" THEN "send" ELSE "store"

(* ... on a thread of the device,                                          *)
EnterFromDevice ==
  /\ Enter
  /\ UNCHANGED <<conn, outgoing, delivered, queue, net, cursor, losses>>

(* or on the network thread, which then does nothing else meanwhile.       *)
EnterFromNetwork ==
  /\ net = "loop"
  /\ conn = "connected"
  /\ Enter
  /\ net' = "handler"
  /\ UNCHANGED <<conn, outgoing, delivered, queue, cursor, losses>>

Leave ==
  /\ step' = "idle"
  /\ net' = IF net = "handler" THEN "loop" ELSE net
  /\ UNCHANGED <<message, count>>

Send ==
  /\ step = "send"
  /\ Publish(message)
  /\ Leave
  /\ UNCHANGED <<conn, delivered, queue, cursor, losses>>

(* Variation: the newest message is put in front.                          *)
StoreInFront ==
  /\ step = "store"
  /\ queue' = <<message>> \o queue
  /\ step' = "trim"
  /\ UNCHANGED <<conn, outgoing, delivered, message, count, net, cursor, losses>>

Store ==
  /\ step = "store"
  /\ queue' = Append(queue, message)
  /\ step' = "trim"
  /\ UNCHANGED <<conn, outgoing, delivered, message, count, net, cursor, losses>>

KeepAll ==
  /\ step = "trim"
  /\ Len(queue) <= MaxQueue
  /\ Leave
  /\ UNCHANGED <<conn, outgoing, delivered, queue, cursor, losses>>

Overflows ==
  /\ step = "trim"
  /\ Len(queue) > MaxQueue
  /\ step' = "evict"
  /\ UNCHANGED <<conn, outgoing, delivered, queue, message, count, net, cursor, losses>>

(* Variation: pop() drops the newest message instead.                      *)
EvictNewest ==
  /\ step = "evict"
  /\ queue' = IF queue = <<>> THEN <<>> ELSE Front(queue)
  /\ Leave
  /\ UNCHANGED <<conn, outgoing, delivered, cursor, losses>>

(* Variation: the size test is not followed by a pop.                      *)
EvictNothing ==
  /\ step = "evict"
  /\ Leave
  /\ UNCHANGED <<conn, outgoing, delivered, queue, cursor, losses>>

(* pop(0); on a list that was cleared in between it raises.                *)
Evict ==
  /\ step = "evict"
  /\ queue' = IF queue = <<>> THEN <<>> ELSE Tail(queue)
  /\ Leave
  /\ UNCHANGED <<conn, outgoing, delivered, cursor, losses>>

-----------------------------------------------------------------------------
(* The network thread.                                                     *)

LoseConnection ==
  /\ net = "loop"
  /\ conn # "lost"
  /\ losses < MaxLosses
  /\ losses' = losses + 1
  /\ conn' = "lost"
  /\ UNCHANGED <<outgoing, delivered, queue, pub_vars, net, cursor>>

Reconnect ==
  /\ net = "loop"
  /\ conn = "lost"
  /\ conn' = "connecting"
  /\ outgoing' = <<>>
  /\ UNCHANGED <<delivered, queue, pub_vars, net, cursor, losses>>

(* The state is "connected" before the callback is called.                 *)
Connack ==
  /\ net = "loop"
  /\ conn = "connecting"
  /\ conn' = "connected"
  /\ net' = "on_connect"
  /\ UNCHANGED <<outgoing, delivered, queue, pub_vars, cursor, losses>>

(* Variation: the test of the queue is inverted.                           *)
OnConnectInverted ==
  /\ net = "on_connect"
  /\ net' = IF queue # <<>> THEN "loop" ELSE "flush"
  /\ cursor' = 1
  /\ UNCHANGED <<conn, outgoing, delivered, queue, pub_vars, losses>>

OnConnect ==
  /\ net = "on_connect"
  /\ net' = IF queue = <<>> THEN "loop" ELSE "flush"
  /\ cursor' = 1
  /\ UNCHANGED <<conn, outgoing, delivered, queue, pub_vars, losses>>

FlushNext ==
  /\ net = "flush"
  /\ cursor <= Len(queue)
  /\ Publish(queue[cursor])
  /\ cursor' = cursor + 1
  /\ UNCHANGED <<conn, delivered, queue, pub_vars, net, losses>>

FlushEnd ==
  /\ net = "flush"
  /\ cursor > Len(queue)
  /\ net' = "clear"
  /\ UNCHANGED <<conn, outgoing, delivered, queue, pub_vars, cursor, losses>>

(* Variation: the queue is not cleared.                                    *)
ClearNothing ==
  /\ net = "clear"
  /\ net' = "loop"
  /\ UNCHANGED <<conn, outgoing, delivered, queue, pub_vars, cursor, losses>>

Clear ==
  /\ net = "clear"
  /\ queue' = <<>>
  /\ net' = "loop"
  /\ UNCHANGED <<conn, outgoing, delivered, pub_vars, cursor, losses>>

Transmit ==
  /\ net = "loop"
  /\ conn # "lost"
  /\ outgoing # <<>>
  /\ delivered' = Append(delivered, Head(outgoing))
  /\ outgoing' = Tail(outgoing)
  /\ UNCHANGED <<conn, queue, pub_vars, net, cursor, losses>>

Publisher == Send \/ Store \/ KeepAll \/ Overflows \/ Evict
Network == Reconnect \/ Connack \/ OnConnect \/ FlushNext \/ FlushEnd \/ Clear \/ Transmit

(* Bound: every message was published and has left paho; nothing is left   *)
(* to do while the connection holds.                                       *)
AllSent ==
  /\ count = MaxMessages
  /\ step = "idle" /\ net = "loop"
  /\ conn = "connected" /\ outgoing = <<>>
  /\ UNCHANGED vars

Next ==
  \/ EnterFromDevice
  \/ EnterFromNetwork
  \/ Publisher
  \/ LoseConnection
  \/ Network
  \/ AllSent

(* A call of publish_json that has begun goes on; paho's thread, started   *)
(* by loop_start(), reconnects and writes for ever.                        *)
Spec == Init /\ [][Next]_vars /\ WF_vars(Publisher) /\ WF_vars(Network)

-----------------------------------------------------------------------------
(* PROPERTIES                                                              *)

(* Every variable keeps its type.                                          *)
TypeOK ==
  /\ conn \in {"lost", "connecting", "connected"}
  /\ {outgoing, delivered, queue} \subseteq Seq(1..MaxMessages)
  /\ step \in {"idle", "send", "store", "trim", "evict"}
  /\ message \in 0..MaxMessages /\ count \in 0..MaxMessages
  /\ net \in {"loop", "handler", "on_connect", "flush", "clear"}
  /\ cursor \in 1..(MaxQueue + 2)
  /\ losses \in 0..MaxLosses

(* Between calls the store holds at most MaxQueue messages, and it holds   *)
(* them in the order in which they were published.                         *)
StoreOrdered ==
  /\ \A i, j \in 1..Len(queue) : i < j => queue[i] < queue[j]
  /\ Len(queue) <= IF step \in {"trim", "evict"} THEN MaxQueue + 1 ELSE MaxQueue

(* What still exists of the messages that were published.                  *)
Held == UNION {ToSet(queue), ToSet(outgoing), ToSet(delivered),
               IF step \in {"send", "store"} THEN {message} ELSE {}}

(* A message disappears in one of four ways only: paho drops what it had   *)
(* not written when the connection broke; publish() finds no socket        *)
(* although is_connected() had said yes; the oldest message leaves a store *)
(* that is over its limit; or clear() removes it.                          *)
LossExplained ==
  [][\A m \in Held \ Held' :
       \/ conn = "lost" /\ m \in ToSet(outgoing)
       \/ conn = "lost" /\ step = "send" /\ m = message
       \/ step = "evict" /\ m = Head(queue) /\ Len(queue) > MaxQueue
       \/ net = "clear" /\ net' = "loop" /\ m \in ToSet(queue)]_vars

(* The unlocked race of one flush with publish_json() costs at most one    *)
(* message: all others that clear() removes have been handed to paho.      *)
FlushLosesAtMostOne ==
  [][net = "clear" /\ net' = "loop" =>
       Cardinality(ToSet(queue) \ (ToSet(outgoing) \cup ToSet(delivered))) <= 1]_vars

(* Not every message leaves the store when on_connect has run: a call that *)
(* was overtaken by it, between its test and its append, leaves its message*)
(* there until the next connection.  It is one message at most.            *)
AtMostOneLeftBehind ==
  (conn = "connected" /\ net \in {"loop", "handler"}) => Len(queue) <= 1

(* The store, in the middle of a call and after a flush.                   *)
StoreSound == StoreOrdered /\ AtMostOneLeftBehind

(* Stored messages do not outlive the next connection.                     *)
StoreEmptied == (queue # <<>> /\ conn = "lost") ~> queue = <<>>

(* The client is a mailbox: no message is delivered twice, none before it  *)
(* was published, and none comes back once it has been lost, although the  *)
(* flush keeps messages in the store while it sends them.                  *)
M == INSTANCE Mailbox WITH published <- count, pending <- Held \ ToSet(delivered)
ImplementsMailbox == M!Spec

=============================================================================
