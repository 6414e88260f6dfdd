------------------------------- MODULE Broker -------------------------------
(***************************************************************************)
(* The MQTT broker (broker.py): one thread per connection, which takes     *)
(* packets off its socket one after the other, a registry of subscribers   *)
(* under a lock, and distribute(), which sends outside the lock while      *)
(* other connections subscribe, publish and go away.                       *)
(*                                                                         *)
(* A topic or filter is the sequence of its levels.  The clients are       *)
(* external and use the broker as paho does: CONNECT comes first and once, *)
(* each SUBSCRIBE names one filter, and they publish with QoS 0.  What a   *)
(* client sends is chosen when the broker takes it off the socket, which   *)
(* may be after the connection broke.  The broker sets no timeout and      *)
(* ignores the keep-alive of CONNECT, so a peer may also fall silent: it   *)
(* or the network stops answering and nothing ends the connection.         *)
(***************************************************************************)
EXTENDS Integers, SequencesExt

CONSTANTS
  Sockets,       \* connections; a client that reconnects gets a new one
  Wants, Tells,  \* socket -> the filters, the topics its client uses
  Flaky,         \* bound: the sockets whose peer may fall silent
  MaxMessages    \* bound: messages published

ASSUME BrokerAssumption ==
  /\ DOMAIN Wants = Sockets /\ DOMAIN Tells = Sockets
  /\ \A s \in Sockets : \A name \in Wants[s] \cup Tells[s] : name \in Seq(STRING)
  /\ Flaky \subseteq Sockets
  /\ MaxMessages \in Nat

VARIABLES
  clients,       \* socket -> its filters; only sockets that sent CONNECT
  subscribers,   \* filter -> its sockets; only filters somebody holds
  handler,       \* where the thread of each socket is
  task,          \* the distribution it works on
  link,          \* "up", "silent", or "down" once either side has closed it
  received,      \* messages written to the socket, which a peer that is up reads
  published      \* messages published so far

registry == <<clients, subscribers>>
vars == <<registry, handler, task, link, received, published>>

NoTask == [no |-> 0, topic |-> <<>>, filters |-> {}, socks |-> {}, audience |-> {}]

Init ==
  /\ clients = <<>>
  /\ subscribers = <<>>
  /\ handler = [s \in Sockets |-> "none"]
  /\ task = [s \in Sockets |-> NoTask]
  /\ link = [s \in Sockets |-> "up"]
  /\ received = [s \in Sockets |-> <<>>]
  /\ published = 0

-----------------------------------------------------------------------------
(* topic_matches                                                           *)
TopicMatches(pattern, topic) ==
  \E n \in 0..Len(pattern) :
    /\ \A i \in 1..n : /\ i <= Len(topic)
                       /\ pattern[i] # "#"
                       /\ pattern[i] \in {"+", topic[i]}
    /\ IF n = Len(pattern) THEN Len(topic) = n ELSE pattern[n + 1] = "#"

Put(function, key, value) ==
  [k \in DOMAIN function \cup {key} |-> IF k = key THEN value ELSE function[k]]

(* sendall() of an acknowledgement: on a connection that has gone it may   *)
(* raise, which ends the thread's loop.                                    *)
Acknowledge(s) ==
  handler' \in {[handler EXCEPT ![s] = next] :
                  next \in IF link[s] = "down" THEN {"recv", "cleanup"} ELSE {"recv"}}

Accept(s) ==
  /\ handler[s] = "none"
  /\ handler' = [handler EXCEPT ![s] = "recv"]
  /\ UNCHANGED <<registry, task, link, received, published>>

Connect(s) ==
  /\ handler[s] = "recv"
  /\ s \notin DOMAIN clients
  /\ clients' = Put(clients, s, {})
  /\ Acknowledge(s)
  /\ UNCHANGED <<subscribers, task, link, received, published>>

Subscribe(s) ==
  /\ handler[s] = "recv"
  /\ s \in DOMAIN clients
  /\ \E f \in Wants[s] :
       /\ subscribers' = Put(subscribers, f,
                             {s} \cup IF f \in DOMAIN subscribers THEN subscribers[f] ELSE {})
       /\ clients' = [clients EXCEPT ![s] = @ \cup {f}]
  /\ Acknowledge(s)
  /\ UNCHANGED <<task, link, received, published>>

(* Who is subscribed, by which filter: history, kept with the task.        *)
Audience(topic) ==
  UNION {{<<o, f>> : o \in subscribers[f]} : f \in {g \in DOMAIN subscribers : TopicMatches(g, topic)}}

(* A PUBLISH arrives and distribute() takes its snapshot of the registry.  *)
Publish(s) ==
  /\ handler[s] = "recv"
  /\ s \in DOMAIN clients
  /\ published < MaxMessages
  /\ published' = published + 1
  /\ \E topic \in Tells[s] :
       task' = [task EXCEPT ![s] = [no |-> published + 1, topic |-> topic,
                                    filters |-> DOMAIN subscribers, socks |-> {},
                                    audience |-> Audience(topic)]]
  /\ handler' = [handler EXCEPT ![s] = "distribute"]
  /\ UNCHANGED <<registry, link, received>>

Pending(s) == handler[s] = "distribute" /\ task[s].socks # {}

(* Variation: the message is sent back to its sender.                      *)
NextFilterEchoing(s) ==
  /\ handler[s] = "distribute" /\ task[s].socks = {}
  /\ \E f \in task[s].filters :
       task' = [task EXCEPT
                  ![s].filters = @ \ {f},
                  ![s].socks = IF TopicMatches(f, task[s].topic) THEN subscribers[f] ELSE {}]
  /\ UNCHANGED <<registry, handler, link, received, published>>

(* The next filter of the snapshot; its sockets are read under the lock.   *)
NextFilter(s) ==
  /\ handler[s] = "distribute" /\ task[s].socks = {}
  /\ \E f \in task[s].filters :
       task' = [task EXCEPT
                  ![s].filters = @ \ {f},
                  ![s].socks = IF TopicMatches(f, task[s].topic) THEN subscribers[f] \ {s} ELSE {}]
  /\ UNCHANGED <<registry, handler, link, received, published>>

Arrives(s, o) ==
  received' = IF link[o] = "down" THEN received
              ELSE [received EXCEPT ![o] = Append(@, [from |-> s, no |-> task[s].no])]

(* Variation: a socket that cannot be written to ends the distribution.    *)
SendOrGiveUp(s) ==
  /\ Pending(s)
  /\ \E o \in task[s].socks :
       /\ Arrives(s, o)
       /\ task' = [task EXCEPT ![s].socks = IF link[o] = "down" THEN {} ELSE @ \ {o},
                               ![s].filters = IF link[o] = "down" THEN {} ELSE @]
  /\ UNCHANGED <<registry, handler, link, published>>

(* sendall() on a connection that has gone raises, and the exception is    *)
(* swallowed; to a silent peer it fills the buffers of the connection and, *)
(* once they are full, does not return.                                    *)
Send(s) ==
  /\ Pending(s)
  /\ \E o \in task[s].socks :
       /\ Arrives(s, o)
       /\ task' = [task EXCEPT ![s].socks = @ \ {o}]
  /\ UNCHANGED <<registry, handler, link, published>>

Distributed(s) ==
  /\ handler[s] = "distribute"
  /\ task[s].filters = {} /\ task[s].socks = {}
  /\ handler' = [handler EXCEPT ![s] = "recv"]
  /\ task' = [task EXCEPT ![s] = NoTask]
  /\ UNCHANGED <<registry, link, received, published>>

(* DISCONNECT arrives.                                                     *)
Disconnect(s) ==
  /\ handler[s] = "recv" /\ link[s] = "up"
  /\ handler' = [handler EXCEPT ![s] = "cleanup"]
  /\ UNCHANGED <<registry, task, link, received, published>>

(* Variation: an empty read is taken for one without data yet.             *)
StreamNeverEnds(s) == FALSE

(* recv() finds the end of the stream, or the error that ended it.         *)
EndOfStream(s) ==
  /\ handler[s] = "recv" /\ link[s] = "down"
  /\ handler' = [handler EXCEPT ![s] = "cleanup"]
  /\ UNCHANGED <<registry, task, link, received, published>>

Without(s) == [f \in {g \in DOMAIN subscribers : subscribers[g] # {s}} |-> subscribers[f] \ {s}]

(* A filter that loses its last socket is deleted.  A snapshot still holds *)
(* its set, which stays empty: whoever subscribes next gets a new one.     *)
Forget(filters) ==
  task' = [o \in Sockets |-> [task[o] EXCEPT !.filters = @ \cap filters]]

(* Variations: the filters, or the client itself, are not removed.         *)
CleanupKeepingFilters(s) ==
  /\ handler[s] = "cleanup"
  /\ clients' = [o \in DOMAIN clients \ {s} |-> clients[o]]
  /\ handler' = [handler EXCEPT ![s] = "done"]
  /\ link' = [link EXCEPT ![s] = "down"]
  /\ UNCHANGED <<subscribers, task, received, published>>
CleanupKeepingClient(s) ==
  /\ handler[s] = "cleanup"
  /\ subscribers' = Without(s)
  /\ Forget(DOMAIN subscribers')
  /\ handler' = [handler EXCEPT ![s] = "done"]
  /\ link' = [link EXCEPT ![s] = "down"]
  /\ UNCHANGED <<clients, received, published>>

(* _cleanup                                                                *)
Cleanup(s) ==
  /\ handler[s] = "cleanup"
  /\ clients' = [o \in DOMAIN clients \ {s} |-> clients[o]]
  /\ subscribers' = Without(s)
  /\ Forget(DOMAIN subscribers')
  /\ handler' = [handler EXCEPT ![s] = "done"]
  /\ link' = [link EXCEPT ![s] = "down"]
  /\ UNCHANGED <<received, published>>

(* The connection ends, and the broker's host is told.                     *)
Break(s) ==
  /\ handler[s] \notin {"none", "done"}
  /\ link[s] # "down"
  /\ link' = [link EXCEPT ![s] = "down"]
  /\ UNCHANGED <<registry, handler, task, received, published>>

(* The peer or the network stops answering, for a while or for good.       *)
FallSilent(s) ==
  /\ s \in Flaky
  /\ handler[s] \notin {"none", "done"}
  /\ link[s] = "up"
  /\ link' = [link EXCEPT ![s] = "silent"]
  /\ UNCHANGED <<registry, handler, task, received, published>>

ComeBack(s) ==
  /\ link[s] = "silent"
  /\ link' = [link EXCEPT ![s] = "up"]
  /\ UNCHANGED <<registry, handler, task, received, published>>

(* Bound: every socket has been used.                                      *)
AllDone ==
  /\ \A s \in Sockets : handler[s] = "done"
  /\ UNCHANGED vars

(* The thread of s may be in a sendall() that does not return.             *)
Blocked(s) == \E o \in task[s].socks : link[o] = "silent"

(* What the thread of s does by itself: all but waiting in recv() or       *)
(* sendall() for a peer.                                                   *)
Work(s) ==
  \/ NextFilter(s)
  \/ ~Blocked(s) /\ Send(s)
  \/ Distributed(s)
  \/ EndOfStream(s)
  \/ Cleanup(s)

Next ==
  \/ \E s \in Sockets :
       \/ Accept(s) \/ Connect(s) \/ Subscribe(s) \/ Publish(s) \/ Disconnect(s)
       \/ NextFilter(s) \/ Send(s) \/ Distributed(s) \/ EndOfStream(s) \/ Cleanup(s)
       \/ Break(s) \/ FallSilent(s) \/ ComeBack(s)
  \/ AllDone

(* Every thread goes on.  No client has to do anything, no connection to   *)
(* break, and no silent peer to come back or to be found out.              *)
Fairness == \A s \in Sockets : WF_vars(Work(s))

Spec == Init /\ [][Next]_vars /\ Fairness

-----------------------------------------------------------------------------
(* PROPERTIES                                                              *)

(* Every variable keeps its type; only live connections are registered.    *)
TypeOK ==
  /\ DOMAIN clients \subseteq {s \in Sockets : handler[s] \in {"recv", "distribute", "cleanup"}}
  /\ \A s \in DOMAIN clients : clients[s] \subseteq Wants[s]
  /\ DOMAIN subscribers \subseteq UNION Range(Wants)
  /\ \A s \in Sockets :
       /\ handler[s] \in {"none", "recv", "distribute", "cleanup", "done"}
       /\ task[s].no \in 0..published
       /\ task[s].filters \subseteq DOMAIN subscribers
       /\ task[s].socks \subseteq Sockets
       /\ link[s] \in {"up", "silent", "down"}
  /\ published \in 0..MaxMessages

(* The two indexes of the registry say the same, and no filter is left     *)
(* without a subscriber: nothing outlives its connection.                  *)
RegistryAgrees ==
  /\ \A f \in DOMAIN subscribers :
       subscribers[f] = {s \in DOMAIN clients : f \in clients[s]} /\ subscribers[f] # {}
  /\ \A s \in DOMAIN clients : clients[s] \subseteq DOMAIN subscribers

Times(no, o) == Cardinality({i \in DOMAIN received[o] : received[o][i].no = no})
Holds(o, topic) ==
  IF o \in DOMAIN clients THEN Cardinality({f \in clients[o] : TopicMatches(f, topic)}) ELSE 0

(* Whatever happens to the registry during a distribution: a connection    *)
(* that lasts gets the message once for each matching filter it held when  *)
(* the distribution began, and no more often than for each it holds now.   *)
AudienceServed ==
  [][\A s \in Sockets : \A o \in Sockets \ {s} :
       Distributed(s) /\ link[o] # "down" =>
         /\ Cardinality({f \in Wants[o] : <<o, f>> \in task[s].audience}) <= Times(task[s].no, o)
         /\ Times(task[s].no, o) <= Holds(o, task[s].topic)]_vars

(* The messages of one publisher arrive at each subscriber in the order in *)
(* which it published them, and none comes back to it.                     *)
PublisherOrder ==
  \A o \in Sockets : \A i, j \in DOMAIN received[o] :
    /\ received[o][i].from # o
    /\ (i < j /\ received[o][i].from = received[o][j].from)
         => received[o][i].no <= received[o][j].no

(* A connection whose end the broker is told of leaves the registry, even  *)
(* if its thread is in the middle of a distribution; unless that thread    *)
(* is blocked, and as long as it is, by a peer that has fallen silent.     *)
(* (One that is lost in silence stays registered: nobody asks.)            *)
GoneIsForgotten ==
  \A s \in Sockets : link[s] = "down" ~> s \notin DOMAIN clients \/ Blocked(s)
=============================================================================
