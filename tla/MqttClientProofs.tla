-------------------------- MODULE MqttClientProofs --------------------------
(***************************************************************************)
(* Proofs about the device's MQTT client for every size of the store and   *)
(* any number of messages and lost connections.  They rest on one          *)
(* inductive invariant, IndInv: it says where a message can be while       *)
(* publish_json() and the flush are under way at the same time.            *)
(***************************************************************************)
EXTENDS MqttClient, SequenceLemmas

-----------------------------------------------------------------------------
(* THE INDUCTIVE INVARIANT                                                 *)

(* What paho holds or the broker has.                                      *)
Sent == ToSet(outgoing) \cup ToSet(delivered)

(* The connection stays up while the network thread is in a callback.      *)
NetOK ==
  /\ net # "loop" => conn = "connected"
  /\ net = "handler" => step = "send"

(* Nothing exists that was not published, and the message of a call that   *)
(* has not sent or stored it is nowhere else.                              *)
Numbered ==
  /\ message = count
  /\ step # "idle" => count > 0
  /\ \A m \in ToSet(queue) \cup Sent : m <= count
  /\ step \in {"send", "store"} => message \notin ToSet(queue) \cup Sent

(* An overflowing store is trimmed, unless it was cleared in between.      *)
StoreBound ==
  /\ StoreOrdered
  /\ step = "evict" => queue = <<>> \/ Len(queue) = MaxQueue + 1

(* A call that was overtaken by on_connect finds the store empty.          *)
LeftBehind ==
  conn = "connected" /\ net \in {"loop", "handler"} =>
    /\ Len(queue) <= 1
    /\ step = "store" => queue = <<>>

(* paho holds no message twice, and none that has been delivered.          *)
SentOnce ==
  /\ \A i, j \in 1..Len(outgoing) : outgoing[i] = outgoing[j] => i = j
  /\ ToSet(outgoing) \cap ToSet(delivered) = {}

(* What the flush has not reached has not been sent.                       *)
FlushAhead ==
  /\ net \in {"loop", "handler", "on_connect"} => ToSet(queue) \cap Sent = {}
  /\ net = "flush" => \A i \in cursor..Len(queue) : queue[i] \notin Sent

(* What the flush has passed has been sent, but for one message: the one   *)
(* that moved under the iterator when the oldest was evicted, or, once the *)
(* iterator is exhausted, the one that was appended.                       *)
FlushBehind ==
  /\ net = "flush" /\ step \in {"store", "trim", "evict"} => cursor <= Len(queue) + 1
  /\ net = "flush" => \A i, j \in 1..Len(queue) :
       (i < cursor /\ j < cursor /\ queue[i] \notin Sent /\ queue[j] \notin Sent) =>
         step \in {"idle", "send"} /\ i = j
  /\ net = "clear" => \A i, j \in 1..Len(queue) :
       (queue[i] \notin Sent /\ queue[j] \notin Sent) =>
         /\ i = j /\ step # "store"
         /\ step \in {"trim", "evict"} => queue[i] = message

IndInv ==
  /\ TypeOK /\ NetOK /\ Numbered /\ StoreBound /\ LeftBehind
  /\ SentOnce /\ FlushAhead /\ FlushBehind

-----------------------------------------------------------------------------
(* STEPS AND TYPES                                                         *)

(* The actions of Next, one by one.                                        *)
LEMMA Steps ==
  [Next]_vars =>
    \/ EnterFromDevice \/ EnterFromNetwork \/ Send \/ Store \/ KeepAll \/ Overflows \/ Evict
    \/ LoseConnection \/ Reconnect \/ Connack \/ OnConnect \/ FlushNext \/ FlushEnd
    \/ Clear \/ Transmit \/ UNCHANGED vars
BY DEF Next, Publisher, Network, AllSent

Message == 1..MaxMessages

(* What the invariant says of sequences and positions.                     *)
LEMMA TypeFacts ==
  ASSUME IndInv
  PROVE  /\ outgoing \in Seq(Message) /\ delivered \in Seq(Message)
         /\ queue \in Seq(Message)
         /\ step # "idle" => message \in Message
         /\ Len(queue) <= MaxQueue + 1 /\ Len(queue) \in Nat /\ cursor \in Nat \ {0}
         /\ \A i \in 1..Len(queue) : queue[i] \in Message
<1>1. outgoing \in Seq(Message) /\ delivered \in Seq(Message) /\ queue \in Seq(Message)
  BY DEF IndInv, TypeOK, Message
<1>2. Len(queue) \in Nat /\ \A i \in 1..Len(queue) : queue[i] \in Message
  BY <1>1, ElementOfSeq, LenProperties
<1> QED
  BY <1>1, <1>2, ClientAssumption
     DEF IndInv, TypeOK, Numbered, StoreBound, StoreOrdered, Message

(* Messages stay numbers up to the bound; the iterator cannot run away,    *)
(* because the store is bounded.                                           *)
LEMMA TypeStep == IndInv /\ [Next]_vars => TypeOK'
<1> SUFFICES ASSUME IndInv, [Next]_vars PROVE TypeOK'
  OBVIOUS
<1> USE ClientAssumption, TypeFacts
<1>2. outgoing' \in Seq(Message)
  <2>1. CASE Send \/ FlushNext
    <3>1. \A m \in Message : Append(outgoing, m) \in Seq(Message)
      BY AppendProperties
    <3>2. CASE Send
      BY <3>1, <3>2 DEF Send, Publish
    <3>3. CASE FlushNext
      BY <3>1, <3>3 DEF FlushNext, Publish
    <3> QED
      BY <2>1, <3>2, <3>3
  <2>2. CASE Reconnect
    BY <2>2, EmptySeq DEF Reconnect
  <2>3. CASE Transmit
    BY <2>3, HeadTailProperties DEF Transmit
  <2>4. CASE UNCHANGED outgoing
    BY <2>4
  <2> QED
    BY <2>1, <2>2, <2>3, <2>4, Steps
       DEF EnterFromDevice, EnterFromNetwork, Store, KeepAll,
           Overflows, Evict, LoseConnection, Connack, OnConnect, FlushEnd, Clear, vars
<1>3. queue' \in Seq(Message)
  <2>1. CASE Store
    BY <2>1, AppendProperties DEF Store
  <2>2. CASE Evict \/ Clear
    BY <2>2, EmptySeq, HeadTailProperties DEF Evict, Clear
  <2>3. CASE UNCHANGED queue
    BY <2>3
  <2> QED
    BY <2>1, <2>2, <2>3, Steps
       DEF EnterFromDevice, EnterFromNetwork, Send, KeepAll, Overflows, LoseConnection,
           Reconnect, Connack, OnConnect, FlushNext, FlushEnd, Transmit, vars
<1>4. delivered' \in Seq(Message)
  <2>1. CASE Transmit
    BY <2>1, AppendProperties, HeadTailProperties DEF Transmit
  <2>2. CASE UNCHANGED delivered
    BY <2>2
  <2> QED
    BY <2>1, <2>2, Steps
       DEF EnterFromDevice, EnterFromNetwork, Send, Store, KeepAll, Overflows, Evict,
           LoseConnection, Reconnect, Connack, OnConnect, FlushNext, FlushEnd, Clear, vars
<1>5. conn' \in {"lost", "connecting", "connected"} /\ losses' \in 0..MaxLosses
  BY Steps DEF EnterFromDevice, EnterFromNetwork, Send, Store, KeepAll, Overflows, Evict,
       LoseConnection, Reconnect, Connack, OnConnect, FlushNext, FlushEnd, Clear, Transmit,
       vars, IndInv, TypeOK
<1>6. /\ step' \in {"idle", "send", "store", "trim", "evict"}
      /\ message' \in 0..MaxMessages /\ count' \in 0..MaxMessages
  BY Steps DEF EnterFromDevice, EnterFromNetwork, Enter, Leave, Send, Store, KeepAll,
       Overflows, Evict, LoseConnection, Reconnect, Connack, OnConnect, FlushNext, FlushEnd,
       Clear, Transmit, vars, pub_vars, IndInv, TypeOK
<1>7. /\ net' \in {"loop", "handler", "on_connect", "flush", "clear"}
      /\ cursor' \in 1..(MaxQueue + 2)
  BY Steps DEF EnterFromDevice, EnterFromNetwork, Leave, Send, Store, KeepAll,
       Overflows, Evict, LoseConnection, Reconnect, Connack, OnConnect, FlushNext, FlushEnd,
       Clear, Transmit, vars, pub_vars, IndInv, TypeOK
<1> QED
  BY <1>2, <1>3, <1>4, <1>5, <1>6, <1>7 DEF TypeOK, Message

-----------------------------------------------------------------------------
(* WHAT THE STEPS DO TO THE STORE AND TO WHAT WAS SENT                     *)

(* publish_json() and the flush add one message to what was sent, and only *)
(* a reconnect takes from it.                                              *)
LEMMA SentSteps ==
  ASSUME IndInv, [Next]_vars
  PROVE  /\ Send => \/ Sent' = Sent \cup {message}
                    \/ conn = "lost" /\ Sent' = Sent
         /\ FlushNext => Sent' = Sent \cup {queue[cursor]}
         /\ Transmit => Sent' = Sent
         /\ Reconnect => Sent' \subseteq Sent
         /\ UNCHANGED <<outgoing, delivered>> => Sent' = Sent
<1> USE TypeFacts
<1>1. ASSUME Send PROVE Sent' = Sent \cup {message} \/ (conn = "lost" /\ Sent' = Sent)
  BY <1>1, AppendSet DEF Send, Publish, Sent
<1>2. ASSUME FlushNext PROVE Sent' = Sent \cup {queue[cursor]}
  <2>1. queue[cursor] \in Message /\ conn = "connected"
    BY <1>2 DEF FlushNext, IndInv, NetOK
  <2> QED
    BY <1>2, <2>1, AppendSet DEF FlushNext, Publish, Sent
<1>3. ASSUME Transmit PROVE Sent' = Sent
  <2>1. Head(outgoing) \in Message
    BY <1>3, HeadTailProperties DEF Transmit
  <2>2. ToSet(delivered') = ToSet(delivered) \cup {Head(outgoing)}
    BY <1>3, <2>1, AppendSet DEF Transmit
  <2>3. ToSet(outgoing) = {Head(outgoing)} \cup ToSet(outgoing')
    BY <1>3, TailSet DEF Transmit
  <2> QED
    BY <2>2, <2>3 DEF Sent
<1>4. ASSUME Reconnect PROVE Sent' \subseteq Sent
  BY <1>4 DEF Reconnect, Sent, ToSet
<1>5. UNCHANGED <<outgoing, delivered>> => Sent' = Sent
  BY DEF Sent
<1> QED
  BY <1>1, <1>2, <1>3, <1>4, <1>5

(* The store grows by the message at its end, shrinks by its oldest, or is *)
(* cleared.                                                                *)
LEMMA QueueSteps ==
  ASSUME IndInv, [Next]_vars
  PROVE  /\ Store => /\ Len(queue') = Len(queue) + 1
                     /\ \A i \in 1..Len(queue) : queue'[i] = queue[i]
                     /\ queue'[Len(queue) + 1] = message
                     /\ ToSet(queue') = ToSet(queue) \cup {message}
         /\ Evict => \/ queue = <<>> /\ queue' = <<>>
                     \/ /\ Len(queue) = MaxQueue + 1 /\ Len(queue') = MaxQueue
                        /\ \A i \in 1..Len(queue') : queue'[i] = queue[i + 1]
                        /\ ToSet(queue) = {Head(queue)} \cup ToSet(queue')
         /\ Clear => queue' = <<>> /\ Len(queue') = 0 /\ ToSet(queue') = {}
<1> USE TypeFacts, ClientAssumption
<1>1. ASSUME Store PROVE /\ Len(queue') = Len(queue) + 1
                         /\ \A i \in 1..Len(queue) : queue'[i] = queue[i]
                         /\ queue'[Len(queue) + 1] = message
                         /\ ToSet(queue') = ToSet(queue) \cup {message}
  BY <1>1, AppendProperties, AppendSet DEF Store
<1>2. ASSUME Evict
      PROVE  \/ queue = <<>> /\ queue' = <<>>
             \/ /\ Len(queue) = MaxQueue + 1 /\ Len(queue') = MaxQueue
                /\ \A i \in 1..Len(queue') : queue'[i] = queue[i + 1]
                /\ ToSet(queue) = {Head(queue)} \cup ToSet(queue')
  <2>1. CASE queue = <<>>
    BY <1>2, <2>1 DEF Evict
  <2>2. CASE queue # <<>>
    <3>1. queue' = Tail(queue) /\ Len(queue) = MaxQueue + 1
      BY <1>2, <2>2 DEF Evict, IndInv, StoreBound
    <3> QED
      BY <2>2, <3>1, HeadTailProperties, TailSet
  <2> QED
    BY <2>1, <2>2
<1>3. ASSUME Clear PROVE queue' = <<>> /\ Len(queue') = 0 /\ ToSet(queue') = {}
  BY <1>3 DEF Clear, ToSet
<1> QED
  BY <1>1, <1>2, <1>3

-----------------------------------------------------------------------------
(* THE PARTS OF THE INVARIANT, ONE AFTER THE OTHER                         *)

(* The network thread loses no connection while it runs a callback.        *)
LEMMA NetStep == IndInv /\ [Next]_vars => NetOK'
<1> SUFFICES ASSUME IndInv, [Next]_vars PROVE NetOK'
  OBVIOUS
<1>1. NetOK
  BY DEF IndInv
<1> QED
  BY <1>1, Steps
     DEF NetOK, EnterFromDevice, EnterFromNetwork, Enter, Leave, Send, Store, KeepAll,
         Overflows, Evict, LoseConnection, Reconnect, Connack, OnConnect, FlushNext,
         FlushEnd, Clear, Transmit, vars, pub_vars

(* A call takes the next number, and only it hands that message on.        *)
LEMMA NumberedStep == IndInv /\ [Next]_vars => Numbered'
<1> SUFFICES ASSUME IndInv, [Next]_vars PROVE Numbered'
  OBVIOUS
<1> USE TypeFacts
<1>1. Numbered /\ count \in Nat
  BY DEF IndInv, TypeOK
<1>2. CASE EnterFromDevice \/ EnterFromNetwork
  <2>1. Enter /\ UNCHANGED <<queue, outgoing, delivered>>
    BY <1>2 DEF EnterFromDevice, EnterFromNetwork
  <2>2. ToSet(queue') = ToSet(queue) /\ Sent' = Sent
    BY <2>1 DEF Sent
  <2>3. \A m \in ToSet(queue) \cup Sent : m <= count /\ m \in Message
    BY <1>1 DEF Numbered, Sent, ToSet
  <2> QED
    BY <1>1, <2>1, <2>2, <2>3 DEF Numbered, Enter, Message
<1>3. CASE Send
  BY <1>1, <1>3, SentSteps DEF Numbered, Send, Leave
<1>4. CASE Store
  BY <1>1, <1>4, QueueSteps, SentSteps DEF Numbered, Store
<1>5. CASE Evict
  BY <1>1, <1>5, QueueSteps, SentSteps DEF Numbered, Evict, Leave
<1>6. CASE FlushNext
  <2>1. queue[cursor] \in ToSet(queue)
    BY <1>6 DEF FlushNext, ToSet
  <2> QED
    BY <1>1, <1>6, <2>1, SentSteps DEF Numbered, FlushNext, pub_vars
<1>7. CASE Clear
  BY <1>1, <1>7, SentSteps, QueueSteps DEF Numbered, Clear, pub_vars
<1>8. CASE Reconnect \/ Transmit
  BY <1>1, <1>8, SentSteps, QueueSteps DEF Numbered, Reconnect, Transmit, pub_vars
<1>9. CASE \/ KeepAll \/ Overflows \/ LoseConnection \/ Connack \/ OnConnect \/ FlushEnd
           \/ UNCHANGED vars
  <2>1. UNCHANGED <<queue, outgoing, delivered>>
    BY <1>9 DEF KeepAll, Overflows, LoseConnection, Connack, OnConnect, FlushEnd, vars
  <2>2. ToSet(queue') = ToSet(queue) /\ Sent' = Sent
    BY <2>1 DEF Sent
  <2> QED
    BY <1>1, <1>9, <2>2 DEF Numbered, KeepAll, Overflows, Leave, LoseConnection, Connack,
         OnConnect, FlushEnd, vars, pub_vars
<1> QED
  BY Steps, <1>2, <1>3, <1>4, <1>5, <1>6, <1>7, <1>8, <1>9

(* Append keeps the order since the message is the newest; an overflow is  *)
(* trimmed before the next call appends.                                   *)
LEMMA StoreBoundStep == IndInv /\ [Next]_vars => StoreBound'
<1> SUFFICES ASSUME IndInv, [Next]_vars PROVE StoreBound'
  OBVIOUS
<1> USE TypeFacts, ClientAssumption
<1>1. StoreBound /\ StoreOrdered
  BY DEF IndInv, StoreBound
<1>2. CASE Store
  <2>1. \A i \in 1..Len(queue) : queue[i] < message
    <3>1. message \in Nat /\ \A m \in ToSet(queue) : m <= message /\ m # message /\ m \in Nat
      BY <1>2 DEF IndInv, Numbered, Store, ToSet, Message
    <3>2. \A i \in 1..Len(queue) : queue[i] \in ToSet(queue)
      BY DEF ToSet
    <3> QED
      BY <3>1, <3>2
  <2>2. step' = "trim"
    BY <1>2 DEF Store
  <2>3. Len(queue') <= MaxQueue + 1
    BY <1>1, <1>2, QueueSteps DEF StoreOrdered, Store
  <2>4. \A i, j \in 1..Len(queue') : i < j => queue'[i] < queue'[j]
    <3>1. /\ Len(queue') = Len(queue) + 1 /\ Len(queue) \in Nat
          /\ \A i \in 1..Len(queue) : queue'[i] = queue[i]
          /\ queue'[Len(queue) + 1] = message
      BY <1>2, QueueSteps
    <3>2. \A i \in 1..Len(queue') : i \in 1..Len(queue) \/ i = Len(queue) + 1
      BY <3>1
    <3> QED
      BY <1>1, <2>1, <3>1, <3>2 DEF StoreOrdered
  <2> QED
    BY <2>2, <2>3, <2>4 DEF StoreBound, StoreOrdered
<1>3. CASE Evict
  <2>1. step' = "idle"
    BY <1>3 DEF Evict, Leave
  <2>2. Len(queue') <= MaxQueue
    BY <1>3, QueueSteps
  <2>3. \A i, j \in 1..Len(queue') : i < j => queue'[i] < queue'[j]
    BY <1>1, <1>3, QueueSteps DEF StoreOrdered
  <2> QED
    BY <2>1, <2>2, <2>3 DEF StoreBound, StoreOrdered
<1>4. CASE Clear
  BY <1>4, QueueSteps DEF StoreBound, StoreOrdered
<1>5. CASE \/ EnterFromDevice \/ EnterFromNetwork \/ Send \/ KeepAll \/ Overflows
           \/ LoseConnection \/ Reconnect \/ Connack \/ OnConnect \/ FlushNext \/ FlushEnd
           \/ Transmit \/ UNCHANGED vars
  BY <1>1, <1>5
     DEF StoreBound, StoreOrdered, EnterFromDevice, EnterFromNetwork, Enter, Leave, Send,
         KeepAll, Overflows, LoseConnection, Reconnect, Connack, OnConnect, FlushNext,
         FlushEnd, Transmit, vars, pub_vars
<1> QED
  BY Steps, <1>2, <1>3, <1>4, <1>5

(* While connected no call begins to store, so that only the one that was  *)
(* overtaken can.                                                          *)
LEMMA LeftBehindStep == IndInv /\ [Next]_vars => LeftBehind'
<1> SUFFICES ASSUME IndInv, [Next]_vars PROVE LeftBehind'
  OBVIOUS
<1> USE TypeFacts
<1>1. LeftBehind /\ NetOK
  BY DEF IndInv
<1>2. CASE Store
  BY <1>1, <1>2, QueueSteps DEF LeftBehind, Store
<1>3. CASE Evict
  BY <1>1, <1>3, QueueSteps DEF LeftBehind, NetOK, Evict, Leave
<1>4. CASE Clear
  BY <1>4, QueueSteps DEF LeftBehind
<1>5. CASE \/ EnterFromDevice \/ EnterFromNetwork \/ Send \/ KeepAll \/ Overflows
           \/ LoseConnection \/ Reconnect \/ Connack \/ OnConnect \/ FlushNext \/ FlushEnd
           \/ Transmit \/ UNCHANGED vars
  BY <1>1, <1>5
     DEF LeftBehind, NetOK, EnterFromDevice, EnterFromNetwork, Enter, Leave, Send,
         KeepAll, Overflows, LoseConnection, Reconnect, Connack, OnConnect, FlushNext,
         FlushEnd, Transmit, vars, pub_vars
<1> QED
  BY Steps, <1>2, <1>3, <1>4, <1>5

(* What is handed to paho was not sent before.                             *)
LEMMA SentOnceStep == IndInv /\ [Next]_vars => SentOnce'
<1> SUFFICES ASSUME IndInv, [Next]_vars PROVE SentOnce'
  OBVIOUS
<1> USE TypeFacts
<1>1. SentOnce
  BY DEF IndInv
<1>2. ASSUME NEW m \in Message, m \notin Sent,
             outgoing' = Append(outgoing, m), UNCHANGED delivered
      PROVE  SentOnce'
  <2>1. /\ Len(outgoing') = Len(outgoing) + 1 /\ outgoing'[Len(outgoing) + 1] = m
        /\ \A i \in 1..Len(outgoing) : outgoing'[i] = outgoing[i]
    BY <1>2, AppendProperties
  <2>2. \A i \in 1..Len(outgoing) : outgoing[i] # m
    BY <1>2 DEF Sent, ToSet
  <2>3. Len(outgoing) \in Nat
    OBVIOUS
  <2>4. \A i, j \in 1..Len(outgoing') : outgoing'[i] = outgoing'[j] => i = j
    BY <1>1, <2>1, <2>2, <2>3 DEF SentOnce
  <2>5. ToSet(outgoing') \cap ToSet(delivered') = {}
    BY <1>1, <1>2, AppendSet DEF SentOnce, Sent
  <2> QED
    BY <2>4, <2>5 DEF SentOnce
<1>3. CASE Send
  <2>1. message \in Message /\ message \notin Sent
    BY <1>3 DEF Send, IndInv, Numbered
  <2> QED
    BY <1>1, <1>2, <1>3, <2>1 DEF Send, Publish, SentOnce
<1>4. CASE FlushNext
  <2>1. queue[cursor] \in Message /\ queue[cursor] \notin Sent /\ conn # "lost"
    BY <1>4 DEF FlushNext, IndInv, FlushAhead, NetOK
  <2> QED
    BY <1>2, <1>4, <2>1 DEF FlushNext, Publish
<1>5. CASE Reconnect
  BY <1>5 DEF Reconnect, SentOnce, ToSet
<1>6. CASE Transmit
  <2> DEFINE m == Head(outgoing)
  <2>1. /\ outgoing # <<>> /\ outgoing' = Tail(outgoing)
        /\ delivered' = Append(delivered, m) /\ m = outgoing[1]
    BY <1>6 DEF Transmit
  <2>2. /\ Len(outgoing) \in Nat \ {0} /\ Len(outgoing') = Len(outgoing) - 1
        /\ \A i \in 1..Len(outgoing') : outgoing'[i] = outgoing[i + 1]
        /\ m \in Message
    BY <2>1, HeadTailProperties, EmptySeq
  <2>3. \A i, j \in 1..Len(outgoing') : outgoing'[i] = outgoing'[j] => i = j
    BY <1>1, <2>2 DEF SentOnce
  <2>4. m \notin ToSet(outgoing')
    <3>1. \A i \in 1..Len(outgoing') : outgoing'[i] # m
      BY <1>1, <2>1, <2>2 DEF SentOnce
    <3>2. DOMAIN outgoing' = 1..Len(outgoing')
      BY <2>1, HeadTailProperties, LenProperties
    <3> QED
      BY <3>1, <3>2 DEF ToSet
  <2>5. /\ ToSet(delivered') = ToSet(delivered) \cup {m}
        /\ ToSet(outgoing) = {m} \cup ToSet(outgoing')
    BY <2>1, <2>2, AppendSet, TailSet
  <2> QED
    BY <1>1, <2>3, <2>4, <2>5 DEF SentOnce
<1>7. CASE UNCHANGED <<outgoing, delivered>>
  BY <1>1, <1>7 DEF SentOnce
<1> QED
  BY Steps, <1>3, <1>4, <1>5, <1>6, <1>7
     DEF EnterFromDevice, EnterFromNetwork, Store, KeepAll, Overflows, Evict,
         LoseConnection, Connack, OnConnect, FlushEnd, Clear, vars

(* An eviction moves the store under the iterator, but never what was sent *)
(* to a position it has still to reach.                                    *)
LEMMA FlushAheadStep == IndInv /\ [Next]_vars => FlushAhead'
<1> SUFFICES ASSUME IndInv, [Next]_vars PROVE FlushAhead'
  OBVIOUS
<1> USE TypeFacts
<1>1. FlushAhead /\ NetOK /\ Numbered
  BY DEF IndInv
<1>2. CASE Send
  BY <1>1, <1>2, SentSteps DEF FlushAhead, NetOK, Numbered, Send, Leave, ToSet
<1>3. CASE Store
  BY <1>1, <1>3, SentSteps, QueueSteps DEF FlushAhead, Numbered, Store
<1>4. CASE Evict
  BY <1>1, <1>4, SentSteps, QueueSteps DEF FlushAhead, NetOK, Evict, Leave
<1>5. CASE FlushNext
  <2>1. \A i \in (cursor + 1)..Len(queue) : queue[i] # queue[cursor]
    BY <1>5 DEF FlushNext, IndInv, StoreBound, StoreOrdered, Message
  <2> QED
    BY <1>1, <1>5, <2>1, SentSteps DEF FlushAhead, FlushNext
<1>6. CASE OnConnect
  <2>1. \A i \in 1..Len(queue) : queue[i] \in ToSet(queue)
    BY DEF ToSet
  <2> QED
    BY <1>1, <1>6, <2>1, SentSteps DEF FlushAhead, OnConnect, pub_vars, ToSet
<1>7. CASE Clear
  BY <1>7, QueueSteps DEF FlushAhead, Clear
<1>8. CASE Reconnect \/ Transmit
  BY <1>1, <1>8, SentSteps DEF FlushAhead, Reconnect, Transmit, pub_vars
<1>9. CASE \/ EnterFromDevice \/ EnterFromNetwork \/ KeepAll \/ Overflows
           \/ LoseConnection \/ Connack \/ FlushEnd \/ UNCHANGED vars
  BY <1>1, <1>9, SentSteps
     DEF FlushAhead, NetOK, EnterFromDevice, EnterFromNetwork, KeepAll, Overflows, Leave,
         LoseConnection, Connack, FlushEnd, vars, pub_vars
<1> QED
  BY Steps, <1>2, <1>3, <1>4, <1>5, <1>6, <1>7, <1>8, <1>9

(* One call at most can be between its test and its last change of the     *)
(* store when the flush begins, so that at most one message is passed over.*)
LEMMA FlushBehindStep == IndInv /\ [Next]_vars => FlushBehind'
<1> SUFFICES ASSUME IndInv, [Next]_vars PROVE FlushBehind'
  OBVIOUS
<1> USE TypeFacts
<1>1. FlushBehind /\ NetOK /\ Numbered
  BY DEF IndInv
<1>2. CASE Send
  BY <1>1, <1>2, SentSteps DEF FlushBehind, NetOK, Send, Leave
<1>3. CASE Store
  <2>1. /\ Sent' = Sent /\ net' = net /\ cursor' = cursor /\ message' = message
        /\ step = "store" /\ step' = "trim"
    BY <1>3, SentSteps DEF Store
  <2>2. CASE net = "flush"
    <3>1. /\ Len(queue') = Len(queue) + 1
          /\ \A i \in 1..Len(queue) : queue'[i] = queue[i]
      BY <1>3, QueueSteps
    <3>2. /\ cursor <= Len(queue) + 1
          /\ \A i \in 1..Len(queue) : i < cursor => queue[i] \in Sent
      BY <1>1, <2>1, <2>2 DEF FlushBehind
    <3>3. \A i \in 1..Len(queue') : i < cursor' => queue'[i] \in Sent'
      BY <2>1, <3>1, <3>2
    <3> QED
      BY <2>1, <2>2, <3>1, <3>2, <3>3 DEF FlushBehind
  <2>3. CASE net = "clear"
    <3>1. \A i \in 1..Len(queue) : queue[i] \in Sent
      BY <1>1, <2>1, <2>3 DEF FlushBehind
    <3> QED
      BY <1>3, <2>1, <2>3, <3>1, QueueSteps DEF FlushBehind
  <2> QED
    BY <2>1, <2>2, <2>3 DEF FlushBehind
<1>4. CASE Evict
  <2>1. /\ Sent' = Sent /\ step = "evict" /\ step' = "idle"
        /\ cursor' = cursor /\ message' = message
    BY <1>4, SentSteps DEF Evict, Leave
  <2>2. net' = net
    BY <1>1, <1>4, <2>1 DEF NetOK, Evict, Leave
  <2>3. CASE queue = <<>>
    BY <1>4, <2>1, <2>2, <2>3, QueueSteps DEF FlushBehind
  <2>4. CASE queue # <<>>
    <3>1. /\ Len(queue) = Len(queue') + 1 /\ Len(queue') \in Nat
          /\ \A i \in 1..Len(queue') : queue'[i] = queue[i + 1]
      BY <1>4, <2>4, QueueSteps, ClientAssumption
    <3>2. ASSUME net = "flush"
          PROVE  \A i \in 1..Len(queue') : i < cursor => queue'[i] \in Sent \/ i = cursor - 1
      <4>1. \A i \in 1..Len(queue) : i < cursor => queue[i] \in Sent
        BY <1>1, <2>1, <3>2 DEF FlushBehind
      <4>2. \A i \in 1..Len(queue') :
              /\ i + 1 \in 1..Len(queue)
              /\ i + 1 < cursor \/ i = cursor - 1 \/ ~(i < cursor)
        BY <3>1
      <4> QED
        BY <3>1, <4>1, <4>2
    <3>3. ASSUME net = "clear"
          PROVE  \A i, j \in 1..Len(queue') :
                   queue'[i] \notin Sent /\ queue'[j] \notin Sent => i = j
      <4>1. \A i, j \in 1..Len(queue) : queue[i] \notin Sent /\ queue[j] \notin Sent => i = j
        BY <1>1, <3>3 DEF FlushBehind
      <4>2. \A i \in 1..Len(queue') : i + 1 \in 1..Len(queue)
        BY <3>1
      <4>3. \A i, j \in 1..Len(queue') : i + 1 = j + 1 => i = j
        BY <3>1
      <4> QED
        BY <3>1, <4>1, <4>2, <4>3
    <3> QED
      BY <2>1, <2>2, <3>1, <3>2, <3>3 DEF FlushBehind
  <2> QED
    BY <2>3, <2>4
<1>5. CASE FlushNext
  <2>1. /\ Sent' = Sent \cup {queue[cursor]} /\ cursor' = cursor + 1 /\ cursor <= Len(queue)
        /\ net = "flush" /\ net' = "flush" /\ queue' = queue /\ step' = step
    BY <1>5, SentSteps DEF FlushNext, pub_vars
  <2>2. \A i \in 1..Len(queue) :
          i < cursor' /\ queue[i] \notin Sent' => i < cursor /\ queue[i] \notin Sent
    BY <2>1
  <2> QED
    BY <1>1, <2>1, <2>2 DEF FlushBehind
<1>6. CASE FlushEnd
  <2>1. /\ Sent' = Sent /\ cursor > Len(queue) /\ net = "flush" /\ net' = "clear"
        /\ queue' = queue /\ step' = step /\ message' = message
    BY <1>6, SentSteps DEF FlushEnd, pub_vars
  <2>2. \A i \in 1..Len(queue) : i < cursor
    BY <2>1
  <2> QED
    BY <1>1, <2>1, <2>2 DEF FlushBehind
<1>7. CASE OnConnect \/ Clear
  BY <1>7 DEF OnConnect, Clear, FlushBehind
<1>8. CASE EnterFromDevice \/ EnterFromNetwork
  <2>1. /\ step = "idle" /\ Sent' = Sent /\ queue' = queue /\ cursor' = cursor
        /\ step' = IF conn = "connected" THEN "send" ELSE "store"
        /\ net' = net \/ net' = "handler"
    BY <1>8, SentSteps DEF EnterFromDevice, EnterFromNetwork, Enter
  <2> QED
    BY <1>1, <2>1 DEF FlushBehind, NetOK
<1>9. CASE KeepAll \/ Overflows
  BY <1>1, <1>9, SentSteps DEF FlushBehind, NetOK, KeepAll, Overflows, Leave
<1>10. CASE Reconnect \/ Transmit \/ LoseConnection \/ Connack
  BY <1>10 DEF FlushBehind, Reconnect, Transmit, LoseConnection, Connack
<1>11. CASE UNCHANGED vars
  BY <1>1, <1>11, SentSteps DEF FlushBehind, vars, pub_vars
<1> QED
  BY Steps, <1>2, <1>3, <1>4, <1>5, <1>6, <1>7, <1>8, <1>9, <1>10, <1>11

-----------------------------------------------------------------------------
(* THE THEOREMS                                                            *)

(* The invariant holds at the start ...                                    *)
LEMMA Start == Init => IndInv
<1> SUFFICES ASSUME Init PROVE IndInv
  OBVIOUS
<1> USE ClientAssumption, EmptySeq DEF Init
<1>1. TypeOK
  BY DEF TypeOK
<1>2. ToSet(queue) = {} /\ Sent = {} /\ Len(queue) = 0 /\ Len(outgoing) = 0
  BY DEF ToSet, Sent
<1> QED
  BY <1>1, <1>2 DEF IndInv, NetOK, Numbered, StoreBound, StoreOrdered, LeftBehind, SentOnce,
       FlushAhead, FlushBehind, Sent

(* ... and every step keeps it.                                            *)
LEMMA Invariance == Spec => []IndInv
<1>1. IndInv /\ [Next]_vars => IndInv'
  BY TypeStep, NetStep, NumberedStep, StoreBoundStep, LeftBehindStep, SentOnceStep,
     FlushAheadStep, FlushBehindStep DEF IndInv
<1> QED
  BY Start, <1>1, PTL DEF Spec

(* Every variable keeps its type.                                          *)
THEOREM TypeCorrect == Spec => []TypeOK
<1>1. IndInv => TypeOK
  BY DEF IndInv
<1> QED
  BY Invariance, <1>1, PTL

(* The store never holds more than MaxQueue messages between calls, it     *)
(* holds them in the order they were published, and a flush leaves at most *)
(* one behind.                                                             *)
THEOREM StoreIsSound == Spec => []StoreSound
<1>1. IndInv => StoreSound
  BY DEF IndInv, StoreSound, StoreBound, LeftBehind, AtMostOneLeftBehind
<1> QED
  BY Invariance, <1>1, PTL

(* The message of a call that has neither sent nor stored it.              *)
InCall == IF step \in {"send", "store"} THEN {message} ELSE {}

(* A message is in the store, was sent, or is in the call that brings it.  *)
LEMMA HeldIs == Held = ToSet(queue) \cup Sent \cup InCall
BY DEF Held, Sent, InCall

(* What one step does to the messages that still exist.                    *)
LEMMA HeldSteps ==
  ASSUME IndInv, [Next]_vars
  PROVE  /\ EnterFromDevice \/ EnterFromNetwork => Held' = Held \cup {count + 1}
         /\ Transmit => Held' = Held
         /\ Held' # Held =>
              \/ EnterFromDevice \/ EnterFromNetwork
              \/ Send /\ conn = "lost" /\ Held = Held' \cup {message}
              \/ /\ Evict /\ step = "evict" /\ Len(queue) = MaxQueue + 1
                 /\ Held = Held' \cup {Head(queue)}
              \/ Reconnect /\ conn = "lost" /\ Held' \subseteq Held
                   /\ Held \subseteq Held' \cup ToSet(outgoing)
              \/ Clear /\ net = "clear" /\ net' = "loop" /\ Held' \subseteq Held
                   /\ Held \subseteq Held' \cup ToSet(queue)
<1> USE TypeFacts, HeldIs
<1>1. Held' = ToSet(queue') \cup Sent' \cup InCall'
  BY DEF Held, Sent, InCall
<1>2. ASSUME EnterFromDevice \/ EnterFromNetwork PROVE Held' = Held \cup {count + 1}
  <2>1. InCall = {} /\ InCall' = {count + 1}
    BY <1>2 DEF EnterFromDevice, EnterFromNetwork, Enter, InCall
  <2> QED
    BY <1>1, <1>2, <2>1, SentSteps DEF EnterFromDevice, EnterFromNetwork
<1>3. ASSUME Send PROVE Held' = Held \/ (conn = "lost" /\ Held = Held' \cup {message})
  <2>1. InCall = {message} /\ InCall' = {} /\ queue' = queue
    BY <1>3 DEF Send, Leave, InCall
  <2> QED
    BY <1>1, <1>3, <2>1, SentSteps
<1>4. ASSUME Store PROVE Held' = Held
  <2>1. InCall = {message} /\ InCall' = {} /\ Sent' = Sent
    BY <1>4, SentSteps DEF Store, InCall
  <2> QED
    BY <1>1, <1>4, <2>1, QueueSteps
<1>5. ASSUME Evict PROVE \/ Held' = Held
                         \/ /\ step = "evict" /\ Len(queue) = MaxQueue + 1
                            /\ Held = Held' \cup {Head(queue)}
  <2>1. InCall = {} /\ InCall' = {} /\ Sent' = Sent /\ step = "evict"
    BY <1>5, SentSteps DEF Evict, Leave, InCall
  <2> QED
    BY <1>1, <1>5, <2>1, QueueSteps
<1>6. ASSUME Reconnect PROVE /\ conn = "lost" /\ Held' \subseteq Held
                             /\ Held \subseteq Held' \cup ToSet(outgoing)
  <2>1. conn = "lost" /\ queue' = queue /\ delivered' = delivered /\ InCall' = InCall
    BY <1>6 DEF Reconnect, pub_vars, InCall
  <2> QED
    BY <1>1, <1>6, <2>1, SentSteps DEF Sent
<1>7. ASSUME Clear PROVE /\ net = "clear" /\ net' = "loop" /\ Held' \subseteq Held
                         /\ Held \subseteq Held' \cup ToSet(queue)
  <2>1. net = "clear" /\ net' = "loop" /\ Sent' = Sent /\ InCall' = InCall
    BY <1>7, SentSteps DEF Clear, pub_vars, InCall
  <2> QED
    BY <1>1, <1>7, <2>1, QueueSteps
<1>8. ASSUME FlushNext PROVE Held' = Held
  <2>1. queue[cursor] \in ToSet(queue) /\ queue' = queue /\ InCall' = InCall
    BY <1>8 DEF FlushNext, pub_vars, InCall, ToSet
  <2> QED
    BY <1>1, <1>8, <2>1, SentSteps
<1>9. ASSUME Transmit PROVE Held' = Held
  BY <1>1, <1>9, SentSteps DEF Transmit, pub_vars, InCall
<1>10. ASSUME \/ KeepAll \/ Overflows \/ LoseConnection \/ Connack \/ OnConnect \/ FlushEnd
              \/ UNCHANGED vars
       PROVE  Held' = Held
  <2>1. queue' = queue /\ Sent' = Sent /\ InCall' = InCall
    BY <1>10, SentSteps DEF KeepAll, Overflows, Leave, LoseConnection, Connack, OnConnect,
         FlushEnd, vars, pub_vars, InCall
  <2> QED
    BY <1>1, <2>1
<1> QED
  BY Steps, <1>2, <1>3, <1>4, <1>5, <1>6, <1>7, <1>8, <1>9, <1>10

(* A message disappears with a broken connection, from a store over its    *)
(* limit, or with clear(), and in no other way.                            *)
THEOREM LossIsExplained == Spec => LossExplained
<1> DEFINE Explained ==
      \A m \in Held \ Held' :
        \/ conn = "lost" /\ m \in ToSet(outgoing)
        \/ conn = "lost" /\ step = "send" /\ m = message
        \/ step = "evict" /\ m = Head(queue) /\ Len(queue) > MaxQueue
        \/ net = "clear" /\ net' = "loop" /\ m \in ToSet(queue)
<1>1. ASSUME IndInv, [Next]_vars PROVE Explained
  <2> SUFFICES ASSUME NEW m \in Held, m \notin Held' PROVE Explained!(m)
    OBVIOUS
  <2>1. MaxQueue + 1 > MaxQueue
    BY ClientAssumption
  <2> QED
    BY <1>1, <2>1, HeldSteps DEF Send
<1> QED
  BY <1>1, Invariance, PTL DEF Spec, LossExplained

(* The unlocked race of one flush with publish_json() costs at most one    *)
(* message.                                                                *)
THEOREM FlushCostsAtMostOne == Spec => FlushLosesAtMostOne
<1> DEFINE Unsent == ToSet(queue) \ Sent
<1>1. ASSUME IndInv, net = "clear" PROVE Cardinality(Unsent) <= 1
  <2>1. \A a, b \in Unsent : a = b
    BY <1>1 DEF IndInv, FlushBehind, ToSet
  <2>2. CASE Unsent = {}
    BY <2>2, FS_EmptySet
  <2>3. CASE Unsent # {}
    <3>1. PICK m \in Unsent : Unsent = {m}
      BY <2>1, <2>3
    <3> QED
      BY <3>1, FS_Singleton
  <2> QED
    BY <2>2, <2>3
<1>2. IndInv => [net = "clear" /\ net' = "loop" =>
                   Cardinality(ToSet(queue) \ (ToSet(outgoing) \cup ToSet(delivered))) <= 1]_vars
  BY <1>1 DEF Sent
<1> QED
  BY <1>2, Invariance, PTL DEF FlushLosesAtMostOne

-----------------------------------------------------------------------------
(* THE CLIENT IMPLEMENTS THE MAILBOX                                       *)

(* Every step of the client accepts a message, delivers one that was       *)
(* pending, or loses some.                                                 *)
LEMMA MailboxStep == IndInv /\ [Next]_vars => [M!Next]_M!mvars
<1> SUFFICES ASSUME IndInv, [Next]_vars PROVE M!Next
  OBVIOUS
<1> USE TypeFacts
<1> DEFINE pending == Held \ ToSet(delivered)
<1>1. CASE EnterFromDevice \/ EnterFromNetwork
  <2>1. count' = count + 1 /\ delivered' = delivered
    BY <1>1 DEF EnterFromDevice, EnterFromNetwork, Enter
  <2>2. pending' \subseteq pending \cup {count + 1}
    BY <1>1, <2>1, HeldSteps
  <2> QED
    BY <2>1, <2>2 DEF M!Next, M!Accept
<1>2. CASE Transmit
  <2> DEFINE m == Head(outgoing)
  <2>1. /\ outgoing # <<>> /\ delivered' = Append(delivered, m)
        /\ count' = count
    BY <1>2 DEF Transmit, pub_vars
  <2>2. m \in ToSet(outgoing) /\ m \in Message
    BY <2>1, TailSet, HeadTailProperties
  <2>3. m \in pending
    BY <2>2 DEF IndInv, SentOnce, Held
  <2>4. ToSet(delivered') = ToSet(delivered) \cup {m} /\ Held' = Held
    BY <1>2, <2>1, <2>2, AppendSet, HeldSteps
  <2>5. pending' = pending \ {m}
    BY <2>4
  <2> QED
    BY <2>1, <2>3, <2>5 DEF M!Next, M!Deliver
<1>3. CASE ~(EnterFromDevice \/ EnterFromNetwork \/ Transmit)
  <2>1. count' = count /\ delivered' = delivered
    BY <1>3, Steps DEF Send, Leave, Store, KeepAll, Overflows, Evict, LoseConnection,
         Reconnect, Connack, OnConnect, FlushNext, FlushEnd, Clear, vars, pub_vars
  <2>2. pending' \subseteq pending
    BY <1>3, <2>1, HeldSteps
  <2> QED
    BY <2>1, <2>2 DEF M!Next, M!Lose
<1> QED
  BY <1>1, <1>2, <1>3

(* The client delivers no message twice and none before it was published,  *)
(* and none comes back once it has been lost.                              *)
THEOREM MailboxImplemented == Spec => ImplementsMailbox
<1>1. Init => M!Init
  BY DEF Init, M!Init, Held, ToSet
<1> QED
  BY <1>1, MailboxStep, Invariance, PTL DEF Spec, ImplementsMailbox, M!Spec
=============================================================================
