---------------------------- MODULE BrokerProofs ----------------------------
(***************************************************************************)
(* Proofs about the MQTT broker for any number of connections, filters,    *)
(* topics and messages, and for every function of wants and tells.  They   *)
(* rest on one inductive invariant, IndInv.                                *)
(***************************************************************************)
EXTENDS Broker, SequenceLemmas

-----------------------------------------------------------------------------
(* THE INDUCTIVE INVARIANT                                                 *)

Filters == UNION Range(Wants)
Messages == [from : Sockets, no : 0..MaxMessages]
Tasks == [no : 0..MaxMessages, topic : Seq(STRING), filters : SUBSET Filters,
          socks : SUBSET Sockets, audience : SUBSET (Sockets \X Filters)]

(* The types in full, records and sequences included.                      *)
Shape ==
  /\ handler \in [Sockets -> {"none", "recv", "distribute", "cleanup", "done"}]
  /\ link \in [Sockets -> {"up", "silent", "down"}]
  /\ task \in [Sockets -> Tasks]
  /\ received \in [Sockets -> Seq(Messages)]
  /\ published \in 0..MaxMessages

Distributing(s) == handler[s] = "distribute"

(* Numbers are given out in order: each to one distribution, and no message*)
(* of a publisher is newer than the one its thread is distributing.        *)
Numbered ==
  /\ \A s \in Sockets : task[s].no <= published
  /\ \A o \in Sockets : \A i \in DOMAIN received[o] : received[o][i].no <= published
  /\ \A s, o \in Sockets : \A i \in DOMAIN received[o] :
       Distributing(s) /\ received[o][i].from = s => received[o][i].no <= task[s].no
  /\ \A s, o \in Sockets :
       Distributing(s) /\ Distributing(o) /\ task[s].no = task[o].no => s = o

(* A distribution never turns to its own publisher.                        *)
NotToItself == \A s \in Sockets : s \notin task[s].socks

(* Whoever held a filter when the distribution began holds it as long as   *)
(* the connection lasts.                                                   *)
AudienceStays ==
  \A s, o \in Sockets : \A f \in Filters :
    Distributing(s) /\ <<o, f>> \in task[s].audience /\ link[o] # "down" =>
      /\ o \in DOMAIN clients /\ f \in clients[o]
      /\ TopicMatches(f, task[s].topic)

(* The filters of connection o that the distribution of s has visited: of  *)
(* those o held when it began, and of those it holds now.                  *)
VisitedOfAudience(s, o) == {f \in Filters : <<o, f>> \in task[s].audience} \ task[s].filters
VisitedOfHeld(s, o) ==
  {f \in IF o \in DOMAIN clients THEN clients[o] ELSE {} :
     TopicMatches(f, task[s].topic)} \ task[s].filters

(* Copies that o has or is about to get.                                   *)
Copies(s, o) == Times(task[s].no, o) + IF o \in task[s].socks THEN 1 ELSE 0

Served ==
  \A s \in Sockets : \A o \in Sockets \ {s} :
    Distributing(s) /\ link[o] # "down" =>
      /\ Cardinality(VisitedOfAudience(s, o)) <= Copies(s, o)
      /\ Copies(s, o) <= Cardinality(VisitedOfHeld(s, o))

FiniteHolds == \A s \in DOMAIN clients : IsFiniteSet(clients[s])

IndInv ==
  /\ Shape /\ TypeOK /\ RegistryAgrees /\ PublisherOrder
  /\ Numbered /\ NotToItself /\ FiniteHolds /\ AudienceStays /\ Served

-----------------------------------------------------------------------------
(* STEPS AND TYPES                                                         *)

(* What the thread of socket s may do, or the network to it.               *)
StepOf(s) ==
  \/ Accept(s) \/ Connect(s) \/ Subscribe(s) \/ Publish(s) \/ NextFilter(s) \/ Send(s)
  \/ Distributed(s) \/ Disconnect(s) \/ EndOfStream(s) \/ Cleanup(s)
  \/ Break(s) \/ FallSilent(s) \/ ComeBack(s)

(* Every step is one of these, or changes nothing.                         *)
LEMMA Steps == [Next]_vars => (\E s \in Sockets : StepOf(s)) \/ UNCHANGED vars
BY DEF Next, Work, AllDone, StepOf

(* Those that are registered are sockets, and the filters those wanted.    *)
LEMMA RegistryFacts ==
  ASSUME IndInv
  PROVE  /\ DOMAIN clients \subseteq Sockets
         /\ DOMAIN subscribers \subseteq Filters
         /\ \A f \in DOMAIN subscribers : subscribers[f] \subseteq DOMAIN clients
         /\ \A s \in DOMAIN clients : clients[s] \subseteq Filters
         /\ \A s \in Sockets : Wants[s] \subseteq Filters
         /\ \A s \in Sockets : Tells[s] \subseteq Seq(STRING)
<1>1. \A s \in Sockets : Wants[s] \subseteq Filters
  BY BrokerAssumption DEF Filters, Range
<1>2. \A s \in Sockets : Tells[s] \subseteq Seq(STRING)
  BY BrokerAssumption
<1> QED
  BY <1>1, <1>2 DEF IndInv, TypeOK, RegistryAgrees, Filters

(* The snapshot names connections and filters.                             *)
LEMMA AudienceType ==
  ASSUME IndInv, NEW topic
  PROVE  /\ Audience(topic) \subseteq Sockets \X Filters
         /\ \A o, f : <<o, f>> \in Audience(topic) <=>
              f \in DOMAIN subscribers /\ o \in subscribers[f] /\ TopicMatches(f, topic)
<1>1. \A p \in Audience(topic) : \E f \in DOMAIN subscribers : \E o \in subscribers[f] :
        p = <<o, f>> /\ TopicMatches(f, topic)
  BY DEF Audience
<1>2. \A f \in DOMAIN subscribers : \A o \in subscribers[f] :
        TopicMatches(f, topic) => <<o, f>> \in Audience(topic)
  BY DEF Audience
<1>3. Audience(topic) \subseteq Sockets \X Filters
  BY <1>1, RegistryFacts
<1>4. \A o, f : <<o, f>> \in Audience(topic) =>
        f \in DOMAIN subscribers /\ o \in subscribers[f] /\ TopicMatches(f, topic)
  BY <1>1
<1> QED
  BY <1>2, <1>3, <1>4

(* An arriving message is put at the end of what its receiver has.         *)
LEMMA ArrivalSteps ==
  ASSUME Shape, NEW s \in Sockets, NEW o \in Sockets, Arrives(s, o)
  PROVE  /\ received' \in [Sockets -> Seq(Messages)]
         /\ \A c \in Sockets : c # o => received'[c] = received[c]
         /\ link[o] = "down" => received' = received
         /\ link[o] # "down" =>
              /\ DOMAIN received[o] = 1..Len(received[o]) /\ Len(received[o]) \in Nat
              /\ DOMAIN received'[o] = 1..(Len(received[o]) + 1)
              /\ \A i \in DOMAIN received[o] : received'[o][i] = received[o][i]
              /\ received'[o][Len(received[o]) + 1] = [from |-> s, no |-> task[s].no]
<1>1. [from |-> s, no |-> task[s].no] \in Messages
  BY DEF Shape, Tasks, Messages
<1>2. received[o] \in Seq(Messages) /\ received \in [Sockets -> Seq(Messages)]
  BY DEF Shape
<1>3. /\ Append(received[o], [from |-> s, no |-> task[s].no]) \in Seq(Messages)
      /\ Len(Append(received[o], [from |-> s, no |-> task[s].no])) = Len(received[o]) + 1
      /\ \A i \in 1..Len(received[o]) :
           Append(received[o], [from |-> s, no |-> task[s].no])[i] = received[o][i]
      /\ Append(received[o], [from |-> s, no |-> task[s].no])[Len(received[o]) + 1]
           = [from |-> s, no |-> task[s].no]
  BY <1>1, <1>2, AppendProperties
<1>4. CASE link[o] # "down"
  <2>1. received' = [received EXCEPT ![o] = Append(@, [from |-> s, no |-> task[s].no])]
    BY <1>4 DEF Arrives
  <2> HIDE DEF Messages
  <2> QED
    BY <1>2, <1>3, <1>4, <2>1, LenProperties
<1>5. CASE link[o] = "down"
  BY <1>2, <1>5 DEF Arrives
<1> QED
  BY <1>4, <1>5

(* A distribution takes the sockets of its next filter ...                 *)
LEMMA NextFilterSteps ==
  ASSUME IndInv, NEW s \in Sockets, NextFilter(s)
  PROVE  \E f \in task[s].filters :
           /\ task' \in [Sockets -> Tasks]
           /\ \A c \in Sockets : c # s => task'[c] = task[c]
           /\ task'[s].no = task[s].no /\ task'[s].topic = task[s].topic
           /\ task'[s].audience = task[s].audience
           /\ task'[s].filters = task[s].filters \ {f}
           /\ task'[s].socks = IF TopicMatches(f, task[s].topic)
                               THEN subscribers[f] \ {s} ELSE {}
<1>1. PICK f \in task[s].filters :
        task' = [task EXCEPT ![s].filters = @ \ {f},
                   ![s].socks = IF TopicMatches(f, task[s].topic)
                                THEN subscribers[f] \ {s} ELSE {}]
  BY DEF NextFilter
<1> DEFINE socks == IF TopicMatches(f, task[s].topic) THEN subscribers[f] \ {s} ELSE {}
           t == [task[s] EXCEPT !.filters = @ \ {f}, !.socks = socks]
<1>2. task \in [Sockets -> Tasks] /\ task[s] \in Tasks
  BY DEF IndInv, Shape
<1>3. socks \subseteq Sockets
  BY RegistryFacts DEF IndInv, TypeOK
<1>4. /\ t \in Tasks /\ t.no = task[s].no /\ t.topic = task[s].topic
      /\ t.audience = task[s].audience /\ t.filters = task[s].filters \ {f}
      /\ t.socks = socks
  BY <1>2, <1>3 DEF Tasks
<1>5. task' = [task EXCEPT ![s] = t]
  BY <1>1, <1>2
<1> HIDE DEF t, socks
<1>6. /\ task' \in [Sockets -> Tasks] /\ task'[s] = t
      /\ \A c \in Sockets : c # s => task'[c] = task[c]
  BY <1>2, <1>4, <1>5
<1> QED
  BY <1>4, <1>6 DEF socks

(* ... and serves one of them.                                             *)
LEMMA SendSteps ==
  ASSUME IndInv, NEW s \in Sockets, Send(s)
  PROVE  \E o \in task[s].socks :
           /\ Arrives(s, o) /\ o \in Sockets
           /\ task' \in [Sockets -> Tasks]
           /\ \A c \in Sockets : c # s => task'[c] = task[c]
           /\ task'[s].no = task[s].no /\ task'[s].topic = task[s].topic
           /\ task'[s].audience = task[s].audience /\ task'[s].filters = task[s].filters
           /\ task'[s].socks = task[s].socks \ {o}
<1>1. PICK o \in task[s].socks :
        Arrives(s, o) /\ task' = [task EXCEPT ![s].socks = @ \ {o}]
  BY DEF Send
<1>2. task \in [Sockets -> Tasks] /\ task[s] \in Tasks
  BY DEF IndInv, Shape
<1>3. o \in Sockets
  BY <1>2 DEF Tasks
<1> QED
  BY <1>1, <1>2, <1>3 DEF Tasks

(* A filter that is deleted leaves every snapshot.                         *)
LEMMA ForgetSteps ==
  ASSUME IndInv, NEW filters, Forget(filters)
  PROVE  /\ task' \in [Sockets -> Tasks]
         /\ \A c \in Sockets :
              /\ task'[c].no = task[c].no /\ task'[c].topic = task[c].topic
              /\ task'[c].audience = task[c].audience /\ task'[c].socks = task[c].socks
              /\ task'[c].filters = task[c].filters \cap filters
<1>1. task \in [Sockets -> Tasks]
  BY DEF IndInv, Shape
<1>2. ASSUME NEW c \in Sockets
      PROVE  /\ task'[c] \in Tasks
             /\ task'[c].no = task[c].no /\ task'[c].topic = task[c].topic
             /\ task'[c].audience = task[c].audience /\ task'[c].socks = task[c].socks
             /\ task'[c].filters = task[c].filters \cap filters
  <2>1. task'[c] = [task[c] EXCEPT !.filters = @ \cap filters] /\ task[c] \in Tasks
    BY <1>1 DEF Forget
  <2> QED
    BY <2>1 DEF Tasks
<1>3. task' = [c \in Sockets |-> task'[c]]
  BY DEF Forget
<1> HIDE DEF Tasks
<1> QED
  BY <1>2, <1>3

(* Every step keeps the shape of the state: what each variable is made of. *)
LEMMA ShapeStep == IndInv /\ [Next]_vars => Shape'
<1> SUFFICES ASSUME IndInv, [Next]_vars PROVE Shape'
  OBVIOUS
<1>0. Shape
  BY DEF IndInv
<1>1. CASE UNCHANGED vars
  BY <1>0, <1>1 DEF Shape, vars, registry
<1>2. ASSUME NEW s \in Sockets, StepOf(s) PROVE Shape'
  <2>1. CASE \/ Accept(s) \/ Connect(s) \/ Subscribe(s) \/ Disconnect(s) \/ EndOfStream(s)
             \/ Break(s) \/ FallSilent(s) \/ ComeBack(s)
    BY <1>0, <2>1 DEF Shape, Accept, Connect, Subscribe, Acknowledge, Disconnect,
         EndOfStream, Break, FallSilent, ComeBack,
         registry
  <2>2. CASE Publish(s)
    <3>1. PICK topic \in Tells[s] :
            task' = [task EXCEPT ![s] = [no |-> published + 1, topic |-> topic,
                                         filters |-> DOMAIN subscribers, socks |-> {},
                                         audience |-> Audience(topic)]]
      BY <2>2 DEF Publish
    <3>2. published + 1 \in 0..MaxMessages
      BY <1>0, <2>2, BrokerAssumption DEF Shape, Publish
    <3>3. [no |-> published + 1, topic |-> topic, filters |-> DOMAIN subscribers,
           socks |-> {}, audience |-> Audience(topic)] \in Tasks
      BY <3>2, RegistryFacts, AudienceType DEF Tasks
    <3>4. task' \in [Sockets -> Tasks]
      BY <1>0, <3>1, <3>3 DEF Shape
    <3> QED
      BY <1>0, <2>2, <3>2, <3>4 DEF Shape, Publish, registry
  <2>3. CASE NextFilter(s)
    BY <1>0, <2>3, NextFilterSteps DEF Shape, NextFilter, registry
  <2>4. CASE Send(s)
    <3>1. received' \in [Sockets -> Seq(Messages)] /\ task' \in [Sockets -> Tasks]
      BY <1>0, <2>4, SendSteps, ArrivalSteps
    <3> QED
      BY <1>0, <2>4, <3>1 DEF Shape, Send, registry
  <2>5. CASE Distributed(s)
    BY <1>0, <2>5, BrokerAssumption DEF Shape, Distributed, NoTask, Tasks, registry
  <2>6. CASE Cleanup(s)
    BY <1>0, <2>6, ForgetSteps DEF Shape, Cleanup
  <2> QED
    BY <1>2, <2>1, <2>2, <2>3, <2>4, <2>5, <2>6 DEF StepOf
<1> QED
  BY Steps, <1>1, <1>2

(* The snapshot of a distribution just begun.                              *)
LEMMA PublishSteps ==
  ASSUME IndInv, NEW s \in Sockets, Publish(s)
  PROVE  /\ published' = published + 1
         /\ \A c \in Sockets : c # s => task'[c] = task[c]
         /\ task'[s].no = published + 1 /\ task'[s].topic \in Tells[s]
         /\ task'[s].filters = DOMAIN subscribers /\ task'[s].socks = {}
         /\ task'[s].audience = Audience(task'[s].topic)
BY DEF Publish, IndInv, Shape

-----------------------------------------------------------------------------
(* THE REGISTRY                                                            *)

(* The registry gains a socket under one filter in both indexes, or loses  *)
(* it in both.                                                             *)
LEMMA RegistryStep == IndInv /\ [Next]_vars => RegistryAgrees'
<1> SUFFICES ASSUME IndInv, [Next]_vars PROVE RegistryAgrees'
  OBVIOUS
<1>0. RegistryAgrees
  BY DEF IndInv
<1>1. CASE UNCHANGED registry
  BY <1>0, <1>1 DEF RegistryAgrees, registry
<1>2. ASSUME NEW s \in Sockets, Connect(s) PROVE RegistryAgrees'
  <2>1. /\ DOMAIN clients' = DOMAIN clients \cup {s} /\ clients'[s] = {}
        /\ \A c \in DOMAIN clients : clients'[c] = clients[c]
        /\ s \notin DOMAIN clients /\ subscribers' = subscribers
    BY <1>2 DEF Connect, Put
  <2> QED
    BY <1>0, <2>1 DEF RegistryAgrees
<1>3. ASSUME NEW s \in Sockets, Subscribe(s) PROVE RegistryAgrees'
  <2>1. PICK f \in Wants[s] :
          /\ subscribers' = Put(subscribers, f,
                               {s} \cup IF f \in DOMAIN subscribers THEN subscribers[f] ELSE {})
          /\ clients' = [clients EXCEPT ![s] = @ \cup {f}]
    BY <1>3 DEF Subscribe
  <2>2. /\ DOMAIN subscribers' = DOMAIN subscribers \cup {f}
        /\ subscribers'[f] = {s} \cup IF f \in DOMAIN subscribers THEN subscribers[f] ELSE {}
        /\ \A g \in DOMAIN subscribers : g # f => subscribers'[g] = subscribers[g]
    BY <2>1 DEF Put
  <2>3. /\ s \in DOMAIN clients /\ DOMAIN clients' = DOMAIN clients
        /\ clients'[s] = clients[s] \cup {f}
        /\ \A c \in DOMAIN clients : c # s => clients'[c] = clients[c]
    BY <1>3, <2>1 DEF Subscribe
  <2>4. ASSUME NEW g \in DOMAIN subscribers'
        PROVE  /\ subscribers'[g] = {c \in DOMAIN clients' : g \in clients'[c]}
               /\ subscribers'[g] # {}
    <3>1. CASE g # f
      BY <1>0, <2>2, <2>3, <2>4, <3>1 DEF RegistryAgrees
    <3>2. CASE g = f /\ f \in DOMAIN subscribers
      BY <1>0, <2>2, <2>3, <3>2 DEF RegistryAgrees
    <3>3. CASE g = f /\ f \notin DOMAIN subscribers
      <4>1. \A c \in DOMAIN clients : f \notin clients[c]
        BY <1>0, <3>3 DEF RegistryAgrees
      <4> QED
        BY <2>2, <2>3, <3>3, <4>1
    <3> QED
      BY <3>1, <3>2, <3>3
  <2>5. \A c \in DOMAIN clients' : clients'[c] \subseteq DOMAIN subscribers'
    BY <1>0, <2>2, <2>3 DEF RegistryAgrees
  <2> QED
    BY <2>4, <2>5 DEF RegistryAgrees
<1>4. ASSUME NEW s \in Sockets, Cleanup(s) PROVE RegistryAgrees'
  <2>1. /\ DOMAIN clients' = DOMAIN clients \ {s}
        /\ \A c \in DOMAIN clients' : clients'[c] = clients[c]
        /\ DOMAIN subscribers' = {g \in DOMAIN subscribers : subscribers[g] # {s}}
        /\ \A g \in DOMAIN subscribers' : subscribers'[g] = subscribers[g] \ {s}
    BY <1>4 DEF Cleanup, Without
  <2> QED
    BY <1>0, <2>1 DEF RegistryAgrees
<1> QED
  BY Steps, <1>1, <1>2, <1>3, <1>4
     DEF StepOf, Accept, Publish, NextFilter, Send, Distributed, Disconnect, EndOfStream,
          Break, FallSilent, ComeBack, vars

(* A socket is registered only while its thread runs, and a snapshot never *)
(* names a filter that has been deleted.                                   *)
LEMMA TypeStep == IndInv /\ [Next]_vars => TypeOK'
<1> SUFFICES ASSUME IndInv, [Next]_vars PROVE TypeOK'
  OBVIOUS
<1> USE RegistryFacts
<1>0. TypeOK /\ Shape /\ Shape' /\ Numbered
  BY ShapeStep DEF IndInv
<1>1. DOMAIN clients' \subseteq
        {c \in Sockets : handler'[c] \in {"recv", "distribute", "cleanup"}}
  <2>1. CASE UNCHANGED vars
    BY <1>0, <2>1 DEF TypeOK, vars, registry
  <2>2. ASSUME NEW s \in Sockets, StepOf(s)
        PROVE  DOMAIN clients' \subseteq
                 {c \in Sockets : handler'[c] \in {"recv", "distribute", "cleanup"}}
    <3>1. CASE Connect(s)
      BY <1>0, <3>1 DEF TypeOK, Shape, Connect, Put, Acknowledge
    <3>2. CASE Subscribe(s)
      <4>1. DOMAIN clients' = DOMAIN clients
        BY <3>2 DEF Subscribe
      <4>2. /\ handler'[s] \in {"recv", "cleanup"}
            /\ \A c \in Sockets : c # s => handler'[c] = handler[c]
        BY <1>0, <3>2 DEF Shape, Subscribe, Acknowledge
      <4> QED
        BY <1>0, <4>1, <4>2 DEF TypeOK
    <3>3. CASE Cleanup(s)
      BY <1>0, <3>3 DEF TypeOK, Shape, Cleanup
    <3>4. CASE \/ Accept(s) \/ Publish(s) \/ NextFilter(s) \/ Send(s) \/ Distributed(s)
               \/ Disconnect(s) \/ EndOfStream(s)
               \/ Break(s) \/ FallSilent(s) \/ ComeBack(s)
      BY <1>0, <3>4 DEF TypeOK, Shape, Accept, Publish, NextFilter, Send, Distributed,
           Disconnect, EndOfStream, Break, FallSilent, ComeBack, registry
    <3> QED
      BY <2>2, <3>1, <3>2, <3>3, <3>4 DEF StepOf
  <2> QED
    BY Steps, <2>1, <2>2
<1>2. \A c \in DOMAIN clients' : clients'[c] \subseteq Wants[c]
  <2>1. CASE UNCHANGED clients
    BY <1>0, <2>1 DEF TypeOK
  <2>2. ASSUME NEW s \in Sockets, Connect(s) \/ Subscribe(s) \/ Cleanup(s)
        PROVE  \A c \in DOMAIN clients' : clients'[c] \subseteq Wants[c]
    <3>1. CASE Connect(s) \/ Cleanup(s)
      BY <1>0, <3>1 DEF TypeOK, Connect, Put, Cleanup
    <3>2. CASE Subscribe(s)
      <4>1. PICK f \in Wants[s] : clients' = [clients EXCEPT ![s] = @ \cup {f}]
        BY <3>2 DEF Subscribe
      <4> QED
        BY <1>0, <4>1 DEF TypeOK
    <3> QED
      BY <2>2, <3>1, <3>2
  <2> QED
    BY Steps, <2>1, <2>2 DEF StepOf, Accept, Publish, NextFilter, Send, Distributed,
         Disconnect, EndOfStream, Break, FallSilent, ComeBack, registry, vars
<1>3. /\ DOMAIN subscribers' \subseteq Filters
      /\ \A c \in Sockets : task'[c].filters \subseteq DOMAIN subscribers'
  <2>1. CASE UNCHANGED <<subscribers, task>>
    BY <1>0, <2>1 DEF TypeOK
  <2>2. ASSUME NEW s \in Sockets, StepOf(s), ~UNCHANGED <<subscribers, task>>
        PROVE  /\ DOMAIN subscribers' \subseteq Filters
               /\ \A c \in Sockets : task'[c].filters \subseteq DOMAIN subscribers'
    <3>1. CASE Subscribe(s)
      BY <1>0, <3>1 DEF TypeOK, Subscribe, Put
    <3>2. CASE Publish(s)
      <4>1. subscribers' = subscribers
        BY <3>2 DEF Publish, registry
      <4> QED
        BY <1>0, <3>2, <4>1, PublishSteps DEF TypeOK
    <3>3. CASE NextFilter(s)
      <4>1. subscribers' = subscribers
        BY <3>3 DEF NextFilter, registry
      <4> QED
        BY <1>0, <3>3, <4>1, NextFilterSteps DEF TypeOK
    <3>4. CASE Send(s)
      <4>1. subscribers' = subscribers
        BY <3>4 DEF Send, registry
      <4> QED
        BY <1>0, <3>4, <4>1, SendSteps DEF TypeOK
    <3>5. CASE Distributed(s)
      BY <1>0, <3>5 DEF TypeOK, Shape, Distributed, NoTask, registry
    <3>6. CASE Cleanup(s)
      <4>1. DOMAIN subscribers' \subseteq DOMAIN subscribers
        BY <3>6 DEF Cleanup, Without
      <4> QED
        BY <1>0, <3>6, <4>1, ForgetSteps DEF TypeOK, Cleanup
    <3> QED
      BY <2>2, <3>1, <3>2, <3>3, <3>4, <3>5, <3>6
         DEF StepOf, Accept, Connect, Disconnect, EndOfStream, Break, FallSilent,
              ComeBack, registry
  <2> QED
    BY Steps, <2>1, <2>2 DEF vars, registry
<1>4. \A c \in Sockets : task'[c].no \in 0..published'
  <2>1. CASE UNCHANGED <<task, published>>
    BY <1>0, <2>1 DEF TypeOK
  <2>2. ASSUME NEW s \in Sockets, StepOf(s), ~UNCHANGED <<task, published>>
        PROVE  \A c \in Sockets : task'[c].no \in 0..published'
    <3>1. CASE Publish(s)
      <4>1. published \in Nat /\ published' = published + 1
        BY <1>0, <3>1, PublishSteps DEF Shape
      <4>2. \A c \in Sockets : task'[c].no = published + 1 \/ task'[c].no \in 0..published
        BY <1>0, <3>1, PublishSteps DEF TypeOK
      <4> QED
        BY <4>1, <4>2
    <3>2. CASE NextFilter(s)
      BY <1>0, <3>2, NextFilterSteps DEF TypeOK, NextFilter
    <3>3. CASE Send(s)
      BY <1>0, <3>3, SendSteps DEF TypeOK, Send
    <3>4. CASE Distributed(s)
      BY <1>0, <3>4 DEF TypeOK, Shape, Distributed, NoTask
    <3>5. CASE Cleanup(s)
      BY <1>0, <3>5, ForgetSteps DEF TypeOK, Cleanup
    <3> QED
      BY <2>2, <3>1, <3>2, <3>3, <3>4, <3>5
         DEF StepOf, Accept, Connect, Subscribe, Disconnect, EndOfStream, Break,
              FallSilent, ComeBack
  <2> QED
    BY Steps, <2>1, <2>2 DEF vars
<1> QED
  BY <1>0, <1>1, <1>2, <1>3, <1>4 DEF TypeOK, Shape, Tasks, Filters

-----------------------------------------------------------------------------
(* THE ORDER OF MESSAGES                                                   *)

(* A distribution is continued, and one begins: it takes the next number.  *)
GoesOn(s) ==
  /\ Distributing(s) /\ task'[s].no = task[s].no
  /\ task'[s].topic = task[s].topic /\ task'[s].audience = task[s].audience
Begins(s) ==
  /\ ~Distributing(s) /\ task'[s].no = published + 1 /\ published' = published + 1
  /\ \A c \in Sockets : c # s /\ Distributing(c)' => GoesOn(c)
  /\ task'[s].filters = DOMAIN subscribers /\ task'[s].socks = {}
  /\ task'[s].audience = Audience(task'[s].topic)
  /\ UNCHANGED <<registry, link, received>>

(* A message of s is put at the end of what o has received.                *)
Arrival(s, o) ==
  /\ Send(s) /\ Distributing(s) /\ Distributing(s)' /\ GoesOn(s) /\ o \in task[s].socks
  /\ DOMAIN received[o] = 1..Len(received[o]) /\ Len(received[o]) \in Nat
  /\ DOMAIN received'[o] = 1..(Len(received[o]) + 1)
  /\ \A i \in DOMAIN received[o] : received'[o][i] = received[o][i]
  /\ received'[o][Len(received[o]) + 1] = [from |-> s, no |-> task[s].no]

(* Whose distribution is at work, and which message it carries, changes    *)
(* only when one begins or ends; every new arrival is of one at work.      *)
LEMMA MessageSteps ==
  ASSUME IndInv, [Next]_vars
  PROVE  /\ published' \in Nat /\ published \in Nat /\ published' >= published
         /\ \A s \in Sockets : Distributing(s)' => GoesOn(s) \/ Begins(s)
         /\ \A o \in Sockets :
              received'[o] = received[o] \/ \E s \in Sockets : Arrival(s, o)
<1>0. Shape /\ Shape' /\ published \in Nat
  BY ShapeStep DEF IndInv, Shape
<1> DEFINE
      Goal == /\ published' \in Nat /\ published' >= published
              /\ \A s \in Sockets : Distributing(s)' => GoesOn(s) \/ Begins(s)
              /\ \A o \in Sockets :
                   received'[o] = received[o] \/ \E s \in Sockets : Arrival(s, o)
<1>1. ASSUME UNCHANGED vars PROVE Goal
  BY <1>0, <1>1 DEF vars, Distributing, GoesOn
<1>2. ASSUME NEW s \in Sockets, Publish(s) PROVE Goal
  <2>1. \A c \in Sockets : c # s /\ Distributing(c)' => GoesOn(c)
    BY <1>0, <1>2, PublishSteps DEF Publish, Distributing, GoesOn, Shape
  <2>2. ~Distributing(s) /\ UNCHANGED <<registry, link, received>>
    BY <1>2 DEF Publish, Distributing
  <2>3. Begins(s)
    BY <1>2, <2>1, <2>2, PublishSteps DEF Begins
  <2> QED
    BY <1>0, <1>2, <2>1, <2>2, <2>3, PublishSteps
<1>3. ASSUME NEW s \in Sockets, Send(s) PROVE Goal
  <2>1. handler' = handler /\ published' = published /\ Distributing(s)
    BY <1>3 DEF Send, Pending, Distributing
  <2>2. PICK o \in task[s].socks :
          /\ Arrives(s, o) /\ o \in Sockets
          /\ \A c \in Sockets : c # s => task'[c] = task[c]
          /\ task'[s].no = task[s].no /\ task'[s].topic = task[s].topic
          /\ task'[s].audience = task[s].audience
    BY <1>3, SendSteps
  <2>3. \A c \in Sockets : c # o => received'[c] = received[c]
    BY <1>0, <2>2, ArrivalSteps
  <2>4. \A c \in Sockets : Distributing(c)' => GoesOn(c)
    BY <2>1, <2>2 DEF Distributing, GoesOn
  <2>5. received'[o] = received[o] \/ Arrival(s, o)
    BY <1>0, <1>3, <2>1, <2>2, <2>4, ArrivalSteps DEF Arrival, Distributing
  <2> QED
    BY <1>0, <2>1, <2>3, <2>4, <2>5
<1>4. ASSUME NEW s \in Sockets, StepOf(s), ~Publish(s), ~Send(s) PROVE Goal
  <2>1. published' = published /\ received' = received
    BY <1>4 DEF StepOf, Accept, Connect, Subscribe, NextFilter, Distributed, Disconnect,
         EndOfStream,
         Cleanup, Break, FallSilent, ComeBack
  <2>2. CASE \/ Accept(s) \/ Connect(s) \/ Subscribe(s) \/ Disconnect(s) \/ EndOfStream(s)
             \/ Break(s) \/ FallSilent(s) \/ ComeBack(s)
    BY <1>0, <2>1, <2>2 DEF Shape, Accept, Connect, Subscribe, Disconnect, EndOfStream,
         Break, FallSilent, ComeBack, Acknowledge,
         Distributing, GoesOn
  <2>3. CASE NextFilter(s)
    <3>1. \A c \in Sockets : /\ task'[c].no = task[c].no /\ task'[c].topic = task[c].topic
                              /\ task'[c].audience = task[c].audience
      BY <2>3, NextFilterSteps
    <3>2. handler' = handler
      BY <2>3 DEF NextFilter
    <3> QED
      BY <1>0, <2>1, <3>1, <3>2 DEF Distributing, GoesOn
  <2>4. CASE Distributed(s)
    BY <1>0, <2>1, <2>4 DEF Shape, Distributed, Distributing, GoesOn
  <2>5. CASE Cleanup(s)
    BY <1>0, <2>1, <2>5, ForgetSteps DEF Shape, Cleanup, Distributing, GoesOn
  <2> QED
    BY <1>4, <2>2, <2>3, <2>4, <2>5 DEF StepOf
<1> HIDE DEF Goal
<1>5. Goal
  BY Steps, <1>1, <1>2, <1>3, <1>4
<1> QED
  BY <1>0, <1>5 DEF Goal

(* Numbers grow.                                                           *)
LEMMA NumberedStep == IndInv /\ [Next]_vars => Numbered'
<1> SUFFICES ASSUME IndInv, [Next]_vars PROVE Numbered'
  OBVIOUS
<1>0. Numbered /\ TypeOK' /\ Shape
  BY TypeStep DEF IndInv
<1>1. \A s \in Sockets : task'[s].no <= published'
  BY <1>0, MessageSteps DEF TypeOK
<1>t. /\ \A s \in Sockets : task[s].no \in Nat
      /\ \A o \in Sockets : \A i \in DOMAIN received[o] : received[o][i].no \in Nat
  <2>1. \A o \in Sockets : \A i \in DOMAIN received[o] : received[o][i] \in Messages
    BY <1>0, ElementOfSeq, LenProperties DEF Shape
  <2> QED
    BY <1>0, <2>1, BrokerAssumption DEF Shape, Tasks, Messages
<1>2. ASSUME NEW o \in Sockets, NEW i \in DOMAIN received'[o]
      PROVE  \/ i \in DOMAIN received[o] /\ received'[o][i] = received[o][i]
             \/ \E s \in Sockets : GoesOn(s) /\ Distributing(s)
                   /\ received'[o][i] = [from |-> s, no |-> task[s].no]
  <2>1. CASE received'[o] = received[o]
    BY <1>2, <2>1
  <2>2. ASSUME NEW s \in Sockets, Arrival(s, o)
        PROVE  \/ i \in DOMAIN received[o] /\ received'[o][i] = received[o][i]
               \/ received'[o][i] = [from |-> s, no |-> task[s].no]
    BY <1>2, <2>2 DEF Arrival
  <2> QED
    BY <2>1, <2>2, MessageSteps DEF Arrival
<1>3. \A o \in Sockets : \A i \in DOMAIN received'[o] : received'[o][i].no <= published'
  <2>1. \A s \in Sockets : task[s].no <= published
    BY <1>0 DEF Numbered
  <2>2. \A o \in Sockets : \A i \in DOMAIN received[o] : received[o][i].no <= published
    BY <1>0 DEF Numbered
  <2>3. ASSUME NEW o \in Sockets, NEW i \in DOMAIN received'[o]
        PROVE  received'[o][i].no <= published /\ received'[o][i].no \in Nat
    <3>1. CASE i \in DOMAIN received[o] /\ received'[o][i] = received[o][i]
      BY <1>t, <2>2, <3>1
    <3>2. ASSUME NEW s \in Sockets, received'[o][i] = [from |-> s, no |-> task[s].no]
          PROVE  received'[o][i].no <= published /\ received'[o][i].no \in Nat
      BY <1>t, <2>1, <3>2
    <3> QED
      BY <1>2, <3>1, <3>2
  <2> QED
    BY <2>3, MessageSteps
<1>4. ASSUME NEW s \in Sockets, NEW o \in Sockets, NEW i \in DOMAIN received'[o],
             Distributing(s)', received'[o][i].from = s
      PROVE  received'[o][i].no <= task'[s].no
  <2>1. CASE GoesOn(s)
    <3>1. task'[s].no = task[s].no /\ Distributing(s) /\ task[s].no \in Nat
      BY <1>t, <2>1 DEF GoesOn
    <3>2. CASE i \in DOMAIN received[o] /\ received'[o][i] = received[o][i]
      BY <1>0, <1>4, <3>1, <3>2 DEF Numbered
    <3>3. CASE \E c \in Sockets : received'[o][i] = [from |-> c, no |-> task[c].no]
      BY <1>4, <3>1, <3>3
    <3> QED
      BY <1>2, <3>2, <3>3
  <2>2. CASE Begins(s)
    BY <1>0, <1>t, <1>4, <2>2, MessageSteps DEF Numbered, Begins
  <2> QED
    BY <1>4, <2>1, <2>2, MessageSteps
<1>5. ASSUME NEW s \in Sockets, NEW o \in Sockets, Distributing(s)', Distributing(o)',
             task'[s].no = task'[o].no
      PROVE  s = o
  <2>1. CASE GoesOn(s) /\ GoesOn(o)
    BY <1>0, <1>5, <2>1 DEF Numbered, GoesOn
  <2>2. CASE Begins(s) \/ Begins(o)
    BY <1>0, <1>t, <1>5, <2>2, MessageSteps DEF Numbered, Begins, GoesOn
  <2> QED
    BY <1>5, <2>1, <2>2, MessageSteps
<1> QED
  BY <1>1, <1>3, <1>4, <1>5 DEF Numbered

(* distribute() leaves out the socket it was called for.                   *)
LEMMA NotToItselfStep == IndInv /\ [Next]_vars => NotToItself'
<1> SUFFICES ASSUME IndInv, [Next]_vars PROVE NotToItself'
  OBVIOUS
<1>0. NotToItself /\ Shape
  BY DEF IndInv
<1>1. CASE UNCHANGED task
  BY <1>0, <1>1 DEF NotToItself
<1>2. ASSUME NEW s \in Sockets, Publish(s) PROVE NotToItself'
  BY <1>0, <1>2, PublishSteps DEF NotToItself
<1>3. ASSUME NEW s \in Sockets, NextFilter(s) PROVE NotToItself'
  BY <1>0, <1>3, NextFilterSteps DEF NotToItself
<1>4. ASSUME NEW s \in Sockets, Send(s) PROVE NotToItself'
  BY <1>0, <1>4, SendSteps DEF NotToItself
<1>5. ASSUME NEW s \in Sockets, Distributed(s) PROVE NotToItself'
  BY <1>0, <1>5 DEF NotToItself, Shape, Distributed, NoTask
<1>6. ASSUME NEW s \in Sockets, Cleanup(s) PROVE NotToItself'
  BY <1>0, <1>6, ForgetSteps DEF NotToItself, Cleanup
<1> QED
  BY Steps, <1>1, <1>2, <1>3, <1>4, <1>5, <1>6
     DEF StepOf, Accept, Connect, Subscribe, Disconnect, EndOfStream, Break, FallSilent,
          ComeBack, vars

(* What arrives last of a publisher is its newest.                         *)
LEMMA OrderStep == IndInv /\ [Next]_vars => PublisherOrder'
<1> SUFFICES ASSUME IndInv, [Next]_vars, NEW o \in Sockets,
                    NEW i \in DOMAIN received'[o], NEW j \in DOMAIN received'[o]
             PROVE  /\ received'[o][i].from # o
                    /\ (i < j /\ received'[o][i].from = received'[o][j].from)
                         => received'[o][i].no <= received'[o][j].no
  BY DEF PublisherOrder
<1>0. PublisherOrder /\ Numbered /\ NotToItself
  BY DEF IndInv
<1>1. CASE received'[o] = received[o]
  BY <1>0, <1>1 DEF PublisherOrder
<1>2. ASSUME NEW s \in Sockets, Arrival(s, o)
      PROVE  /\ received'[o][i].from # o
             /\ (i < j /\ received'[o][i].from = received'[o][j].from)
                  => received'[o][i].no <= received'[o][j].no
  <2>1. s # o
    BY <1>0, <1>2 DEF NotToItself, Arrival
  <2>2. CASE i \in DOMAIN received[o] /\ j \in DOMAIN received[o]
    BY <1>0, <1>2, <2>2 DEF PublisherOrder, Arrival
  <2>3. CASE i \in DOMAIN received[o] /\ j = Len(received[o]) + 1
    BY <1>0, <1>2, <2>3 DEF PublisherOrder, Numbered, Arrival
  <2>4. CASE i = Len(received[o]) + 1
    BY <1>2, <2>1, <2>4 DEF Arrival
  <2> QED
    BY <1>2, <2>2, <2>3, <2>4 DEF Arrival
<1> QED
  BY <1>1, <1>2, MessageSteps

-----------------------------------------------------------------------------
(* WHO GETS A MESSAGE                                                      *)

(* A connection that lasts stays registered and keeps its filters.         *)
LEMMA HoldsGrow ==
  ASSUME IndInv, [Next]_vars, NEW o \in Sockets, link'[o] # "down"
  PROVE  /\ link[o] # "down"
         /\ o \in DOMAIN clients => o \in DOMAIN clients' /\ clients[o] \subseteq clients'[o]
<1>0. Shape
  BY DEF IndInv
<1>1. CASE UNCHANGED <<clients, link>>
  BY <1>1
<1>2. ASSUME NEW s \in Sockets, Connect(s) \/ Subscribe(s)
      PROVE  /\ link' = link
             /\ o \in DOMAIN clients => o \in DOMAIN clients' /\ clients[o] \subseteq clients'[o]
  BY <1>2 DEF Connect, Put, Subscribe
<1>3. ASSUME NEW s \in Sockets, Cleanup(s)
      PROVE  /\ link[o] # "down"
             /\ o \in DOMAIN clients => o \in DOMAIN clients' /\ clients[o] \subseteq clients'[o]
  BY <1>0, <1>3 DEF Cleanup, Shape
<1>4. ASSUME NEW s \in Sockets, Break(s) \/ FallSilent(s) \/ ComeBack(s)
      PROVE  link[o] # "down" /\ clients' = clients
  BY <1>0, <1>4 DEF Break, FallSilent, ComeBack, Shape, registry
<1> QED
  BY Steps, <1>1, <1>2, <1>3, <1>4
     DEF StepOf, Accept, Publish, NextFilter, Send, Distributed, Disconnect, EndOfStream,
          registry, vars

(* Each SUBSCRIBE adds one filter.                                         *)
LEMMA FiniteStep == IndInv /\ [Next]_vars => FiniteHolds'
<1> SUFFICES ASSUME IndInv, [Next]_vars PROVE FiniteHolds'
  OBVIOUS
<1>0. FiniteHolds
  BY DEF IndInv
<1>1. CASE UNCHANGED clients
  BY <1>0, <1>1 DEF FiniteHolds
<1>2. ASSUME NEW s \in Sockets, Connect(s) PROVE FiniteHolds'
  BY <1>0, <1>2, FS_EmptySet DEF FiniteHolds, Connect, Put
<1>3. ASSUME NEW s \in Sockets, Subscribe(s) PROVE FiniteHolds'
  <2>1. PICK f \in Wants[s] : clients' = [clients EXCEPT ![s] = @ \cup {f}]
    BY <1>3 DEF Subscribe
  <2>2. s \in DOMAIN clients => IsFiniteSet(clients[s] \cup {f})
    BY <1>0, FS_AddElement DEF FiniteHolds
  <2> QED
    BY <1>0, <2>1, <2>2 DEF FiniteHolds
<1>4. ASSUME NEW s \in Sockets, Cleanup(s) PROVE FiniteHolds'
  BY <1>0, <1>4 DEF FiniteHolds, Cleanup
<1> QED
  BY Steps, <1>1, <1>2, <1>3, <1>4
     DEF StepOf, Accept, Publish, NextFilter, Send, Distributed, Disconnect, EndOfStream,
          Break, FallSilent, ComeBack,
         registry, vars

(* Nobody unsubscribes but by going away.                                  *)
LEMMA AudienceStep == IndInv /\ [Next]_vars => AudienceStays'
<1> SUFFICES ASSUME IndInv, [Next]_vars, NEW s \in Sockets, NEW o \in Sockets,
                    NEW f \in Filters, Distributing(s)', <<o, f>> \in task'[s].audience,
                    link'[o] # "down"
             PROVE  /\ o \in DOMAIN clients' /\ f \in clients'[o]
                    /\ TopicMatches(f, task'[s].topic)
  BY DEF AudienceStays
<1>1. CASE GoesOn(s)
  BY <1>1, HoldsGrow DEF GoesOn, IndInv, AudienceStays
<1>2. CASE Begins(s)
  <2>1. /\ f \in DOMAIN subscribers /\ o \in subscribers[f]
        /\ TopicMatches(f, task'[s].topic)
    BY <1>2, AudienceType DEF Begins
  <2> QED
    BY <1>2, <2>1 DEF Begins, registry, IndInv, RegistryAgrees
<1> QED
  BY <1>1, <1>2, MessageSteps

(* How many messages with a number are in a sequence.                      *)
NumberIn(list, n) == Cardinality({i \in DOMAIN list : list[i].no = n})

(* The count is finite, and an arrival adds one to that of its number.     *)
LEMMA NumberInType ==
  ASSUME NEW S, NEW list \in Seq(S), NEW n
  PROVE  NumberIn(list, n) \in Nat /\ IsFiniteSet({i \in DOMAIN list : list[i].no = n})
<1>1. DOMAIN list = 1..Len(list) /\ Len(list) \in Nat
  OBVIOUS
<1>2. IsFiniteSet(1..Len(list))
  BY <1>1, FS_Interval
<1>3. {i \in DOMAIN list : list[i].no = n} \in SUBSET (1..Len(list))
  BY <1>1
<1>4. IsFiniteSet({i \in DOMAIN list : list[i].no = n})
  BY <1>2, <1>3, FS_Subset
<1> QED
  BY <1>4, FS_CardinalityType DEF NumberIn

(* A packet that arrives is counted once under its own number, and under   *)
(* no other.                                                               *)
LEMMA NumberInArrival ==
  ASSUME IndInv, NEW s \in Sockets, NEW o \in Sockets, Arrival(s, o), NEW n
  PROVE  NumberIn(received'[o], n) =
           NumberIn(received[o], n) + IF n = task[s].no THEN 1 ELSE 0
<1> DEFINE old == {i \in DOMAIN received[o] : received[o][i].no = n}
           new == {i \in DOMAIN received'[o] : received'[o][i].no = n}
           last == Len(received[o]) + 1
<1>1. IsFiniteSet(old) /\ NumberIn(received[o], n) \in Nat
  <2>1. received[o] \in Seq(Messages)
    BY DEF IndInv, Shape
  <2> QED
    BY <2>1, NumberInType
<1>2. /\ \A i \in DOMAIN received[o] :
            i \in DOMAIN received'[o] /\ received'[o][i] = received[o][i]
      /\ \A i \in DOMAIN received'[o] : i \in DOMAIN received[o] \/ i = last
      /\ last \in DOMAIN received'[o] /\ last \notin DOMAIN received[o]
      /\ received'[o][last].no = task[s].no
  BY DEF Arrival
<1>3. CASE n = task[s].no
  <2>1. new = old \cup {last} /\ last \notin old
    BY <1>2, <1>3
  <2>2. Cardinality(new) = Cardinality(old) + 1
    BY <1>1, <2>1, FS_AddElement
  <2> QED
    BY <1>3, <2>2 DEF NumberIn
<1>4. CASE n # task[s].no
  <2>1. new = old
    BY <1>2, <1>4
  <2>2. NumberIn(received'[o], n) = NumberIn(received[o], n)
    BY <2>1 DEF NumberIn
  <2> QED
    BY <1>1, <1>4, <2>2
<1> QED
  BY <1>3, <1>4

(* What a step of another thread may do to the distribution of s.          *)
LEMMA OtherSteps ==
  ASSUME IndInv, [Next]_vars, NEW s \in Sockets, Distributing(s), Distributing(s)',
         ~NextFilter(s), ~Send(s)
  PROVE  /\ task'[s].socks = task[s].socks
         /\ task'[s].filters \subseteq task[s].filters
         /\ \A f \in task[s].filters \ task'[s].filters : f \notin DOMAIN subscribers'
<1>0. Shape
  BY DEF IndInv
<1>1. CASE UNCHANGED vars
  BY <1>1 DEF vars
<1>2. ASSUME NEW c \in Sockets, Cleanup(c)
      PROVE  /\ task'[s].socks = task[s].socks
             /\ task'[s].filters \subseteq task[s].filters
             /\ \A f \in task[s].filters \ task'[s].filters : f \notin DOMAIN subscribers'
  BY <1>2, ForgetSteps DEF Cleanup
<1>3. ASSUME NEW c \in Sockets, NextFilter(c) \/ Send(c) \/ Publish(c) \/ Distributed(c)
      PROVE  task'[s] = task[s]
  <2>1. c # s
    BY <1>0, <1>3 DEF Publish, Distributed, Distributing, Shape
  <2>2. CASE NextFilter(c) \/ Send(c) \/ Publish(c)
    BY <2>1, <2>2, NextFilterSteps, SendSteps, PublishSteps
  <2>3. CASE Distributed(c)
    BY <1>0, <2>1, <2>3 DEF Distributed, Shape
  <2> QED
    BY <1>3, <2>2, <2>3
<1>4. ASSUME NEW c \in Sockets,
             Accept(c) \/ Connect(c) \/ Subscribe(c) \/ Disconnect(c) \/ EndOfStream(c)
             \/ Break(c) \/ FallSilent(c) \/ ComeBack(c)
      PROVE  task' = task
  BY <1>4 DEF Accept, Connect, Subscribe, Disconnect, EndOfStream, Break, FallSilent,
       ComeBack
<1> QED
  BY Steps, <1>1, <1>2, <1>3, <1>4 DEF StepOf

(* Serving a filter and its sockets keeps the count between what was held  *)
(* when the distribution began and what is held now.                       *)
LEMMA ServedStep == IndInv /\ [Next]_vars => Served'
<1> SUFFICES ASSUME IndInv, [Next]_vars, NEW s \in Sockets, NEW o \in Sockets \ {s},
                    Distributing(s)', link'[o] # "down"
             PROVE  /\ Cardinality(VisitedOfAudience(s, o)') <= Copies(s, o)'
                    /\ Copies(s, o)' <= Cardinality(VisitedOfHeld(s, o)')
  BY DEF Served
<1> DEFINE
      was == {f \in Filters : <<o, f>> \in task[s].audience} \ task[s].filters
      was2 == {f \in Filters : <<o, f>> \in task'[s].audience} \ task'[s].filters
      held == IF o \in DOMAIN clients THEN clients[o] ELSE {}
      held2 == IF o \in DOMAIN clients' THEN clients'[o] ELSE {}
      has == {f \in held : TopicMatches(f, task[s].topic)} \ task[s].filters
      has2 == {f \in held2 : TopicMatches(f, task'[s].topic)} \ task'[s].filters
      copies == NumberIn(received[o], task[s].no) + IF o \in task[s].socks THEN 1 ELSE 0
      copies2 == NumberIn(received'[o], task'[s].no) + IF o \in task'[s].socks THEN 1 ELSE 0
<1>0. /\ was2 = VisitedOfAudience(s, o)' /\ has2 = VisitedOfHeld(s, o)'
      /\ copies2 = Copies(s, o)'
  BY DEF VisitedOfAudience, VisitedOfHeld, Copies, Times, NumberIn
<1>1. /\ was = VisitedOfAudience(s, o) /\ has = VisitedOfHeld(s, o)
      /\ copies = Copies(s, o)
  BY DEF VisitedOfAudience, VisitedOfHeld, Copies, Times, NumberIn
<1>2. SUFFICES Cardinality(was2) <= copies2 /\ copies2 <= Cardinality(has2)
  BY <1>0
<1>3. CASE Begins(s)
  <2>1. was2 = {} /\ has2 = {}
    BY <1>3, AudienceType, RegistryFacts DEF Begins, registry, IndInv, RegistryAgrees
  <2>2. copies2 = 0
    <3>1. {i \in DOMAIN received[o] : received[o][i].no = published + 1} = {}
      <4>1. \A i \in DOMAIN received[o] : received[o][i].no <= published
        BY DEF IndInv, Numbered
      <4>2. published \in Nat
        BY DEF IndInv, Shape
      <4> QED
        BY <4>1, <4>2
    <3> QED
      <4>1. NumberIn(received[o], published + 1) = 0
        BY <3>1, FS_EmptySet DEF NumberIn
      <4> QED
        BY <1>3, <4>1 DEF Begins
  <2> HIDE DEF copies2, was2, has2
  <2> QED
    BY <2>1, <2>2, FS_EmptySet
<1>4. CASE GoesOn(s)
  <2> DEFINE t == task[s]  t2 == task'[s]
  <2>1. /\ Distributing(s) /\ t2.no = t.no /\ t2.topic = t.topic /\ t2.audience = t.audience
        /\ link[o] # "down" /\ held \subseteq held2
    BY <1>4, HoldsGrow DEF GoesOn
  <2>2. IsFiniteSet(held) /\ IsFiniteSet(held2)
    BY FiniteStep, FS_EmptySet DEF IndInv, FiniteHolds
  <2>3. was \subseteq held /\ was2 \subseteq held2
    BY <2>1, AudienceStep DEF IndInv, AudienceStays
  <2>4. /\ IsFiniteSet(was) /\ IsFiniteSet(was2) /\ IsFiniteSet(has) /\ IsFiniteSet(has2)
        /\ Cardinality(was) \in Nat /\ Cardinality(has) \in Nat
        /\ Cardinality(was2) \in Nat /\ Cardinality(has2) \in Nat
    <3>1. /\ was \in SUBSET held /\ was2 \in SUBSET held2
          /\ has \in SUBSET held /\ has2 \in SUBSET held2
      BY <2>3
    <3> HIDE DEF was, was2, has, has2, held, held2
    <3>2. IsFiniteSet(was) /\ IsFiniteSet(was2) /\ IsFiniteSet(has) /\ IsFiniteSet(has2)
      BY <2>2, <3>1, FS_Subset
    <3> QED
      BY <3>2, FS_CardinalityType
  <2>5. Cardinality(was) <= copies /\ copies <= Cardinality(has)
    BY <1>1, <2>1 DEF IndInv, Served
  <2>6. NumberIn(received[o], t.no) \in Nat
    BY NumberInType DEF IndInv, Shape
  <2>7. CASE NextFilter(s)
    <3>1. PICK f \in t.filters :
            /\ t2.filters = t.filters \ {f}
            /\ t2.socks = IF TopicMatches(f, t.topic) THEN subscribers[f] \ {s} ELSE {}
      BY <2>7, NextFilterSteps
    <3>2. /\ received' = received /\ clients' = clients /\ subscribers' = subscribers
          /\ t.socks = {}
      BY <2>7 DEF NextFilter, registry
    <3>3. /\ f \in DOMAIN subscribers /\ f \in Filters
          /\ o \in subscribers[f] <=> f \in held
      BY <3>1, RegistryFacts DEF IndInv, TypeOK, RegistryAgrees
    <3>4. o \in t2.socks <=> f \in held /\ TopicMatches(f, t.topic)
      BY <3>1, <3>3
    <3>5. copies2 = copies + IF o \in t2.socks THEN 1 ELSE 0
      BY <2>1, <2>6, <3>2
    <3>6. /\ was2 = was \cup (IF <<o, f>> \in t.audience THEN {f} ELSE {})
          /\ f \notin was
      BY <2>1, <3>1, <3>3
    <3>7. /\ has2 = has \cup (IF o \in t2.socks THEN {f} ELSE {})
          /\ f \notin has
      BY <2>1, <3>1, <3>2, <3>4
    <3>8. <<o, f>> \in t.audience => o \in t2.socks
      <4>1. <<o, f>> \in t.audience => f \in held /\ TopicMatches(f, t.topic)
        BY <2>1, <3>3 DEF IndInv, AudienceStays
      <4> QED
        BY <3>4, <4>1
    <3> HIDE DEF was, was2, has, has2, copies, copies2, held, held2, t, t2
    <3>9. Cardinality(was2) = Cardinality(was) + IF <<o, f>> \in t.audience THEN 1 ELSE 0
      <4>1. Cardinality(was \cup {f}) = Cardinality(was) + 1
        BY <2>4, <3>6, FS_AddElement
      <4> QED
        BY <2>4, <3>6, <4>1
    <3>10. Cardinality(has2) = Cardinality(has) + IF o \in t2.socks THEN 1 ELSE 0
      <4>1. Cardinality(has \cup {f}) = Cardinality(has) + 1
        BY <2>4, <3>7, FS_AddElement
      <4>2. CASE o \in t2.socks
        BY <3>7, <4>1, <4>2
      <4>3. CASE o \notin t2.socks
        <5>1. has2 = has /\ Cardinality(has) \in Nat
          BY <2>4, <3>7, <4>3, FS_CardinalityType
        <5> QED
          BY <4>3, <5>1
      <4> QED
        BY <4>2, <4>3
    <3>11. copies \in Nat
      BY <2>6 DEF copies, t
    <3> QED
      BY <2>4, <2>5, <3>5, <3>8, <3>9, <3>10, <3>11
  <2>8. CASE Send(s)
    <3>1. PICK c \in t.socks :
            /\ Arrives(s, c) /\ c \in Sockets
            /\ t2.filters = t.filters /\ t2.socks = t.socks \ {c}
      BY <2>8, SendSteps
    <3>2. was2 = was /\ has2 = has
      BY <2>1, <2>8, <3>1 DEF Send, registry
    <3>3. copies2 = copies
      <4>1. CASE c = o
        <5>1. Arrival(s, o)
          BY <1>4, <2>1, <2>8, <3>1, <4>1, ArrivalSteps DEF Arrival, IndInv
        <5>2. NumberIn(received'[o], t.no) = NumberIn(received[o], t.no) + 1
          BY <5>1, NumberInArrival
        <5> QED
          BY <2>1, <2>6, <3>1, <4>1, <5>2
      <4>2. CASE c # o
        BY <2>1, <3>1, <4>2, ArrivalSteps DEF IndInv
      <4> QED
        BY <4>1, <4>2
    <3> QED
      BY <2>5, <3>2, <3>3
  <2>9. CASE ~NextFilter(s) /\ ~Send(s)
    <3>1. /\ t2.socks = t.socks /\ t2.filters \subseteq t.filters
          /\ \A f \in t.filters \ t2.filters : f \notin DOMAIN subscribers'
      BY <2>1, <2>9, OtherSteps
    <3>2. NumberIn(received'[o], t.no) = NumberIn(received[o], t.no)
      <4>1. CASE received'[o] = received[o]
        BY <4>1
      <4>2. ASSUME NEW c \in Sockets, Arrival(c, o)
            PROVE  NumberIn(received'[o], t.no) = NumberIn(received[o], t.no)
        <5>1. CASE c # s
          <6>1. task[c].no # t.no
            BY <2>1, <4>2, <5>1 DEF Arrival, IndInv, Numbered
          <6>2. NumberIn(received'[o], t.no) = NumberIn(received[o], t.no) + 0
            BY <4>2, <6>1, NumberInArrival
          <6> QED
            BY <2>6, <6>2
        <5>2. c # s
          BY <2>9, <4>2 DEF Arrival
        <5> QED
          BY <5>1, <5>2
      <4> QED
        BY <4>1, <4>2, MessageSteps
    <3>3. copies2 = copies
      BY <2>1, <3>1, <3>2
    <3>4. was2 = was
      <4>1. \A f \in was2 : f \in DOMAIN subscribers'
        BY <2>1, <2>3, RegistryStep DEF IndInv, RegistryAgrees
      <4>2. was \subseteq was2
        BY <2>1, <3>1
      <4> QED
        BY <2>1, <3>1, <4>1, <4>2
    <3>5. has \in SUBSET has2
      BY <2>1, <3>1
    <3>6. Cardinality(has) <= Cardinality(has2)
      BY <2>4, <3>5, FS_Subset
    <3>7. copies \in Nat
      BY <2>6
    <3> HIDE DEF was, was2, has, has2, copies, copies2
    <3> QED
      BY <2>4, <2>5, <3>3, <3>4, <3>6, <3>7
  <2> QED
    BY <2>7, <2>8, <2>9
<1> QED
  BY <1>3, <1>4, MessageSteps

-----------------------------------------------------------------------------
(* THE THEOREMS                                                            *)

(* The invariant holds at the start ...                                    *)
LEMMA Start == Init => IndInv
<1> SUFFICES ASSUME Init PROVE IndInv
  OBVIOUS
<1> USE BrokerAssumption DEF Init
<1>1. Shape
  BY EmptySeq DEF Shape, NoTask, Tasks
<1>2. DOMAIN clients = {} /\ DOMAIN subscribers = {}
  OBVIOUS
<1>3. \A o \in Sockets : DOMAIN received[o] = {}
  OBVIOUS
<1>4. TypeOK
  BY <1>2 DEF TypeOK, NoTask
<1>5. RegistryAgrees /\ FiniteHolds
  BY <1>2 DEF RegistryAgrees, FiniteHolds
<1>6. PublisherOrder
  BY <1>3 DEF PublisherOrder
<1>7. Numbered
  BY <1>3 DEF Numbered, Distributing, NoTask
<1>8. NotToItself /\ AudienceStays /\ Served
  BY DEF NotToItself, AudienceStays, Served, Distributing, NoTask
<1> QED
  BY <1>1, <1>4, <1>5, <1>6, <1>7, <1>8 DEF IndInv

(* ... and every step keeps it.                                            *)
LEMMA Invariance == Spec => []IndInv
<1>1. IndInv /\ [Next]_vars => IndInv'
  BY ShapeStep, TypeStep, RegistryStep, OrderStep, NumberedStep, NotToItselfStep, FiniteStep,
     AudienceStep, ServedStep DEF IndInv
<1> QED
  BY Start, <1>1, PTL DEF Spec

(* Every variable keeps its type; only live connections are registered.    *)
THEOREM TypeCorrect == Spec => []TypeOK
<1>1. IndInv => TypeOK
  BY DEF IndInv
<1> QED
  BY Invariance, <1>1, PTL

(* The two indexes of the registry always agree, and a filter without a    *)
(* subscriber is gone.                                                     *)
THEOREM RegistryCorrect == Spec => []RegistryAgrees
<1>1. IndInv => RegistryAgrees
  BY DEF IndInv
<1> QED
  BY Invariance, <1>1, PTL

(* Messages of one publisher arrive in their order and never at itself.    *)
THEOREM OrderCorrect == Spec => []PublisherOrder
<1>1. IndInv => PublisherOrder
  BY DEF IndInv
<1> QED
  BY Invariance, <1>1, PTL

(* When a distribution ends, every connection that lasted has the message  *)
(* once for each matching filter that it held at the start, and no more    *)
(* often than for each that it holds now, whatever else the registry has   *)
(* gone through meanwhile.                                                 *)
THEOREM AudienceIsServed == Spec => AudienceServed
<1> DEFINE ServedBy(s, o) ==
      Distributed(s) /\ link[o] # "down" =>
        /\ Cardinality({f \in Wants[o] : <<o, f>> \in task[s].audience}) <= Times(task[s].no, o)
        /\ Times(task[s].no, o) <= Holds(o, task[s].topic)
<1>1. ASSUME IndInv, NEW s \in Sockets, NEW o \in Sockets \ {s} PROVE ServedBy(s, o)
  <2> SUFFICES ASSUME Distributed(s), link[o] # "down"
               PROVE  /\ Cardinality({f \in Wants[o] : <<o, f>> \in task[s].audience})
                           <= Times(task[s].no, o)
                      /\ Times(task[s].no, o) <= Holds(o, task[s].topic)
    OBVIOUS
  <2> DEFINE wanted == {f \in Wants[o] : <<o, f>> \in task[s].audience}
             held == IF o \in DOMAIN clients THEN clients[o] ELSE {}
  <2>1. /\ Distributing(s) /\ task[s].filters = {} /\ task[s].socks = {}
    BY <1>1 DEF Distributed, Distributing
  <2>2. received[o] \in Seq(Messages)
    BY <1>1 DEF IndInv, Shape
  <2>3. Times(task[s].no, o) \in Nat /\ Copies(s, o) = Times(task[s].no, o)
    <3>1. Times(task[s].no, o) = NumberIn(received[o], task[s].no)
      BY DEF Times, NumberIn
    <3>2. NumberIn(received[o], task[s].no) \in Nat
      BY <2>2, NumberInType
    <3> QED
      BY <2>1, <3>1, <3>2 DEF Copies
  <2>4. VisitedOfAudience(s, o) \in SUBSET held /\ IsFiniteSet(held)
    BY <1>1, <2>1, FS_EmptySet DEF VisitedOfAudience, IndInv, AudienceStays, FiniteHolds
  <2>5. wanted \in SUBSET VisitedOfAudience(s, o)
    BY <1>1, <2>1, RegistryFacts DEF VisitedOfAudience
  <2>6. Cardinality(wanted) <= Cardinality(VisitedOfAudience(s, o))
    <3>1. IsFiniteSet(VisitedOfAudience(s, o))
      BY <2>4, FS_Subset
    <3> QED
      BY <2>5, <3>1, FS_Subset
  <2>7. Cardinality(VisitedOfHeld(s, o)) = Holds(o, task[s].topic)
    BY <2>1, FS_EmptySet DEF VisitedOfHeld, Holds
  <2>8. /\ Cardinality(VisitedOfAudience(s, o)) <= Copies(s, o)
        /\ Copies(s, o) <= Cardinality(VisitedOfHeld(s, o))
    BY <1>1, <2>1 DEF IndInv, Served
  <2>9. Cardinality(wanted) \in Nat /\ Cardinality(VisitedOfAudience(s, o)) \in Nat
    <3>1. IsFiniteSet(VisitedOfAudience(s, o))
      BY <2>4, FS_Subset
    <3>2. IsFiniteSet(wanted)
      BY <2>5, <3>1, FS_Subset
    <3> QED
      BY <3>1, <3>2, FS_CardinalityType
  <2> HIDE DEF wanted
  <2>10. /\ Cardinality(wanted) <= Times(task[s].no, o)
         /\ Times(task[s].no, o) <= Holds(o, task[s].topic)
    BY <2>3, <2>6, <2>7, <2>8, <2>9
  <2> QED
    BY <2>10 DEF wanted
<1>2. IndInv => [\A s \in Sockets : \A o \in Sockets \ {s} : ServedBy(s, o)]_vars
  BY <1>1
<1> QED
  BY <1>2, Invariance, PTL DEF AudienceServed
=============================================================================
