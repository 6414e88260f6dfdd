---------------------------- MODULE SystemProofs ----------------------------
(***************************************************************************)
(* Proofs about System: for every number of presses, messages and failures *)
(* and every size of the device's queue, commands and events each go       *)
(* through a mailbox, what is lost is lost in the ways that are named, and *)
(* an answer in the store is explained there.                              *)
(***************************************************************************)
EXTENDS System, SequenceLemmas

Packets == [kind : {"subscribe", "command", "event"}, no : Nat]
Lines == [kind : {"sent", "event"}, no : Nat]
Answered == {n \in Presses : requests[n] \in {"published", "logged"}}

(* What the variables are made of.                                         *)
Shape ==
  /\ link \in [Clients -> Links] /\ broker \in BOOLEAN /\ subscribed \subseteq Clients
  /\ up \in [Clients -> Seq(Packets)] /\ down \in [Clients -> Seq(Packets)]
  /\ requests \in [Presses -> {"none", "received", "published", "logged"}]
  /\ shown \in [Presses -> {"nothing", "sending", "sent", "error"}]
  /\ events \in Seq(Lines)
  /\ queue \in Seq(Nat) /\ passed \in Nat /\ passed + Len(queue) <= MaxQueue
  /\ reporting \in {"no", "publish", "store"}
  /\ executed \in Seq(Nat) /\ reports \in Seq(0..MaxPresses)
  /\ incidents \in 0..MaxIncidents

(* Packets and subscriptions need a connection, and a connection the       *)
(* broker; who has sent a subscription is in on_connect, or through.       *)
Through == {"flushing", "clearing", "ready"}
LinksSound ==
  /\ \A c \in Clients : Connected(c) => broker
  /\ \A c \in Clients : ~Connected(c) => up[c] = <<>> /\ down[c] = <<>>
  /\ \A c \in Clients : c \in subscribed \/ Of("subscribe", up[c]) # {} => link[c] \in Through

(* Each topic has one direction.                                           *)
KindsSound ==
  /\ Of("event", up["backend"]) = {} /\ Of("command", up["device"]) = {}
  /\ \A i \in DOMAIN down["device"] : down["device"][i].kind = "command"
  /\ \A i \in DOMAIN down["backend"] : down["backend"][i].kind = "event"

(* Presses are numbered in their order.                                    *)
PressesNumbered == \E k \in 0..MaxPresses : Pressed = 1..k

(* No number is twice among the packets of a kind.                         *)
Once(kind, packets) ==
  \A i, j \in DOMAIN packets :
    /\ packets[i].kind = kind /\ packets[j].kind = kind
    /\ packets[i].no = packets[j].no
    => i = j

(* A command is in one place at a time.                                    *)
CommandsOnce ==
  /\ Of("command", up["backend"]) \subseteq Answered
  /\ Of("command", down["device"]) \subseteq Answered
  /\ Of("command", up["backend"]) \cap Of("command", down["device"]) = {}
  /\ Once("command", up["backend"]) /\ Once("command", down["device"])

(* So is an event, and it is one that the device has reported.             *)
EventsOnce ==
  /\ Reported \subseteq DOMAIN reports /\ ToSet(queue) \subseteq DOMAIN reports
  /\ Of("event", up["device"]) \subseteq DOMAIN reports
  /\ Of("event", down["backend"]) \subseteq DOMAIN reports
  /\ Reported \cap ToSet(queue) = {} /\ Reported \cap Of("event", up["device"]) = {}
  /\ Reported \cap Of("event", down["backend"]) = {}
  /\ ToSet(queue) \cap Of("event", up["device"]) = {}
  /\ ToSet(queue) \cap Of("event", down["backend"]) = {}
  /\ Of("event", up["device"]) \cap Of("event", down["backend"]) = {}
  /\ \A i, j \in DOMAIN queue : queue[i] = queue[j] => i = j
  /\ Once("event", up["device"]) /\ Once("event", down["backend"])

(* What was logged is in the store; what the device answered was           *)
(* published; what is in the store as an event was reported.               *)
AnswersSound ==
  /\ \A n \in Presses : requests[n] = "logged" => Packet("sent", n) \in ToSet(events)
  /\ \A m \in DOMAIN reports : reports[m] # 0 => reports[m] \in Answered
  /\ \A p \in ToSet(events) : p.kind = "event" => p.no \in DOMAIN reports

IndInv ==
  /\ Shape /\ LinksSound /\ KindsSound /\ PressesNumbered
  /\ CommandsOnce /\ EventsOnce /\ AnswersSound

-----------------------------------------------------------------------------
(* Packets on their way.                                                   *)

(* No packets, no numbers.                                                 *)
LEMMA OfNone ==
  ASSUME NEW kind
  PROVE  Of(kind, <<>>) = {} /\ Once(kind, <<>>)
  BY DEF Of, Once, ToSet

(* The numbers of a kind, position by position.                            *)
LEMMA OfPositions ==
  ASSUME NEW kind, NEW q \in Seq(Packets)
  PROVE  Of(kind, q) = {q[i].no : i \in {j \in DOMAIN q : q[j].kind = kind}}
  BY DEF Of, ToSet

(* The numbers of a kind are numbers.                                      *)
LEMMA OfType ==
  ASSUME NEW kind, NEW q \in Seq(Packets)
  PROVE  Of(kind, q) \subseteq Nat
<1>1. \A p \in ToSet(q) : p \in Packets
  BY DEF ToSet
<1> QED
  BY <1>1 DEF Of, Packets

Numbers(kind, p) == {n \in {p.no} : p.kind = kind}

(* A packet more.                                                          *)
LEMMA OfAppend ==
  ASSUME NEW kind, NEW q \in Seq(Packets), NEW p \in Packets
  PROVE  /\ Append(q, p) \in Seq(Packets)
         /\ Of(kind, Append(q, p)) = Of(kind, q) \cup Numbers(kind, p)
         /\ Once(kind, q) /\ Of(kind, q) \cap Numbers(kind, p) = {}
              => Once(kind, Append(q, p))
<1>1. ToSet(Append(q, p)) = ToSet(q) \cup {p}
  BY AppendSet
<1>2. Of(kind, Append(q, p)) = Of(kind, q) \cup Numbers(kind, p)
  BY <1>1 DEF Of, Numbers
<1>3. ASSUME Once(kind, q), Of(kind, q) \cap Numbers(kind, p) = {},
             NEW i \in DOMAIN Append(q, p), NEW j \in DOMAIN Append(q, p),
             Append(q, p)[i].kind = kind, Append(q, p)[j].kind = kind,
             Append(q, p)[i].no = Append(q, p)[j].no
      PROVE  i = j
  <2>1. /\ DOMAIN q = 1..Len(q) /\ Len(q) \in Nat
        /\ DOMAIN Append(q, p) = 1..(Len(q) + 1)
        /\ \A k \in 1..Len(q) : Append(q, p)[k] = q[k]
        /\ Append(q, p)[Len(q) + 1] = p
    BY AppendProperties
  <2>2. ASSUME NEW k \in DOMAIN q, q[k].kind = kind PROVE q[k].no \in Of(kind, q)
    BY <2>2 DEF Of, ToSet
  <2>3. CASE i \in DOMAIN q /\ j \in DOMAIN q
    BY <1>3, <2>1, <2>3 DEF Once
  <2>4. CASE i \notin DOMAIN q /\ j \notin DOMAIN q
    BY <2>1, <2>4
  <2>5. CASE i \in DOMAIN q /\ j \notin DOMAIN q
    BY <1>3, <2>1, <2>2, <2>5 DEF Numbers
  <2>6. CASE i \notin DOMAIN q /\ j \in DOMAIN q
    BY <1>3, <2>1, <2>2, <2>6 DEF Numbers
  <2> QED
    BY <2>3, <2>4, <2>5, <2>6
<1>4. Once(kind, q) /\ Of(kind, q) \cap Numbers(kind, p) = {} => Once(kind, Append(q, p))
  BY <1>3 DEF Once
<1> QED
  BY <1>2, <1>4

(* A packet less.                                                          *)
LEMMA OfTail ==
  ASSUME NEW kind, NEW q \in Seq(Packets), q # <<>>
  PROVE  /\ Tail(q) \in Seq(Packets) /\ Head(q) \in Packets
         /\ Of(kind, q) = Of(kind, Tail(q)) \cup Numbers(kind, Head(q))
         /\ Once(kind, q) => /\ Once(kind, Tail(q))
                             /\ Of(kind, Tail(q)) \cap Numbers(kind, Head(q)) = {}
<1>1. /\ Tail(q) \in Seq(Packets) /\ Head(q) \in Packets /\ Head(q) = q[1]
      /\ Len(q) \in Nat \ {0} /\ DOMAIN q = 1..Len(q) /\ DOMAIN Tail(q) = 1..(Len(q) - 1)
      /\ \A i \in 1..(Len(q) - 1) : Tail(q)[i] = q[i + 1]
  BY HeadTailProperties
<1>2. ToSet(q) = {Head(q)} \cup ToSet(Tail(q))
  BY TailSet
<1>3. Of(kind, q) = Of(kind, Tail(q)) \cup Numbers(kind, Head(q))
  BY <1>2 DEF Of, Numbers
<1>4. ASSUME Once(kind, q) PROVE Once(kind, Tail(q))
  BY <1>1, <1>4 DEF Once
<1>5. ASSUME Once(kind, q), NEW n \in Of(kind, Tail(q)), n \in Numbers(kind, Head(q))
      PROVE  FALSE
  <2>1. PICK i \in DOMAIN Tail(q) : Tail(q)[i].kind = kind /\ Tail(q)[i].no = n
    BY <1>5 DEF Of, ToSet
  <2>2. q[i + 1].kind = kind /\ q[i + 1].no = n /\ q[1].kind = kind /\ q[1].no = n
    BY <1>1, <1>5, <2>1 DEF Numbers
  <2>3. i + 1 \in DOMAIN q /\ 1 \in DOMAIN q /\ i + 1 # 1
    BY <1>1, <2>1
  <2> QED
    BY <1>5, <2>2, <2>3 DEF Once
<1> QED
  BY <1>1, <1>3, <1>4, <1>5

-----------------------------------------------------------------------------
(* What the steps do.                                                      *)

(* Nothing that this module is about.                                      *)
Quiet == UNCHANGED <<up, down, subscribed, requests, events, device_vars>>

(* The connections of cs are lost, and the device's queue with its process.*)
Losing(cs) ==
  /\ Disconnect(cs)
  /\ UNCHANGED <<requests, events, executed, reports>>
  /\ \/ UNCHANGED <<queue, passed, reporting>>
     \/ /\ RestartDevice /\ "device" \in cs
        /\ queue' = <<>> /\ passed' = 0 /\ reporting' = "no"
  /\ (cs = Clients /\ broker' = FALSE) \/ broker' = broker

(* What the device does with an event.                                     *)
DeviceStep ==
  ReportOwn \/ PublishReport \/ StoreReport \/ FlushNext \/ Clear \/ HandleCommand

(* A step is one of these.                                                 *)
LEMMA Steps ==
  ASSUME [Next]_vars
  PROVE  \/ \E n \in Presses : Press(n) \/ PublishCommand(n) \/ LogSent(n)
         \/ \E cs \in SUBSET Clients : Losing(cs)
         \/ DeviceStep \/ AddEvent
         \/ \E c \in Clients : OnConnect(c) \/ Route(c)
         \/ Quiet
<1>1. ASSUME NEW n \in Presses, ShowSent(n) \/ ShowError(n) PROVE Quiet
  BY <1>1 DEF ShowSent, ShowError, Quiet
<1>2. ASSUME StartMqtt \/ StartBroker \/ FlushEnd \/ \E c \in Clients : Connect(c)
      PROVE  Quiet
  BY <1>2 DEF StartMqtt, StartBroker, FlushEnd, Connect, Quiet, page_vars
<1>3. ASSUME UNCHANGED vars PROVE Quiet
  BY <1>3 DEF vars, Quiet, page_vars
<1>4. ASSUME NEW c \in Clients, LoseConnection(c) PROVE Losing({c})
  BY <1>4 DEF LoseConnection, Losing, page_vars, device_vars
<1>5. ASSUME StopBroker PROVE Losing(Clients)
  BY <1>5 DEF StopBroker, Losing, page_vars, device_vars
<1>6. ASSUME RestartDevice PROVE Losing({"device"})
  BY <1>6 DEF RestartDevice, Losing, page_vars
<1>7. \A c \in Clients : {c} \in SUBSET Clients
  OBVIOUS
<1>8. "device" \in Clients
  BY DEF Clients
<1> QED
  BY <1>1, <1>2, <1>3, <1>4, <1>5, <1>6, <1>7, <1>8
     DEF Next, Serve, Network, Flush, AllDone, DeviceStep

(* The two clients.                                                        *)
LEMMA TwoClients ==
  /\ Clients = {"backend", "device"}
  /\ Receiver["command"] = "device" /\ Receiver["event"] = "backend"
  BY DEF Clients, Receiver

Sending(no) ==
  /\ Connected("device") /\ Packet("event", no) \in Packets
  /\ up' = [up EXCEPT !["device"] = Append(@, Packet("event", no))]

(* Such a step sends one event at most.                                    *)
LEMMA DeviceFacts ==
  ASSUME Shape, DeviceStep
  PROVE  /\ UNCHANGED <<broker, subscribed, requests, shown, events, incidents>>
         /\ up' = up \/ \E no \in Nat : Sending(no)
         /\ HandleCommand \/ UNCHANGED <<down, executed>>
         /\ ReportOwn \/ HandleCommand \/ reports' = reports
<1>1. /\ UNCHANGED <<broker, subscribed, requests, shown, events, incidents>>
      /\ HandleCommand \/ UNCHANGED <<down, executed>>
      /\ ReportOwn \/ HandleCommand \/ reports' = reports
  BY DEF DeviceStep, ReportOwn, PublishReport, StoreReport, FlushNext, Clear, HandleCommand,
     page_vars
<1>2. /\ Len(reports) \in Nat /\ Len(reports) + 1 \in Nat
      /\ \A no \in Nat : Packet("event", no) \in Packets
  BY DEF Shape, Packet, Packets
<1>3. CASE PublishReport
  <2>1. \/ up' = [up EXCEPT !["device"] = Append(@, Packet("event", Len(reports)))]
        \/ ~Connected("device") /\ up' = [up EXCEPT !["device"] = up["device"]]
    BY <1>3 DEF PublishReport
  <2>2. CASE ~Connected("device")
    <3>1. up' = up
      BY <1>3, <2>2 DEF PublishReport, Shape
    <3> QED
      BY <1>1, <3>1
  <2>3. CASE Connected("device")
    <3>1. Sending(Len(reports))
      BY <1>2, <1>3, <2>3 DEF PublishReport, Sending
    <3> QED
      BY <1>1, <1>2, <3>1
  <2> QED
    BY <2>2, <2>3
<1>4. CASE FlushNext
  <2>1. Head(queue) \in Nat
    BY <1>4, HeadTailProperties DEF FlushNext, Shape
  <2>2. Sending(Head(queue))
    BY <1>2, <1>4, <2>1 DEF FlushNext, Sending, Connected
  <2> QED
    BY <1>1, <2>1, <2>2
<1>5. CASE HandleCommand
  <2>1. Sending(Len(reports) + 1)
    BY <1>2, <1>5 DEF HandleCommand, Sending, Connected
  <2> QED
    BY <1>1, <1>2, <2>1
<1>6. CASE ReportOwn \/ StoreReport \/ Clear
  BY <1>1, <1>6 DEF ReportOwn, StoreReport, Clear
<1> QED
  BY <1>3, <1>4, <1>5, <1>6 DEF DeviceStep

(* A report more.                                                          *)
LEMMA NewReport ==
  ASSUME reports \in Seq(0..MaxPresses), NEW press \in 0..MaxPresses,
         reports' = Append(reports, press)
  PROVE  LET no == Len(reports) + 1 IN
         /\ no \in Nat /\ no \notin DOMAIN reports /\ Packet("event", no) \in Packets
         /\ reports' \in Seq(0..MaxPresses) /\ Len(reports') = no
         /\ DOMAIN reports' = DOMAIN reports \cup {no} /\ reports'[no] = press
         /\ \A m \in DOMAIN reports : reports'[m] = reports[m]
<1>1. DOMAIN reports = 1..Len(reports) /\ Len(reports) \in Nat
  OBVIOUS
<1>2. /\ reports' \in Seq(0..MaxPresses) /\ Len(reports') = Len(reports) + 1
      /\ \A m \in 1..Len(reports) : reports'[m] = reports[m]
      /\ reports'[Len(reports) + 1] = press
  BY <1>1, AppendProperties
<1>3. DOMAIN reports' = 1..(Len(reports) + 1)
  BY <1>1, <1>2
<1>4. Packet("event", Len(reports) + 1) \in Packets
  BY <1>1 DEF Packet, Packets
<1> QED
  BY <1>1, <1>2, <1>3, <1>4

Routed(kind, from, dest) ==
  LET p == Head(up[from]) IN
  /\ p.kind = kind /\ subscribed' = subscribed
  /\ \/ dest \in subscribed /\ down' = [down EXCEPT ![dest] = Append(@, p)]
     \/ dest \notin subscribed /\ down' = down

(* What the broker does with a packet: a subscription is taken note of,    *)
(* anything else goes to the one who has subscribed to it, or to nobody.   *)
LEMMA RouteFacts ==
  ASSUME IndInv, NEW c \in Clients, Route(c)
  PROVE  /\ up[c] \in Seq(Packets) /\ up[c] # <<>> /\ Head(up[c]) \in Packets
         /\ up' = [up EXCEPT ![c] = Tail(@)]
         /\ \/ /\ Head(up[c]).kind = "subscribe" /\ link[c] \in Through
               /\ subscribed' = subscribed \cup {c} /\ down' = down
            \/ c = "backend" /\ Routed("command", "backend", "device")
            \/ c = "device" /\ Routed("event", "device", "backend")
         /\ UNCHANGED <<link, broker, requests, shown, events, device_vars, incidents>>
<1>1. up[c] \in Seq(Packets) /\ up[c] # <<>>
  BY DEF IndInv, Shape, Route
<1>2. Head(up[c]) \in Packets
  BY <1>1, OfTail
<1>3. Head(up[c]).no \in Of(Head(up[c]).kind, up[c])
  <2>1. Head(up[c]).no \in Numbers(Head(up[c]).kind, Head(up[c]))
    BY DEF Numbers
  <2> QED
    BY <1>1, <2>1, OfTail
<1>4. /\ Head(up[c]).kind \in {"subscribe", "command", "event"}
      /\ Head(up[c]).kind = "subscribe" => link[c] \in Through
      /\ Head(up[c]).kind = "command" => c = "backend"
      /\ Head(up[c]).kind = "event" => c = "device"
  BY <1>2, <1>3, TwoClients DEF IndInv, LinksSound, KindsSound, Packets
<1>5. /\ up' = [up EXCEPT ![c] = Tail(@)]
      /\ UNCHANGED <<link, broker, requests, shown, events, device_vars, incidents>>
  BY DEF Route, page_vars
<1>6. CASE Head(up[c]).kind = "subscribe"
  <2>1. subscribed' = subscribed \cup {c} /\ down' = down
    BY <1>6 DEF Route
  <2> QED
    BY <1>1, <1>2, <1>4, <1>5, <1>6, <2>1
<1>7. CASE Head(up[c]).kind # "subscribe"
  <2> DEFINE dest == Receiver[Head(up[c]).kind]
  <2>1. /\ subscribed' = subscribed
        /\ down' = IF dest \in subscribed
                   THEN [down EXCEPT ![dest] = Append(@, Head(up[c]))] ELSE down
    BY <1>7 DEF Route
  <2>2. CASE Head(up[c]).kind = "command"
    <3>1. dest = "device" /\ c = "backend"
      BY <1>4, <2>2, TwoClients
    <3> HIDE DEF dest
    <3>2. Routed("command", "backend", "device")
      BY <2>1, <2>2, <3>1 DEF Routed
    <3> QED
      BY <1>1, <1>2, <1>5, <3>1, <3>2
  <2>3. CASE Head(up[c]).kind = "event"
    <3>1. dest = "backend" /\ c = "device"
      BY <1>4, <2>3, TwoClients
    <3> HIDE DEF dest
    <3>2. Routed("event", "device", "backend")
      BY <2>1, <2>3, <3>1 DEF Routed
    <3> QED
      BY <1>1, <1>2, <1>5, <3>1, <3>2
  <2> QED
    BY <1>4, <1>7, <2>2, <2>3
<1> QED
  BY <1>6, <1>7

(* What comes in: commands at the device, events at the backend.           *)
LEMMA ArrivalFacts ==
  ASSUME IndInv
  PROVE  /\ down["device"] # <<>> =>
              LET p == Head(down["device"]) IN
              /\ p \in Packets /\ p = Packet("command", p.no)
              /\ p.no \in Of("command", down["device"])
              /\ p.no \in Answered /\ p.no \in 1..MaxPresses
         /\ down["backend"] # <<>> =>
              LET p == Head(down["backend"]) IN
              /\ p \in Packets /\ p = Packet("event", p.no)
              /\ p.no \in Of("event", down["backend"]) /\ p.no \in DOMAIN reports
<1>1. /\ down["device"] \in Seq(Packets) /\ down["backend"] \in Seq(Packets)
      /\ \A i \in DOMAIN down["device"] : down["device"][i].kind = "command"
      /\ \A i \in DOMAIN down["backend"] : down["backend"][i].kind = "event"
  BY TwoClients DEF IndInv, Shape, KindsSound
<1>2. ASSUME NEW q \in Seq(Packets), q # <<>>, NEW kind,
             \A i \in DOMAIN q : q[i].kind = kind
      PROVE  /\ Head(q) \in Packets /\ Head(q) = Packet(kind, Head(q).no)
             /\ Head(q).no \in Of(kind, q)
  <2>1. Head(q) \in Packets /\ Head(q) = q[1] /\ 1 \in DOMAIN q
    BY <1>2, HeadTailProperties
  <2>2. Head(q).kind = kind
    BY <1>2, <2>1
  <2>3. Head(q).no \in Numbers(kind, Head(q))
    BY <2>2 DEF Numbers
  <2> QED
    BY <1>2, <2>1, <2>2, <2>3, OfTail DEF Packets, Packet
<1>3. Answered \subseteq 1..MaxPresses
  BY DEF Answered, Presses
<1> QED
  BY <1>1, <1>2, <1>3 DEF IndInv, CommandsOnce, EventsOnce

(* on_connect sends the subscription.                                      *)
LEMMA OnConnectFacts ==
  ASSUME IndInv, NEW c \in Clients, OnConnect(c)
  PROVE  /\ link[c] = "open" /\ link'[c] \in Through /\ link' = [link EXCEPT ![c] = link'[c]]
         /\ up'[c] \in Seq(Packets) /\ up' = [up EXCEPT ![c] = up'[c]]
         /\ \A kind \in {"command", "event"} :
              /\ Of(kind, up'[c]) = Of(kind, up[c])
              /\ Once(kind, up[c]) => Once(kind, up'[c])
         /\ UNCHANGED <<down, broker, subscribed, requests, shown, events, device_vars,
                        incidents>>
<1>1. /\ up[c] \in Seq(Packets) /\ up \in [Clients -> Seq(Packets)]
      /\ link \in [Clients -> Links]
  BY DEF IndInv, Shape
<1>2. PICK p : p = Packet("subscribe", 0)
  OBVIOUS
<1>3. p \in Packets /\ \A kind \in {"command", "event"} : Numbers(kind, p) = {}
  BY <1>2 DEF Packet, Packets, Numbers
<1>4. up' = [up EXCEPT ![c] = Append(@, p)]
  BY <1>2 DEF OnConnect
<1>5. up'[c] = Append(up[c], p)
  BY <1>1, <1>4
<1>6. up'[c] \in Seq(Packets)
  BY <1>1, <1>3, <1>5, OfAppend
<1>7. ASSUME NEW kind \in {"command", "event"}
      PROVE  /\ Of(kind, up'[c]) = Of(kind, up[c])
             /\ Once(kind, up[c]) => Once(kind, up'[c])
  <2>1. Numbers(kind, p) = {}
    BY <1>3
  <2>2. /\ Of(kind, Append(up[c], p)) = Of(kind, up[c]) \cup Numbers(kind, p)
        /\ Once(kind, up[c]) /\ Of(kind, up[c]) \cap Numbers(kind, p) = {}
             => Once(kind, Append(up[c], p))
    BY <1>1, <1>3, OfAppend
  <2> QED
    BY <1>5, <2>1, <2>2
<1>8. /\ link[c] = "open" /\ link'[c] \in Through /\ link' = [link EXCEPT ![c] = link'[c]]
  BY <1>1 DEF OnConnect, Through
<1>9. UNCHANGED <<down, broker, subscribed, requests, shown, events, device_vars, incidents>>
  BY DEF OnConnect, page_vars
<1> QED
  BY <1>4, <1>5, <1>6, <1>7, <1>8, <1>9

(* Whom it concerns is disconnected.                                       *)
LEMMA LosingFacts ==
  ASSUME IndInv, NEW cs \in SUBSET Clients, Losing(cs)
  PROVE  /\ \A c \in cs : /\ up'[c] = <<>> /\ down'[c] = <<>>
                          /\ link'[c] = IF Connected(c) THEN "lost" ELSE link[c]
         /\ \A c \in Clients \ cs : /\ up'[c] = up[c] /\ down'[c] = down[c]
                                    /\ link'[c] = link[c]
         /\ up' \in [Clients -> Seq(Packets)] /\ down' \in [Clients -> Seq(Packets)]
         /\ link' \in [Clients -> Links]
         /\ subscribed' = subscribed \ cs
         /\ incidents' = incidents + 1 /\ incidents < MaxIncidents
<1>1. <<>> \in Seq(Packets)
  BY EmptySeq
<1> QED
  BY <1>1 DEF Losing, Disconnect, IndInv, Shape, Links

(* The connections and the broker, in every step.                          *)
LEMMA LinkSteps ==
  ASSUME [Next]_vars
  PROVE  \/ StartMqtt \/ StartBroker
         \/ \E c \in Clients : Connect(c) \/ OnConnect(c)
         \/ FlushEnd \/ Clear
         \/ \E cs \in SUBSET Clients : Losing(cs) /\ shown' = shown
         \/ link' = link /\ broker' = broker /\ incidents' = incidents
<1>1. ASSUME NEW n \in Presses, Press(n) \/ Serve(n) \/ ShowError(n)
      PROVE  link' = link /\ broker' = broker /\ incidents' = incidents
  BY <1>1 DEF Press, Serve, PublishCommand, LogSent, ShowSent, ShowError
<1>2. ASSUME \/ ReportOwn \/ PublishReport \/ StoreReport \/ FlushNext
             \/ HandleCommand \/ AddEvent \/ UNCHANGED vars
      PROVE  link' = link /\ broker' = broker /\ incidents' = incidents
  BY <1>2 DEF ReportOwn, PublishReport, StoreReport, FlushNext, HandleCommand, AddEvent, vars
<1>3. ASSUME NEW c \in Clients, Route(c)
      PROVE  link' = link /\ broker' = broker /\ incidents' = incidents
  BY <1>3 DEF Route
<1>4. ASSUME NEW c \in Clients, LoseConnection(c) PROVE Losing({c}) /\ shown' = shown
  BY <1>4 DEF LoseConnection, Losing, page_vars, device_vars
<1>5. ASSUME StopBroker PROVE Losing(Clients) /\ shown' = shown
  BY <1>5 DEF StopBroker, Losing, page_vars, device_vars
<1>6. ASSUME RestartDevice PROVE Losing({"device"}) /\ shown' = shown
  BY <1>6 DEF RestartDevice, Losing, page_vars
<1>7. \A c \in Clients : {c} \in SUBSET Clients
  OBVIOUS
<1>8. "device" \in Clients
  BY DEF Clients
<1> QED
  BY <1>1, <1>2, <1>3, <1>4, <1>5, <1>6, <1>7, <1>8 DEF Next, Network, Flush, AllDone

(* Every step keeps the shape.                                             *)
LEMMA ShapeStep == IndInv /\ [Next]_vars => Shape'
<1> SUFFICES ASSUME IndInv, [Next]_vars PROVE Shape'
  OBVIOUS
<1>1. /\ Shape /\ MaxQueue \in Nat \ {0}
      /\ MaxPresses \in Nat /\ MaxIncidents \in Nat
  BY SystemAssumption DEF IndInv
<1>2. link' \in [Clients -> Links] /\ broker' \in BOOLEAN /\ incidents' \in 0..MaxIncidents
  <2>1. ASSUME NEW cs \in SUBSET Clients, Losing(cs)
        PROVE  /\ link' \in [Clients -> Links] /\ broker' \in BOOLEAN
               /\ incidents' \in 0..MaxIncidents
    <3>1. broker' \in BOOLEAN
      BY <1>1, <2>1 DEF Losing, Shape
    <3> QED
      BY <1>1, <2>1, <3>1, LosingFacts DEF Shape
  <2>2. ASSUME NEW c \in Clients, Connect(c) \/ OnConnect(c)
        PROVE  link' \in [Clients -> Links] /\ broker' = broker /\ incidents' = incidents
    BY <1>1, <2>2 DEF Connect, OnConnect, Shape, Links
  <2>3. ASSUME StartMqtt \/ StartBroker \/ FlushEnd \/ Clear
        PROVE  link' \in [Clients -> Links] /\ broker' \in BOOLEAN /\ incidents' = incidents
    <3>1. CASE StartMqtt \/ StartBroker
      BY <1>1, <3>1, TwoClients DEF StartMqtt, StartBroker, Shape, Links
    <3>2. CASE FlushEnd \/ Clear
      <4>1. broker' = broker /\ incidents' = incidents
        BY <3>2 DEF FlushEnd, Clear
      <4>2. PICK l \in Links : link' = [link EXCEPT !["device"] = l]
        BY <3>2 DEF FlushEnd, Clear, Links
      <4>3. link' \in [Clients -> Links]
        BY <1>1, <4>2 DEF Shape
      <4> QED
        BY <1>1, <4>1, <4>3 DEF Shape
    <3> QED
      BY <2>3, <3>1, <3>2
  <2> QED
    BY <1>1, <2>1, <2>2, <2>3, LinkSteps DEF Shape
<1>3. /\ requests' \in [Presses -> {"none", "received", "published", "logged"}]
      /\ shown' \in [Presses -> {"nothing", "sending", "sent", "error"}]
  <2>1. ASSUME NEW n \in Presses, Press(n) \/ Serve(n) \/ ShowError(n)
        PROVE  /\ requests' \in [Presses -> {"none", "received", "published", "logged"}]
               /\ shown' \in [Presses -> {"nothing", "sending", "sent", "error"}]
    BY <1>1, <2>1 DEF Press, Serve, PublishCommand, LogSent, ShowSent, ShowError, Shape
  <2>2. UNCHANGED page_vars \/ \E n \in Presses : Press(n) \/ Serve(n) \/ ShowError(n)
    <3>1. UNCHANGED page_vars \/ Flush \/ \E n \in Presses : Press(n) \/ Serve(n) \/ ShowError(n)
      BY DEF Next, Network, AllDone, vars, StartMqtt, StopBroker, StartBroker, RestartDevice,
             LoseConnection, ReportOwn, PublishReport, StoreReport, HandleCommand, AddEvent,
             Connect, OnConnect, Route
    <3> QED
      BY <3>1 DEF Flush, FlushNext, FlushEnd, Clear
  <2> QED
    BY <1>1, <2>1, <2>2 DEF page_vars, Shape
<1>4. /\ up' \in [Clients -> Seq(Packets)] /\ down' \in [Clients -> Seq(Packets)]
      /\ subscribed' \subseteq Clients
  <2>1. ASSUME NEW n \in Presses, PublishCommand(n)
        PROVE  up' \in [Clients -> Seq(Packets)] /\ UNCHANGED <<down, subscribed>>
    <3>1. Packet("command", n) \in Packets
      BY DEF Packet, Packets, Presses
    <3> QED
      BY <1>1, <2>1, <3>1, TwoClients DEF PublishCommand, Shape
  <2>2. CASE DeviceStep
    <3>1. up' \in [Clients -> Seq(Packets)]
      <4>1. ASSUME NEW no \in Nat, Sending(no) PROVE up' \in [Clients -> Seq(Packets)]
        <5>1. up["device"] \in Seq(Packets)
          BY <1>1, TwoClients DEF Shape
        <5>2. Append(up["device"], Packet("event", no)) \in Seq(Packets)
          BY <4>1, <5>1, OfAppend DEF Sending
        <5> QED
          BY <1>1, <4>1, <5>2 DEF Sending, Shape
      <4> QED
        BY <1>1, <2>2, <4>1, DeviceFacts DEF Shape
    <3>2. subscribed' = subscribed /\ (HandleCommand \/ down' = down)
      BY <1>1, <2>2, DeviceFacts
    <3>3. ASSUME HandleCommand PROVE down' \in [Clients -> Seq(Packets)]
      <4>1. /\ down["device"] \in Seq(Packets) /\ down["device"] # <<>>
            /\ down' = [down EXCEPT !["device"] = Tail(@)]
        BY <1>1, <3>3, TwoClients DEF HandleCommand, Shape
      <4>2. Tail(down["device"]) \in Seq(Packets)
        BY <4>1, OfTail
      <4> QED
        BY <1>1, <4>1, <4>2 DEF Shape
    <3> QED
      BY <1>1, <3>1, <3>2, <3>3 DEF Shape
  <2>5. CASE AddEvent
    <3>1. /\ down["backend"] \in Seq(Packets) /\ down["backend"] # <<>>
          /\ down' = [down EXCEPT !["backend"] = Tail(@)] /\ UNCHANGED <<up, subscribed>>
      BY <1>1, <2>5, TwoClients DEF AddEvent, Shape
    <3>2. Tail(down["backend"]) \in Seq(Packets)
      BY <3>1, OfTail
    <3> QED
      BY <1>1, <3>1, <3>2 DEF Shape
  <2>6. ASSUME NEW c \in Clients, OnConnect(c)
        PROVE  up' \in [Clients -> Seq(Packets)] /\ UNCHANGED <<down, subscribed>>
    <3>1. /\ up' = [up EXCEPT ![c] = up'[c]] /\ up'[c] \in Seq(Packets)
          /\ UNCHANGED <<down, subscribed>>
      BY <2>6, OnConnectFacts
    <3> QED
      BY <1>1, <3>1 DEF Shape
  <2>7. ASSUME NEW c \in Clients, Route(c)
        PROVE  /\ up' \in [Clients -> Seq(Packets)] /\ down' \in [Clients -> Seq(Packets)]
               /\ subscribed' \subseteq Clients
    <3> DEFINE p == Head(up[c])
    <3>1. /\ up[c] \in Seq(Packets) /\ up[c] # <<>> /\ p \in Packets
          /\ up' = [up EXCEPT ![c] = Tail(@)]
          /\ \/ subscribed' = subscribed \cup {c} /\ down' = down
             \/ c = "backend" /\ Routed("command", "backend", "device")
             \/ c = "device" /\ Routed("event", "device", "backend")
      BY <2>7, RouteFacts
    <3>2. Tail(up[c]) \in Seq(Packets)
      BY <3>1, OfTail
    <3>3. up' \in [Clients -> Seq(Packets)]
      BY <1>1, <3>1, <3>2 DEF Shape
    <3>4. /\ subscribed' = subscribed \/ subscribed' = subscribed \cup {c}
          /\ down' = down \/ \E d \in Clients : down' = [down EXCEPT ![d] = Append(@, p)]
      BY <3>1, TwoClients DEF Routed
    <3> HIDE DEF p
    <3>5. down' \in [Clients -> Seq(Packets)]
      <4>1. ASSUME NEW d \in Clients, down' = [down EXCEPT ![d] = Append(@, p)]
            PROVE  down' \in [Clients -> Seq(Packets)]
        <5>1. Append(down[d], p) \in Seq(Packets)
          BY <1>1, <3>1, OfAppend DEF Shape
        <5> QED
          BY <1>1, <4>1, <5>1 DEF Shape
      <4> QED
        BY <1>1, <3>4, <4>1 DEF Shape
    <3> QED
      BY <1>1, <3>3, <3>4, <3>5 DEF Shape
  <2>8. ASSUME NEW cs \in SUBSET Clients, Losing(cs)
        PROVE  /\ up' \in [Clients -> Seq(Packets)] /\ down' \in [Clients -> Seq(Packets)]
               /\ subscribed' \subseteq Clients
    BY <1>1, <2>8, LosingFacts DEF Shape
  <2>9. ASSUME NEW n \in Presses, Press(n) \/ LogSent(n)
        PROVE  UNCHANGED <<up, down, subscribed>>
    BY <2>9 DEF Press, LogSent
  <2> QED
    BY <1>1, <2>1, <2>2, <2>5, <2>6, <2>7, <2>8, <2>9, Steps DEF Shape, Quiet
<1>5. events' \in Seq(Lines)
  <2>1. ASSUME NEW n \in Presses, LogSent(n) PROVE events' \in Seq(Lines)
    <3>1. Packet("sent", n) \in Lines
      BY DEF Packet, Lines, Presses
    <3> QED
      BY <1>1, <2>1, <3>1 DEF LogSent, Shape
  <2>2. CASE AddEvent
    <3>1. down["backend"] # <<>> /\ events' = Append(events, Head(down["backend"]))
      BY <2>2 DEF AddEvent
    <3>2. Head(down["backend"]) \in Lines
      BY <3>1, ArrivalFacts DEF Packets, Lines, Packet
    <3> QED
      BY <1>1, <3>1, <3>2 DEF Shape
  <2>3. events' = events \/ AddEvent \/ \E n \in Presses : LogSent(n)
    BY <1>1, Steps, DeviceFacts, OnConnectFacts, RouteFacts DEF Press, PublishCommand,
         Losing, Quiet
  <2> QED
    BY <1>1, <2>1, <2>2, <2>3 DEF Shape
<1>6. executed' \in Seq(Nat) /\ reports' \in Seq(0..MaxPresses)
  <2>1. CASE ReportOwn
    <3>1. reports' = Append(reports, 0) /\ executed' = executed /\ 0 \in 0..MaxPresses
      BY <1>1, <2>1 DEF ReportOwn
    <3> QED
      BY <1>1, <3>1, NewReport DEF Shape
  <2>2. CASE HandleCommand
    <3>1. PICK n : /\ n = Head(down["device"]).no /\ down["device"] # <<>>
                   /\ reports' = Append(reports, n) /\ executed' = Append(executed, n)
      BY <2>2 DEF HandleCommand
    <3>2. n \in 0..MaxPresses /\ n \in Nat
      BY <1>1, <3>1, ArrivalFacts
    <3> QED
      BY <1>1, <3>1, <3>2, NewReport DEF Shape
  <2>3. UNCHANGED <<executed, reports>> \/ ReportOwn \/ HandleCommand
    BY <1>1, Steps, DeviceFacts, OnConnectFacts, RouteFacts DEF Press, PublishCommand,
         LogSent, Losing, AddEvent, Quiet, device_vars
  <2> QED
    BY <1>1, <2>1, <2>2, <2>3 DEF Shape
<1>7. /\ queue' \in Seq(Nat) /\ passed' \in Nat /\ passed' + Len(queue') <= MaxQueue
      /\ reporting' \in {"no", "publish", "store"}
  <2>1. /\ queue \in Seq(Nat) /\ Len(queue) \in Nat /\ passed \in Nat
        /\ passed + Len(queue) <= MaxQueue /\ reporting \in {"no", "publish", "store"}
        /\ Len(reports) \in Nat
    BY <1>1 DEF Shape
  <2>2. CASE UNCHANGED <<queue, passed>>
    <3>1. reporting' \in {"no", "publish", "store"}
      <4>1. reporting' = reporting \/ reporting' = "no" \/ ReportOwn
        BY <1>1, Steps, OnConnectFacts, RouteFacts DEF Press, PublishCommand, LogSent,
             Losing, AddEvent, Quiet, device_vars, DeviceStep, PublishReport, StoreReport,
             FlushNext, Clear, HandleCommand
      <4> QED
        BY <2>1, <4>1 DEF ReportOwn
    <3> QED
      BY <2>1, <2>2, <3>1
  <2>3. CASE queue' = <<>> /\ passed' = 0 /\ reporting' \in {reporting, "no"}
    <3>1. <<>> \in Seq(Nat) /\ Len(<<>>) = 0
      BY EmptySeq
    <3>2. queue' \in Seq(Nat) /\ Len(queue') = 0
      BY <2>3, <3>1, Zenon
    <3> QED
      BY <1>1, <2>1, <2>3, <3>2
  <2>4. CASE FlushNext
    <3>1. /\ queue # <<>> /\ queue' = Tail(queue) /\ passed' = passed + 1
          /\ reporting' = reporting
      BY <2>4 DEF FlushNext
    <3>2. queue' \in Seq(Nat) /\ Len(queue') = Len(queue) - 1
      BY <2>1, <3>1, HeadTailProperties
    <3> QED
      BY <1>1, <2>1, <3>1, <3>2
  <2>5. CASE StoreReport
    <3>1. PICK longer : longer = Append(queue, Len(reports))
      OBVIOUS
    <3>2. /\ queue' = IF passed + Len(queue) = MaxQueue THEN Tail(longer) ELSE longer
          /\ passed' = passed /\ reporting' = "no"
      BY <2>5, <3>1 DEF StoreReport
    <3>3. longer \in Seq(Nat) /\ Len(longer) = Len(queue) + 1
      BY <2>1, <3>1, AppendProperties
    <3>4. longer # <<>>
      BY <2>1, <3>3
    <3>5. Tail(longer) \in Seq(Nat) /\ Len(Tail(longer)) = Len(queue)
      BY <2>1, <3>3, <3>4, HeadTailProperties
    <3> QED
      BY <1>1, <2>1, <3>2, <3>3, <3>5
  <2>6. \/ UNCHANGED <<queue, passed>> \/ FlushNext \/ StoreReport
        \/ queue' = <<>> /\ passed' = 0 /\ reporting' \in {reporting, "no"}
    BY <1>1, Steps, OnConnectFacts, RouteFacts DEF Press, PublishCommand, LogSent, Losing,
         AddEvent, Quiet, device_vars, DeviceStep, ReportOwn, PublishReport, Clear,
         HandleCommand
  <2> QED
    BY <2>2, <2>3, <2>4, <2>5, <2>6
<1> QED
  BY <1>2, <1>3, <1>4, <1>5, <1>6, <1>7 DEF Shape

(* A connection stays where it is unless it is lost.                       *)
LEMMA LinkKept ==
  ASSUME IndInv, [Next]_vars, ~\E cs \in SUBSET Clients : Losing(cs), NEW c \in Clients
  PROVE  /\ Connected(c) => Connected(c)'
         /\ link[c] \in Through => link'[c] \in Through
<1>1. Shape
  BY DEF IndInv
<1>2. CASE StartMqtt
  <2>1. link["backend"] = "off" /\ \A d \in Clients : d # "backend" => link'[d] = link[d]
    BY <1>1, <1>2 DEF StartMqtt, Shape
  <2> QED
    BY <2>1 DEF Connected, Through
<1>3. ASSUME NEW d \in Clients, Connect(d) \/ OnConnect(d) \/ FlushEnd \/ Clear
      PROVE  /\ Connected(c) => Connected(c)'
             /\ link[c] \in Through => link'[c] \in Through
  BY <1>1, <1>3 DEF Connect, OnConnect, FlushEnd, Clear, Connected, Shape, Through
<1>4. ASSUME link' = link
      PROVE  /\ Connected(c) => Connected(c)'
             /\ link[c] \in Through => link'[c] \in Through
  BY <1>4 DEF Connected
<1> QED
  BY <1>2, <1>3, <1>4, LinkSteps DEF StartBroker

(* What may come onto a connection: nothing without one, and subscriptions *)
(* only by on_connect.                                                     *)
LEMMA UpGrows ==
  ASSUME IndInv, [Next]_vars, ~\E cs \in SUBSET Clients : Losing(cs), NEW c \in Clients
  PROVE  /\ ~Connected(c) => up'[c] = up[c]
         /\ ~(\E d \in Clients : OnConnect(d) /\ c = d)
              => Of("subscribe", up'[c]) \subseteq Of("subscribe", up[c])
<1>1. Shape /\ up[c] \in Seq(Packets)
  BY DEF IndInv, Shape
<1>2. ASSUME NEW p \in Packets, up'[c] = Append(up[c], p), p.kind # "subscribe"
      PROVE  Of("subscribe", up'[c]) \subseteq Of("subscribe", up[c])
  BY <1>1, <1>2, OfAppend DEF Numbers
<1>3. ASSUME NEW n \in Presses, PublishCommand(n)
      PROVE  /\ ~Connected(c) => up'[c] = up[c]
             /\ Of("subscribe", up'[c]) \subseteq Of("subscribe", up[c])
  <2>1. Packet("command", n) \in Packets /\ Packet("command", n).kind # "subscribe"
    BY DEF Packet, Packets, Presses
  <2>2. \/ up'[c] = up[c]
        \/ up'[c] = Append(up[c], Packet("command", n)) /\ Connected(c)
    BY <1>1, <1>3 DEF PublishCommand, Shape
  <2> QED
    BY <1>2, <2>1, <2>2
<1>4. CASE DeviceStep
  <2>1. ASSUME NEW no \in Nat, Sending(no)
        PROVE  /\ ~Connected(c) => up'[c] = up[c]
               /\ Of("subscribe", up'[c]) \subseteq Of("subscribe", up[c])
    <3>1. Packet("event", no) \in Packets /\ Packet("event", no).kind # "subscribe"
      BY <2>1 DEF Sending, Packet
    <3>2. \/ up'[c] = up[c]
          \/ up'[c] = Append(up[c], Packet("event", no)) /\ Connected(c)
      BY <1>1, <2>1 DEF Sending, Shape
    <3> QED
      BY <1>2, <3>1, <3>2
  <2> QED
    BY <1>1, <1>4, <2>1, DeviceFacts
<1>6. ASSUME NEW d \in Clients, OnConnect(d)
      PROVE  /\ ~Connected(c) => up'[c] = up[c]
             /\ c # d => up'[c] = up[c]
  <2>1. up' = [up EXCEPT ![d] = up'[d]] /\ link[d] = "open"
    BY <1>6, OnConnectFacts
  <2>2. c # d => up'[c] = up[c]
    BY <1>1, <2>1 DEF Shape
  <2> QED
    BY <2>1, <2>2 DEF Connected
<1>7. ASSUME NEW d \in Clients, Route(d)
      PROVE  /\ ~Connected(c) => up'[c] = up[c]
             /\ Of("subscribe", up'[c]) \subseteq Of("subscribe", up[c])
  <2>1. up' = [up EXCEPT ![d] = Tail(@)] /\ up[d] # <<>>
    BY <1>7, RouteFacts
  <2>2. c # d => up'[c] = up[c]
    BY <1>1, <2>1 DEF Shape
  <2>3. CASE c = d
    <3>1. Connected(c)
      BY <2>1, <2>3 DEF IndInv, LinksSound
    <3>2. up'[c] = Tail(up[c])
      BY <1>1, <2>1, <2>3 DEF Shape
    <3>3. Of("subscribe", up'[c]) \subseteq Of("subscribe", up[c])
      BY <1>1, <2>1, <2>3, <3>2, OfTail
    <3> QED
      BY <3>1, <3>3
  <2> QED
    BY <2>2, <2>3
<1>8. UNCHANGED up \/ DeviceStep \/ (\E n \in Presses : PublishCommand(n))
        \/ \E d \in Clients : OnConnect(d) \/ Route(d)
  BY Steps DEF Press, LogSent, AddEvent, Quiet
<1> QED
  BY <1>3, <1>4, <1>6, <1>7, <1>8

(* Nothing comes in without a connection.                                  *)
LEMMA DownGrows ==
  ASSUME IndInv, [Next]_vars, ~\E cs \in SUBSET Clients : Losing(cs), NEW c \in Clients,
         ~Connected(c)
  PROVE  down'[c] = down[c]
<1>1. Shape /\ down[c] = <<>> /\ c \notin subscribed
  BY DEF IndInv, LinksSound, Connected, Through
<1>2. CASE HandleCommand \/ AddEvent
  BY <1>1, <1>2 DEF HandleCommand, AddEvent, Shape
<1>3. ASSUME NEW d \in Clients, Route(d) PROVE down'[c] = down[c]
  <2>1. \/ down' = down
        \/ \E dest \in subscribed, p \in Packets :
             down' = [down EXCEPT ![dest] = Append(@, p)]
    BY <1>3, RouteFacts DEF Routed
  <2> QED
    BY <1>1, <2>1 DEF Shape
<1>4. ASSUME NEW d \in Clients, OnConnect(d) PROVE down' = down
  BY <1>4, OnConnectFacts
<1>5. UNCHANGED down \/ HandleCommand \/ AddEvent \/ \E d \in Clients : Route(d)
  BY <1>1, <1>4, Steps, DeviceFacts DEF Press, PublishCommand, LogSent, Quiet
<1> QED
  BY <1>2, <1>3, <1>5

(* Every step keeps connections, packets and subscriptions in agreement.   *)
LEMMA LinksStep == IndInv /\ [Next]_vars => LinksSound'
<1> SUFFICES ASSUME IndInv, [Next]_vars PROVE LinksSound'
  OBVIOUS
<1>1. Shape /\ LinksSound
  BY DEF IndInv
<1>2. ASSUME NEW cs \in SUBSET Clients, Losing(cs) PROVE LinksSound'
  <2>1. ASSUME NEW c \in Clients
        PROVE  /\ Connected(c)' => Connected(c) /\ link'[c] = link[c] /\ c \notin cs
               /\ c \in cs \/ link'[c] = link[c]
    BY <1>2, LosingFacts, Zenon DEF Connected
  <2>2. ASSUME NEW c \in Clients, Connected(c)' PROVE broker'
    BY <1>1, <1>2, <2>1, <2>2 DEF LinksSound, Losing
  <2>3. ASSUME NEW c \in Clients, ~Connected(c)' PROVE up'[c] = <<>> /\ down'[c] = <<>>
    BY <1>1, <1>2, <2>1, <2>3, LosingFacts DEF LinksSound, Connected
  <2>4. ASSUME NEW c \in Clients, c \in subscribed' \/ Of("subscribe", up'[c]) # {}
        PROVE  link'[c] \in Through
    <3>1. CASE c \in cs
      BY <1>2, <2>4, <3>1, LosingFacts, OfNone
    <3>2. CASE c \notin cs
      BY <1>1, <1>2, <2>4, <3>2, LosingFacts DEF LinksSound
    <3> QED
      BY <3>1, <3>2
  <2> QED
    BY <2>2, <2>3, <2>4 DEF LinksSound
<1>3. ASSUME ~\E cs \in SUBSET Clients : Losing(cs) PROVE LinksSound'
  <2>1. ASSUME NEW c \in Clients, Connected(c)' PROVE broker'
    <3>1. ASSUME NEW d \in Clients, Connect(d) \/ OnConnect(d) \/ FlushEnd \/ Clear
          PROVE  broker'
      <4>1. broker' = broker
        BY <3>1 DEF Connect, OnConnect, FlushEnd, Clear
      <4>2. Connect(d) => broker
        BY DEF Connect
      <4>3. OnConnect(d) => Connected(d)
        BY DEF OnConnect, Connected
      <4>4. FlushEnd \/ Clear => "device" \in Clients /\ Connected("device")
        BY TwoClients DEF FlushEnd, Clear, Connected
      <4> QED
        BY <1>1, <3>1, <4>1, <4>2, <4>3, <4>4 DEF LinksSound
    <3>2. CASE StartMqtt
      <4>1. broker' = broker /\ (Connected(c)' => Connected(c))
        BY <1>1, <3>2 DEF StartMqtt, Connected, Shape
      <4> QED
        BY <1>1, <2>1, <4>1 DEF LinksSound
    <3>3. CASE link' = link /\ broker' = broker
      BY <1>1, <2>1, <3>3 DEF LinksSound, Connected
    <3> QED
      BY <1>3, <3>1, <3>2, <3>3, LinkSteps DEF StartBroker
  <2>2. ASSUME NEW c \in Clients, ~Connected(c)' PROVE up'[c] = <<>> /\ down'[c] = <<>>
    <3>1. ~Connected(c)
      BY <1>3, <2>2, LinkKept
    <3> QED
      BY <1>1, <1>3, <3>1, UpGrows, DownGrows DEF LinksSound
  <2>3. ASSUME NEW c \in Clients, c \in subscribed' \/ Of("subscribe", up'[c]) # {}
        PROVE  link'[c] \in Through
    <3>1. CASE OnConnect(c)
      BY <3>1, OnConnectFacts
    <3>2. CASE ~OnConnect(c)
      <4>1. Of("subscribe", up'[c]) \subseteq Of("subscribe", up[c])
        BY <1>3, <3>2, UpGrows
      <4>2. c \in subscribed' => c \in subscribed \/ link[c] \in Through
        <5>1. ASSUME NEW d \in Clients, Route(d)
              PROVE  c \in subscribed' => c \in subscribed \/ link[c] \in Through
          BY <5>1, RouteFacts DEF Routed
        <5>2. ASSUME NEW d \in Clients, OnConnect(d) PROVE subscribed' = subscribed
          BY <5>2, OnConnectFacts
        <5> QED
          BY <1>1, <1>3, <5>1, <5>2, Steps, DeviceFacts DEF Press, PublishCommand, LogSent,
               AddEvent, Quiet
      <4>3. link[c] \in Through
        BY <1>1, <2>3, <4>1, <4>2 DEF LinksSound
      <4> QED
        BY <1>3, <4>3, LinkKept
    <3> QED
      BY <3>1, <3>2
  <2> QED
    BY <2>1, <2>2, <2>3 DEF LinksSound
<1> QED
  BY <1>2, <1>3

(* It holds to begin with.                                                 *)
LEMMA InitInv == Init => IndInv
<1> SUFFICES ASSUME Init PROVE IndInv
  OBVIOUS
<1>1. MaxQueue \in Nat \ {0} /\ MaxPresses \in Nat /\ MaxIncidents \in Nat
  BY SystemAssumption
<1>2. /\ \A S : <<>> \in Seq(S)
      /\ Len(<<>>) = 0 /\ DOMAIN <<>> = {} /\ ToSet(<<>>) = {}
  BY EmptySeq DEF ToSet
<1>3. /\ up \in [Clients -> Seq(Packets)] /\ down \in [Clients -> Seq(Packets)]
      /\ \A c \in Clients : up[c] = <<>> /\ down[c] = <<>>
  BY <1>2, Zenon DEF Init
<1>4. Shape
  <2>1. link \in [Clients -> Links]
    BY TwoClients DEF Init, Links
  <2>2. requests \in [Presses -> {"none", "received", "published", "logged"}]
        /\ shown \in [Presses -> {"nothing", "sending", "sent", "error"}]
    BY DEF Init
  <2>3. events \in Seq(Lines) /\ queue \in Seq(Nat) /\ executed \in Seq(Nat)
        /\ reports \in Seq(0..MaxPresses)
    BY <1>2, Zenon DEF Init
  <2>4. Len(queue) = 0 /\ passed = 0 /\ reporting = "no"
    BY <1>2, Zenon DEF Init
  <2> QED
    BY <1>1, <1>3, <2>1, <2>2, <2>3, <2>4 DEF Init, Shape
<1>5. LinksSound
  <2>1. \A c \in Clients : ~Connected(c)
    BY TwoClients DEF Init, Connected
  <2> QED
    BY <1>3, <2>1, OfNone DEF Init, LinksSound
<1>6. \A c \in Clients : \A kind : /\ Of(kind, up[c]) = {} /\ Once(kind, up[c])
                                  /\ Of(kind, down[c]) = {} /\ Once(kind, down[c])
  BY <1>3, OfNone
<1>7. /\ ToSet(queue) = {} /\ DOMAIN queue = {} /\ DOMAIN reports = {} /\ ToSet(events) = {}
      /\ Reported = {}
  BY <1>2, Zenon DEF Init, Reported
<1>8. \A c \in Clients : DOMAIN down[c] = {}
  BY <1>2, <1>3, Zenon
<1>9. KindsSound /\ CommandsOnce /\ EventsOnce
  BY <1>6, <1>7, <1>8, TwoClients, Zenon DEF KindsSound, CommandsOnce, EventsOnce
<1>10. PressesNumbered /\ AnswersSound
  <2>1. \A n \in Presses : requests[n] = "none"
    BY DEF Init
  <2>2. Pressed = 1..0 /\ 0 \in 0..MaxPresses
    BY <1>1, <2>1 DEF Pressed
  <2> QED
    BY <1>7, <2>1, <2>2 DEF PressesNumbered, AnswersSound
<1> QED
  BY <1>4, <1>5, <1>9, <1>10 DEF IndInv

(* What the four kinds of message on their way are called.                 *)
CommandsUp == Of("command", up["backend"])
CommandsDown == Of("command", down["device"])
EventsUp == Of("event", up["device"])
EventsDown == Of("event", down["backend"])

(* Presses stay numbered.                                                  *)
LEMMA PressesStep == IndInv /\ [Next]_vars => PressesNumbered'
<1> SUFFICES ASSUME IndInv, [Next]_vars PROVE PressesNumbered'
  OBVIOUS
<1>1. /\ requests \in [Presses -> {"none", "received", "published", "logged"}]
      /\ PressesNumbered /\ MaxPresses \in Nat
  BY SystemAssumption DEF IndInv, Shape
<1>2. ASSUME NEW n \in Presses, Press(n) PROVE PressesNumbered'
  <2>1. Pressed' = Pressed \cup {n} /\ Pressed = 1..(n - 1) /\ n \in 1..MaxPresses
    BY <1>1, <1>2 DEF Press, Pressed, Presses
  <2>2. Pressed' = 1..n /\ n \in 0..MaxPresses
    BY <1>1, <2>1
  <2> QED
    BY <2>2 DEF PressesNumbered
<1>3. ASSUME Pressed' = Pressed PROVE PressesNumbered'
  BY <1>1, <1>3 DEF PressesNumbered
<1>4. ASSUME NEW n \in Presses, PublishCommand(n) \/ LogSent(n) PROVE Pressed' = Pressed
  BY <1>1, <1>4 DEF PublishCommand, LogSent, Pressed
<1>5. ASSUME requests' = requests PROVE Pressed' = Pressed
  BY <1>5 DEF Pressed
<1>6. \/ requests' = requests
      \/ \E n \in Presses : Press(n) \/ PublishCommand(n) \/ LogSent(n)
  BY Steps, DeviceFacts, OnConnectFacts, RouteFacts DEF IndInv, Losing, AddEvent, Quiet,
     page_vars
<1> QED
  BY <1>2, <1>3, <1>4, <1>5, <1>6

(* Every topic keeps its direction.                                        *)
LEMMA KindsStep == IndInv /\ [Next]_vars => KindsSound'
<1> SUFFICES ASSUME IndInv, [Next]_vars PROVE KindsSound'
  OBVIOUS
<1>1. /\ up \in [Clients -> Seq(Packets)] /\ down \in [Clients -> Seq(Packets)]
      /\ Shape /\ KindsSound
  BY DEF IndInv, Shape
<1>2. Of("event", up'["backend"]) = {} /\ Of("command", up'["device"]) = {}
  <2>1. ASSUME NEW n \in Presses, PublishCommand(n)
        PROVE  Of("event", up'["backend"]) = {} /\ Of("command", up'["device"]) = {}
    <3>1. Packet("command", n) \in Packets /\ Packet("command", n).kind # "event"
      BY DEF Packet, Packets, Presses
    <3>2. /\ up'["device"] = up["device"]
          /\ up'["backend"] = up["backend"]
               \/ up'["backend"] = Append(up["backend"], Packet("command", n))
      BY <1>1, <2>1, TwoClients DEF PublishCommand
    <3>3. Numbers("event", Packet("command", n)) = {}
      BY <3>1 DEF Numbers
    <3>4. up["backend"] \in Seq(Packets) /\ Of("event", up["backend"]) = {}
      BY <1>1, TwoClients DEF KindsSound
    <3>5. Of("event", Append(up["backend"], Packet("command", n))) = {}
      BY <3>1, <3>3, <3>4, OfAppend
    <3> QED
      BY <1>1, <3>2, <3>5 DEF KindsSound
  <2>2. ASSUME NEW no \in Nat, Sending(no)
        PROVE  Of("event", up'["backend"]) = {} /\ Of("command", up'["device"]) = {}
    <3>1. Packet("event", no) \in Packets /\ Numbers("command", Packet("event", no)) = {}
      BY <2>2 DEF Sending, Numbers, Packet
    <3>2. /\ up'["backend"] = up["backend"]
          /\ up'["device"] = Append(up["device"], Packet("event", no))
      BY <1>1, <2>2, TwoClients DEF Sending
    <3>3. up["device"] \in Seq(Packets) /\ Of("command", up["device"]) = {}
      BY <1>1, TwoClients DEF KindsSound
    <3>4. Of("command", Append(up["device"], Packet("event", no))) = {}
      BY <3>1, <3>3, OfAppend
    <3> QED
      BY <1>1, <3>2, <3>4 DEF KindsSound
  <2>3. CASE DeviceStep
    BY <1>1, <2>2, <2>3, DeviceFacts DEF KindsSound
  <2>4. ASSUME NEW c \in Clients, OnConnect(c)
        PROVE  Of("event", up'["backend"]) = {} /\ Of("command", up'["device"]) = {}
    <3>1. /\ up' = [up EXCEPT ![c] = up'[c]]
          /\ Of("command", up'[c]) = Of("command", up[c])
          /\ Of("event", up'[c]) = Of("event", up[c])
      BY <2>4, OnConnectFacts
    <3>2. \A d \in Clients : d # c => up'[d] = up[d]
      BY <1>1, <3>1
    <3> QED
      BY <1>1, <3>1, <3>2, TwoClients DEF KindsSound
  <2>5. ASSUME NEW c \in Clients, Route(c)
        PROVE  Of("event", up'["backend"]) = {} /\ Of("command", up'["device"]) = {}
    <3>1. up' = [up EXCEPT ![c] = Tail(@)] /\ up[c] # <<>>
      BY <2>5, RouteFacts
    <3>2. ASSUME NEW d \in Clients, NEW kind, Of(kind, up[d]) = {}
          PROVE  Of(kind, up'[d]) = {}
      BY <1>1, <3>1, <3>2, OfTail
    <3> QED
      BY <1>1, <3>2, TwoClients DEF KindsSound
  <2>6. ASSUME NEW cs \in SUBSET Clients, Losing(cs)
        PROVE  Of("event", up'["backend"]) = {} /\ Of("command", up'["device"]) = {}
    <3>1. \A c \in Clients : up'[c] = up[c] \/ up'[c] = <<>>
      BY <2>6, LosingFacts
    <3> QED
      BY <1>1, <3>1, OfNone, TwoClients DEF KindsSound
  <2>7. CASE up' = up
    BY <1>1, <2>7 DEF KindsSound
  <2> QED
    BY <2>1, <2>3, <2>4, <2>5, <2>6, <2>7, Steps DEF Press, LogSent, AddEvent, Quiet
<1>3. ASSUME NEW c \in Clients, NEW kind, \A i \in DOMAIN down[c] : down[c][i].kind = kind,
             kind = IF c = "device" THEN "command" ELSE "event"
      PROVE  \A i \in DOMAIN down'[c] : down'[c][i].kind = kind
  <2>1. ASSUME NEW p \in Packets, p.kind = kind, down'[c] = Append(down[c], p)
        PROVE  \A i \in DOMAIN down'[c] : down'[c][i].kind = kind
    <3>1. /\ Append(down[c], p) \in Seq(Packets) /\ Len(down[c]) \in Nat
          /\ DOMAIN down[c] = 1..Len(down[c])
          /\ DOMAIN Append(down[c], p) = 1..(Len(down[c]) + 1)
          /\ \A i \in 1..Len(down[c]) : Append(down[c], p)[i] = down[c][i]
          /\ Append(down[c], p)[Len(down[c]) + 1] = p
      BY <1>1, AppendProperties
    <3> QED
      BY <1>3, <2>1, <3>1
  <2>2. ASSUME down[c] # <<>>, down'[c] = Tail(down[c])
        PROVE  \A i \in DOMAIN down'[c] : down'[c][i].kind = kind
    <3>1. /\ Len(down[c]) \in Nat /\ DOMAIN down[c] = 1..Len(down[c])
          /\ DOMAIN Tail(down[c]) = 1..(Len(down[c]) - 1)
          /\ \A i \in 1..(Len(down[c]) - 1) : Tail(down[c])[i] = down[c][i + 1]
      BY <1>1, <2>2, HeadTailProperties
    <3>2. \A i \in 1..(Len(down[c]) - 1) : i + 1 \in DOMAIN down[c]
      BY <3>1
    <3> QED
      BY <1>3, <2>2, <3>1, <3>2
  <2>3. CASE HandleCommand \/ AddEvent
    <3>1. down'[c] = down[c] \/ (down[c] # <<>> /\ down'[c] = Tail(down[c]))
      <4>1. CASE HandleCommand
        <5>1. /\ down["device"] # <<>>
              /\ down' = [down EXCEPT !["device"] = Tail(@)]
          BY <4>1 DEF HandleCommand
        <5>2. CASE c = "device"
          BY <1>1, <5>1, <5>2
        <5>3. CASE c # "device"
          BY <1>1, <5>1, <5>3
        <5> QED
          BY <5>2, <5>3
      <4>2. CASE AddEvent
        <5>1. /\ down["backend"] # <<>>
              /\ down' = [down EXCEPT !["backend"] = Tail(@)]
          BY <4>2 DEF AddEvent
        <5>2. CASE c = "backend"
          BY <1>1, <5>1, <5>2
        <5>3. CASE c # "backend"
          BY <1>1, <5>1, <5>3
        <5> QED
          BY <5>2, <5>3
      <4> QED
        BY <2>3, <4>1, <4>2
    <3> QED
      BY <1>3, <2>2, <3>1
  <2>4. ASSUME NEW d \in Clients, Route(d)
        PROVE  \A i \in DOMAIN down'[c] : down'[c][i].kind = kind
    <3>1. /\ Head(up[d]) \in Packets
          /\ \/ down' = down
             \/ Routed("command", "backend", "device") /\ d = "backend"
             \/ Routed("event", "device", "backend") /\ d = "device"
      BY <2>4, RouteFacts
    <3>2. \/ down'[c] = down[c]
          \/ down'[c] = Append(down[c], Head(up[d])) /\ Head(up[d]).kind = kind
      <4>1. CASE Routed("command", "backend", "device") /\ d = "backend"
        BY <1>1, <1>3, <4>1, TwoClients DEF Routed
      <4>2. CASE Routed("event", "device", "backend") /\ d = "device"
        BY <1>1, <1>3, <4>2, TwoClients DEF Routed
      <4> QED
        BY <3>1, <4>1, <4>2
    <3> QED
      BY <1>3, <2>1, <3>1, <3>2
  <2>5. ASSUME NEW cs \in SUBSET Clients, Losing(cs)
        PROVE  \A i \in DOMAIN down'[c] : down'[c][i].kind = kind
    <3>1. down'[c] = down[c] \/ down'[c] = <<>>
      BY <2>5, LosingFacts
    <3>2. DOMAIN <<>> = {}
      OBVIOUS
    <3> QED
      BY <1>3, <3>1, <3>2, Zenon
  <2>6. ASSUME down' = down PROVE \A i \in DOMAIN down'[c] : down'[c][i].kind = kind
    BY <1>3, <2>6
  <2>7. ASSUME NEW d \in Clients, OnConnect(d) PROVE down' = down
    BY <2>7, OnConnectFacts
  <2> QED
    BY <1>1, <2>3, <2>4, <2>5, <2>6, <2>7, Steps, DeviceFacts DEF Press, PublishCommand,
       LogSent, Quiet
<1>4. /\ \A i \in DOMAIN down'["device"] : down'["device"][i].kind = "command"
      /\ \A i \in DOMAIN down'["backend"] : down'["backend"][i].kind = "event"
  BY <1>1, <1>3, TwoClients DEF KindsSound
<1> QED
  BY <1>2, <1>4 DEF KindsSound

-----------------------------------------------------------------------------
(* The way of the commands.                                                *)

(* A step publishes a command, brings it to the device's connection, has   *)
(* it executed, or moves none; then the ones that are missing are lost.    *)
CommandMoves ==
  \/ \E n \in Presses :
       /\ requests[n] = "received" /\ requests' = [requests EXCEPT ![n] = "published"]
       /\ CommandsUp' \in {CommandsUp, CommandsUp \cup {n}}
       /\ n \in CommandsUp' \/ ~Connected("backend")
       /\ CommandsDown' = CommandsDown /\ executed' = executed
  \/ \E n \in CommandsUp :
       /\ CommandsUp' = CommandsUp \ {n} /\ CommandsDown' = CommandsDown \cup {n}
       /\ executed' = executed /\ requests' = requests
  \/ \E n \in CommandsDown :
       /\ CommandsUp' = CommandsUp /\ CommandsDown' = CommandsDown \ {n}
       /\ executed' = Append(executed, n) /\ requests' = requests
  \/ /\ CommandsUp' \subseteq CommandsUp /\ CommandsDown' \subseteq CommandsDown
     /\ \A n \in (CommandsUp \ CommandsUp') \cup (CommandsDown \ CommandsDown') :
          Gone("command", n, "backend")
     /\ executed' = executed
     /\ requests' = requests \/ \E n \in Presses : Press(n) \/ LogSent(n)

CommandsSingle == Once("command", up["backend"]) /\ Once("command", down["device"])

(* The request thread publishes.                                           *)
LEMMA PublishMoves ==
  ASSUME IndInv, NEW n \in Presses, PublishCommand(n)
  PROVE  CommandMoves /\ CommandsSingle'
<1>1. /\ up \in [Clients -> Seq(Packets)] /\ up["backend"] \in Seq(Packets)
      /\ CommandsUp \subseteq Answered /\ CommandsSingle
  BY TwoClients DEF IndInv, Shape, CommandsOnce, CommandsUp, CommandsSingle
<1>2. /\ requests[n] = "received" /\ requests' = [requests EXCEPT ![n] = "published"]
      /\ down' = down /\ executed' = executed
      /\ up' = [up EXCEPT !["backend"] =
                  IF Connected("backend") THEN Append(@, Packet("command", n)) ELSE @]
  BY DEF PublishCommand, device_vars
<1>3. Packet("command", n) \in Packets /\ Numbers("command", Packet("command", n)) = {n}
  BY DEF Packet, Packets, Presses, Numbers
<1>4. n \notin CommandsUp
  BY <1>1, <1>2 DEF Answered
<1>5. CASE Connected("backend")
  <2>1. up'["backend"] = Append(up["backend"], Packet("command", n))
    BY <1>1, <1>2, <1>5, TwoClients
  <2>2. /\ Of("command", up'["backend"]) = Of("command", up["backend"]) \cup {n}
        /\ Once("command", up'["backend"])
    <3>1. Of("command", up["backend"]) \cap Numbers("command", Packet("command", n)) = {}
      BY <1>3, <1>4 DEF CommandsUp
    <3>2. Once("command", up["backend"])
      BY <1>1 DEF CommandsSingle
    <3> QED
      BY <1>1, <1>3, <2>1, <3>1, <3>2, OfAppend
  <2>3. CommandsUp' = CommandsUp \cup {n} /\ CommandsDown' = CommandsDown
    BY <1>2, <2>2 DEF CommandsUp, CommandsDown
  <2> QED
    BY <1>1, <1>2, <2>2, <2>3 DEF CommandMoves, CommandsSingle
<1>6. CASE ~Connected("backend")
  <2>1. up'["backend"] = up["backend"]
    BY <1>1, <1>2, <1>6, TwoClients
  <2>2. CommandsUp' = CommandsUp /\ CommandsDown' = CommandsDown
    BY <1>2, <2>1 DEF CommandsUp, CommandsDown
  <2> QED
    BY <1>1, <1>2, <1>6, <2>1, <2>2 DEF CommandMoves, CommandsSingle
<1> QED
  BY <1>5, <1>6

(* The broker passes a command on, or drops it.                            *)
LEMMA RouteMovesCommand ==
  ASSUME IndInv, Route("backend")
  PROVE  CommandMoves /\ CommandsSingle'
<1> DEFINE p == Head(up["backend"])
<1>1. /\ up \in [Clients -> Seq(Packets)] /\ down \in [Clients -> Seq(Packets)]
      /\ up["backend"] \in Seq(Packets) /\ down["device"] \in Seq(Packets)
      /\ CommandsSingle /\ CommandsUp \cap CommandsDown = {}
  BY TwoClients
     DEF IndInv, Shape, CommandsOnce, CommandsUp, CommandsDown, CommandsSingle
<1>2. /\ up["backend"] # <<>> /\ p \in Packets
      /\ up' = [up EXCEPT !["backend"] = Tail(@)]
      /\ (p.kind = "subscribe" /\ down' = down) \/ Routed("command", "backend", "device")
      /\ executed' = executed /\ requests' = requests
  BY TwoClients, RouteFacts DEF device_vars
<1>3. up'["backend"] = Tail(up["backend"])
  BY <1>1, <1>2, TwoClients
<1>4. /\ CommandsUp = CommandsUp' \cup Numbers("command", p)
      /\ CommandsUp' \cap Numbers("command", p) = {}
      /\ Once("command", up'["backend"])
  BY <1>1, <1>2, <1>3, OfTail DEF CommandsUp, CommandsSingle
<1>5. CASE p.kind = "subscribe" /\ down' = down
  <2>1. Numbers("command", p) = {}
    BY <1>5 DEF Numbers
  <2>2. CommandsUp' = CommandsUp /\ CommandsDown' = CommandsDown
    BY <1>4, <1>5, <2>1 DEF CommandsDown
  <2> QED
    BY <1>1, <1>2, <1>4, <1>5, <2>2 DEF CommandMoves, CommandsSingle
<1>6. CASE Routed("command", "backend", "device")
  <2>1. p.kind = "command" /\ Numbers("command", p) = {p.no} /\ p = Packet("command", p.no)
    BY <1>2, <1>6 DEF Routed, Numbers, Packets, Packet
  <2>2. p.no \in CommandsUp /\ CommandsUp' = CommandsUp \ {p.no} /\ p.no \notin CommandsDown
    BY <1>1, <1>4, <2>1
  <2>3. CASE "device" \in subscribed
    <3>1. down'["device"] = Append(down["device"], p)
      BY <1>1, <1>6, <2>3, TwoClients DEF Routed
    <3>2. Of("command", down["device"]) \cap Numbers("command", p) = {}
      BY <2>1, <2>2 DEF CommandsDown
    <3>3. Once("command", down["device"])
      BY <1>1 DEF CommandsSingle
    <3>4. /\ Of("command", down'["device"]) = Of("command", down["device"]) \cup {p.no}
          /\ Once("command", down'["device"])
      BY <1>1, <1>2, <2>1, <3>1, <3>2, <3>3, OfAppend
    <3>5. CommandsDown' = CommandsDown \cup {p.no}
      BY <3>4 DEF CommandsDown
    <3> QED
      BY <1>2, <1>4, <2>2, <3>4, <3>5 DEF CommandMoves, CommandsSingle
  <2>4. CASE "device" \notin subscribed
    <3>1. down' = down
      BY <1>6, <2>4 DEF Routed
    <3>2. CommandsDown' = CommandsDown
      BY <3>1 DEF CommandsDown
    <3>3. Gone("command", p.no, "backend")
      BY <2>1, <2>2, <2>4, TwoClients DEF Gone, CommandsUp
    <3>4. \A n \in (CommandsUp \ CommandsUp') \cup (CommandsDown \ CommandsDown') : n = p.no
      BY <2>2, <3>2
    <3> QED
      BY <1>1, <1>2, <1>4, <2>2, <3>1, <3>2, <3>3, <3>4 DEF CommandMoves, CommandsSingle
  <2> QED
    BY <2>3, <2>4
<1> QED
  BY <1>2, <1>5, <1>6

(* The device executes a command.                                          *)
LEMMA HandleMoves ==
  ASSUME IndInv, HandleCommand
  PROVE  CommandMoves /\ CommandsSingle'
<1> DEFINE p == Head(down["device"])
<1>1. /\ up \in [Clients -> Seq(Packets)] /\ down \in [Clients -> Seq(Packets)]
      /\ down["device"] \in Seq(Packets) /\ CommandsSingle /\ Shape
  BY TwoClients DEF IndInv, Shape, CommandsOnce, CommandsSingle
<1>2. /\ down["device"] # <<>> /\ executed' = Append(executed, p.no)
      /\ down' = [down EXCEPT !["device"] = Tail(@)] /\ requests' = requests
  BY DEF HandleCommand, page_vars
<1>3. p \in Packets /\ p = Packet("command", p.no) /\ p.no \in 0..MaxPresses
  BY <1>2, ArrivalFacts, SystemAssumption
<1>4. up'["backend"] = up["backend"]
  BY <1>1, TwoClients DEF HandleCommand
<1>5. down'["device"] = Tail(down["device"])
  BY <1>1, <1>2, TwoClients
<1>6. Numbers("command", p) = {p.no}
  BY <1>3 DEF Numbers, Packet
<1>7. /\ CommandsDown = CommandsDown' \cup {p.no} /\ CommandsDown' \cap {p.no} = {}
      /\ Once("command", down'["device"])
  BY <1>1, <1>2, <1>5, <1>6, OfTail DEF CommandsDown, CommandsSingle
<1>8. CommandsUp' = CommandsUp /\ Once("command", up'["backend"])
  BY <1>1, <1>4 DEF CommandsUp, CommandsSingle
<1> QED
  BY <1>2, <1>7, <1>8 DEF CommandMoves, CommandsSingle

(* Any step moves commands in one of these ways.                           *)
LEMMA CommandMove == IndInv /\ [Next]_vars => CommandMoves /\ CommandsSingle'
<1> SUFFICES ASSUME IndInv, [Next]_vars PROVE CommandMoves /\ CommandsSingle'
  OBVIOUS
<1>1. /\ up \in [Clients -> Seq(Packets)] /\ down \in [Clients -> Seq(Packets)]
      /\ up["backend"] \in Seq(Packets) /\ down["device"] \in Seq(Packets)
      /\ CommandsSingle /\ Shape /\ LinksSound
  BY TwoClients DEF IndInv, Shape, CommandsOnce, CommandsSingle
<1>2. ASSUME up'["backend"] = up["backend"], down'["device"] = down["device"],
             executed' = executed,
             requests' = requests \/ \E n \in Presses : Press(n) \/ LogSent(n)
      PROVE  CommandMoves /\ CommandsSingle'
  <2>1. CommandsUp' = CommandsUp /\ CommandsDown' = CommandsDown
    BY <1>2 DEF CommandsUp, CommandsDown
  <2> QED
    BY <1>1, <1>2, <2>1 DEF CommandMoves, CommandsSingle
<1>3. CASE DeviceStep /\ ~HandleCommand
  <2>1. up'["backend"] = up["backend"]
    BY <1>1, <1>3, DeviceFacts, TwoClients DEF Sending
  <2> QED
    BY <1>1, <1>2, <1>3, <2>1, DeviceFacts
<1>4. CASE AddEvent
  <2>1. down'["device"] = down["device"]
    BY <1>1, <1>4, TwoClients DEF AddEvent
  <2> QED
    BY <1>2, <1>4, <2>1 DEF AddEvent, page_vars, device_vars
<1>5. ASSUME NEW c \in Clients, OnConnect(c) PROVE CommandMoves /\ CommandsSingle'
  <2>1. /\ up' = [up EXCEPT ![c] = up'[c]] /\ Of("command", up'[c]) = Of("command", up[c])
        /\ Once("command", up[c]) => Once("command", up'[c])
        /\ UNCHANGED <<down, executed, requests>>
    BY <1>5, OnConnectFacts DEF device_vars
  <2>2. /\ Of("command", up'["backend"]) = Of("command", up["backend"])
        /\ Once("command", up["backend"]) => Once("command", up'["backend"])
    <3>1. CASE c = "backend"
      BY <2>1, <3>1
    <3>2. CASE c # "backend"
      <4>1. up'["backend"] = up["backend"]
        BY <1>1, <2>1, <3>2, TwoClients
      <4> QED
        BY <4>1
    <3> QED
      BY <3>1, <3>2
  <2>3. CommandsUp' = CommandsUp /\ CommandsDown' = CommandsDown
    BY <2>1, <2>2 DEF CommandsUp, CommandsDown
  <2> QED
    BY <1>1, <2>1, <2>2, <2>3 DEF CommandMoves, CommandsSingle
<1>6. CASE Route("device")
  <2>1. /\ up' = [up EXCEPT !["device"] = Tail(@)]
        /\ UNCHANGED <<executed, requests>>
        /\ down' = down \/ Routed("event", "device", "backend")
    BY <1>6, RouteFacts, TwoClients DEF device_vars
  <2>2. up'["backend"] = up["backend"]
    BY <1>1, <2>1, TwoClients
  <2>3. down'["device"] = down["device"]
    BY <1>1, <2>1, TwoClients DEF Routed
  <2> QED
    BY <1>2, <2>1, <2>2, <2>3
<1>7. ASSUME NEW cs \in SUBSET Clients, Losing(cs) PROVE CommandMoves /\ CommandsSingle'
  <2>1. ASSUME NEW c \in Clients
        PROVE  /\ c \in cs => /\ up'[c] = <<>> /\ down'[c] = <<>>
                              /\ up[c] # <<>> \/ down[c] # <<>> => link'[c] = "lost"
               /\ c \notin cs => up'[c] = up[c] /\ down'[c] = down[c]
    BY <1>1, <1>7, LosingFacts DEF LinksSound
  <2>2. /\ CommandsUp' \subseteq CommandsUp /\ Once("command", up'["backend"])
        /\ CommandsUp' # CommandsUp => link'["backend"] = "lost"
    <3>1. CASE "backend" \in cs
      BY <2>1, <3>1, TwoClients, OfNone DEF CommandsUp
    <3>2. CASE "backend" \notin cs
      BY <1>1, <2>1, <3>2, TwoClients DEF CommandsUp, CommandsSingle
    <3> QED
      BY <3>1, <3>2
  <2>3. /\ CommandsDown' \subseteq CommandsDown /\ Once("command", down'["device"])
        /\ CommandsDown' # CommandsDown => link'["device"] = "lost"
    <3>1. CASE "device" \in cs
      BY <2>1, <3>1, TwoClients, OfNone DEF CommandsDown
    <3>2. CASE "device" \notin cs
      BY <1>1, <2>1, <3>2, TwoClients DEF CommandsDown, CommandsSingle
    <3> QED
      BY <3>1, <3>2
  <2>4. \A n \in (CommandsUp \ CommandsUp') \cup (CommandsDown \ CommandsDown') :
          Gone("command", n, "backend")
    BY <2>2, <2>3, TwoClients DEF Gone, CommandsUp, CommandsDown
  <2>5. executed' = executed /\ requests' = requests
    BY <1>7 DEF Losing
  <2> QED
    BY <2>2, <2>3, <2>4, <2>5 DEF CommandMoves, CommandsSingle
<1>8. CASE Quiet \/ \E n \in Presses : Press(n) \/ LogSent(n)
  BY <1>2, <1>8 DEF Quiet, Press, LogSent, device_vars
<1> QED
  BY <1>3, <1>4, <1>5, <1>6, <1>7, <1>8, PublishMoves, RouteMovesCommand, HandleMoves,
     TwoClients, Steps

(* A request that was published or logged stays so.                        *)
LEMMA AnsweredGrows == IndInv /\ [Next]_vars => Answered \subseteq Answered'
<1> SUFFICES ASSUME IndInv, [Next]_vars PROVE Answered \subseteq Answered'
  OBVIOUS
<1>1. requests \in [Presses -> {"none", "received", "published", "logged"}]
  BY DEF IndInv, Shape
<1>2. ASSUME NEW n \in Presses, Press(n) PROVE Answered \subseteq Answered'
  <2>1. n \notin Pressed /\ requests' = [requests EXCEPT ![n] = "received"]
    BY <1>2 DEF Press, Presses
  <2> QED
    BY <1>1, <2>1 DEF Answered, Pressed
<1>3. ASSUME NEW n \in Presses, PublishCommand(n) \/ LogSent(n)
      PROVE  Answered \subseteq Answered'
  BY <1>1, <1>3 DEF PublishCommand, LogSent, Answered
<1>4. \/ requests' = requests
      \/ \E n \in Presses : Press(n) \/ PublishCommand(n) \/ LogSent(n)
  BY Steps, DeviceFacts, OnConnectFacts, RouteFacts DEF IndInv, Losing, AddEvent, Quiet,
     page_vars
<1> QED
  BY <1>2, <1>3, <1>4 DEF Answered

(* Every step keeps a command in one place.                                *)
LEMMA CommandsStep == IndInv /\ [Next]_vars => CommandsOnce'
<1> SUFFICES ASSUME IndInv, [Next]_vars PROVE CommandsOnce'
  OBVIOUS
<1>1. /\ CommandsUp \subseteq Answered /\ CommandsDown \subseteq Answered
      /\ CommandsUp \cap CommandsDown = {}
      /\ requests \in [Presses -> {"none", "received", "published", "logged"}]
  BY DEF IndInv, CommandsOnce, CommandsUp, CommandsDown, Shape
<1>2. CommandMoves /\ CommandsSingle' /\ Answered \subseteq Answered'
  BY CommandMove, AnsweredGrows
<1>3. /\ CommandsUp' \subseteq Answered' /\ CommandsDown' \subseteq Answered'
      /\ CommandsUp' \cap CommandsDown' = {}
  <2>1. ASSUME NEW n \in Presses, requests[n] = "received",
               requests' = [requests EXCEPT ![n] = "published"],
               CommandsUp' \in {CommandsUp, CommandsUp \cup {n}},
               CommandsDown' = CommandsDown
        PROVE  /\ CommandsUp' \subseteq Answered' /\ CommandsDown' \subseteq Answered'
               /\ CommandsUp' \cap CommandsDown' = {}
    <3>1. n \in Answered' /\ n \notin Answered
      BY <1>1, <2>1 DEF Answered
    <3> QED
      BY <1>1, <1>2, <2>1, <3>1
  <2> QED
    BY <1>1, <1>2, <2>1 DEF CommandMoves
<1> QED
  BY <1>2, <1>3 DEF CommandsOnce, CommandsSingle, CommandsUp, CommandsDown

-----------------------------------------------------------------------------
(* The way of the events.                                                  *)

EventLines == [kind : {"event"}, no : Nat]
NumbersOf(seen) == [i \in DOMAIN seen |-> seen[i].no]

(* The numbers of longer lists of events.                                  *)
LEMMA NumbersAppend ==
  ASSUME NEW seen \in Seq(EventLines), NEW e \in EventLines
  PROVE  /\ NumbersOf(seen) \in Seq(Nat)
         /\ ToSet(NumbersOf(seen)) = {p.no : p \in ToSet(seen)}
         /\ NumbersOf(Append(seen, e)) = Append(NumbersOf(seen), e.no)
<1> DEFINE longer == Append(seen, e)
<1>1. /\ Len(seen) \in Nat /\ DOMAIN seen = 1..Len(seen)
      /\ \A i \in DOMAIN seen : seen[i] \in EventLines
      /\ longer \in Seq(EventLines) /\ DOMAIN longer = 1..(Len(seen) + 1)
      /\ \A i \in 1..Len(seen) : longer[i] = seen[i]
      /\ longer[Len(seen) + 1] = e
  BY AppendProperties
<1> HIDE DEF longer
<1>2. NumbersOf(seen) \in Seq(Nat)
  <2>1. \A i \in 1..Len(seen) : seen[i].no \in Nat
    BY <1>1 DEF EventLines
  <2> QED
    BY <1>1, <2>1, IsASeq DEF NumbersOf
<1>3. /\ DOMAIN NumbersOf(seen) = 1..Len(seen) /\ Len(NumbersOf(seen)) = Len(seen)
      /\ \A i \in 1..Len(seen) : NumbersOf(seen)[i] = seen[i].no
  BY <1>1, <1>2 DEF NumbersOf
<1>4. ToSet(NumbersOf(seen)) = {p.no : p \in ToSet(seen)}
  BY <1>1, <1>3 DEF ToSet
<1>5. e.no \in Nat
  BY DEF EventLines
<1>6. PICK more : more = Append(NumbersOf(seen), e.no)
  OBVIOUS
<1>7. /\ more \in Seq(Nat) /\ Len(more) = Len(seen) + 1
      /\ \A i \in 1..Len(seen) : more[i] = seen[i].no
      /\ more[Len(seen) + 1] = e.no
  BY <1>2, <1>3, <1>5, <1>6, AppendProperties
<1>8. NumbersOf(longer) \in Seq(Nat) /\ Len(NumbersOf(longer)) = Len(seen) + 1
  <2>1. \A i \in 1..(Len(seen) + 1) : longer[i] \in EventLines
    BY <1>1
  <2>2. \A i \in 1..(Len(seen) + 1) : longer[i].no \in Nat
    BY <2>1 DEF EventLines
  <2> QED
    BY <1>1, <2>2, IsASeq DEF NumbersOf
<1>9. \A i \in 1..(Len(seen) + 1) : NumbersOf(longer)[i] = more[i]
  <2>1. ASSUME NEW i \in 1..(Len(seen) + 1) PROVE NumbersOf(longer)[i] = more[i]
    <3>1. NumbersOf(longer)[i] = longer[i].no
      BY <1>1 DEF NumbersOf
    <3>2. CASE i = Len(seen) + 1
      BY <1>1, <1>7, <3>1, <3>2
    <3>3. CASE i # Len(seen) + 1
      <4>1. i \in 1..Len(seen)
        BY <1>1, <3>3
      <4> QED
        BY <1>1, <1>7, <3>1, <4>1
    <3> QED
      BY <3>2, <3>3
  <2> QED
    BY <2>1
<1>10. NumbersOf(longer) = more
  BY <1>1, <1>7, <1>8, <1>9, SeqEqual
<1> QED
  BY <1>2, <1>4, <1>6, <1>10 DEF longer

(* The events among the lines of the store.                                *)
LEMMA ReceivedFacts ==
  ASSUME events \in Seq(Lines)
  PROVE  Received \in Seq(Nat) /\ ToSet(Received) = Of("event", events)
<1>1. EventLines = Lines \cap EventLines
  BY DEF EventLines, Lines
<1>2. PICK seen : seen = Selected(events, EventLines)
  OBVIOUS
<1>3. seen \in Seq(EventLines) /\ ToSet(seen) = ToSet(events) \cap EventLines
  BY <1>1, <1>2, SelectedHolds
<1>4. Received = NumbersOf(seen)
  BY <1>2 DEF Received, NumbersOf, EventLines
<1>5. Packet("event", 0) \in EventLines
  BY DEF Packet, EventLines
<1>6. Received \in Seq(Nat) /\ ToSet(Received) = {p.no : p \in ToSet(seen)}
  BY <1>3, <1>4, <1>5, NumbersAppend
<1>7. \A p \in ToSet(events) : p \in EventLines <=> p.kind = "event"
  <2>1. \A p \in ToSet(events) : p \in Lines
    BY DEF ToSet
  <2> QED
    BY <2>1 DEF Lines, EventLines
<1> QED
  BY <1>3, <1>6, <1>7 DEF Of

(* A line more.                                                            *)
LEMMA ReceivedAppend ==
  ASSUME events \in Seq(Lines), NEW e \in Lines, events' = Append(events, e)
  PROVE  /\ e.kind = "event" => Received' = Append(Received, e.no)
         /\ e.kind # "event" => Received' = Received
<1>1. EventLines = Lines \cap EventLines
  BY DEF EventLines, Lines
<1>2. PICK seen : seen = Selected(events, EventLines)
  OBVIOUS
<1>3. seen \in Seq(EventLines)
  BY <1>1, <1>2, SelectedHolds
<1>4. Received = NumbersOf(seen) /\ Received' = NumbersOf(Selected(events', EventLines))
  BY <1>2 DEF Received, NumbersOf, EventLines
<1>5. Selected(Append(events, e), EventLines) =
        IF e \in EventLines THEN Append(seen, e) ELSE seen
  BY <1>2, SelectedAppend
<1>6. e \in EventLines <=> e.kind = "event"
  BY DEF Lines, EventLines
<1>7. CASE e \in EventLines
  <2>1. Received' = NumbersOf(Append(seen, e))
    BY <1>4, <1>5, <1>7
  <2> QED
    BY <1>3, <1>4, <1>6, <1>7, <2>1, NumbersAppend
<1>8. CASE e \notin EventLines
  BY <1>4, <1>5, <1>6, <1>8
<1> QED
  BY <1>7, <1>8

Queued == ToSet(queue)
QueueSingle == \A i, j \in DOMAIN queue : queue[i] = queue[j] => i = j
EventsSingle == Once("event", up["device"]) /\ Once("event", down["backend"]) /\ QueueSingle

(* The ways in which an event may go missing.                              *)
Dropped(m) ==
  \/ Gone("event", m, "device")
  \/ /\ passed + Len(queue) = MaxQueue /\ reporting = "store" /\ reporting' = "no"
     /\ m = Head(Append(queue, Len(reports)))
  \/ link["device"] = "clearing" /\ link'["device"] = "ready" /\ m \in ToSet(queue)
  \/ ~Connected("device") /\ reporting = "publish" /\ m = Len(reports)
  \/ RestartDevice /\ m \in Reported \cup ToSet(queue)

EventsPending == UNION {Reported, Queued, EventsUp, EventsDown}

(* A step reports an event, sends one, brings one to the backend's         *)
(* connection, puts one into the store, or moves none but from a report    *)
(* into the queue; then the ones that are missing are dropped.             *)
EventMoves ==
  \/ \E no \in Nat, press \in 0..MaxPresses :
       /\ no = Len(reports) + 1 /\ no \notin DOMAIN reports
       /\ reports' = Append(reports, press) /\ Reported = {}
       /\ Queued' = Queued /\ EventsDown' = EventsDown /\ events' = events
       /\ \/ Reported' = {no} /\ EventsUp' = EventsUp
          \/ Reported' = {} /\ EventsUp' = EventsUp \cup {no}
  \/ \E m \in Reported \cup Queued :
       /\ Reported' = Reported \ {m} /\ Queued' = Queued \ {m}
       /\ EventsUp' = EventsUp \cup {m} /\ EventsDown' = EventsDown
       /\ events' = events /\ reports' = reports
  \/ \E m \in EventsUp :
       /\ EventsUp' = EventsUp \ {m} /\ EventsDown' = EventsDown \cup {m}
       /\ Reported' = Reported /\ Queued' = Queued
       /\ events' = events /\ reports' = reports
  \/ \E m \in EventsDown :
       /\ EventsUp' = EventsUp /\ EventsDown' = EventsDown \ {m}
       /\ Reported' = Reported /\ Queued' = Queued
       /\ events' = Append(events, Packet("event", m)) /\ reports' = reports
  \/ /\ EventsUp' \subseteq EventsUp /\ EventsDown' \subseteq EventsDown
     /\ Reported' \subseteq Reported /\ Queued' \subseteq Queued \cup (Reported \ Reported')
     /\ \A m \in EventsPending \ EventsPending' : Dropped(m)
     /\ events' = events \/ \E n \in Presses : LogSent(n)
     /\ reports' = reports

(* What the invariant says of the events, in these terms.                  *)
LEMMA EventsAre ==
  ASSUME IndInv
  PROVE  /\ up \in [Clients -> Seq(Packets)] /\ down \in [Clients -> Seq(Packets)]
         /\ up["device"] \in Seq(Packets) /\ down["backend"] \in Seq(Packets)
         /\ queue \in Seq(Nat) /\ EventsSingle
         /\ Reported \subseteq DOMAIN reports /\ Queued \subseteq DOMAIN reports
         /\ EventsUp \subseteq DOMAIN reports /\ EventsDown \subseteq DOMAIN reports
         /\ Reported \cap Queued = {} /\ Reported \cap EventsUp = {}
         /\ Reported \cap EventsDown = {}
         /\ Queued \cap EventsUp = {} /\ Queued \cap EventsDown = {}
         /\ EventsUp \cap EventsDown = {}
  BY TwoClients DEF IndInv, Shape, EventsOnce, Queued, EventsUp, EventsDown, EventsSingle,
     QueueSingle

(* A number more in the queue.                                             *)
LEMMA QueueAppend ==
  ASSUME NEW q \in Seq(Nat), NEW no \in Nat, no \notin ToSet(q),
         \A i, j \in DOMAIN q : q[i] = q[j] => i = j
  PROVE  LET r == Append(q, no) IN
         ToSet(r) = ToSet(q) \cup {no} /\ \A i, j \in DOMAIN r : r[i] = r[j] => i = j
<1> DEFINE r == Append(q, no)
<1>1. /\ Len(q) \in Nat /\ DOMAIN q = 1..Len(q) /\ DOMAIN r = 1..(Len(q) + 1)
      /\ \A i \in 1..Len(q) : r[i] = q[i]
      /\ r[Len(q) + 1] = no
  BY AppendProperties
<1>2. ToSet(r) = ToSet(q) \cup {no}
  BY AppendSet
<1>3. \A i \in DOMAIN q : q[i] # no
  BY DEF ToSet
<1> HIDE DEF r
<1>4. ASSUME NEW i \in DOMAIN r, NEW j \in DOMAIN r, r[i] = r[j] PROVE i = j
  <2>1. CASE i \in DOMAIN q /\ j \in DOMAIN q
    BY <1>1, <1>4, <2>1
  <2>2. CASE ~(i \in DOMAIN q /\ j \in DOMAIN q)
    BY <1>1, <1>3, <1>4, <2>2
  <2> QED
    BY <2>1, <2>2
<1> QED
  BY <1>2, <1>4 DEF r

(* The oldest number goes.                                                 *)
LEMMA QueueTail ==
  ASSUME NEW q \in Seq(Nat), q # <<>>, \A i, j \in DOMAIN q : q[i] = q[j] => i = j
  PROVE  LET r == Tail(q) IN
         /\ r \in Seq(Nat) /\ ToSet(q) = {Head(q)} \cup ToSet(r) /\ Head(q) \notin ToSet(r)
         /\ \A i, j \in DOMAIN r : r[i] = r[j] => i = j
<1> DEFINE r == Tail(q)
<1>1. /\ r \in Seq(Nat) /\ Len(q) \in Nat /\ DOMAIN q = 1..Len(q)
      /\ DOMAIN r = 1..(Len(q) - 1)
      /\ \A i \in 1..(Len(q) - 1) : r[i] = q[i + 1]
      /\ Head(q) = q[1] /\ 1 \in DOMAIN q
  BY HeadTailProperties
<1>2. ToSet(q) = {Head(q)} \cup ToSet(r)
  BY TailSet
<1> HIDE DEF r
<1>3. ASSUME NEW i \in DOMAIN r, NEW j \in DOMAIN r, r[i] = r[j] PROVE i = j
  <2>1. /\ i + 1 \in DOMAIN q /\ j + 1 \in DOMAIN q /\ q[i + 1] = q[j + 1]
        /\ i \in Int /\ j \in Int
    BY <1>1, <1>3
  <2>2. i + 1 = j + 1
    BY <2>1
  <2> QED
    BY <2>1, <2>2
<1>4. ASSUME NEW i \in DOMAIN r, r[i] = Head(q) PROVE FALSE
  <2>1. i + 1 \in DOMAIN q /\ q[i + 1] = q[1] /\ i + 1 # 1
    BY <1>1, <1>4
  <2> QED
    BY <1>1, <2>1
<1>5. Head(q) \notin ToSet(r)
  BY <1>4 DEF ToSet
<1> QED
  BY <1>1, <1>2, <1>3, <1>5 DEF r

(* An event is sent.                                                       *)
LEMMA SendMoves ==
  ASSUME IndInv, NEW no \in Nat, Sending(no), no \notin EventsUp
  PROVE  EventsUp' = EventsUp \cup {no} /\ Once("event", up'["device"])
<1>1. /\ up \in [Clients -> Seq(Packets)] /\ up["device"] \in Seq(Packets)
      /\ Once("event", up["device"])
  BY EventsAre DEF EventsSingle
<1>2. /\ Packet("event", no) \in Packets
      /\ up'["device"] = Append(up["device"], Packet("event", no))
  BY <1>1, TwoClients DEF Sending
<1>3. /\ Numbers("event", Packet("event", no)) = {no}
      /\ Of("event", up["device"]) \cap {no} = {}
  BY DEF Numbers, Packet, EventsUp
<1>4. /\ Of("event", up'["device"]) = Of("event", up["device"]) \cup {no}
      /\ Once("event", up'["device"])
  BY <1>1, <1>2, <1>3, OfAppend
<1> QED
  BY <1>4 DEF EventsUp

(* publish_json() of an event of its own: to begin with, ...               *)
LEMMA OwnMoves ==
  ASSUME IndInv, ReportOwn
  PROVE  EventMoves /\ EventsSingle'
<1>1. PICK no : no = Len(reports) + 1
  OBVIOUS
<1>2. /\ reports' = Append(reports, 0) /\ 0 \in 0..MaxPresses
      /\ reporting = "no" /\ reporting' # "no"
      /\ UNCHANGED <<up, down, queue, events>>
  BY SystemAssumption DEF ReportOwn
<1>3. no \in Nat /\ no \notin DOMAIN reports /\ Len(reports') = no
  BY <1>1, <1>2, NewReport DEF IndInv, Shape
<1>4. Reported = {} /\ Reported' = {no}
  BY <1>2, <1>3 DEF Reported
<1>5. /\ Queued' = Queued /\ EventsDown' = EventsDown /\ EventsUp' = EventsUp
      /\ EventsSingle'
  BY <1>2, EventsAre DEF Queued, EventsDown, EventsUp, EventsSingle, QueueSingle
<1> QED
  BY <1>1, <1>2, <1>3, <1>4, <1>5 DEF EventMoves

(* ... with a connection, ...                                              *)
LEMMA PublishReportMoves ==
  ASSUME IndInv, PublishReport
  PROVE  EventMoves /\ EventsSingle'
<1>1. PICK no : no = Len(reports)
  OBVIOUS
<1>2. /\ reporting = "publish" /\ reporting' = "no"
      /\ UNCHANGED <<down, queue, events, reports>>
  BY DEF PublishReport
<1>3. Reported = {no} /\ Reported' = {}
  BY <1>1, <1>2 DEF Reported
<1>4. /\ Queued' = Queued /\ EventsDown' = EventsDown
      /\ Once("event", down'["backend"]) /\ QueueSingle'
  BY <1>2, EventsAre DEF Queued, EventsDown, EventsSingle, QueueSingle
<1>5. no \notin Queued /\ no \notin EventsUp /\ no \in Nat
  BY <1>1, <1>3, EventsAre DEF IndInv, Shape
<1>6. CASE Connected("device")
  <2>1. Packet("event", no) \in Packets
    BY <1>5 DEF Packet, Packets
  <2>2. Sending(no)
    BY <1>1, <1>6, <2>1 DEF PublishReport, Sending
  <2>3. EventsUp' = EventsUp \cup {no} /\ Once("event", up'["device"])
    BY <1>5, <2>2, SendMoves
  <2>4. Reported' = Reported \ {no} /\ Queued' = Queued \ {no} /\ no \in Reported \cup Queued
    BY <1>3, <1>4, <1>5
  <2> QED
    BY <1>2, <1>4, <2>3, <2>4 DEF EventMoves, EventsSingle
<1>7. CASE ~Connected("device")
  <2>1. up' = up
    BY <1>7 DEF PublishReport, IndInv, Shape
  <2>2. EventsUp' = EventsUp /\ Once("event", up'["device"])
    BY <2>1, EventsAre DEF EventsUp, EventsSingle
  <2>3. Dropped(no)
    BY <1>1, <1>2, <1>7 DEF Dropped
  <2>4. \A m \in EventsPending \ EventsPending' : m = no
    BY <1>3, <1>4, <2>2 DEF EventsPending
  <2> QED
    BY <1>2, <1>3, <1>4, <2>2, <2>3, <2>4 DEF EventMoves, EventsSingle
<1> QED
  BY <1>6, <1>7

(* ... or without one.                                                     *)
LEMMA StoreMoves ==
  ASSUME IndInv, StoreReport
  PROVE  EventMoves /\ EventsSingle'
<1>1. PICK no : no = Len(reports)
  OBVIOUS
<1>2. /\ reporting = "store" /\ reporting' = "no"
      /\ UNCHANGED <<up, down, events, reports>>
  BY DEF StoreReport
<1>3. Reported = {no} /\ Reported' = {}
  BY <1>1, <1>2 DEF Reported
<1>4. /\ EventsUp' = EventsUp /\ EventsDown' = EventsDown
      /\ Once("event", up'["device"]) /\ Once("event", down'["backend"])
  BY <1>2, EventsAre DEF EventsUp, EventsDown, EventsSingle
<1>5. PICK longer : longer = Append(queue, no)
  OBVIOUS
<1>6. /\ longer \in Seq(Nat) /\ longer # <<>> /\ ToSet(longer) = Queued \cup {no}
      /\ \A i, j \in DOMAIN longer : longer[i] = longer[j] => i = j
  <2>1. /\ queue \in Seq(Nat) /\ no \in Nat /\ no \notin ToSet(queue)
        /\ \A i, j \in DOMAIN queue : queue[i] = queue[j] => i = j
    BY <1>1, <1>3, EventsAre DEF IndInv, Shape, Queued, EventsSingle, QueueSingle
  <2>2. longer \in Seq(Nat) /\ Len(longer) = Len(queue) + 1 /\ Len(queue) \in Nat
    BY <1>5, <2>1, AppendProperties
  <2>3. longer # <<>>
    BY <2>2
  <2> QED
    BY <1>5, <2>1, <2>2, <2>3, QueueAppend DEF Queued
<1>7. queue' = IF passed + Len(queue) = MaxQueue THEN Tail(longer) ELSE longer
  BY <1>1, <1>5 DEF StoreReport
<1>8. CASE passed + Len(queue) = MaxQueue
  <2>1. PICK rest : rest = Tail(longer)
    OBVIOUS
  <2>2. /\ ToSet(longer) = {Head(longer)} \cup ToSet(rest)
        /\ \A i, j \in DOMAIN rest : rest[i] = rest[j] => i = j
    BY <1>6, <2>1, QueueTail
  <2>3. queue' = rest
    BY <1>7, <1>8, <2>1
  <2>4. Queued \cup {no} = {Head(longer)} \cup Queued' /\ QueueSingle'
    BY <1>6, <2>2, <2>3 DEF Queued, QueueSingle
  <2>5. Dropped(Head(longer))
    BY <1>1, <1>2, <1>5, <1>8 DEF Dropped
  <2>6. \A m \in EventsPending \ EventsPending' : m = Head(longer)
    BY <1>3, <1>4, <2>4 DEF EventsPending
  <2>7. Queued' \subseteq Queued \cup (Reported \ Reported') /\ Reported' \subseteq Reported
    BY <1>3, <2>4
  <2> QED
    BY <1>2, <1>4, <2>4, <2>5, <2>6, <2>7 DEF EventMoves, EventsSingle
<1>9. CASE passed + Len(queue) # MaxQueue
  <2>1. Queued' = Queued \cup {no} /\ QueueSingle'
    BY <1>6, <1>7, <1>9 DEF Queued, QueueSingle
  <2>2. EventsPending \ EventsPending' = {}
    BY <1>3, <1>4, <2>1 DEF EventsPending
  <2>3. Queued' \subseteq Queued \cup (Reported \ Reported') /\ Reported' \subseteq Reported
    BY <1>3, <2>1
  <2> QED
    BY <1>2, <1>4, <2>1, <2>2, <2>3 DEF EventMoves, EventsSingle
<1> QED
  BY <1>8, <1>9

(* on_connect sends the oldest event of the queue.                         *)
LEMMA FlushMoves ==
  ASSUME IndInv, FlushNext
  PROVE  EventMoves /\ EventsSingle'
<1>1. PICK no : no = Head(queue)
  OBVIOUS
<1>2. /\ queue # <<>> /\ queue' = Tail(queue) /\ link["device"] = "flushing"
      /\ UNCHANGED <<down, events, reporting, reports>>
      /\ up' = [up EXCEPT !["device"] = Append(@, Packet("event", no))]
  BY <1>1 DEF FlushNext
<1>3. /\ queue \in Seq(Nat) /\ \A i, j \in DOMAIN queue : queue[i] = queue[j] => i = j
  BY EventsAre DEF EventsSingle, QueueSingle
<1>4. /\ Queued = {no} \cup Queued' /\ no \notin Queued' /\ QueueSingle'
  BY <1>1, <1>2, <1>3, QueueTail DEF Queued, QueueSingle
<1>5. no \in Nat /\ no \notin Reported /\ no \notin EventsUp
  <2>1. no \in Nat
    BY <1>1, <1>2, <1>3, HeadTailProperties
  <2> QED
    BY <1>4, <2>1, EventsAre
<1>6. Sending(no)
  <2>1. Packet("event", no) \in Packets
    BY <1>5 DEF Packet, Packets
  <2> QED
    BY <1>2, <2>1 DEF Sending, Connected
<1>7. EventsUp' = EventsUp \cup {no} /\ Once("event", up'["device"])
  BY <1>5, <1>6, SendMoves
<1>8. /\ Reported' = Reported \ {no} /\ Queued' = Queued \ {no} /\ no \in Reported \cup Queued
  <2>1. Reported' = Reported
    BY <1>2 DEF Reported
  <2> QED
    BY <1>4, <1>5, <2>1
<1>9. EventsDown' = EventsDown /\ Once("event", down'["backend"])
  BY <1>2, EventsAre DEF EventsDown, EventsSingle
<1> QED
  BY <1>2, <1>4, <1>7, <1>8, <1>9 DEF EventMoves, EventsSingle

(* on_connect clears the queue.                                            *)
LEMMA ClearMoves ==
  ASSUME IndInv, Clear
  PROVE  EventMoves /\ EventsSingle'
<1>1. /\ link["device"] = "clearing" /\ link'["device"] = "ready" /\ queue' = <<>>
      /\ UNCHANGED <<up, down, events, reporting, reports>>
  BY TwoClients DEF Clear, IndInv, Shape
<1>2. ToSet(<<>>) = {} /\ DOMAIN <<>> = {}
  BY DEF ToSet
<1>3. Queued' = {} /\ QueueSingle'
  BY <1>1, <1>2, Zenon DEF Queued, QueueSingle
<1>4. /\ Reported' = Reported /\ EventsUp' = EventsUp /\ EventsDown' = EventsDown
      /\ Once("event", up'["device"]) /\ Once("event", down'["backend"])
  BY <1>1, EventsAre DEF Reported, EventsUp, EventsDown, EventsSingle
<1>5. \A m \in Queued : Dropped(m)
  BY <1>1 DEF Dropped, Queued
<1>6. EventsPending \ EventsPending' \subseteq Queued
  BY <1>3, <1>4 DEF EventsPending
<1> QED
  BY <1>1, <1>3, <1>4, <1>5, <1>6 DEF EventMoves, EventsSingle

(* The device answers a command.                                           *)
LEMMA AnswerMoves ==
  ASSUME IndInv, HandleCommand
  PROVE  EventMoves /\ EventsSingle'
<1>1. PICK no : no = Len(reports) + 1
  OBVIOUS
<1>2. PICK press : press = Head(down["device"]).no
  OBVIOUS
<1>3. /\ down["device"] # <<>> /\ link["device"] = "ready" /\ reporting = "no"
      /\ reports' = Append(reports, press)
      /\ up' = [up EXCEPT !["device"] = Append(@, Packet("event", no))]
      /\ down' = [down EXCEPT !["device"] = Tail(@)]
      /\ UNCHANGED <<events, queue, reporting>>
  BY <1>1, <1>2 DEF HandleCommand
<1>4. press \in 0..MaxPresses
  BY <1>2, <1>3, ArrivalFacts, SystemAssumption
<1>5. no \in Nat /\ no \notin DOMAIN reports /\ Packet("event", no) \in Packets
  BY <1>1, <1>3, <1>4, NewReport DEF IndInv, Shape
<1>6. no \notin EventsUp /\ Sending(no)
  BY <1>3, <1>5, EventsAre DEF Sending, Connected
<1>7. EventsUp' = EventsUp \cup {no} /\ Once("event", up'["device"])
  BY <1>5, <1>6, SendMoves
<1>8. Reported = {} /\ Reported' = {}
  BY <1>3 DEF Reported
<1>9. down'["backend"] = down["backend"]
  BY <1>3, EventsAre, TwoClients
<1>10. /\ Queued' = Queued /\ EventsDown' = EventsDown
       /\ Once("event", down'["backend"]) /\ QueueSingle'
  BY <1>3, <1>9, EventsAre DEF Queued, EventsDown, EventsSingle, QueueSingle
<1> QED
  BY <1>1, <1>3, <1>4, <1>5, <1>7, <1>8, <1>10 DEF EventMoves, EventsSingle

(* The broker passes an event on, or drops it.                             *)
LEMMA RouteMovesEvent ==
  ASSUME IndInv, Route("device")
  PROVE  EventMoves /\ EventsSingle'
<1> DEFINE p == Head(up["device"])
<1>1. /\ up \in [Clients -> Seq(Packets)] /\ down \in [Clients -> Seq(Packets)]
      /\ up["device"] \in Seq(Packets) /\ down["backend"] \in Seq(Packets)
      /\ EventsSingle /\ EventsUp \cap EventsDown = {}
  BY EventsAre
<1>2. /\ up["device"] # <<>> /\ p \in Packets
      /\ up' = [up EXCEPT !["device"] = Tail(@)]
      /\ (p.kind = "subscribe" /\ down' = down) \/ Routed("event", "device", "backend")
      /\ events' = events /\ UNCHANGED <<queue, reporting, reports>>
  BY TwoClients, RouteFacts DEF device_vars
<1>3. up'["device"] = Tail(up["device"])
  BY <1>1, <1>2, TwoClients
<1>4. /\ EventsUp = EventsUp' \cup Numbers("event", p)
      /\ EventsUp' \cap Numbers("event", p) = {}
      /\ Once("event", up'["device"])
  BY <1>1, <1>2, <1>3, OfTail DEF EventsUp, EventsSingle
<1>5. Queued' = Queued /\ QueueSingle' /\ Reported' = Reported
  BY <1>1, <1>2 DEF Queued, QueueSingle, EventsSingle, Reported
<1>6. CASE p.kind = "subscribe" /\ down' = down
  <2>1. Numbers("event", p) = {}
    BY <1>6 DEF Numbers
  <2>2. EventsUp' = EventsUp /\ EventsDown' = EventsDown
    BY <1>4, <1>6, <2>1 DEF EventsDown
  <2>3. EventsPending \ EventsPending' = {}
    BY <1>5, <2>2 DEF EventsPending
  <2> QED
    BY <1>1, <1>2, <1>4, <1>5, <1>6, <2>2, <2>3 DEF EventMoves, EventsSingle
<1>7. CASE Routed("event", "device", "backend")
  <2>1. p.kind = "event" /\ Numbers("event", p) = {p.no} /\ p = Packet("event", p.no)
    BY <1>2, <1>7 DEF Routed, Numbers, Packets, Packet
  <2>2. p.no \in EventsUp /\ EventsUp' = EventsUp \ {p.no} /\ p.no \notin EventsDown
    BY <1>1, <1>4, <2>1
  <2>3. CASE "backend" \in subscribed
    <3>1. down'["backend"] = Append(down["backend"], p)
      BY <1>1, <1>7, <2>3, TwoClients DEF Routed
    <3>2. Of("event", down["backend"]) \cap Numbers("event", p) = {}
      BY <2>1, <2>2 DEF EventsDown
    <3>3. Once("event", down["backend"])
      BY <1>1 DEF EventsSingle
    <3>4. /\ Of("event", down'["backend"]) = Of("event", down["backend"]) \cup {p.no}
          /\ Once("event", down'["backend"])
      BY <1>1, <1>2, <2>1, <3>1, <3>2, <3>3, OfAppend
    <3>5. EventsDown' = EventsDown \cup {p.no}
      BY <3>4 DEF EventsDown
    <3> QED
      BY <1>2, <1>4, <1>5, <2>2, <3>4, <3>5 DEF EventMoves, EventsSingle
  <2>4. CASE "backend" \notin subscribed
    <3>1. down' = down
      BY <1>7, <2>4 DEF Routed
    <3>2. EventsDown' = EventsDown
      BY <3>1 DEF EventsDown
    <3>3. Gone("event", p.no, "device")
      BY <2>1, <2>2, <2>4, TwoClients DEF Gone, EventsUp
    <3>4. \A m \in EventsPending \ EventsPending' : m = p.no
      BY <1>5, <2>2, <3>2 DEF EventsPending
    <3>5. Dropped(p.no)
      BY <3>3 DEF Dropped
    <3>6. Queued' \subseteq Queued \cup (Reported \ Reported') /\ Reported' \subseteq Reported
      BY <1>5
    <3>7. EventsUp' \subseteq EventsUp /\ EventsDown' \subseteq EventsDown
      BY <2>2, <3>2
    <3> QED
      BY <1>1, <1>2, <1>4, <1>5, <3>1, <3>4, <3>5, <3>6, <3>7 DEF EventMoves, EventsSingle
  <2> QED
    BY <2>3, <2>4
<1> QED
  BY <1>2, <1>6, <1>7

(* The backend puts an event into its store.                               *)
LEMMA AddMoves ==
  ASSUME IndInv, AddEvent
  PROVE  EventMoves /\ EventsSingle'
<1> DEFINE p == Head(down["backend"])
<1>1. /\ down \in [Clients -> Seq(Packets)] /\ down["backend"] \in Seq(Packets)
      /\ EventsSingle
  BY EventsAre
<1>2. /\ down["backend"] # <<>> /\ events' = Append(events, p)
      /\ down' = [down EXCEPT !["backend"] = Tail(@)]
      /\ UNCHANGED <<up, queue, reporting, reports>>
  BY DEF AddEvent, device_vars
<1>3. p \in Packets /\ p = Packet("event", p.no)
  BY <1>2, ArrivalFacts
<1>4. down'["backend"] = Tail(down["backend"])
  BY <1>1, <1>2, TwoClients
<1>5. Numbers("event", p) = {p.no}
  BY <1>3 DEF Numbers, Packet
<1>6. /\ EventsDown = EventsDown' \cup {p.no} /\ EventsDown' \cap {p.no} = {}
      /\ Once("event", down'["backend"])
  BY <1>1, <1>2, <1>4, <1>5, OfTail DEF EventsDown, EventsSingle
<1>7. /\ EventsUp' = EventsUp /\ Queued' = Queued /\ Reported' = Reported
      /\ Once("event", up'["device"]) /\ QueueSingle'
  BY <1>1, <1>2 DEF EventsUp, Queued, QueueSingle, EventsSingle, Reported
<1> QED
  BY <1>2, <1>3, <1>6, <1>7 DEF EventMoves, EventsSingle

(* Any step moves events in one of these ways.                             *)
LEMMA EventMove == IndInv /\ [Next]_vars => EventMoves /\ EventsSingle'
<1> SUFFICES ASSUME IndInv, [Next]_vars PROVE EventMoves /\ EventsSingle'
  OBVIOUS
<1>1. /\ up \in [Clients -> Seq(Packets)] /\ down \in [Clients -> Seq(Packets)]
      /\ up["device"] \in Seq(Packets) /\ down["backend"] \in Seq(Packets)
      /\ EventsSingle /\ LinksSound
  BY EventsAre DEF IndInv
<1>2. ASSUME up'["device"] = up["device"], down'["backend"] = down["backend"],
             queue' = queue, reporting' = reporting, reports' = reports,
             events' = events \/ \E n \in Presses : LogSent(n)
      PROVE  EventMoves /\ EventsSingle'
  <2>1. /\ EventsUp' = EventsUp /\ EventsDown' = EventsDown /\ Queued' = Queued
        /\ QueueSingle' /\ Reported' = Reported
    BY <1>1, <1>2 DEF EventsUp, EventsDown, Queued, QueueSingle, EventsSingle, Reported
  <2>2. EventsPending \ EventsPending' = {}
    BY <2>1 DEF EventsPending
  <2> QED
    BY <1>1, <1>2, <2>1, <2>2 DEF EventMoves, EventsSingle
<1>3. CASE DeviceStep
  BY <1>3, OwnMoves, PublishReportMoves, StoreMoves, FlushMoves, ClearMoves, AnswerMoves
     DEF DeviceStep
<1>5. ASSUME NEW c \in Clients, OnConnect(c) PROVE EventMoves /\ EventsSingle'
  <2>1. /\ up' = [up EXCEPT ![c] = up'[c]] /\ Of("event", up'[c]) = Of("event", up[c])
        /\ Once("event", up[c]) => Once("event", up'[c])
        /\ UNCHANGED <<down, events, queue, reporting, reports>>
    BY <1>5, OnConnectFacts DEF device_vars
  <2>2. /\ Of("event", up'["device"]) = Of("event", up["device"])
        /\ Once("event", up["device"]) => Once("event", up'["device"])
    <3>1. CASE c = "device"
      BY <2>1, <3>1
    <3>2. CASE c # "device"
      <4>1. up'["device"] = up["device"]
        BY <1>1, <2>1, <3>2, TwoClients
      <4> QED
        BY <4>1
    <3> QED
      BY <3>1, <3>2
  <2>3. /\ EventsUp' = EventsUp /\ EventsDown' = EventsDown /\ Queued' = Queued
        /\ QueueSingle' /\ Reported' = Reported
    BY <1>1, <2>1, <2>2 DEF EventsUp, EventsDown, Queued, QueueSingle, EventsSingle, Reported
  <2>4. EventsPending \ EventsPending' = {}
    BY <2>3 DEF EventsPending
  <2> QED
    BY <1>1, <2>1, <2>2, <2>3, <2>4 DEF EventMoves, EventsSingle
<1>6. CASE Route("backend")
  <2>1. /\ up' = [up EXCEPT !["backend"] = Tail(@)]
        /\ UNCHANGED <<events, queue, reporting, reports>>
        /\ down' = down \/ Routed("command", "backend", "device")
    BY <1>6, RouteFacts, TwoClients DEF device_vars
  <2>2. up'["device"] = up["device"]
    BY <1>1, <2>1, TwoClients
  <2>3. down'["backend"] = down["backend"]
    BY <1>1, <2>1, TwoClients DEF Routed
  <2> QED
    BY <1>2, <2>1, <2>2, <2>3
<1>7. ASSUME NEW cs \in SUBSET Clients, Losing(cs) PROVE EventMoves /\ EventsSingle'
  <2>1. ASSUME NEW c \in Clients
        PROVE  /\ c \in cs => /\ up'[c] = <<>> /\ down'[c] = <<>>
                              /\ up[c] # <<>> \/ down[c] # <<>> => link'[c] = "lost"
               /\ c \notin cs => up'[c] = up[c] /\ down'[c] = down[c]
    BY <1>1, <1>7, LosingFacts DEF LinksSound
  <2>2. /\ EventsUp' \subseteq EventsUp /\ Once("event", up'["device"])
        /\ EventsUp' # EventsUp => link'["device"] = "lost"
    <3>1. CASE "device" \in cs
      BY <2>1, <3>1, TwoClients, OfNone DEF EventsUp
    <3>2. CASE "device" \notin cs
      BY <1>1, <2>1, <3>2, TwoClients DEF EventsUp, EventsSingle
    <3> QED
      BY <3>1, <3>2
  <2>3. /\ EventsDown' \subseteq EventsDown /\ Once("event", down'["backend"])
        /\ EventsDown' # EventsDown => link'["backend"] = "lost"
    <3>1. CASE "backend" \in cs
      BY <2>1, <3>1, TwoClients, OfNone DEF EventsDown
    <3>2. CASE "backend" \notin cs
      BY <1>1, <2>1, <3>2, TwoClients DEF EventsDown, EventsSingle
    <3> QED
      BY <3>1, <3>2
  <2>4. \A m \in (EventsUp \ EventsUp') \cup (EventsDown \ EventsDown') : Dropped(m)
    BY <2>2, <2>3, TwoClients DEF Dropped, Gone, EventsUp, EventsDown
  <2>5. /\ events' = events /\ reports' = reports
        /\ \/ UNCHANGED <<queue, reporting>>
           \/ RestartDevice /\ queue' = <<>> /\ reporting' = "no"
    BY <1>7 DEF Losing
  <2>6. /\ QueueSingle' /\ Queued' \subseteq Queued /\ Reported' \subseteq Reported
        /\ \A m \in (Queued \ Queued') \cup (Reported \ Reported') : Dropped(m)
    <3>1. ToSet(<<>>) = {} /\ DOMAIN <<>> = {}
      BY DEF ToSet
    <3>2. CASE RestartDevice /\ queue' = <<>> /\ reporting' = "no"
      <4>1. QueueSingle' /\ Queued' = {} /\ Reported' = {}
        BY <3>1, <3>2, Zenon DEF Queued, QueueSingle, Reported
      <4>2. \A m \in Reported \cup Queued : Dropped(m)
        BY <3>2 DEF Dropped, Queued
      <4> QED
        BY <4>1, <4>2
    <3>3. CASE UNCHANGED <<queue, reporting>>
      <4>1. QueueSingle' /\ Queued' = Queued /\ Reported' = Reported
        BY <1>1, <2>5, <3>3 DEF Queued, QueueSingle, EventsSingle, Reported
      <4> QED
        BY <4>1
    <3> QED
      BY <2>5, <3>2, <3>3
  <2>7. \A m \in EventsPending \ EventsPending' : Dropped(m)
    BY <2>4, <2>6 DEF EventsPending
  <2> QED
    BY <2>2, <2>3, <2>5, <2>6, <2>7 DEF EventMoves, EventsSingle
<1>8. ASSUME NEW n \in Presses, PublishCommand(n) PROVE EventMoves /\ EventsSingle'
  <2>1. up'["device"] = up["device"] /\ down' = down
    BY <1>1, <1>8, TwoClients DEF PublishCommand
  <2> QED
    BY <1>2, <1>8, <2>1 DEF PublishCommand, device_vars
<1>9. CASE Quiet \/ \E n \in Presses : Press(n) \/ LogSent(n)
  BY <1>2, <1>9 DEF Quiet, Press, LogSent, device_vars
<1> QED
  BY <1>3, <1>5, <1>6, <1>7, <1>8, <1>9, RouteMovesEvent, AddMoves, TwoClients, Steps

(* Every step keeps an event in one place.                                 *)
LEMMA EventsStep == IndInv /\ [Next]_vars => EventsOnce'
<1> SUFFICES ASSUME IndInv, [Next]_vars PROVE EventsOnce'
  OBVIOUS
<1>1. /\ Reported \subseteq DOMAIN reports /\ Queued \subseteq DOMAIN reports
      /\ EventsUp \subseteq DOMAIN reports /\ EventsDown \subseteq DOMAIN reports
      /\ Reported \cap Queued = {} /\ Reported \cap EventsUp = {}
      /\ Reported \cap EventsDown = {}
      /\ Queued \cap EventsUp = {} /\ Queued \cap EventsDown = {}
      /\ EventsUp \cap EventsDown = {}
  BY EventsAre
<1>2. EventMoves /\ EventsSingle'
  BY EventMove
<1>3. ASSUME NEW no \in Nat, NEW press \in 0..MaxPresses, no = Len(reports) + 1,
             reports' = Append(reports, press)
      PROVE  DOMAIN reports' = DOMAIN reports \cup {no}
  <2>1. reports \in Seq(0..MaxPresses)
    BY DEF IndInv, Shape
  <2> QED
    BY <1>3, <2>1, AppendProperties
<1>4. /\ Reported' \subseteq DOMAIN reports' /\ Queued' \subseteq DOMAIN reports'
      /\ EventsUp' \subseteq DOMAIN reports' /\ EventsDown' \subseteq DOMAIN reports'
      /\ Reported' \cap Queued' = {} /\ Reported' \cap EventsUp' = {}
      /\ Reported' \cap EventsDown' = {}
      /\ Queued' \cap EventsUp' = {} /\ Queued' \cap EventsDown' = {}
      /\ EventsUp' \cap EventsDown' = {}
  BY <1>1, <1>2, <1>3 DEF EventMoves
<1> QED
  BY <1>2, <1>4 DEF EventsOnce, EventsSingle, EventsUp, EventsDown, Queued, QueueSingle

-----------------------------------------------------------------------------
(* Presses and their answers.                                              *)

(* What a step does to the requests: one is pressed, published or logged.  *)
LEMMA RequestSteps ==
  ASSUME IndInv, [Next]_vars
  PROVE  \/ \E n \in Presses : Press(n) \/ PublishCommand(n) \/ LogSent(n)
         \/ requests' = requests
  BY Steps, DeviceFacts, OnConnectFacts, RouteFacts DEF IndInv, Losing, AddEvent, Quiet,
     page_vars

(* A line more in the store is that of a command sent or an event that the *)
(* device reported.                                                        *)
LEMMA StoreSteps ==
  ASSUME IndInv, [Next]_vars
  PROVE  \/ events' = events
         \/ \E n \in Presses : LogSent(n) /\ events' = Append(events, Packet("sent", n))
         \/ \E m \in DOMAIN reports : events' = Append(events, Packet("event", m))
<1>1. ASSUME NEW n \in Presses, LogSent(n) PROVE events' = Append(events, Packet("sent", n))
  BY <1>1 DEF LogSent
<1>2. ASSUME AddEvent
      PROVE  \E m \in DOMAIN reports : events' = Append(events, Packet("event", m))
  <2>1. down["backend"] # <<>> /\ events' = Append(events, Head(down["backend"]))
    BY <1>2 DEF AddEvent
  <2> QED
    BY <2>1, ArrivalFacts
<1>3. events' = events \/ AddEvent \/ \E n \in Presses : LogSent(n)
  BY Steps, DeviceFacts, OnConnectFacts, RouteFacts DEF IndInv, Press, PublishCommand,
     Losing, Quiet
<1> QED
  BY <1>1, <1>2, <1>3

(* What the device reports answers nothing, or a command published before. *)
LEMMA ReportSteps ==
  ASSUME IndInv, [Next]_vars
  PROVE  /\ DOMAIN reports \subseteq DOMAIN reports'
         /\ \A m \in DOMAIN reports' : reports'[m] # 0 => reports'[m] \in Answered
<1>1. /\ \A m \in DOMAIN reports : reports[m] # 0 => reports[m] \in Answered
      /\ Shape
  BY DEF IndInv, AnswersSound
<1>2. ASSUME NEW press \in 0..MaxPresses, reports' = Append(reports, press),
             press = 0 \/ press \in Answered
      PROVE  /\ DOMAIN reports \subseteq DOMAIN reports'
             /\ \A m \in DOMAIN reports' : reports'[m] # 0 => reports'[m] \in Answered
  <2>1. PICK no : /\ DOMAIN reports' = DOMAIN reports \cup {no} /\ reports'[no] = press
                  /\ \A m \in DOMAIN reports : reports'[m] = reports[m]
    BY <1>1, <1>2, NewReport DEF Shape
  <2> QED
    BY <1>1, <1>2, <2>1
<1>3. CASE ReportOwn
  BY <1>2, <1>3, SystemAssumption DEF ReportOwn
<1>4. CASE HandleCommand
  <2>1. PICK n : /\ n = Head(down["device"]).no /\ down["device"] # <<>>
                 /\ reports' = Append(reports, n)
    BY <1>4 DEF HandleCommand
  <2>2. n \in 0..MaxPresses /\ n \in Answered
    BY <2>1, ArrivalFacts, SystemAssumption
  <2> QED
    BY <1>2, <2>1, <2>2
<1>5. reports' = reports \/ ReportOwn \/ HandleCommand
  BY <1>1, Steps, DeviceFacts, OnConnectFacts, RouteFacts DEF Press, PublishCommand, LogSent,
     Losing, AddEvent, Quiet, device_vars
<1> QED
  BY <1>1, <1>3, <1>4, <1>5

(* Every step keeps the store and the answers in agreement.                *)
LEMMA AnswersStep == IndInv /\ [Next]_vars => AnswersSound'
<1> SUFFICES ASSUME IndInv, [Next]_vars PROVE AnswersSound'
  OBVIOUS
<1>1. /\ AnswersSound /\ events \in Seq(Lines)
      /\ requests \in [Presses -> {"none", "received", "published", "logged"}]
      /\ reports \in Seq(0..MaxPresses)
  BY DEF IndInv, Shape
<1>2. ASSUME NEW e \in Lines, events' = Append(events, e)
      PROVE  ToSet(events') = ToSet(events) \cup {e}
  BY <1>1, <1>2, AppendSet
<1>3. /\ \A n \in Presses : Packet("sent", n) \in Lines
      /\ \A m \in DOMAIN reports : Packet("event", m) \in Lines
  BY <1>1 DEF Packet, Lines, Presses
<1>4. \/ events' = events
      \/ \E n \in Presses :
           LogSent(n) /\ ToSet(events') = ToSet(events) \cup {Packet("sent", n)}
      \/ \E m \in DOMAIN reports : ToSet(events') = ToSet(events) \cup {Packet("event", m)}
  BY <1>2, <1>3, StoreSteps
<1>5. ToSet(events) \subseteq ToSet(events')
  BY <1>4
<1>6. ASSUME NEW n \in Presses, requests'[n] = "logged"
      PROVE  Packet("sent", n) \in ToSet(events')
  <2>1. CASE requests[n] = "logged"
    BY <1>1, <1>5, <2>1 DEF AnswersSound
  <2>2. CASE requests[n] # "logged"
    <3>1. LogSent(n)
      BY <1>1, <1>6, <2>2, RequestSteps DEF Press, PublishCommand, LogSent
    <3>2. events' = Append(events, Packet("sent", n))
      BY <3>1 DEF LogSent
    <3> QED
      BY <1>2, <1>3, <3>2
  <2> QED
    BY <2>1, <2>2
<1>7. \A m \in DOMAIN reports' : reports'[m] # 0 => reports'[m] \in Answered'
  BY ReportSteps, AnsweredGrows
<1>8. ASSUME NEW p \in ToSet(events'), p.kind = "event" PROVE p.no \in DOMAIN reports'
  <2>1. \/ p \in ToSet(events) \/ p.kind = "sent"
        \/ \E m \in DOMAIN reports : p = Packet("event", m)
    BY <1>4 DEF Packet
  <2>2. p.no \in DOMAIN reports
    BY <1>1, <1>8, <2>1 DEF AnswersSound, Packet
  <2> QED
    BY <2>2, ReportSteps
<1> QED
  BY <1>6, <1>7, <1>8 DEF AnswersSound

(* Hence the invariant, of every behaviour.                                *)
THEOREM Invariance == Spec => []IndInv
<1>1. IndInv /\ [Next]_vars => IndInv'
  BY ShapeStep, LinksStep, KindsStep, PressesStep, CommandsStep, EventsStep, AnswersStep
     DEF IndInv
<1> QED
  BY <1>1, InitInv, PTL DEF Spec

(* Every variable keeps its type, and the broker serves only who is        *)
(* connected to it.                                                        *)
THEOREM TypeCorrect == Spec => []TypeOK
<1>1. IndInv => TypeOK
  <2> SUFFICES ASSUME IndInv PROVE TypeOK
    OBVIOUS
  <2>1. Shape /\ LinksSound /\ ToSet(queue) \subseteq DOMAIN reports
    BY DEF IndInv, EventsOnce
  <2>2. queue \in Seq(DOMAIN reports)
    <3>1. /\ queue = [i \in 1..Len(queue) |-> queue[i]] /\ Len(queue) \in Nat
          /\ DOMAIN queue = 1..Len(queue)
      BY <2>1 DEF Shape
    <3>2. \A i \in 1..Len(queue) : queue[i] \in DOMAIN reports
      BY <2>1, <3>1 DEF ToSet
    <3> QED
      BY <3>1, <3>2, IsASeq
  <2>3. subscribed \subseteq {c \in Clients : link[c] \in {"flushing", "clearing", "ready"}}
    BY <2>1 DEF Shape, LinksSound, Through
  <2> QED
    BY <2>1, <2>2, <2>3 DEF TypeOK, Shape, LinksSound
<1> QED
  BY <1>1, Invariance, PTL

(* An answer in the store is explained there, or its request thread is     *)
(* about to do so.                                                         *)
THEOREM AnswersCorrect == Spec => []AnswersExplained
<1>1. IndInv => AnswersExplained
  <2> SUFFICES ASSUME IndInv, NEW m \in ToSet(Received), reports[m] # 0
               PROVE  \/ Packet("sent", reports[m]) \in ToSet(events)
                      \/ requests[reports[m]] = "published"
    BY DEF AnswersExplained
  <2>1. AnswersSound /\ events \in Seq(Lines)
    BY DEF IndInv, Shape
  <2>2. m \in DOMAIN reports
    BY <2>1, ReceivedFacts DEF Of, AnswersSound
  <2> QED
    BY <2>1, <2>2 DEF AnswersSound, Answered
<1> QED
  BY <1>1, Invariance, PTL

-----------------------------------------------------------------------------
(* What is lost.                                                           *)

Asked == {n \in Presses : requests[n] = "received"}

(* Which requests wait to be published.                                    *)
LEMMA AskedSteps ==
  ASSUME IndInv
  PROVE  /\ \A n \in Presses : requests[n] = "received"
              /\ requests' = [requests EXCEPT ![n] = "published"] => Asked' = Asked \ {n}
         /\ \A n \in Presses : Press(n) => Asked' = Asked \cup {n} /\ n \notin Asked
         /\ \A n \in Presses : LogSent(n) => Asked' = Asked
         /\ requests' = requests => Asked' = Asked
         /\ PendingCommands = UNION {Asked, CommandsUp, CommandsDown}
         /\ Asked \cap CommandsUp = {} /\ Asked \cap CommandsDown = {}
<1>1. /\ requests \in [Presses -> {"none", "received", "published", "logged"}]
      /\ CommandsUp \subseteq Answered /\ CommandsDown \subseteq Answered
  BY DEF IndInv, Shape, CommandsOnce, CommandsUp, CommandsDown
<1>2. ASSUME NEW n \in Presses, Press(n) PROVE Asked' = Asked \cup {n} /\ n \notin Asked
  <2>1. n \notin Pressed /\ requests' = [requests EXCEPT ![n] = "received"]
    BY <1>2 DEF Press, Presses
  <2> QED
    BY <1>1, <2>1 DEF Asked, Pressed
<1>3. ASSUME NEW n \in Presses, LogSent(n) PROVE Asked' = Asked
  BY <1>1, <1>3 DEF LogSent, Asked
<1>4. Asked \cap Answered = {}
  BY DEF Asked, Answered
<1>5. PendingCommands = UNION {Asked, CommandsUp, CommandsDown}
  BY DEF PendingCommands, Asked, CommandsUp, CommandsDown
<1>6. ASSUME NEW n \in Presses, requests[n] = "received",
             requests' = [requests EXCEPT ![n] = "published"]
      PROVE  Asked' = Asked \ {n}
  BY <1>1, <1>6 DEF Asked
<1>7. requests' = requests => Asked' = Asked
  BY DEF Asked
<1> QED
  BY <1>1, <1>2, <1>3, <1>4, <1>5, <1>6, <1>7

(* A command that is neither on its way any more nor executed.             *)
LEMMA CommandLoss ==
  ASSUME IndInv, [Next]_vars, NEW n \in PendingCommands,
         n \notin PendingCommands', n \notin ToSet(executed')
  PROVE  ~Connected("backend") \/ Gone("command", n, "backend")
<1>1. /\ n \in Asked \/ n \in CommandsUp \/ n \in CommandsDown
      /\ n \notin Asked' /\ n \notin CommandsUp' /\ n \notin CommandsDown'
  <2>1. PendingCommands' = UNION {Asked', CommandsUp', CommandsDown'}
    BY DEF PendingCommands, Asked, CommandsUp, CommandsDown
  <2> QED
    BY <2>1, AskedSteps
<1>2. CommandMoves
  BY CommandMove
<1>3. ASSUME NEW k \in Presses, requests[k] = "received",
             requests' = [requests EXCEPT ![k] = "published"],
             CommandsUp' \in {CommandsUp, CommandsUp \cup {k}},
             k \in CommandsUp' \/ ~Connected("backend"), CommandsDown' = CommandsDown
      PROVE  ~Connected("backend")
  <2>1. Asked' = Asked \ {k}
    BY <1>3, AskedSteps
  <2> QED
    BY <1>1, <1>3, <2>1
<1>4. ASSUME requests' = requests \/ \E k \in Presses : Press(k) \/ LogSent(k)
      PROVE  Asked \subseteq Asked'
  BY <1>4, AskedSteps
<1>5. ASSUME NEW k \in CommandsUp, CommandsUp' = CommandsUp \ {k},
             CommandsDown' = CommandsDown \cup {k}, requests' = requests
      PROVE  FALSE
  BY <1>1, <1>4, <1>5
<1>6. ASSUME NEW k \in CommandsDown, CommandsUp' = CommandsUp,
             CommandsDown' = CommandsDown \ {k},
             executed' = Append(executed, k), requests' = requests
      PROVE  FALSE
  <2>1. n = k
    BY <1>1, <1>4, <1>6
  <2>2. executed \in Seq(Nat) /\ k \in Nat
    BY DEF IndInv, Shape, CommandsOnce, CommandsDown, Answered, Presses
  <2>3. k \in ToSet(executed')
    BY <1>6, <2>2, AppendSet
  <2> QED
    BY <2>1, <2>3
<1>7. ASSUME CommandsUp' \subseteq CommandsUp, CommandsDown' \subseteq CommandsDown,
             \A k \in (CommandsUp \ CommandsUp') \cup (CommandsDown \ CommandsDown') :
               Gone("command", k, "backend"),
             requests' = requests \/ \E k \in Presses : Press(k) \/ LogSent(k)
      PROVE  Gone("command", n, "backend")
  BY <1>1, <1>4, <1>7
<1> QED
  BY <1>2, <1>3, <1>5, <1>6, <1>7 DEF CommandMoves

(* An event that is neither on its way any more nor in the store.          *)
LEMMA EventLoss ==
  ASSUME IndInv, [Next]_vars, NEW m \in PendingEvents,
         m \notin PendingEvents', m \notin ToSet(Received')
  PROVE  Dropped(m)
<1>1. m \in EventsPending /\ m \notin EventsPending'
  BY DEF PendingEvents, EventsPending, Queued, EventsUp, EventsDown
<1>2. EventMoves /\ events \in Seq(Lines) /\ EventsDown \subseteq Nat
  <2>1. DOMAIN reports \subseteq Nat
    BY DEF IndInv, Shape
  <2> QED
    BY <2>1, EventMove, EventsAre DEF IndInv, Shape
<1>3. \/ EventsPending \subseteq EventsPending' \/ Dropped(m)
      \/ \E k \in EventsDown :
           /\ EventsPending \subseteq EventsPending' \cup {k}
           /\ events' = Append(events, Packet("event", k))
  BY <1>1, <1>2 DEF EventMoves, EventsPending
<1>4. ASSUME NEW k \in EventsDown, EventsPending \subseteq EventsPending' \cup {k},
             events' = Append(events, Packet("event", k))
      PROVE  FALSE
  <2>1. m = k /\ k \in Nat
    BY <1>1, <1>2, <1>4
  <2>2. Packet("event", k) \in Lines /\ Packet("event", k).kind = "event"
        /\ Packet("event", k).no = k
    BY <2>1 DEF Packet, Lines
  <2>3. Received' = Append(Received, k) /\ Received \in Seq(Nat)
    BY <1>2, <1>4, <2>2, ReceivedAppend, ReceivedFacts
  <2>4. k \in ToSet(Received')
    BY <2>1, <2>3, AppendSet
  <2> QED
    BY <2>1, <2>4
<1> QED
  BY <1>1, <1>3, <1>4

(* Commands and events are lost in the named ways only.                    *)
THEOREM LossCorrect == Spec => LossExplained
<1> DEFINE Explained ==
      /\ \A n \in PendingCommands \ (PendingCommands' \cup ToSet(executed')) :
           ~Connected("backend") \/ Gone("command", n, "backend")
      /\ \A m \in PendingEvents \ (PendingEvents' \cup ToSet(Received')) :
           \/ Gone("event", m, "device")
           \/ /\ passed + Len(queue) = MaxQueue /\ reporting = "store" /\ reporting' = "no"
              /\ m = Head(Append(queue, Len(reports)))
           \/ link["device"] = "clearing" /\ link'["device"] = "ready" /\ m \in ToSet(queue)
           \/ ~Connected("device") /\ reporting = "publish" /\ m = Len(reports)
           \/ RestartDevice /\ m \in Reported \cup ToSet(queue)
<1>1. IndInv /\ [Next]_vars => Explained
  BY CommandLoss, EventLoss DEF Dropped
<1>2. IndInv /\ [Next]_vars => [Explained]_vars
  BY <1>1
<1> QED
  BY <1>2, Invariance, PTL DEF Spec, LossExplained

-----------------------------------------------------------------------------
(* The two mailboxes.                                                      *)

(* How many buttons have been pressed.                                     *)
LEMMA PressCount ==
  ASSUME IndInv
  PROVE  /\ Cardinality(Pressed) \in Nat
         /\ \A n \in Presses : Press(n) =>
              /\ n = Cardinality(Pressed) + 1
              /\ Cardinality(Pressed') = Cardinality(Pressed) + 1
         /\ (\A n \in Presses : ~Press(n)) /\ [Next]_vars => Pressed' = Pressed
<1>1. /\ requests \in [Presses -> {"none", "received", "published", "logged"}]
      /\ PressesNumbered /\ MaxPresses \in Nat
  BY SystemAssumption DEF IndInv, Shape
<1>2. \A k \in Nat : Cardinality(1..k) = k
  <2>1. ASSUME NEW k \in Nat PROVE Cardinality(1..k) = k
    <3>1. Cardinality(1..k) = IF 1 > k THEN 0 ELSE k - 1 + 1
      BY FS_Interval
    <3> QED
      BY <3>1
  <2> QED
    BY <2>1
<1>3. Cardinality(Pressed) \in Nat
  BY <1>1, <1>2 DEF PressesNumbered
<1>4. ASSUME NEW n \in Presses, Press(n)
      PROVE  /\ n = Cardinality(Pressed) + 1
             /\ Cardinality(Pressed') = Cardinality(Pressed) + 1
  <2>1. Pressed' = Pressed \cup {n} /\ Pressed = 1..(n - 1) /\ n \in 1..MaxPresses
    BY <1>1, <1>4 DEF Press, Pressed, Presses
  <2>2. Pressed' = 1..n /\ n \in Nat /\ n - 1 \in Nat
    BY <1>1, <2>1
  <2>3. Cardinality(Pressed') = n /\ Cardinality(Pressed) = n - 1
    BY <1>2, <2>1, <2>2
  <2> QED
    BY <2>2, <2>3
<1>5. ASSUME \A n \in Presses : ~Press(n), [Next]_vars PROVE Pressed' = Pressed
  <2>1. ASSUME NEW n \in Presses, PublishCommand(n) \/ LogSent(n) PROVE Pressed' = Pressed
    BY <1>1, <2>1 DEF PublishCommand, LogSent, Pressed
  <2>2. requests' = requests => Pressed' = Pressed
    BY DEF Pressed
  <2> QED
    BY <1>5, <2>1, <2>2, RequestSteps
<1> QED
  BY <1>3, <1>4, <1>5

(* Every step of the system is one of the mailbox of commands, or none.    *)
LEMMA CommandsMailbox == IndInv /\ [Next]_vars => [C!Next]_C!mvars
<1> SUFFICES ASSUME IndInv, [Next]_vars PROVE C!Next
  OBVIOUS
<1>1. /\ CommandMoves /\ PendingCommands = UNION {Asked, CommandsUp, CommandsDown}
      /\ Asked \cap CommandsUp = {} /\ Asked \cap CommandsDown = {}
      /\ CommandsUp \cap CommandsDown = {}
      /\ requests \in [Presses -> {"none", "received", "published", "logged"}]
  BY CommandMove, AskedSteps DEF IndInv, Shape, CommandsOnce, CommandsUp, CommandsDown
<1>2. PendingCommands' = UNION {Asked', CommandsUp', CommandsDown'}
  BY DEF PendingCommands, Asked, CommandsUp, CommandsDown
<1>3. ASSUME PendingCommands' \subseteq PendingCommands, Pressed' = Pressed,
             executed' = executed
      PROVE  C!Next
  BY <1>3 DEF C!Next, C!Lose
<1>4. ASSUME NEW n \in Presses, requests[n] = "received",
             requests' = [requests EXCEPT ![n] = "published"],
             CommandsUp' \in {CommandsUp, CommandsUp \cup {n}},
             CommandsDown' = CommandsDown, executed' = executed
      PROVE  C!Next
  <2>1. Asked' = Asked \ {n} /\ n \in Asked
    BY <1>4, AskedSteps DEF Asked
  <2>2. PendingCommands' \subseteq PendingCommands
    BY <1>1, <1>2, <1>4, <2>1
  <2>3. Pressed' = Pressed
    BY <1>1, <1>4 DEF Pressed
  <2> QED
    BY <1>3, <1>4, <2>2, <2>3
<1>5. requests' = requests => Asked' = Asked /\ Pressed' = Pressed
  BY DEF Asked, Pressed
<1>6. ASSUME NEW n \in CommandsUp, CommandsUp' = CommandsUp \ {n},
             CommandsDown' = CommandsDown \cup {n},
             executed' = executed, requests' = requests
      PROVE  C!Next
  <2>1. PendingCommands' \subseteq PendingCommands
    BY <1>1, <1>2, <1>5, <1>6
  <2> QED
    BY <1>3, <1>5, <1>6, <2>1
<1>7. ASSUME NEW n \in CommandsDown, CommandsUp' = CommandsUp,
             CommandsDown' = CommandsDown \ {n},
             executed' = Append(executed, n), requests' = requests
      PROVE  C!Next
  <2>1. PendingCommands' = PendingCommands \ {n} /\ n \in PendingCommands
    BY <1>1, <1>2, <1>5, <1>7
  <2> QED
    BY <1>5, <1>7, <2>1 DEF C!Next, C!Deliver
<1>8. ASSUME CommandsUp' \subseteq CommandsUp, CommandsDown' \subseteq CommandsDown,
             executed' = executed,
             requests' = requests \/ \E n \in Presses : Press(n) \/ LogSent(n)
      PROVE  C!Next
  <2>1. ASSUME NEW n \in Presses, Press(n) PROVE C!Next
    <3>1. Asked' = Asked \cup {n}
      BY <2>1, AskedSteps
    <3>2. /\ n = Cardinality(Pressed) + 1
          /\ Cardinality(Pressed') = Cardinality(Pressed) + 1
      BY <2>1, PressCount
    <3>3. PendingCommands' \subseteq PendingCommands \cup {n}
      BY <1>1, <1>2, <1>8, <3>1
    <3> QED
      BY <1>8, <3>2, <3>3 DEF C!Next, C!Accept
  <2>2. ASSUME NEW n \in Presses, LogSent(n) PROVE C!Next
    <3>1. Asked' = Asked
      BY <2>2, AskedSteps
    <3>2. Pressed' = Pressed
      BY <1>1, <2>2 DEF LogSent, Pressed
    <3>3. PendingCommands' \subseteq PendingCommands
      BY <1>1, <1>2, <1>8, <3>1
    <3> QED
      BY <1>3, <1>8, <3>2, <3>3
  <2>3. CASE requests' = requests
    <3>1. PendingCommands' \subseteq PendingCommands
      BY <1>1, <1>2, <1>5, <1>8, <2>3
    <3> QED
      BY <1>3, <1>5, <1>8, <2>3, <3>1
  <2> QED
    BY <1>8, <2>1, <2>2, <2>3
<1> QED
  BY <1>1, <1>4, <1>6, <1>7, <1>8 DEF CommandMoves

(* Every step of the system is one of the mailbox of events, or none.      *)
LEMMA EventsMailbox == IndInv /\ [Next]_vars => [E!Next]_E!mvars
<1> SUFFICES ASSUME IndInv, [Next]_vars PROVE E!Next
  OBVIOUS
<1>1. /\ EventMoves /\ events \in Seq(Lines) /\ reports \in Seq(0..MaxPresses)
      /\ EventsUp \cap EventsDown = {} /\ Queued \cap EventsDown = {}
      /\ Reported \cap EventsDown = {} /\ EventsDown \subseteq Nat
  <2>1. DOMAIN reports \subseteq Nat
    BY DEF IndInv, Shape
  <2> QED
    BY <2>1, EventMove, EventsAre DEF IndInv, Shape
<1>2. PendingEvents = EventsPending /\ PendingEvents' = EventsPending'
  BY DEF PendingEvents, EventsPending, Queued, EventsUp, EventsDown
<1>3. events' = events => Received' = Received
  BY DEF Received
<1>4. ASSUME EventsPending' \subseteq EventsPending, reports' = reports,
             Received' = Received
      PROVE  E!Next
  BY <1>2, <1>4 DEF E!Next, E!Lose
<1>5. ASSUME NEW no \in Nat, NEW press \in 0..MaxPresses, no = Len(reports) + 1,
             reports' = Append(reports, press),
             EventsPending' \subseteq EventsPending \cup {no}, events' = events
      PROVE  E!Next
  <2>1. Len(reports') = Len(reports) + 1
    BY <1>1, <1>5, AppendProperties
  <2> QED
    BY <1>2, <1>3, <1>5, <2>1 DEF E!Next, E!Accept
<1>6. ASSUME NEW m \in EventsDown, EventsPending' = EventsPending \ {m},
             events' = Append(events, Packet("event", m)), reports' = reports
      PROVE  E!Next
  <2>1. Packet("event", m) \in Lines /\ Packet("event", m).kind = "event"
        /\ Packet("event", m).no = m
    BY <1>1 DEF Packet, Lines
  <2>2. Received' = Append(Received, m)
    BY <1>1, <1>6, <2>1, ReceivedAppend
  <2>3. m \in EventsPending
    BY DEF EventsPending
  <2> QED
    BY <1>2, <1>6, <2>2, <2>3 DEF E!Next, E!Deliver
<1>7. ASSUME EventsPending' \subseteq EventsPending, reports' = reports,
             events' = events \/ \E n \in Presses : LogSent(n)
      PROVE  E!Next
  <2>1. ASSUME NEW n \in Presses, LogSent(n) PROVE Received' = Received
    <3>1. /\ Packet("sent", n) \in Lines /\ Packet("sent", n).kind # "event"
          /\ events' = Append(events, Packet("sent", n))
      BY <2>1 DEF Packet, Lines, Presses, LogSent
    <3> QED
      BY <1>1, <3>1, ReceivedAppend
  <2> QED
    BY <1>3, <1>4, <1>7, <2>1
<1>8. ASSUME EventMoves
      PROVE  \/ \E no \in Nat, press \in 0..MaxPresses :
                  /\ no = Len(reports) + 1 /\ reports' = Append(reports, press)
                  /\ EventsPending' \subseteq EventsPending \cup {no} /\ events' = events
             \/ \E m \in EventsDown :
                  /\ EventsPending' = EventsPending \ {m} /\ reports' = reports
                  /\ events' = Append(events, Packet("event", m))
             \/ /\ EventsPending' \subseteq EventsPending /\ reports' = reports
                /\ events' = events \/ \E n \in Presses : LogSent(n)
  BY <1>1, <1>8 DEF EventMoves, EventsPending
<1> QED
  BY <1>1, <1>5, <1>6, <1>7, <1>8

(* Commands and events each go through a mailbox: none is delivered twice, *)
(* none before it was sent, and none comes back once it has been lost.     *)
THEOREM MailboxesImplemented == Spec => AtMostOnce
<1>1. Init => C!Init /\ E!Init
  <2> SUFFICES ASSUME Init PROVE C!Init /\ E!Init
    OBVIOUS
  <2>1. IndInv
    BY InitInv
  <2>2. \A n \in Presses : requests[n] = "none"
    BY DEF Init
  <2>3. Pressed = {} /\ Asked = {}
    BY <2>2 DEF Pressed, Asked
  <2>4. Cardinality(Pressed) = 0
    BY <2>3, FS_EmptySet
  <2>5. DOMAIN reports = {} /\ Len(reports) = 0 /\ events = <<>> /\ executed = <<>>
    BY DEF Init
  <2>6. CommandsUp = {} /\ CommandsDown = {} /\ PendingEvents = {}
    <3>1. \A c \in Clients : up[c] = <<>> /\ down[c] = <<>>
      BY DEF Init
    <3>2. queue = <<>> /\ ToSet(<<>>) = {} /\ Reported = {}
      BY DEF Init, ToSet, Reported
    <3> QED
      BY <3>1, <3>2, OfNone, TwoClients, Zenon DEF CommandsUp, CommandsDown, PendingEvents
  <2>7. PendingCommands = {}
    BY <2>1, <2>3, <2>6, AskedSteps
  <2>8. Received = <<>>
    <3>1. Received \in Seq(Nat) /\ ToSet(Received) = Of("event", events)
      BY <2>1, ReceivedFacts DEF IndInv, Shape
    <3>2. ToSet(Received) = {}
      BY <2>5, <3>1, OfNone
    <3>3. Len(Received) = 0
      <4>1. Len(Received) # 0 => Received[1] \in ToSet(Received)
        BY <3>1 DEF ToSet
      <4> QED
        BY <3>2, <4>1
    <3> QED
      BY <3>1, <3>3, EmptySeq
  <2> QED
    BY <2>4, <2>5, <2>6, <2>7, <2>8 DEF C!Init, E!Init
<1> QED
  BY <1>1, CommandsMailbox, EventsMailbox, Invariance, PTL
     DEF Spec, AtMostOnce, C!Spec, E!Spec
=============================================================================
