------------------------------ MODULE Delivery ------------------------------
(***************************************************************************)
(* How the broker's threads write to its subscribers (broker.py): sendall()*)
(* on sockets that several threads share without a lock and whose send     *)
(* buffer may be full.                                                     *)
(*                                                                         *)
(* A thread is that of a publisher, whose packets it distributes, or of    *)
(* the subscriber itself, which it acknowledges packets to.  The operating *)
(* system (external) takes as many bytes as there is room for; a thread    *)
(* that has to wait for room leaves the socket to others meanwhile.        *)
(***************************************************************************)
EXTENDS Integers, SequencesExt

CONSTANTS
  Threads, Subscribers,
  FrameLength,  \* bytes of a frame
  Room,         \* bytes of a socket's send buffer
  MaxFrames,    \* bound: thread -> its frames
  MaxStalls     \* bound: times a subscriber stops to read, or goes

ASSUME DeliveryAssumption ==
  /\ {FrameLength, Room} \subseteq Nat \ {0}
  /\ MaxFrames \in [Threads -> Nat] /\ MaxStalls \in Nat
  /\ Subscribers # {}

VARIABLES
  number,       \* thread -> its current frame
  targets,      \* thread -> sockets it has still to send that frame to
  rest,         \* thread -> bytes left to send to the socket in "to"
  to,
  filled,       \* socket -> bytes in its send buffer
  stream,       \* history: socket -> what was put there, byte by byte
  peer,         \* socket -> whether its subscriber reads, stalls or is gone
  waited,       \* history: sockets at which a thread waited in mid-frame
  stalls

sockets == <<filled, stream, peer, waited, stalls>>
vars == <<number, targets, rest, to, sockets>>

Init ==
  /\ number = [t \in Threads |-> 0]
  /\ targets = [t \in Threads |-> {}]
  /\ rest = [t \in Threads |-> 0]
  /\ to = [t \in Threads |-> CHOOSE s \in Subscribers : TRUE]
  /\ filled = [s \in Subscribers |-> 0]
  /\ stream = [s \in Subscribers |-> <<>>]
  /\ peer = [s \in Subscribers |-> "reads"]
  /\ waited = {} /\ stalls = 0

-----------------------------------------------------------------------------
Idle(t) == targets[t] = {} /\ rest[t] = 0

(* The next frame of thread t, for whoever is to get it (Broker).          *)
NextFrame(t) ==
  /\ Idle(t) /\ number[t] < MaxFrames[t]
  /\ number' = [number EXCEPT ![t] = @ + 1]
  /\ \E some \in SUBSET Subscribers : targets' = [targets EXCEPT ![t] = some]
  /\ UNCHANGED <<rest, to, sockets>>

(* Variation: the list of sockets is not shortened.                        *)
SendAllKeeping(t) ==
  /\ rest[t] = 0
  /\ \E s \in targets[t] : to' = [to EXCEPT ![t] = s]
  /\ rest' = [rest EXCEPT ![t] = FrameLength]
  /\ UNCHANGED <<number, targets, sockets>>

(* sendall() to the next socket.                                           *)
SendAll(t) ==
  /\ rest[t] = 0
  /\ \E s \in targets[t] : /\ to' = [to EXCEPT ![t] = s]
                           /\ targets' = [targets EXCEPT ![t] = @ \ {s}]
  /\ rest' = [rest EXCEPT ![t] = FrameLength]
  /\ UNCHANGED <<number, sockets>>

Put(t, s, bytes) ==
  /\ stream' = [stream EXCEPT ![s] = @ \o [i \in 1..bytes |-> <<t, number[t]>>]]
  /\ filled' = [filled EXCEPT ![s] = @ + bytes]

Fitting(t, s) == Min({rest[t], Room - filled[s]})

(* Variations: send() instead of sendall(); a frame that is put together on *)
(* the socket.                                                             *)
FillOnce(t) ==
  LET s == to[t]  bytes == Fitting(t, s) IN
  /\ bytes > 0 /\ peer[s] # "gone"
  /\ Put(t, s, bytes)
  /\ rest' = [rest EXCEPT ![t] = 0]
  /\ UNCHANGED <<number, targets, to, peer, stalls, waited>>
FillPiecemeal(t) ==
  LET s == to[t] IN
  /\ rest[t] > 0 /\ filled[s] < Room /\ peer[s] # "gone"
  /\ Put(t, s, 1)
  /\ rest' = [rest EXCEPT ![t] = @ - 1]
  /\ UNCHANGED <<number, targets, to, peer, stalls, waited>>

(* As much of the rest as there is room for.                               *)
Fill(t) ==
  LET s == to[t]  bytes == Fitting(t, s) IN
  /\ bytes > 0 /\ peer[s] # "gone"
  /\ Put(t, s, bytes)
  /\ rest' = [rest EXCEPT ![t] = @ - bytes]
  /\ waited' = IF bytes < rest[t] THEN waited \cup {s} ELSE waited
  /\ UNCHANGED <<number, targets, to, peer, stalls>>

(* Variation: a send that raised is tried again.                           *)
FailRetrying(t) ==
  /\ rest[t] > 0 /\ peer[to[t]] = "gone"
  /\ UNCHANGED vars

(* sendall() raises, which distribute() swallows.  An acknowledgement that  *)
(* cannot be sent ends the thread instead (Broker).                        *)
Fail(t) ==
  /\ rest[t] > 0 /\ peer[to[t]] = "gone"
  /\ rest' = [rest EXCEPT ![t] = 0]
  /\ UNCHANGED <<number, targets, to, sockets>>

Read(s) ==
  /\ peer[s] = "reads" /\ filled[s] > 0
  /\ filled' = [filled EXCEPT ![s] = @ - 1]
  /\ UNCHANGED <<number, targets, rest, to, stream, peer, waited, stalls>>

(* The subscriber stops to read, goes on to, or goes.                      *)
Change(s) ==
  /\ peer[s] # "gone"
  /\ \E p \in {"reads", "stalls", "gone"} \ {peer[s]} :
       /\ stalls' = IF p = "reads" THEN stalls ELSE stalls + 1
       /\ peer' = [peer EXCEPT ![s] = p]
  /\ stalls' <= MaxStalls
  /\ UNCHANGED <<number, targets, rest, to, filled, stream, waited>>

Work(t) == NextFrame(t) \/ SendAll(t) \/ Fill(t) \/ Fail(t)

(* Bound: every frame was sent.                                            *)
AllSent == /\ \A t \in Threads : Idle(t) /\ number[t] = MaxFrames[t]
           /\ UNCHANGED vars

Next ==
  \/ \E t \in Threads : Work(t)
  \/ \E s \in Subscribers : Read(s) \/ Change(s)
  \/ AllSent

(* Threads go on, and a subscriber that reads goes on reading.             *)
Spec == /\ Init /\ [][Next]_vars
        /\ \A t \in Threads : WF_vars(Work(t))
        /\ \A s \in Subscribers : WF_vars(Read(s))

-----------------------------------------------------------------------------
(* PROPERTIES                                                              *)

Byte == UNION {{<<t, n>> : n \in 1..MaxFrames[t]} : t \in Threads}
Count(s, byte) == Cardinality({i \in DOMAIN stream[s] : stream[s][i] = byte})

(* Every variable keeps its type, and a frame its length.                  *)
TypeOK ==
  /\ number \in [Threads -> Nat] /\ \A t \in Threads : number[t] <= MaxFrames[t]
  /\ targets \in [Threads -> SUBSET Subscribers] /\ to \in [Threads -> Subscribers]
  /\ rest \in [Threads -> 0..FrameLength]
  /\ filled \in [Subscribers -> 0..Room]
  /\ \A s \in Subscribers : \A b \in Byte : Count(s, b) <= FrameLength
  /\ waited \subseteq Subscribers /\ stalls \in 0..MaxStalls

(* The stream to a subscriber consists of whole frames as long as no       *)
(* thread had to wait for room in the middle of one: without a lock, that  *)
(* is all that keeps two threads from mixing their bytes.                  *)
WholeUnlessWaited ==
  \A s \in Subscribers \ waited : \A i, j \in DOMAIN stream[s] :
    (i - 1) \div FrameLength = (j - 1) \div FrameLength => stream[s][i] = stream[s][j]

(* Mixed or not, no byte is missing: a thread that has left a frame behind *)
(* has put it into the stream to its end, or not at all.                   *)
NothingTruncated ==
  \A s \in Subscribers : \A b \in Byte :
    \/ Count(s, b) \in {0, FrameLength}
    \/ peer[s] = "gone"
    \/ b = <<b[1], number[b[1]]>> /\ to[b[1]] = s /\ rest[b[1]] = FrameLength - Count(s, b)

(* A subscriber that does not read blocks every thread that has a frame    *)
(* for it, with all its other subscribers.  Threads never block one        *)
(* another otherwise: all is sent once no subscriber stalls, even if some  *)
(* have gone.                                                              *)
AllServed ==
  <>[](\A s \in Subscribers : peer[s] # "stalls")
    => <>(\A t \in Threads : Idle(t) /\ number[t] = MaxFrames[t])
=============================================================================
