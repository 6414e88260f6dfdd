--------------------------- MODULE DeliveryProofs ---------------------------
(***************************************************************************)
(* Proofs about Delivery: for every number of threads and subscribers,     *)
(* every length of a frame and every size of a send buffer, the streams    *)
(* consist of whole frames as long as no thread had to wait, and no frame  *)
(* is ever cut short for a subscriber that stays.                          *)
(***************************************************************************)
EXTENDS Delivery, SequenceLemmas

Current(t) == <<t, number[t]>>

(* What the variables are made of.                                         *)
Shape ==
  /\ number \in [Threads -> Nat] /\ \A t \in Threads : number[t] <= MaxFrames[t]
  /\ targets \in [Threads -> SUBSET Subscribers] /\ to \in [Threads -> Subscribers]
  /\ rest \in [Threads -> 0..FrameLength]
  /\ filled \in [Subscribers -> 0..Room]
  /\ stream \in [Subscribers -> Seq(Byte)]
  /\ peer \in [Subscribers -> {"reads", "stalls", "gone"}]
  /\ waited \subseteq Subscribers /\ stalls \in 0..MaxStalls

(* A thread has a frame before it has somebody to send it to.              *)
Started == \A t \in Threads : rest[t] > 0 \/ targets[t] # {} => number[t] > 0

(* Nothing of a frame is in a stream before its thread turns to the socket.*)
Unsent ==
  \A t \in Threads : \A s \in Subscribers, n \in 1..MaxFrames[t] :
    n > number[t] \/ (n = number[t] /\ s \in targets[t]) => Count(s, <<t, n>>) = 0

(* A frame goes to each socket once.                                       *)
NotAgain == \A t \in Threads : rest[t] > 0 => to[t] \notin targets[t]

(* What a thread has left to send is what is missing in the stream.        *)
Accounted ==
  \A t \in Threads : rest[t] > 0 => rest[t] + Count(to[t], Current(t)) = FrameLength

(* No frame is in a stream for more than its length.                       *)
NotTooMany == \A s \in Subscribers : \A b \in Byte : Count(s, b) <= FrameLength

(* A socket where no thread waited holds whole frames, and a thread that   *)
(* turned to it has not sent it anything yet.                              *)
Whole(s) == \E k \in 0..Len(stream[s]) : Len(stream[s]) = k * FrameLength
WholeFrames ==
  \A s \in Subscribers \ waited :
    /\ Whole(s)
    /\ \A t \in Threads : to[t] = s /\ rest[t] > 0 => rest[t] = FrameLength

IndInv ==
  /\ Shape /\ Started /\ Unsent /\ NotAgain /\ Accounted /\ NotTooMany
  /\ NothingTruncated /\ WholeFrames /\ WholeUnlessWaited

-----------------------------------------------------------------------------
(* Operators.                                                              *)

(* Min() of two numbers.                                                   *)
LEMMA MinOfTwo ==
  ASSUME NEW a \in Int, NEW b \in Int
  PROVE  Min({a, b}) \in {a, b} /\ Min({a, b}) <= a /\ Min({a, b}) <= b
<1>1. \E x \in {a, b} : \A y \in {a, b} : x <= y
  BY DEF Min
<1> QED
  BY <1>1 DEF Min

(* A sequence with k copies of e after it, and what is where in it.        *)
Longer(q, e, k) == q \o [i \in 1..k |-> e]
IsLonger(r, q, e, k) ==
  /\ Len(r) = Len(q) + k
  /\ \A i \in 1..Len(q) : r[i] = q[i]
  /\ \A i \in (Len(q) + 1)..(Len(q) + k) : r[i] = e
(* That is what is where.                                                  *)
LEMMA CopiesAfter ==
  ASSUME NEW S, NEW q \in Seq(S), NEW e \in S, NEW k \in Nat
  PROVE  Longer(q, e, k) \in Seq(S) /\ IsLonger(Longer(q, e, k), q, e, k)
<1> DEFINE c == [i \in 1..k |-> e]
<1>1. c \in Seq(S) /\ Len(c) = k /\ \A i \in 1..k : c[i] = e
  BY IsASeq, LenProperties
<1> HIDE DEF c
<1>2. /\ q \o c \in Seq(S) /\ Len(q \o c) = Len(q) + Len(c)
      /\ \A i \in 1..(Len(q) + Len(c)) :
           (q \o c)[i] = IF i <= Len(q) THEN q[i] ELSE c[i - Len(q)]
  BY <1>1, ConcatProperties
<1>3. Len(q) \in Nat
  OBVIOUS
<1> QED
  BY <1>1, <1>2, <1>3 DEF c, Longer, IsLonger

(* How often x is in a sequence.                                           *)
Times(q, x) == Cardinality({i \in DOMAIN q : q[i] = x})

(* Each of k more elements e is counted once.                              *)
LEMMA CopiesCounted ==
  ASSUME NEW S, NEW q \in Seq(S), NEW r \in Seq(S), NEW e, NEW k \in Nat, NEW x,
         IsLonger(r, q, e, k)
  PROVE  Times(r, x) = Times(q, x) + IF x = e THEN k ELSE 0
<1> DEFINE old == {i \in DOMAIN q : q[i] = x}
           all == {i \in DOMAIN r : r[i] = x}
           new == (Len(q) + 1)..(Len(q) + k)
<1>1. /\ DOMAIN q = 1..Len(q) /\ Len(q) \in Nat
      /\ DOMAIN r = 1..(Len(q) + k)
      /\ \A i \in 1..Len(q) : r[i] = q[i]
      /\ \A i \in new : r[i] = e
  BY DEF IsLonger
<1>2. IsFiniteSet(old) /\ Cardinality(old) \in Nat
  <2>1. IsFiniteSet(DOMAIN q)
    BY DomainFinite
  <2> QED
    BY <2>1, FS_Subset, FS_CardinalityType
<1>3. x = e => all = old \cup new /\ old \cap new = {}
  BY <1>1
<1>4. x # e => all = old
  BY <1>1
<1>5. IsFiniteSet(new) /\ Cardinality(new) = k
  <2>1. Len(q) + 1 \in Int /\ Len(q) + k \in Int
    BY <1>1
  <2> QED
    BY <2>1, FS_Interval
<1> HIDE DEF all, old, new
<1>6. Cardinality(all) = Cardinality(old) + IF x = e THEN k ELSE 0
  <2>1. CASE x = e
    <3>1. Cardinality(old \cap new) = 0
      BY <1>3, <2>1, FS_EmptySet
    <3>2. Cardinality(old \cup new) =
            Cardinality(old) + Cardinality(new) - Cardinality(old \cap new)
      BY <1>2, <1>5, FS_Union
    <3>3. all = old \cup new
      BY <1>3, <2>1
    <3>4. Cardinality(all) = Cardinality(old) + k
      BY <1>2, <1>5, <3>1, <3>2, <3>3
    <3> QED
      BY <2>1, <3>4
  <2> QED
    BY <1>2, <1>4, <2>1
<1> QED
  BY <1>2, <1>6 DEF all, old, Times

(* Division puts what is before a multiple of L into a smaller class than  *)
(* what is not.                                                            *)
LEMMA DivisionSplits ==
  ASSUME NEW L \in Nat \ {0}, NEW k \in Nat, NEW i \in Nat
  PROVE  /\ i < k * L => i \div L < k
         /\ i >= k * L => i \div L >= k
         /\ i \div L \in Nat
  BY Z3

-----------------------------------------------------------------------------
(* What the steps do.                                                      *)

(* The initial state.                                                      *)
LEMMA InitInv == Init => IndInv
<1> SUFFICES ASSUME Init PROVE IndInv
  OBVIOUS
<1>1. /\ FrameLength \in Nat \ {0} /\ Room \in Nat \ {0}
      /\ MaxFrames \in [Threads -> Nat] /\ MaxStalls \in Nat
  BY DeliveryAssumption
<1>2. Shape
  <2>1. (CHOOSE s \in Subscribers : TRUE) \in Subscribers
    BY DeliveryAssumption
  <2> QED
    BY <1>1, <2>1 DEF Init, Shape
<1>3. \A s \in Subscribers : stream[s] = <<>> /\ DOMAIN stream[s] = {} /\ Len(stream[s]) = 0
  BY DEF Init
<1>4. \A s \in Subscribers : \A b \in Byte : Count(s, b) = 0
  <2> TAKE s \in Subscribers
  <2> TAKE b \in Byte
  <2>1. {i \in DOMAIN stream[s] : stream[s][i] = b} = {}
    BY <1>3
  <2> QED
    BY <2>1, FS_EmptySet, Zenon DEF Count
<1>5. Started /\ NotAgain /\ Accounted
  BY DEF Init, Started, NotAgain, Accounted
<1>6. Unsent /\ NotTooMany /\ NothingTruncated
  BY <1>1, <1>4 DEF Unsent, NotTooMany, NothingTruncated, Byte
<1>7. WholeFrames
  <2>1. \A s \in Subscribers : Whole(s)
    BY <1>1, <1>3 DEF Whole
  <2> QED
    BY <2>1 DEF Init, WholeFrames
<1>8. WholeUnlessWaited
  BY <1>3 DEF WholeUnlessWaited
<1> QED
  BY <1>2, <1>5, <1>6, <1>7, <1>8 DEF IndInv

(* A step is one of these; only Fill() adds to a stream.                   *)
LEMMA Steps ==
  ASSUME [Next]_vars
  PROVE  \/ \E t \in Threads : NextFrame(t) \/ SendAll(t) \/ Fill(t) \/ Fail(t)
         \/ \E s \in Subscribers : Read(s) \/ Change(s)
         \/ UNCHANGED vars
  BY DEF Next, Work, AllSent

(* Counts are numbers.                                                     *)
LEMMA CountType ==
  ASSUME NEW s, NEW S, stream[s] \in Seq(S), NEW b
  PROVE  Count(s, b) \in Nat
<1>1. IsFiniteSet(DOMAIN stream[s])
  BY DomainFinite
<1> QED
  BY <1>1, FS_Subset, FS_CardinalityType DEF Count

(* A stream that is not added to counts as before.                         *)
LEMMA CountStays ==
  ASSUME stream' = stream, NEW s, NEW b
  PROVE  Count(s, b)' = Count(s, b)
  BY DEF Count

(* What Fill(t) does: it puts at least a byte, as many as there is room for.*)
Filling(t, bytes) ==
  /\ filled[to[t]] + bytes \in 0..Room
  /\ number[t] \in 1..MaxFrames[t] /\ Current(t) \in Byte
  /\ stream' = [stream EXCEPT ![to[t]] = Longer(@, Current(t), bytes)]
  /\ filled' = [filled EXCEPT ![to[t]] = @ + bytes]
  /\ rest' = [rest EXCEPT ![t] = @ - bytes]
  /\ waited' = IF bytes < rest[t] THEN waited \cup {to[t]} ELSE waited
  /\ UNCHANGED <<number, targets, to, peer, stalls>>
  /\ peer[to[t]] # "gone"

(* That is what it does.                                                   *)
LEMMA FillFacts ==
  ASSUME IndInv, NEW t \in Threads, Fill(t)
  PROVE  \E bytes \in 1..rest[t] : Filling(t, bytes)
<1> DEFINE bytes == Fitting(t, to[t])
<1>1. /\ rest[t] \in Nat /\ filled[to[t]] \in 0..Room /\ Room \in Nat
      /\ number[t] \in 0..MaxFrames[t] /\ to[t] \in Subscribers
  BY DeliveryAssumption DEF IndInv, Shape
<1>2. bytes <= rest[t] /\ bytes <= Room - filled[to[t]] /\ bytes > 0 /\ bytes \in Int
  <2>1. PICK room \in Int : room = Room - filled[to[t]]
    BY <1>1
  <2>2. Min({rest[t], room}) \in {rest[t], room} /\ Min({rest[t], room}) <= rest[t]
        /\ Min({rest[t], room}) <= room
    <3>1. rest[t] \in Int /\ room \in Int
      BY <1>1, <2>1
    <3> QED
      BY <3>1, MinOfTwo, Zenon
  <2>3. bytes = Min({rest[t], room}) /\ bytes > 0
    BY <2>1 DEF Fill, Fitting
  <2> QED
    BY <1>1, <2>1, <2>2, <2>3
<1>3. number[t] \in 1..MaxFrames[t] /\ MaxFrames \in [Threads -> Nat]
  BY <1>1, <1>2, DeliveryAssumption DEF IndInv, Started
<1>4. Filling(t, bytes)
  BY <1>1, <1>2, <1>3 DEF Fill, Put, Current, Byte, Filling, Longer
<1> QED
  BY <1>1, <1>2, <1>4

(* Every step keeps the shape.                                             *)
LEMMA ShapeStep == IndInv /\ [Next]_vars => Shape'
<1> SUFFICES ASSUME IndInv, [Next]_vars PROVE Shape'
  OBVIOUS
<1>1. Shape /\ FrameLength \in Nat \ {0} /\ Room \in Nat \ {0}
      /\ MaxFrames \in [Threads -> Nat] /\ MaxStalls \in Nat
  BY DeliveryAssumption DEF IndInv
<1>2. ASSUME NEW t \in Threads, NextFrame(t) \/ SendAll(t) \/ Fail(t) PROVE Shape'
  <2>1. UNCHANGED <<filled, stream, peer, waited, stalls>>
    BY <1>2 DEF NextFrame, SendAll, Fail, sockets
  <2>2. CASE NextFrame(t)
    <3>1. /\ number' \in [Threads -> Nat] /\ \A o \in Threads : number'[o] <= MaxFrames[o]
          /\ UNCHANGED <<rest, to>>
      BY <1>1, <2>2 DEF Shape, NextFrame
    <3>2. targets' \in [Threads -> SUBSET Subscribers]
      BY <1>1, <2>2 DEF Shape, NextFrame
    <3> QED
      BY <1>1, <2>1, <3>1, <3>2 DEF Shape
  <2>3. CASE SendAll(t)
    <3>1. PICK s \in targets[t] : /\ to' = [to EXCEPT ![t] = s]
                                  /\ targets' = [targets EXCEPT ![t] = @ \ {s}]
      BY <2>3 DEF SendAll
    <3>2. s \in Subscribers /\ to' \in [Threads -> Subscribers]
      BY <1>1, <3>1 DEF Shape
    <3>3. targets' \in [Threads -> SUBSET Subscribers]
      BY <1>1, <3>1 DEF Shape
    <3>4. rest' \in [Threads -> 0..FrameLength] /\ number' = number
      BY <1>1, <2>3 DEF Shape, SendAll
    <3> QED
      BY <1>1, <2>1, <3>2, <3>3, <3>4 DEF Shape
  <2>4. CASE Fail(t)
    BY <1>1, <2>1, <2>4 DEF Shape, Fail
  <2> QED
    BY <1>2, <2>2, <2>3, <2>4
<1>3. ASSUME NEW t \in Threads, Fill(t) PROVE Shape'
  <2>1. PICK bytes \in 1..rest[t] : Filling(t, bytes)
    BY <1>3, FillFacts
  <2>2. /\ to[t] \in Subscribers /\ stream[to[t]] \in Seq(Byte)
        /\ rest[t] \in 0..FrameLength /\ bytes \in Nat
    BY <1>1, <2>1 DEF Shape, Filling
  <2>3. Longer(stream[to[t]], Current(t), bytes) \in Seq(Byte)
    BY <2>1, <2>2, CopiesAfter DEF Filling
  <2>4. stream' \in [Subscribers -> Seq(Byte)]
    <3> DEFINE longer == Longer(stream[to[t]], Current(t), bytes)
    <3>1. longer \in Seq(Byte) /\ stream' = [stream EXCEPT ![to[t]] = longer]
      BY <2>1, <2>3 DEF Filling
    <3> HIDE DEF longer
    <3> QED
      BY <1>1, <3>1 DEF Shape
  <2>5. filled' \in [Subscribers -> 0..Room]
    BY <1>1, <2>1 DEF Shape, Filling
  <2>6. rest' \in [Threads -> 0..FrameLength]
    BY <1>1, <2>1, <2>2 DEF Shape, Filling
  <2>7. waited' \subseteq Subscribers
    BY <1>1, <2>1, <2>2 DEF Shape, Filling
  <2> QED
    BY <1>1, <2>1, <2>4, <2>5, <2>6, <2>7 DEF Shape, Filling
<1>4. ASSUME NEW s \in Subscribers, Read(s) PROVE Shape'
  BY <1>1, <1>4 DEF Shape, Read
<1>5. ASSUME NEW s \in Subscribers, Change(s) PROVE Shape'
  <2>1. PICK p \in {"reads", "stalls", "gone"} : peer' = [peer EXCEPT ![s] = p]
    BY <1>5 DEF Change
  <2>2. stalls' \in {stalls, stalls + 1} /\ stalls' <= MaxStalls
    BY <1>5 DEF Change
  <2>3. stalls' \in 0..MaxStalls
    BY <1>1, <2>2 DEF Shape
  <2> QED
    BY <1>1, <1>5, <2>1, <2>3 DEF Shape, Change
<1>6. CASE UNCHANGED vars
  BY <1>1, <1>6 DEF Shape, vars, sockets
<1> QED
  BY <1>2, <1>3, <1>4, <1>5, <1>6, Steps

(* The first frames of the threads and their sockets.                      *)
LEMMA StartedStep == IndInv /\ [Next]_vars => Started'
<1> SUFFICES ASSUME IndInv, [Next]_vars PROVE Started'
  OBVIOUS
<1>1. Shape /\ Started
  BY DEF IndInv
<1>2. ASSUME NEW t \in Threads, NextFrame(t) PROVE Started'
  BY <1>1, <1>2 DEF Shape, Started, NextFrame
<1>3. ASSUME NEW t \in Threads, SendAll(t) PROVE Started'
  BY <1>1, <1>3 DEF Shape, Started, SendAll
<1>4. ASSUME NEW t \in Threads, Fill(t) PROVE Started'
  <2>1. PICK bytes \in 1..rest[t] : Filling(t, bytes)
    BY <1>4, FillFacts
  <2>2. /\ rest[t] > 0 /\ number[t] > 0 /\ UNCHANGED <<number, to, targets>>
        /\ \A o \in Threads : o # t => rest'[o] = rest[o]
    BY <1>1, <2>1 DEF Shape, Filling
  <2> QED
    BY <1>1, <2>2 DEF Shape, Started
<1>5. ASSUME NEW t \in Threads, Fail(t) PROVE Started'
  BY <1>1, <1>5 DEF Shape, Started, Fail
<1>6. ASSUME UNCHANGED <<number, rest, targets>> PROVE Started'
  BY <1>1, <1>6 DEF Started
<1> QED
  BY <1>2, <1>3, <1>4, <1>5, <1>6, Steps DEF Read, Change, vars

(* A thread turns to a socket that it then no longer has to turn to.       *)
LEMMA NotAgainStep == IndInv /\ [Next]_vars => NotAgain'
<1> SUFFICES ASSUME IndInv, [Next]_vars PROVE NotAgain'
  OBVIOUS
<1>1. Shape /\ NotAgain
  BY DEF IndInv
<1>2. ASSUME NEW t \in Threads, NextFrame(t) PROVE NotAgain'
  BY <1>1, <1>2 DEF Shape, NotAgain, NextFrame, Idle
<1>3. ASSUME NEW t \in Threads, SendAll(t) PROVE NotAgain'
  BY <1>1, <1>3 DEF Shape, NotAgain, SendAll
<1>4. ASSUME NEW t \in Threads, Fill(t) PROVE NotAgain'
  <2>1. PICK bytes \in 1..rest[t] : Filling(t, bytes)
    BY <1>4, FillFacts
  <2>2. /\ rest[t] > 0 /\ number[t] > 0 /\ UNCHANGED <<number, to, targets>>
        /\ \A o \in Threads : o # t => rest'[o] = rest[o]
    BY <1>1, <2>1 DEF Shape, Filling
  <2> QED
    BY <1>1, <2>2 DEF Shape, NotAgain
<1>5. ASSUME NEW t \in Threads, Fail(t) PROVE NotAgain'
  BY <1>1, <1>5 DEF Shape, NotAgain, Fail
<1>6. ASSUME UNCHANGED <<to, rest, targets>> PROVE NotAgain'
  BY <1>1, <1>6 DEF NotAgain
<1> QED
  BY <1>2, <1>3, <1>4, <1>5, <1>6, Steps DEF Read, Change, vars

(* How the counts change: Fill() adds its bytes, nothing else does.        *)
LEMMA CountAfterFill ==
  ASSUME IndInv, NEW t \in Threads, Fill(t), NEW s \in Subscribers, NEW b \in Byte
  PROVE  /\ Count(s, b) \in Nat
         /\ Count(s, b)' = Count(s, b) + IF s = to[t] /\ b = Current(t)
                                          THEN rest[t] - rest'[t] ELSE 0
<1>1. PICK bytes \in 1..rest[t] : Filling(t, bytes)
  BY FillFacts
<1>2. /\ Shape /\ bytes \in Nat /\ rest[t] \in Nat /\ rest[t] - rest'[t] = bytes
      /\ stream[s] \in Seq(Byte) /\ stream[to[t]] \in Seq(Byte) /\ Current(t) \in Byte
  BY <1>1 DEF IndInv, Shape, Filling
<1>3. Count(s, b) \in Nat
  BY <1>2, CountType
<1>4. CASE s = to[t]
  <2>1. stream'[s] = Longer(stream[s], Current(t), bytes)
    BY <1>1, <1>2, <1>4 DEF Shape, Filling
  <2>2. Times(stream'[s], b) = Times(stream[s], b) + IF b = Current(t) THEN bytes ELSE 0
    <3>1. /\ stream[s] \in Seq(Byte) /\ stream'[s] \in Seq(Byte)
          /\ IsLonger(stream'[s], stream[s], Current(t), bytes)
      BY <1>2, <2>1, CopiesAfter
    <3> QED
      BY <1>2, <3>1, CopiesCounted
  <2>3. Count(s, b) = Times(stream[s], b) /\ Count(s, b)' = Times(stream'[s], b)
    BY DEF Count, Times
  <2> QED
    BY <1>2, <1>3, <1>4, <2>2, <2>3
<1>5. CASE s # to[t]
  <2>1. stream'[s] = stream[s]
    BY <1>1, <1>2, <1>5 DEF Shape, Filling
  <2> QED
    BY <1>3, <1>5, <2>1 DEF Count
<1> QED
  BY <1>4, <1>5

(* The counts and the frames under way, in every step: what the next four  *)
(* lemmas need of the actions.                                             *)
LEMMA CountSteps ==
  ASSUME IndInv, [Next]_vars
  PROVE  \/ \E t \in Threads : Fill(t)
         \/ \A s \in Subscribers : \A b \in Byte : Count(s, b)' = Count(s, b)
<1>1. stream' = stream \/ \E t \in Threads : Fill(t)
  BY Steps DEF NextFrame, SendAll, Fail, Read, Change, vars, sockets
<1> QED
  BY <1>1, CountStays

(* No step sends of a frame before its time.                               *)
LEMMA UnsentStep == IndInv /\ [Next]_vars => Unsent'
<1> SUFFICES ASSUME IndInv, [Next]_vars,
                    NEW t \in Threads, NEW s \in Subscribers, NEW n \in 1..MaxFrames[t],
                    n > number'[t] \/ (n = number'[t] /\ s \in targets'[t])
             PROVE  Count(s, <<t, n>>)' = 0
  BY DEF Unsent
<1>1. /\ Shape /\ Unsent /\ NotAgain /\ MaxFrames \in [Threads -> Nat] /\ <<t, n>> \in Byte
      /\ number[t] \in Nat
  BY DeliveryAssumption DEF IndInv, Shape, Byte
<1>2. CASE \E o \in Threads : Fill(o)
  <2>1. PICK o \in Threads : Fill(o)
    BY <1>2
  <2>2. PICK bytes \in 1..rest[o] : Filling(o, bytes)
    BY <2>1, FillFacts
  <2>3. UNCHANGED <<number, targets, to>> /\ rest[o] > 0
    BY <1>1, <2>2 DEF Filling, Shape
  <2>4. Count(s, <<t, n>>) = 0
    BY <1>1, <2>3 DEF Unsent
  <2>5. ~(s = to[o] /\ <<t, n>> = Current(o))
    BY <1>1, <2>3 DEF NotAgain, Current
  <2> QED
    BY <1>1, <2>1, <2>4, <2>5, CountAfterFill
<1>3. CASE Count(s, <<t, n>>)' = Count(s, <<t, n>>)
  <2>1. n > number[t] \/ (n = number[t] /\ s \in targets[t])
    <3>1. ASSUME NEW o \in Threads, NextFrame(o)
          PROVE  \/ number'[t] = number[t] + 1
                 \/ number'[t] = number[t] /\ targets'[t] = targets[t]
      BY <1>1, <3>1 DEF NextFrame, Shape
    <3>2. ASSUME NEW o \in Threads, SendAll(o)
          PROVE  number'[t] = number[t] /\ targets'[t] \subseteq targets[t]
      BY <1>1, <3>2 DEF SendAll, Shape
    <3>3. ASSUME NEW o \in Threads, Fill(o) \/ Fail(o) PROVE UNCHANGED <<number, targets>>
      BY <3>3 DEF Fill, Fail
    <3>4. ASSUME NEW o \in Subscribers, Read(o) \/ Change(o)
          PROVE  UNCHANGED <<number, targets>>
      BY <3>4 DEF Read, Change
    <3>5. \/ number'[t] = number[t] + 1
          \/ number'[t] = number[t] /\ targets'[t] \subseteq targets[t]
      BY <3>1, <3>2, <3>3, <3>4, Steps DEF vars
    <3> QED
      BY <1>1, <3>5
  <2> QED
    BY <1>1, <1>3, <2>1 DEF Unsent
<1> QED
  BY <1>1, <1>2, <1>3, CountSteps

(* What is left to send and what is in the stream add up.                  *)
LEMMA AccountedStep == IndInv /\ [Next]_vars => Accounted'
<1> SUFFICES ASSUME IndInv, [Next]_vars, NEW t \in Threads, rest'[t] > 0
             PROVE  rest'[t] + Count(to[t], Current(t))' = FrameLength
  BY DEF Accounted
<1>1. /\ Shape /\ FrameLength \in Nat \ {0}
      /\ rest[t] \in Nat /\ to[t] \in Subscribers /\ number[t] \in 0..MaxFrames[t]
      /\ rest[t] > 0 => number[t] \in 1..MaxFrames[t]
      /\ targets[t] # {} => number[t] \in 1..MaxFrames[t]
  BY DeliveryAssumption DEF IndInv, Shape, Started
<1>2. PICK s, b : s = to'[t] /\ b = <<t, number'[t]>>
  OBVIOUS
<1>3. SUFFICES rest'[t] + Count(s, b)' = FrameLength
  BY <1>2 DEF Count, Current
<1>4. CASE Fill(t)
  <2>1. PICK bytes \in 1..rest[t] : Filling(t, bytes)
    BY <1>4, FillFacts
  <2>2. /\ s = to[t] /\ b = Current(t) /\ b \in Byte /\ rest[t] > 0
        /\ rest'[t] = rest[t] - bytes
    BY <1>1, <1>2, <2>1 DEF Filling, Current, Shape
  <2>3. rest[t] + Count(s, b) = FrameLength
    BY <2>2 DEF IndInv, Accounted
  <2> QED
    BY <1>1, <1>4, <2>2, <2>3, CountAfterFill
<1>5. CASE SendAll(t)
  <2>1. s \in targets[t] /\ rest'[t] = FrameLength /\ number' = number /\ stream' = stream
    BY <1>1, <1>2, <1>5 DEF SendAll, Shape, sockets
  <2>2. number[t] \in 1..MaxFrames[t] /\ s \in Subscribers
    BY <1>1, <2>1 DEF Shape
  <2>3. Count(s, b) = 0
    BY <1>2, <2>1, <2>2 DEF IndInv, Unsent
  <2> QED
    BY <1>1, <2>1, <2>3, CountStays
<1>6. ASSUME ~Fill(t), ~SendAll(t)
      PROVE  rest'[t] = rest[t] /\ s = to[t] /\ b = Current(t)
  <2>1. ASSUME NEW o \in Threads, NextFrame(o)
        PROVE  rest'[t] = rest[t] /\ s = to[t] /\ b = Current(t)
    <3>1. o # t
      BY <1>1, <2>1 DEF NextFrame, Idle
    <3> QED
      BY <1>1, <1>2, <2>1, <3>1 DEF NextFrame, Shape, Current
  <2>2. ASSUME NEW o \in Threads, SendAll(o)
        PROVE  rest'[t] = rest[t] /\ s = to[t] /\ b = Current(t)
    BY <1>1, <1>2, <1>6, <2>2 DEF SendAll, Shape, Current
  <2>3. ASSUME NEW o \in Threads, Fill(o)
        PROVE  rest'[t] = rest[t] /\ s = to[t] /\ b = Current(t)
    BY <1>1, <1>2, <1>6, <2>3 DEF Fill, Shape, Current
  <2>4. ASSUME NEW o \in Threads, Fail(o)
        PROVE  rest'[t] = rest[t] /\ s = to[t] /\ b = Current(t)
    BY <1>1, <1>2, <2>4 DEF Fail, Shape, Current
  <2>5. ASSUME UNCHANGED <<number, rest, to>>
        PROVE  rest'[t] = rest[t] /\ s = to[t] /\ b = Current(t)
    BY <1>2, <2>5 DEF Current
  <2> QED
    BY <2>1, <2>2, <2>3, <2>4, <2>5, Steps DEF Read, Change, vars
<1>7. ASSUME ~Fill(t), ~SendAll(t) PROVE rest'[t] + Count(s, b)' = FrameLength
  <2>1. /\ rest'[t] = rest[t] /\ s = to[t] /\ b = Current(t)
        /\ rest[t] > 0 /\ b \in Byte
    BY <1>1, <1>6, <1>7 DEF Current, Byte
  <2>2. rest[t] + Count(s, b) = FrameLength
    BY <2>1 DEF IndInv, Accounted
  <2>3. Count(s, b)' = Count(s, b)
    <3>1. ASSUME NEW o \in Threads, Fill(o) PROVE Count(s, b)' = Count(s, b)
      <4>1. b # Current(o) /\ Count(s, b) \in Nat
        BY <1>1, <1>7, <2>1, <3>1, CountAfterFill DEF Current
      <4> QED
        BY <1>1, <2>1, <3>1, <4>1, CountAfterFill
    <3> QED
      BY <1>1, <2>1, <3>1, CountSteps
  <2> QED
    BY <2>1, <2>2, <2>3
<1> QED
  BY <1>4, <1>5, <1>7

(* No frame gets into a stream for more than its length.                   *)
LEMMA NotTooManyStep == IndInv /\ [Next]_vars => NotTooMany'
<1> SUFFICES ASSUME IndInv, [Next]_vars, NEW s \in Subscribers, NEW b \in Byte
             PROVE  Count(s, b)' <= FrameLength
  BY DEF NotTooMany
<1>1. Count(s, b) <= FrameLength /\ FrameLength \in Nat
  BY DeliveryAssumption DEF IndInv, NotTooMany
<1>2. ASSUME NEW t \in Threads, Fill(t) PROVE Count(s, b)' <= FrameLength
  <2>1. PICK bytes \in 1..rest[t] : Filling(t, bytes)
    BY <1>2, FillFacts
  <2>2. rest'[t] = rest[t] - bytes /\ rest[t] \in Nat /\ rest[t] > 0 /\ bytes <= rest[t]
    BY <2>1 DEF IndInv, Shape, Filling
  <2>3. s = to[t] /\ b = Current(t) => rest[t] + Count(s, b) = FrameLength
    BY <2>2 DEF IndInv, Accounted
  <2> QED
    BY <1>1, <1>2, <2>2, <2>3, CountAfterFill
<1> QED
  BY <1>1, <1>2, CountSteps

(* No step leaves a frame behind that is not whole, but for who has gone.  *)
LEMMA NothingTruncatedStep == IndInv /\ [Next]_vars => NothingTruncated'
<1> SUFFICES ASSUME IndInv, [Next]_vars, NEW s \in Subscribers, NEW b \in Byte,
                    peer'[s] # "gone"
             PROVE  \/ Count(s, b)' \in {0, FrameLength}
                    \/ /\ b = <<b[1], number'[b[1]]>> /\ to'[b[1]] = s
                       /\ rest'[b[1]] = FrameLength - Count(s, b)'
  BY DEF NothingTruncated
<1>1. /\ Shape /\ FrameLength \in Nat \ {0} /\ b[1] \in Threads /\ b = <<b[1], b[2]>>
      /\ Count(s, b) \in Nat
  <2>1. Shape /\ FrameLength \in Nat \ {0}
    BY DeliveryAssumption DEF IndInv
  <2>2. PICK o \in Threads, n \in Nat : b = <<o, n>>
    BY DeliveryAssumption DEF Byte
  <2>3. Count(s, b) \in Nat
    BY <2>1, CountType DEF Shape
  <2> QED
    BY <2>1, <2>2, <2>3
<1>2. peer[s] # "gone"
  <2>1. ASSUME NEW o \in Subscribers, Change(o) PROVE peer[s] # "gone"
    BY <1>1, <2>1 DEF Change, Shape
  <2> QED
    BY <2>1, Steps DEF NextFrame, SendAll, Fill, Fail, Read, vars, sockets
<1>3. \/ Count(s, b) \in {0, FrameLength}
      \/ /\ b = <<b[1], number[b[1]]>> /\ to[b[1]] = s
         /\ rest[b[1]] = FrameLength - Count(s, b)
  BY <1>2 DEF IndInv, NothingTruncated
<1>4. ASSUME NEW o \in Threads, Fill(o)
      PROVE  \/ Count(s, b)' \in {0, FrameLength}
             \/ /\ b = <<b[1], number'[b[1]]>> /\ to'[b[1]] = s
                /\ rest'[b[1]] = FrameLength - Count(s, b)'
  <2>1. PICK bytes \in 1..rest[o] : Filling(o, bytes)
    BY <1>4, FillFacts
  <2>2. /\ UNCHANGED <<number, to>> /\ rest'[o] \in Nat /\ rest[o] \in Nat /\ rest[o] > 0
        /\ \A t \in Threads : t # o => rest'[t] = rest[t]
    BY <1>1, <2>1 DEF Filling, Shape
  <2>3. CASE s = to[o] /\ b = Current(o)
    <3>1. rest[o] + Count(s, b) = FrameLength
      BY <2>2, <2>3 DEF IndInv, Accounted
    <3>2. Count(s, b)' = Count(s, b) + (rest[o] - rest'[o])
      BY <1>4, <2>3, CountAfterFill
    <3>3. rest'[o] = FrameLength - Count(s, b)' /\ b[1] = o
      BY <1>1, <2>2, <2>3, <3>1, <3>2 DEF Current
    <3> QED
      BY <2>2, <2>3, <3>3 DEF Current
  <2>4. CASE ~(s = to[o] /\ b = Current(o))
    <3>1. Count(s, b)' = Count(s, b)
      BY <1>1, <1>4, <2>4, CountAfterFill
    <3> QED
      BY <1>1, <1>3, <2>2, <2>4, <3>1 DEF Current
  <2> QED
    BY <2>3, <2>4
<1>5. ASSUME ~\E o \in Threads : Fill(o)
      PROVE  \/ rest[b[1]] = 0
             \/ UNCHANGED <<number[b[1]], to[b[1]], rest[b[1]]>>
             \/ to[b[1]] # s
  <2>1. ASSUME NEW o \in Threads, NextFrame(o) \/ SendAll(o)
        PROVE  rest[b[1]] = 0 \/ UNCHANGED <<number[b[1]], to[b[1]], rest[b[1]]>>
    BY <1>1, <2>1 DEF NextFrame, SendAll, Idle, Shape
  <2>2. ASSUME NEW o \in Threads, Fail(o)
        PROVE  to[b[1]] # s \/ UNCHANGED <<number[b[1]], to[b[1]], rest[b[1]]>>
    BY <1>1, <1>2, <2>2 DEF Fail, Shape
  <2> QED
    BY <1>5, <2>1, <2>2, Steps DEF Read, Change, vars
<1>6. CASE ~\E o \in Threads : Fill(o)
  <2>1. Count(s, b)' = Count(s, b)
    BY <1>6, CountSteps
  <2> QED
    BY <1>1, <1>3, <1>5, <1>6, <2>1
<1> QED
  BY <1>4, <1>6

(* A thread that did not wait has put the whole frame.                     *)
LEMMA FillsWhole ==
  ASSUME IndInv, NEW o \in Threads, Fill(o), to[o] \notin waited'
  PROVE  /\ rest'[o] = 0 /\ Filling(o, FrameLength)
         /\ to[o] \in Subscribers \ waited
<1>1. PICK bytes \in 1..rest[o] : Filling(o, bytes)
  BY FillFacts
<1>2. /\ Shape /\ rest[o] \in Nat /\ rest[o] > 0 /\ bytes = rest[o]
      /\ to[o] \in Subscribers \ waited
  BY <1>1 DEF IndInv, Shape, Filling
<1>3. rest[o] = FrameLength
  BY <1>2 DEF IndInv, WholeFrames
<1> QED
  BY <1>1, <1>2, <1>3 DEF Filling, Shape

(* What Fill() does to a stream at which no thread waited.                 *)
LEMMA FillAt ==
  ASSUME IndInv, NEW o \in Threads, Fill(o), NEW s \in Subscribers \ waited'
  PROVE  \/ s # to[o] /\ stream'[s] = stream[s]
         \/ s = to[o] /\ IsLonger(stream'[s], stream[s], Current(o), FrameLength)
<1>1. Shape /\ FrameLength \in Nat
  BY DeliveryAssumption DEF IndInv
<1>2. PICK bytes \in 1..rest[o] : Filling(o, bytes)
  BY FillFacts
<1>3. CASE s # to[o]
  BY <1>1, <1>2, <1>3 DEF Filling, Shape
<1>4. CASE s = to[o]
  <2>1. Filling(o, FrameLength) /\ stream[s] \in Seq(Byte)
    BY <1>1, <1>4, FillsWhole DEF Shape
  <2>2. stream'[s] = Longer(stream[s], Current(o), FrameLength) /\ Current(o) \in Byte
    BY <1>1, <1>4, <2>1 DEF Filling, Shape
  <2> QED
    BY <1>1, <1>4, <2>1, <2>2, CopiesAfter
<1> QED
  BY <1>3, <1>4

(* A frame is under way only where it has not begun, or where a thread     *)
(* waited.                                                                 *)
LEMMA WholeFramesStep == IndInv /\ [Next]_vars => WholeFrames'
<1> SUFFICES ASSUME IndInv, [Next]_vars, NEW s \in Subscribers \ waited'
             PROVE  /\ Whole(s)'
                    /\ \A t \in Threads : to'[t] = s /\ rest'[t] > 0 => rest'[t] = FrameLength
  BY DEF WholeFrames
<1>1. /\ Shape /\ FrameLength \in Nat \ {0} /\ stream[s] \in Seq(Byte)
  BY DeliveryAssumption DEF IndInv, Shape
<1>2. s \in Subscribers \ waited
  BY Steps DEF NextFrame, SendAll, Fill, Fail, Read, Change, vars, sockets
<1>3. /\ Whole(s)
      /\ \A t \in Threads : to[t] = s /\ rest[t] > 0 => rest[t] = FrameLength
  BY <1>2 DEF IndInv, WholeFrames
<1>4. Whole(s)'
  <2>1. ASSUME stream'[s] = stream[s] PROVE Whole(s)'
    BY <1>3, <2>1 DEF Whole
  <2>2. ASSUME NEW o \in Threads, IsLonger(stream'[s], stream[s], Current(o), FrameLength)
        PROVE  Whole(s)'
    <3>1. PICK k \in 0..Len(stream[s]) : Len(stream[s]) = k * FrameLength
      BY <1>3 DEF Whole
    <3>2. /\ Len(stream'[s]) = Len(stream[s]) + FrameLength
          /\ k \in Nat /\ Len(stream[s]) \in Nat
      BY <1>1, <2>2, <3>1 DEF IsLonger
    <3>3. k + 1 \in 0..Len(stream'[s]) /\ Len(stream'[s]) = (k + 1) * FrameLength
      BY <1>1, <3>1, <3>2
    <3> QED
      BY <3>3 DEF Whole
  <2> QED
    BY <2>1, <2>2, FillAt, Steps DEF NextFrame, SendAll, Fail, Read, Change, vars, sockets
<1>5. ASSUME NEW t \in Threads, to'[t] = s, rest'[t] > 0 PROVE rest'[t] = FrameLength
  <2>1. ASSUME NEW o \in Threads, NextFrame(o) PROVE rest'[t] = FrameLength
    BY <1>3, <1>5, <2>1 DEF NextFrame
  <2>2. ASSUME NEW o \in Threads, SendAll(o) PROVE rest'[t] = FrameLength
    BY <1>1, <1>3, <1>5, <2>2 DEF SendAll, Shape
  <2>3. ASSUME NEW o \in Threads, Fill(o) PROVE rest'[t] = FrameLength
    <3>1. PICK bytes \in 1..rest[o] : Filling(o, bytes)
      BY <2>3, FillFacts
    <3>2. to' = to /\ (t # o => rest'[t] = rest[t])
      BY <1>1, <3>1 DEF Filling, Shape
    <3>3. t # o
      BY <1>5, <2>3, <3>2, FillsWhole
    <3> QED
      BY <1>3, <1>5, <3>2, <3>3
  <2>4. ASSUME NEW o \in Threads, Fail(o) PROVE rest'[t] = FrameLength
    BY <1>1, <1>3, <1>5, <2>4 DEF Fail, Shape
  <2>5. ASSUME UNCHANGED <<rest, to>> PROVE rest'[t] = FrameLength
    BY <1>3, <1>5, <2>5
  <2> QED
    BY <2>1, <2>2, <2>3, <2>4, <2>5, Steps DEF Read, Change, vars
<1> QED
  BY <1>4, <1>5

(* A whole frame after whole frames keeps the stream in frames.            *)
LEMMA WholeUnlessWaitedStep == IndInv /\ [Next]_vars => WholeUnlessWaited'
<1> SUFFICES ASSUME IndInv, [Next]_vars, NEW s \in Subscribers \ waited',
                    NEW i \in DOMAIN stream'[s], NEW j \in DOMAIN stream'[s],
                    (i - 1) \div FrameLength = (j - 1) \div FrameLength
             PROVE  stream'[s][i] = stream'[s][j]
  BY DEF WholeUnlessWaited
<1>1. /\ Shape /\ FrameLength \in Nat \ {0} /\ stream[s] \in Seq(Byte)
      /\ stream'[s] \in Seq(Byte)
  BY DeliveryAssumption, ShapeStep DEF IndInv, Shape
<1>2. s \in Subscribers \ waited
  BY Steps DEF NextFrame, SendAll, Fill, Fail, Read, Change, vars, sockets
<1>3. CASE stream'[s] = stream[s]
  BY <1>2, <1>3 DEF IndInv, WholeUnlessWaited
<1>4. ASSUME NEW o \in Threads, IsLonger(stream'[s], stream[s], Current(o), FrameLength)
      PROVE  stream'[s][i] = stream'[s][j]
  <2>1. PICK k \in 0..Len(stream[s]) : Len(stream[s]) = k * FrameLength
    BY <1>2 DEF IndInv, WholeFrames, Whole
  <2>2. /\ k \in Nat /\ Len(stream[s]) \in Nat /\ i \in Nat \ {0} /\ j \in Nat \ {0}
        /\ i - 1 \in Nat /\ j - 1 \in Nat
    <3>1. DOMAIN stream'[s] = 1..Len(stream'[s]) /\ Len(stream'[s]) \in Nat
      BY <1>1
    <3>2. Len(stream[s]) \in Nat /\ k \in Nat
      BY <1>1, <2>1
    <3>3. i \in Nat \ {0} /\ j \in Nat \ {0}
      BY <3>1
    <3> QED
      BY <3>2, <3>3
  <2>3. (i \in 1..Len(stream[s]) <=> j \in 1..Len(stream[s]))
    <3>1. /\ i - 1 < k * FrameLength => (i - 1) \div FrameLength < k
          /\ i - 1 >= k * FrameLength => (i - 1) \div FrameLength >= k
          /\ (i - 1) \div FrameLength \in Nat
      BY <1>1, <2>2, DivisionSplits
    <3>2. /\ j - 1 < k * FrameLength => (j - 1) \div FrameLength < k
          /\ j - 1 >= k * FrameLength => (j - 1) \div FrameLength >= k
          /\ (j - 1) \div FrameLength \in Nat
      BY <1>1, <2>2, DivisionSplits
    <3>3. i - 1 < k * FrameLength <=> j - 1 < k * FrameLength
      BY <1>1, <2>2, <3>1, <3>2
    <3> QED
      BY <1>1, <2>1, <2>2, <3>3
  <2>4. CASE i \in 1..Len(stream[s])
    <3>1. stream'[s][i] = stream[s][i] /\ stream'[s][j] = stream[s][j]
      BY <1>4, <2>3, <2>4 DEF IsLonger
    <3>2. i \in DOMAIN stream[s] /\ j \in DOMAIN stream[s]
      BY <1>1, <2>3, <2>4
    <3> QED
      BY <1>2, <3>1, <3>2 DEF IndInv, WholeUnlessWaited
  <2>5. CASE i \notin 1..Len(stream[s])
    <3>1. /\ i \in (Len(stream[s]) + 1)..(Len(stream[s]) + FrameLength)
          /\ j \in (Len(stream[s]) + 1)..(Len(stream[s]) + FrameLength)
      BY <1>1, <1>4, <2>2, <2>3, <2>5 DEF IsLonger
    <3> QED
      BY <1>4, <3>1 DEF IsLonger
  <2> QED
    BY <2>4, <2>5
<1> QED
  BY <1>3, <1>4, FillAt, Steps DEF NextFrame, SendAll, Fail, Read, Change, vars, sockets

-----------------------------------------------------------------------------
(* THEOREMS                                                                *)

(* The inductive invariant: what is left to send is what is missing.       *)
THEOREM Invariance == Spec => []IndInv
<1>1. IndInv /\ [Next]_vars => IndInv'
  BY ShapeStep, StartedStep, UnsentStep, NotAgainStep, AccountedStep, NotTooManyStep,
     NothingTruncatedStep, WholeFramesStep, WholeUnlessWaitedStep DEF IndInv
<1> QED
  BY <1>1, InitInv, PTL DEF Spec

(* sendall() of broker.py, whoever else writes to the socket: every        *)
(* variable keeps its type, no buffer holds more than its room, and no     *)
(* frame is sent twice to a socket.                                        *)
THEOREM TypeCorrect == Spec => []TypeOK
<1>1. IndInv => TypeOK
  BY DEF IndInv, Shape, NotTooMany, TypeOK
<1> QED
  BY <1>1, Invariance, PTL

(* Without a lock, frames stay whole as long as no thread had to wait for  *)
(* room in mid-frame.                                                      *)
THEOREM WholeFramesCorrect == Spec => []WholeUnlessWaited
<1>1. IndInv => WholeUnlessWaited
  BY DEF IndInv
<1> QED
  BY <1>1, Invariance, PTL

(* No byte of a frame is ever missing to a subscriber that stays.          *)
THEOREM NoneTruncated == Spec => []NothingTruncated
<1>1. IndInv => NothingTruncated
  BY DEF IndInv
<1> QED
  BY <1>1, Invariance, PTL
=============================================================================
