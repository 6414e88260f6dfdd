--------------------------- MODULE FramingProofs ---------------------------
(***************************************************************************)
(* Proofs about Framing: for every base, every set of lengths that four    *)
(* bytes can hold, every size of a read and every number of frames, the    *)
(* packets that the parser cuts are the frames that were written.          *)
(***************************************************************************)
EXTENDS Framing, SequenceLemmas

Byte == 0..(2 * Base - 1)

-----------------------------------------------------------------------------
(* THE CODEC                                                               *)

(* A number is a digit and Base times the rest.                            *)
LEMMA Division ==
  ASSUME NEW n \in Nat
  PROVE  /\ n \div Base \in Nat /\ n % Base \in 0..(Base - 1)
         /\ n = (n % Base) + Base * (n \div Base)
  BY FramingAssumption

(* A smaller number leaves less.                                           *)
LEMMA DivisionBound ==
  ASSUME NEW n \in Nat, NEW m \in Nat, n < Base * m
  PROVE  n \div Base < m
<1>1. Base \in Nat \ {0, 1}
  BY FramingAssumption
<1>2. PICK q \in Nat, d \in 0..(Base - 1) : q = n \div Base /\ n = d + Base * q
  BY Division
<1>3. ASSUME q >= m PROVE FALSE
  <2>1. Base * q >= Base * m
    BY <1>1, <1>3
  <2> QED
    BY <1>1, <1>2, <2>1
<1> QED
  BY <1>2, <1>3

(* A byte is a digit, and perhaps Base.                                    *)
LEMMA Digit ==
  ASSUME NEW d \in 0..(Base - 1)
  PROVE  d % Base = d /\ (d + Base) % Base = d
  BY FramingAssumption

(* The rounds of the loop.                                                 *)
LEMMA LeftFacts ==
  ASSUME NEW length \in Lengths
  PROVE  LET left == Left(length) IN
         /\ left[1] = length /\ left[5] = 0
         /\ \A i \in 1..5 : left[i] \in Nat /\ left[i] % Base \in 0..(Base - 1)
         /\ \A i \in 1..4 : left[i] = (left[i] % Base) + Base * left[i + 1]
<1>1. Base \in Nat \ {0, 1} /\ length \in Nat /\ length < Base * (Base * (Base * Base))
  <2>1. Base \in Nat \ {0, 1} /\ length \in 0..(Base * Base * Base * Base - 1)
    BY FramingAssumption
  <2> QED
    BY <2>1
<1> DEFINE l2 == length \div Base   l3 == l2 \div Base   l4 == l3 \div Base
           l5 == l4 \div Base
<1>0. Base * Base \in Nat /\ Base * (Base * Base) \in Nat
  BY <1>1
<1>2. l2 \in Nat /\ l2 < Base * (Base * Base) /\ length = (length % Base) + Base * l2
  BY <1>0, <1>1, Division, DivisionBound
<1>3. l3 \in Nat /\ l3 < Base * Base /\ l2 = (l2 % Base) + Base * l3
  BY <1>0, <1>1, <1>2, Division, DivisionBound
<1>4. l4 \in Nat /\ l4 < Base /\ l3 = (l3 % Base) + Base * l4
  BY <1>1, <1>3, Division, DivisionBound
<1>5. l5 \in Nat /\ l5 < 1 /\ l4 = (l4 % Base) + Base * l5
  <2>1. l4 < Base * 1
    BY <1>1, <1>4
  <2> QED
    BY <1>4, <2>1, Division, DivisionBound
<1>6. Left(length) = <<length, l2, l3, l4, l5>>
  BY DEF Left
<1> HIDE DEF l2, l3, l4, l5
<1>7. \A n \in {length, l2, l3, l4, l5} : n \in Nat /\ n % Base \in 0..(Base - 1)
  BY <1>1, <1>2, <1>3, <1>4, <1>5, Division
<1>8. l5 = 0
  BY <1>5
<1> QED
  BY <1>2, <1>3, <1>4, <1>5, <1>6, <1>7, <1>8

(* The bytes of an encoded length: k digits, of which the last is the only *)
(* one without Base.                                                       *)
LEMMA EncodeFacts ==
  ASSUME NEW length \in Lengths
  PROVE  LET left == Left(length)  code == EncodeRemainingLength(length) IN
         \E k \in 1..4 :
           /\ code \in Seq(Byte) /\ Len(code) = k /\ left[k + 1] = 0
           /\ \A i \in 1..k : code[i] = (left[i] % Base) + IF i < k THEN Base ELSE 0
<1> DEFINE left == Left(length)
           P(k) == left[k + 1] = 0 /\ \A i \in 2..k : left[i] > 0
           size == CHOOSE k \in 1..4 : P(k)
           code == [i \in 1..size |-> (left[i] % Base) + IF i < size THEN Base ELSE 0]
<1>1. /\ left[5] = 0 /\ \A i \in 1..5 : left[i] \in Nat /\ left[i] % Base \in 0..(Base - 1)
  BY LeftFacts
<1>2. \E k \in 1..4 : P(k)
  <2> HIDE DEF left
  <2>1. left[2] = 0 => P(1)
    OBVIOUS
  <2>2. left[2] # 0 /\ left[3] = 0 => P(2)
    BY <1>1
  <2>3. left[2] # 0 /\ left[3] # 0 /\ left[4] = 0 => P(3)
    BY <1>1
  <2>4. left[2] # 0 /\ left[3] # 0 /\ left[4] # 0 => P(4)
    BY <1>1
  <2> QED
    BY <2>1, <2>2, <2>3, <2>4
<1>3. size \in 1..4 /\ P(size)
  BY <1>2
<1>4. EncodeRemainingLength(length) = code
  BY DEF EncodeRemainingLength
<1>5. PICK k \in 1..4 : k = size
  BY <1>3
<1> HIDE DEF size, left
<1>6. Base \in Nat \ {0, 1}
  BY FramingAssumption
<1>7. \A i \in 1..k : (left[i] % Base) + (IF i < k THEN Base ELSE 0) \in Byte
  BY <1>1, <1>6 DEF Byte
<1>8. /\ code \in Seq(Byte) /\ Len(code) = k
      /\ \A i \in 1..k : code[i] = (left[i] % Base) + IF i < k THEN Base ELSE 0
  BY <1>5, <1>7, IsASeq
<1> QED
  BY <1>3, <1>4, <1>5, <1>8 DEF left

(* The digits of a length, and that they are all.                          *)
Digits(length, k) ==
  [i \in 1..k |-> (Left(length)[i] % Base) + IF i < k THEN Base ELSE 0]
Sized(length, k) == k \in 1..4 /\ Left(length)[k + 1] = 0

(* The bytes of a frame.                                                   *)
LEMMA FrameFacts ==
  ASSUME NEW length \in Lengths, NEW filling \in Fillings
  PROVE  LET f == Frame(length, filling) IN
         /\ length \in Nat
         /\ \E k : /\ Sized(length, k) /\ f \in Seq(Byte) /\ Len(f) = 1 + k + length
                   /\ \A i \in 1..k : f[1 + i] = Digits(length, k)[i]
<1>1. length \in Nat /\ filling \in Byte
  BY FramingAssumption DEF Byte
<1>2. PICK code : code = EncodeRemainingLength(length)
  OBVIOUS
<1>3. PICK k \in 1..4 :
        /\ code \in Seq(Byte) /\ Len(code) = k /\ Left(length)[k + 1] = 0
        /\ \A i \in 1..k : code[i] = (Left(length)[i] % Base) + IF i < k THEN Base ELSE 0
  BY <1>2, EncodeFacts
<1>4. PICK body : body = [i \in 1..length |-> filling]
  OBVIOUS
<1>5. body \in Seq(Byte) /\ Len(body) = length
  BY <1>1, <1>4, IsASeq
<1>6. <<filling>> \in Seq(Byte) /\ Len(<<filling>>) = 1
  BY <1>1
<1>7. PICK first : first = <<filling>>
  OBVIOUS
<1>8. PICK head : head = first \o code
  OBVIOUS
<1>9. /\ head \in Seq(Byte) /\ Len(head) = 1 + k
      /\ \A i \in 1..k : head[1 + i] = code[i]
  BY <1>3, <1>6, <1>7, <1>8, ConcatProperties
<1>10. PICK f : f = head \o body /\ f = Frame(length, filling)
  BY <1>2, <1>4, <1>7, <1>8 DEF Frame
<1>11. /\ f \in Seq(Byte) /\ Len(f) = 1 + k + length
       /\ \A i \in 1..(1 + k) : f[i] = head[i]
  <2>1. /\ f \in Seq(Byte) /\ Len(f) = Len(head) + Len(body)
        /\ \A i \in 1..(Len(head) + Len(body)) :
             f[i] = IF i <= Len(head) THEN head[i] ELSE body[i - Len(head)]
    <3>1. head \in Seq(Byte) /\ body \in Seq(Byte) /\ f = head \o body
      BY <1>5, <1>9, <1>10
    <3> QED
      BY ONLY <3>1, ConcatProperties
  <2> QED
    BY <1>1, <1>3, <1>5, <1>9, <2>1
<1>12. \A i \in 1..k : f[1 + i] = code[i]
  BY <1>9, <1>11
<1>13. \A i \in 1..k : f[1 + i] = Digits(length, k)[i]
  BY <1>3, <1>12 DEF Digits
<1> QED
  BY <1>1, <1>3, <1>10, <1>11, <1>13 DEF Sized

(* The digits add up.                                                      *)
LEMMA Decoded ==
  ASSUME NEW length \in Lengths, NEW k, Sized(length, k), NEW data,
         \A i \in 1..k : data[i + 1] = Digits(length, k)[i]
  PROVE  /\ Remaining(data, k + 1) = length
         /\ data[k + 1] < Base /\ \A i \in 2..k : data[i] >= Base
<1> DEFINE left == Left(length)
<1>1. /\ left[1] = length /\ \A i \in 1..5 : left[i] \in Nat /\ left[i] % Base \in 0..(Base - 1)
      /\ \A i \in 1..4 : left[i] = (left[i] % Base) + Base * left[i + 1]
      /\ k \in 1..4 /\ left[k + 1] = 0
  BY LeftFacts DEF Sized
<1>2. \A i \in 1..k : data[i + 1] = (left[i] % Base) + IF i < k THEN Base ELSE 0
  BY DEF Digits
<1> HIDE DEF left
<1>3. Base \in Nat \ {0, 1}
  BY FramingAssumption
<1>4. \A i \in 1..k : data[i + 1] % Base = left[i] % Base
  BY <1>1, <1>2, Digit
<1>5. data[k + 1] < Base
  <2>1. k \in 1..k /\ ~(k < k) /\ k \in 1..5
    BY <1>1
  <2>2. data[k + 1] = (left[k] % Base) + 0
    BY <1>2, <2>1
  <2>3. left[k] % Base \in 0..(Base - 1)
    BY <1>1, <2>1
  <2> QED
    BY <1>3, <2>2, <2>3
<1>6. ASSUME NEW i \in 2..k PROVE data[i] >= Base
  <2>1. i - 1 \in 1..k /\ i - 1 < k /\ (i - 1) + 1 = i
    BY <1>1
  <2>2. data[i] = (left[i - 1] % Base) + Base /\ left[i - 1] % Base \in Nat
    BY <1>1, <1>2, <2>1
  <2> QED
    BY <1>3, <2>2
<1> DEFINE d(i) == left[i] % Base
<1>7. /\ \A i \in 1..4 : d(i) \in Nat /\ left[i] \in Nat
      /\ left[1] = d(1) + Base * left[2] /\ left[2] = d(2) + Base * left[3]
      /\ left[3] = d(3) + Base * left[4] /\ left[4] = d(4) + Base * left[5]
  BY <1>1
<1>8. \A i \in 1..k : data[i + 1] % Base = d(i)
  BY <1>4
<1> HIDE DEF d
<1>9. Base * 0 = 0
  BY <1>3
<1>10. CASE k = 1
  <2>1. Remaining(data, 2) = d(1) + Base * (0 + Base * (0 + Base * 0))
    BY <1>8, <1>10 DEF Remaining
  <2> QED
    BY <1>1, <1>3, <1>7, <1>9, <1>10, <2>1, <1>5, <1>6
<1>11. CASE k = 2
  <2>1. Remaining(data, 3) = d(1) + Base * (d(2) + Base * (0 + Base * 0))
    BY <1>8, <1>11 DEF Remaining
  <2> QED
    BY <1>1, <1>3, <1>7, <1>9, <1>11, <2>1, <1>5, <1>6
<1>12. CASE k = 3
  <2>1. Remaining(data, 4) = d(1) + Base * (d(2) + Base * (d(3) + Base * 0))
    BY <1>8, <1>12 DEF Remaining
  <2> QED
    BY <1>1, <1>3, <1>7, <1>9, <1>12, <2>1, <1>5, <1>6
<1>13. CASE k = 4
  <2>1. Remaining(data, 5) = d(1) + Base * (d(2) + Base * (d(3) + Base * d(4)))
    BY <1>8, <1>13 DEF Remaining
  <2> QED
    BY <1>1, <1>3, <1>7, <1>9, <1>13, <2>1, <1>5, <1>6
<1> QED
  BY <1>1, <1>10, <1>11, <1>12, <1>13

(* Data agrees with a frame as far as both go.                             *)
Agrees(data, f) == \A i \in 1..Len(data) : i <= Len(f) => data[i] = f[i]

(* What the parser finds at the start of such data: the frame, if it is    *)
(* all there, and else nothing.                                            *)
LEMMA CompleteFrame ==
  ASSUME NEW length \in Lengths, NEW filling \in Fillings, NEW data \in Seq(Byte),
         Agrees(data, Frame(length, filling))
  PROVE  Complete(data) = IF Len(data) >= Len(Frame(length, filling))
                          THEN {Len(Frame(length, filling))} ELSE {}
<1>1. PICK f : f = Frame(length, filling)
  OBVIOUS
<1>2. PICK k : /\ Sized(length, k) /\ Len(f) = 1 + k + length /\ length \in Nat
               /\ \A i \in 1..k : f[1 + i] = Digits(length, k)[i]
  BY <1>1, FrameFacts
<1>3. k \in 1..4 /\ Len(data) \in Nat /\ Base \in Nat \ {0, 1}
  BY <1>2, FramingAssumption DEF Sized
<1>4. ASSUME NEW i \in 1..k, i + 1 <= Len(data) PROVE data[i + 1] = Digits(length, k)[i]
  <2>1. i + 1 \in 1..Len(data) /\ i + 1 <= Len(f) /\ 1 + i = i + 1
    BY <1>2, <1>3, <1>4
  <2> QED
    BY <1>1, <1>2, <2>1 DEF Agrees
<1>5. CASE Len(data) >= k + 1
  <2>1. /\ Remaining(data, k + 1) = length /\ data[k + 1] < Base
        /\ \A i \in 2..k : data[i] >= Base
    <3>1. \A i \in 1..k : data[i + 1] = Digits(length, k)[i]
      BY <1>3, <1>4, <1>5
    <3> QED
      BY <1>2, <3>1, Decoded
  <2>2. LengthEnds(data) = {k + 1}
    <3>1. k + 1 \in LengthEnds(data)
      BY <1>3, <1>5, <2>1 DEF LengthEnds
    <3>2. ASSUME NEW e \in LengthEnds(data) PROVE e = k + 1
      <4>1. /\ e \in 2..5 /\ data[e] < Base /\ \A i \in 2..(e - 1) : data[i] >= Base
            /\ data[e] \in Int
        BY <1>3 DEF LengthEnds, Byte
      <4>2. ~(e < k + 1)
        BY <1>3, <2>1, <4>1
      <4>3. ~(e > k + 1)
        <5>1. data[k + 1] \in Int
          BY <1>3, <1>5 DEF Byte
        <5> QED
          BY <1>3, <2>1, <4>1, <5>1
      <4> QED
        BY <1>3, <4>1, <4>2, <4>3
    <3> QED
      BY <3>1, <3>2
  <2>3. {e + Remaining(data, e) : e \in LengthEnds(data)} = {Len(f)}
    <3>1. (k + 1) + Remaining(data, k + 1) = Len(f)
      BY <1>2, <1>3, <2>1
    <3> QED
      BY <2>2, <3>1
  <2> QED
    BY <1>1, <2>3 DEF Complete
<1>6. CASE ~(Len(data) >= k + 1)
  <2>1. LengthEnds(data) = {}
    <3>1. ASSUME NEW e \in LengthEnds(data) PROVE FALSE
      <4>1. e \in 2..5 /\ e <= Len(data) /\ data[e] < Base /\ data[e] \in Int
        BY <1>3 DEF LengthEnds, Byte
      <4>2. e - 1 \in 1..k /\ (e - 1) + 1 = e /\ e - 1 < k
        BY <1>3, <1>6, <4>1
      <4>3. data[e] = Digits(length, k)[e - 1]
        BY <1>4, <4>1, <4>2
      <4>4. data[e] = (Left(length)[e - 1] % Base) + Base
        BY <4>2, <4>3 DEF Digits
      <4>5. Left(length)[e - 1] % Base \in Nat
        <5>1. e - 1 \in 1..5
          BY <1>3, <4>2
        <5> QED
          BY <5>1, LeftFacts
      <4> QED
        BY <1>3, <4>1, <4>4, <4>5
    <3> QED
      BY <3>1
  <2>2. Complete(data) = {}
    BY <2>1 DEF Complete
  <2>3. ~(Len(data) >= Len(f))
    BY <1>2, <1>3, <1>6
  <2> QED
    BY <1>1, <2>2, <2>3
<1> QED
  BY <1>5, <1>6

-----------------------------------------------------------------------------
(* The stream.                                                             *)

(* What the variables are made of; what was sent are frames.               *)
Shape ==
  /\ sent \in Seq(Seq(Byte)) /\ packets \in Seq(Seq(Byte))
  /\ wire \in Seq(Byte) /\ buf \in Seq(Byte)
  /\ open \in BOOLEAN /\ thread \in {"recv", "parse", "done"}
  /\ \A i \in 1..Len(sent) : \E length \in Lengths, filling \in Fillings :
       sent[i] = Frame(length, filling)

(* The packets are the first frames.                                       *)
PacketsAreFrames ==
  /\ Len(packets) <= Len(sent) /\ \A i \in 1..Len(packets) : packets[i] = sent[i]

(* Buffer and wire hold the others, one after the other, to their end      *)
(* unless the client has gone.  Frame i ends at place ends[i].             *)
Stream == buf \o wire
Places(ends, frames) ==
  /\ ends \in [0..Len(frames) -> Int]
  /\ \A i \in 1..Len(frames) : ends[i] = ends[i - 1] + Len(frames[i])
  /\ \A i, j \in 0..Len(frames) : i <= j => ends[i] <= ends[j]
Holds(stream, ends, frames) ==
  \A i \in 1..Len(frames), j \in Nat :
    /\ j \in 1..Len(frames[i]) /\ ends[i - 1] + j \in 1..Len(stream)
    => stream[ends[i - 1] + j] = frames[i][j]
Joined(ends) ==
  /\ Places(ends, sent) /\ Holds(Stream, ends, sent)
  /\ ends[Len(packets)] = 0
  /\ Len(Stream) <= ends[Len(sent)] /\ (open => Len(Stream) = ends[Len(sent)])
StreamJoined == \E ends : Joined(ends)

(* A read is waited for with less than a frame in the buffer.              *)
LessThanFrame ==
  thread = "recv" /\ buf # <<>> =>
    LET next == Len(packets) + 1 IN
    next <= Len(sent) /\ Agrees(buf, sent[next]) /\ Len(buf) < Len(sent[next])

IndInv == Shape /\ PacketsAreFrames /\ StreamJoined /\ LessThanFrame

(* The types of what is put together.                                      *)
LEMMA StreamFacts ==
  ASSUME Shape
  PROVE  /\ Stream \in Seq(Byte) /\ Len(Stream) = Len(buf) + Len(wire)
         /\ Len(buf) \in Nat /\ Len(wire) \in Nat /\ Len(sent) \in Nat /\ Len(packets) \in Nat
         /\ \A i \in 1..Len(sent) : sent[i] \in Seq(Byte) /\ Len(sent[i]) \in Nat
         /\ \A i \in 1..Len(buf) : Stream[i] = buf[i]
         /\ \A i \in 1..Len(Stream) : i > Len(buf) => Stream[i] = wire[i - Len(buf)]
<1>1. /\ buf \in Seq(Byte) /\ wire \in Seq(Byte) /\ sent \in Seq(Seq(Byte))
      /\ packets \in Seq(Seq(Byte))
  BY DEF Shape
<1>2. /\ Stream \in Seq(Byte) /\ Len(Stream) = Len(buf) + Len(wire)
      /\ \A i \in 1..(Len(buf) + Len(wire)) :
           Stream[i] = IF i <= Len(buf) THEN buf[i] ELSE wire[i - Len(buf)]
  BY <1>1, ConcatProperties DEF Stream
<1>3. Len(buf) \in Nat /\ Len(wire) \in Nat /\ Len(sent) \in Nat /\ Len(packets) \in Nat
  BY <1>1
<1>4. \A i \in 1..Len(sent) : sent[i] \in Seq(Byte) /\ Len(sent[i]) \in Nat
  BY <1>1
<1>5. \A i \in 1..Len(buf) : Stream[i] = buf[i]
  BY <1>2, <1>3
<1>6. \A i \in 1..Len(Stream) : i > Len(buf) => Stream[i] = wire[i - Len(buf)]
  BY <1>2, <1>3
<1> QED
  BY <1>2, <1>3, <1>4, <1>5, <1>6

(* The buffer begins with the frame that comes next, or a part of it.      *)
LEMMA NextFrame ==
  ASSUME IndInv, buf # <<>>
  PROVE  LET next == Len(packets) + 1 IN next \in 1..Len(sent) /\ Agrees(buf, sent[next])
<1>1. PICK ends : Joined(ends)
  BY DEF IndInv, StreamJoined
<1>2. /\ Len(Stream) = Len(buf) + Len(wire) /\ Len(buf) \in Nat /\ Len(wire) \in Nat
      /\ Len(sent) \in Nat /\ Len(packets) \in Nat /\ Len(packets) <= Len(sent)
      /\ \A i \in 1..Len(buf) : Stream[i] = buf[i]
  BY StreamFacts DEF IndInv, PacketsAreFrames
<1>3. Len(buf) > 0
  BY <1>2, EmptySeq DEF IndInv, Shape
<1>4. Len(packets) # Len(sent)
  BY <1>1, <1>2, <1>3 DEF Joined
<1>5. Len(packets) + 1 \in 1..Len(sent) /\ (Len(packets) + 1) - 1 = Len(packets)
  BY <1>2, <1>4
<1>6. ASSUME NEW i \in 1..Len(buf), i <= Len(sent[Len(packets) + 1])
      PROVE  buf[i] = sent[Len(packets) + 1][i]
  <2>1. /\ i \in 1..Len(Stream) /\ i \in 1..Len(sent[Len(packets) + 1]) /\ i \in Nat
        /\ ends[Len(packets)] + i = i
    <3>1. Len(sent[Len(packets) + 1]) \in Nat
      BY <1>5, StreamFacts DEF IndInv
    <3> QED
      BY <1>1, <1>2, <1>6, <3>1 DEF Joined
  <2>2. Stream[i] = sent[Len(packets) + 1][i]
    BY <1>1, <1>5, <2>1 DEF Joined, Holds
  <2> QED
    BY <1>2, <2>2
<1> QED
  BY <1>5, <1>6 DEF Agrees

(* The frame that comes next is a packet as soon as it is there.           *)
LEMMA NextPacket ==
  ASSUME IndInv, buf # <<>>
  PROVE  LET size == Len(sent[Len(packets) + 1]) IN
         Complete(buf) = IF Len(buf) >= size THEN {size} ELSE {}
<1>1. Len(packets) + 1 \in 1..Len(sent) /\ Agrees(buf, sent[Len(packets) + 1])
  BY NextFrame
<1>2. PICK length \in Lengths, filling \in Fillings :
        sent[Len(packets) + 1] = Frame(length, filling)
  BY <1>1 DEF IndInv, Shape
<1> QED
  BY <1>1, <1>2, CompleteFrame DEF IndInv, Shape

(* The connection starts empty.                                            *)
LEMMA InitInv == Init => IndInv
<1> SUFFICES ASSUME Init PROVE IndInv
  OBVIOUS
<1>1. /\ sent = <<>> /\ wire = <<>> /\ open = TRUE /\ buf = <<>> /\ packets = <<>>
      /\ thread = "recv"
  BY DEF Init
<1>2. <<>> \in Seq(Byte) /\ <<>> \in Seq(Seq(Byte)) /\ Len(<<>>) = 0
  BY EmptySeq
<1>3. Shape
  BY <1>1, <1>2 DEF Shape
<1>4. Stream = <<>>
  BY <1>1, <1>2, ConcatEmptySeq DEF Stream
<1> DEFINE ends == [i \in 0..0 |-> 0]
<1>5. ends \in [0..0 -> Int] /\ ends[0] = 0 /\ \A i, j \in 0..0 : ends[i] <= ends[j]
  OBVIOUS
<1> HIDE DEF ends
<1>6. Joined(ends)
  BY <1>1, <1>2, <1>4, <1>5 DEF Joined, Places, Holds
<1> QED
  BY <1>1, <1>3, <1>6 DEF IndInv, PacketsAreFrames, StreamJoined, LessThanFrame

(* A frame more at the end of the stream.                                  *)
LEMMA WriteStep == IndInv /\ Write => IndInv'
<1> SUFFICES ASSUME IndInv, Write PROVE IndInv'
  OBVIOUS
<1>1. PICK length \in Lengths, filling \in Fillings :
        sent' = Append(sent, Frame(length, filling)) /\ wire' = wire \o Frame(length, filling)
  BY DEF Write
<1>2. PICK f : f = Frame(length, filling)
  OBVIOUS
<1>3. open /\ UNCHANGED <<open, buf, packets, thread>>
  BY DEF Write
<1>4. f \in Seq(Byte) /\ Len(f) \in Nat
  <2>1. f \in Seq(Byte)
    BY <1>2, FrameFacts
  <2> QED
    BY <2>1
<1>5. /\ sent \in Seq(Seq(Byte)) /\ wire \in Seq(Byte) /\ buf \in Seq(Byte)
      /\ packets \in Seq(Seq(Byte)) /\ Len(sent) \in Nat /\ Len(packets) \in Nat
  BY DEF IndInv, Shape
<1>6. /\ sent' \in Seq(Seq(Byte)) /\ Len(sent') = Len(sent) + 1
      /\ \A i \in 1..Len(sent) : sent'[i] = sent[i]
      /\ sent'[Len(sent) + 1] = f
  BY <1>1, <1>2, <1>4, <1>5, AppendProperties
<1>7. wire' \in Seq(Byte)
  BY <1>1, <1>2, <1>4, <1>5, ConcatProperties
<1>8. Shape'
  <2>1. ASSUME NEW i \in 1..Len(sent')
        PROVE  \E l \in Lengths, c \in Fillings : sent'[i] = Frame(l, c)
    <3>1. CASE i = Len(sent) + 1
      BY <1>2, <1>6, <3>1
    <3>2. CASE i # Len(sent) + 1
      <4>1. i \in 1..Len(sent)
        BY <1>5, <1>6, <3>2
      <4> QED
        BY <1>6, <4>1 DEF IndInv, Shape
    <3> QED
      BY <3>1, <3>2
  <2> QED
    BY <1>3, <1>6, <1>7, <2>1 DEF IndInv, Shape
<1>9. PacketsAreFrames'
  <2>1. Len(packets) <= Len(sent) /\ \A i \in 1..Len(packets) : packets[i] = sent[i]
    BY DEF IndInv, PacketsAreFrames
  <2>2. \A i \in 1..Len(packets) : i \in 1..Len(sent)
    BY <1>5, <2>1
  <2>3. Len(packets) <= Len(sent')
    BY <1>5, <1>6, <2>1
  <2> QED
    BY <1>3, <1>6, <2>1, <2>2, <2>3 DEF PacketsAreFrames
<1>10. StreamJoined'
  <2>1. PICK ends : Joined(ends)
    BY DEF IndInv, StreamJoined
  <2>2. PICK n : n = Len(sent)
    OBVIOUS
  <2>3. /\ ends \in [0..n -> Int] /\ \A i \in 1..n : ends[i] = ends[i - 1] + Len(sent[i])
        /\ \A i, j \in 0..n : i <= j => ends[i] <= ends[j]
        /\ Holds(Stream, ends, sent) /\ ends[Len(packets)] = 0 /\ Len(Stream) = ends[n]
    BY <1>3, <2>1, <2>2 DEF Joined, Places
  <2> DEFINE more == [i \in 0..(n + 1) |-> IF i = n + 1 THEN ends[n] + Len(f) ELSE ends[i]]
  <2>4. /\ n \in Nat /\ n \in 0..n /\ n + 1 \in 0..(n + 1) /\ ends[n] \in Int
        /\ Len(packets) \in 0..n
    BY <1>5, <2>2, <2>3 DEF IndInv, PacketsAreFrames
  <2>5. /\ more \in [0..(n + 1) -> Int] /\ more[n + 1] = ends[n] + Len(f)
        /\ \A i \in 0..n : more[i] = ends[i]
    BY <1>4, <2>3, <2>4
  <2> HIDE DEF more
  <2>6. \A i \in 1..(n + 1) : more[i] = more[i - 1] + Len(sent'[i])
    <3> SUFFICES ASSUME NEW i \in 1..(n + 1) PROVE more[i] = more[i - 1] + Len(sent'[i])
      OBVIOUS
    <3>1. CASE i = n + 1
      <4>1. i - 1 = n
        BY <2>4, <3>1
      <4>2. more[i] = ends[n] + Len(f) /\ more[n] = ends[n] /\ sent'[i] = f
        BY <1>6, <2>2, <2>4, <2>5, <3>1
      <4> QED
        BY <4>1, <4>2
    <3>2. CASE i # n + 1
      <4>1. i \in 1..n /\ i - 1 \in 0..n /\ i \in 0..n
        BY <2>4, <3>2
      <4> QED
        BY <1>6, <2>2, <2>3, <2>5, <4>1
    <3> QED
      BY <3>1, <3>2
  <2>7. \A i, j \in 0..(n + 1) : i <= j => more[i] <= more[j]
    <3> SUFFICES ASSUME NEW i \in 0..(n + 1), NEW j \in 0..(n + 1), i <= j
                 PROVE  more[i] <= more[j]
      OBVIOUS
    <3>1. CASE j # n + 1
      <4>1. i \in 0..n /\ j \in 0..n
        BY <2>4, <3>1
      <4> QED
        BY <2>3, <2>5, <4>1
    <3>2. CASE j = n + 1 /\ i # n + 1
      <4>1. i \in 0..n /\ i <= n
        BY <2>4, <3>2
      <4>2. ends[i] <= ends[n] /\ more[i] = ends[i] /\ ends[i] \in Int
        BY <2>3, <2>4, <2>5, <4>1
      <4> QED
        BY <1>4, <2>4, <2>5, <3>2, <4>2
    <3>3. CASE j = n + 1 /\ i = n + 1
      BY <1>4, <2>4, <2>5, <3>3
    <3> QED
      BY <3>1, <3>2, <3>3
  <2>8. Stream' = Stream \o f
    <3>1. Stream' = buf \o (wire \o f) /\ Stream = buf \o wire
      BY <1>1, <1>2, <1>3 DEF Stream
    <3>2. (buf \o wire) \o f = buf \o (wire \o f)
      BY <1>4, <1>5, ConcatAssociative
    <3> QED
      BY <3>1, <3>2
  <2>9. /\ Stream \in Seq(Byte) /\ Len(Stream) \in Nat /\ Len(Stream') = Len(Stream) + Len(f)
        /\ \A i \in 1..Len(Stream) : Stream'[i] = Stream[i]
        /\ \A i \in 1..Len(f) : Stream'[Len(Stream) + i] = f[i]
    <3>1. Stream \in Seq(Byte)
      BY StreamFacts DEF IndInv
    <3> QED
      BY <1>4, <2>8, <3>1, ConcatProperties
  <2>10. Holds(Stream', more, sent')
    <3> SUFFICES ASSUME NEW i \in 1..(n + 1), NEW j \in Nat, j \in 1..Len(sent'[i]),
                        more[i - 1] + j \in 1..Len(Stream')
                 PROVE  Stream'[more[i - 1] + j] = sent'[i][j]
      BY <1>6, <2>2 DEF Holds
    <3>1. CASE i = n + 1
      <4>1. sent'[i] = f /\ i - 1 = n /\ more[i - 1] = Len(Stream)
        BY <1>6, <2>2, <2>3, <2>4, <2>5, <3>1
      <4> QED
        BY <2>9, <4>1
    <3>2. CASE i # n + 1
      <4>1. i \in 1..n /\ i - 1 \in 0..n /\ i \in 0..n /\ i <= n
        BY <2>4, <3>2
      <4>2. sent'[i] = sent[i] /\ more[i - 1] = ends[i - 1]
        BY <1>6, <2>2, <2>5, <4>1
      <4>3. ends[i - 1] + Len(sent[i]) = ends[i] /\ ends[i] <= ends[n] /\ ends[i - 1] \in Int
        BY <2>3, <2>4, <4>1
      <4>4. Len(sent[i]) \in Nat
        BY <1>5, <2>2, <4>1
      <4>5. ends[i - 1] + j \in 1..Len(Stream)
        BY <2>3, <2>9, <4>2, <4>3, <4>4
      <4>6. Stream[ends[i - 1] + j] = sent[i][j]
        BY <2>2, <2>3, <4>1, <4>2, <4>5 DEF Holds
      <4> QED
        BY <2>9, <4>2, <4>5, <4>6
    <3> QED
      BY <3>1, <3>2
  <2>11. /\ more[Len(packets)] = 0 /\ Len(Stream') = more[n + 1]
    BY <2>3, <2>4, <2>5, <2>9
  <2>12. Len(sent') = n + 1 /\ Len(packets') = Len(packets)
    BY <1>3, <1>6, <2>2
  <2>13. Places(more, sent')
    BY <2>5, <2>6, <2>7, <2>12 DEF Places
  <2>14. Len(Stream') <= more[Len(sent')] /\ Len(Stream') = more[Len(sent')]
    <3>1. Len(Stream') \in Nat
      BY <1>4, <2>9
    <3> QED
      BY <2>11, <2>12, <3>1
  <2>15. Joined(more)'
    BY <2>10, <2>11, <2>12, <2>13, <2>14 DEF Joined
  <2> QED
    BY <2>15 DEF StreamJoined
<1>11. LessThanFrame'
  <2>1. ASSUME thread = "recv", buf # <<>>
        PROVE  LET next == Len(packets) + 1 IN
               next <= Len(sent') /\ Agrees(buf, sent'[next]) /\ Len(buf) < Len(sent'[next])
    <3>1. LET next == Len(packets) + 1 IN
          next <= Len(sent) /\ Agrees(buf, sent[next]) /\ Len(buf) < Len(sent[next])
      BY <2>1 DEF IndInv, LessThanFrame
    <3>2. Len(packets) + 1 \in 1..Len(sent) /\ Len(packets) + 1 <= Len(sent')
      BY <1>5, <1>6, <3>1
    <3> QED
      BY <1>6, <3>1, <3>2
  <2> QED
    BY <1>3, <2>1 DEF LessThanFrame, Agrees
<1> QED
  BY <1>8, <1>9, <1>10, <1>11 DEF IndInv

(* A stream that is cut off, or read, is still joined.                     *)
LEMMA StreamKept ==
  ASSUME IndInv, UNCHANGED <<sent, packets>>, buf' \in Seq(Byte), wire' \in Seq(Byte),
         open' \in BOOLEAN, open' => open,
         Len(Stream') <= Len(Stream), open' => Len(Stream') = Len(Stream),
         \A i \in 1..Len(Stream') : Stream'[i] = Stream[i]
  PROVE  PacketsAreFrames' /\ StreamJoined'
<1>1. PacketsAreFrames'
  BY DEF IndInv, PacketsAreFrames
<1>2. PICK ends : Joined(ends)
  BY DEF IndInv, StreamJoined
<1>3. Len(Stream) \in Nat /\ Len(Stream') \in Nat /\ Len(sent) \in Nat
  <2>1. Stream' \in Seq(Byte)
    BY ConcatProperties DEF Stream
  <2>2. Stream \in Seq(Byte) /\ Len(sent) \in Nat
    BY StreamFacts DEF IndInv
  <2> QED
    BY <2>1, <2>2
<1>4. ends[Len(sent)] \in Int
  BY <1>2, <1>3 DEF Joined, Places
<1>5. Holds(Stream', ends, sent)
  <2> SUFFICES ASSUME NEW i \in 1..Len(sent), NEW j \in Nat, j \in 1..Len(sent[i]),
                      ends[i - 1] + j \in 1..Len(Stream')
               PROVE  Stream'[ends[i - 1] + j] = sent[i][j]
    BY DEF Holds
  <2>1. ends[i - 1] + j \in 1..Len(Stream)
    BY <1>3
  <2>2. Stream[ends[i - 1] + j] = sent[i][j]
    BY <1>2, <2>1 DEF Joined, Holds
  <2> QED
    BY <2>2
<1>6. Len(Stream') <= ends[Len(sent)] /\ (open' => Len(Stream') = ends[Len(sent)])
  BY <1>2, <1>3, <1>4 DEF Joined
<1>7. Joined(ends)'
  BY <1>2, <1>5, <1>6 DEF Joined, Places
<1> QED
  BY <1>1, <1>7 DEF StreamJoined

(* The part of a sequence from place m to place n.                         *)
LEMMA Part ==
  ASSUME NEW q \in Seq(Byte), NEW m \in 1..(Len(q) + 1), NEW n \in 0..Len(q), m <= n + 1
  PROVE  /\ SubSeq(q, m, n) \in Seq(Byte) /\ Len(SubSeq(q, m, n)) = n + 1 - m
         /\ \A i \in 1..(n + 1 - m) : SubSeq(q, m, n)[i] = q[m + i - 1]
<1>1. Len(q) \in Nat /\ m \in Int /\ n \in Int
  OBVIOUS
<1>2. \A i \in m..n : q[i] \in Byte
  BY <1>1
<1>3. PICK r : r = SubSeq(q, m, n)
  OBVIOUS
<1>4. /\ r \in Seq(Byte) /\ Len(r) = IF m <= n THEN n - m + 1 ELSE 0
      /\ \A i \in 1..(n - m + 1) : r[i] = q[m + i - 1]
  BY <1>1, <1>2, <1>3, SubSeqProperties
<1>5. n - m + 1 = n + 1 - m /\ Len(r) = n + 1 - m
  BY <1>1, <1>4
<1> QED
  BY <1>3, <1>4, <1>5

(* What arrives of what the client wrote is a first part of it.            *)
LEMMA LeaveStep == IndInv /\ Leave => IndInv'
<1> SUFFICES ASSUME IndInv, Leave PROVE IndInv'
  OBVIOUS
<1>1. PICK k \in 0..Len(wire) : wire' = SubSeq(wire, 1, k)
  BY DEF Leave
<1>2. UNCHANGED <<sent, buf, packets, thread>> /\ open' = FALSE
  BY DEF Leave
<1>3. wire \in Seq(Byte) /\ buf \in Seq(Byte) /\ Len(wire) \in Nat /\ Len(buf) \in Nat
  BY DEF IndInv, Shape
<1>4. /\ wire' \in Seq(Byte) /\ Len(wire') = k /\ \A i \in 1..k : wire'[i] = wire[i]
  BY <1>1, <1>3, Part
<1>5. Shape'
  BY <1>2, <1>4 DEF IndInv, Shape
<1>6. /\ Len(Stream) = Len(buf) + Len(wire)
      /\ \A i \in 1..Len(buf) : Stream[i] = buf[i]
      /\ \A i \in 1..Len(Stream) : i > Len(buf) => Stream[i] = wire[i - Len(buf)]
  BY StreamFacts DEF IndInv
<1>7. /\ Len(Stream') = Len(buf') + Len(wire')
      /\ \A i \in 1..(Len(buf') + Len(wire')) :
           Stream'[i] = IF i <= Len(buf') THEN buf'[i] ELSE wire'[i - Len(buf')]
  BY <1>2, <1>3, <1>4, ConcatProperties DEF Stream
<1>8. ASSUME NEW i \in 1..Len(Stream') PROVE Stream'[i] = Stream[i]
  <2>1. CASE i <= Len(buf)
    <3>1. i \in 1..Len(buf)
      BY <1>3, <2>1
    <3> QED
      BY <1>2, <1>6, <1>7, <2>1, <3>1
  <2>2. CASE ~(i <= Len(buf))
    <3>1. i - Len(buf) \in 1..k /\ i \in 1..Len(Stream) /\ i > Len(buf)
      BY <1>2, <1>3, <1>4, <1>6, <1>7, <2>2
    <3>2. Stream'[i] = wire'[i - Len(buf)] /\ Stream[i] = wire[i - Len(buf)]
      BY <1>2, <1>6, <1>7, <2>2, <3>1
    <3> QED
      BY <1>4, <3>1, <3>2
  <2> QED
    BY <2>1, <2>2
<1>9. Len(Stream') <= Len(Stream)
  BY <1>2, <1>3, <1>4, <1>6, <1>7
<1>10. PacketsAreFrames' /\ StreamJoined'
  BY <1>2, <1>3, <1>4, <1>8, <1>9, StreamKept
<1>11. LessThanFrame'
  BY <1>2 DEF IndInv, LessThanFrame, Agrees
<1> QED
  BY <1>5, <1>10, <1>11 DEF IndInv

(* A read moves bytes from the wire to the buffer.                         *)
LEMMA RecvStep == IndInv /\ Recv => IndInv'
<1> SUFFICES ASSUME IndInv, Recv PROVE IndInv'
  OBVIOUS
<1>1. PICK k \in 1..Len(wire) : /\ buf' = buf \o SubSeq(wire, 1, k)
                                /\ wire' = SubSeq(wire, k + 1, Len(wire))
  BY DEF Recv
<1>2. UNCHANGED <<sent, open, packets>> /\ thread' = "parse"
  BY DEF Recv
<1>3. wire \in Seq(Byte) /\ buf \in Seq(Byte) /\ Len(wire) \in Nat /\ Len(buf) \in Nat
  BY DEF IndInv, Shape
<1>4. PICK chunk : chunk = SubSeq(wire, 1, k)
  OBVIOUS
<1>5. chunk \in Seq(Byte) /\ Len(chunk) = k /\ \A i \in 1..k : chunk[i] = wire[i]
  BY <1>3, <1>4, Part
<1>6. /\ wire' \in Seq(Byte) /\ Len(wire') = Len(wire) - k
      /\ \A i \in 1..(Len(wire) - k) : wire'[i] = wire[k + i]
  <2>1. k + 1 \in 1..(Len(wire) + 1) /\ Len(wire) \in 0..Len(wire) /\ k + 1 <= Len(wire) + 1
    BY <1>3
  <2>2. PICK r : r = wire' /\ r = SubSeq(wire, k + 1, Len(wire))
    BY <1>1
  <2>3. /\ r \in Seq(Byte) /\ Len(r) = Len(wire) + 1 - (k + 1)
        /\ \A i \in 1..(Len(wire) + 1 - (k + 1)) : r[i] = wire[(k + 1) + i - 1]
    BY <1>3, <2>1, <2>2, Part
  <2>4. Len(wire) + 1 - (k + 1) = Len(wire) - k
    BY <1>3
  <2>5. \A i \in 1..(Len(wire) - k) : (k + 1) + i - 1 = k + i
    BY <1>3
  <2> QED
    BY <2>2, <2>3, <2>4, <2>5
<1>7. /\ buf' \in Seq(Byte) /\ Len(buf') = Len(buf) + k
      /\ \A i \in 1..(Len(buf) + k) :
           buf'[i] = IF i <= Len(buf) THEN buf[i] ELSE chunk[i - Len(buf)]
  BY <1>1, <1>3, <1>4, <1>5, ConcatProperties
<1>8. Shape'
  BY <1>2, <1>6, <1>7 DEF IndInv, Shape
<1>9. /\ Len(Stream) = Len(buf) + Len(wire)
      /\ \A i \in 1..Len(buf) : Stream[i] = buf[i]
      /\ \A i \in 1..Len(Stream) : i > Len(buf) => Stream[i] = wire[i - Len(buf)]
  BY StreamFacts DEF IndInv
<1>10. /\ Len(Stream') = Len(buf') + Len(wire')
       /\ \A i \in 1..(Len(buf') + Len(wire')) :
            Stream'[i] = IF i <= Len(buf') THEN buf'[i] ELSE wire'[i - Len(buf')]
  BY <1>6, <1>7, ConcatProperties DEF Stream
<1>11. Len(Stream') = Len(Stream)
  BY <1>3, <1>6, <1>7, <1>9, <1>10
<1>12. ASSUME NEW i \in 1..Len(Stream') PROVE Stream'[i] = Stream[i]
  <2>0. i \in 1..Len(Stream) /\ i \in 1..(Len(buf') + Len(wire')) /\ i \in Nat
    BY <1>3, <1>9, <1>10, <1>11
  <2>1. CASE i <= Len(buf)
    <3>1. i \in 1..Len(buf) /\ i <= Len(buf') /\ i \in 1..(Len(buf) + k)
      BY <1>3, <1>7, <2>0, <2>1
    <3> QED
      BY <1>7, <1>9, <1>10, <2>0, <2>1, <3>1
  <2>2. CASE i > Len(buf) /\ i <= Len(buf) + k
    <3>1. i - Len(buf) \in 1..k /\ i \in 1..(Len(buf) + k) /\ ~(i <= Len(buf))
      BY <1>3, <2>0, <2>2
    <3>2. Stream'[i] = chunk[i - Len(buf)]
      BY <1>7, <1>10, <2>0, <2>2, <3>1
    <3> QED
      BY <1>5, <1>9, <2>0, <2>2, <3>1, <3>2
  <2>3. CASE i > Len(buf) + k
    <3>1. /\ i - (Len(buf) + k) \in 1..(Len(wire) - k) /\ ~(i <= Len(buf) + k)
          /\ k + (i - (Len(buf) + k)) = i - Len(buf) /\ i > Len(buf)
      BY <1>3, <1>9, <2>0, <2>3
    <3>2. Stream'[i] = wire'[i - (Len(buf) + k)]
      BY <1>7, <1>10, <2>0, <3>1
    <3> QED
      BY <1>6, <1>9, <2>0, <3>1, <3>2
  <2> QED
    BY <1>3, <2>0, <2>1, <2>2, <2>3
<1>13. PacketsAreFrames' /\ StreamJoined'
  <2>1. Len(Stream') <= Len(Stream) /\ open \in BOOLEAN
    BY <1>3, <1>9, <1>11 DEF IndInv, Shape
  <2> QED
    BY <1>2, <1>6, <1>7, <1>11, <1>12, <2>1, StreamKept
<1>14. LessThanFrame'
  BY <1>2 DEF LessThanFrame
<1> QED
  BY <1>8, <1>13, <1>14 DEF IndInv

(* The parser gives up the buffer when it holds less than a frame.         *)
LEMMA WaitStep == IndInv /\ WaitForMore => IndInv'
<1> SUFFICES ASSUME IndInv, WaitForMore PROVE IndInv'
  OBVIOUS
<1>1. UNCHANGED <<sent, wire, open, buf, packets>> /\ thread' = "recv" /\ Complete(buf) = {}
  BY DEF WaitForMore
<1>2. Shape' /\ PacketsAreFrames'
  BY <1>1 DEF IndInv, Shape, PacketsAreFrames
<1>3. StreamJoined'
  BY <1>1 DEF IndInv, StreamJoined, Joined, Places, Holds, Stream
<1>4. ASSUME buf # <<>>
      PROVE  LET next == Len(packets) + 1 IN
             next <= Len(sent) /\ Agrees(buf, sent[next]) /\ Len(buf) < Len(sent[next])
  <2>1. Len(packets) + 1 \in 1..Len(sent) /\ Agrees(buf, sent[Len(packets) + 1])
    BY <1>4, NextFrame
  <2>2. ~(Len(buf) >= Len(sent[Len(packets) + 1]))
    BY <1>1, <1>4, NextPacket
  <2>3. Len(buf) \in Nat /\ Len(sent[Len(packets) + 1]) \in Nat /\ Len(sent) \in Nat
    BY <2>1, StreamFacts DEF IndInv
  <2> QED
    BY <2>1, <2>2, <2>3
<1>5. LessThanFrame'
  BY <1>1, <1>4 DEF LessThanFrame, Agrees
<1> QED
  BY <1>2, <1>3, <1>5 DEF IndInv

(* A packet that is cut is the frame that comes next.                      *)
LEMMA CutStep == IndInv /\ Cut => IndInv'
<1> SUFFICES ASSUME IndInv, Cut PROVE IndInv'
  OBVIOUS
<1>1. PICK size \in Complete(buf) : /\ packets' = Append(packets, SubSeq(buf, 1, size))
                                    /\ buf' = SubSeq(buf, size + 1, Len(buf))
  BY DEF Cut
<1>2. UNCHANGED <<sent, wire, open, thread>> /\ thread = "parse"
  BY DEF Cut
<1>3. PICK next : next = Len(packets) + 1
  OBVIOUS
<1>4. /\ wire \in Seq(Byte) /\ buf \in Seq(Byte) /\ Len(wire) \in Nat /\ Len(buf) \in Nat
      /\ Len(packets) \in Nat /\ Len(sent) \in Nat /\ packets \in Seq(Seq(Byte))
  BY StreamFacts DEF IndInv, Shape
<1>5. buf # <<>>
  <2>1. PICK e : e \in LengthEnds(buf)
    BY DEF Complete
  <2>2. e \in 2..5 /\ e <= Len(buf)
    BY <2>1 DEF LengthEnds
  <2> QED
    BY <1>4, <2>2, EmptySeq
<1>6. next \in 1..Len(sent) /\ Agrees(buf, sent[next])
  BY <1>3, <1>5, NextFrame
<1>7. size = Len(sent[next]) /\ size <= Len(buf) /\ size \in Nat /\ sent[next] \in Seq(Byte)
  <2>1. sent[next] \in Seq(Byte) /\ Len(sent[next]) \in Nat
    BY <1>6, StreamFacts DEF IndInv
  <2>2. Complete(buf) = IF Len(buf) >= Len(sent[next]) THEN {Len(sent[next])} ELSE {}
    BY <1>3, <1>5, NextPacket
  <2>3. Len(buf) >= Len(sent[next]) /\ size = Len(sent[next])
    BY <2>2
  <2> QED
    BY <1>4, <2>1, <2>3
<1>8. SubSeq(buf, 1, size) = sent[next]
  <2>1. PICK r : r = SubSeq(buf, 1, size)
    OBVIOUS
  <2>2. /\ 1 \in 1..(Len(buf) + 1) /\ size \in 0..Len(buf) /\ 1 <= size + 1
        /\ size + 1 - 1 = size /\ \A i \in 1..size : 1 + i - 1 = i
    BY <1>4, <1>7
  <2>3. /\ r \in Seq(Byte) /\ Len(r) = size + 1 - 1
        /\ \A i \in 1..(size + 1 - 1) : r[i] = buf[1 + i - 1]
    BY <1>4, <2>1, <2>2, Part
  <2>4. r \in Seq(Byte) /\ Len(r) = size /\ \A i \in 1..size : r[i] = buf[i]
    BY <2>2, <2>3
  <2>5. \A i \in 1..size : buf[i] = sent[next][i]
    <3>1. \A i \in 1..size : i \in 1..Len(buf) /\ i <= size
      BY <1>4, <1>7
    <3> QED
      BY <1>6, <1>7, <3>1 DEF Agrees
  <2>6. r = sent[next]
    BY <1>7, <2>4, <2>5, SeqEqual
  <2> QED
    BY <2>1, <2>6
<1>9. /\ packets' \in Seq(Seq(Byte)) /\ Len(packets') = next
      /\ \A i \in 1..Len(packets) : packets'[i] = packets[i]
      /\ packets'[next] = sent[next]
  <2>1. PICK r : r = packets' /\ r = Append(packets, sent[next])
    BY <1>1, <1>8
  <2>2. /\ r \in Seq(Seq(Byte)) /\ Len(r) = Len(packets) + 1
        /\ \A i \in 1..Len(packets) : r[i] = packets[i]
        /\ r[Len(packets) + 1] = sent[next]
    BY <1>4, <1>7, <2>1, AppendProperties
  <2> QED
    BY <1>3, <2>1, <2>2
<1>10. PacketsAreFrames'
  <2>1. \A i \in 1..Len(packets) : packets[i] = sent[i]
    BY DEF IndInv, PacketsAreFrames
  <2>2. \A i \in 1..next : i # next => i \in 1..Len(packets)
    BY <1>3, <1>4
  <2>3. \A i \in 1..next : packets'[i] = sent[i]
    BY <1>9, <2>1, <2>2
  <2>4. next <= Len(sent)
    BY <1>4, <1>6
  <2> QED
    BY <1>2, <1>9, <2>3, <2>4 DEF PacketsAreFrames
<1>11. /\ buf' \in Seq(Byte) /\ Len(buf') = Len(buf) - size
       /\ \A i \in 1..(Len(buf) - size) : buf'[i] = buf[size + i]
  <2>1. /\ size + 1 \in 1..(Len(buf) + 1) /\ Len(buf) \in 0..Len(buf)
        /\ size + 1 <= Len(buf) + 1
    BY <1>4, <1>7
  <2>2. PICK r : r = buf' /\ r = SubSeq(buf, size + 1, Len(buf))
    BY <1>1
  <2>3. /\ r \in Seq(Byte) /\ Len(r) = Len(buf) + 1 - (size + 1)
        /\ \A i \in 1..(Len(buf) + 1 - (size + 1)) : r[i] = buf[(size + 1) + i - 1]
    BY <1>4, <2>1, <2>2, Part
  <2>4. Len(buf) + 1 - (size + 1) = Len(buf) - size
    BY <1>4, <1>7
  <2>5. \A i \in 1..(Len(buf) - size) : (size + 1) + i - 1 = size + i
    BY <1>4, <1>7
  <2> QED
    BY <2>2, <2>3, <2>4, <2>5
<1>12. Shape'
  BY <1>2, <1>9, <1>11 DEF IndInv, Shape
<1>13. /\ Stream \in Seq(Byte) /\ Len(Stream) = Len(buf) + Len(wire)
       /\ \A i \in 1..Len(buf) : Stream[i] = buf[i]
       /\ \A i \in 1..Len(Stream) : i > Len(buf) => Stream[i] = wire[i - Len(buf)]
  BY StreamFacts DEF IndInv
<1>14. /\ Len(Stream') = Len(buf') + Len(wire)
       /\ \A i \in 1..(Len(buf') + Len(wire)) :
            Stream'[i] = IF i <= Len(buf') THEN buf'[i] ELSE wire[i - Len(buf')]
  BY <1>2, <1>4, <1>11, ConcatProperties DEF Stream
<1>15. Len(Stream') = Len(Stream) - size /\ Len(Stream') \in Nat /\ Len(Stream) \in Nat
  BY <1>4, <1>7, <1>11, <1>13, <1>14
<1>16. ASSUME NEW i \in 1..Len(Stream') PROVE Stream'[i] = Stream[i + size]
  <2>1. CASE i <= Len(buf')
    <3>1. i \in 1..(Len(buf) - size) /\ size + i = i + size /\ i + size \in 1..Len(buf)
      BY <1>4, <1>7, <1>11, <1>15, <2>1
    <3>2. Stream'[i] = buf'[i]
      BY <1>14, <1>15, <2>1
    <3> QED
      BY <1>11, <1>13, <3>1, <3>2
  <2>2. CASE ~(i <= Len(buf'))
    <3>1. i + size \in 1..Len(Stream) /\ i + size > Len(buf)
          /\ (i + size) - Len(buf) = i - Len(buf')
      BY <1>4, <1>7, <1>11, <1>13, <1>15, <2>2
    <3>2. Stream'[i] = wire[i - Len(buf')]
      BY <1>14, <1>15, <2>2
    <3> QED
      BY <1>13, <3>1, <3>2
  <2> QED
    BY <2>1, <2>2
<1>17. StreamJoined'
  <2>1. PICK ends : Joined(ends)
    BY DEF IndInv, StreamJoined
  <2>2. PICK n : n = Len(sent)
    OBVIOUS
  <2>3. /\ ends \in [0..n -> Int] /\ \A i \in 1..n : ends[i] = ends[i - 1] + Len(sent[i])
        /\ \A i, j \in 0..n : i <= j => ends[i] <= ends[j]
        /\ Holds(Stream, ends, sent) /\ ends[Len(packets)] = 0
        /\ Len(Stream) <= ends[n] /\ (open => Len(Stream) = ends[n])
    BY <2>1, <2>2 DEF Joined, Places
  <2> DEFINE later == [i \in 0..n |-> ends[i] - size]
  <2>4. later \in [0..n -> Int] /\ \A i \in 0..n : later[i] = ends[i] - size /\ ends[i] \in Int
    BY <1>7, <2>3
  <2> HIDE DEF later
  <2>5. n \in Nat /\ next \in 1..n /\ next - 1 = Len(packets) /\ n \in 0..n
        /\ next \in 0..n
    BY <1>3, <1>4, <1>6, <2>2
  <2>6. \A i \in 1..n : later[i] = later[i - 1] + Len(sent[i])
    <3> SUFFICES ASSUME NEW i \in 1..n PROVE later[i] = later[i - 1] + Len(sent[i])
      OBVIOUS
    <3>1. i \in 0..n /\ i - 1 \in 0..n
      BY <2>5
    <3>2. Len(sent[i]) \in Nat
      BY <2>2, StreamFacts DEF IndInv
    <3>3. ends[i] = ends[i - 1] + Len(sent[i])
      BY <2>3
    <3> QED
      BY <1>7, <2>4, <3>1, <3>2, <3>3
  <2>7. \A i, j \in 0..n : i <= j => later[i] <= later[j]
    <3> SUFFICES ASSUME NEW i \in 0..n, NEW j \in 0..n, i <= j PROVE later[i] <= later[j]
      OBVIOUS
    <3> QED
      BY <1>7, <2>3, <2>4
  <2>8. later[next] = 0
    <3>1. ends[next] = ends[next - 1] + Len(sent[next])
      BY <2>3, <2>5
    <3>2. ends[next] = 0 + size
      BY <1>7, <2>3, <2>5, <3>1
    <3>3. later[next] = ends[next] - size
      BY <2>4, <2>5
    <3> QED
      BY <1>7, <3>2, <3>3
  <2>9. /\ Len(Stream') <= later[n] /\ (open => Len(Stream') = later[n])
    <3>1. later[n] = ends[n] - size /\ ends[n] \in Int
      BY <2>4, <2>5
    <3>2. Len(Stream) <= ends[n] /\ (open => Len(Stream) = ends[n])
      BY <2>3
    <3> QED
      BY <1>7, <1>15, <3>1, <3>2
  <2>10. Holds(Stream', later, sent)
    <3> SUFFICES ASSUME NEW i \in 1..n, NEW j \in Nat, j \in 1..Len(sent[i]),
                        later[i - 1] + j \in 1..Len(Stream')
                 PROVE  Stream'[later[i - 1] + j] = sent[i][j]
      BY <2>2 DEF Holds
    <3>1. i - 1 \in 0..n
      BY <2>5
    <3>2. (later[i - 1] + j) + size = ends[i - 1] + j
      BY <1>7, <2>4, <3>1
    <3>3. ends[i - 1] + j \in 1..Len(Stream)
      <4>1. ends[i - 1] \in Int /\ later[i - 1] \in Int
        BY <2>4, <3>1
      <4>2. \A x, y, l \in Int : x \in 1..(l - size) /\ x + size = y => y \in 1..l
        BY <1>7
      <4> QED
        BY <1>15, <3>2, <4>1, <4>2
    <3>4. Stream[ends[i - 1] + j] = sent[i][j]
      BY <2>2, <2>3, <3>3 DEF Holds
    <3> QED
      BY <1>16, <3>2, <3>4
  <2>11. Places(later, sent)
    BY <2>2, <2>4, <2>6, <2>7 DEF Places
  <2>12. Joined(later)'
    BY <1>2, <1>9, <2>2, <2>8, <2>9, <2>10, <2>11 DEF Joined, Places
  <2> QED
    BY <2>12 DEF StreamJoined
<1>18. LessThanFrame'
  BY <1>2 DEF LessThanFrame
<1> QED
  BY <1>10, <1>12, <1>17, <1>18 DEF IndInv

(* What changes nothing but the thread.                                    *)
LEMMA OtherSteps == IndInv /\ (EndOfStream \/ UNCHANGED vars) => IndInv'
<1> SUFFICES ASSUME IndInv, EndOfStream \/ UNCHANGED vars PROVE IndInv'
  OBVIOUS
<1>1. /\ UNCHANGED <<sent, wire, open, buf, packets>>
      /\ thread' = thread \/ thread' = "done"
  BY DEF EndOfStream, vars
<1>2. Shape' /\ PacketsAreFrames'
  BY <1>1 DEF IndInv, Shape, PacketsAreFrames
<1>3. StreamJoined'
  BY <1>1 DEF IndInv, StreamJoined, Joined, Places, Holds, Stream
<1>4. LessThanFrame'
  BY <1>1 DEF IndInv, LessThanFrame, Agrees
<1> QED
  BY <1>2, <1>3, <1>4 DEF IndInv

(* The inductive invariant of the parser.                                  *)
THEOREM Invariance == Spec => []IndInv
<1>1. IndInv /\ [Next]_vars => IndInv'
  BY WriteStep, LeaveStep, RecvStep, WaitStep, CutStep, OtherSteps
     DEF Next, HandleClient, AllRead
<1> QED
  BY <1>1, InitInv, PTL DEF Spec

(* A sequence that agrees with another as far as it goes is a prefix of it.*)
LEMMA Prefix ==
  ASSUME NEW T, NEW s \in Seq(T), NEW t \in Seq(T), Len(s) <= Len(t),
         \A i \in 1..Len(s) : s[i] = t[i]
  PROVE  IsPrefix(s, t)
<1>1. Len(s) \in Nat /\ Len(t) \in Nat
  OBVIOUS
<1>2. PICK r : r = SubSeq(t, 1, Len(s))
  OBVIOUS
<1>3. PICK q : q = SubSeq(s, 1, Len(s))
  OBVIOUS
<1>4. \A i \in 1..Len(s) : t[i] \in T /\ s[i] \in T
  BY <1>1
<1>5. /\ r \in Seq(T) /\ Len(r) = IF 1 <= Len(s) THEN Len(s) - 1 + 1 ELSE 0
      /\ \A i \in 1..(Len(s) - 1 + 1) : r[i] = t[1 + i - 1]
  BY <1>1, <1>2, <1>4, SubSeqProperties
<1>6. /\ q \in Seq(T) /\ Len(q) = IF 1 <= Len(s) THEN Len(s) - 1 + 1 ELSE 0
      /\ \A i \in 1..(Len(s) - 1 + 1) : q[i] = s[1 + i - 1]
  BY <1>1, <1>3, <1>4, SubSeqProperties
<1>7. Len(s) - 1 + 1 = Len(s) /\ \A i \in 1..Len(s) : 1 + i - 1 = i
  BY <1>1
<1>8. Len(r) = Len(q) /\ Len(q) = Len(s)
  BY <1>1, <1>5, <1>6, <1>7
<1>9. \A i \in 1..Len(r) : r[i] = q[i]
  BY <1>5, <1>6, <1>7, <1>8
<1>10. r = q
  BY <1>5, <1>6, <1>8, <1>9, SeqEqual
<1> QED
  BY <1>2, <1>3, <1>10 DEF IsPrefix

(* Packets are the frames that were written, and less than the next waits. *)
THEOREM PacketsCorrect == Spec => []InStep
<1>1. IndInv => InStep
  <2> SUFFICES ASSUME IndInv PROVE InStep
    OBVIOUS
  <2>1. /\ sent \in Seq(Seq(Byte)) /\ packets \in Seq(Seq(Byte)) /\ buf \in Seq(Byte)
        /\ Len(packets) \in Nat /\ Len(sent) \in Nat /\ Len(buf) \in Nat
    BY DEF IndInv, Shape
  <2>2. IsPrefix(packets, sent)
    BY <2>1, Prefix DEF IndInv, PacketsAreFrames
  <2>3. ASSUME thread = "recv", buf # <<>>
        PROVE  Len(packets) < Len(sent) /\ IsStrictPrefix(buf, sent[Len(packets) + 1])
    <3>1. PICK next : next = Len(packets) + 1
      OBVIOUS
    <3>2. next <= Len(sent) /\ Agrees(buf, sent[next]) /\ Len(buf) < Len(sent[next])
      BY <2>3, <3>1 DEF IndInv, LessThanFrame
    <3>3. next \in 1..Len(sent)
      BY <2>1, <3>1, <3>2
    <3>4. sent[next] \in Seq(Byte) /\ Len(sent[next]) \in Nat
      BY <3>3, StreamFacts DEF IndInv
    <3>5. \A i \in 1..Len(buf) : i <= Len(sent[next])
      BY <2>1, <3>2, <3>4
    <3>6. IsPrefix(buf, sent[next])
      <4>1. Len(buf) <= Len(sent[next])
        BY <2>1, <3>2, <3>4
      <4>2. \A i \in 1..Len(buf) : buf[i] = sent[next][i]
        BY <3>2, <3>5 DEF Agrees
      <4> QED
        BY <2>1, <3>4, <4>1, <4>2, Prefix
    <3>7. buf # sent[next]
      BY <2>1, <3>2, <3>4
    <3> QED
      BY <2>1, <3>1, <3>2, <3>6, <3>7 DEF IsStrictPrefix
  <2> QED
    BY <2>2, <2>3 DEF InStep
<1> QED
  BY <1>1, Invariance, PTL
=============================================================================
