------------------------------ MODULE Framing -------------------------------
(***************************************************************************)
(* How the broker cuts packets out of the byte stream of one connection    *)
(* (broker.py): the remaining length at the start of each frame, the       *)
(* buffer of handle_client, and reads that end anywhere.                   *)
(*                                                                         *)
(* Base is 128: a length byte holds a digit, plus Base if another follows. *)
(* The client is external; its frames are those of make_publish().         *)
(***************************************************************************)
EXTENDS Integers, SequencesExt

CONSTANTS
  Base,
  MaxChunk,     \* recv(4096)
  Lengths,      \* the remaining lengths of the client's frames
  Fillings,     \* the bytes they are made of
  MaxFrames     \* bound

ASSUME FramingAssumption ==
  /\ Base \in Nat \ {0, 1} /\ MaxChunk \in Nat \ {0} /\ MaxFrames \in Nat
  /\ Lengths \subseteq 0..(Base * Base * Base * Base - 1)
  /\ Fillings \subseteq 0..(2 * Base - 1)

VARIABLES
  sent,         \* frames the client has written
  wire,         \* bytes of them that have not been read
  open,         \* FALSE when the client has gone
  buf,          \* the buffer of handle_client
  packets,      \* packets cut from it
  thread        \* "recv", "parse" or "done"

vars == <<sent, wire, open, buf, packets, thread>>

Init ==
  /\ sent = <<>> /\ wire = <<>> /\ open = TRUE
  /\ buf = <<>> /\ packets = <<>> /\ thread = "recv"

-----------------------------------------------------------------------------
(* What is left of a length after 0 to 4 rounds of the loop.               *)
Left(length) ==
  LET one == length \div Base   two == one \div Base   three == two \div Base
  IN  <<length, one, two, three, three \div Base>>

(* encode_remaining_length: digits from the lowest, until nothing is left. *)
EncodeRemainingLength(length) ==
  LET left == Left(length)
      size == CHOOSE k \in 1..4 : left[k + 1] = 0 /\ \A i \in 2..k : left[i] > 0
  IN  [i \in 1..size |-> (left[i] % Base) + IF i < size THEN Base ELSE 0]

(* Variation: the bound is tested with >=.                                 *)
LengthEndsEarly(data) ==
  {k \in 2..4 : k <= Len(data) /\ data[k] < Base /\ \A i \in 2..(k - 1) : data[i] >= Base}

(* Where the length that starts at position 2 ends, if it is all there and *)
(* has at most four bytes.                                                 *)
LengthEnds(data) ==
  {k \in 2..5 : k <= Len(data) /\ data[k] < Base /\ \A i \in 2..(k - 1) : data[i] >= Base}

(* decode_remaining_length                                                 *)
Remaining(data, end) ==
  LET Digit(i) == IF i <= end THEN data[i] % Base ELSE 0
  IN  Digit(2) + Base * (Digit(3) + Base * (Digit(4) + Base * Digit(5)))

Frame(length, filling) ==
  <<filling>> \o EncodeRemainingLength(length) \o [i \in 1..length |-> filling]

(* The sizes of the packet at the start of the buffer: none as long as its *)
(* length cannot be decoded, or while it is not complete.                  *)
Complete(data) ==
  {size \in {end + Remaining(data, end) : end \in LengthEnds(data)} : size <= Len(data)}

-----------------------------------------------------------------------------
Write ==
  /\ open /\ Len(sent) < MaxFrames
  /\ \E length \in Lengths, filling \in Fillings :
       /\ sent' = Append(sent, Frame(length, filling))
       /\ wire' = wire \o Frame(length, filling)
  /\ UNCHANGED <<open, buf, packets, thread>>

(* The client goes, and not all of what it wrote arrives.                  *)
Leave ==
  /\ open /\ open' = FALSE
  /\ \E k \in 0..Len(wire) : wire' = SubSeq(wire, 1, k)
  /\ UNCHANGED <<sent, buf, packets, thread>>

Recv ==
  /\ thread = "recv" /\ wire # <<>>
  /\ \E k \in 1..Len(wire) :
       /\ k <= MaxChunk
       /\ buf' = buf \o SubSeq(wire, 1, k)
       /\ wire' = SubSeq(wire, k + 1, Len(wire))
  /\ thread' = "parse"
  /\ UNCHANGED <<sent, open, packets>>

EndOfStream ==
  /\ thread = "recv" /\ wire = <<>> /\ ~open
  /\ thread' = "done"
  /\ UNCHANGED <<sent, wire, open, buf, packets>>

(* A packet is complete and handled (Broker).                              *)
Cut ==
  /\ thread = "parse"
  /\ \E size \in Complete(buf) :
       /\ packets' = Append(packets, SubSeq(buf, 1, size))
       /\ buf' = SubSeq(buf, size + 1, Len(buf))
  /\ UNCHANGED <<sent, wire, open, thread>>

(* Variation: continue in the place of break.                              *)
WaitForMoreSpinning ==
  /\ thread = "parse" /\ Complete(buf) = {}
  /\ UNCHANGED vars

WaitForMore ==
  /\ thread = "parse" /\ Complete(buf) = {}
  /\ thread' = "recv"
  /\ UNCHANGED <<sent, wire, open, buf, packets>>

HandleClient == Recv \/ EndOfStream \/ Cut \/ WaitForMore

(* Bound: the client has nothing left to write.                            *)
AllRead ==
  /\ thread = "done" \/ (Len(sent) = MaxFrames /\ wire = <<>> /\ thread = "recv")
  /\ UNCHANGED vars

Next == Write \/ Leave \/ HandleClient \/ AllRead

(* The thread of the connection goes on.                                   *)
Spec == Init /\ [][Next]_vars /\ WF_vars(HandleClient)

-----------------------------------------------------------------------------
(* PROPERTIES                                                              *)

(* The parser is in step with the client, however the stream is cut into   *)
(* reads: the packets are the frames that were written, none of them in    *)
(* part, and what waits in the buffer for the next read is less than the   *)
(* next frame, also when the client goes in the middle of one.             *)
InStep ==
  /\ IsPrefix(packets, sent)
  /\ thread = "recv" =>
       \/ buf = <<>>
       \/ Len(packets) < Len(sent) /\ IsStrictPrefix(buf, sent[Len(packets) + 1])

(* Every frame of a client that stays becomes a packet: no length within   *)
(* the protocol's four bytes leaves the parser waiting for ever.           *)
FramesArrive ==
  \A n \in 1..MaxFrames : Len(sent) >= n ~> (Len(packets) >= n \/ ~open)
=============================================================================
