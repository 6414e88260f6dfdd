------------------------------ MODULE Mailbox ------------------------------
(***************************************************************************)
(* A way for numbered messages that promises nothing about loss: a message *)
(* is delivered at most once, only after it was published, and what has    *)
(* been lost does not come back.  The device's MQTT client is one, and so  *)
(* are the ways of commands and of events through the whole system.        *)
(***************************************************************************)
EXTENDS Naturals, Sequences

VARIABLES
  published,   \* how many messages were published; they are 1..published
  pending,     \* those that may still be delivered
  delivered    \* those the other end has received, in its order

mvars == <<published, pending, delivered>>

Init ==
  /\ published = 0
  /\ pending = {}
  /\ delivered = <<>>

(* A new message may be dropped at once, or push out others.               *)
Accept ==
  /\ published' = published + 1
  /\ pending' \in SUBSET (pending \cup {published + 1})
  /\ UNCHANGED delivered

Deliver ==
  /\ \E m \in pending :
       /\ delivered' = Append(delivered, m)
       /\ pending' = pending \ {m}
  /\ UNCHANGED published

Lose ==
  /\ pending' \in SUBSET pending
  /\ UNCHANGED <<published, delivered>>

Next == Accept \/ Deliver \/ Lose

Spec == Init /\ [][Next]_mvars
=============================================================================
