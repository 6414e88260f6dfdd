----------------------------- MODULE MCDelivery -----------------------------
(* The instance of Delivery that is checked: a thread that distributes two *)
(* frames and one that sends a single frame, so that a third can get into  *)
(* the middle of one that waits.                                           *)
EXTENDS Delivery

FramesOf == [telemetry |-> 2, ack |-> 1]
=============================================================================
