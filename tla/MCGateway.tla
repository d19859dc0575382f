----------------------------- MODULE MCGateway -----------------------------
(* Instances of Gateway for TLC: see the .cfg files. *)
EXTENDS GatewayProperties

CONSTANTS m1, m2, m3, i1, i2, c1, c2, c3

AllSubmits == [m \in Outs |-> "Submit"]
DeliverAndReport == [m \in Outs |-> IF m = m1 THEN "Deliver" ELSE "Report"]
OneEach == [m \in Outs |-> 1]
LongFirst == [m \in Outs |-> IF m = m1 THEN 2 ELSE 1]
TwiceFirst == [m \in Outs |-> IF m = m1 THEN 2 ELSE 1]
TwiceSecond == [m \in Outs |-> IF m = m1 THEN 1 ELSE 2]
InSubmits == [i \in Ins |-> "Submit"]
InDelivers == [i \in Ins |-> "Deliver"]
===========================================================================
