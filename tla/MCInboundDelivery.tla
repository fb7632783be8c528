------------------------- MODULE MCInboundDelivery -------------------------
(* Model checking of InboundDelivery on small instances.                   *)
EXTENDS InboundDelivery

TwoUpdates == 1..2
ThreeUpdates == 1..3
OnePoller == {"poller"}
=============================================================================
