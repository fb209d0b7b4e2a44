----------------------------- MODULE MCDelivery -----------------------------
(* Delivery for TLC: two connections of one user id in two tenants, on a    *)
(* server that authenticates.  The peer of the second may stop reading for  *)
(* good, so that a pass of the detector which finds it timed out never ends. *)
EXTENDS Delivery

CONSTANTS c1, c2, u1, t1

\* A call for a list, for an owner and for all but one, and each payload; a
\* call for one connection or for all is a list of those.
MCCalls ==
  {<<[kind |-> "list", to |-> {c2}], "system">>,
   <<[kind |-> "user", to |-> <<t1, u1>>], "message">>,
   <<[kind |-> "except", to |-> c1], "raw">>}

\* Bounds: a pass of the heartbeat detector and a call do not overlap (what a
\* pass does to a connection during a call, RemoveConnection does as well)
\* but for a pass that is stuck, beside which raw calls go on; no connection times out during a call, and the default tenant is always
\* left implicit, which names the same owner.
Bounds ==
  /\ \/ call'.stage = "idle"
     \/ cleanup'.stage = "idle"
     \/ Stuck' /\ call'.payload = "raw"
  /\ call.stage = "idle" \/ \A c \in Conns : active[c] /\ ~active'[c] => phase'[c] = "gone"
  /\ \A c \in Conns : tenant'[c] # DefaultTenant

\* The detector is fair in the turns the first bound leaves to it.
DetectorRuns == SF_deliveryVars(Manager(CleanupStep) /\ call.stage = "idle")

MCSpec ==
  /\ DeliveryInit
  /\ [][DeliveryNext /\ Bounds]_deliveryVars
  /\ OperationsEnd
  /\ CallsEnd
  /\ DetectorRuns
=============================================================================
