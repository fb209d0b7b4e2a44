-------------------------- MODULE MCClientSession --------------------------
(* The client core for TLC: ClientSession with a client that connects       *)
(* twice, or connects once and sends a request, and ClientHeartbeat, whose  *)
(* loop has nothing of the session but its connection.  The two are run     *)
(* side by side and not interleaved.                                        *)
EXTENDS ClientSession, ClientHeartbeat

\* Settings in units of time: adaptive, and fixed with a shorter timeout.
Adaptive ==
  [enabled |-> TRUE, adaptive |-> TRUE, interval |-> 1, timeout |-> 3,
   foreground |-> Unset, background |-> 2, min |-> 1, max |-> 2,
   nat |-> Unset, app |-> "Foreground"]
MCHeartbeatConfigs ==
  {Adaptive, [Adaptive EXCEPT !.adaptive = FALSE, !.interval = 2, !.timeout = 2]}
MCNatTimeouts == {Unset, 2}

\* Bounds: a request and the other frames of a session only on the first
\* connection; on the second one the server sends CONNECT_ACK, ERROR and
\* KICKED, and a read loop ends because the peer has gone.
Bounds ==
  \/ dialled' <= 1
  \/ /\ request' = 0
     /\ \A t \in frames' : t.kind \notin {"data", "close"}
     /\ ~\E c \in Connections : ReadEnd(c, "error")

HeartbeatUnused == hconfig = Adaptive /\ hloop = "off" /\ ~wake /\ silence = Unset
SessionUnused ==
  /\ state = "Disconnected" /\ call = Idle /\ dialled = 0
  /\ request = 0 /\ ~disconnect_requested

SessionStep == HeartbeatUnused /\ Next /\ Bounds /\ UNCHANGED heartbeatVars
HeartbeatStep == SessionUnused /\ HeartbeatNext /\ UNCHANGED vars

MCInit == Init /\ HeartbeatInit

MCSpec ==
  /\ MCInit
  /\ [][SessionStep \/ HeartbeatStep]_<<vars, heartbeatVars>>
  /\ Fairness
=============================================================================
