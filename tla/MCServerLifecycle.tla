------------------------- MODULE MCServerLifecycle -------------------------
(* Two transport servers, started twice, and two connections to the second *)
(* of them or one to the first.                                            *)
EXTENDS ServerLifecycle

CONSTANTS c1, c2

MCServers == <<"websocket", "quic">>
MCRoutes ==
  {[c \in {c1, c2} |-> "quic"],
   [c \in {c1, c2} |-> IF c = c1 THEN "websocket" ELSE "nobody"]}
=============================================================================
