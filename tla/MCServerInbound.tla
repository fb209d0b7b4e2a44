-------------------------- MODULE MCServerInbound --------------------------
(* ServerInbound with one connection, its client and its application.      *)
EXTENDS ServerInbound, TLC

MCPlatforms == {}
MCStrategies == {[kind |-> "PlatformExclusive", allowed |-> {}, groups |-> <<>>]}
=============================================================================
