-------------------------- MODULE MCServerSession --------------------------
(* Instances of ServerSession.                                             *)
EXTENDS ServerSession, TLC

CONSTANTS Web

MCPlatforms == {Web}

Plain(kind) == [kind |-> kind, allowed |-> {}, groups |-> <<>>]

MCStrategies == {Plain("PlatformExclusive")}

Symmetry == Permutations(Conns)
=============================================================================
