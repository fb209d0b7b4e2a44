------------------------ MODULE MCConnectionManager ------------------------
(* ConnectionManager for TLC: three connections competing for two slots.    *)
EXTENDS ConnectionManager, TLC

\* Connections are interchangeable; users and tenants are not.
Symmetry == Permutations(Conns)
=============================================================================
