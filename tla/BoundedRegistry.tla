-------------------------- MODULE BoundedRegistry --------------------------
(***************************************************************************)
(* What the server's connection manager promises to the layers above it:   *)
(* a registry of live connections, never more than MaxConnections of them, *)
(* in which each live connection belongs to at most one (tenant, user) and *)
(* leaves for good.  Every step is atomic here; ConnectionManager, whose    *)
(* operations are interleaved at the granularity of its shard locks and     *)
(* atomic counters, implements this specification (its property             *)
(* ImplementsRegistry).                                                     *)
(***************************************************************************)
EXTENDS Naturals, FiniteSets

CONSTANTS
  Conns,           \* connection ids (generated, never used twice)
  Owners,          \* (tenant, user) pairs a connection can belong to
  NoOwner,         \* the owner of a connection with no user bound
  MaxConnections   \* config.max_connections

VARIABLES
  live,    \* the connections in the registry
  past,    \* the connections that have left it, or were refused
  owner    \* [Conns -> Owners \cup {NoOwner}]

vars == <<live, past, owner>>

Init ==
  /\ live = {}
  /\ past = {}
  /\ owner = [c \in Conns |-> NoOwner]

Admit(c, o) ==
  /\ c \notin live \cup past
  /\ Cardinality(live) < MaxConnections
  /\ live' = live \cup {c}
  /\ owner' = [owner EXCEPT ![c] = o]
  /\ UNCHANGED past

Refuse(c) ==
  /\ c \notin live \cup past
  /\ past' = past \cup {c}
  /\ UNCHANGED <<live, owner>>

\* A bound connection may move to another owner, but is never unbound.
Bind(c, o) ==
  /\ c \in live
  /\ o \in Owners
  /\ owner' = [owner EXCEPT ![c] = o]
  /\ UNCHANGED <<live, past>>

Leave(c) ==
  /\ c \in live
  /\ live' = live \ {c}
  /\ past' = past \cup {c}
  /\ owner' = [owner EXCEPT ![c] = NoOwner]

Next ==
  \E c \in Conns :
    \/ \E o \in Owners \cup {NoOwner} : Admit(c, o) \/ Bind(c, o)
    \/ Refuse(c)
    \/ Leave(c)

Spec == Init /\ [][Next]_vars
=============================================================================
