------------------------- MODULE ConnectionManager -------------------------
(***************************************************************************)
(* The server's ConnectionManager (src/src/server/connection/manager/):    *)
(* the sharded connection table, the (tenant, user) -> connection ids       *)
(* index, the two atomic counters kept beside them, and the operations on   *)
(* them, interleaved at every point where the code releases a lock or       *)
(* touches an atomic outside one.                                           *)
(*                                                                          *)
(* A connection id is generated for each accepted connection and never      *)
(* used twice (server/transports/common.rs:33), so at any moment at most    *)
(* one operation is between two steps on it: phase[c] says where.           *)
(*                                                                          *)
(*   "new"        not offered to the manager yet                            *)
(*   "reserved"   add_connection_with_limit holds a slot, no entry yet      *)
(*   "indexing"   the entry is in the table, its shard lock is held and the *)
(*                user index entry is still to be inserted                  *)
(*   "live"       in the table, no lock held                                *)
(*   "uncounted"  entry removed, its slot not released yet                  *)
(*   "unindexed"  slot released, user index entry still there               *)
(*   "batched"    entry removed by cleanup, slot not released yet           *)
(*   "batch_unindexed"  cleanup released its slot, index entry still there  *)
(*   "gone"       left the manager, or refused at the limit                 *)
(*                                                                          *)
(* A connection's info is reduced to what these structures depend on: its   *)
(* user id, the tenant in its metadata and whether last_active is younger   *)
(* than the timeout.  The negotiated format and the authentication flag     *)
(* are not read by any step of this module.                                 *)
(***************************************************************************)
EXTENDS Integers, FiniteSets

CONSTANTS
  Conns,            \* connection ids
  Users,            \* user ids
  Tenants,          \* tenant ids
  DefaultTenant,    \* DEFAULT_TENANT_ID: the tenant of a connection without one
  None,             \* an absent Option: no user id, no tenant metadata
  MaxConnections,   \* config.max_connections
  Deaf              \* connections whose close never ends: the peer stopped reading

ASSUME ConnsFinite == IsFiniteSet(Conns)
ASSUME OwnersFinite == IsFiniteSet(Users) /\ IsFiniteSet(Tenants)
ASSUME DefaultTenantAssumption == DefaultTenant \in Tenants
ASSUME NoneAssumption ==
  None \notin Users \cup Tenants \cup Conns /\ None \notin Tenants \X Users
ASSUME LimitAssumption == MaxConnections \in Nat
ASSUME DeafAssumption == Deaf \subseteq Conns

VARIABLES
  phase,              \* [Conns -> Phases]
  user_id,            \* info.user_id
  tenant,             \* info.metadata[TENANT_ID_METADATA_KEY]
  active,             \* ~info.is_timeout(timeout)
  user_connections,   \* the user index: owner -> set of connection ids
  connection_count,   \* AtomicUsize
  user_count,         \* AtomicUsize
  cleanup             \* the heartbeat detector's cleanup_timeout_connections

vars == <<phase, user_id, tenant, active, user_connections,
          connection_count, user_count, cleanup>>

Owners == Tenants \X Users

Phases == {"new", "reserved", "indexing", "live", "uncounted", "unindexed",
           "batched", "batch_unindexed", "gone"}

\* The connections the connection shards hold an entry for.
Table == {c \in Conns : phase[c] \in {"indexing", "live"}}

---------------------------------------------------------------------------
(* Owners and the user index                                                *)

\* DeviceOwner::new: a missing tenant is the default tenant.
DeviceOwner(t, u) == <<IF t = None THEN DefaultTenant ELSE t, u>>

\* ConnectionInfo::owner: None as long as no user is bound.
OwnerOf(t, u) == IF u = None THEN None ELSE DeviceOwner(t, u)

Owner(c) == OwnerOf(tenant[c], user_id[c])

\* The owners that have an entry in the index.  The code drops an entry when
\* its last connection goes, so an owner without connections has none.
IndexedOwners == {o \in Owners : user_connections[o] # {}}

\* insert_user_connection_index: a new index, and whether the owner is new.
WithConnection(o, c) == [user_connections EXCEPT ![o] = @ \cup {c}]

IsNewUser(o) == user_connections[o] = {}

\* remove_user_connection_index: a new index, and whether the owner is gone.
WithoutConnection(o, c) == [user_connections EXCEPT ![o] = @ \ {c}]

LastConnectionOf(o, c) ==
  user_connections[o] # {} /\ user_connections[o] \ {c} = {}

---------------------------------------------------------------------------
Idle == [stage |-> "idle", todo |-> {}, timed_out |-> {}, users |-> 0]

Init ==
  /\ phase = [c \in Conns |-> "new"]
  /\ user_id = [c \in Conns |-> None]
  /\ tenant = [c \in Conns |-> None]
  /\ active = [c \in Conns |-> FALSE]
  /\ user_connections = [o \in Owners |-> {}]
  /\ connection_count = 0
  /\ user_count = 0
  /\ cleanup = Idle

---------------------------------------------------------------------------
(* add_connection_with_limit                                                *)

\* Mutant: the limit check is off by one.
ReserveConnectionSlot_OffByOne(c) ==
  /\ phase[c] = "new"
  /\ connection_count <= MaxConnections
  /\ connection_count' = connection_count + 1
  /\ phase' = [phase EXCEPT ![c] = "reserved"]
  /\ UNCHANGED <<user_id, tenant, active, user_connections, user_count, cleanup>>

\* The CAS loop: a load and a compare-exchange from the same value.
ReserveConnectionSlot(c) ==
  /\ phase[c] = "new"
  /\ connection_count < MaxConnections
  /\ connection_count' = connection_count + 1
  /\ phase' = [phase EXCEPT ![c] = "reserved"]
  /\ UNCHANGED <<user_id, tenant, active, user_connections, user_count, cleanup>>

\* "Connection limit exceeded": the caller drops the connection.
RefuseConnection(c) ==
  /\ phase[c] = "new"
  /\ connection_count >= MaxConnections
  /\ phase' = [phase EXCEPT ![c] = "gone"]
  /\ UNCHANGED <<user_id, tenant, active, user_connections,
                 connection_count, user_count, cleanup>>

\* Under the shard's write lock: the entry is inserted with the user the
\* caller passed, if any, and an empty metadata map.
InsertEntry(c, u) ==
  /\ phase[c] = "reserved"
  /\ phase' = [phase EXCEPT ![c] = IF u = None THEN "live" ELSE "indexing"]
  /\ user_id' = [user_id EXCEPT ![c] = u]
  /\ active' = [active EXCEPT ![c] = TRUE]
  /\ UNCHANGED <<tenant, user_connections, connection_count, user_count, cleanup>>

\* insert_user_connection: the index lock is taken while the shard lock is
\* held; the counter moves under the index lock.  Ends an insertion and a
\* reindex_user_connection.
InsertUserConnection(c) ==
  /\ phase[c] = "indexing"
  /\ user_connections' = WithConnection(Owner(c), c)
  /\ user_count' = user_count + (IF IsNewUser(Owner(c)) THEN 1 ELSE 0)
  /\ phase' = [phase EXCEPT ![c] = "live"]
  /\ UNCHANGED <<user_id, tenant, active, connection_count, cleanup>>

---------------------------------------------------------------------------
(* Operations that rebind a connection                                      *)

\* reindex_user_connection, its first half: the info has just been changed
\* to user u in tenant t; if that moves the connection to another owner it is
\* removed from the old key before it is inserted under the new one.
ReindexUserConnection(c, t, u) ==
  LET before == Owner(c)
      after  == OwnerOf(t, u)
  IN  /\ IF before # None /\ after # before
           THEN /\ user_connections' = WithoutConnection(before, c)
                /\ user_count' = user_count -
                     (IF LastConnectionOf(before, c) THEN 1 ELSE 0)
           ELSE UNCHANGED <<user_connections, user_count>>
      /\ phase' = [phase EXCEPT ![c] = IF after = None THEN "live" ELSE "indexing"]

\* bind_user
BindUser(c, u) ==
  /\ phase[c] = "live"
  /\ user_id' = [user_id EXCEPT ![c] = u]
  /\ ReindexUserConnection(c, tenant[c], u)
  /\ UNCHANGED <<tenant, active, connection_count, cleanup>>

\* Mutant: a missing user id unbinds the connection.
SetConnectionUser_Unbinds(c, u) ==
  /\ phase[c] = "live"
  /\ user_id' = [user_id EXCEPT ![c] = u]
  /\ ReindexUserConnection(c, tenant[c], u)
  /\ UNCHANGED <<tenant, active, connection_count, cleanup>>

\* set_connection_authenticated and update_connection_negotiation_with_pipeline:
\* without a user id the bound user is kept, and the index entry is only
\* (idempotently) ensured.
SetConnectionUser(c, u) ==
  LET bound == IF u = None THEN user_id[c] ELSE u
  IN  /\ phase[c] = "live"
      /\ user_id' = [user_id EXCEPT ![c] = bound]
      /\ ReindexUserConnection(c, tenant[c], bound)
      /\ UNCHANGED <<tenant, active, connection_count, cleanup>>

\* Mutant: the old owner is read after the metadata has been merged.
UpdateConnectionNegotiation_LateBefore(c, u, t) ==
  LET bound  == IF u = None THEN user_id[c] ELSE u
      merged == IF t = None THEN tenant[c] ELSE t
  IN  /\ phase[c] = "live"
      /\ user_id' = [user_id EXCEPT ![c] = bound]
      /\ tenant' = [tenant EXCEPT ![c] = merged]
      /\ phase' = [phase EXCEPT ![c] = IF bound = None THEN "live" ELSE "indexing"]
      /\ UNCHANGED <<active, user_connections, connection_count, user_count, cleanup>>

\* update_connection_negotiation: also merges the tenant metadata.
UpdateConnectionNegotiation(c, u, t) ==
  LET bound  == IF u = None THEN user_id[c] ELSE u
      merged == IF t = None THEN tenant[c] ELSE t
  IN  /\ phase[c] = "live"
      /\ user_id' = [user_id EXCEPT ![c] = bound]
      /\ tenant' = [tenant EXCEPT ![c] = merged]
      /\ ReindexUserConnection(c, merged, bound)
      /\ UNCHANGED <<active, connection_count, cleanup>>

---------------------------------------------------------------------------
(* Removal of one connection: ConnectionManager::remove_connection, and     *)
(* ConnectionRemovalRegistry::remove_connection called by a failed writer.  *)
(* They differ in the lock held meanwhile, which nobody can notice: the     *)
(* entry is gone, and an operation that finds none returns an error.        *)

RemoveConnection(c) ==
  /\ phase[c] = "live"
  /\ phase' = [phase EXCEPT ![c] = "uncounted"]
  /\ UNCHANGED <<user_id, tenant, active, user_connections,
                 connection_count, user_count, cleanup>>

\* The info of the connections in S is dropped with the last reference to it.
DropInfo(S) ==
  /\ user_id' = [c \in Conns |-> IF c \in S THEN None ELSE user_id[c]]
  /\ tenant' = [c \in Conns |-> IF c \in S THEN None ELSE tenant[c]]
  /\ active' = [c \in Conns |-> c \notin S /\ active[c]]

\* A removal whose connection has no owner ends with the release.
ReleaseConnectionSlot(c) ==
  /\ phase[c] = "uncounted"
  /\ connection_count' = connection_count - 1
  /\ phase' = [phase EXCEPT ![c] = IF user_id[c] = None THEN "gone" ELSE "unindexed"]
  /\ DropInfo(IF user_id[c] = None THEN {c} ELSE {})
  /\ UNCHANGED <<user_connections, user_count, cleanup>>

RemoveUserConnection(c) ==
  /\ phase[c] = "unindexed"
  /\ user_connections' = WithoutConnection(Owner(c), c)
  /\ user_count' = user_count - (IF LastConnectionOf(Owner(c), c) THEN 1 ELSE 0)
  /\ phase' = [phase EXCEPT ![c] = "gone"]
  /\ DropInfo({c})
  /\ UNCHANGED <<connection_count, cleanup>>

---------------------------------------------------------------------------
(* Activity and time                                                        *)

\* update_connection_active, update_connections_active
UpdateConnectionActive(c) ==
  /\ phase[c] = "live"
  /\ active' = [active EXCEPT ![c] = TRUE]
  /\ UNCHANGED <<phase, user_id, tenant, user_connections,
                 connection_count, user_count, cleanup>>

\* The clock: the timeout elapses for c.
TimeOut(c) ==
  /\ c \in Table
  /\ active[c]
  /\ active' = [active EXCEPT ![c] = FALSE]
  /\ UNCHANGED <<phase, user_id, tenant, user_connections,
                 connection_count, user_count, cleanup>>

---------------------------------------------------------------------------
(* cleanup_timeout_connections: scan every shard for timed-out connections; *)
(* lock and close each of them, which is awaited without a timeout and does *)
(* not end for a peer that does not read; remove those still there, shard   *)
(* by shard; release their slots at once; take them out of the index;       *)
(* subtract the emptied users at once.  One instance: the detector's loop   *)
(* awaits it.                                                               *)

CleanupStart ==
  /\ cleanup.stage = "idle"
  /\ cleanup' = [Idle EXCEPT !.stage = "scan", !.todo = Conns]
  /\ UNCHANGED <<phase, user_id, tenant, active, user_connections,
                 connection_count, user_count>>

\* Mutant: the timeout comparison is the wrong way round.
CleanupScan_Inverted(c) ==
  /\ cleanup.stage = "scan"
  /\ c \in cleanup.todo
  /\ phase[c] # "indexing"
  /\ cleanup' = [cleanup EXCEPT
                   !.todo = @ \ {c},
                   !.timed_out = IF phase[c] = "live" /\ active[c]
                                   THEN @ \cup {c} ELSE @]
  /\ UNCHANGED <<phase, user_id, tenant, active, user_connections,
                 connection_count, user_count>>

\* timeout_connection_snapshots: each shard is read under its own lock.
CleanupScan(c) ==
  /\ cleanup.stage = "scan"
  /\ c \in cleanup.todo
  /\ phase[c] # "indexing"
  /\ cleanup' = [cleanup EXCEPT
                   !.todo = @ \ {c},
                   !.timed_out = IF phase[c] = "live" /\ ~active[c]
                                   THEN @ \cup {c} ELSE @]
  /\ UNCHANGED <<phase, user_id, tenant, active, user_connections,
                 connection_count, user_count>>

\* The snapshot is complete: its connections are closed one after the other.
CleanupScanned ==
  /\ cleanup.stage = "scan"
  /\ cleanup.todo = {}
  /\ cleanup' = [cleanup EXCEPT !.stage = "close", !.todo = cleanup.timed_out]
  /\ UNCHANGED <<phase, user_id, tenant, active, user_connections,
                 connection_count, user_count>>

\* lock().await and close().await of one of them, in the order of the shards;
\* the connection behind the entry is WriteQueue's.
CleanupClose(c) ==
  /\ cleanup.stage = "close"
  /\ c \in cleanup.todo \ Deaf
  /\ cleanup' = [cleanup EXCEPT !.todo = @ \ {c}]
  /\ UNCHANGED <<phase, user_id, tenant, active, user_connections,
                 connection_count, user_count>>

\* The timed-out ids go to remove_connection_snapshots.
CleanupClosed ==
  /\ cleanup.stage = "close"
  /\ cleanup.todo = {}
  /\ cleanup' = [cleanup EXCEPT !.stage = "remove", !.todo = cleanup.timed_out,
                                !.timed_out = {}]
  /\ UNCHANGED <<phase, user_id, tenant, active, user_connections,
                 connection_count, user_count>>

\* remove_connection_snapshots, the loop body: by id, if it is still there.
CleanupRemove(c) ==
  /\ cleanup.stage = "remove"
  /\ c \in cleanup.todo
  /\ phase[c] # "indexing"
  /\ phase' = [phase EXCEPT ![c] = IF @ = "live" THEN "batched" ELSE @]
  /\ cleanup' = [cleanup EXCEPT !.todo = @ \ {c}]
  /\ UNCHANGED <<user_id, tenant, active, user_connections,
                 connection_count, user_count>>

Batched == {c \in Conns : phase[c] = "batched"}

\* fetch_sub(removed_ids.len()), after every shard has been visited.
CleanupRelease ==
  /\ cleanup.stage = "remove"
  /\ cleanup.todo = {}
  /\ connection_count' = connection_count - Cardinality(Batched)
  /\ phase' = [c \in Conns |->
                 IF phase[c] # "batched" THEN phase[c]
                 ELSE IF user_id[c] = None THEN "gone" ELSE "batch_unindexed"]
  /\ DropInfo({c \in Batched : user_id[c] = None})
  /\ cleanup' = [cleanup EXCEPT !.stage = "unindex"]
  /\ UNCHANGED <<user_connections, user_count>>

\* remove_user_connections_batch, the filter of one entry.
CleanupUnindex(c) ==
  /\ cleanup.stage = "unindex"
  /\ phase[c] = "batch_unindexed"
  /\ user_connections' = WithoutConnection(Owner(c), c)
  /\ cleanup' = [cleanup EXCEPT !.users =
                   @ + (IF LastConnectionOf(Owner(c), c) THEN 1 ELSE 0)]
  /\ phase' = [phase EXCEPT ![c] = "gone"]
  /\ DropInfo({c})
  /\ UNCHANGED <<connection_count, user_count>>

\* Mutant: the emptied users are not subtracted.
CleanupFinish_NoUserCount ==
  /\ cleanup.stage = "unindex"
  /\ \A c \in Conns : phase[c] # "batch_unindexed"
  /\ cleanup' = Idle
  /\ UNCHANGED <<phase, user_id, tenant, active, user_connections,
                 connection_count, user_count>>

\* fetch_sub(removed_users), after every index lock has been released.
CleanupFinish ==
  /\ cleanup.stage = "unindex"
  /\ \A c \in Conns : phase[c] # "batch_unindexed"
  /\ user_count' = user_count - cleanup.users
  /\ cleanup' = Idle
  /\ UNCHANGED <<phase, user_id, tenant, active, user_connections, connection_count>>

---------------------------------------------------------------------------
\* The steps that finish an operation already under way on c.
Progress(c) ==
  \/ InsertUserConnection(c)
  \/ ReleaseConnectionSlot(c)
  \/ RemoveUserConnection(c)

CleanupStep ==
  \/ CleanupStart
  \/ CleanupScanned
  \/ CleanupClosed
  \/ CleanupRelease
  \/ CleanupFinish
  \/ \E c \in Conns : \/ CleanupScan(c) \/ CleanupClose(c)
                      \/ CleanupRemove(c) \/ CleanupUnindex(c)

Rebind(c) ==
  \/ \E u \in Users : BindUser(c, u)
  \/ \E u \in Users \cup {None} : SetConnectionUser(c, u)
  \/ \E u \in Users \cup {None}, t \in Tenants \cup {None} :
       UpdateConnectionNegotiation(c, u, t)

Next ==
  \/ \E c \in Conns :
       \/ ReserveConnectionSlot(c)
       \/ RefuseConnection(c)
       \/ \E u \in Users \cup {None} : InsertEntry(c, u)
       \/ Rebind(c)
       \/ RemoveConnection(c)
       \/ UpdateConnectionActive(c)
       \/ TimeOut(c)
       \/ Progress(c)
  \/ CleanupStep

Spec == Init /\ [][Next]_vars

(***************************************************************************)
(* Fairness: an operation that has begun is a synchronous call that runs to *)
(* its end, and the detector's interval loop keeps calling cleanup, which   *)
(* goes on but for the close of a deaf connection.  Nothing forces a caller *)
(* to begin anything else.                                                  *)
(***************************************************************************)
Fairness ==
  /\ \A c \in Conns : WF_vars(Progress(c))
  /\ WF_vars(CleanupStart) /\ WF_vars(CleanupScanned) /\ WF_vars(CleanupClosed)
  /\ WF_vars(CleanupRelease) /\ WF_vars(CleanupFinish)
  /\ \A c \in Conns :
       /\ SF_vars(CleanupScan(c)) /\ WF_vars(CleanupClose(c))
       /\ SF_vars(CleanupRemove(c)) /\ WF_vars(CleanupUnindex(c))

FairSpec == Spec /\ Fairness

---------------------------------------------------------------------------
(* Correctness                                                              *)

\* Every variable stays in its range; in particular the counters, which are
\* usize and decremented without a check, never wrap below zero.
TypeOK ==
  /\ phase \in [Conns -> Phases]
  /\ user_id \in [Conns -> Users \cup {None}]
  /\ tenant \in [Conns -> Tenants \cup {None}]
  /\ active \in [Conns -> BOOLEAN]
  /\ user_connections \in [Owners -> SUBSET Conns]
  /\ connection_count \in Nat
  /\ user_count \in Nat
  /\ cleanup \in [stage : {"idle", "scan", "close", "remove", "unindex"},
                  todo : SUBSET Conns, timed_out : SUBSET Conns, users : Nat]

\* The connections whose slot is counted: from the reservation, before the
\* entry exists, to the release, after it has gone.
Slots == {c \in Conns :
            phase[c] \in {"reserved", "indexing", "live", "uncounted", "batched"}}

\* The connections with an entry in the user index, if a user is bound.
Indexed == {c \in Conns :
              phase[c] \in {"live", "uncounted", "unindexed", "batched", "batch_unindexed"}}

\* The slot counter is exact at every moment: nothing is counted twice when
\* two removers meet on one connection, and no failure path leaks a slot.
SlotsExact == connection_count = Cardinality(Slots)

\* The user counter runs ahead of the index only by what cleanup has taken
\* out of the index and not subtracted yet.
UsersExact == user_count = Cardinality(IndexedOwners) + cleanup.users

\* A connection is in the index under exactly the owner its info names, from
\* the insertion to the removal, whatever rebinding or removal is under way:
\* it is under no other owner ever, and missing only while the thread that
\* holds its shard lock is about to insert it.  This is tenant isolation for
\* get_user_connections: an id it returns never belongs to another tenant.
IndexExact ==
  \A c \in Conns, o \in Owners :
    /\ c \in user_connections[o] =>
         Owner(c) = o /\ (c \in Indexed \/ phase[c] = "indexing")
    /\ c \in Indexed /\ Owner(c) = o => c \in user_connections[o]

\* Phases only cleanup puts a connection in occur only while it runs, and a
\* connection whose index entry is outstanding has an owner.
PhaseOK ==
  /\ \A c \in Conns :
       /\ phase[c] = "batched" => cleanup.stage = "remove"
       /\ phase[c] = "batch_unindexed" => cleanup.stage = "unindex"
       /\ phase[c] \in {"indexing", "unindexed", "batch_unindexed"} => user_id[c] # None
       /\ phase[c] \in {"new", "reserved"} => user_id[c] = None /\ tenant[c] = None
  /\ cleanup.stage # "unindex" => cleanup.users = 0
  /\ connection_count <= MaxConnections

\* The inductive invariant.
Inv == TypeOK /\ SlotsExact /\ UsersExact /\ IndexExact /\ PhaseOK

\* The admission limit holds for the table itself, although the counter it is
\* checked against is an atomic outside the table's locks: a slot is counted
\* before its entry exists and until after it has gone.
WithinLimit ==
  /\ Cardinality(Table) <= connection_count
  /\ connection_count <= MaxConnections

\* Once nothing is under way, the counters and the index say exactly what
\* the table says: stats() is right and no ghost entry has been left behind.
AtRest ==
  (cleanup.stage = "idle" /\ \A c \in Conns : phase[c] \in {"new", "live", "gone"})
    => /\ connection_count = Cardinality(Table)
       /\ user_count = Cardinality({Owner(c) : c \in {d \in Table : user_id[d] # None}})
       /\ \A o \in Owners : user_connections[o] = {c \in Table : Owner(c) = o}

\* The detector waits for the close of a connection that never ends, and will
\* never remove anything again.
Stuck == cleanup.stage = "close" /\ cleanup.todo \cap Deaf # {}

\* A connection that stays timed out is eventually removed by the detector,
\* unless a timed-out peer that does not read has brought the detector to a
\* stop: its pass closes before it removes, and no close has a timeout.  That
\* is the only thing that stops it; rebinding, logins and removals beside a
\* pass, and a connection refreshed after the scan, do not.
TimedOutRemoved ==
  \A c \in Conns :
    (phase[c] = "live" /\ ~active[c]) ~> (active[c] \/ phase[c] # "live" \/ Stuck)

\* A removal that has begun ends with the slot free and the index clean.
RemovalCompletes ==
  \A c \in Conns :
    phase[c] \in {"uncounted", "unindexed", "batched", "batch_unindexed"} ~> phase[c] = "gone"

\* The manager implements the bounded registry: entries appear and go
\* atomically, never above the limit, and an id that has left stays out.
Registry == INSTANCE BoundedRegistry WITH
  live <- Table,
  past <- {c \in Conns : phase[c] \notin {"new", "reserved", "indexing", "live"}},
  owner <- [c \in Conns |-> IF c \in Table THEN Owner(c) ELSE None],
  NoOwner <- None

ImplementsRegistry == Registry!Spec
=============================================================================
