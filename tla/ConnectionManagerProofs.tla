---------------------- MODULE ConnectionManagerProofs ----------------------
(***************************************************************************)
(* Proofs about ConnectionManager, and about Delivery, which extends it,    *)
(* for any finite sets of connections, users and tenants and any connection *)
(* limit.  The manager comes first and stands on its own.                   *)
(***************************************************************************)
EXTENDS Delivery, FiniteSetTheorems, TLAPS

---------------------------------------------------------------------------
(* Facts about owners, slots and the index                                  *)

\* A bound connection belongs to a (tenant, user); an unbound one to nobody.
LEMMA OwnerType ==
  ASSUME NEW t \in Tenants \cup {None}, NEW u \in Users \cup {None}
  PROVE  /\ u # None => OwnerOf(t, u) \in Owners
         /\ u = None => OwnerOf(t, u) = None
         /\ None \notin Owners
BY DefaultTenantAssumption, NoneAssumption DEF OwnerOf, DeviceOwner, Owners

\* ... so no (tenant, user) owns an unbound connection, before or after a step.
LEMMA OwnerUnbound ==
  \A c \in Conns : user_id[c] = None => Owner(c) \notin Owners
BY NoneAssumption DEF Owner, OwnerOf, Owners

\* ... the same after the step.
LEMMA OwnerUnboundNext ==
  ASSUME NEW c \in Conns, user_id[c]' = None
  PROVE  Owner(c)' \notin Owners
BY NoneAssumption DEF Owner, OwnerOf, Owners

\* Slots, the table and the indexed owners are finite sets.
LEMMA Finiteness ==
  /\ IsFiniteSet(Slots) /\ Cardinality(Slots) \in Nat
  /\ IsFiniteSet(Table) /\ Cardinality(Table) \in Nat
  /\ IsFiniteSet(Batched) /\ Cardinality(Batched) \in Nat
  /\ IsFiniteSet(IndexedOwners) /\ Cardinality(IndexedOwners) \in Nat
<1>1. Slots \in SUBSET Conns /\ Table \in SUBSET Conns /\ Batched \in SUBSET Conns
  BY DEF Slots, Table, Batched
<1>2. IsFiniteSet(Owners) /\ IndexedOwners \in SUBSET Owners
  BY OwnersFinite, FS_Product DEF Owners, IndexedOwners
<1>3. IsFiniteSet(Slots) /\ IsFiniteSet(Table) /\ IsFiniteSet(Batched)
  BY <1>1, ConnsFinite, FS_Subset
<1>4. IsFiniteSet(IndexedOwners)
  BY <1>2, FS_Subset
<1> QED
  BY <1>3, <1>4, FS_CardinalityType

\* insert_user_connection_index keeps the number of owners in step with the
\* counter: it grows by one exactly when the owner had no entry.
LEMMA InsertIndex ==
  ASSUME user_connections \in [Owners -> SUBSET Conns],
         NEW c \in Conns, NEW o \in Owners,
         user_connections' = WithConnection(o, c)
  PROVE  /\ user_connections' \in [Owners -> SUBSET Conns]
         /\ Cardinality(IndexedOwners') =
              Cardinality(IndexedOwners) + (IF IsNewUser(o) THEN 1 ELSE 0)
<1>1. user_connections' \in [Owners -> SUBSET Conns]
  BY DEF WithConnection
<1>2. IndexedOwners' = IndexedOwners \cup {o}
  BY DEF WithConnection, IndexedOwners
<1>3. o \in IndexedOwners <=> ~IsNewUser(o)
  BY DEF IndexedOwners, IsNewUser
<1>4. Cardinality(IndexedOwners \cup {o}) =
        IF o \in IndexedOwners THEN Cardinality(IndexedOwners)
        ELSE Cardinality(IndexedOwners) + 1
  BY Finiteness, FS_AddElement
<1> QED
  BY <1>1, <1>2, <1>3, <1>4, Finiteness

\* remove_user_connection_index: it shrinks by one exactly when the removed
\* connection was the owner's last.
LEMMA RemoveIndex ==
  ASSUME user_connections \in [Owners -> SUBSET Conns],
         NEW c \in Conns, NEW o \in Owners,
         user_connections' = WithoutConnection(o, c)
  PROVE  /\ user_connections' \in [Owners -> SUBSET Conns]
         /\ Cardinality(IndexedOwners') =
              Cardinality(IndexedOwners) - (IF LastConnectionOf(o, c) THEN 1 ELSE 0)
<1>1. user_connections' \in [Owners -> SUBSET Conns]
  BY DEF WithoutConnection
<1>2. CASE LastConnectionOf(o, c)
  <2>1. IndexedOwners' = IndexedOwners \ {o} /\ o \in IndexedOwners
    BY <1>2 DEF WithoutConnection, IndexedOwners, LastConnectionOf
  <2>2. Cardinality(IndexedOwners \ {o}) = Cardinality(IndexedOwners) - 1
    BY <2>1, Finiteness, FS_RemoveElement
  <2> QED
    BY <1>1, <1>2, <2>1, <2>2
<1>3. CASE ~LastConnectionOf(o, c)
  <2>1. IndexedOwners' = IndexedOwners
    BY <1>3 DEF WithoutConnection, IndexedOwners, LastConnectionOf
  <2> QED
    BY <1>1, <1>3, <2>1, Finiteness
<1> QED
  BY <1>2, <1>3

\* The counters are naturals as soon as they equal cardinalities.
LEMMA CountersNat ==
  ASSUME SlotsExact, UsersExact, cleanup.users \in Nat
  PROVE  connection_count \in Nat /\ user_count \in Nat
BY Finiteness DEF SlotsExact, UsersExact

\* TypeOK without the counters, which follow from the exact counts.
Shape ==
  /\ phase \in [Conns -> Phases]
  /\ user_id \in [Conns -> Users \cup {None}]
  /\ tenant \in [Conns -> Tenants \cup {None}]
  /\ active \in [Conns -> BOOLEAN]
  /\ user_connections \in [Owners -> SUBSET Conns]
  /\ cleanup \in [stage : {"idle", "scan", "close", "remove", "unindex"},
                  todo : SUBSET Conns, timed_out : SUBSET Conns, users : Nat]

\* What has to be shown of a step.
LEMMA InvFromParts ==
  ASSUME Shape, SlotsExact, UsersExact, IndexExact, PhaseOK
  PROVE  Inv
BY CountersNat DEF Shape, Inv, TypeOK

---------------------------------------------------------------------------
(* Adding a connection                                                      *)

\* A reserved slot is a new slot; nothing else changes.
LEMMA ReserveConnectionSlotStep ==
  ASSUME Inv, NEW c \in Conns, ReserveConnectionSlot(c)
  PROVE  Inv'
<1> USE DEF Inv, TypeOK, ReserveConnectionSlot
<1>1. Shape'
  BY DEF Shape, Phases
<1>2. SlotsExact'
  <2>1. Slots' = Slots \cup {c} /\ c \notin Slots
    BY DEF Slots
  <2> QED
    BY <2>1, Finiteness, FS_AddElement DEF SlotsExact
<1>3. UsersExact'
  BY DEF UsersExact, IndexedOwners
<1>4. IndexExact'
  BY DEF IndexExact, Indexed, Owner
<1>5. PhaseOK'
  BY LimitAssumption DEF PhaseOK
<1> QED
  BY <1>1, <1>2, <1>3, <1>4, <1>5, InvFromParts, PTL

\* A refused add gives its slot back.
LEMMA RefuseConnectionStep ==
  ASSUME Inv, NEW c \in Conns, RefuseConnection(c)
  PROVE  Inv'
<1> USE DEF Inv, TypeOK, RefuseConnection
<1>1. Shape'
  BY DEF Shape, Phases
<1>2. SlotsExact'
  <2>1. Slots' = Slots
    BY DEF Slots
  <2> QED
    BY <2>1 DEF SlotsExact
<1>3. UsersExact'
  BY DEF UsersExact, IndexedOwners
<1>4. IndexExact'
  BY DEF IndexExact, Indexed, Owner
<1>5. PhaseOK'
  BY DEF PhaseOK
<1> QED
  BY <1>1, <1>2, <1>3, <1>4, <1>5, InvFromParts, PTL

\* The entry is new, so it is in no index entry; a user makes it "indexing".
LEMMA InsertEntryStep ==
  ASSUME Inv, NEW c \in Conns, NEW u \in Users \cup {None}, InsertEntry(c, u)
  PROVE  Inv'
<1> USE DEF Inv, TypeOK, InsertEntry
<1>1. Shape'
  BY DEF Shape, Phases
<1>2. SlotsExact'
  <2>1. Slots' = Slots
    BY DEF Slots
  <2> QED
    BY <2>1 DEF SlotsExact
<1>3. UsersExact'
  BY DEF UsersExact, IndexedOwners
<1>4. IndexExact'
  <2>1. \A o \in Owners : c \notin user_connections[o]
    BY DEF IndexExact, Indexed
  <2>2. u = None => OwnerOf(tenant[c], u) \notin Owners
    BY OwnerType
  <2> QED
    BY <2>1, <2>2 DEF IndexExact, Indexed, Owner
<1>5. PhaseOK'
  BY DEF PhaseOK
<1> QED
  BY <1>1, <1>2, <1>3, <1>4, <1>5, InvFromParts, PTL

\* The outstanding index entry is inserted under the connection's own owner.
LEMMA InsertUserConnectionStep ==
  ASSUME Inv, NEW c \in Conns, InsertUserConnection(c)
  PROVE  Inv'
<1> USE DEF Inv, TypeOK, InsertUserConnection
<1>0. Owner(c) \in Owners
  BY OwnerType DEF Owner, PhaseOK
<1>1. Shape'
  BY <1>0, InsertIndex DEF Shape, Phases
<1>2. SlotsExact'
  <2>1. Slots' = Slots
    BY DEF Slots
  <2> QED
    BY <2>1 DEF SlotsExact
<1>3. UsersExact'
  BY <1>0, InsertIndex, Finiteness DEF UsersExact
<1>4. IndexExact'
  BY <1>0 DEF IndexExact, Indexed, Owner, WithConnection
<1>5. PhaseOK'
  BY DEF PhaseOK
<1> QED
  BY <1>1, <1>2, <1>3, <1>4, <1>5, InvFromParts, PTL

---------------------------------------------------------------------------
(* Rebinding                                                                *)

\* The first half of reindex_user_connection, for a live connection that
\* gets user u in tenant t: the index loses the old owner's entry if the
\* owner changes, and gains nothing.
LEMMA ReindexStep ==
  ASSUME Inv, NEW c \in Conns, phase[c] = "live",
         NEW t \in Tenants \cup {None}, NEW u \in Users \cup {None},
         user_id[c] # None => u # None,
         user_id' = [user_id EXCEPT ![c] = u],
         tenant' = [tenant EXCEPT ![c] = t],
         ReindexUserConnection(c, t, u),
         UNCHANGED <<active, connection_count, cleanup>>
  PROVE  Inv'
<1> USE DEF Inv, TypeOK
<1> DEFINE before == Owner(c)
           after == OwnerOf(t, u)
<1>a. /\ before # None => before \in Owners
      /\ after # None => after \in Owners
      /\ None \notin Owners
      /\ after = None => u = None
      /\ before = None => user_id[c] = None
      /\ user_id[c] = None => before = None
      /\ u = None => after = None
  BY OwnerType, NoneAssumption DEF Owner
<1>b. /\ Owner(c)' = after
      /\ \A d \in Conns \ {c} : Owner(d)' = Owner(d)
  BY DEF Owner
<1>c. phase' = [phase EXCEPT ![c] = IF after = None THEN "live" ELSE "indexing"]
  BY DEF ReindexUserConnection
<1> HIDE DEF before, after
<1>1. Shape'
  <2>1. CASE before # None /\ after # before
    BY <1>a, <1>c, <2>1, RemoveIndex DEF Shape, Phases, ReindexUserConnection, before, after
  <2>2. CASE ~(before # None /\ after # before)
    BY <1>a, <1>c, <2>2 DEF Shape, Phases, ReindexUserConnection, before, after
  <2> QED
    BY <2>1, <2>2
<1>2. SlotsExact'
  <2>1. Slots' = Slots
    BY <1>c DEF Slots
  <2> QED
    BY <2>1 DEF SlotsExact
<1>3. UsersExact'
  <2>1. CASE before # None /\ after # before
    BY <1>a, <2>1, RemoveIndex, Finiteness
       DEF UsersExact, ReindexUserConnection, before, after
  <2>2. CASE ~(before # None /\ after # before)
    <3>1. UNCHANGED <<user_connections, user_count, cleanup>>
      BY <2>2 DEF ReindexUserConnection, before, after
    <3> QED
      BY <3>1 DEF UsersExact, IndexedOwners
  <2> QED
    BY <2>1, <2>2
<1>4. IndexExact'
  <2>1. \A d \in Conns \ {c}, o \in Owners :
          d \in user_connections'[o] <=> d \in user_connections[o]
    <3>1. CASE before # None /\ after # before
      BY <3>1 DEF ReindexUserConnection, WithoutConnection, before, after
    <3>2. CASE ~(before # None /\ after # before)
      BY <3>2 DEF ReindexUserConnection, before, after
    <3> QED
      BY <3>1, <3>2
  <2>2. \A o \in Owners : c \in user_connections'[o] => o = after /\ after # None
    <3>1. CASE before # None /\ after # before
      BY <1>a, <3>1 DEF ReindexUserConnection, WithoutConnection, before, after, IndexExact
    <3>2. CASE ~(before # None /\ after # before)
      BY <1>a, <3>2 DEF ReindexUserConnection, before, after, IndexExact
    <3> QED
      BY <3>1, <3>2
  <2>3. after = None => \A o \in Owners : Owner(c)' # o
    BY <1>a, <1>b
  <2> QED
    BY <1>a, <1>b, <1>c, <2>1, <2>2, <2>3 DEF IndexExact, Indexed
<1>5. PhaseOK'
  BY <1>a, <1>c DEF PhaseOK
<1> QED
  BY <1>1, <1>2, <1>3, <1>4, <1>5, InvFromParts, PTL

\* The three ways to bind a connection to a user.
LEMMA RebindStep ==
  ASSUME Inv, NEW c \in Conns, Rebind(c)
  PROVE  Inv'
<1> USE DEF Inv, TypeOK
<1>1. CASE \E u \in Users : BindUser(c, u)
  <2>1. PICK u \in Users : BindUser(c, u)
    BY <1>1
  <2>2. tenant' = [tenant EXCEPT ![c] = tenant[c]]
    BY <2>1 DEF BindUser
  <2>3. ReindexUserConnection(c, tenant[c], u) /\ u # None
    BY <2>1, NoneAssumption DEF BindUser
  <2> QED
    BY <2>1, <2>2, <2>3, ReindexStep DEF BindUser
<1>2. CASE \E u \in Users \cup {None} : SetConnectionUser(c, u)
  <2>1. PICK u \in Users \cup {None} : SetConnectionUser(c, u)
    BY <1>2
  <2> DEFINE bound == IF u = None THEN user_id[c] ELSE u
  <2>2. /\ tenant' = [tenant EXCEPT ![c] = tenant[c]]
        /\ bound \in Users \cup {None}
        /\ user_id[c] # None => bound # None
        /\ user_id' = [user_id EXCEPT ![c] = bound]
        /\ ReindexUserConnection(c, tenant[c], bound)
    BY <2>1 DEF SetConnectionUser
  <2> HIDE DEF bound
  <2> QED
    BY <2>1, <2>2, ReindexStep DEF SetConnectionUser
<1>3. CASE \E u \in Users \cup {None}, t \in Tenants \cup {None} :
              UpdateConnectionNegotiation(c, u, t)
  <2>1. PICK u \in Users \cup {None}, t \in Tenants \cup {None} :
               UpdateConnectionNegotiation(c, u, t)
    BY <1>3
  <2> DEFINE bound == IF u = None THEN user_id[c] ELSE u
             merged == IF t = None THEN tenant[c] ELSE t
  <2>2. /\ tenant' = [tenant EXCEPT ![c] = merged]
        /\ merged \in Tenants \cup {None}
        /\ bound \in Users \cup {None}
        /\ user_id[c] # None => bound # None
        /\ user_id' = [user_id EXCEPT ![c] = bound]
        /\ ReindexUserConnection(c, merged, bound)
    BY <2>1 DEF UpdateConnectionNegotiation
  <2> HIDE DEF bound, merged
  <2> QED
    BY <2>1, <2>2, ReindexStep DEF UpdateConnectionNegotiation
<1> QED
  BY <1>1, <1>2, <1>3 DEF Rebind

---------------------------------------------------------------------------
(* Removal, activity and time                                               *)

\* The entry goes first: slot and index entry are still there.
LEMMA RemoveConnectionStep ==
  ASSUME Inv, NEW c \in Conns, RemoveConnection(c)
  PROVE  Inv'
<1> USE DEF Inv, TypeOK, RemoveConnection
<1>1. Shape'
  BY DEF Shape, Phases
<1>2. SlotsExact'
  <2>1. Slots' = Slots
    BY DEF Slots
  <2> QED
    BY <2>1 DEF SlotsExact
<1>3. UsersExact'
  BY DEF UsersExact, IndexedOwners
<1>4. IndexExact'
  BY DEF IndexExact, Indexed, Owner
<1>5. PhaseOK'
  BY DEF PhaseOK
<1> QED
  BY <1>1, <1>2, <1>3, <1>4, <1>5, InvFromParts, PTL

\* The slot is released; a connection without owner is in no index entry.
LEMMA ReleaseConnectionSlotStep ==
  ASSUME Inv, NEW c \in Conns, ReleaseConnectionSlot(c)
  PROVE  Inv'
<1> USE DEF Inv, TypeOK, ReleaseConnectionSlot, DropInfo
<1>1. Shape'
  BY DEF Shape, Phases
<1>2. SlotsExact'
  <2>1. Slots' = Slots \ {c} /\ c \in Slots
    BY DEF Slots
  <2> QED
    BY <2>1, Finiteness, FS_RemoveElement DEF SlotsExact
<1>3. UsersExact'
  BY DEF UsersExact, IndexedOwners
<1>4. IndexExact'
  <2>1. user_id[c] = None => \A o \in Owners : c \notin user_connections[o]
    BY OwnerUnbound DEF IndexExact
  <2>2. \A d \in Conns : d # c \/ user_id[c] # None => Owner(d)' = Owner(d)
    BY DEF Owner
  <2> QED
    BY <2>1, <2>2 DEF IndexExact, Indexed
<1>5. PhaseOK'
  BY LimitAssumption, Finiteness DEF PhaseOK, SlotsExact
<1> QED
  BY <1>1, <1>2, <1>3, <1>4, <1>5, InvFromParts, PTL

\* The index entry goes last, under the owner the removed info names.
LEMMA RemoveUserConnectionStep ==
  ASSUME Inv, NEW c \in Conns, RemoveUserConnection(c)
  PROVE  Inv'
<1> USE DEF Inv, TypeOK, RemoveUserConnection, DropInfo
<1>0. Owner(c) \in Owners
  BY OwnerType DEF Owner, PhaseOK
<1>1. Shape'
  BY <1>0, RemoveIndex DEF Shape, Phases
<1>2. SlotsExact'
  <2>1. Slots' = Slots
    BY DEF Slots
  <2> QED
    BY <2>1 DEF SlotsExact
<1>3. UsersExact'
  BY <1>0, RemoveIndex, Finiteness DEF UsersExact
<1>4. IndexExact'
  <2>1. \A d \in Conns \ {c} : Owner(d)' = Owner(d)
    BY DEF Owner
  <2> QED
    BY <1>0, <2>1 DEF IndexExact, Indexed, WithoutConnection
<1>5. PhaseOK'
  BY DEF PhaseOK
<1> QED
  BY <1>1, <1>2, <1>3, <1>4, <1>5, InvFromParts, PTL

\* Activity is no part of the invariant beyond its type.
LEMMA UpdateConnectionActiveStep ==
  ASSUME Inv, NEW c \in Conns, UpdateConnectionActive(c)
  PROVE  Inv'
<1> USE DEF Inv, TypeOK, UpdateConnectionActive
<1>1. Shape'
  BY DEF Shape, Phases
<1>2. SlotsExact'
  <2>1. Slots' = Slots
    BY DEF Slots
  <2> QED
    BY <2>1 DEF SlotsExact
<1>3. UsersExact'
  BY DEF UsersExact, IndexedOwners
<1>4. IndexExact'
  BY DEF IndexExact, Indexed, Owner
<1>5. PhaseOK'
  BY DEF PhaseOK
<1> QED
  BY <1>1, <1>2, <1>3, <1>4, <1>5, InvFromParts, PTL

\* Nor is the passing of time.
LEMMA TimeOutStep ==
  ASSUME Inv, NEW c \in Conns, TimeOut(c)
  PROVE  Inv'
<1> USE DEF Inv, TypeOK, TimeOut, Table
<1>1. Shape'
  BY DEF Shape, Phases
<1>2. SlotsExact'
  <2>1. Slots' = Slots
    BY DEF Slots
  <2> QED
    BY <2>1 DEF SlotsExact
<1>3. UsersExact'
  BY DEF UsersExact, IndexedOwners
<1>4. IndexExact'
  BY DEF IndexExact, Indexed, Owner
<1>5. PhaseOK'
  BY DEF PhaseOK
<1> QED
  BY <1>1, <1>2, <1>3, <1>4, <1>5, InvFromParts, PTL

---------------------------------------------------------------------------
(* cleanup_timeout_connections                                              *)

\* The scan starts with every shard to visit.
LEMMA CleanupStartStep ==
  ASSUME Inv, CleanupStart
  PROVE  Inv'
<1> USE DEF Inv, TypeOK, CleanupStart, Idle
<1>1. Shape'
  BY DEF Shape, Phases
<1>2. SlotsExact'
  <2>1. Slots' = Slots
    BY DEF Slots
  <2> QED
    BY <2>1 DEF SlotsExact
<1>3. UsersExact'
  <2>1. IndexedOwners' = IndexedOwners /\ cleanup.users = 0 /\ cleanup'.users = 0
    BY DEF IndexedOwners, PhaseOK
  <2> QED
    BY <2>1 DEF UsersExact
<1>4. IndexExact'
  BY DEF IndexExact, Indexed, Owner
<1>5. PhaseOK'
  BY DEF PhaseOK
<1> QED
  BY <1>1, <1>2, <1>3, <1>4, <1>5, InvFromParts, PTL

\* The scan only reads the table.
LEMMA CleanupScanStep ==
  ASSUME Inv, NEW c \in Conns, CleanupScan(c)
  PROVE  Inv'
<1> USE DEF Inv, TypeOK, CleanupScan
<1>1. Shape'
  BY DEF Shape, Phases
<1>2. SlotsExact'
  <2>1. Slots' = Slots
    BY DEF Slots
  <2> QED
    BY <2>1 DEF SlotsExact
<1>3. UsersExact'
  <2>1. IndexedOwners' = IndexedOwners /\ cleanup'.users = cleanup.users
    BY DEF IndexedOwners
  <2> QED
    BY <2>1 DEF UsersExact
<1>4. IndexExact'
  BY DEF IndexExact, Indexed, Owner
<1>5. PhaseOK'
  BY DEF PhaseOK
<1> QED
  BY <1>1, <1>2, <1>3, <1>4, <1>5, InvFromParts, PTL

\* What was found is closed first.
LEMMA CleanupScannedStep ==
  ASSUME Inv, CleanupScanned
  PROVE  Inv'
<1> USE DEF Inv, TypeOK, CleanupScanned
<1>1. Shape'
  BY DEF Shape, Phases
<1>2. SlotsExact'
  <2>1. Slots' = Slots
    BY DEF Slots
  <2> QED
    BY <2>1 DEF SlotsExact
<1>3. UsersExact'
  BY DEF UsersExact, IndexedOwners
<1>4. IndexExact'
  BY DEF IndexExact, Indexed, Owner
<1>5. PhaseOK'
  BY DEF PhaseOK
<1> QED
  BY <1>1, <1>2, <1>3, <1>4, <1>5, InvFromParts, PTL

\* A close touches neither the table nor the counters.
LEMMA CleanupCloseStep ==
  ASSUME Inv, NEW c \in Conns, CleanupClose(c)
  PROVE  Inv'
<1> USE DEF Inv, TypeOK, CleanupClose
<1>1. Shape'
  BY DEF Shape, Phases
<1>2. SlotsExact'
  <2>1. Slots' = Slots
    BY DEF Slots
  <2> QED
    BY <2>1 DEF SlotsExact
<1>3. UsersExact'
  <2>1. IndexedOwners' = IndexedOwners /\ cleanup'.users = cleanup.users
    BY DEF IndexedOwners
  <2> QED
    BY <2>1 DEF UsersExact
<1>4. IndexExact'
  BY DEF IndexExact, Indexed, Owner
<1>5. PhaseOK'
  BY DEF PhaseOK
<1> QED
  BY <1>1, <1>2, <1>3, <1>4, <1>5, InvFromParts, PTL

\* What was found is handed to the removal.
LEMMA CleanupClosedStep ==
  ASSUME Inv, CleanupClosed
  PROVE  Inv'
<1> USE DEF Inv, TypeOK, CleanupClosed
<1>1. Shape'
  BY DEF Shape, Phases
<1>2. SlotsExact'
  <2>1. Slots' = Slots
    BY DEF Slots
  <2> QED
    BY <2>1 DEF SlotsExact
<1>3. UsersExact'
  BY DEF UsersExact, IndexedOwners
<1>4. IndexExact'
  BY DEF IndexExact, Indexed, Owner
<1>5. PhaseOK'
  BY DEF PhaseOK
<1> QED
  BY <1>1, <1>2, <1>3, <1>4, <1>5, InvFromParts, PTL

\* A batched connection keeps its slot and its index entry.
LEMMA CleanupRemoveStep ==
  ASSUME Inv, NEW c \in Conns, CleanupRemove(c)
  PROVE  Inv'
<1> USE DEF Inv, TypeOK, CleanupRemove
<1>1. Shape'
  BY DEF Shape, Phases
<1>2. SlotsExact'
  <2>1. Slots' = Slots
    BY DEF Slots
  <2> QED
    BY <2>1 DEF SlotsExact
<1>3. UsersExact'
  BY DEF UsersExact, IndexedOwners
<1>4. IndexExact'
  BY DEF IndexExact, Indexed, Owner
<1>5. PhaseOK'
  BY DEF PhaseOK
<1> QED
  BY <1>1, <1>2, <1>3, <1>4, <1>5, InvFromParts, PTL

\* All batched slots are released by one subtraction.
LEMMA CleanupReleaseStep ==
  ASSUME Inv, CleanupRelease
  PROVE  Inv'
<1> USE DEF Inv, TypeOK, CleanupRelease, DropInfo, Batched
<1>1. Shape'
  BY DEF Shape, Phases
<1>2. SlotsExact'
  <2>1. Slots' = Slots \ Batched /\ Batched = Slots \cap Batched
    BY DEF Slots
  <2>2. Cardinality(Slots \ Batched) = Cardinality(Slots) - Cardinality(Slots \cap Batched)
    BY Finiteness, FS_Difference
  <2>3. Cardinality(Slots') = Cardinality(Slots) - Cardinality(Batched)
    BY <2>1, <2>2
  <2> QED
    BY <2>3 DEF SlotsExact
<1>3. UsersExact'
  BY DEF UsersExact, IndexedOwners
<1>4. IndexExact'
  <2>1. \A d \in Conns : user_id[d] = None => \A o \in Owners : d \notin user_connections[o]
    BY OwnerUnbound DEF IndexExact
  <2>2. \A d \in Conns : user_id[d] # None => Owner(d)' = Owner(d)
    BY DEF Owner
  <2>5. \A d \in Conns : user_id[d] = None => Owner(d)' \notin Owners
    BY OwnerUnboundNext
  <2> QED
    BY <2>1, <2>2, <2>5 DEF IndexExact, Indexed
<1>5. PhaseOK'
  <2>1. connection_count' <= MaxConnections
    BY Finiteness, LimitAssumption DEF PhaseOK
  <2> QED
    BY <2>1 DEF PhaseOK
<1> QED
  BY <1>1, <1>2, <1>3, <1>4, <1>5, InvFromParts, PTL

\* An emptied owner moves from the index to cleanup's own count.
LEMMA CleanupUnindexStep ==
  ASSUME Inv, NEW c \in Conns, CleanupUnindex(c)
  PROVE  Inv'
<1> USE DEF Inv, TypeOK, CleanupUnindex, DropInfo
<1>0. Owner(c) \in Owners
  BY OwnerType DEF Owner, PhaseOK
<1>1. Shape'
  BY <1>0, RemoveIndex DEF Shape, Phases
<1>2. SlotsExact'
  <2>1. Slots' = Slots
    BY DEF Slots
  <2> QED
    BY <2>1 DEF SlotsExact
<1>3. UsersExact'
  BY <1>0, RemoveIndex, Finiteness DEF UsersExact
<1>4. IndexExact'
  <2>1. \A d \in Conns \ {c} : Owner(d)' = Owner(d)
    BY DEF Owner
  <2> QED
    BY <1>0, <2>1 DEF IndexExact, Indexed, WithoutConnection
<1>5. PhaseOK'
  BY DEF PhaseOK
<1> QED
  BY <1>1, <1>2, <1>3, <1>4, <1>5, InvFromParts, PTL

\* cleanup's count is settled with the counter.
LEMMA CleanupFinishStep ==
  ASSUME Inv, CleanupFinish
  PROVE  Inv'
<1> USE DEF Inv, TypeOK, CleanupFinish, Idle
<1>1. Shape'
  BY DEF Shape, Phases
<1>2. SlotsExact'
  <2>1. Slots' = Slots
    BY DEF Slots
  <2> QED
    BY <2>1 DEF SlotsExact
<1>3. UsersExact'
  <2>1. IndexedOwners' = IndexedOwners
    BY DEF IndexedOwners
  <2> QED
    BY <2>1, Finiteness DEF UsersExact
<1>4. IndexExact'
  BY DEF IndexExact, Indexed, Owner
<1>5. PhaseOK'
  BY DEF PhaseOK
<1> QED
  BY <1>1, <1>2, <1>3, <1>4, <1>5, InvFromParts, PTL

---------------------------------------------------------------------------
(* The inductive invariant                                                  *)

\* The empty manager.
LEMMA InitInv == Init => Inv
<1> SUFFICES ASSUME Init PROVE Inv
  OBVIOUS
<1> USE DEF Init, Idle
<1>1. Shape
  BY DEF Shape, Phases
<1>2. Slots = {} /\ IndexedOwners = {}
  BY DEF Slots, IndexedOwners
<1>3. SlotsExact /\ UsersExact
  BY <1>2, FS_EmptySet DEF SlotsExact, UsersExact
<1>4. IndexExact /\ PhaseOK
  BY LimitAssumption DEF IndexExact, PhaseOK, Indexed
<1> QED
  BY <1>1, <1>3, <1>4, InvFromParts

\* A stuttering step.
LEMMA StutterInv == Inv /\ UNCHANGED vars => Inv'
BY DEF vars, Inv, TypeOK, SlotsExact, UsersExact, IndexExact, PhaseOK, Slots,
       Indexed, IndexedOwners, Owner

\* Every step of the manager: one lemma above for each action.
LEMMA NextInv == Inv /\ Next => Inv'
<1> SUFFICES ASSUME Inv, Next PROVE Inv'
  OBVIOUS
<1>1. CASE CleanupStep
  BY <1>1, CleanupStartStep, CleanupScanStep, CleanupScannedStep, CleanupCloseStep,
     CleanupClosedStep, CleanupRemoveStep,
     CleanupReleaseStep, CleanupUnindexStep, CleanupFinishStep DEF CleanupStep
<1>2. ASSUME NEW c \in Conns, Progress(c) PROVE Inv'
  BY <1>2, InsertUserConnectionStep, ReleaseConnectionSlotStep,
     RemoveUserConnectionStep DEF Progress
<1>3. ASSUME NEW c \in Conns, ~Progress(c), ~Rebind(c),
             \/ ReserveConnectionSlot(c)
             \/ RefuseConnection(c)
             \/ \E u \in Users \cup {None} : InsertEntry(c, u)
             \/ RemoveConnection(c)
             \/ UpdateConnectionActive(c)
             \/ TimeOut(c)
      PROVE Inv'
  BY <1>3, ReserveConnectionSlotStep, RefuseConnectionStep, InsertEntryStep,
     RemoveConnectionStep, UpdateConnectionActiveStep, TimeOutStep
<1> QED
  BY <1>1, <1>2, <1>3, RebindStep DEF Next

\* The inductive invariant holds of every behaviour.
THEOREM Invariance == Spec => []Inv
<1>1. Inv /\ [Next]_vars => Inv'
  BY NextInv, StutterInv
<1> QED
  BY <1>1, InitInv, PTL DEF Spec

---------------------------------------------------------------------------
(* What the invariant gives                                                 *)

\* Type correctness, for every behaviour: in particular neither usize counter
\* is ever decremented below zero.
THEOREM TypeCorrect == Spec => []TypeOK
BY Invariance, PTL DEF Inv

\* The admission limit is a limit on the table, whatever adds, removals,
\* rebindings and cleanups are interleaved.
THEOREM LimitCorrect == Spec => []WithinLimit
<1>1. Inv => WithinLimit
  <2> SUFFICES ASSUME Inv PROVE WithinLimit
    OBVIOUS
  <2>1. Table \in SUBSET Slots
    BY DEF Table, Slots
  <2>2. Cardinality(Table) <= Cardinality(Slots)
    BY <2>1, Finiteness, FS_Subset
  <2> QED
    BY <2>2 DEF Inv, SlotsExact, PhaseOK, WithinLimit
<1> QED
  BY <1>1, Invariance, PTL

\* The user index names each connection under its own (tenant, user) only,
\* and never loses one.
THEOREM IndexCorrect == Spec => []IndexExact
BY Invariance, PTL DEF Inv

\* With no operation under way, counters, index and table agree.
THEOREM RestCorrect == Spec => []AtRest
<1>1. Inv => AtRest
  <2> SUFFICES ASSUME Inv, cleanup.stage = "idle",
                      \A c \in Conns : phase[c] \in {"new", "live", "gone"}
               PROVE  /\ connection_count = Cardinality(Table)
                      /\ user_count = Cardinality({Owner(c) : c \in {d \in Table : user_id[d] # None}})
                      /\ \A o \in Owners : user_connections[o] = {c \in Table : Owner(c) = o}
    BY DEF AtRest
  <2> USE DEF Inv, TypeOK
  <2>1. connection_count = Cardinality(Table)
    <3>1. Table = Slots
      BY DEF Table, Slots
    <3> QED
      BY <3>1 DEF SlotsExact
  <2>2. Table = {c \in Conns : phase[c] = "live"} /\ Table = Indexed
    BY DEF Table, Indexed
  <2>3. \A o \in Owners : user_connections[o] = {c \in Table : Owner(c) = o}
    BY <2>2 DEF IndexExact
  <2>4. user_count = Cardinality(IndexedOwners)
    BY Finiteness DEF UsersExact, PhaseOK
  <2>5. IndexedOwners = {Owner(c) : c \in {d \in Table : user_id[d] # None}}
    <3>1. \A c \in Table : user_id[c] # None => Owner(c) \in Owners
      BY <2>2, OwnerType DEF Owner
    <3>2. \A c \in Table : Owner(c) \in Owners => user_id[c] # None
      BY <2>2, OwnerUnbound
    <3> QED
      BY <2>3, <3>1, <3>2 DEF IndexedOwners
  <2> QED
    BY <2>1, <2>3, <2>4, <2>5
<1> QED
  BY <1>1, Invariance, PTL

---------------------------------------------------------------------------
(* The manager implements the bounded registry                              *)

MappedPast == {c \in Conns : phase[c] \notin {"new", "reserved", "indexing", "live"}}
MappedOwner == [c \in Conns |-> IF c \in Table THEN Owner(c) ELSE None]

\* The steps that change neither the table, nor who has left, nor an owner.
LEMMA InvisibleStep ==
  ASSUME Table' = Table, MappedPast' = MappedPast,
         \A c \in Table : Owner(c)' = Owner(c)
  PROVE  UNCHANGED Registry!vars
BY DEF Registry!vars, MappedPast

\* A reindex is one Bind, or nothing if no user is bound.
LEMMA ReindexMaps ==
  ASSUME Inv, NEW c \in Conns, phase[c] = "live",
         NEW t \in Tenants \cup {None}, NEW u \in Users \cup {None},
         user_id' = [user_id EXCEPT ![c] = u],
         user_id[c] # None => u # None,
         tenant' = [tenant EXCEPT ![c] = t],
         ReindexUserConnection(c, t, u)
  PROVE  [Registry!Next]_Registry!vars
<1> USE DEF Inv, TypeOK
<1>1. Table' = Table /\ MappedPast' = MappedPast /\ c \in Table
  BY DEF Table, MappedPast, ReindexUserConnection
<1>2. Owner(c)' = OwnerOf(t, u) /\ \A d \in Conns \ {c} : Owner(d)' = Owner(d)
  BY DEF Owner
<1>3. CASE u = None
  <2>1. Owner(c)' = Owner(c)
    BY <1>2, <1>3, OwnerType DEF Owner
  <2> QED
    BY <1>1, <1>2, <2>1, InvisibleStep DEF Table
<1>4. CASE u # None
  <2>1. OwnerOf(t, u) \in Owners
    BY <1>4, OwnerType
  <2>2. MappedOwner' = [MappedOwner EXCEPT ![c] = OwnerOf(t, u)]
    BY <1>1, <1>2 DEF MappedOwner
  <2>3. Registry!Bind(c, OwnerOf(t, u))
    BY <1>1, <2>1, <2>2 DEF Registry!Bind, MappedOwner, MappedPast
  <2> QED
    BY <2>1, <2>3 DEF Registry!Next
<1> QED
  BY <1>3, <1>4

\* An entry appears only when the table is below the limit: the inserting
\* thread's own slot is counted and has no entry yet.
LEMMA InsertEntryMaps ==
  ASSUME Inv, NEW c \in Conns, NEW u \in Users \cup {None}, InsertEntry(c, u)
  PROVE  Registry!Next
<1> USE DEF Inv, TypeOK, InsertEntry
<1>1. Table' = Table \cup {c} /\ c \notin Table /\ c \notin MappedPast
  BY DEF Table, MappedPast
<1>2. MappedPast' = MappedPast
  BY DEF MappedPast
<1>3. Cardinality(Table) < MaxConnections
  <2>1. (Table \cup {c}) \in SUBSET Slots
    BY DEF Table, Slots
  <2>2. Cardinality(Table \cup {c}) <= Cardinality(Slots)
    BY <2>1, Finiteness, FS_Subset
  <2>3. Cardinality(Table \cup {c}) = Cardinality(Table) + 1
    BY <1>1, Finiteness, FS_AddElement
  <2> QED
    BY <2>2, <2>3, Finiteness, LimitAssumption DEF SlotsExact, PhaseOK
<1>4. /\ Owner(c)' = OwnerOf(tenant[c], u)
      /\ \A d \in Conns \ {c} : Owner(d)' = Owner(d)
      /\ OwnerOf(tenant[c], u) \in Owners \cup {None}
  BY OwnerType DEF Owner
<1>5. MappedOwner' = [MappedOwner EXCEPT ![c] = OwnerOf(tenant[c], u)]
  BY <1>1, <1>4 DEF MappedOwner
<1>6. Registry!Cardinality(Table) = Cardinality(Table)
  BY Zenon DEF Registry!Cardinality, Cardinality
<1>7. PICK o \in Owners \cup {None} : o = OwnerOf(tenant[c], u)
  BY <1>4
<1>8. Registry!Admit(c, o)
  BY <1>1, <1>2, <1>3, <1>5, <1>6, <1>7 DEF Registry!Admit, MappedOwner, MappedPast
<1> QED
  BY <1>8 DEF Registry!Next

\* A live connection whose entry is removed leaves the registry.
LEMMA LeaveMaps ==
  ASSUME Inv, NEW c \in Conns, phase[c] = "live",
         NEW p \in {"uncounted", "batched"},
         phase' = [phase EXCEPT ![c] = p],
         UNCHANGED <<user_id, tenant>>
  PROVE  Registry!Next
<1> USE DEF Inv, TypeOK
<1>1. Table' = Table \ {c} /\ c \in Table /\ MappedPast' = MappedPast \cup {c}
  BY DEF Table, MappedPast
<1>2. \A d \in Conns : Owner(d)' = Owner(d)
  BY DEF Owner
<1>3. MappedOwner' = [MappedOwner EXCEPT ![c] = None]
  BY <1>1, <1>2 DEF MappedOwner
<1>4. Registry!Leave(c)
  BY <1>1, <1>3 DEF Registry!Leave, MappedOwner, MappedPast
<1> QED
  BY <1>4 DEF Registry!Next

\* Every step of the manager is a step of the registry or leaves it alone.
LEMMA StepMaps == Inv /\ [Next]_vars => [Registry!Next]_Registry!vars
<1> SUFFICES ASSUME Inv, [Next]_vars PROVE [Registry!Next]_Registry!vars
  OBVIOUS
<1> USE DEF Inv, TypeOK
<1>1. ASSUME NEW c \in Conns, RefuseConnection(c) PROVE Registry!Next
  <2>1. c \notin Table /\ c \notin MappedPast /\ Table' = Table
        /\ MappedPast' = MappedPast \cup {c}
    BY <1>1 DEF RefuseConnection, Table, MappedPast
  <2>2. MappedOwner' = MappedOwner
    BY <1>1, <2>1 DEF RefuseConnection, MappedOwner, Owner
  <2>3. Registry!Refuse(c)
    BY <2>1, <2>2 DEF Registry!Refuse, MappedOwner, MappedPast
  <2> QED
    BY <2>3 DEF Registry!Next
<1>2. ASSUME NEW c \in Conns, \E u \in Users \cup {None} : InsertEntry(c, u)
      PROVE Registry!Next
  BY <1>2, InsertEntryMaps
<1>3. ASSUME NEW c \in Conns, Rebind(c) PROVE [Registry!Next]_Registry!vars
  <2>1. ASSUME NEW u \in Users, BindUser(c, u) PROVE [Registry!Next]_Registry!vars
    <3>1. tenant' = [tenant EXCEPT ![c] = tenant[c]] /\ u # None
      BY <2>1, NoneAssumption DEF BindUser
    <3> QED
      BY <2>1, <3>1, ReindexMaps DEF BindUser
  <2>2. ASSUME NEW u \in Users \cup {None}, SetConnectionUser(c, u)
        PROVE  [Registry!Next]_Registry!vars
    <3> DEFINE bound == IF u = None THEN user_id[c] ELSE u
    <3>1. /\ tenant' = [tenant EXCEPT ![c] = tenant[c]]
          /\ bound \in Users \cup {None}
          /\ user_id[c] # None => bound # None
          /\ user_id' = [user_id EXCEPT ![c] = bound]
          /\ ReindexUserConnection(c, tenant[c], bound)
          /\ phase[c] = "live"
      BY <2>2 DEF SetConnectionUser
    <3> HIDE DEF bound
    <3> QED
      BY <3>1, ReindexMaps
  <2>3. ASSUME NEW u \in Users \cup {None}, NEW t \in Tenants \cup {None},
               UpdateConnectionNegotiation(c, u, t)
        PROVE  [Registry!Next]_Registry!vars
    <3> DEFINE bound == IF u = None THEN user_id[c] ELSE u
               merged == IF t = None THEN tenant[c] ELSE t
    <3>1. /\ tenant' = [tenant EXCEPT ![c] = merged]
          /\ merged \in Tenants \cup {None}
          /\ bound \in Users \cup {None}
          /\ user_id[c] # None => bound # None
          /\ user_id' = [user_id EXCEPT ![c] = bound]
          /\ ReindexUserConnection(c, merged, bound)
          /\ phase[c] = "live"
      BY <2>3 DEF UpdateConnectionNegotiation
    <3> HIDE DEF bound, merged
    <3> QED
      BY <3>1, ReindexMaps
  <2> QED
    BY <1>3, <2>1, <2>2, <2>3 DEF Rebind
<1>4. ASSUME NEW c \in Conns, RemoveConnection(c) PROVE Registry!Next
  BY <1>4, LeaveMaps DEF RemoveConnection
<1>5. ASSUME NEW c \in Conns, CleanupRemove(c) PROVE [Registry!Next]_Registry!vars
  <2>1. CASE phase[c] = "live"
    BY <1>5, <2>1, LeaveMaps DEF CleanupRemove
  <2>2. CASE phase[c] # "live"
    BY <1>5, <2>2, InvisibleStep DEF CleanupRemove, Table, MappedPast, Owner
  <2> QED
    BY <2>1, <2>2
<1>6. ASSUME NEW c \in Conns,
             \/ ReserveConnectionSlot(c)
             \/ UpdateConnectionActive(c)
             \/ TimeOut(c)
             \/ CleanupScan(c) \/ CleanupClose(c)
      PROVE  UNCHANGED Registry!vars
  BY <1>6, InvisibleStep DEF ReserveConnectionSlot, UpdateConnectionActive, TimeOut,
       CleanupScan, CleanupClose, Table, MappedPast, Owner
<1>7. ASSUME NEW c \in Conns, Progress(c) \/ CleanupUnindex(c)
      PROVE  UNCHANGED Registry!vars
  <2>1. Table' = Table /\ MappedPast' = MappedPast
    BY <1>7 DEF Progress, InsertUserConnection, ReleaseConnectionSlot,
         RemoveUserConnection, CleanupUnindex, Table, MappedPast
  <2>2. \A d \in Table : Owner(d)' = Owner(d)
    BY <1>7 DEF Progress, InsertUserConnection, ReleaseConnectionSlot,
         RemoveUserConnection, CleanupUnindex, DropInfo, Table, Owner
  <2> QED
    BY <2>1, <2>2, InvisibleStep
<1>8. ASSUME \/ CleanupStart \/ CleanupScanned \/ CleanupClosed
             \/ CleanupFinish \/ UNCHANGED vars
      PROVE  UNCHANGED Registry!vars
  BY <1>8, InvisibleStep DEF CleanupStart, CleanupScanned, CleanupClosed, CleanupFinish, vars,
       Table, MappedPast, Owner
<1>9. ASSUME CleanupRelease PROVE UNCHANGED Registry!vars
  <2>1. Table' = Table /\ MappedPast' = MappedPast
    BY <1>9 DEF CleanupRelease, Table, MappedPast
  <2>2. \A d \in Table : Owner(d)' = Owner(d)
    BY <1>9 DEF CleanupRelease, DropInfo, Batched, Table, Owner
  <2> QED
    BY <2>1, <2>2, InvisibleStep
<1> QED
  BY <1>1, <1>2, <1>3, <1>4, <1>5, <1>6, <1>7, <1>8, <1>9 DEF Next, CleanupStep

\* ConnectionManager implements BoundedRegistry: although add, rebind, remove
\* and cleanup are interleaved at every lock release, the table behaves as an
\* atomic registry bounded by max_connections.
THEOREM ManagerImplementsRegistry == Spec => ImplementsRegistry
<1>1. Init => Registry!Init
  BY DEF Init, Registry!Init, Table, Owner, OwnerOf
<1> QED
  BY <1>1, StepMaps, Invariance, PTL DEF Spec, ImplementsRegistry, Registry!Spec

---------------------------------------------------------------------------
(***************************************************************************)
(* Delivery, for any finite sets of connections, users and     *)
(* tenants, any connection limit, any calls, with and without               *)
(* authentication, and whatever the manager does between two steps of a     *)
(* call.                                                                    *)
(*                                                                          *)
(* NobodyMissed and AudienceOnly speak of what a call has sent; neither is  *)
(* inductive, because in the middle of a call they depend on what it still  *)
(* has to look up and to write.  The invariant adds that part:              *)
(*                                                                          *)
(*   Owed     whoever has been entitled all along is still to be looked up, *)
(*            or has been found and allowed, or has the frame               *)
(*   Meant    an id still to be looked up matches the target, or belongs to *)
(*            a connection that has been in the audience or has left: an id *)
(*            read from the user index may be out of date when its entry is *)
(*            looked up, but a connection id is never used twice            *)
(*   Cleared  a connection found has been added, and the flag copied for a  *)
(*            message frame is still set: nothing clears it afterwards, and *)
(*            an id is looked up once                                       *)
(***************************************************************************)

\* The phases of a connection that has left the table.
Left == {"uncounted", "unindexed", "batched", "batch_unindexed", "gone"}

CallTypes ==
  /\ authenticated \in [Conns -> BOOLEAN]
  /\ call \in [stage : {"idle", "read", "send", "evict", "refresh"}, target : Targets,
               payload : Payloads, todo : SUBSET Conns, allowed : SUBSET Conns,
               snapshots : SUBSET Conns, sent : SUBSET Conns, unencoded : SUBSET Conns,
               evicting : Conns \cup {None}]
  /\ call.stage = "evict" <=> call.evicting # None

Owed ==
  /\ call.stage = "read" =>
       throughout \subseteq call.todo \cup (call.snapshots \cap call.allowed)
  /\ call.stage \in {"send", "evict"} =>
       throughout \subseteq (call.snapshots \cap call.allowed) \cup call.sent \cup call.unencoded
  /\ call.stage = "refresh" => throughout \subseteq call.sent \cup call.unencoded

Meant ==
  /\ call.stage = "idle" => ever = {}
  /\ call.snapshots \cup call.sent \subseteq ever
  /\ call.stage = "read" =>
       \A c \in call.todo :
         IF call.target.kind = "user" THEN c \in ever \/ phase[c] \in Left
                                      ELSE c \in ReadIds(call.target)

Cleared ==
  /\ \A c \in call.snapshots \cup call.sent : phase[c] \notin {"new", "reserved"}
  /\ call.payload = "message" =>
       \A c \in (call.snapshots \cap call.allowed) \cup call.sent : authenticated[c]
  /\ call.stage = "read" => call.todo \cap call.allowed = {}

DeliveryInv == Inv /\ CallTypes /\ Owed /\ Meant /\ Cleared

---------------------------------------------------------------------------
(* The manager underneath                                                   *)

\* Every step of Delivery is a step of the manager or leaves it alone.
LEMMA ManagerMoves == DeliveryNext => [Next]_vars
<1>1. ASSUME NEW target, NEW payload, BeginCall(target, payload) PROVE UNCHANGED vars
  BY <1>1, SMTT(30) DEF BeginCall
<1>2. ASSUME CallStep PROVE [Next]_vars
  BY <1>2 DEF CallStep, EntriesRead, Evicted, FanoutDone, Return, ReadHandle, ReadEntry,
       SkipConnection, SerializeFails, Enqueue, EnqueueFails, Refresh, Next
<1>3. ASSUME ManagerStep PROVE Next
  BY <1>3 DEF ManagerStep, AddConnection, SetConnectionAuthenticated, Next, Rebind
<1> QED
  BY <1>1, <1>2, <1>3 DEF DeliveryNext

\* A connection that has left the table stays out, and one that has been added
\* is never new again: the manager takes no id back.
LEMMA PhasesAdvance ==
  ASSUME Inv, [Next]_vars, NEW c \in Conns
  PROVE  /\ phase[c] \in Left => phase'[c] \in Left
         /\ phase[c] \notin {"new", "reserved"} => phase'[c] \notin {"new", "reserved"}
<1> DEFINE Goal == /\ phase[c] \in Left => phase'[c] \in Left
                   /\ phase[c] \notin {"new", "reserved"} => phase'[c] \notin {"new", "reserved"}
<1>0. phase \in [Conns -> Phases]
  BY DEF Inv, TypeOK
<1>1. ASSUME NEW d \in Conns,
             \/ ReserveConnectionSlot(d)
             \/ RefuseConnection(d)
             \/ \E u \in Users \cup {None} : InsertEntry(d, u)
             \/ RemoveConnection(d)
             \/ UpdateConnectionActive(d)
             \/ TimeOut(d)
      PROVE  Goal
  BY <1>0, <1>1 DEF Left, ReserveConnectionSlot, RefuseConnection, InsertEntry,
       RemoveConnection, UpdateConnectionActive, TimeOut
<1>2. ASSUME NEW d \in Conns, Rebind(d) PROVE Goal
  BY <1>0, <1>2 DEF Left, Rebind, BindUser, SetConnectionUser,
       UpdateConnectionNegotiation, ReindexUserConnection
<1>3. ASSUME NEW d \in Conns, Progress(d) PROVE Goal
  BY <1>0, <1>3 DEF Left, Progress, InsertUserConnection, ReleaseConnectionSlot,
       RemoveUserConnection
<1>4. ASSUME CleanupStep PROVE Goal
  BY <1>0, <1>4 DEF Left, CleanupStep, CleanupStart, CleanupScanned, CleanupClosed,
       CleanupRelease, CleanupFinish, CleanupScan, CleanupClose, CleanupRemove, CleanupUnindex
<1>5. ASSUME UNCHANGED vars PROVE Goal
  BY <1>5 DEF vars
<1> QED
  BY <1>1, <1>2, <1>3, <1>4, <1>5 DEF Next

---------------------------------------------------------------------------
(* Targets and audiences                                                    *)

\* The audience of a call is the part of the table its target names, by the
\* index as it is now.
LEMMA AudienceNamed ==
  ASSUME CallTypes
  PROVE  Audience = Table \cap ReadIds(call.target)
<1>1. call.target \in Targets
  BY DEF CallTypes
<1> QED
  BY <1>1 DEF Audience, ReadIds, Targets, Table

\* What a call reads of the table or the index are connections.
LEMMA TargetKinds ==
  ASSUME NEW target \in Targets, TypeOK
  PROVE  ReadIds(target) \in SUBSET Conns
BY DEF ReadIds, Targets, TypeOK

---------------------------------------------------------------------------
(* The invariant, part by part                                              *)

\* The calls that can be made have a target and a payload of the right kind.
LEMMA CallsMade ==
  ASSUME NEW made \in Calls
  PROVE  made[1] \in Targets /\ made[2] \in Payloads
BY CallsAssumption DEF HandleCalls, RawCalls, Payloads

\* No call is under way: None is no connection.
LEMMA NoCallType ==
  /\ NoCall.stage = "idle" /\ NoCall.target \in Targets /\ NoCall.payload \in Payloads
  /\ NoCall.todo = {} /\ NoCall.allowed = {} /\ NoCall.snapshots = {}
  /\ NoCall.sent = {} /\ NoCall.unencoded = {} /\ NoCall.evicting = None
BY DEF NoCall, Targets, Payloads

\* Every step of a call keeps its types.
LEMMA TypesMove ==
  ASSUME Inv, CallTypes, DeliveryNext
  PROVE  CallTypes'
<1> USE DEF CallTypes
<1>1. ASSUME NEW made \in Calls, BeginCall(made[1], made[2]) PROVE CallTypes'
  <2>1. ReadIds(made[1]) \in SUBSET Conns
    BY CallsMade, TargetKinds DEF Inv
  <2> QED
    BY <1>1, <2>1, CallsMade DEF BeginCall, NoCall
<1>2. ASSUME NEW c \in Conns, ReadHandle(c) PROVE CallTypes'
  <2>1. CASE phase[c] = "live"
    BY <1>2, <2>1 DEF ReadHandle
  <2>2. CASE phase[c] # "live"
    BY <1>2, <2>2 DEF ReadHandle
  <2> QED
    BY <2>1, <2>2
<1>3. ASSUME NEW c \in Conns, ReadEntry(c) PROVE CallTypes'
  <2>1. CASE phase[c] = "live" /\ FrameAllowed(c, call.payload)
    BY <1>3, <2>1 DEF ReadEntry
  <2>2. CASE phase[c] = "live" /\ ~FrameAllowed(c, call.payload)
    BY <1>3, <2>2 DEF ReadEntry
  <2>3. CASE phase[c] # "live" /\ FrameAllowed(c, call.payload)
    BY <1>3, <2>3 DEF ReadEntry
  <2>4. CASE phase[c] # "live" /\ ~FrameAllowed(c, call.payload)
    BY <1>3, <2>4 DEF ReadEntry
  <2> QED
    BY <2>1, <2>2, <2>3, <2>4
<1>4. ASSUME NEW c \in Conns, SkipConnection(c) PROVE CallTypes'
  BY <1>4 DEF SkipConnection
<1>11. ASSUME NEW c \in Conns, SerializeFails(c) PROVE CallTypes'
  BY <1>11 DEF SerializeFails
<1>8. ASSUME NEW c \in Conns, Enqueue(c) PROVE CallTypes'
  BY <1>8 DEF Enqueue
<1>9. ASSUME NEW c \in Conns, Refresh(c) PROVE CallTypes'
  BY <1>9 DEF Refresh
<1>10. ASSUME NEW c \in Conns, EnqueueFails(c) PROVE CallTypes'
  <2>1. c # None
    BY NoneAssumption
  <2>2. CASE phase[c] = "live"
    <3>1. call' = [call EXCEPT !.snapshots = @ \ {c}, !.stage = "evict", !.evicting = c]
          /\ authenticated' = authenticated
      BY <1>10, <2>2 DEF EnqueueFails
    <3> QED
      BY <2>1, <3>1
  <2>3. CASE phase[c] # "live"
    BY <1>10, <2>3 DEF EnqueueFails
  <2> QED
    BY <2>2, <2>3
<1>5. ASSUME EntriesRead \/ Evicted \/ FanoutDone PROVE CallTypes'
  BY <1>5 DEF EntriesRead, Evicted, FanoutDone
<1>6. ASSUME Return PROVE CallTypes'
  BY <1>6, NoCallType DEF Return, NoCall
<1>7. ASSUME ManagerStep PROVE CallTypes'
  <2>1. call' = call
    BY <1>7 DEF ManagerStep, AddConnection, SetConnectionAuthenticated
  <2>2. authenticated' \in [Conns -> BOOLEAN]
    BY <1>7, RequiresAuthAssumption DEF ManagerStep, AddConnection,
         SetConnectionAuthenticated
  <2> QED
    BY <2>1, <2>2
<1> QED
  BY <1>1, <1>2, <1>3, <1>4, <1>5, <1>6, <1>7, <1>8, <1>9, <1>10, <1>11
     DEF DeliveryNext, CallStep

\* The manager's steps neither end a call nor change what it has to do, and a
\* flag once set is cleared for a connection that is only now being added.
LEMMA ManagerLeavesCall ==
  ASSUME CallTypes, ManagerStep
  PROVE  /\ call' = call
         /\ \A c \in Conns : authenticated[c] /\ phase[c] # "reserved" => authenticated'[c]
<1>1. call' = call
  BY DEF ManagerStep, AddConnection, SetConnectionAuthenticated
<1>2. ASSUME NEW d \in Conns, AddConnection(d)
      PROVE  \A c \in Conns : authenticated[c] /\ phase[c] # "reserved" => authenticated'[c]
  BY <1>2 DEF AddConnection, InsertEntry, CallTypes
<1> QED
  BY <1>1, <1>2 DEF ManagerStep, SetConnectionAuthenticated, CallTypes

\* The histories of a call under way: the audience only grows, and nobody who
\* was not entitled before is entitled throughout.
LEMMA WatchFacts ==
  ASSUME Watch, CallTypes, CallTypes'
  PROVE  /\ call'.stage = "idle" => ever' = {}
         /\ call.stage # "idle" /\ call'.stage # "idle" =>
              ever \subseteq ever' /\ throughout' \subseteq throughout
         /\ call.stage # "idle" /\ call'.stage \in {"read", "send", "evict"} =>
              Audience' \subseteq ever' /\ throughout' \subseteq Entitled'
         /\ call.stage = "idle" /\ call'.stage = "read" =>
              ever' = Audience' /\ throughout' = Entitled'
<1>1. /\ call.stage \in {"idle", "read", "send", "evict", "refresh"}
      /\ call'.stage \in {"idle", "read", "send", "evict", "refresh"}
  BY DEF CallTypes
<1> DEFINE A == Audience'
           E == Entitled'
<1>2. /\ call'.stage = "idle" => ever' = {} /\ throughout' = {}
      /\ call'.stage = "refresh" => ever' = ever /\ throughout' = throughout
      /\ call'.stage = "read" /\ call.stage = "idle" => ever' = A /\ throughout' = E
      /\ call'.stage \in {"send", "evict"} \/ (call'.stage = "read" /\ call.stage # "idle") =>
           ever' = ever \cup A /\ throughout' = throughout \cap E
  BY <1>1 DEF Watch
<1> HIDE DEF A, E
<1>3. /\ call'.stage = "idle" => ever' = {}
      /\ call.stage # "idle" /\ call'.stage # "idle" =>
           ever \subseteq ever' /\ throughout' \subseteq throughout
      /\ call.stage # "idle" /\ call'.stage \in {"read", "send", "evict"} =>
           A \subseteq ever' /\ throughout' \subseteq E
      /\ call.stage = "idle" /\ call'.stage = "read" => ever' = A /\ throughout' = E
  BY <1>1, <1>2, SMTT(30)
<1> QED
  BY <1>3 DEF A, E

\* A step of the call itself leaves the flags alone.
LEMMA CallStepFacts ==
  ASSUME CallTypes, CallStep
  PROVE  authenticated' = authenticated /\ call.stage # "idle"
BY DEF CallStep, EntriesRead, Evicted, FanoutDone, Return, ReadHandle, ReadEntry,
       SkipConnection, SerializeFails, Enqueue, EnqueueFails, Refresh

\* Owed: what leaves the lists of a call is in the frame's way no longer.  An
\* entry that is not found is not in the table, so its connection is not
\* entitled now; one whose queue refuses the frame is removed.
LEMMA OwedMoves ==
  ASSUME DeliveryInv, DeliveryNext, CallTypes'
  PROVE  Owed'
<1> USE DEF DeliveryInv
<1>0. Watch
  BY DEF DeliveryNext
<1>t. /\ call.stage \in {"idle", "read", "send", "evict", "refresh"}
      /\ call'.stage \in {"idle", "read", "send", "evict", "refresh"}
      /\ phase \in [Conns -> Phases]
      /\ call.snapshots \subseteq Conns /\ call.allowed \subseteq Conns
  BY DEF CallTypes, Inv, TypeOK
<1>e. \A c \in Entitled' : c \in Table' /\ FrameAllowed(c, call.payload)'
  BY DEF Entitled, Audience
<1>w. /\ call.stage # "idle" /\ call'.stage # "idle" => throughout' \subseteq throughout
      /\ call.stage # "idle" /\ call'.stage \in {"read", "send", "evict"} =>
           \A c \in throughout' : c \in Table' /\ FrameAllowed(c, call.payload)'
      /\ call.stage = "idle" /\ call'.stage = "read" =>
           throughout' = Audience' \cap throughout'
  BY <1>0, <1>e, WatchFacts DEF Entitled
<1>1. ASSUME NEW made \in Calls, BeginCall(made[1], made[2]) PROVE Owed'
  <2>n. (Audience = Table \cap ReadIds(call.target))'
    BY AudienceNamed, PTL
  <2>1. Audience' = Table' \cap ReadIds(call.target)'
    BY <2>n
  <2>2. call'.stage = "read" /\ call.stage = "idle" /\ call'.target = made[1]
        /\ call'.todo = ReadIds(made[1])
    BY <1>1 DEF BeginCall, NoCall
  <2>3. ReadIds(call.target)' = ReadIds(made[1])
    BY <1>1, <2>2 DEF BeginCall, vars, ReadIds
  <2> QED
    BY <1>w, <2>1, <2>2, <2>3 DEF Owed
<1>2. ASSUME NEW c \in Conns, ReadHandle(c) PROVE Owed'
  BY <1>2, <1>w, <1>t DEF ReadHandle, Owed, Table, vars, CallTypes
<1>3. ASSUME NEW c \in Conns, ReadEntry(c) PROVE Owed'
  BY <1>3, <1>w, <1>t DEF ReadEntry, Owed, Table, vars, CallTypes, FrameAllowed
<1>4. ASSUME NEW c \in Conns, SkipConnection(c) PROVE Owed'
  BY <1>4, <1>w, <1>t DEF SkipConnection, Owed, CallTypes
<1>10. ASSUME NEW c \in Conns, SerializeFails(c) PROVE Owed'
  BY <1>10, <1>w, <1>t DEF SerializeFails, Owed, CallTypes
<1>11. ASSUME NEW c \in Conns, Enqueue(c) PROVE Owed'
  BY <1>11, <1>w, <1>t DEF Enqueue, Owed, CallTypes
<1>5. ASSUME NEW c \in Conns, EnqueueFails(c) PROVE Owed'
  <2>1. c \notin Table'
    BY <1>5, <1>t DEF EnqueueFails, RemoveConnection, Table, vars
  <2>2. /\ call.stage = "send" /\ call'.stage \in {"send", "evict"}
        /\ call'.snapshots = call.snapshots \ {c} /\ call'.allowed = call.allowed
        /\ call'.sent = call.sent /\ call'.unencoded = call.unencoded
    BY <1>5 DEF EnqueueFails, CallTypes
  <2> QED
    BY <2>1, <2>2, <1>w DEF Owed
<1>6. ASSUME NEW c \in Conns, Refresh(c) PROVE Owed'
  BY <1>6, <1>w, <1>t DEF Refresh, Owed, CallTypes
<1>7. ASSUME EntriesRead \/ Evicted \/ FanoutDone PROVE Owed'
  BY <1>7, <1>w, <1>t DEF EntriesRead, Evicted, FanoutDone, Owed, CallTypes
<1>8. ASSUME Return PROVE Owed'
  BY <1>8, NoCallType DEF Return, Owed
<1>9. ASSUME ManagerStep PROVE Owed'
  BY <1>9, <1>w, <1>t, ManagerLeavesCall DEF Owed
<1> QED
  BY <1>1, <1>2, <1>3, <1>4, <1>5, <1>6, <1>7, <1>8, <1>9, <1>10, <1>11
     DEF DeliveryNext, CallStep

\* Meant: an id from the user index is in the audience when the call begins,
\* or its connection has left the table and will not be found; whatever is
\* found is in the audience then or was before.
LEMMA MeantMoves ==
  ASSUME DeliveryInv, DeliveryNext, CallTypes'
  PROVE  Meant'
<1> USE DEF DeliveryInv
<1>0. Watch
  BY DEF DeliveryNext
<1>t. /\ call.stage \in {"idle", "read", "send", "evict", "refresh"}
      /\ call'.stage \in {"idle", "read", "send", "evict", "refresh"}
      /\ phase \in [Conns -> Phases]
      /\ call.todo \subseteq Conns
  BY DEF CallTypes, Inv, TypeOK
<1>p. \A c \in Conns : phase[c] \in Left => phase'[c] \in Left
  BY ManagerMoves, PhasesAdvance
<1>w. /\ call'.stage = "idle" => ever' = {}
      /\ call.stage # "idle" /\ call'.stage # "idle" => ever \subseteq ever'
      /\ call.stage # "idle" /\ call'.stage \in {"read", "send", "evict"} =>
           Audience' \subseteq ever'
      /\ call.stage = "idle" /\ call'.stage = "read" => ever' = Audience'
  BY <1>0, WatchFacts
<1>m. (Audience = Table \cap ReadIds(call.target))'
  BY AudienceNamed, PTL
<1>n. Audience' = Table' \cap ReadIds(call.target)'
  BY <1>m
<1>r. ASSUME call'.target = call.target, call.target.kind # "user"
      PROVE  ReadIds(call.target)' = ReadIds(call.target)
  <2>1. call.target \in Targets
    BY DEF CallTypes
  <2> QED
    BY <1>r, <2>1 DEF ReadIds, Targets
<1>1. ASSUME NEW made \in Calls, BeginCall(made[1], made[2]) PROVE Meant'
  <2>1. /\ call'.stage = "read" /\ call.stage = "idle" /\ call'.target = made[1]
        /\ call'.todo = ReadIds(made[1]) /\ call'.snapshots = {} /\ call'.sent = {}
    BY <1>1 DEF BeginCall, NoCall
  <2>2. ReadIds(call.target)' = ReadIds(made[1]) /\ Table' = Table
        /\ phase' = phase
    BY <1>1, <2>1 DEF BeginCall, vars, ReadIds, Table
  <2>3. ASSUME NEW c \in ReadIds(made[1]), made[1].kind = "user"
        PROVE  c \in Table \/ phase[c] \in Left
    <3>1. made[1].to \in Owners
      BY <2>3, CallsMade DEF Targets
    <3>2. c \in user_connections[made[1].to] /\ c \in Conns
      BY <2>3, <3>1 DEF ReadIds, Inv, TypeOK
    <3> QED
      BY <3>1, <3>2 DEF Inv, IndexExact, Indexed, Table, Left
  <2> HIDE DEF DeliveryInv
  <2>4. \A c \in call'.todo :
          IF call'.target.kind = "user" THEN c \in ever' \/ phase'[c] \in Left
                                        ELSE c \in ReadIds(call.target)'
    BY <2>1, <2>2, <2>3, <1>w, <1>n
  <2> QED
    BY <2>1, <2>4 DEF Meant
<1>f. ASSUME NEW c \in Conns, c \in call.todo, call.stage = "read", phase[c] = "live",
             call'.stage = "read", call'.target = call.target, UNCHANGED vars
      PROVE  c \in ever'
  <2>1. c \in Table'
    BY <1>f DEF Table, vars
  <2>2. CASE call.target.kind = "user"
    BY <1>f, <2>2, <1>w DEF Meant, Left
  <2>3. CASE call.target.kind # "user"
    BY <1>f, <2>1, <2>3, <1>w, <1>n, <1>r DEF Meant
  <2> QED
    BY <2>2, <2>3
<1>k. ASSUME call.stage # "idle", call'.stage # "idle", call'.target = call.target,
             call'.todo \subseteq call.todo \/ call'.stage # "read",
             call'.stage = "read" => call.stage = "read",
             call'.snapshots \cup call'.sent \subseteq ever'
      PROVE  Meant'
  <2>1. ASSUME call'.stage = "read", NEW c \in call'.todo
        PROVE  IF call'.target.kind = "user" THEN c \in ever' \/ phase'[c] \in Left
                                             ELSE c \in ReadIds(call.target)'
    BY <1>k, <2>1, <1>p, <1>w, <1>r, <1>t DEF Meant
  <2> QED
    BY <1>k, <2>1 DEF Meant
<1>2. ASSUME NEW c \in Conns, ReadHandle(c) PROVE Meant'
  <2>1. /\ call.stage = "read" /\ call'.stage = "read" /\ call'.target = call.target
        /\ call'.todo \subseteq call.todo /\ c \in call.todo /\ UNCHANGED vars
        /\ call'.sent = call.sent
        /\ call'.snapshots \subseteq call.snapshots \/
             (phase[c] = "live" /\ call'.snapshots = call.snapshots \cup {c})
    BY <1>2 DEF ReadHandle, CallTypes
  <2> QED
    BY <2>1, <1>f, <1>k, <1>w DEF Meant
<1>3. ASSUME NEW c \in Conns, ReadEntry(c) PROVE Meant'
  <2>1. /\ call.stage = "read" /\ call'.stage = "read" /\ call'.target = call.target
        /\ call'.todo \subseteq call.todo /\ c \in call.todo /\ UNCHANGED vars
        /\ call'.sent = call.sent
        /\ call'.snapshots \subseteq call.snapshots \/
             (phase[c] = "live" /\ call'.snapshots = call.snapshots \cup {c})
    BY <1>3 DEF ReadEntry, CallTypes
  <2> QED
    BY <2>1, <1>f, <1>k, <1>w DEF Meant
<1>4. ASSUME \/ \E c \in Conns : \/ SkipConnection(c) \/ SerializeFails(c) \/ Enqueue(c)
                                 \/ EnqueueFails(c) \/ Refresh(c)
             \/ EntriesRead \/ Evicted \/ FanoutDone
      PROVE  Meant'
  <2> DEFINE Goal == /\ call.stage # "idle" /\ call'.stage \in {"send", "evict", "refresh"}
                     /\ call'.target = call.target
                     /\ call'.snapshots \cup call'.sent \subseteq call.snapshots \cup call.sent
  <2>1. ASSUME NEW c \in Conns, SkipConnection(c) \/ SerializeFails(c) PROVE Goal
    BY <2>1, ZenonT(60) DEF SkipConnection, SerializeFails, CallTypes
  <2>2. ASSUME NEW c \in Conns, Enqueue(c) PROVE Goal
    BY <2>2 DEF Enqueue, CallTypes
  <2>3. ASSUME NEW c \in Conns, EnqueueFails(c) PROVE Goal
    <3>1. /\ call.stage = "send" /\ call'.stage \in {"send", "evict"}
          /\ call'.target = call.target /\ call'.sent = call.sent
          /\ call'.snapshots = call.snapshots \ {c}
      BY <2>3 DEF EnqueueFails, CallTypes
    <3> QED
      BY <3>1
  <2>5. ASSUME NEW c \in Conns, Refresh(c) PROVE Goal
    BY <2>5 DEF Refresh, CallTypes
  <2>6. ASSUME EntriesRead \/ Evicted \/ FanoutDone PROVE Goal
    BY <2>6 DEF EntriesRead, Evicted, FanoutDone, CallTypes
  <2>4. Goal
    BY <1>4, <2>1, <2>2, <2>3, <2>5, <2>6
  <2> QED
    BY <2>4, <1>k, <1>w DEF Meant
<1>5. ASSUME Return PROVE Meant'
  BY <1>5, <1>w, NoCallType DEF Return, Meant
<1>6. ASSUME ManagerStep PROVE Meant'
  <2>1. call' = call
    BY <1>6, ManagerLeavesCall
  <2>2. CASE call.stage = "idle"
    BY <2>1, <2>2, <1>w DEF Meant
  <2>3. CASE call.stage # "idle"
    BY <2>1, <2>3, <1>k, <1>w DEF Meant
  <2> QED
    BY <2>2, <2>3
<1> QED
  BY <1>1, <1>2, <1>3, <1>4, <1>5, <1>6 DEF DeliveryNext, CallStep

\* Cleared: a connection is found only after it has been added, which is the
\* only step that can clear its flag, and allowed for a message frame only if
\* its flag is set.
LEMMA ClearedMoves ==
  ASSUME DeliveryInv, DeliveryNext, CallTypes'
  PROVE  Cleared'
<1> USE DEF DeliveryInv
<1>t. /\ phase \in [Conns -> Phases]
      /\ call.snapshots \cup call.sent \subseteq Conns
      /\ call'.snapshots \cup call'.sent \subseteq Conns
  BY DEF CallTypes, Inv, TypeOK
<1>p. \A c \in Conns : phase[c] \notin {"new", "reserved"} => phase'[c] \notin {"new", "reserved"}
  BY ManagerMoves, PhasesAdvance
<1>k. ASSUME call'.payload = call.payload,
             call'.snapshots \cup call'.sent \subseteq call.snapshots \cup call.sent,
             (call'.snapshots \cap call'.allowed) \cup call'.sent \subseteq
               (call.snapshots \cap call.allowed) \cup call.sent,
             call'.stage = "read" => call'.todo \cap call'.allowed = {},
             \A c \in Conns : authenticated[c] /\ phase[c] # "reserved" => authenticated'[c]
      PROVE  Cleared'
  BY <1>k, <1>p, <1>t DEF Cleared
<1>1. ASSUME NEW made \in Calls, BeginCall(made[1], made[2]) PROVE Cleared'
  <2>1. call'.snapshots = {} /\ call'.sent = {} /\ call'.allowed = {}
    BY <1>1 DEF BeginCall, NoCall
  <2> QED
    BY <2>1 DEF Cleared
<1>2. ASSUME NEW c \in Conns, ReadHandle(c) PROVE Cleared'
  <2>1. /\ call'.payload = call.payload /\ call.payload = "raw"
        /\ call'.sent = call.sent /\ call'.snapshots \subseteq call.snapshots \cup {c}
        /\ c \in call'.snapshots \ call.snapshots => phase[c] = "live"
        /\ call.stage = "read" /\ call'.todo = call.todo \ {c}
        /\ call'.allowed = call.allowed \cup {c}
    BY <1>2 DEF ReadHandle, CallTypes
  <2> QED
    BY <2>1, <1>p, <1>t DEF Cleared
<1>3. ASSUME NEW c \in Conns, ReadEntry(c) PROVE Cleared'
  <2>1. /\ call'.payload = call.payload /\ authenticated' = authenticated
        /\ call'.sent = call.sent /\ call'.snapshots \subseteq call.snapshots \cup {c}
        /\ c \in call'.snapshots \ call.snapshots => phase[c] = "live"
        /\ call.stage = "read" /\ call'.todo = call.todo \ {c} /\ c \in call.todo
        /\ call'.allowed \subseteq call.allowed \cup {c}
        /\ c \in call'.allowed \ call.allowed => FrameAllowed(c, call.payload)
    BY <1>3 DEF ReadEntry, CallTypes
  <2> QED
    BY <2>1, <1>p, <1>t DEF Cleared, FrameAllowed
<1>4. ASSUME NEW c \in Conns, SkipConnection(c) PROVE Cleared'
  BY <1>4, <1>k DEF SkipConnection, CallTypes
<1>11. ASSUME NEW c \in Conns, SerializeFails(c) PROVE Cleared'
  BY <1>11, <1>k DEF SerializeFails, CallTypes
<1>5. ASSUME NEW c \in Conns, Enqueue(c) PROVE Cleared'
  BY <1>5, <1>k DEF Enqueue, CallTypes
<1>6. ASSUME NEW c \in Conns, EnqueueFails(c) PROVE Cleared'
  <2>1. /\ call'.stage \in {"send", "evict"} /\ call'.payload = call.payload
        /\ call'.snapshots = call.snapshots \ {c} /\ call'.allowed = call.allowed
        /\ call'.sent = call.sent /\ authenticated' = authenticated
    BY <1>6 DEF EnqueueFails, CallTypes
  <2> QED
    BY <2>1, <1>k
<1>7. ASSUME NEW c \in Conns, Refresh(c) PROVE Cleared'
  BY <1>7, <1>k DEF Refresh, CallTypes
<1>8. ASSUME EntriesRead \/ Evicted \/ FanoutDone PROVE Cleared'
  BY <1>8, <1>k DEF EntriesRead, Evicted, FanoutDone, CallTypes
<1>9. ASSUME Return PROVE Cleared'
  BY <1>9, NoCallType DEF Return, Cleared
<1>10. ASSUME ManagerStep PROVE Cleared'
  BY <1>10, <1>k, ManagerLeavesCall DEF Cleared
<1> QED
  BY <1>1, <1>2, <1>3, <1>11, <1>4, <1>5, <1>6, <1>7, <1>8, <1>9, <1>10 DEF DeliveryNext, CallStep

---------------------------------------------------------------------------
(* Theorems                                                                 *)

\* Before the first call.
LEMMA DeliveryStarts == DeliveryInit => DeliveryInv
<1> SUFFICES ASSUME DeliveryInit PROVE DeliveryInv
  OBVIOUS
<1>1. Inv
  BY InitInv DEF DeliveryInit
<1>2. CallTypes
  BY DEF DeliveryInit, CallTypes, NoCall, Targets, Payloads
<1>3. Owed /\ Meant /\ Cleared
  BY NoCallType DEF DeliveryInit, Owed, Meant, Cleared
<1> QED
  BY <1>1, <1>2, <1>3 DEF DeliveryInv

\* Every step of a call or of the manager under it.
LEMMA DeliveryStep == DeliveryInv /\ [DeliveryNext]_deliveryVars => DeliveryInv'
<1> SUFFICES ASSUME DeliveryInv, [DeliveryNext]_deliveryVars PROVE DeliveryInv'
  OBVIOUS
<1>1. CASE DeliveryNext
  <2>1. Inv'
    BY <1>1, ManagerMoves, NextInv, StutterInv DEF DeliveryInv
  <2>2. CallTypes'
    BY <1>1, TypesMove DEF DeliveryInv
  <2> QED
    BY <1>1, <2>1, <2>2, OwedMoves, MeantMoves, ClearedMoves DEF DeliveryInv
<1>2. CASE UNCHANGED deliveryVars
  <2>1. UNCHANGED vars /\ UNCHANGED <<authenticated, call, ever, throughout>>
    BY <1>2 DEF deliveryVars
  <2>2. Inv'
    BY <2>1, StutterInv DEF DeliveryInv
  <2>3. phase' = phase /\ user_connections' = user_connections
    BY <2>1 DEF vars
  <2>4. CallTypes' /\ Owed' /\ Meant' /\ Cleared'
    BY <2>1, <2>3 DEF DeliveryInv, CallTypes, Owed, Meant, Cleared, ReadIds
  <2> QED
    BY <2>2, <2>4 DEF DeliveryInv
<1> QED
  BY <1>1, <1>2

\* The inductive invariant holds of every behaviour of the calls and the
\* manager.
THEOREM DeliveryInvariance == DeliverySpec => []DeliveryInv
BY DeliveryStarts, DeliveryStep, PTL DEF DeliverySpec

\* The sending half of ConnectionManagerTrait drives the manager only by the
\* manager's own operations: what is proved of ConnectionManager (the limit,
\* the exact index and counters, the bounded registry) holds while calls run.
THEOREM DeliveryRefinesManager == DeliverySpec => Spec
<1>1. DeliveryInit => Init
  BY DEF DeliveryInit
<1>2. [DeliveryNext]_deliveryVars => [Next]_vars
  BY ManagerMoves DEF deliveryVars
<1> QED
  BY <1>1, <1>2, PTL DEF DeliverySpec, Spec

\* Type correctness of the call under way; a call that is evicting knows whom.
THEOREM DeliveryTypeCorrect == DeliverySpec => []DeliveryTypeOK
<1>1. DeliveryInv => DeliveryTypeOK
  BY DEF DeliveryInv, Inv, CallTypes, DeliveryTypeOK
<1> QED
  BY <1>1, DeliveryInvariance, PTL

\* send_frame_to_user, broadcast_frame and the other fan-outs reach every
\* connection that was entitled from the first step of the call to its last,
\* although the table is read entry by entry while connections come, go and
\* are rebound, and although a full queue removes a connection in the middle.
THEOREM NobodyMissedCorrect == DeliverySpec => []NobodyMissed
<1>1. DeliveryInv => NobodyMissed
  BY DEF DeliveryInv, Owed, NobodyMissed
<1> QED
  BY <1>1, DeliveryInvariance, PTL

\* ... and nobody else: a frame for an owner is only queued for connections
\* that belonged to that user in that tenant at some moment of the call, and a
\* message frame only for authenticated ones.
THEOREM AudienceOnlyCorrect == DeliverySpec => []AudienceOnly
<1>1. DeliveryInv => AudienceOnly
  BY DEF DeliveryInv, Meant, Cleared, AudienceOnly
<1> QED
  BY <1>1, DeliveryInvariance, PTL
=============================================================================
