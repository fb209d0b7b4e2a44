--------------------------- MODULE DeviceManager ---------------------------
(***************************************************************************)
(* The device registry of server/device/manager.rs: one lock over two      *)
(* maps.                                                                   *)
(*   devices[o][c]  the platform connection c is registered with in the    *)
(*                  bucket of owner o, None when it is not there           *)
(*   owners[c]      the reverse index, None when c is not registered       *)
(*   strategy       conflict_strategy                                      *)
(* An owner is a (tenant, user) pair; it is a structured key, so distinct  *)
(* owners never share a bucket and can be atoms here.  A bucket that runs  *)
(* empty is deleted by detach; an absent bucket and an empty one answer    *)
(* every query alike, so both are the bucket with no platform.  The        *)
(* strategy is fixed: update_strategy needs the manager by &mut, which     *)
(* nobody has once the manager is shared behind its Arc.                   *)
(***************************************************************************)
EXTENDS DeviceConflict

CONSTANTS Conns, DeviceOwners, Strategies, None

ASSUME StrategiesAssumption == Strategies \subseteq Strategy

ASSUME AbsentAssumption == None \notin DeviceOwners \cup Platforms

VARIABLES strategy, devices, owners

deviceVars == <<strategy, devices, owners>>

InitDevices ==
  /\ strategy \in Strategies
  /\ devices = [o \in DeviceOwners |-> [c \in Conns |-> None]]
  /\ owners = [c \in Conns |-> None]

(* The other connections registered for o, and their platforms.            *)
Others(o, c) == {d \in Conns \ {c} : devices[o][d] # None}

ExistingPlatforms(o, c) == {devices[o][d] : d \in Others(o, c)}

(* A conflict scan over every bucket in which the user has a device.       *)
Conflicts_AnyOwner(o, c, p) ==
  {d \in Conns \ {c} : \E x \in DeviceOwners :
     /\ devices[x][d] # None
     /\ devices[x][d] \in CheckConflict(strategy, p, ExistingPlatforms(x, c))}

(* The connections add_device hands back: those whose platform the         *)
(* strategy wants gone, never the new connection itself.                   *)
Conflicts(o, c, p) ==
  {d \in Others(o, c) :
     devices[o][d] \in CheckConflict(strategy, p, ExistingPlatforms(o, c))}

(* An add_device that leaves the entry of a repeated CONNECT where it was. *)
AddDevice_KeepsOldBucket(o, c, p) ==
  LET kicked == Conflicts(o, c, p)
  IN  /\ devices' = [x \in DeviceOwners |-> [d \in Conns |->
           IF x = o /\ d = c THEN p
           ELSE IF x = o /\ d \in kicked THEN None
           ELSE devices[x][d]]]
      /\ owners' = [d \in Conns |->
           IF d = c THEN o ELSE IF d \in kicked THEN None ELSE owners[d]]
      /\ UNCHANGED strategy

(* An add_device that returns the conflicts and leaves them registered.    *)
AddDevice_KeepsConflicts(o, c, p) ==
  /\ devices' = [x \in DeviceOwners |-> [d \in Conns |->
       IF x = o /\ d = c THEN p
       ELSE IF d = c /\ x = owners[c] THEN None
       ELSE devices[x][d]]]
  /\ owners' = [owners EXCEPT ![c] = o]
  /\ UNCHANGED strategy

(* add_device: c leaves the bucket of another owner it was registered in,  *)
(* the conflicting devices leave both maps, c enters both.                 *)
AddDevice(o, c, p) ==
  LET kicked == Conflicts(o, c, p)
  IN  /\ devices' = [x \in DeviceOwners |-> [d \in Conns |->
           IF x = o /\ d = c THEN p
           ELSE IF d = c /\ x = owners[c] THEN None
           ELSE IF x = o /\ d \in kicked THEN None
           ELSE devices[x][d]]]
      /\ owners' = [d \in Conns |->
           IF d = c THEN o ELSE IF d \in kicked THEN None ELSE owners[d]]
      /\ UNCHANGED strategy

(* detach of c from the bucket it is indexed under, with its index entry.  *)
Unregister(c) ==
  /\ devices' = [x \in DeviceOwners |->
       IF x = owners[c] THEN [devices[x] EXCEPT ![c] = None] ELSE devices[x]]
  /\ owners' = [owners EXCEPT ![c] = None]
  /\ UNCHANGED strategy

(* remove_device: only when c is registered under o.                       *)
RemoveDevice(o, c) ==
  IF owners[c] = o THEN Unregister(c) ELSE UNCHANGED deviceVars

(* remove_connection: whoever c is registered under.                       *)
RemoveDeviceConnection(c) ==
  IF owners[c] # None THEN Unregister(c) ELSE UNCHANGED deviceVars

DeviceNext ==
  \E c \in Conns :
    \/ \E o \in DeviceOwners, p \in Platforms : AddDevice(o, c, p)
    \/ \E o \in DeviceOwners : RemoveDevice(o, c)
    \/ RemoveDeviceConnection(c)

DeviceSpec == InitDevices /\ [][DeviceNext]_deviceVars

-----------------------------------------------------------------------------

(* Both maps are total and hold owners and platforms, or None.             *)
DeviceTypeOK ==
  /\ strategy \in Strategies
  /\ devices \in [DeviceOwners -> [Conns -> Platforms \cup {None}]]
  /\ owners \in [Conns -> DeviceOwners \cup {None}]

(* The reverse index is exact: c is in the bucket of the owner it is       *)
(* indexed under and in no other, so the cleanup on disconnect, which goes *)
(* by connection id, leaves nothing behind (add_device, detach).           *)
OwnersExact ==
  \A c \in Conns, o \in DeviceOwners : owners[c] = o <=> devices[o][c] # None

(* Whatever the order of logins, logouts and repeated CONNECTs, an owner   *)
(* has at most one device of every class of platforms its strategy makes   *)
(* exclusive (check_conflict and the removal of the conflicts).            *)
Exclusive ==
  \A o \in DeviceOwners, k \in ExclusiveClasses(strategy), c, d \in Conns :
    devices[o][c] \in k /\ devices[o][d] \in k => c = d

(* A device loses its registration alone, or to another connection of the  *)
(* same owner that registers in the same step: a login never throws out a  *)
(* device of another tenant or user (the scan of one bucket).              *)
OwnerIsolation ==
  [][\A d \in Conns : owners[d] # None /\ owners'[d] = None =>
       \/ \A c \in Conns \ {d} : owners'[c] = owners[c]
                              /\ \A o \in DeviceOwners : devices'[o][c] = devices[o][c]
       \/ \E c \in Conns \ {d} : owners'[c] = owners[d]]_deviceVars
=============================================================================
