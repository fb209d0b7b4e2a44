------------------------ MODULE ServerSessionProofs ------------------------
(***************************************************************************)
(* Proofs about ServerSession, for any set of connections, users,          *)
(* platforms, strategy and configuration its assumptions allow.            *)
(*                                                                         *)
(* The properties are about what several tasks leave behind for each       *)
(* other: the CONNECT handler of one connection, the kick loops of the     *)
(* others, the task that handles the end, and the pushes.  None of them is *)
(* inductive; SessionInv adds, one part per hand-over:                     *)
(*                                                                         *)
(*   EndsInOrder         the end of a connection is handled after the      *)
(*                       transport closed, and its device is forgotten     *)
(*                       after its entry left the table                    *)
(*   LoginKnown          no handler has a user before authentication       *)
(*   KicksOwned          a connection is in the registry or on one kick    *)
(*                       list, never on both, and only past add_device     *)
(*   OnlineRegistered    a connection in the table that is on no list has  *)
(*                       the device it declared                            *)
(*   VictimTold          past the write of KICKED its victim has the       *)
(*                       frame, is broken, or is out of the table          *)
(*   NegotiatedAfterAck  whatever makes the server use the negotiated      *)
(*                       encoding comes after the CONNECT_ACK              *)
(*   CalledBefore        each callback is made once, by the task whose     *)
(*                       position says so                                  *)
(*                                                                         *)
(* and takes the registry's own invariant, DeviceInv, which is proved      *)
(* first: every step of a session is a step of the registry or leaves it   *)
(* alone.                                                                  *)
(***************************************************************************)
EXTENDS ServerInbound, SequenceTheorems, TLAPS

-----------------------------------------------------------------------------
(* The device registry by itself, for any set of connections, owners,      *)
(* platforms and strategies: its two maps agree, and every owner has at    *)
(* most one device of each exclusive class.  The argument has two halves.  *)
(* ConflictClears is about check_conflict alone: a login inside a class    *)
(* names every platform of that class which is already online.             *)
(* DeviceInvariance lifts it to the registry: the login removes exactly    *)
(* the connections with those platforms before it enters.                  *)

(* The inductive invariant.                                                *)
DeviceInv == DeviceTypeOK /\ OwnersExact /\ Exclusive

(* The first element of a set with one element is that element.            *)
LEMMA SingletonFirst ==
  ASSUME NEW i \in Int, NEW S, S = {i}
  PROVE  First(S) = i
BY DEF First

(* A login of a platform of an exclusive class clears the class: every     *)
(* platform of the class that is online is returned by check_conflict.     *)
LEMMA ConflictClears ==
  ASSUME NEW s \in Strategy, NEW k \in ExclusiveClasses(s),
         NEW new \in k, NEW existing \in SUBSET Platforms
  PROVE  existing \cap k \subseteq CheckConflict(s, new, existing)
<1> USE DEF CheckConflict, ExclusiveClasses
<1>1. CASE s.kind = "AllowAll"
  BY <1>1
<1>2. CASE s.kind = "MobileExclusive"
  BY <1>2 DEF MobileExclusive
<1>3. CASE s.kind = "PlatformExclusive"
  BY <1>3 DEF PlatformExclusive
<1>4. CASE s.kind = "FullyExclusive"
  BY <1>4 DEF FullyExclusive
<1>5. CASE s.kind = "MobileAndPcCoexist"
  <2>1. PICK q : k \in {Mobile, Desktop} \/ (k = {q} /\ q \notin Mobile \cup Desktop)
    BY <1>5
  <2>2. CheckConflict(s, new, existing) = MobileAndPcCoexist(new, existing)
    BY <1>5
  <2> QED
    BY <2>1, <2>2, PlatformsAssumption DEF MobileAndPcCoexist
<1>6. CASE s.kind = "Custom"
  <2> DEFINE g == s.groups
             hits == Hits(g, new, existing)
  <2>1. g \in Seq(SUBSET Platforms) /\ DOMAIN g \subseteq Int
    BY DEF Strategy
  <2>2. CheckConflict(s, new, existing) = Custom(s, new, existing)
    BY <1>6
  <2>3. PICK i \in DOMAIN g : k = g[i] /\ \A j \in DOMAIN g \ {i} : g[j] \cap g[i] = {}
    BY <1>6 DEF IsolatedGroups
  <2>4. CASE existing \cap k = {}
    BY <2>4
  <2>5. CASE existing \cap k # {}
    <3>1. hits = {i}
      BY <2>3, <2>5 DEF Hits
    <3>2. First(hits) = i
      BY <2>1, <2>3, <3>1, SingletonFirst
    <3> QED
      BY <2>2, <2>3, <3>1, <3>2 DEF Custom
  <2> QED
    BY <2>4, <2>5
<1> QED
  BY <1>1, <1>2, <1>3, <1>4, <1>5, <1>6 DEF Strategy, Kinds

(* Every class consists of platforms, so None is in none of them.          *)
LEMMA ClassesArePlatforms ==
  ASSUME NEW s \in Strategy, NEW k \in ExclusiveClasses(s)
  PROVE  k \subseteq Platforms /\ None \notin k
<1>1. CASE s.kind = "Custom"
  <2>1. \A i \in DOMAIN s.groups : s.groups[i] \subseteq Platforms
    BY DEF Strategy
  <2>2. PICK i \in DOMAIN s.groups : k = s.groups[i]
    BY <1>1 DEF ExclusiveClasses, IsolatedGroups
  <2> QED
    BY <2>1, <2>2, AbsentAssumption
<1>2. CASE s.kind # "Custom"
  BY <1>2, PlatformsAssumption, AbsentAssumption DEF ExclusiveClasses, Strategy, Kinds
<1> QED
  BY <1>1, <1>2

(* A login keeps the registry exact and exclusive.                         *)
LEMMA AddDeviceInv ==
  ASSUME DeviceInv, NEW o \in DeviceOwners, NEW c \in Conns, NEW p \in Platforms,
         AddDevice(o, c, p)
  PROVE  DeviceInv'
<1> DEFINE kicked == Conflicts(o, c, p)
           existing == ExistingPlatforms(o, c)
<1> USE DEF DeviceInv
<1>0. /\ kicked \subseteq Conns /\ c \notin kicked
      /\ \A d \in kicked : devices[o][d] # None
      /\ existing \in SUBSET Platforms
  BY DEF Conflicts, Others, ExistingPlatforms, DeviceTypeOK
<1>1. /\ devices' = [x \in DeviceOwners |-> [d \in Conns |->
           IF x = o /\ d = c THEN p
           ELSE IF d = c /\ x = owners[c] THEN None
           ELSE IF x = o /\ d \in kicked THEN None
           ELSE devices[x][d]]]
      /\ owners' = [d \in Conns |->
           IF d = c THEN o ELSE IF d \in kicked THEN None ELSE owners[d]]
      /\ strategy' = strategy
  BY DEF AddDevice
<1> HIDE DEF kicked, existing
<1>2. DeviceTypeOK'
  <2>1. \A x \in DeviceOwners, d \in Conns : devices[x][d] \in Platforms \cup {None}
    BY DEF DeviceTypeOK
  <2>2. \A d \in Conns : owners[d] \in DeviceOwners \cup {None}
    BY DEF DeviceTypeOK
  <2> QED
    BY <1>1, <2>1, <2>2 DEF DeviceTypeOK
<1>3. OwnersExact'
  <2> SUFFICES ASSUME NEW d \in Conns, NEW x \in DeviceOwners
               PROVE  owners'[d] = x <=> devices'[x][d] # None
    BY DEF OwnersExact
  <2>1. p # None /\ x # None /\ o # None
    BY AbsentAssumption
  <2>2. owners[d] = x <=> devices[x][d] # None
    BY DEF OwnersExact
  <2>3. d \in kicked => owners[d] = o
    BY <1>0 DEF OwnersExact
  <2> QED
    BY <1>0, <1>1, <2>1, <2>2, <2>3
<1>4. Exclusive'
  <2> SUFFICES ASSUME NEW x \in DeviceOwners, NEW k \in ExclusiveClasses(strategy),
                      NEW d \in Conns, NEW e \in Conns,
                      devices'[x][d] \in k, devices'[x][e] \in k, d # e
               PROVE  FALSE
    BY <1>1 DEF Exclusive
  <2>1. strategy \in Strategy
    BY StrategiesAssumption DEF DeviceTypeOK
  <2>2. k \subseteq Platforms /\ None \notin k
    BY <2>1, ClassesArePlatforms
  <2>3. ~(devices[x][d] \in k /\ devices[x][e] \in k)
    BY DEF Exclusive
  <2>4. \A f \in Conns : devices'[x][f] \in k /\ ~(x = o /\ f = c)
                           => devices[x][f] \in k /\ ~(x = o /\ f \in kicked)
    BY <1>1, <2>2
  <2>5. x = o /\ (d = c \/ e = c)
    BY <2>3, <2>4
  <2>6. p \in k
    BY <1>1, <2>5
  <2>7. PICK f \in Conns \ {c} : devices[o][f] \in k /\ f \notin kicked
    BY <2>4, <2>5
  <2>8. devices[o][f] \in existing
    BY <2>2, <2>7 DEF existing, ExistingPlatforms, Others
  <2>9. devices[o][f] \in CheckConflict(strategy, p, existing)
    BY <1>0, <2>1, <2>6, <2>7, <2>8, ConflictClears
  <2>10. f \in kicked
    BY <2>2, <2>7, <2>9 DEF kicked, Conflicts, Others, existing
  <2> QED
    BY <2>7, <2>10
<1> QED
  BY <1>2, <1>3, <1>4

(* A removal keeps them too.                                               *)
LEMMA UnregisterInv ==
  ASSUME DeviceInv, NEW c \in Conns, Unregister(c)
  PROVE  DeviceInv'
<1> USE DEF DeviceInv
<1>1. /\ devices' = [x \in DeviceOwners |->
           IF x = owners[c] THEN [devices[x] EXCEPT ![c] = None] ELSE devices[x]]
      /\ owners' = [owners EXCEPT ![c] = None]
      /\ strategy' = strategy
  BY DEF Unregister
<1>2. \A x \in DeviceOwners, d \in Conns :
        devices'[x][d] = IF x = owners[c] /\ d = c THEN None ELSE devices[x][d]
  BY <1>1 DEF DeviceTypeOK
<1>3. DeviceTypeOK'
  BY <1>1 DEF DeviceTypeOK
<1>4. OwnersExact'
  BY <1>1, <1>2, AbsentAssumption DEF OwnersExact, DeviceTypeOK
<1>5. Exclusive'
  <2> SUFFICES ASSUME NEW x \in DeviceOwners, NEW k \in ExclusiveClasses(strategy),
                      NEW d \in Conns, NEW e \in Conns,
                      devices'[x][d] \in k, devices'[x][e] \in k
               PROVE  d = e
    BY <1>1 DEF Exclusive
  <2>1. None \notin k
    BY StrategiesAssumption, ClassesArePlatforms DEF DeviceTypeOK
  <2> QED
    BY <1>2, <2>1 DEF Exclusive
<1> QED
  BY <1>3, <1>4, <1>5

(* The empty registry is exact and exclusive.                              *)
LEMMA RegistryStarts ==
  ASSUME InitDevices
  PROVE  DeviceInv
<1>1. DeviceTypeOK /\ OwnersExact
  BY AbsentAssumption DEF InitDevices, DeviceTypeOK, OwnersExact
<1>2. Exclusive
  <2> SUFFICES ASSUME NEW k \in ExclusiveClasses(strategy) PROVE None \notin k
    BY DEF Exclusive, InitDevices
  <2> QED
    BY StrategiesAssumption, ClassesArePlatforms DEF InitDevices
<1> QED
  BY <1>1, <1>2 DEF DeviceInv

(* The registry stays exact and exclusive along every behaviour.           *)
THEOREM DeviceInvariance == DeviceSpec => []DeviceInv
<1>1. InitDevices => DeviceInv
  BY RegistryStarts
<1>2. DeviceInv /\ [DeviceNext]_deviceVars => DeviceInv'
  <2> SUFFICES ASSUME DeviceInv, [DeviceNext]_deviceVars PROVE DeviceInv'
    OBVIOUS
  <2>1. ASSUME NEW c \in Conns, NEW o \in DeviceOwners, NEW p \in Platforms,
               AddDevice(o, c, p)
        PROVE  DeviceInv'
    BY <2>1, AddDeviceInv
  <2>2. CASE UNCHANGED deviceVars
    BY <2>2 DEF deviceVars, DeviceInv, DeviceTypeOK, OwnersExact, Exclusive
  <2>3. ASSUME NEW c \in Conns, NEW o \in DeviceOwners, RemoveDevice(o, c)
        PROVE  DeviceInv'
    BY <2>2, <2>3, UnregisterInv DEF RemoveDevice
  <2>4. ASSUME NEW c \in Conns, RemoveDeviceConnection(c)
        PROVE  DeviceInv'
    BY <2>2, <2>4, UnregisterInv DEF RemoveDeviceConnection
  <2> QED
    BY <2>1, <2>2, <2>3, <2>4 DEF DeviceNext
<1> QED
  BY <1>1, <1>2, PTL DEF DeviceSpec

(* The cleanup index is exact for every number of connections and owners.  *)
THEOREM OwnersCorrect == DeviceSpec => []OwnersExact
BY DeviceInvariance, PTL DEF DeviceInv

(* No strategy ever leaves an owner with two devices of an exclusive       *)
(* class, whatever the platforms and the strategy's parameters.            *)
THEOREM ExclusiveCorrect == DeviceSpec => []Exclusive
BY DeviceInvariance, PTL DEF DeviceInv

(* What one step may do to the registrations of others: OwnerIsolation as  *)
(* an action.                                                              *)
Isolates ==
  \A d \in Conns : owners[d] # None /\ owners'[d] = None =>
    \/ \A c \in Conns \ {d} : owners'[c] = owners[c]
                           /\ \A o \in DeviceOwners : devices'[o][c] = devices[o][c]
    \/ \E c \in Conns \ {d} : owners'[c] = owners[d]

\* A removal by connection touches its owner's devices only.
LEMMA UnregisterIsolates ==
  ASSUME DeviceInv, NEW c \in Conns, Unregister(c)
  PROVE  Isolates
<1>1. \A x \in DeviceOwners, d \in Conns \ {c} : devices'[x][d] = devices[x][d]
  BY DEF Unregister, DeviceInv, DeviceTypeOK
<1>2. \A d \in Conns \ {c} : owners'[d] = owners[d]
  BY DEF Unregister, DeviceInv, DeviceTypeOK
<1> QED
  BY <1>1, <1>2 DEF Isolates

\* ... and so does an add, with what it throws out.
LEMMA AddDeviceIsolates ==
  ASSUME DeviceInv, NEW o \in DeviceOwners, NEW c \in Conns, NEW p \in Platforms,
         AddDevice(o, c, p)
  PROVE  Isolates
<1> SUFFICES ASSUME NEW d \in Conns, owners[d] # None, owners'[d] = None
             PROVE  \E e \in Conns \ {d} : owners'[e] = owners[d]
  BY DEF Isolates
<1>1. o # None /\ owners'[c] = o /\ d # c
  BY AbsentAssumption DEF AddDevice
<1>2. d \in Conflicts(o, c, p)
  BY <1>1 DEF AddDevice
<1>3. devices[o][d] # None
  BY <1>2 DEF Conflicts, Others
<1>4. owners[d] = o
  BY <1>3 DEF DeviceInv, OwnersExact
<1> QED
  BY <1>1, <1>4

(* A login throws out devices of its own owner only, and a logout its own  *)
(* device only, whatever the strategy (add_device, remove_connection).     *)
THEOREM IsolationCorrect == DeviceSpec => OwnerIsolation
<1>1. DeviceInv /\ [DeviceNext]_deviceVars => [Isolates]_deviceVars
  BY AddDeviceIsolates, UnregisterIsolates DEF DeviceNext, RemoveDevice, RemoveDeviceConnection
<1>2. DeviceSpec => [][Isolates]_deviceVars
  BY <1>1, DeviceInvariance, PTL DEF DeviceSpec
<1> QED
  BY <1>2 DEF OwnerIsolation, Isolates

-----------------------------------------------------------------------------
(* The session.                                                            *)

(* The steps before the identity is known, and those of the kick loop.     *)
Unknown == {"none", "setup", "attach", "idle", "auth", "reject"}
Kicking == {"kick_send", "kick_forget", "kick_remove"}

Kicked(c) == \E i \in DOMAIN wire[c] : wire[c][i].what = "kicked"
Acked(c) == \E i \in DOMAIN wire[c] : wire[c][i].what = "ack"

(* Every variable but the registry's has its type.                         *)
SessionTypes ==
  /\ table \subseteq Conns
  /\ transport \in [Conns -> {"none", "open", "broken", "closed"}]
  /\ observed \subseteq Conns
  /\ pc \in [Conns -> Steps]
  /\ disc \in [Conns -> {"none", "spawned", "notified", "removed", "done"}]
  /\ login \in [Conns -> [owner : DeviceOwners \cup {None},
                         platform : Platforms \cup {None}]]
  /\ authenticated \subseteq Conns
  /\ profiled \subseteq Conns
  /\ completed \subseteq Conns
  /\ victims \in [Conns -> SUBSET Conns]
  /\ victim \in [Conns -> Conns \cup {None}]
  /\ kick \in [Conns -> Encodings \cup {None}]
  /\ push \in [Conns -> Encodings \cup {"failed", None}]
  /\ wire \in [Conns -> Seq([what : Frames, enc : Encodings])]
  /\ app \in [Conns -> Seq({"connect", "disconnect"})]

(* A terminal event reaches the observer after its connection is closed,   *)
(* and the device is forgotten after the entry is gone.                    *)
EndsInOrder ==
  \A c \in Conns :
    /\ pc[c] \in {"none", "setup", "attach"} => disc[c] = "none" /\ c \notin observed
    /\ disc[c] # "none" => transport[c] = "closed"
    /\ disc[c] \in {"removed", "done"} => c \notin table

(* The handler works for nobody before authentication.                     *)
LoginKnown ==
  \A c \in Conns : pc[c] \in Unknown => login[c].owner = None

(* Only a login past add_device is in the registry or on somebody's list,  *)
(* and never on both; a list is worked off by the loop that made it.       *)
KicksOwned ==
  \A c \in Conns :
    /\ pc[c] \notin Registered => owners[c] = None /\ \A h \in Conns : c \notin victims[h]
    /\ pc[c] \notin Kicking \cup {"kick"} => victims[c] = {}
    /\ pc[c] \in Kicking => victim[c] \in victims[c]
    /\ pc[c] = "kick_send" => kick[c] \in Encodings

(* A connection in the table that nobody is about to kick has the device   *)
(* in the registry that its login declared.                                *)
OnlineRegistered ==
  \A c \in table :
    /\ pc[c] \in Registered
    /\ login[c].owner # None /\ login[c].platform # None
    /\ \A h \in Conns : c \notin victims[h]
    => devices[login[c].owner][c] = login[c].platform

(* Past the write of the KICKED frame, the victim has it or cannot be      *)
(* written to, or it is out of the table.                                  *)
VictimTold ==
  \A c \in Conns :
    pc[c] \in {"kick_forget", "kick_remove"} /\ victim[c] \in table =>
      transport[victim[c]] # "open" \/ Kicked(victim[c]) \/ kick[c] = None

(* What makes the server use the negotiated encoding comes after the       *)
(* CONNECT_ACK.                                                            *)
NegotiatedAfterAck ==
  \A c \in Conns :
    \/ c \in completed
    \/ push[c] = "negotiated"
    \/ pc[c] \in {"finalize", "complete", "on_connect", "late_reject"}
    => Acked(c)

(* Where the task of a callback is, once it was made.                      *)
CalledBefore ==
  \A c \in Conns :
    /\ Called(c, "connect") => pc[c] \in {"late_reject", "remove", "done"}
    /\ Called(c, "disconnect") => disc[c] \in {"notified", "removed", "done"}
    /\ \A i, j \in DOMAIN app[c] : app[c][i] = app[c][j] => i = j

(* The inductive invariant.                                                *)
SessionInv ==
  /\ SessionTypes
  /\ DeviceInv
  /\ EndsInOrder
  /\ LoginKnown
  /\ KicksOwned
  /\ WinnerSpared
  /\ OnlineRegistered
  /\ VictimTold
  /\ NegotiatedAfterAck
  /\ ReadableBeforeAck
  /\ CalledBefore

-----------------------------------------------------------------------------

NextOf(c) ==
    \/ AddConnection(c)
    \/ Setup(c)
    \/ Connect(c)
    \/ Handler(c)
    \/ ServerDisconnect(c)
    \/ TransportBreaks(c)
    \/ TransportCloses(c)
    \/ Disconnecting(c)
    \/ PushSnapshot(c)
    \/ PushWrite(c)
    \/ PushFails(c)
    \/ PushEvicts(c)
    \/ PushDrop(c)

\* A connection starts with nothing written to it.
LEMMA NoFrames ==
  \A S : <<>> \in Seq(S)
BY EmptySeq

\* Writing a frame, and calling the application, keep the types.
LEMMA WrittenType ==
  ASSUME SessionTypes, NEW c \in Conns, NEW what \in Frames, NEW enc \in Encodings
  PROVE  Written(c, what, enc) \in [Conns -> Seq([what : Frames, enc : Encodings])]
<1> DEFINE S == [what : Frames, enc : Encodings]
           f == [what |-> what, enc |-> enc]
<1>1. wire \in [Conns -> Seq(S)]
  BY DEF SessionTypes
<1>2. f \in S
  OBVIOUS
<1> HIDE DEF S, f
<1>3. Append(wire[c], f) \in Seq(S)
  BY <1>1, <1>2, AppendProperties
<1>4. [wire EXCEPT ![c] = Append(@, f)] \in [Conns -> Seq(S)]
  BY <1>1, <1>3
<1> QED
  BY <1>1, <1>4 DEF Written, S, f

\* A callback of the application is noted.
LEMMA CalledType ==
  ASSUME SessionTypes, NEW c \in Conns, NEW callback \in {"connect", "disconnect"}
  PROVE  [app EXCEPT ![c] = Append(@, callback)] \in [Conns -> Seq({"connect", "disconnect"})]
<1> DEFINE S == {"connect", "disconnect"}
<1>1. app \in [Conns -> Seq(S)]
  BY DEF SessionTypes
<1> HIDE DEF S
<1>2. Append(app[c], callback) \in Seq(S)
  BY <1>1, AppendProperties DEF S
<1>3. [app EXCEPT ![c] = Append(@, callback)] \in [Conns -> Seq(S)]
  BY <1>1, <1>2, SMTT(30)
<1> QED
  BY <1>3 DEF S

\* Every step keeps the types.
LEMMA TypesNext ==
  ASSUME SessionInv, NEW c \in Conns, NextOf(c)
  PROVE  SessionTypes'
<1>a. SessionTypes /\ KicksOwned
  BY DEF SessionInv
<1>b. \A d \in Conns, what \in Frames, enc \in Encodings :
        Written(d, what, enc) \in [Conns -> Seq([what : Frames, enc : Encodings])]
  BY <1>a, WrittenType
<1>c. \A callback \in {"connect", "disconnect"} :
        [app EXCEPT ![c] = Append(@, callback)] \in [Conns -> Seq({"connect", "disconnect"})]
  BY <1>a, CalledType
<1> USE <1>a DEF setupVars, infoVars, kickVars, outVars, Goto, SessionTypes, Steps
<1>1. ASSUME AddConnection(c) PROVE SessionTypes'
  BY <1>1 DEF AddConnection
<1>2. ASSUME SetupLookup(c) PROVE SessionTypes'
  BY <1>2 DEF SetupLookup
<1>3. ASSUME AttachObserver(c) PROVE SessionTypes'
  BY <1>3 DEF AttachObserver
<1>4. ASSUME Connect(c) PROVE SessionTypes'
  BY <1>4 DEF Connect
<1>5. ASSUME ConnectMalformed(c) PROVE SessionTypes'
  BY <1>5 DEF ConnectMalformed
<1>6. ASSUME NEW o \in DeviceOwners \cup {None}, NEW p \in Platforms \cup {None},
             Authenticate(c, o, p) PROVE SessionTypes'
  BY <1>6 DEF Authenticate
<1>7. ASSUME AuthenticationFails(c) PROVE SessionTypes'
  BY <1>7 DEF AuthenticationFails
<1>8. ASSUME SendConnectRejection(c) PROVE SessionTypes'
  BY <1>8, <1>b DEF SendConnectRejection, Frames, Encodings
<1>9. ASSUME UpdateConnectionInfo(c) PROVE SessionTypes'
  BY <1>9 DEF UpdateConnectionInfo
<1>10. ASSUME MarkConnectionAuthenticated(c) PROVE SessionTypes'
  BY <1>10 DEF MarkConnectionAuthenticated
<1>11. ASSUME RegisterDevice(c) PROVE SessionTypes'
  <2>1. \A o, p : Conflicts(o, c, p) \in SUBSET Conns
    BY DEF Conflicts, Others
  <2>2. victims' \in [Conns -> SUBSET Conns]
    <3>1. CASE victims' = victims
      BY <3>1
    <3>2. ASSUME NEW o, NEW p, victims' = [victims EXCEPT ![c] = Conflicts(o, c, p)]
          PROVE  victims' \in [Conns -> SUBSET Conns]
      BY <2>1, <3>2
    <3> QED
      BY <1>11, <3>1, <3>2 DEF RegisterDevice
  <2> QED
    BY <1>11, <2>2 DEF RegisterDevice
<1>12. ASSUME NEW v \in Conns, KickLookup(c, v) PROVE SessionTypes'
  BY <1>12 DEF KickLookup, Encodings
<1>13. ASSUME KickSend(c) PROVE SessionTypes'
  BY <1>13, <1>b, ZenonT(60) DEF KickSend, KicksOwned, Kicking, Frames
<1>13a. ASSUME KickUnserialized(c) PROVE SessionTypes'
  BY <1>13a DEF KickUnserialized
<1>14. ASSUME KickForgetDevice(c) PROVE SessionTypes'
  BY <1>14 DEF KickForgetDevice
<1>15. ASSUME KickRemove(c) PROVE SessionTypes'
  BY <1>15 DEF KickRemove
<1>16. ASSUME KickDone(c) PROVE SessionTypes'
  BY <1>16 DEF KickDone
<1>17. ASSUME SendConnectAck(c) PROVE SessionTypes'
  BY <1>17, <1>b DEF SendConnectAck, Frames, Encodings
<1>18. ASSUME FinalizeLookup(c) PROVE SessionTypes'
  BY <1>18 DEF FinalizeLookup
<1>19. ASSUME CompleteNegotiation(c) PROVE SessionTypes'
  BY <1>19 DEF CompleteNegotiation
<1>20. ASSUME OnConnect(c) PROVE SessionTypes'
  <2>1. PICK step \in {"done", "late_reject"} : pc' = [pc EXCEPT ![c] = step]
    BY <1>20 DEF OnConnect
  <2> QED
    BY <1>20, <1>c, <2>1 DEF OnConnect
<1>21. ASSUME SendPostAckRejection(c) PROVE SessionTypes'
  BY <1>21, <1>b DEF SendPostAckRejection, Frames, Encodings
<1>22. ASSUME RemoveFailed(c) PROVE SessionTypes'
  BY <1>22 DEF RemoveFailed
<1>23. ASSUME ServerDisconnect(c) PROVE SessionTypes'
  BY <1>23 DEF ServerDisconnect
<1>24. ASSUME TransportBreaks(c) PROVE SessionTypes'
  BY <1>24 DEF TransportBreaks
<1>25. ASSUME TransportCloses(c) PROVE SessionTypes'
  BY <1>25 DEF TransportCloses
<1>26. ASSUME OnDisconnect(c) PROVE SessionTypes'
  BY <1>26, <1>c DEF OnDisconnect
<1>27. ASSUME DisconnectRemove(c) PROVE SessionTypes'
  BY <1>27 DEF DisconnectRemove
<1>28. ASSUME DisconnectDevice(c) PROVE SessionTypes'
  BY <1>28 DEF DisconnectDevice
<1>29. ASSUME PushSnapshot(c) PROVE SessionTypes'
  BY <1>29 DEF PushSnapshot, Encodings
<1>30. ASSUME PushWrite(c) PROVE SessionTypes'
  BY <1>30, <1>b DEF PushWrite, Frames, Encodings
<1>31. ASSUME PushFails(c) PROVE SessionTypes'
  BY <1>31, <1>b, ZenonT(60) DEF PushFails, Frames, Encodings
<1>32. ASSUME PushEvicts(c) PROVE SessionTypes'
  BY <1>32 DEF PushEvicts
<1>33. ASSUME PushDrop(c) PROVE SessionTypes'
  BY <1>33 DEF PushDrop
<1> QED
  BY <1>1, <1>2, <1>3, <1>4, <1>5, <1>6, <1>7, <1>8, <1>9, <1>10, <1>11, <1>12, <1>13, <1>13a, <1>14, <1>15, <1>16, <1>17, <1>18, <1>19, <1>20, <1>21, <1>22, <1>23, <1>24, <1>25, <1>26, <1>27, <1>28, <1>29, <1>30, <1>31, <1>32, <1>33 DEF NextOf, Setup, Handler, Disconnecting

\* Forgetting the victim's device touches no other connection's.
LEMMA VictimForgotten ==
  ASSUME SessionInv, NEW c \in Conns, KickForgetDevice(c)
  PROVE  UNCHANGED deviceVars
<1>1. victim[c] \in Conns /\ owners[victim[c]] = None
  BY DEF SessionInv, SessionTypes, KicksOwned, Kicking, WinnerSpared, KickForgetDevice
<1>2. CASE Unregister(victim[c])
  BY <1>1, <1>2, AbsentAssumption
     DEF Unregister, deviceVars, SessionInv, DeviceInv, DeviceTypeOK
<1> QED
  BY <1>2 DEF KickForgetDevice, RemoveDevice

\* The end of a connection forgets its own device and no other.
LEMMA OwnDeviceForgotten ==
  ASSUME SessionInv, NEW c \in Conns, DisconnectDevice(c)
  PROVE  /\ owners'[c] = None
         /\ \A d \in Conns \ {c} :
              owners'[d] = owners[d] /\ \A x \in DeviceOwners : devices'[x][d] = devices[x][d]
         /\ strategy' = strategy
<1>1. CASE Unregister(c)
  BY <1>1 DEF Unregister, SessionInv, DeviceInv, DeviceTypeOK
<1> QED
  BY <1>1 DEF DisconnectDevice, RemoveDeviceConnection, deviceVars

\* add_device: the winner's device is registered, and the conflicting ones
\* leave the registry for the winner's kick list.
LEMMA Registration ==
  ASSUME SessionInv, NEW c \in Conns, RegisterDevice(c),
         login[c].owner # None, login[c].platform # None
  PROVE  /\ owners'[c] = login[c].owner
         /\ devices'[login[c].owner][c] = login[c].platform
         /\ c \notin victims'[c]
         /\ \A d \in victims'[c] : d \in Conns /\ owners[d] = login[c].owner /\ owners'[d] = None
         /\ \A d \in Conns \ ({c} \cup victims'[c]) :
              owners'[d] = owners[d] /\ \A x \in DeviceOwners : devices'[x][d] = devices[x][d]
         /\ \A h \in Conns \ {c} : victims'[h] = victims[h]
<1> DEFINE o == login[c].owner
           p == login[c].platform
           kicked == Conflicts(o, c, p)
<1>0. o \in DeviceOwners /\ p \in Platforms
  BY DEF SessionInv, SessionTypes
<1>1. AddDevice(o, c, p) /\ victims' = [victims EXCEPT ![c] = kicked]
  BY DEF RegisterDevice
<1>2. victims'[c] = kicked /\ \A h \in Conns \ {c} : victims'[h] = victims[h]
  BY <1>1 DEF SessionInv, SessionTypes
<1>3. /\ kicked \subseteq Conns \ {c}
      /\ \A d \in kicked : devices[o][d] # None
  BY DEF Conflicts, Others
<1>4. \A d \in kicked : owners[d] = o
  BY <1>0, <1>3 DEF SessionInv, DeviceInv, OwnersExact
<1>5. /\ devices' = [x \in DeviceOwners |-> [d \in Conns |->
           IF x = o /\ d = c THEN p
           ELSE IF d = c /\ x = owners[c] THEN None
           ELSE IF x = o /\ d \in kicked THEN None
           ELSE devices[x][d]]]
      /\ owners' = [d \in Conns |->
           IF d = c THEN o ELSE IF d \in kicked THEN None ELSE owners[d]]
  BY <1>1 DEF AddDevice
<1> HIDE DEF kicked, o, p
<1>6. owners'[c] = o /\ devices'[o][c] = p
  BY <1>0, <1>5
<1>7. \A d \in Conns \ ({c} \cup kicked) :
              owners'[d] = owners[d] /\ \A x \in DeviceOwners : devices'[x][d] = devices[x][d]
  BY <1>5
<1>8. \A d \in kicked : owners'[d] = None
  BY <1>3, <1>5
<1> QED
  BY <1>2, <1>3, <1>4, <1>6, <1>7, <1>8 DEF o, p

\* Every step of a session is a step of the registry, or leaves it alone.
LEMMA RegistryNext ==
  ASSUME SessionInv, NEW c \in Conns, NextOf(c)
  PROVE  DeviceInv'
<1>a. DeviceInv /\ SessionTypes
  BY DEF SessionInv
<1>1. CASE UNCHANGED deviceVars
  BY <1>1, <1>a DEF deviceVars, DeviceInv, DeviceTypeOK, OwnersExact, Exclusive
<1>2. ASSUME RegisterDevice(c) PROVE DeviceInv'
  BY <1>2, <1>1, <1>a, AddDeviceInv DEF RegisterDevice, SessionTypes, deviceVars
<1>3. ASSUME DisconnectDevice(c) PROVE DeviceInv'
  BY <1>3, <1>1, <1>a, UnregisterInv DEF DisconnectDevice, RemoveDeviceConnection
<1>4. ASSUME KickForgetDevice(c) PROVE DeviceInv'
  BY <1>4, <1>1, VictimForgotten
<1>5. ASSUME
        \/ AddConnection(c) \/ SetupLookup(c) \/ AttachObserver(c) \/ Connect(c)
        \/ ConnectMalformed(c)
        \/ \E o, p : Authenticate(c, o, p)
        \/ AuthenticationFails(c) \/ SendConnectRejection(c)
        \/ UpdateConnectionInfo(c) \/ MarkConnectionAuthenticated(c)
      PROVE DeviceInv'
  BY <1>5, <1>1 DEF AddConnection, SetupLookup, AttachObserver, Connect,
  ConnectMalformed, Authenticate, AuthenticationFails, SendConnectRejection,
  UpdateConnectionInfo, MarkConnectionAuthenticated, deviceVars
<1>6. ASSUME
        \/ \E v : KickLookup(c, v)
        \/ KickSend(c) \/ KickUnserialized(c) \/ KickRemove(c) \/ KickDone(c) \/ SendConnectAck(c)
        \/ FinalizeLookup(c) \/ CompleteNegotiation(c) \/ OnConnect(c)
        \/ SendPostAckRejection(c) \/ RemoveFailed(c)
      PROVE DeviceInv'
  BY <1>6, <1>1 DEF KickLookup, KickSend, KickUnserialized, KickRemove, KickDone, SendConnectAck,
  FinalizeLookup, CompleteNegotiation, OnConnect, SendPostAckRejection,
  RemoveFailed, deviceVars
<1>7. ASSUME
        \/ ServerDisconnect(c) \/ TransportBreaks(c) \/ TransportCloses(c)
        \/ OnDisconnect(c) \/ DisconnectRemove(c) \/ PushSnapshot(c)
        \/ PushWrite(c) \/ PushFails(c) \/ PushEvicts(c) \/ PushDrop(c)
      PROVE DeviceInv'
  BY <1>7, <1>1 DEF ServerDisconnect, TransportBreaks, TransportCloses,
  OnDisconnect, DisconnectRemove, PushSnapshot, PushWrite, PushFails,
  PushEvicts, PushDrop, deviceVars
<1> QED
  BY <1>2, <1>3, <1>4, <1>5, <1>6, <1>7 DEF NextOf, Setup, Handler,
  Disconnecting

\* The order of the end of a connection.
LEMMA EndsNext ==
  ASSUME SessionInv, NEW c \in Conns, NextOf(c)
  PROVE  EndsInOrder'
<1>a. SessionTypes /\ EndsInOrder
  BY DEF SessionInv
<1> SUFFICES ASSUME NEW d \in Conns PROVE EndsInOrder!(d)'
  BY DEF EndsInOrder
<1> USE <1>a DEF deviceVars, setupVars, infoVars, kickVars, outVars, Goto,
       SessionTypes, EndsInOrder
<1>1. ASSUME
        \/ AddConnection(c) \/ SetupLookup(c) \/ AttachObserver(c) \/ Connect(c)
        \/ ConnectMalformed(c)
        \/ \E o, p : Authenticate(c, o, p)
        \/ AuthenticationFails(c) \/ SendConnectRejection(c)
        \/ UpdateConnectionInfo(c) \/ MarkConnectionAuthenticated(c)
        \/ RegisterDevice(c)
      PROVE EndsInOrder!(d)'
  BY <1>1 DEF AddConnection, SetupLookup, AttachObserver, Connect,
  ConnectMalformed, Authenticate, AuthenticationFails, SendConnectRejection,
  UpdateConnectionInfo, MarkConnectionAuthenticated, RegisterDevice
<1>2. ASSUME
        \/ \E v : KickLookup(c, v)
        \/ KickSend(c) \/ KickUnserialized(c) \/ KickForgetDevice(c) \/ KickRemove(c) \/ KickDone(c)
        \/ SendConnectAck(c) \/ FinalizeLookup(c) \/ CompleteNegotiation(c)
        \/ OnConnect(c) \/ SendPostAckRejection(c) \/ RemoveFailed(c)
      PROVE EndsInOrder!(d)'
  BY <1>2 DEF KickLookup, KickSend, KickUnserialized, KickForgetDevice, KickRemove, KickDone,
  SendConnectAck, FinalizeLookup, CompleteNegotiation, OnConnect,
  SendPostAckRejection, RemoveFailed
<1>3. ASSUME
        \/ ServerDisconnect(c) \/ TransportBreaks(c) \/ TransportCloses(c)
        \/ OnDisconnect(c) \/ DisconnectRemove(c) \/ DisconnectDevice(c)
        \/ PushSnapshot(c) \/ PushWrite(c) \/ PushFails(c) \/ PushEvicts(c)
        \/ PushDrop(c)
      PROVE EndsInOrder!(d)'
  BY <1>3 DEF ServerDisconnect, TransportBreaks, TransportCloses, OnDisconnect,
  DisconnectRemove, DisconnectDevice, PushSnapshot, PushWrite, PushFails,
  PushEvicts, PushDrop
<1> QED
  BY <1>1, <1>2, <1>3 DEF NextOf, Setup, Handler, Disconnecting

\* The user is known from authentication on.
LEMMA LoginNext ==
  ASSUME SessionInv, NEW c \in Conns, NextOf(c)
  PROVE  LoginKnown'
<1>a. SessionTypes /\ LoginKnown
  BY DEF SessionInv
<1> SUFFICES ASSUME NEW d \in Conns PROVE LoginKnown!(d)'
  BY DEF LoginKnown
<1> USE <1>a DEF deviceVars, setupVars, infoVars, kickVars, outVars, Goto,
       SessionTypes, LoginKnown, Unknown
<1>1. ASSUME
        \/ AddConnection(c) \/ SetupLookup(c) \/ AttachObserver(c) \/ Connect(c)
        \/ ConnectMalformed(c)
        \/ \E o, p : Authenticate(c, o, p)
        \/ AuthenticationFails(c) \/ SendConnectRejection(c)
        \/ UpdateConnectionInfo(c) \/ MarkConnectionAuthenticated(c)
        \/ RegisterDevice(c)
      PROVE LoginKnown!(d)'
  BY <1>1 DEF AddConnection, SetupLookup, AttachObserver, Connect,
  ConnectMalformed, Authenticate, AuthenticationFails, SendConnectRejection,
  UpdateConnectionInfo, MarkConnectionAuthenticated, RegisterDevice
<1>2. ASSUME
        \/ \E v : KickLookup(c, v)
        \/ KickSend(c) \/ KickUnserialized(c) \/ KickForgetDevice(c) \/ KickRemove(c) \/ KickDone(c)
        \/ SendConnectAck(c) \/ FinalizeLookup(c) \/ CompleteNegotiation(c)
        \/ OnConnect(c) \/ SendPostAckRejection(c) \/ RemoveFailed(c)
      PROVE LoginKnown!(d)'
  BY <1>2 DEF KickLookup, KickSend, KickUnserialized, KickForgetDevice, KickRemove, KickDone,
  SendConnectAck, FinalizeLookup, CompleteNegotiation, OnConnect,
  SendPostAckRejection, RemoveFailed
<1>3. ASSUME
        \/ ServerDisconnect(c) \/ TransportBreaks(c) \/ TransportCloses(c)
        \/ OnDisconnect(c) \/ DisconnectRemove(c) \/ DisconnectDevice(c)
        \/ PushSnapshot(c) \/ PushWrite(c) \/ PushFails(c) \/ PushEvicts(c)
        \/ PushDrop(c)
      PROVE LoginKnown!(d)'
  BY <1>3 DEF ServerDisconnect, TransportBreaks, TransportCloses, OnDisconnect,
  DisconnectRemove, DisconnectDevice, PushSnapshot, PushWrite, PushFails,
  PushEvicts, PushDrop
<1> QED
  BY <1>1, <1>2, <1>3 DEF NextOf, Setup, Handler, Disconnecting

\* Who is on a kick list, and who works on it.
LEMMA KicksNext ==
  ASSUME SessionInv, NEW c \in Conns, NextOf(c)
  PROVE  KicksOwned'
<1>a. SessionTypes /\ KicksOwned /\ DeviceInv
  BY DEF SessionInv
<1> SUFFICES ASSUME NEW d \in Conns PROVE KicksOwned!(d)'
  BY DEF KicksOwned
<1> USE <1>a DEF deviceVars, setupVars, infoVars, kickVars, outVars, Goto,
       SessionTypes, KicksOwned, Registered, Kicking, Encodings
<1>1. ASSUME RegisterDevice(c) PROVE KicksOwned!(d)'
  <2>1. CASE login[c].owner # None /\ login[c].platform # None
    <3>1. /\ \A e \in victims'[c] : owners[e] = login[c].owner
          /\ \A e \in Conns \ ({c} \cup victims'[c]) : owners'[e] = owners[e]
          /\ \A h \in Conns \ {c} : victims'[h] = victims[h]
      BY <1>1, <2>1, Registration
    <3>2. /\ pc[c] = "device" /\ pc' = [pc EXCEPT ![c] = "kick"]
          /\ UNCHANGED <<victim, kick>>
      BY <1>1 DEF RegisterDevice
    <3>3. CASE d = c
      BY <3>2, <3>3
    <3>4. CASE d # c
      <4>1. pc[d] \notin Registered => d \notin victims'[c]
        BY <2>1, <3>1
      <4> QED
        BY <3>1, <3>2, <3>4, <4>1
    <3> QED
      BY <3>3, <3>4
  <2>2. CASE ~(login[c].owner # None /\ login[c].platform # None)
    BY <1>1, <2>2 DEF RegisterDevice
  <2> QED
    BY <2>1, <2>2
<1>2. ASSUME KickForgetDevice(c) PROVE KicksOwned!(d)'
  BY <1>2, VictimForgotten DEF KickForgetDevice
<1>3. ASSUME DisconnectDevice(c) PROVE KicksOwned!(d)'
  BY <1>3, OwnDeviceForgotten DEF DisconnectDevice
<1>4. ASSUME NEW v \in Conns, KickLookup(c, v) PROVE KicksOwned!(d)'
  BY <1>4 DEF KickLookup
<1>5. ASSUME KickSend(c) \/ KickUnserialized(c) PROVE KicksOwned!(d)'
  BY <1>5 DEF KickSend, KickUnserialized
<1>6. ASSUME KickRemove(c) PROVE KicksOwned!(d)'
  BY <1>6 DEF KickRemove
<1>7. ASSUME KickDone(c) PROVE KicksOwned!(d)'
  BY <1>7 DEF KickDone
<1>8. ASSUME
        \/ AddConnection(c) \/ SetupLookup(c) \/ AttachObserver(c) \/ Connect(c)
        \/ ConnectMalformed(c)
      PROVE KicksOwned!(d)'
  BY <1>8, ZenonT(60) DEF AddConnection, SetupLookup, AttachObserver, Connect, ConnectMalformed
<1>11. ASSUME
        \/ \E o, p : Authenticate(c, o, p)
        \/ AuthenticationFails(c) \/ SendConnectRejection(c)
        \/ UpdateConnectionInfo(c) \/ MarkConnectionAuthenticated(c)
      PROVE KicksOwned!(d)'
  BY <1>11, ZenonT(60) DEF Authenticate, AuthenticationFails, SendConnectRejection,
  UpdateConnectionInfo, MarkConnectionAuthenticated
<1>9. ASSUME
        \/ SendConnectAck(c) \/ FinalizeLookup(c) \/ CompleteNegotiation(c)
        \/ OnConnect(c) \/ SendPostAckRejection(c) \/ RemoveFailed(c)
      PROVE KicksOwned!(d)'
  BY <1>9, ZenonT(60) DEF SendConnectAck, FinalizeLookup, CompleteNegotiation, OnConnect,
  SendPostAckRejection, RemoveFailed
<1>10. ASSUME
        \/ ServerDisconnect(c) \/ TransportBreaks(c) \/ TransportCloses(c)
        \/ OnDisconnect(c) \/ DisconnectRemove(c) \/ PushSnapshot(c)
        \/ PushWrite(c) \/ PushFails(c) \/ PushEvicts(c) \/ PushDrop(c)
      PROVE KicksOwned!(d)'
  BY <1>10 DEF ServerDisconnect, TransportBreaks, TransportCloses, OnDisconnect,
  DisconnectRemove, PushSnapshot, PushWrite, PushFails, PushEvicts, PushDrop
<1> QED
  BY <1>1, <1>2, <1>3, <1>4, <1>5, <1>6, <1>7, <1>8, <1>9, <1>10,
  <1>11 DEF NextOf, Setup, Handler, Disconnecting

\* Whoever is on a kick list has left the registry.
LEMMA WinnerNext ==
  ASSUME SessionInv, NEW c \in Conns, NextOf(c)
  PROVE  WinnerSpared'
<1>a. SessionTypes /\ KicksOwned /\ WinnerSpared
  BY DEF SessionInv
<1> SUFFICES ASSUME NEW d \in Conns, NEW h \in Conns, d \in victims'[h] PROVE owners'[d] = None
  BY DEF WinnerSpared
<1> USE DEF deviceVars, kickVars
<1>1. CASE UNCHANGED <<owners, victims>>
  BY <1>1, <1>a DEF WinnerSpared
<1>2. ASSUME RegisterDevice(c) PROVE owners'[d] = None
  <2>1. CASE login[c].owner # None /\ login[c].platform # None
    <3>1. d # c
      BY <1>2, <1>a, <2>1, Registration DEF KicksOwned, Registered, RegisterDevice
    <3>2. h # c => owners[d] = None
      BY <1>2, <1>a, <2>1, Registration DEF WinnerSpared
    <3> QED
      BY <1>2, <2>1, <3>1, <3>2, Registration
  <2> QED
    BY <1>1, <1>2, <2>1 DEF RegisterDevice
<1>3. ASSUME KickForgetDevice(c) PROVE owners'[d] = None
  BY <1>1, <1>3, VictimForgotten DEF KickForgetDevice
<1>4. ASSUME DisconnectDevice(c) PROVE owners'[d] = None
  BY <1>4, <1>a, OwnDeviceForgotten DEF DisconnectDevice, WinnerSpared
<1>5. ASSUME KickRemove(c) PROVE owners'[d] = None
  <2>1. d \in victims[h]
    BY <1>5, <1>a DEF KickRemove, SessionTypes
  <2> QED
    BY <1>5, <1>a, <2>1 DEF KickRemove, WinnerSpared
<1>6. ASSUME
        \/ AddConnection(c) \/ SetupLookup(c) \/ AttachObserver(c) \/ Connect(c)
        \/ ConnectMalformed(c)
        \/ \E o, p : Authenticate(c, o, p)
        \/ AuthenticationFails(c) \/ SendConnectRejection(c)
        \/ UpdateConnectionInfo(c) \/ MarkConnectionAuthenticated(c)
      PROVE owners'[d] = None
  BY <1>6, <1>1 DEF AddConnection, SetupLookup, AttachObserver, Connect,
  ConnectMalformed, Authenticate, AuthenticationFails, SendConnectRejection,
  UpdateConnectionInfo, MarkConnectionAuthenticated
<1>7. ASSUME
        \/ \E v : KickLookup(c, v)
        \/ KickSend(c) \/ KickUnserialized(c) \/ KickDone(c) \/ SendConnectAck(c) \/ FinalizeLookup(c)
        \/ CompleteNegotiation(c) \/ OnConnect(c) \/ SendPostAckRejection(c)
        \/ RemoveFailed(c)
      PROVE owners'[d] = None
  BY <1>7, <1>1 DEF KickLookup, KickSend, KickUnserialized, KickDone, SendConnectAck,
  FinalizeLookup, CompleteNegotiation, OnConnect, SendPostAckRejection,
  RemoveFailed
<1>8. ASSUME
        \/ ServerDisconnect(c) \/ TransportBreaks(c) \/ TransportCloses(c)
        \/ OnDisconnect(c) \/ DisconnectRemove(c) \/ PushSnapshot(c)
        \/ PushWrite(c) \/ PushFails(c) \/ PushEvicts(c) \/ PushDrop(c)
      PROVE owners'[d] = None
  BY <1>8, <1>1 DEF ServerDisconnect, TransportBreaks, TransportCloses,
  OnDisconnect, DisconnectRemove, PushSnapshot, PushWrite, PushFails,
  PushEvicts, PushDrop
<1> QED
  BY <1>2, <1>3, <1>4, <1>5, <1>6, <1>7, <1>8 DEF NextOf, Setup, Handler,
  Disconnecting

\* Who is in the table and on no list is in the registry.
LEMMA OnlineNext ==
  ASSUME SessionInv, NEW c \in Conns, NextOf(c)
  PROVE  OnlineRegistered'
<1>a. SessionTypes /\ KicksOwned /\ OnlineRegistered /\ LoginKnown /\ EndsInOrder
  BY DEF SessionInv
<1> SUFFICES ASSUME NEW d \in table', pc'[d] \in Registered,
                    login'[d].owner # None, login'[d].platform # None,
                    \A h \in Conns : d \notin victims'[h]
             PROVE  devices'[login'[d].owner][d] = login'[d].platform
  BY DEF OnlineRegistered
<1> DEFINE Goal == devices'[login'[d].owner][d] = login'[d].platform
<1> USE DEF deviceVars, setupVars, infoVars, kickVars, outVars, Goto
<1>b. ASSUME d \in table, pc[d] \in Registered, login'[d] = login[d],
             \A h \in Conns : d \notin victims[h],
             \A x \in DeviceOwners : devices'[x][d] = devices[x][d]
      PROVE  Goal
  <2>1. d \in Conns /\ login[d].owner \in DeviceOwners
    BY <1>a, <1>b DEF SessionTypes
  <2>2. devices[login[d].owner][d] = login[d].platform
    BY <1>a, <1>b DEF OnlineRegistered
  <2> QED
    BY <1>b, <2>1, <2>2
<1>1. ASSUME RegisterDevice(c) PROVE Goal
  <2>1. CASE login[c].owner # None /\ login[c].platform # None
    <3>1. CASE d = c
      BY <1>1, <2>1, <3>1, Registration DEF RegisterDevice
    <3>2. CASE d # c
      <4>1. d \in table /\ d \in Conns /\ pc[d] \in Registered /\ login'[d] = login[d]
        BY <1>1, <1>a, <3>2 DEF RegisterDevice, SessionTypes
      <4>2. \A h \in Conns : d \notin victims[h]
        BY <1>1, <1>a, <2>1, Registration, ZenonT(60) DEF RegisterDevice, KicksOwned, Kicking
      <4>3. \A x \in DeviceOwners : devices'[x][d] = devices[x][d]
        BY <1>1, <2>1, <3>2, <4>1, Registration
      <4> QED
        BY <1>b, <4>1, <4>2, <4>3
    <3> QED
      BY <3>1, <3>2
  <2>2. CASE ~(login[c].owner # None /\ login[c].platform # None)
    BY <1>1, <1>a, <1>b, <2>2 DEF RegisterDevice, SessionTypes
  <2> QED
    BY <2>1, <2>2
<1>2. ASSUME KickForgetDevice(c) PROVE Goal
  BY <1>2, <1>a, <1>b, VictimForgotten DEF KickForgetDevice, SessionTypes, Registered
<1>3. ASSUME DisconnectDevice(c) PROVE Goal
  <2>1. d # c
    BY <1>3, <1>a DEF DisconnectDevice, EndsInOrder
  <2> QED
    BY <1>3, <1>a, <1>b, <2>1, OwnDeviceForgotten DEF DisconnectDevice, SessionTypes
<1>4. ASSUME KickRemove(c) PROVE Goal
  <2>1. \A h \in Conns : d \notin victims[h]
    BY <1>4, <1>a DEF KickRemove, SessionTypes
  <2> QED
    BY <1>4, <1>a, <1>b, <2>1 DEF KickRemove, SessionTypes, Registered
<1> HIDE DEF Goal
<1>5. ASSUME
        \/ AddConnection(c) \/ SetupLookup(c) \/ AttachObserver(c) \/ Connect(c)
        \/ ConnectMalformed(c)
      PROVE Goal
  BY <1>5, <1>a, <1>b DEF AddConnection, SetupLookup, AttachObserver, Connect,
  ConnectMalformed, SessionTypes, LoginKnown, Unknown, Registered
<1>6. ASSUME
        \/ \E o, p : Authenticate(c, o, p)
        \/ AuthenticationFails(c) \/ SendConnectRejection(c)
        \/ UpdateConnectionInfo(c) \/ MarkConnectionAuthenticated(c)
      PROVE Goal
  BY <1>6, <1>a, <1>b DEF Authenticate, AuthenticationFails,
  SendConnectRejection, UpdateConnectionInfo, MarkConnectionAuthenticated,
  SessionTypes, LoginKnown, Unknown, Registered
<1>7. ASSUME
        \/ \E v : KickLookup(c, v)
        \/ KickSend(c) \/ KickUnserialized(c) \/ KickDone(c) \/ SendConnectAck(c) \/ FinalizeLookup(c)
        \/ CompleteNegotiation(c) \/ OnConnect(c) \/ SendPostAckRejection(c)
        \/ RemoveFailed(c)
      PROVE Goal
  BY <1>7, <1>a, <1>b DEF KickLookup, KickSend, KickUnserialized, KickDone, SendConnectAck,
  FinalizeLookup, CompleteNegotiation, OnConnect, SendPostAckRejection,
  RemoveFailed, SessionTypes, LoginKnown, Unknown, Registered
<1>8. ASSUME
        \/ ServerDisconnect(c) \/ TransportBreaks(c) \/ TransportCloses(c)
        \/ OnDisconnect(c) \/ DisconnectRemove(c) \/ PushSnapshot(c)
        \/ PushWrite(c) \/ PushFails(c) \/ PushEvicts(c) \/ PushDrop(c)
      PROVE Goal
  BY <1>8, <1>a, <1>b DEF ServerDisconnect, TransportBreaks, TransportCloses,
  OnDisconnect, DisconnectRemove, PushSnapshot, PushWrite, PushFails,
  PushEvicts, PushDrop, SessionTypes, LoginKnown, Unknown, Registered
<1> QED
  BY <1>1, <1>2, <1>3, <1>4, <1>5, <1>6, <1>7, <1>8 DEF NextOf, Setup, Handler,
  Disconnecting, Goal

\* What an appended sequence holds.
LEMMA AppendFacts ==
  ASSUME NEW S, NEW q \in Seq(S), NEW e \in S
  PROVE  /\ Len(q) \in Nat /\ DOMAIN q = 1..Len(q)
         /\ DOMAIN Append(q, e) = 1..(Len(q) + 1)
         /\ Append(q, e)[Len(q) + 1] = e
         /\ \A i \in DOMAIN q : Append(q, e)[i] = q[i]
<1>1. /\ Append(q, e) \in Seq(S) /\ Len(Append(q, e)) = Len(q) + 1
      /\ \A i \in 1..Len(q) : Append(q, e)[i] = q[i]
      /\ Append(q, e)[Len(q) + 1] = e
  BY AppendProperties
<1>2. /\ Len(q) \in Nat /\ DOMAIN q = 1..Len(q)
      /\ DOMAIN Append(q, e) = 1..Len(Append(q, e))
  BY <1>1, LenProperties
<1> QED
  BY <1>1, <1>2

(* What a step may add to the wire of d. *)
Adds(d, f) ==
  /\ wire'[d] = Append(wire[d], f)
  /\ f \in [what : Frames, enc : Encodings]
  /\ f.enc = "negotiated" /\ f.what # "kicked" => Acked(d)

\* One more frame on a wire: what was readable before stays so.
LEMMA WireGrows ==
  ASSUME SessionInv, NEW c \in Conns, NextOf(c), NEW d \in Conns
  PROVE  wire'[d] = wire[d] \/ \E f : Adds(d, f)
<1> DEFINE Goal == wire'[d] = wire[d] \/ \E f : Adds(d, f)
<1>a. SessionTypes /\ KicksOwned /\ NegotiatedAfterAck
  BY DEF SessionInv
<1>b. ASSUME NEW e \in Conns, NEW what \in Frames, NEW enc \in Encodings,
             enc = "negotiated" /\ what # "kicked" => Acked(e),
             wire' = Written(e, what, enc) \/ wire' = wire
      PROVE  Goal
  <2> DEFINE f == [what |-> what, enc |-> enc]
  <2>1. wire' = wire \/ wire' = [wire EXCEPT ![e] = Append(@, f)]
    BY <1>b DEF Written
  <2>2. CASE wire' = wire
    BY <2>2
  <2>3. CASE wire' = [wire EXCEPT ![e] = Append(@, f)]
    <3>1. d # e => wire'[d] = wire[d]
      BY <2>3
    <3>2. d = e => wire'[d] = Append(wire[d], f)
      BY <2>3, <1>a DEF SessionTypes
    <3>3. f.what = what /\ f.enc = enc /\ f \in [what : Frames, enc : Encodings]
      OBVIOUS
    <3>4. d = e => Adds(d, f)
      BY <1>b, <3>2, <3>3 DEF Adds
    <3> QED
      BY <3>1, <3>4
  <2> QED
    BY <2>1, <2>2, <2>3
<1> HIDE DEF Goal
<1> USE DEF Frames, Encodings
<1>1. ASSUME SendConnectRejection(c) PROVE Goal
  BY <1>1, <1>b DEF SendConnectRejection
<1>2. ASSUME KickSend(c) PROVE Goal
  <2>1. victim[c] \in Conns /\ kick[c] \in Encodings
    BY <1>2, <1>a DEF KickSend, SessionTypes, KicksOwned, Kicking
  <2> QED
    BY <1>2, <1>b, <2>1 DEF KickSend
<1>3. ASSUME SendConnectAck(c) PROVE Goal
  BY <1>3, <1>b DEF SendConnectAck
<1>4. ASSUME SendPostAckRejection(c) PROVE Goal
  BY <1>4, <1>a, <1>b DEF SendPostAckRejection, NegotiatedAfterAck
<1>5. ASSUME PushWrite(c) PROVE Goal
  BY <1>5, <1>a, <1>b DEF PushWrite, NegotiatedAfterAck
<1>6. ASSUME PushFails(c) PROVE Goal
  BY <1>6, <1>a, <1>b DEF PushFails, NegotiatedAfterAck
<1>7. ASSUME
        \/ AddConnection(c) \/ SetupLookup(c) \/ AttachObserver(c) \/ Connect(c)
        \/ ConnectMalformed(c)
        \/ \E o, p : Authenticate(c, o, p)
        \/ AuthenticationFails(c) \/ UpdateConnectionInfo(c)
        \/ MarkConnectionAuthenticated(c) \/ RegisterDevice(c)
      PROVE Goal
  BY <1>7 DEF AddConnection, SetupLookup, AttachObserver, Connect,
  ConnectMalformed, Authenticate, AuthenticationFails, UpdateConnectionInfo,
  MarkConnectionAuthenticated, RegisterDevice, Goal, outVars
<1>8. ASSUME
        \/ \E v : KickLookup(c, v)
        \/ KickUnserialized(c) \/ KickForgetDevice(c) \/ KickRemove(c) \/ KickDone(c)
        \/ FinalizeLookup(c) \/ CompleteNegotiation(c) \/ OnConnect(c)
        \/ RemoveFailed(c)
      PROVE Goal
  BY <1>8 DEF KickLookup, KickUnserialized, KickForgetDevice, KickRemove, KickDone,
  FinalizeLookup, CompleteNegotiation, OnConnect, RemoveFailed, Goal, outVars
<1>9. ASSUME
        \/ ServerDisconnect(c) \/ TransportBreaks(c) \/ TransportCloses(c)
        \/ OnDisconnect(c) \/ DisconnectRemove(c) \/ DisconnectDevice(c)
        \/ PushSnapshot(c) \/ PushEvicts(c) \/ PushDrop(c)
      PROVE Goal
  BY <1>9 DEF ServerDisconnect, TransportBreaks, TransportCloses, OnDisconnect,
  DisconnectRemove, DisconnectDevice, PushSnapshot, PushEvicts, PushDrop, Goal,
  outVars
<1> QED
  BY <1>1, <1>2, <1>3, <1>4, <1>5, <1>6, <1>7, <1>8, <1>9 DEF NextOf, Setup,
  Handler, Disconnecting, Goal

\* A step that writes nothing changes nothing a peer can read.
LEMMA WireKept ==
  ASSUME SessionInv, NEW c \in Conns, NextOf(c), NEW d \in Conns
  PROVE  (Acked(d) => Acked(d)') /\ (Kicked(d) => Kicked(d)')
<1>1. CASE wire'[d] = wire[d]
  BY <1>1 DEF Acked, Kicked
<1>2. ASSUME NEW f, Adds(d, f) PROVE (Acked(d) => Acked(d)') /\ (Kicked(d) => Kicked(d)')
  <2> DEFINE S == [what : Frames, enc : Encodings]
  <2>1. wire[d] \in Seq(S) /\ f \in S
    BY <1>2 DEF SessionInv, SessionTypes, Adds
  <2> HIDE DEF S
  <2>2. \A i \in DOMAIN wire[d] : i \in DOMAIN wire'[d] /\ wire'[d][i] = wire[d][i]
    BY <1>2, <2>1, AppendFacts DEF Adds
  <2> QED
    BY <2>2 DEF Acked, Kicked
<1> QED
  BY <1>1, <1>2, WireGrows

\* Before the CONNECT_ACK only a KICKED frame is in the negotiated encoding.
LEMMA ReadableNext ==
  ASSUME SessionInv, NEW c \in Conns, NextOf(c)
  PROVE  ReadableBeforeAck'
<1>a. ReadableBeforeAck
  BY DEF SessionInv
<1> SUFFICES ASSUME NEW d \in Conns, NEW i \in DOMAIN wire'[d],
                    wire'[d][i].enc = "negotiated", wire'[d][i].what # "kicked"
             PROVE  \E j \in 1..(i - 1) : wire'[d][j].what = "ack"
  BY DEF ReadableBeforeAck
<1>1. CASE wire'[d] = wire[d]
  BY <1>1, <1>a DEF ReadableBeforeAck
<1>2. ASSUME NEW f, Adds(d, f) PROVE \E j \in 1..(i - 1) : wire'[d][j].what = "ack"
  <2> DEFINE S == [what : Frames, enc : Encodings]
             n == Len(wire[d])
  <2>1. wire[d] \in Seq(S) /\ f \in S
    BY <1>2 DEF SessionInv, SessionTypes, Adds
  <2> HIDE DEF S
  <2>2. /\ n \in Nat /\ DOMAIN wire[d] = 1..n /\ DOMAIN wire'[d] = 1..(n + 1)
        /\ wire'[d][n + 1] = f
        /\ \A j \in 1..n : wire'[d][j] = wire[d][j]
    BY <1>2, <2>1, AppendFacts DEF Adds
  <2> HIDE DEF n
  <2>3. CASE i = n + 1
    <3>1. PICK j \in 1..n : wire[d][j].what = "ack"
      BY <1>2, <2>2, <2>3 DEF Adds, Acked
    <3>2. j \in 1..(i - 1) /\ wire'[d][j].what = "ack"
      BY <2>2, <2>3, <3>1
    <3> QED
      BY <3>2
  <2>4. CASE i # n + 1
    <3>1. i \in 1..n /\ wire'[d][i] = wire[d][i]
      BY <2>2, <2>4
    <3>2. PICK j \in 1..(i - 1) : wire[d][j].what = "ack"
      BY <1>a, <2>2, <3>1 DEF ReadableBeforeAck
    <3>3. j \in 1..n /\ wire'[d][j] = wire[d][j]
      BY <2>2, <3>1
    <3> QED
      BY <3>2, <3>3
  <2> QED
    BY <2>3, <2>4
<1> QED
  BY <1>1, <1>2, WireGrows

\* The frame just written is on the wire.
LEMMA LastFrame ==
  ASSUME SessionTypes, NEW d \in Conns, NEW what \in Frames, NEW enc \in Encodings,
         transport[d] = "open", wire' = Written(d, what, enc)
  PROVE  \E i \in DOMAIN wire'[d] : wire'[d][i].what = what
<1> DEFINE S == [what : Frames, enc : Encodings]
           f == [what |-> what, enc |-> enc]
<1>1. wire[d] \in Seq(S) /\ f \in S /\ f.what = what
  BY DEF SessionTypes
<1>2. wire'[d] = Append(wire[d], f)
  BY DEF Written, SessionTypes
<1> HIDE DEF S, f
<1>3. Len(wire[d]) + 1 \in DOMAIN wire'[d] /\ wire'[d][Len(wire[d]) + 1] = f
  BY <1>1, <1>2, AppendFacts
<1> QED
  BY <1>1, <1>3

\* A victim past the write of KICKED was told.
LEMMA ToldNext ==
  ASSUME SessionInv, NEW c \in Conns, NextOf(c)
  PROVE  VictimTold'
<1>a. SessionTypes /\ KicksOwned /\ VictimTold
  BY DEF SessionInv
<1> SUFFICES ASSUME NEW d \in Conns, pc'[d] \in {"kick_forget", "kick_remove"},
                    victim'[d] \in table', transport'[victim'[d]] = "open"
             PROVE  Kicked(victim[d])' \/ kick'[d] = None
  BY DEF VictimTold
<1> DEFINE Goal == Kicked(victim[d])' \/ kick'[d] = None
<1>b. ASSUME pc[d] \in {"kick_forget", "kick_remove"}, victim'[d] = victim[d],
             kick'[d] = kick[d], victim[d] \in table, transport[victim[d]] = "open"
      PROVE  Goal
  <2> SUFFICES ASSUME kick[d] # None PROVE Goal
    BY <1>b
  <2>1. PICK v \in Conns : v = victim[d] /\ Kicked(v)
    BY <1>a, <1>b DEF VictimTold, SessionTypes
  <2>2. Kicked(v)'
    BY <2>1, WireKept
  <2> QED
    BY <1>b, <2>1, <2>2 DEF Kicked
<1> HIDE DEF Goal
<1> USE DEF deviceVars, setupVars, infoVars, kickVars, outVars, Goto
<1>1. ASSUME KickSend(c) PROVE Goal
  <2>1. CASE d = c
    <3>1. victim[c] \in Conns /\ kick[c] \in Encodings /\ victim'[c] = victim[c]
      BY <1>1, <1>a DEF KickSend, SessionTypes, KicksOwned, Kicking
    <3>2. \E i \in DOMAIN wire'[victim[c]] : wire'[victim[c]][i].what = "kicked"
      BY <1>1, <1>a, <2>1, <3>1, LastFrame DEF KickSend, Frames
    <3> QED
      BY <2>1, <3>1, <3>2 DEF Goal, Kicked
  <2>2. CASE d # c
    BY <1>1, <1>a, <1>b, <2>2 DEF KickSend, SessionTypes
  <2> QED
    BY <2>1, <2>2
<1>1a. ASSUME KickUnserialized(c) PROVE Goal
  <2>1. CASE d = c
    BY <1>1a, <1>a, <2>1 DEF KickUnserialized, SessionTypes, Goal
  <2>2. CASE d # c
    BY <1>1a, <1>a, <1>b, <2>2 DEF KickUnserialized, SessionTypes
  <2> QED
    BY <2>1, <2>2
<1>2. ASSUME NEW v \in Conns, KickLookup(c, v) PROVE Goal
  <2>1. d # c
    BY <1>2, <1>a DEF KickLookup, SessionTypes
  <2> QED
    BY <1>2, <1>a, <1>b, <2>1 DEF KickLookup, SessionTypes
<1>3. ASSUME AddConnection(c) PROVE Goal
  <2>1. pc[d] \in {"kick_forget", "kick_remove"} /\ victim'[d] = victim[d]
    BY <1>3, <1>a DEF AddConnection, SessionTypes
  <2>2. victim[d] # c
    BY <1>3, <1>a, <2>1 DEF AddConnection, KicksOwned, Kicking, Registered
  <2> QED
    BY <1>3, <1>a, <1>b, <2>1, <2>2 DEF AddConnection, SessionTypes
<1>4. ASSUME
        \/ SetupLookup(c) \/ AttachObserver(c) \/ Connect(c)
        \/ ConnectMalformed(c)
        \/ \E o, p : Authenticate(c, o, p)
        \/ AuthenticationFails(c) \/ SendConnectRejection(c)
        \/ UpdateConnectionInfo(c)
      PROVE Goal
  BY <1>4, <1>a, <1>b DEF SetupLookup, AttachObserver, Connect,
  ConnectMalformed, Authenticate, AuthenticationFails, SendConnectRejection,
  UpdateConnectionInfo, SessionTypes
<1>5. ASSUME
        \/ MarkConnectionAuthenticated(c) \/ RegisterDevice(c)
        \/ KickForgetDevice(c) \/ KickRemove(c) \/ KickDone(c)
        \/ SendConnectAck(c) \/ FinalizeLookup(c) \/ CompleteNegotiation(c)
      PROVE Goal
  BY <1>5, <1>a, <1>b DEF MarkConnectionAuthenticated, RegisterDevice,
  KickForgetDevice, KickRemove, KickDone, SendConnectAck, FinalizeLookup,
  CompleteNegotiation, SessionTypes
<1>6. ASSUME
        \/ OnConnect(c) \/ SendPostAckRejection(c) \/ RemoveFailed(c)
        \/ ServerDisconnect(c) \/ TransportBreaks(c) \/ TransportCloses(c)
        \/ OnDisconnect(c) \/ DisconnectRemove(c)
      PROVE Goal
  BY <1>6, <1>a, <1>b DEF OnConnect, SendPostAckRejection, RemoveFailed,
  ServerDisconnect, TransportBreaks, TransportCloses, OnDisconnect,
  DisconnectRemove, SessionTypes
<1>7. ASSUME
        \/ DisconnectDevice(c) \/ PushSnapshot(c) \/ PushWrite(c)
        \/ PushFails(c) \/ PushEvicts(c) \/ PushDrop(c)
      PROVE Goal
  BY <1>7, <1>a, <1>b DEF DisconnectDevice, PushSnapshot, PushWrite, PushFails,
  PushEvicts, PushDrop, SessionTypes
<1> QED
  BY <1>1, <1>1a, <1>2, <1>3, <1>4, <1>5, <1>6, <1>7 DEF NextOf, Setup, Handler,
  Disconnecting, Goal

\* The negotiated encoding is in use only after the CONNECT_ACK.
LEMMA NegotiatedNext ==
  ASSUME SessionInv, NEW c \in Conns, NextOf(c)
  PROVE  NegotiatedAfterAck'
<1>a. SessionTypes /\ NegotiatedAfterAck
  BY DEF SessionInv
<1> DEFINE Late == {"finalize", "complete", "on_connect", "late_reject"}
<1> SUFFICES ASSUME NEW d \in Conns,
                    d \in completed' \/ push'[d] = "negotiated" \/ pc'[d] \in Late
             PROVE  Acked(d)'
  BY DEF NegotiatedAfterAck
<1> DEFINE Goal == Acked(d)'
<1>b. ASSUME d \in completed \/ push[d] = "negotiated" \/ pc[d] \in Late PROVE Goal
  BY <1>a, <1>b, WireKept DEF NegotiatedAfterAck
<1> HIDE DEF Goal
<1> USE DEF deviceVars, setupVars, infoVars, kickVars, outVars, Goto
<1>1. ASSUME SendConnectAck(c) PROVE Goal
  <2>1. CASE d = c /\ transport[c] = "open"
    <3>1. \E i \in DOMAIN wire'[c] : wire'[c][i].what = "ack"
      BY <1>1, <1>a, <2>1, LastFrame DEF SendConnectAck, Frames, Encodings
    <3> QED
      BY <2>1, <3>1 DEF Goal, Acked
  <2>2. CASE ~(d = c /\ transport[c] = "open")
    BY <1>1, <1>a, <1>b, <2>2 DEF SendConnectAck, SessionTypes
  <2> QED
    BY <2>1, <2>2
<1>2. ASSUME
        \/ AddConnection(c) \/ SetupLookup(c) \/ AttachObserver(c) \/ Connect(c)
        \/ ConnectMalformed(c)
        \/ \E o, p : Authenticate(c, o, p)
        \/ AuthenticationFails(c) \/ SendConnectRejection(c)
      PROVE Goal
  BY <1>2, <1>a, <1>b, NothingAssumption DEF AddConnection, SetupLookup,
  AttachObserver, Connect, ConnectMalformed, Authenticate, AuthenticationFails,
  SendConnectRejection, SessionTypes, Encodings
<1>3. ASSUME
        \/ UpdateConnectionInfo(c) \/ MarkConnectionAuthenticated(c)
        \/ RegisterDevice(c)
        \/ \E v : KickLookup(c, v)
        \/ KickSend(c) \/ KickUnserialized(c) \/ KickForgetDevice(c) \/ KickRemove(c) \/ KickDone(c)
      PROVE Goal
  BY <1>3, <1>a, <1>b, NothingAssumption DEF UpdateConnectionInfo,
  MarkConnectionAuthenticated, RegisterDevice, KickLookup, KickSend, KickUnserialized,
  KickForgetDevice, KickRemove, KickDone, SessionTypes, Encodings
<1>4. ASSUME
        \/ FinalizeLookup(c) \/ CompleteNegotiation(c) \/ OnConnect(c)
        \/ SendPostAckRejection(c) \/ RemoveFailed(c) \/ ServerDisconnect(c)
        \/ TransportBreaks(c) \/ TransportCloses(c)
      PROVE Goal
  BY <1>4, <1>a, <1>b, NothingAssumption DEF FinalizeLookup,
  CompleteNegotiation, OnConnect, SendPostAckRejection, RemoveFailed,
  ServerDisconnect, TransportBreaks, TransportCloses, SessionTypes, Encodings
<1>5. ASSUME
        \/ OnDisconnect(c) \/ DisconnectRemove(c) \/ DisconnectDevice(c)
        \/ PushSnapshot(c) \/ PushWrite(c) \/ PushFails(c) \/ PushEvicts(c)
        \/ PushDrop(c)
      PROVE Goal
  BY <1>5, <1>a, <1>b, NothingAssumption DEF OnDisconnect, DisconnectRemove,
  DisconnectDevice, PushSnapshot, PushWrite, PushFails, PushEvicts, PushDrop,
  SessionTypes, Encodings
<1> QED
  BY <1>1, <1>2, <1>3, <1>4, <1>5 DEF NextOf, Setup, Handler, Disconnecting, Goal

\* The callbacks, and where the task that makes them is.
LEMMA CalledNext ==
  ASSUME SessionInv, NEW c \in Conns, NextOf(c)
  PROVE  CalledBefore'
<1>a. SessionTypes /\ CalledBefore
  BY DEF SessionInv
<1> SUFFICES ASSUME NEW d \in Conns PROVE CalledBefore!(d)'
  BY DEF CalledBefore
<1> DEFINE Goal == CalledBefore!(d)'
<1> USE DEF deviceVars, setupVars, infoVars, kickVars, outVars, Goto
<1>b. ASSUME app'[d] = app[d],
             pc[d] \in {"late_reject", "remove", "done"} => pc'[d] \in {"late_reject", "remove", "done"},
             disc[d] \in {"notified", "removed", "done"} => disc'[d] \in {"notified", "removed", "done"}
      PROVE  Goal
  BY <1>a, <1>b DEF CalledBefore, Called
<1>c. ASSUME NEW callback \in {"connect", "disconnect"}, app'[d] = Append(app[d], callback),
             ~Called(d, callback),
             callback = "connect" => pc'[d] \in {"late_reject", "remove", "done"} /\ disc'[d] = disc[d],
             callback = "disconnect" => disc'[d] \in {"notified", "removed", "done"} /\ pc'[d] = pc[d]
      PROVE  Goal
  <2> DEFINE S == {"connect", "disconnect"}
             n == Len(app[d])
  <2>1. app[d] \in Seq(S)
    BY <1>a DEF SessionTypes
  <2> HIDE DEF S
  <2>2. /\ n \in Nat /\ DOMAIN app[d] = 1..n /\ DOMAIN app'[d] = 1..(n + 1)
        /\ app'[d][n + 1] = callback
        /\ \A i \in 1..n : app'[d][i] = app[d][i]
    BY <1>c, <2>1, AppendFacts DEF S
  <2> HIDE DEF n
  <2>3. \A x : x # callback => (Called(d, x)' => Called(d, x))
    BY <2>2 DEF Called
  <2>4. \A i, j \in DOMAIN app'[d] : app'[d][i] = app'[d][j] => i = j
    BY <1>a, <1>c, <2>2 DEF CalledBefore, Called
  <2>5. Called(d, "connect")' => pc'[d] \in {"late_reject", "remove", "done"}
    BY <1>a, <1>c, <2>3 DEF CalledBefore
  <2>6. Called(d, "disconnect")' => disc'[d] \in {"notified", "removed", "done"}
    BY <1>a, <1>c, <2>3 DEF CalledBefore
  <2> QED
    BY <2>4, <2>5, <2>6
<1> HIDE DEF Goal
<1>1. ASSUME OnConnect(c) PROVE Goal
  <2>1. CASE d = c
    BY <1>1, <1>a, <1>c, <2>1 DEF OnConnect, SessionTypes, CalledBefore
  <2>2. CASE d # c
    BY <1>1, <1>a, <1>b, <2>2 DEF OnConnect, SessionTypes
  <2> QED
    BY <2>1, <2>2
<1>2. ASSUME OnDisconnect(c) PROVE Goal
  <2>1. CASE d = c
    BY <1>2, <1>a, <1>c, <2>1 DEF OnDisconnect, SessionTypes, CalledBefore
  <2>2. CASE d # c
    BY <1>2, <1>a, <1>b, <2>2 DEF OnDisconnect, SessionTypes
  <2> QED
    BY <2>1, <2>2
<1>3. ASSUME TransportCloses(c) PROVE Goal
  BY <1>3, <1>a, <1>b DEF TransportCloses, SessionTypes, SessionInv, EndsInOrder
<1>4. ASSUME AttachObserver(c) PROVE Goal
  BY <1>4, <1>a, <1>b DEF AttachObserver, SessionTypes, SessionInv, EndsInOrder
<1>5. ASSUME
        \/ AddConnection(c) \/ SetupLookup(c) \/ Connect(c)
        \/ ConnectMalformed(c)
        \/ \E o, p : Authenticate(c, o, p)
        \/ AuthenticationFails(c) \/ SendConnectRejection(c)
        \/ UpdateConnectionInfo(c)
      PROVE Goal
  BY <1>5, <1>a, <1>b DEF AddConnection, SetupLookup, Connect, ConnectMalformed,
  Authenticate, AuthenticationFails, SendConnectRejection, UpdateConnectionInfo,
  SessionTypes
<1>6. ASSUME
        \/ MarkConnectionAuthenticated(c) \/ RegisterDevice(c)
        \/ \E v : KickLookup(c, v)
        \/ KickSend(c) \/ KickUnserialized(c) \/ KickForgetDevice(c) \/ KickRemove(c) \/ KickDone(c)
        \/ SendConnectAck(c)
      PROVE Goal
  BY <1>6, <1>a, <1>b DEF MarkConnectionAuthenticated, RegisterDevice,
  KickLookup, KickSend, KickUnserialized, KickForgetDevice, KickRemove, KickDone, SendConnectAck,
  SessionTypes
<1>7. ASSUME
        \/ FinalizeLookup(c) \/ CompleteNegotiation(c)
        \/ SendPostAckRejection(c) \/ RemoveFailed(c) \/ ServerDisconnect(c)
        \/ TransportBreaks(c) \/ DisconnectRemove(c) \/ DisconnectDevice(c)
      PROVE Goal
  BY <1>7, <1>a, <1>b DEF FinalizeLookup, CompleteNegotiation,
  SendPostAckRejection, RemoveFailed, ServerDisconnect, TransportBreaks,
  DisconnectRemove, DisconnectDevice, SessionTypes
<1>8. ASSUME
        \/ PushSnapshot(c) \/ PushWrite(c) \/ PushFails(c) \/ PushEvicts(c)
        \/ PushDrop(c)
      PROVE Goal
  BY <1>8, <1>a, <1>b DEF PushSnapshot, PushWrite, PushFails, PushEvicts,
  PushDrop, SessionTypes
<1> QED
  BY <1>1, <1>2, <1>3, <1>4, <1>5, <1>6, <1>7, <1>8 DEF NextOf, Setup, Handler,
  Disconnecting, Goal

\* The inductive invariant holds at first ...
LEMMA SessionStarts ==
  ASSUME Init
  PROVE  SessionInv
<1> USE DEF Init
<1>1. DeviceInv
  BY RegistryStarts
<1>2. SessionTypes
  BY NoFrames DEF SessionTypes, Steps
<1>3. EndsInOrder /\ LoginKnown /\ WinnerSpared /\ OnlineRegistered /\ VictimTold
  BY DEF EndsInOrder, LoginKnown, WinnerSpared, OnlineRegistered, VictimTold
<1>4. KicksOwned
  BY DEF KicksOwned, Registered, Kicking, InitDevices
<1>5. \A c \in Conns : push[c] # "negotiated" /\ wire[c] = <<>> /\ app[c] = <<>>
  BY NothingAssumption DEF Encodings
<1>6. NegotiatedAfterAck
  BY <1>5 DEF NegotiatedAfterAck
<1>7. ReadableBeforeAck
  BY <1>5 DEF ReadableBeforeAck
<1>8. CalledBefore
  BY <1>5 DEF CalledBefore, Called
<1> QED
  BY <1>1, <1>2, <1>3, <1>4, <1>6, <1>7, <1>8 DEF SessionInv

\* ... and every step keeps it.
LEMMA SessionStep ==
  ASSUME SessionInv, [Next]_vars
  PROVE  SessionInv'
<1>1. ASSUME NEW c \in Conns, NextOf(c) PROVE SessionInv'
  BY <1>1, TypesNext, RegistryNext, EndsNext, LoginNext, KicksNext, WinnerNext, OnlineNext,
     ToldNext, NegotiatedNext, ReadableNext, CalledNext DEF SessionInv
<1>2. CASE UNCHANGED vars
  <2>1. SessionTypes' /\ DeviceInv' /\ EndsInOrder' /\ LoginKnown'
    BY <1>2 DEF SessionInv, vars, deviceVars, infoVars, kickVars, outVars, SessionTypes,
       DeviceInv, DeviceTypeOK, OwnersExact, Exclusive, EndsInOrder, LoginKnown
  <2>2. KicksOwned' /\ WinnerSpared' /\ OnlineRegistered' /\ VictimTold'
    BY <1>2 DEF SessionInv, vars, deviceVars, infoVars, kickVars, outVars, KicksOwned,
       WinnerSpared, OnlineRegistered, VictimTold, Kicked
  <2>3. NegotiatedAfterAck' /\ ReadableBeforeAck' /\ CalledBefore'
    BY <1>2 DEF SessionInv, vars, deviceVars, infoVars, kickVars, outVars,
       NegotiatedAfterAck, Acked, ReadableBeforeAck, CalledBefore, Called
  <2> QED
    BY <2>1, <2>2, <2>3 DEF SessionInv
<1> QED
  BY <1>1, <1>2 DEF Next, NextOf

\* The inductive invariant of the session, of every strategy and any number
\* of logins in progress at once.
THEOREM SessionInvariance == Spec => []SessionInv
BY SessionStarts, SessionStep, PTL DEF Spec

\* Type correctness of the session and of the registry it works on.
THEOREM SessionTypeCorrect == Spec => []SessionTypeOK
<1>1. SessionInv => SessionTypeOK
  BY DEF SessionInv, SessionTypes, DeviceInv, CalledBefore, SessionTypeOK
<1> QED
  BY <1>1, SessionInvariance, PTL

\* Whoever is on a kick list has no device in the registry: a login that won
\* over others, however many are in progress, is not kicked for it.
THEOREM WinnerSparedCorrect == Spec => []WinnerSpared
<1>1. SessionInv => WinnerSpared
  BY DEF SessionInv
<1> QED
  BY <1>1, SessionInvariance, PTL

\* But for those still to be kicked, the registry's exclusiveness is the table's.
LEMMA OnlineExclusive ==
  ASSUME SessionInv
  PROVE  ExclusiveOnline
<1> SUFFICES ASSUME NEW k \in ExclusiveClasses(strategy), NEW c \in table, NEW d \in table,
                    c # d, pc[c] \in Registered, pc[d] \in Registered,
                    login[c].owner = login[d].owner, login[c].owner # None,
                    login[c].platform \in k, login[d].platform \in k,
                    \A h \in Conns : c \notin victims[h] /\ d \notin victims[h]
             PROVE  FALSE
  BY DEF ExclusiveOnline
<1>1. c \in Conns /\ d \in Conns /\ login[c].owner \in DeviceOwners
  BY DEF SessionInv, SessionTypes
<1>2. None \notin k
  BY StrategiesAssumption, ClassesArePlatforms DEF SessionInv, DeviceInv, DeviceTypeOK
<1>3. /\ devices[login[c].owner][c] = login[c].platform
      /\ devices[login[c].owner][d] = login[d].platform
  BY <1>2 DEF SessionInv, OnlineRegistered
<1> QED
  BY <1>1, <1>3 DEF SessionInv, DeviceInv, Exclusive

\* However logins overlap, of two registered connections in the table that break
\* the device conflict strategy one is about to be kicked.
THEOREM ExclusiveOnlineCorrect == Spec => []ExclusiveOnline
BY OnlineExclusive, SessionInvariance, PTL

\* Before the CONNECT_ACK the server writes nothing in the negotiated encoding
\* but, perhaps, the KICKED frame of another login.
THEOREM ReadableCorrect == Spec => []ReadableBeforeAck
<1>1. SessionInv => ReadableBeforeAck
  BY DEF SessionInv
<1> QED
  BY <1>1, SessionInvariance, PTL

(* KickedWasTold as an action.                                             *)
Tells ==
  \A c \in Conns : \A v \in table \ table' :
    pc[c] \in {"kick_send", "kick_forget", "kick_remove"} /\ pc'[c] # pc[c]
      /\ v = victim[c] =>
      \/ transport[v] # "open" \/ kick[c] = None
      \/ \E i \in DOMAIN wire[v] : wire[v][i].what = "kicked"

\* A kick's removal of its victim comes after the write of the frame.
LEMMA KickTells ==
  ASSUME SessionInv, NEW c \in Conns, NextOf(c)
  PROVE  Tells
<1> SUFFICES ASSUME NEW d \in Conns, NEW v \in table \ table', pc[d] \in Kicking,
                    pc'[d] # pc[d], v = victim[d]
             PROVE  pc[d] = "kick_remove"
  BY DEF SessionInv, VictimTold, Kicked, Tells, Kicking
<1> DEFINE Goal == pc[d] = "kick_remove"
<1>0. pc \in [Conns -> Steps]
  BY DEF SessionInv, SessionTypes
<1> USE <1>0 DEF Kicking, Goto
<1>1. ASSUME
        \/ AddConnection(c) \/ SetupLookup(c) \/ AttachObserver(c) \/ Connect(c)
        \/ ConnectMalformed(c)
        \/ \E o, p : Authenticate(c, o, p)
        \/ AuthenticationFails(c) \/ SendConnectRejection(c)
        \/ UpdateConnectionInfo(c) \/ MarkConnectionAuthenticated(c)
        \/ RegisterDevice(c)
      PROVE Goal
  BY <1>1 DEF AddConnection, SetupLookup, AttachObserver, Connect,
  ConnectMalformed, Authenticate, AuthenticationFails, SendConnectRejection,
  UpdateConnectionInfo, MarkConnectionAuthenticated, RegisterDevice
<1>2. ASSUME
        \/ \E u : KickLookup(c, u)
        \/ KickSend(c) \/ KickUnserialized(c) \/ KickForgetDevice(c) \/ KickRemove(c) \/ KickDone(c)
        \/ SendConnectAck(c) \/ FinalizeLookup(c) \/ CompleteNegotiation(c)
        \/ OnConnect(c) \/ SendPostAckRejection(c) \/ RemoveFailed(c)
      PROVE Goal
  BY <1>2 DEF KickLookup, KickSend, KickUnserialized, KickForgetDevice, KickRemove, KickDone,
  SendConnectAck, FinalizeLookup, CompleteNegotiation, OnConnect,
  SendPostAckRejection, RemoveFailed
<1>3. ASSUME
        \/ ServerDisconnect(c) \/ TransportBreaks(c) \/ TransportCloses(c)
        \/ OnDisconnect(c) \/ DisconnectRemove(c) \/ DisconnectDevice(c)
        \/ PushSnapshot(c) \/ PushWrite(c) \/ PushFails(c) \/ PushEvicts(c)
        \/ PushDrop(c)
      PROVE Goal
  BY <1>3 DEF ServerDisconnect, TransportBreaks, TransportCloses, OnDisconnect,
  DisconnectRemove, DisconnectDevice, PushSnapshot, PushWrite, PushFails,
  PushEvicts, PushDrop
<1> QED
  BY <1>1, <1>2, <1>3 DEF NextOf, Setup, Handler, Disconnecting

\* A connection that a kick loop removes from the table has the KICKED frame,
\* or could not be written to any more, or the frame could not be serialized.
THEOREM KickedWasToldCorrect == Spec => KickedWasTold
<1>1. SessionInv /\ [Next]_vars => [Tells]_vars
  BY KickTells DEF Next, NextOf
<1>2. Spec => [][Tells]_vars
  BY <1>1, SessionInvariance, PTL DEF Spec
<1> QED
  BY <1>2 DEF KickedWasTold, Tells

-----------------------------------------------------------------------------
(* ServerInbound: the frames a connection receives, on top of the session, *)
(* for any number of connections and any length of queue.                  *)
(*                                                                         *)
(* InboundSpec implements the specification of the session: every step of  *)
(* the pipeline is a step of ServerSession or leaves its variables alone.  *)
(* So SessionInv, and all that is drawn from it above, holds               *)
(* here too.  The order of the frames needs an invariant of its own:       *)
(*                                                                         *)
(*   QueueOrdered    the queue holds frames in the order of arrival,       *)
(*                   behind the one the consumer works on                  *)
(*   HandedOn        what has left the consumer arrived before both, and   *)
(*                   is held by one task or one reply until answered       *)
(*   HandlersBehind  so are the frames whose handler was called, but for   *)
(*                   the one at work                                       *)
(*   Observed        only an observed connection has frames                *)
(*   LastCall        after a call made for a removed connection the        *)
(*                   consumer is not on its way to another one             *)

(* A frame, and one with its connection, as tasks and replies hold it.     *)
AnyKind == Ordered \cup Spawned \cup {"connect", "ready"}
Frame == [id : Nat, kind : AnyKind]
Item == [conn : Conns, frame : Frame]

InboundTypes ==
  /\ queue \in [Conns -> Seq(Frame)]
  /\ sent \in [Conns -> [n : Nat, asked : BOOLEAN]]
  /\ work \in [Conns -> {NoWork} \cup [frame : Frame, step : {"route", "handle", "handler"}]]
  /\ tasks \subseteq Item /\ replies \subseteq Item
  /\ handled \in [Conns -> Seq(Nat)] /\ answered \in [Conns -> Seq(Nat)]
  /\ after \in [Conns -> Nat]

(* Frame number n of c arrived before the frames that wait or are at work. *)
Earlier(c, n) ==
  /\ n \in 1..sent[c].n
  /\ work[c] # NoWork => n < work[c].frame.id
  /\ \A i \in DOMAIN queue[c] : n < queue[c][i].id

(* The queue holds frames in the order of arrival, behind the one at work. *)
QueueOrdered ==
  \A c \in Conns :
    /\ \A i \in DOMAIN queue[c] : queue[c][i].id \in 1..sent[c].n
    /\ \A i, j \in DOMAIN queue[c] : i < j => queue[c][i].id < queue[c][j].id
    /\ work[c] # NoWork =>
         /\ work[c].frame.id \in 1..sent[c].n
         /\ \A i \in DOMAIN queue[c] : work[c].frame.id < queue[c][i].id

(* What has been handed on is behind the consumer, and is held by one task *)
(* until it is answered.                                                   *)
HandedOn ==
  /\ \A t \in tasks \cup replies : Earlier(t.conn, t.frame.id)
  /\ \A c \in Conns : \A i \in DOMAIN answered[c] : Earlier(c, answered[c][i])
  /\ \A t, u \in tasks \cup replies : t.conn = u.conn /\ t.frame.id = u.frame.id => t = u
  /\ tasks \cap replies = {}
  /\ \A t \in tasks \cup replies : \A i \in DOMAIN answered[t.conn] :
       answered[t.conn][i] # t.frame.id
  /\ \A t \in tasks : t.frame.kind \notin Ordered

(* The handler called last is the one at work, if any.                     *)
HandlersBehind ==
  \A c \in Conns : \A i \in DOMAIN handled[c] :
    \/ Earlier(c, handled[c][i])
    \/ work[c].step = "handler" /\ handled[c][i] = work[c].frame.id

(* A frame in the queue or at work has been seen by the observer.          *)
Observed ==
  \A c \in Conns : queue[c] # <<>> \/ work[c] # NoWork => c \in observed

(* After a late call the consumer is not on its way to another one, and    *)
(* the connection is out of the table for good.                            *)
LastCall ==
  \A c \in Conns :
    /\ after[c] \in {0, 1}
    /\ after[c] = 1 => /\ c \notin table /\ c \in observed
                       /\ work[c].step \in {"free", "handler"}

InboundInv ==
  /\ InboundTypes /\ QueueOrdered /\ HandedOn /\ HandlersBehind /\ Observed
  /\ LastCall /\ InOrder

-----------------------------------------------------------------------------

\* Every step of the pipeline is a step of the session, or none.
LEMMA InboundImplements ==
  ASSUME SessionInv, [InboundNext]_allVars
  PROVE  [Next]_vars
<1>1. ASSUME NEW c \in Conns, SessionNext(c) PROVE Next
  BY <1>1 DEF SessionNext, Next
<1>2. ASSUME NEW c \in Conns, TakeConnect(c) PROVE Next
  BY <1>2 DEF TakeConnect, Next
<1>3. ASSUME NEW r \in replies, SendReplyFails(r) PROVE Next
  <2>1. r.conn \in Conns /\ ServerDisconnect(r.conn)
    BY <1>3 DEF SendReplyFails, MayAnswer, ServerDisconnect, SessionInv, SessionTypes
  <2> QED
    BY <2>1 DEF Next
<1>4. CASE UNCHANGED vars
  BY <1>4
<1>5. ASSUME NEW c \in Conns, Consumer(c) PROVE [Next]_vars
  BY <1>2, <1>4, <1>5 DEF Consumer, TakeFrame, Route, HandleFrame, HandlerReturns
<1> QED
  BY <1>1, <1>3, <1>4, <1>5
     DEF InboundNext, OnMessage, TaskRuns, SendReply, allVars

\* The pipeline implements the session it is built on, with all that is
\* proved of the session.
THEOREM InboundRefinesSession == InboundSpec => Spec /\ []SessionInv
<1>1. InboundInit => Init
  BY DEF InboundInit
<1> QED
  BY <1>1, SessionStarts, SessionStep, InboundImplements, PTL DEF InboundSpec, Spec

\* An observed connection that left the table does not come back.
LEMMA TableKept ==
  ASSUME SessionInv, [Next]_vars
  PROVE  /\ observed \subseteq observed'
         /\ \A d \in table' \ table : d \notin observed
<1> DEFINE Goal == observed \subseteq observed' /\ \A d \in table' \ table : d \notin observed
<1>0. CASE UNCHANGED vars
  BY <1>0 DEF vars
<1>c. CASE Next
  <2>0. PICK c \in Conns : NextOf(c)
    BY <1>c DEF Next, NextOf
  <2> USE DEF setupVars
  <2>1. ASSUME
          \/ SetupLookup(c) \/ AttachObserver(c) \/ Connect(c)
          \/ ConnectMalformed(c)
          \/ \E o, p : Authenticate(c, o, p)
          \/ AuthenticationFails(c) \/ SendConnectRejection(c)
          \/ UpdateConnectionInfo(c) \/ MarkConnectionAuthenticated(c)
          \/ RegisterDevice(c)
        PROVE Goal
    BY <2>1 DEF SetupLookup, AttachObserver, Connect, ConnectMalformed,
    Authenticate, AuthenticationFails, SendConnectRejection, UpdateConnectionInfo,
    MarkConnectionAuthenticated, RegisterDevice
  <2>2. ASSUME
          \/ \E v : KickLookup(c, v)
          \/ KickSend(c) \/ KickUnserialized(c) \/ KickForgetDevice(c) \/ KickRemove(c) \/ KickDone(c)
          \/ SendConnectAck(c) \/ FinalizeLookup(c) \/ CompleteNegotiation(c)
          \/ OnConnect(c) \/ SendPostAckRejection(c) \/ RemoveFailed(c)
        PROVE Goal
    BY <2>2 DEF KickLookup, KickSend, KickUnserialized, KickForgetDevice, KickRemove, KickDone,
    SendConnectAck, FinalizeLookup, CompleteNegotiation, OnConnect,
    SendPostAckRejection, RemoveFailed
  <2>3. ASSUME
          \/ ServerDisconnect(c) \/ TransportBreaks(c) \/ TransportCloses(c)
          \/ OnDisconnect(c) \/ DisconnectRemove(c) \/ DisconnectDevice(c)
          \/ PushSnapshot(c) \/ PushWrite(c) \/ PushFails(c) \/ PushEvicts(c)
          \/ PushDrop(c)
        PROVE Goal
    BY <2>3 DEF ServerDisconnect, TransportBreaks, TransportCloses, OnDisconnect,
    DisconnectRemove, DisconnectDevice, PushSnapshot, PushWrite, PushFails,
    PushEvicts, PushDrop
  <2>4. ASSUME AddConnection(c) PROVE Goal
    BY <2>4 DEF AddConnection, SessionInv, EndsInOrder
  <2> QED
    BY <2>0, <2>1, <2>2, <2>3, <2>4 DEF NextOf, Setup, Handler, Disconnecting
<1> QED
  BY <1>0, <1>c

\* What the rest of a queue holds.
LEMMA TailFacts ==
  ASSUME NEW S, NEW q \in Seq(S), q # <<>>
  PROVE  /\ Len(q) \in Nat \ {0} /\ DOMAIN q = 1..Len(q)
         /\ Head(q) = q[1] /\ Head(q) \in S
         /\ Tail(q) \in Seq(S) /\ DOMAIN Tail(q) = 1..(Len(q) - 1)
         /\ \A i \in 1..(Len(q) - 1) : Tail(q)[i] = q[i + 1]
<1>1. /\ Head(q) \in S /\ Tail(q) \in Seq(S)
  BY HeadTailProperties
<1>2. Len(Tail(q)) = Len(q) - 1 /\ \A i \in 1..Len(Tail(q)) : Tail(q)[i] = q[i + 1]
  BY HeadTailProperties
<1>3. Len(q) \in Nat \ {0} /\ DOMAIN q = 1..Len(q) /\ DOMAIN Tail(q) = 1..Len(Tail(q))
  BY <1>1, LenProperties, EmptySeq
<1>4. Head(q) = q[1]
  OBVIOUS
<1> QED
  BY <1>1, <1>2, <1>3, <1>4

\* What the consumer works on.
LEMMA WorkFacts ==
  ASSUME InboundTypes, NEW c \in Conns
  PROVE  /\ work[c] # NoWork <=> work[c].step # "free"
         /\ work[c] # NoWork => work[c].frame \in Frame /\ work[c].frame.id \in Nat
         /\ work[c].step \in {"free", "route", "handle", "handler"}
BY DEF InboundTypes, NoWork, NoFrame, Frame

(* How a step may move the consumer and the client of d.                   *)
Forward(d) ==
  /\ sent[d].n <= sent'[d].n
  /\ work'[d] # NoWork =>
       \/ work[d] # NoWork /\ work'[d].frame.id = work[d].frame.id
       \/ \E i \in DOMAIN queue[d] : work'[d].frame.id = queue[d][i].id
  /\ \A i \in DOMAIN queue'[d] :
       \/ \E j \in DOMAIN queue[d] : queue'[d][i].id = queue[d][j].id
       \/ queue'[d][i].id = sent[d].n + 1

\* What arrived earlier stays earlier while only later frames come in.
LEMMA EarlierKept ==
  ASSUME InboundTypes, InboundTypes', NEW d \in Conns, Forward(d), NEW n, Earlier(d, n)
  PROVE  Earlier(d, n)'
<1>1. n \in Nat /\ sent[d].n \in Nat /\ sent'[d].n \in Nat
  BY DEF InboundTypes, Earlier
<1>2. n \in 1..sent'[d].n
  BY <1>1 DEF Earlier, Forward
<1>3. work'[d] # NoWork => n < work'[d].frame.id
  BY DEF Earlier, Forward
<1>4. \A i \in DOMAIN queue'[d] : n < queue'[d][i].id
  BY <1>1 DEF Earlier, Forward
<1> QED
  BY <1>2, <1>3, <1>4 DEF Earlier, NoWork, NoFrame

\* The inductive invariant holds at first ...
LEMMA InboundStarts ==
  ASSUME InboundInit
  PROVE  InboundInv
<1>1. InboundTypes
  BY NoFrames DEF InboundInit, InboundTypes
<1>2. \A c \in Conns : queue[c] = <<>> /\ handled[c] = <<>> /\ answered[c] = <<>>
  BY DEF InboundInit
<1>3. QueueOrdered /\ HandedOn /\ HandlersBehind
  BY <1>2 DEF InboundInit, QueueOrdered, HandedOn, HandlersBehind
<1>4. Observed /\ LastCall /\ InOrder
  BY <1>2 DEF InboundInit, Observed, LastCall, InOrder
<1> QED
  BY <1>1, <1>3, <1>4 DEF InboundInv

(* A step of the session, the queues left alone.                           *)
\* ... a step of the session keeps it, ...
LEMMA SessionKeepsInbound ==
  ASSUME SessionInv, InboundInv, [Next]_vars, UNCHANGED inboundVars
  PROVE  InboundInv'
<1> USE DEF inboundVars, consumerVars, noteVars
<1>1. InboundTypes' /\ QueueOrdered'
  BY DEF InboundInv, InboundTypes, QueueOrdered
<1>2. HandedOn' /\ HandlersBehind'
  BY DEF InboundInv, HandedOn, HandlersBehind, Earlier
<1>3. Observed' /\ LastCall'
  BY TableKept DEF InboundInv, Observed, LastCall
<1>4. InOrder'
  BY DEF InboundInv, InOrder
<1> QED
  BY <1>1, <1>2, <1>3, <1>4 DEF InboundInv

\* ... so do the arrival of a frame, which may find the queue full, ...
LEMMA OnMessageInv ==
  ASSUME SessionInv, InboundInv, NEW c \in Conns, NEW k \in FrameKinds, OnMessage(c, k)
  PROVE  InboundInv'
<1> DEFINE f == [id |-> sent[c].n + 1, kind |-> k]
           q == queue[c]
<1>0. /\ sent' = [sent EXCEPT ![c] = [n |-> @.n + 1, asked |-> @.asked \/ k = "connect"]]
      /\ queue' = [queue EXCEPT ![c] = IF Len(@) < Capacity THEN Append(@, f) ELSE @]
      /\ UNCHANGED <<work, tasks, replies, handled, answered, after, table, observed>>
      /\ c \in observed
  BY DEF OnMessage, vars, setupVars, consumerVars, noteVars
<1>1. /\ sent[c].n \in Nat /\ sent'[c] \in [n : Nat, asked : BOOLEAN]
      /\ sent'[c].n = sent[c].n + 1
      /\ \A d \in Conns \ {c} : sent'[d] = sent[d]
  BY <1>0 DEF InboundInv, InboundTypes
<1>2. f \in Frame /\ f.id = sent[c].n + 1 /\ q \in Seq(Frame)
  BY <1>1, InboundAssumption DEF InboundInv, InboundTypes, Frame, AnyKind
<1>3. /\ queue'[c] = q \/ queue'[c] = Append(q, f)
      /\ \A d \in Conns \ {c} : queue'[d] = queue[d]
  BY <1>0 DEF InboundInv, InboundTypes
<1> HIDE DEF f
<1>4. /\ Len(q) \in Nat /\ DOMAIN q = 1..Len(q) /\ Append(q, f) \in Seq(Frame)
      /\ DOMAIN Append(q, f) = 1..(Len(q) + 1) /\ Append(q, f)[Len(q) + 1] = f
      /\ \A i \in 1..Len(q) : Append(q, f)[i] = q[i]
  BY <1>2, AppendFacts, AppendProperties
<1>5. InboundTypes'
  <2>1. queue' \in [Conns -> Seq(Frame)]
    BY <1>0, <1>2, <1>4 DEF InboundInv, InboundTypes
  <2>2. sent' \in [Conns -> [n : Nat, asked : BOOLEAN]]
    BY <1>0, <1>1 DEF InboundInv, InboundTypes
  <2> QED
    BY <1>0, <2>1, <2>2 DEF InboundInv, InboundTypes
<1>6. \A d \in Conns : Forward(d)
  <2> SUFFICES ASSUME NEW d \in Conns PROVE Forward(d)
    OBVIOUS
  <2>1. CASE d # c
    BY <1>0, <1>1, <1>3, <2>1, SMTT(30) DEF Forward, InboundInv, InboundTypes
  <2>2. CASE d = c
    <3>1. sent[d].n <= sent'[d].n /\ work'[d] = work[d]
      BY <1>0, <1>1, <2>2
    <3>2. \A i \in DOMAIN queue'[d] :
            \/ \E j \in DOMAIN queue[d] : queue'[d][i].id = queue[d][j].id
            \/ queue'[d][i].id = sent[d].n + 1
      BY <1>2, <1>3, <1>4, <2>2, SMTT(30)
    <3> QED
      BY <3>1, <3>2 DEF Forward
  <2> QED
    BY <2>1, <2>2
<1>7. QueueOrdered'
  <2> SUFFICES ASSUME NEW d \in Conns PROVE QueueOrdered!(d)'
    BY DEF QueueOrdered
  <2>0. QueueOrdered!(d) /\ work'[d] = work[d]
    BY <1>0 DEF InboundInv, QueueOrdered
  <2>1. CASE queue'[d] = queue[d]
    BY <1>1, <2>0, <2>1, WorkFacts DEF InboundInv
  <2>2. CASE d = c /\ queue'[c] = Append(q, f)
    <3> DEFINE m == sent[c].n
    <3>1. /\ m \in Nat /\ sent'[c].n = m + 1 /\ f.id = m + 1
          /\ \A i \in 1..Len(q) : q[i].id \in 1..m
      BY <1>1, <1>2, <1>4, <2>0, <2>2
    <3>2. \A i \in DOMAIN queue'[d] : queue'[d][i].id \in 1..sent'[d].n
      BY <1>4, <2>2, <3>1
    <3>3. ASSUME NEW i \in DOMAIN queue'[d], NEW j \in DOMAIN queue'[d], i < j
          PROVE  queue'[d][i].id < queue'[d][j].id
      <4>1. i \in 1..Len(q) /\ queue'[d][i] = q[i] /\ q[i].id \in 1..m
        BY <1>4, <2>2, <3>1, <3>3
      <4>2. CASE j \in 1..Len(q)
        BY <1>4, <2>0, <2>2, <3>3, <4>1, <4>2
      <4>3. CASE j = Len(q) + 1
        BY <1>4, <2>2, <3>1, <4>1, <4>3
      <4> QED
        BY <1>4, <2>2, <4>2, <4>3
    <3>4. work'[d] # NoWork =>
            /\ work'[d].frame.id \in 1..sent'[d].n
            /\ \A i \in DOMAIN queue'[d] : work'[d].frame.id < queue'[d][i].id
      BY <1>4, <2>0, <2>2, <3>1, SMTT(30)
    <3> QED
      BY <3>2, <3>3, <3>4 DEF NoWork, NoFrame
  <2> QED
    BY <1>3, <2>1, <2>2
<1>8. \A d \in Conns : \A n : Earlier(d, n) => Earlier(d, n)'
  BY <1>5, <1>6, EarlierKept DEF InboundInv
<1>9. HandedOn'
  BY <1>0, <1>8 DEF InboundInv, HandedOn, InboundTypes, Item
<1>10. HandlersBehind'
  BY <1>0, <1>8 DEF InboundInv, HandlersBehind
<1>11. Observed' /\ LastCall' /\ InOrder'
  BY <1>0, <1>3 DEF InboundInv, Observed, LastCall, InOrder
<1> QED
  BY <1>5, <1>7, <1>9, <1>10, <1>11 DEF InboundInv

\* ... the consumer's taking the next one, ...
LEMMA TakeInv ==
  ASSUME SessionInv, InboundInv, [Next]_vars, NEW c \in Conns,
         work[c] = NoWork, queue[c] # <<>>,
         queue' = [queue EXCEPT ![c] = Tail(@)],
         \/ work' = work
         \/ c \in table /\ work' = [work EXCEPT ![c] = At(Head(queue[c]), "route")],
         UNCHANGED <<sent, tasks, replies, handled, answered, after>>
  PROVE  InboundInv'
<1> DEFINE q == queue[c]
           n == Len(q)
<1>0. InboundTypes /\ q \in Seq(Frame)
  BY DEF InboundInv, InboundTypes
<1>1. /\ n \in Nat \ {0} /\ DOMAIN q = 1..n
      /\ Head(q) = q[1] /\ Head(q) \in Frame
      /\ Tail(q) \in Seq(Frame) /\ DOMAIN Tail(q) = 1..(n - 1)
      /\ \A i \in 1..(n - 1) : Tail(q)[i] = q[i + 1]
  BY <1>0, TailFacts
<1>2. queue'[c] = Tail(q) /\ \A d \in Conns \ {c} : queue'[d] = queue[d]
  BY <1>0 DEF InboundTypes
<1>3. /\ work'[c] = NoWork \/ work'[c] = At(Head(q), "route")
      /\ \A d \in Conns \ {c} : work'[d] = work[d]
  BY <1>0 DEF InboundTypes
<1>4. InboundTypes'
  <2>1. At(Head(q), "route") \in [frame : Frame, step : {"route", "handle", "handler"}]
    BY <1>1 DEF At
  <2>2. work' \in [Conns -> {NoWork} \cup [frame : Frame, step : {"route", "handle", "handler"}]]
    BY <1>0, <2>1 DEF InboundTypes
  <2>3. queue' \in [Conns -> Seq(Frame)]
    BY <1>0, <1>1 DEF InboundTypes
  <2> QED
    BY <1>0, <2>2, <2>3 DEF InboundTypes
<1>5. /\ At(Head(q), "route").frame = q[1]
      /\ \A x \in DOMAIN Tail(q) : \E y \in DOMAIN q : y > 1 /\ Tail(q)[x] = q[y]
      /\ 1 \in DOMAIN q
  BY <1>1 DEF At
<1>6. \A d \in Conns : Forward(d)
  <2> SUFFICES ASSUME NEW d \in Conns PROVE Forward(d)
    OBVIOUS
  <2>0. sent[d].n \in Nat
    BY <1>0 DEF InboundTypes
  <2>1. CASE d # c
    BY <1>2, <1>3, <2>0, <2>1 DEF Forward
  <2>2. CASE d = c
    BY <1>2, <1>3, <1>5, <2>0, <2>2 DEF Forward
  <2> QED
    BY <2>1, <2>2
<1>7. QueueOrdered'
  <2> SUFFICES ASSUME NEW d \in Conns PROVE QueueOrdered!(d)'
    BY DEF QueueOrdered
  <2>0. QueueOrdered!(d)
    BY DEF InboundInv, QueueOrdered
  <2>1. CASE d # c
    BY <1>2, <1>3, <2>0, <2>1 DEF NoWork, NoFrame
  <2>2. CASE d = c
    <3>1. \A i \in DOMAIN queue'[d] : queue'[d][i].id \in 1..sent'[d].n
      BY <1>2, <1>5, <2>0, <2>2
    <3>2. \A i, j \in DOMAIN queue'[d] : i < j => queue'[d][i].id < queue'[d][j].id
      BY <1>1, <1>2, <2>0, <2>2
    <3>3. work'[d] # NoWork =>
            /\ work'[d].frame.id \in 1..sent'[d].n
            /\ \A i \in DOMAIN queue'[d] : work'[d].frame.id < queue'[d][i].id
      <4>1. q[1].id \in 1..sent[c].n /\ \A i \in DOMAIN Tail(q) : q[1].id < Tail(q)[i].id
        BY <1>1, <1>5, <2>0, <2>2
      <4> QED
        BY <1>2, <1>3, <1>5, <2>2, <4>1
    <3> QED
      BY <3>1, <3>2, <3>3 DEF NoWork, NoFrame
  <2> QED
    BY <2>1, <2>2
<1>8. \A d \in Conns : \A m : Earlier(d, m) => Earlier(d, m)'
  BY <1>0, <1>4, <1>6, EarlierKept
<1>9. HandedOn'
  BY <1>0, <1>8 DEF InboundInv, HandedOn, InboundTypes, Item
<1>10. HandlersBehind'
  <2>1. work[c].step = "free"
    BY DEF NoWork
  <2> QED
    BY <1>3, <1>8, <2>1 DEF InboundInv, HandlersBehind
<1>11. Observed' /\ LastCall' /\ InOrder'
  <2>1. Observed'
    BY <1>2, <1>3, TableKept DEF InboundInv, Observed, NoWork, NoFrame
  <2>2. LastCall'
    BY <1>3, TableKept DEF InboundInv, LastCall
  <2>3. InOrder'
    BY DEF InboundInv, InOrder
  <2> QED
    BY <2>1, <2>2, <2>3
<1> QED
  BY <1>4, <1>7, <1>9, <1>10, <1>11 DEF InboundInv

(* The consumer is done with its frame, or takes it a step further: what   *)
(* then holds of the queue.                                                *)
\* A step of the consumer within one frame.
LEMMA WorkMoves ==
  ASSUME InboundInv, NEW c \in Conns, work[c] # NoWork, NEW w,
         w = NoWork \/ \E step \in {"handle", "handler"} : w = At(work[c].frame, step),
         work' = [work EXCEPT ![c] = w],
         UNCHANGED <<queue, sent>>, InboundTypes'
  PROVE  /\ QueueOrdered'
         /\ \A d \in Conns : \A n : Earlier(d, n) => Earlier(d, n)'
         /\ \A n : w = NoWork /\ n = work[c].frame.id => Earlier(c, n)'
         /\ work'[c] = w /\ \A d \in Conns \ {c} : work'[d] = work[d]
<1>0. InboundTypes /\ QueueOrdered
  BY DEF InboundInv
<1>1. work'[c] = w /\ \A d \in Conns \ {c} : work'[d] = work[d]
  BY <1>0 DEF InboundTypes
<1>2. w # NoWork => w.frame = work[c].frame
  BY DEF At
<1>3. \A d \in Conns : Forward(d)
  <2> SUFFICES ASSUME NEW d \in Conns PROVE Forward(d)
    OBVIOUS
  <2>0. sent[d].n \in Nat
    BY <1>0 DEF InboundTypes
  <2> QED
    BY <1>1, <1>2, <2>0 DEF Forward
<1>4. QueueOrdered'
  BY <1>0, <1>1, <1>2 DEF QueueOrdered, NoWork, NoFrame
<1>5. \A d \in Conns : \A n : Earlier(d, n) => Earlier(d, n)'
  BY <1>0, <1>3, EarlierKept
<1>6. \A n : w = NoWork /\ n = work[c].frame.id => Earlier(c, n)'
  <2>1. work[c].frame.id \in 1..sent[c].n /\ \A i \in DOMAIN queue[c] : work[c].frame.id < queue[c][i].id
    BY <1>0 DEF QueueOrdered
  <2> QED
    BY <1>1, <2>1 DEF Earlier, NoWork, NoFrame
<1> QED
  BY <1>1, <1>4, <1>5, <1>6

(* The frame at work becomes a task or a reply of its own.                 *)
\* A frame leaves the consumer for a task or a reply.
LEMMA NewItem ==
  ASSUME InboundTypes, HandedOn, NEW c \in Conns, work[c] # NoWork,
         NEW t \in Item, t.conn = c, t.frame = work[c].frame,
         UNCHANGED answered,
         \/ tasks' = tasks \cup {t} /\ replies' = replies /\ t.frame.kind \notin Ordered
         \/ replies' = replies \cup {t} /\ tasks' = tasks,
         \A d \in Conns : \A n : Earlier(d, n) => Earlier(d, n)',
         \A n : n = t.frame.id => Earlier(c, n)'
  PROVE  HandedOn'
<1>1. \A u \in tasks \cup replies : u \in Item /\ u.conn \in Conns /\ u.frame.id \in Nat
  BY DEF InboundTypes, Item, Frame
<1>2. t.frame.id \in Nat /\ \A n : Earlier(c, n) => n \in Nat /\ n < t.frame.id
  BY WorkFacts DEF Earlier
<1>3. \A u \in tasks \cup replies : u.conn = c => u.frame.id # t.frame.id
  BY <1>1, <1>2 DEF HandedOn
<1>4. \A i \in DOMAIN answered[c] : answered[c][i] # t.frame.id
  BY <1>2 DEF HandedOn
<1>5. tasks' \cup replies' = tasks \cup replies \cup {t}
  OBVIOUS
<1>6. \A u \in tasks' \cup replies' : Earlier(u.conn, u.frame.id)'
  <2> SUFFICES ASSUME NEW u \in tasks' \cup replies', NEW d, d = u.conn, NEW n, n = u.frame.id
               PROVE  Earlier(d, n)'
    BY DEF Earlier
  <2> QED
    BY <1>1, <1>5 DEF HandedOn
<1>7. (\A d \in Conns : \A i \in DOMAIN answered[d] : Earlier(d, answered[d][i]))'
  <2> SUFFICES ASSUME NEW d \in Conns, NEW i \in DOMAIN answered[d], NEW n, n = answered[d][i]
               PROVE  Earlier(d, n)'
    BY DEF Earlier
  <2> QED
    BY DEF HandedOn
<1>8. \A u, v \in tasks' \cup replies' : u.conn = v.conn /\ u.frame.id = v.frame.id => u = v
  BY <1>3, <1>5 DEF HandedOn
<1>9. tasks' \cap replies' = {}
  BY <1>3 DEF HandedOn
<1>10. \A u \in tasks' \cup replies' : \A i \in DOMAIN answered'[u.conn] :
         answered'[u.conn][i] # u.frame.id
  BY <1>4, <1>5 DEF HandedOn
<1>11. \A u \in tasks' : u.frame.kind \notin Ordered
  BY DEF HandedOn
<1> QED
  BY <1>6, <1>7, <1>8, <1>9, <1>10, <1>11 DEF HandedOn

\* ... its routing, ...
LEMMA RouteInv ==
  ASSUME InboundInv, NEW c \in Conns, Route(c)
  PROVE  InboundInv'
<1>0. InboundTypes /\ QueueOrdered /\ HandedOn /\ HandlersBehind /\ Observed /\ LastCall /\ InOrder
  BY DEF InboundInv
<1>1. /\ work[c].step = "route"
      /\ UNCHANGED <<vars, queue, sent, tasks, replies, handled, answered, after>>
      /\ \E w \in {NoWork, At(work[c].frame, "handle")} : work' = [work EXCEPT ![c] = w]
  BY DEF Route, noteVars
<1>2. PICK w \in {NoWork, At(work[c].frame, "handle")} : work' = [work EXCEPT ![c] = w]
  BY <1>1
<1>3. work[c] # NoWork /\ work[c].frame \in Frame
  BY <1>0, <1>1, WorkFacts
<1>4. InboundTypes'
  <2>1. w \in {NoWork} \cup [frame : Frame, step : {"route", "handle", "handler"}]
    BY <1>3 DEF At
  <2> QED
    BY <1>0, <1>1, <1>2, <2>1 DEF InboundTypes
<1>5. /\ QueueOrdered'
      /\ \A d \in Conns : \A n : Earlier(d, n) => Earlier(d, n)'
      /\ work'[c] = w /\ \A d \in Conns \ {c} : work'[d] = work[d]
  BY <1>1, <1>2, <1>3, <1>4, WorkMoves
<1>6. HandedOn'
  BY <1>0, <1>1, <1>5 DEF HandedOn, InboundTypes, Item
<1>7. HandlersBehind'
  BY <1>0, <1>1, <1>5 DEF HandlersBehind
<1>8. Observed' /\ LastCall' /\ InOrder'
  BY <1>0, <1>1, <1>3, <1>5 DEF Observed, LastCall, InOrder, vars, NoWork, NoFrame
<1> QED
  BY <1>4, <1>5, <1>6, <1>7, <1>8 DEF InboundInv

\* ... its handling, ...
LEMMA HandleFrameInv ==
  ASSUME InboundInv, NEW c \in Conns, HandleFrame(c)
  PROVE  InboundInv'
<1> DEFINE f == work[c].frame
<1>0. InboundTypes /\ QueueOrdered /\ HandedOn /\ HandlersBehind /\ Observed /\ LastCall /\ InOrder
  BY DEF InboundInv
<1>1. /\ work[c].step = "handle"
      /\ UNCHANGED <<vars, queue, sent, replies, answered>>
  BY DEF HandleFrame
<1>2. work[c] # NoWork /\ f \in Frame /\ f.id \in Nat
  BY <1>0, <1>1, WorkFacts
<1>3. c \in observed /\ after[c] = 0
  BY <1>0, <1>1, <1>2 DEF Observed, LastCall
<1>4. \A i \in DOMAIN handled[c] : Earlier(c, handled[c][i]) /\ handled[c][i] < f.id
  BY <1>0, <1>1, <1>2 DEF HandlersBehind, Earlier
<1>5. CASE f.kind \in Ordered
  <2> DEFINE w == At(f, "handler")
  <2>1. /\ handled' = [handled EXCEPT ![c] = Append(@, f.id)]
        /\ after' = [after EXCEPT ![c] = IF c \in table THEN @ ELSE @ + 1]
        /\ work' = [work EXCEPT ![c] = w] /\ tasks' = tasks
    BY <1>5 DEF HandleFrame, CallHandler
  <2>2. handled[c] \in Seq(Nat) /\ w \in [frame : Frame, step : {"route", "handle", "handler"}]
    BY <1>0, <1>2 DEF InboundTypes, At
  <2>3. /\ Len(handled[c]) \in Nat /\ DOMAIN handled[c] = 1..Len(handled[c])
        /\ Append(handled[c], f.id) \in Seq(Nat)
        /\ DOMAIN Append(handled[c], f.id) = 1..(Len(handled[c]) + 1)
        /\ Append(handled[c], f.id)[Len(handled[c]) + 1] = f.id
        /\ \A i \in DOMAIN handled[c] : Append(handled[c], f.id)[i] = handled[c][i]
    BY <1>2, <2>2, AppendFacts, AppendProperties
  <2>4. /\ handled'[c] = Append(handled[c], f.id)
        /\ \A d \in Conns \ {c} : handled'[d] = handled[d] /\ after'[d] = after[d]
        /\ after'[c] = IF c \in table THEN 0 ELSE 1
    BY <1>0, <1>3, <2>1 DEF InboundTypes
  <2>5. InboundTypes'
    <3>1. handled' \in [Conns -> Seq(Nat)] /\ after' \in [Conns -> Nat]
      BY <1>0, <2>1, <2>3, <2>4 DEF InboundTypes
    <3>2. work' \in [Conns -> {NoWork} \cup [frame : Frame, step : {"route", "handle", "handler"}]]
      BY <1>0, <2>1, <2>2 DEF InboundTypes
    <3> QED
      BY <1>0, <1>1, <2>1, <3>1, <3>2 DEF InboundTypes
  <2>6. /\ QueueOrdered'
        /\ \A d \in Conns : \A n : Earlier(d, n) => Earlier(d, n)'
        /\ work'[c] = w /\ \A d \in Conns \ {c} : work'[d] = work[d]
    BY <1>1, <1>2, <2>1, <2>5, WorkMoves
  <2>7. w.step = "handler" /\ w.frame = f
    BY DEF At
  <2>8. HandedOn'
    BY <1>0, <1>1, <2>1, <2>6 DEF HandedOn, InboundTypes, Item
  <2>9. HandlersBehind'
    <3> SUFFICES ASSUME NEW d \in Conns, NEW i \in DOMAIN handled'[d],
                        NEW n, n = handled'[d][i]
                 PROVE  Earlier(d, n)' \/ (work'[d].step = "handler" /\ n = work'[d].frame.id)
      BY DEF HandlersBehind, Earlier
    <3>1. CASE d # c
      BY <1>0, <2>4, <2>6, <3>1 DEF HandlersBehind
    <3>2. CASE d = c
      <4>1. CASE i \in DOMAIN handled[c]
        BY <1>4, <2>3, <2>4, <2>6, <3>2, <4>1
      <4>2. CASE i \notin DOMAIN handled[c]
        <5>1. i = Len(handled[c]) + 1
          BY <2>3, <2>4, <3>2, <4>2
        <5> QED
          BY <2>3, <2>4, <2>6, <2>7, <3>2, <5>1
      <4> QED
        BY <4>1, <4>2
    <3> QED
      BY <3>1, <3>2
  <2>10. Observed' /\ LastCall'
    BY <1>0, <1>1, <1>3, <2>4, <2>6, <2>7 DEF Observed, LastCall, vars, setupVars
  <2>11. InOrder'
    <3>1. \A i, j \in DOMAIN handled'[c] : i < j => handled'[c][i] < handled'[c][j]
      BY <1>0, <1>4, <2>3, <2>4, SMTT(30) DEF InOrder
    <3> QED
      BY <1>0, <1>1, <2>4, <3>1 DEF InOrder
  <2> QED
    BY <2>5, <2>6, <2>8, <2>9, <2>10, <2>11 DEF InboundInv
<1>6. CASE f.kind \notin Ordered
  <2> DEFINE t == [conn |-> c, frame |-> f]
  <2>1. /\ tasks' = tasks \cup {t} /\ work' = [work EXCEPT ![c] = NoWork]
        /\ UNCHANGED <<handled, after>>
    BY <1>6 DEF HandleFrame
  <2>2. t \in Item /\ t.conn = c /\ t.frame = f
    BY <1>2 DEF Item
  <2> HIDE DEF t
  <2>3. InboundTypes'
    <3>1. work' \in [Conns -> {NoWork} \cup [frame : Frame, step : {"route", "handle", "handler"}]]
      BY <1>0, <2>1 DEF InboundTypes
    <3> QED
      BY <1>0, <1>1, <2>1, <2>2, <3>1 DEF InboundTypes
  <2>4. /\ QueueOrdered'
        /\ \A d \in Conns : \A n : Earlier(d, n) => Earlier(d, n)'
        /\ \A n : n = f.id => Earlier(c, n)'
        /\ work'[c] = NoWork /\ \A d \in Conns \ {c} : work'[d] = work[d]
    BY <1>1, <1>2, <2>1, <2>3, WorkMoves
  <2>5. HandedOn'
    BY <1>0, <1>1, <1>2, <1>6, <2>1, <2>2, <2>4, NewItem DEF HandedOn
  <2>6. HandlersBehind'
    BY <1>0, <1>1, <2>1, <2>4 DEF HandlersBehind
  <2>7. Observed' /\ LastCall' /\ InOrder'
    BY <1>0, <1>1, <1>3, <2>1, <2>4 DEF Observed, LastCall, InOrder, vars, setupVars, NoWork, NoFrame
  <2> QED
    BY <2>3, <2>4, <2>5, <2>6, <2>7 DEF InboundInv
<1> QED
  BY <1>5, <1>6

\* ... the return of its handler, ...
LEMMA HandlerReturnsInv ==
  ASSUME InboundInv, NEW c \in Conns, HandlerReturns(c)
  PROVE  InboundInv'
<1> DEFINE f == work[c].frame
           t == [conn |-> c, frame |-> f]
<1>0. InboundTypes /\ QueueOrdered /\ HandedOn /\ HandlersBehind /\ Observed /\ LastCall /\ InOrder
  BY DEF InboundInv
<1>1. /\ work[c].step = "handler"
      /\ replies' = replies \cup {t} /\ work' = [work EXCEPT ![c] = NoWork]
      /\ UNCHANGED <<vars, queue, sent, tasks, handled, answered, after>>
  BY DEF HandlerReturns, noteVars
<1>2. work[c] # NoWork /\ f \in Frame /\ f.id \in Nat
  BY <1>0, <1>1, WorkFacts
<1>3. t \in Item /\ t.conn = c /\ t.frame = f
  BY <1>2 DEF Item
<1> HIDE DEF t
<1>4. InboundTypes'
  <2>1. work' \in [Conns -> {NoWork} \cup [frame : Frame, step : {"route", "handle", "handler"}]]
    BY <1>0, <1>1 DEF InboundTypes
  <2> QED
    BY <1>0, <1>1, <1>3, <2>1 DEF InboundTypes
<1>5. /\ QueueOrdered'
      /\ \A d \in Conns : \A n : Earlier(d, n) => Earlier(d, n)'
      /\ \A n : n = f.id => Earlier(c, n)'
      /\ work'[c] = NoWork /\ \A d \in Conns \ {c} : work'[d] = work[d]
  BY <1>1, <1>2, <1>4, WorkMoves
<1>6. HandedOn'
  BY <1>0, <1>1, <1>2, <1>3, <1>5, NewItem DEF HandedOn
<1>7. HandlersBehind'
  <2> SUFFICES ASSUME NEW d \in Conns, NEW i \in DOMAIN handled[d], NEW n, n = handled[d][i]
               PROVE  Earlier(d, n)' \/ (work'[d].step = "handler" /\ n = work'[d].frame.id)
    BY <1>1 DEF HandlersBehind, Earlier
  <2> QED
    BY <1>0, <1>5 DEF HandlersBehind
<1>8. Observed' /\ LastCall' /\ InOrder'
  BY <1>0, <1>1, <1>5 DEF Observed, LastCall, InOrder, vars, setupVars, NoWork, NoFrame
<1> QED
  BY <1>4, <1>5, <1>6, <1>7, <1>8 DEF InboundInv

\* ... a spawned task, ...
LEMMA TaskRunsInv ==
  ASSUME InboundInv, NEW t \in tasks, TaskRuns(t)
  PROVE  InboundInv'
<1>0. InboundTypes /\ QueueOrdered /\ HandedOn /\ HandlersBehind /\ Observed /\ LastCall /\ InOrder
  BY DEF InboundInv
<1>1. t.frame.kind \notin Ordered /\ t \notin replies
  BY <1>0 DEF HandedOn
<1>2. /\ tasks' = tasks \ {t} /\ replies' \in {replies, replies \cup {t}}
      /\ UNCHANGED <<vars, queue, sent, work, handled, answered, after>>
  BY <1>1 DEF TaskRuns
<1>3. InboundTypes' /\ QueueOrdered'
  BY <1>0, <1>2 DEF InboundTypes, QueueOrdered
<1>4. HandedOn'
  BY <1>0, <1>2, ZenonT(60) DEF HandedOn, Earlier
<1>5. HandlersBehind' /\ Observed' /\ LastCall' /\ InOrder'
  BY <1>0, <1>2 DEF HandlersBehind, Earlier, Observed, LastCall, InOrder, vars
<1> QED
  BY <1>3, <1>4, <1>5 DEF InboundInv

\* ... a reply, ...
LEMMA SendReplyInv ==
  ASSUME InboundInv, NEW r \in replies, SendReply(r)
  PROVE  InboundInv'
<1> DEFINE c == r.conn
           n == r.frame.id
<1>0. InboundTypes /\ QueueOrdered /\ HandedOn /\ HandlersBehind /\ Observed /\ LastCall /\ InOrder
  BY DEF InboundInv
<1>1. /\ replies' = replies \ {r}
      /\ answered' \in {answered, [answered EXCEPT ![c] = Append(@, n)]}
      /\ UNCHANGED <<vars, queue, sent, work, tasks, handled, after>>
  BY DEF SendReply
<1>2. r \in Item /\ c \in Conns /\ n \in Nat /\ answered[c] \in Seq(Nat)
  BY <1>0 DEF InboundTypes, Item, Frame
<1>3. r \notin tasks /\ Earlier(c, n) /\ \A i \in DOMAIN answered[c] : answered[c][i] # n
  BY <1>0 DEF HandedOn
<1>4. \A u \in tasks' \cup replies' : u \in tasks \cup replies /\ ~(u.conn = c /\ u.frame.id = n)
  BY <1>0, <1>1, <1>3 DEF HandedOn
<1>5. QueueOrdered' /\ HandlersBehind' /\ Observed' /\ LastCall'
  BY <1>0, <1>1 DEF QueueOrdered, HandlersBehind, Earlier, Observed, LastCall, vars
<1>6. CASE answered' = answered
  <2>1. InboundTypes' /\ InOrder'
    BY <1>0, <1>1, <1>6 DEF InboundTypes, InOrder
  <2>2. HandedOn'
    BY <1>0, <1>1, <1>4, <1>6, ZenonT(60) DEF HandedOn, Earlier
  <2> QED
    BY <1>5, <2>1, <2>2 DEF InboundInv
<1>7. CASE answered' = [answered EXCEPT ![c] = Append(@, n)]
  <2> DEFINE a == answered[c]
             m == Len(a)
  <2>1. /\ m \in Nat /\ DOMAIN a = 1..m /\ Append(a, n) \in Seq(Nat)
        /\ DOMAIN Append(a, n) = 1..(m + 1) /\ Append(a, n)[m + 1] = n
        /\ \A i \in DOMAIN a : Append(a, n)[i] = a[i]
    BY <1>2, AppendFacts, AppendProperties, SMTT(30)
  <2>2. answered'[c] = Append(a, n) /\ \A d \in Conns \ {c} : answered'[d] = answered[d]
    BY <1>0, <1>2, <1>7 DEF InboundTypes
  <2>3. InboundTypes'
    <3>1. answered' \in [Conns -> Seq(Nat)]
      BY <1>0, <1>7, <2>1 DEF InboundTypes
    <3> QED
      BY <1>0, <1>1, <3>1 DEF InboundTypes
  <2> HIDE DEF c, n, m
  <2>4. \A d \in Conns : \A i \in DOMAIN answered'[d] :
          \/ d = c /\ answered'[d][i] = n
          \/ i \in DOMAIN answered[d] /\ answered'[d][i] = answered[d][i]
    <3> SUFFICES ASSUME NEW d \in Conns, NEW i \in DOMAIN answered'[d]
                 PROVE  \/ d = c /\ answered'[d][i] = n
                        \/ i \in DOMAIN answered[d] /\ answered'[d][i] = answered[d][i]
      OBVIOUS
    <3>1. CASE d = c /\ i \notin DOMAIN a
      <4>1. i = m + 1
        BY <2>1, <2>2, <3>1
      <4> QED
        BY <2>1, <2>2, <3>1, <4>1
    <3> QED
      BY <2>1, <2>2, <3>1
  <2>5. HandedOn'
    <3>1. \A u \in tasks' \cup replies' : \A i \in DOMAIN answered'[u.conn] :
            answered'[u.conn][i] # u.frame.id
      BY <1>0, <1>4, <2>4, ZenonT(60) DEF HandedOn, InboundTypes, Item
    <3>2. \A d \in Conns : \A i \in DOMAIN answered'[d] : Earlier(d, answered'[d][i])
      BY <1>0, <1>3, <2>4 DEF HandedOn
    <3>3. \A d, k : Earlier(d, k) => Earlier(d, k)'
      BY <1>1 DEF Earlier
    <3>4. (\A d \in Conns : \A i \in DOMAIN answered[d] : Earlier(d, answered[d][i]))'
      <4> SUFFICES ASSUME NEW d \in Conns, NEW i \in DOMAIN answered'[d], NEW k, k = answered'[d][i]
                   PROVE  Earlier(d, k)'
        BY DEF Earlier
      <4> QED
        BY <3>2, <3>3
    <3>5. \A u \in tasks' \cup replies' : Earlier(u.conn, u.frame.id)'
      BY <1>0, <1>4, <3>3 DEF HandedOn
    <3> QED
      BY <1>0, <1>1, <1>4, <3>1, <3>4, <3>5 DEF HandedOn
  <2>6. InOrder'
    <3>1. \A d \in Conns : \A i, j \in DOMAIN answered'[d] :
            answered'[d][i] = answered'[d][j] => i = j
      <4> SUFFICES ASSUME NEW d \in Conns, NEW i \in DOMAIN answered'[d],
                          NEW j \in DOMAIN answered'[d], answered'[d][i] = answered'[d][j]
                   PROVE  i = j
        OBVIOUS
      <4>1. CASE d # c
        BY <1>0, <2>2, <4>1 DEF InOrder
      <4>2. CASE d = c
        <5>1. \A x \in DOMAIN answered'[c] : answered'[c][x] = n => x = m + 1
          BY <1>3, <2>1, <2>2
        <5>2. \A x, y \in DOMAIN a : a[x] = a[y] => x = y
          BY <1>0, <1>2 DEF InOrder
        <5> QED
          BY <2>4, <4>2, <5>1, <5>2
      <4> QED
        BY <4>1, <4>2
    <3> QED
      BY <1>0, <1>1, <3>1 DEF InOrder
  <2> QED
    BY <1>5, <2>3, <2>5, <2>6 DEF InboundInv
<1> QED
  BY <1>1, <1>6, <1>7

\* ... and one that fails and removes the connection.
LEMMA SendReplyFailsInv ==
  ASSUME InboundInv, NEW r \in replies, SendReplyFails(r)
  PROVE  InboundInv'
<1>1. /\ replies' \subseteq replies /\ table' \subseteq table
      /\ UNCHANGED <<observed, queue, sent, work, tasks, handled, answered, after>>
  BY DEF SendReplyFails, setupVars, noteVars
<1>2. InboundTypes' /\ QueueOrdered'
  BY <1>1 DEF InboundInv, InboundTypes, QueueOrdered
<1>3. HandedOn'
  BY <1>1 DEF InboundInv, HandedOn, Earlier
<1>4. HandlersBehind' /\ Observed' /\ LastCall' /\ InOrder'
  BY <1>1 DEF InboundInv, HandlersBehind, Earlier, Observed, LastCall, InOrder
<1> QED
  BY <1>2, <1>3, <1>4 DEF InboundInv

\* All steps of the pipeline together.
LEMMA InboundStep ==
  ASSUME SessionInv, InboundInv, [InboundNext]_allVars
  PROVE  InboundInv'
<1>0. [Next]_vars
  BY InboundImplements
<1>1. ASSUME UNCHANGED inboundVars PROVE InboundInv'
  BY <1>0, <1>1, SessionKeepsInbound
<1>2. ASSUME NEW c \in Conns, TakeConnect(c) PROVE InboundInv'
  BY <1>0, <1>2, TakeInv DEF TakeConnect, Free, consumerVars, noteVars
<1>3. ASSUME NEW c \in Conns, TakeFrame(c) PROVE InboundInv'
  <2>1. \/ work' = work
        \/ c \in table /\ work' = [work EXCEPT ![c] = At(Head(queue[c]), "route")]
    BY <1>3 DEF TakeFrame, InboundInv, InboundTypes
  <2> QED
    BY <1>0, <1>3, <2>1, TakeInv DEF TakeFrame, Free, noteVars
<1>4. ASSUME NEW c \in Conns, Consumer(c) PROVE InboundInv'
  BY <1>2, <1>3, <1>4, RouteInv, HandleFrameInv, HandlerReturnsInv DEF Consumer
<1> QED
  BY <1>1, <1>4, OnMessageInv, TaskRunsInv, SendReplyInv, SendReplyFailsInv
     DEF InboundNext, allVars

\* The inductive invariant of the pipeline.
THEOREM InboundInvariance == InboundSpec => []InboundInv
BY InboundRefinesSession, InboundStarts, InboundStep, PTL DEF InboundSpec

\* The handlers of a connection's frames are called in the order the frames
\* arrived, and each frame is answered at most once.
THEOREM InOrderCorrect == InboundSpec => []InOrder
<1>1. InboundInv => InOrder
  BY DEF InboundInv
<1> QED
  BY <1>1, InboundInvariance, PTL

\* After a connection left the table its consumer calls at most one more
\* handler, the one it was on its way to.
THEOREM OneAfterRemovalCorrect == InboundSpec => []OneAfterRemoval
<1>1. InboundInv => OneAfterRemoval
  BY DEF InboundInv, LastCall, OneAfterRemoval
<1> QED
  BY <1>1, InboundInvariance, PTL

\* ReadableBeforeAck also holds of the session that the pipeline drives.
THEOREM InboundReadable == InboundSpec => []ReadableBeforeAck
BY InboundRefinesSession, ReadableCorrect
=============================================================================
