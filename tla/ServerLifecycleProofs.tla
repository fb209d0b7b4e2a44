----------------------- MODULE ServerLifecycleProofs -----------------------
(***************************************************************************)
(* Proofs about ServerLifecycle, for any list of transport servers, any    *)
(* connections and routes, any number of restarts and any limits.          *)
(*                                                                         *)
(* ShutOut and Reasoned are about the end of a stop; what makes them hold  *)
(* happens before.  The invariant says what:                               *)
(*                                                                         *)
(*   Entrances  an open gate belongs to a server this start brought up,    *)
(*              and while stop closes the gates to one it has not come to  *)
(*              yet; so none is open once CLOSE goes out, nor later, nor   *)
(*              after a start that brought nobody up                       *)
(*   Late       connections dialled after CLOSE have not been accepted     *)
(*   Admitted   with every entrance closed, a connection still being set   *)
(*              up was being set up when the last one closed               *)
(*   Emptied    the shutdown pass has told whoever is in the table, or has *)
(*              failed to, or still has it on its list, and then lists     *)
(*              whoever is left; what it has not dealt with is listed      *)
(*              still                                                      *)
(***************************************************************************)
EXTENDS ServerLifecycle, FiniteSetTheorems, TLAPS

LifecycleTypes ==
  /\ pc \in {"down", "start", "up", "gates", "pass", "servers"}
  /\ at \in 1 .. Len(Servers) + 1
  /\ pc \in {"gates", "pass"} => at <= Len(Servers)
  /\ pc = "servers" /\ pass # "none" => at <= Len(Servers)
  /\ life \in 0 .. MaxLives
  /\ pc = "start" => life \in Lives
  /\ up \subseteq Protocols /\ running \in [Protocols -> BOOLEAN]
  /\ endpoint \in BOOLEAN
  /\ gate \in [Protocols -> [Lives -> {"none", "open", "closed"}]]
  /\ loop \in [Protocols -> [Lives -> {"none", "check", "poll", "ended"}]]
  /\ slot \in {"empty", "live", "stopped"} /\ stores \in Nat /\ stops \in Nat
  /\ link \in [Conns -> {"none", "dialing", "handshake", "open", "closed"}]
  /\ to \in Routes
  /\ table \subseteq Conns /\ setup \subseteq Conns /\ seen \subseteq Conns
  /\ pass \in {"none", "count", "broadcast", "grace", "force", "returned"}
  /\ todo \in [Conns -> {"tell", "close", "drop", "done"}]

\* The broadcast deals with one connection.
Telling(c) == Tell(c) \/ TellUnserialized(c) \/ TellEvicts(c)

\* Every entrance is closed, and nothing the server does now opens one.
Shut == pc \in {"pass", "servers", "down"} \/ (pc = "start" /\ up = {})

Entrances ==
  /\ \A s \in Protocols, g \in Lives :
       /\ gate[s][g] = "open" =>
            /\ pc \in {"start", "up", "gates"} /\ s \in up
            /\ pc = "gates" => \E j \in at .. Len(Servers) : s = Servers[j]
       /\ loop[s][g] # "none" => gate[s][g] # "none"
  /\ noticed => pc \in {"pass", "servers", "down"}
  /\ pass # "none" => pc \in {"pass", "servers"}

Late ==
  /\ late \subseteq Conns
  /\ late # {} => noticed
  /\ NoLateEntry

Admitted == Shut => \A c \in Conns : link[c] = "handshake" => c \in midway

\* Those the broadcast has come to a result for, or need not know of.
Reached == told \cup midway \cup missed

Emptied ==
  /\ pass = "broadcast" => \A c \in table : c \in Reached \/ todo[c] = "tell"
  /\ pass \in {"grace", "force"} => table \subseteq Reached
  /\ pass = "force" => \A c \in table \ midway : todo[c] # "done"
  /\ pass = "returned" => table \subseteq midway
  /\ Shut /\ pc # "pass" => table \subseteq midway

LifecycleInv == LifecycleTypes /\ Entrances /\ Late /\ Admitted /\ Emptied

---------------------------------------------------------------------------
\* The server start or stop is at is one of the list.
LEMMA HereListed ==
  ASSUME at \in 1 .. Len(Servers)
  PROVE  Here \in Protocols
BY LifecycleAssumption DEF Here, Protocols

\* The transport servers listed, each once.
LEMMA ServersListed ==
  /\ Len(Servers) \in Nat \ {0} /\ DOMAIN Servers = 1 .. Len(Servers)
  /\ Protocols = {Servers[j] : j \in 1 .. Len(Servers)}
BY LifecycleAssumption DEF Protocols

\* close_gate: the open gates of one transport server are closed, no other.
LEMMA GateCloses ==
  ASSUME LifecycleTypes, at \in 1 .. Len(Servers),
         gate' = [gate EXCEPT ![Here] = Closed(Here)]
  PROVE  /\ gate' \in [Protocols -> [Lives -> {"none", "open", "closed"}]]
         /\ \A s \in Protocols, g \in Lives :
              gate'[s][g] =
                IF s = Here /\ gate[s][g] = "open" THEN "closed" ELSE gate[s][g]
<1>1. Here \in Protocols
  BY HereListed
<1>2. \A g \in Lives : gate[Here][g] \in {"none", "open", "closed"}
  BY <1>1 DEF LifecycleTypes
<1>3. Closed(Here) \in [Lives -> {"none", "open", "closed"}]
  BY <1>2 DEF Closed
<1>4. \A g \in Lives : Closed(Here)[g] = IF gate[Here][g] = "open" THEN "closed" ELSE gate[Here][g]
  BY DEF Closed
<1> HIDE DEF Here
<1>5. \A s \in Protocols : gate'[s] = IF s = Here THEN Closed(Here) ELSE gate[s]
  BY <1>1 DEF LifecycleTypes
<1>6. gate' \in [Protocols -> [Lives -> {"none", "open", "closed"}]]
  BY <1>1, <1>3, SMTT(30) DEF LifecycleTypes
<1> QED
  BY <1>4, <1>5, <1>6

\* Every step keeps the types: one case for each action.
LEMMA TypesNext ==
  ASSUME LifecycleTypes, Next
  PROVE  LifecycleTypes'
<1> USE LifecycleAssumption, ServersListed DEF LifecycleTypes, Lives
<1>1. CASE Start
  BY <1>1 DEF Start, serverVars, heartbeatVars, connVars, passVars, logVars
<1>2. CASE StartServer
  BY <1>2, HereListed, SMTT(30) DEF StartServer, serverVars, heartbeatVars, connVars, passVars, logVars, Next_
<1>3. CASE StartServerFails
  BY <1>3, HereListed DEF StartServerFails, serverVars, heartbeatVars, connVars, passVars, logVars, Next_
<1>4. CASE Started
  BY <1>4 DEF Started, serverVars, heartbeatVars, connVars, passVars, logVars
<1>5. CASE Stop
  BY <1>5 DEF Stop, serverVars, heartbeatVars, connVars, passVars, logVars
<1>6. CASE StopAccepting
  <2>1. at \in 1 .. Len(Servers) /\ gate' = [gate EXCEPT ![Here] = Closed(Here)]
    BY <1>6 DEF StopAccepting
  <2>2. gate' \in [Protocols -> [Lives -> {"none", "open", "closed"}]]
    BY <2>1, GateCloses
  <2>3. /\ at' \in 1 .. Len(Servers)
        /\ pc' \in {"gates", "pass"} /\ pass' \in {pass, "count"}
    BY <1>6, <2>1 DEF StopAccepting, Next_
  <2> QED
    BY <1>6, <2>2, <2>3 DEF StopAccepting, heartbeatVars, connVars
<1>7. CASE ConnectionsShutDown
  BY <1>7 DEF ConnectionsShutDown, serverVars, heartbeatVars, connVars, passVars, logVars
<1>8. CASE StopServer
  BY <1>8, HereListed, GateCloses, SMTT(30) DEF StopServer, serverVars, heartbeatVars, connVars, passVars, logVars
<1>9. CASE ServerStopped
  BY <1>9 DEF ServerStopped, serverVars, heartbeatVars, connVars, passVars, logVars, Next_
<1>10. CASE Stopped
  BY <1>10 DEF Stopped, serverVars, heartbeatVars, connVars, passVars, logVars
<1>11. CASE StoreDetector
  BY <1>11 DEF StoreDetector, serverVars, heartbeatVars, connVars, passVars, logVars
<1>12. CASE StopDetector
  BY <1>12 DEF StopDetector, serverVars, heartbeatVars, connVars, passVars, logVars
<1>13. CASE Count
  BY <1>13 DEF Count, Each, serverVars, heartbeatVars, connVars, passVars, logVars, Shutting
<1>14. CASE Broadcasted \/ BroadcastTimesOut
  BY <1>14 DEF Broadcasted, BroadcastTimesOut, serverVars, heartbeatVars, connVars, passVars,
               logVars, Shutting
<1>15. CASE GraceOver
  BY <1>15 DEF GraceOver, Each, serverVars, heartbeatVars, connVars, passVars, logVars, Shutting
<1>16. CASE ForceDone
  BY <1>16 DEF ForceDone, serverVars, heartbeatVars, connVars, passVars, logVars, Shutting
<1>17. CASE BudgetOver
  BY <1>17 DEF BudgetOver, serverVars, heartbeatVars, connVars, passVars, logVars, Shutting
<1>18. ASSUME NEW c \in Conns, Dial(c) PROVE LifecycleTypes'
  BY <1>18 DEF Dial, serverVars, heartbeatVars, connVars, passVars, logVars
<1>19. ASSUME NEW c \in Conns, Refused(c) PROVE LifecycleTypes'
  BY <1>19 DEF Refused, serverVars, heartbeatVars, connVars, passVars, logVars, Cut
<1>20. ASSUME NEW c \in Conns, HandshakeFails(c) PROVE LifecycleTypes'
  BY <1>20 DEF HandshakeFails, serverVars, heartbeatVars, connVars, passVars, logVars, Cut
<1>21. ASSUME NEW c \in Conns, PeerLeaves(c) PROVE LifecycleTypes'
  BY <1>21 DEF PeerLeaves, serverVars, heartbeatVars, connVars, passVars, logVars, Cut
<1>22. ASSUME NEW c \in Conns, BackgroundClose(c) PROVE LifecycleTypes'
  BY <1>22 DEF BackgroundClose, serverVars, heartbeatVars, connVars, passVars, logVars, Cut
<1>23. ASSUME NEW c \in Conns, Enter(c) PROVE LifecycleTypes'
  <2>1. /\ link' \in [Conns -> {"none", "dialing", "handshake", "open", "closed"}]
        /\ table' \subseteq Conns /\ setup' \subseteq Conns
    <3>1. /\ \/ link' = [link EXCEPT ![c] = "open"]
             \/ link' = [link EXCEPT ![c] = "closed"]
          /\ table' = table \cup {c} \/ table' = table
          /\ setup' = setup \cup {c} \/ setup' = setup
      BY <1>23 DEF Enter
    <3> QED
      BY <3>1
  <2> QED
    BY <1>23, <2>1 DEF Enter, serverVars, heartbeatVars, passVars
<1>24. ASSUME NEW c \in Conns, Observe(c) PROVE LifecycleTypes'
  BY <1>24 DEF Observe, serverVars, heartbeatVars, connVars, passVars, logVars
<1>25. ASSUME NEW c \in Conns, OnDisconnect(c) PROVE LifecycleTypes'
  BY <1>25 DEF OnDisconnect, serverVars, heartbeatVars, connVars, passVars, logVars
<1>26. ASSUME NEW c \in Conns, ForceClose(c) PROVE LifecycleTypes'
  BY <1>26 DEF ForceClose, serverVars, heartbeatVars, connVars, passVars, logVars, Shutting
<1>27. ASSUME NEW c \in Conns, ForceDrop(c) PROVE LifecycleTypes'
  BY <1>27 DEF ForceDrop, serverVars, heartbeatVars, connVars, passVars, logVars, Shutting
<1>27a. ASSUME NEW c \in Conns, Telling(c) PROVE LifecycleTypes'
  <2>1. /\ todo' = [todo EXCEPT ![c] = "done"] /\ table' \subseteq table
        /\ UNCHANGED <<pc, at, life, serverVars, heartbeatVars, connVars, pass>>
    BY <1>27a DEF Telling, Tell, TellUnserialized, TellEvicts, Shutting, connVars
  <2> QED
    BY <2>1 DEF serverVars, heartbeatVars, connVars
<1>28. ASSUME NEW s \in Protocols, NEW g \in Lives, LoopCheck(s, g)
      PROVE  LifecycleTypes'
  BY <1>28 DEF LoopCheck, serverVars, heartbeatVars, connVars, passVars, logVars
<1>29. ASSUME NEW s \in Protocols, NEW g \in Lives, LoopEnds(s, g)
      PROVE  LifecycleTypes'
  BY <1>29, SMTT(30) DEF LoopEnds, serverVars, heartbeatVars, connVars, passVars, logVars
<1>30. ASSUME NEW s \in Protocols, NEW g \in Lives, NEW c \in Conns, Accept(s, g, c)
      PROVE  LifecycleTypes'
  BY <1>30, SMTT(30) DEF Accept, serverVars, heartbeatVars, connVars, passVars, logVars
<1> QED
  BY <1>1, <1>2, <1>3, <1>4, <1>5, <1>6, <1>7, <1>8, <1>9, <1>10, <1>11, <1>12, <1>13, <1>14, <1>15, <1>16, <1>17, <1>18, <1>19, <1>20, <1>21, <1>22, <1>23, <1>24, <1>25, <1>26, <1>27, <1>27a, <1>28, <1>29, <1>30
     DEF Next, StartStep, StopStep, PassStep, LoopStep, Telling

\* The gates and the pass: what the steps outside start and stop leave alone.
LEMMA EntrancesNext ==
  ASSUME LifecycleTypes, Entrances, Next
  PROVE  Entrances'
<1> USE ServersListed DEF LifecycleTypes
<1>k. ASSUME pc' = pc, at' = at, up' = up, gate' = gate,
             \A s \in Protocols, g \in Lives : loop'[s][g] # "none" => loop[s][g] # "none",
             noticed' => noticed \/ pass = "broadcast", pass' # "none" => pass # "none"
      PROVE  Entrances'
  BY <1>k DEF Entrances
<1>a. CASE StoreDetector \/ StopDetector
  BY <1>a, <1>k DEF StoreDetector, StopDetector, serverVars, heartbeatVars,
       connVars, passVars, logVars
<1>b. CASE Count \/ Broadcasted \/ BroadcastTimesOut \/ GraceOver \/ ForceDone \/ BudgetOver
  BY <1>b, <1>k DEF Count, Shutting, Broadcasted, BroadcastTimesOut, GraceOver, ForceDone, BudgetOver,
       serverVars, heartbeatVars, connVars, passVars, logVars
<1>c. ASSUME NEW c \in Conns,
             \/ Dial(c) \/ Refused(c) \/ HandshakeFails(c) \/ PeerLeaves(c)
             \/ BackgroundClose(c) \/ Enter(c) \/ Observe(c) \/ OnDisconnect(c)
             \/ ForceClose(c) \/ ForceDrop(c) \/ Telling(c)
      PROVE  Entrances'
  BY <1>c, <1>k DEF Dial, Refused, Cut, HandshakeFails, PeerLeaves, BackgroundClose,
       Enter, Observe, OnDisconnect, ForceClose, Shutting, ForceDrop, Telling, Tell, TellUnserialized, TellEvicts, serverVars,
       heartbeatVars, connVars, passVars, logVars
<1>d. ASSUME NEW s \in Protocols, NEW g \in Lives,
             LoopCheck(s, g) \/ LoopEnds(s, g) \/ \E c \in Conns : Accept(s, g, c)
      PROVE  Entrances'
  <2>1. /\ pc' = pc /\ at' = at /\ up' = up /\ gate' = gate /\ noticed' = noticed
        /\ pass' = pass /\ loop[s][g] # "none"
        /\ \E l \in {"check", "poll", "ended"} : loop' = [loop EXCEPT ![s][g] = l]
    BY <1>d DEF LoopCheck, LoopEnds, Accept, passVars, logVars
  <2>2. \A r \in Protocols, h \in Lives : loop'[r][h] # "none" => loop[r][h] # "none"
    BY <2>1
  <2> HIDE DEF LifecycleTypes
  <2> QED
    BY <2>1, <2>2, <1>k
<1>1. CASE Start
  BY <1>1 DEF Start, Entrances, passVars
<1>6. CASE Started
  BY <1>6, ZenonT(60) DEF Started, Entrances, serverVars, passVars, logVars
<1>7. CASE Stop
  <2>1. \A s \in Protocols : \E j \in 1 .. Len(Servers) : s = Servers[j]
    OBVIOUS
  <2>2. /\ pc = "up" /\ pc' = "gates" /\ at' = 1 /\ up' = up /\ gate' = gate /\ loop' = loop
        /\ noticed' = noticed /\ pass' = pass
    BY <1>7 DEF Stop, serverVars, passVars, logVars
  <2> QED
    BY <2>1, <2>2 DEF Entrances
<1>8. CASE ConnectionsShutDown
  BY <1>8 DEF ConnectionsShutDown, Entrances, serverVars, logVars
<1>9. CASE Stopped
  BY <1>9 DEF Stopped, Entrances, serverVars, passVars, logVars
<1>2. CASE StartServer
  <2>1. Here \in Protocols /\ life \in Lives
    BY <1>2, HereListed DEF StartServer
  <2>2. \A s \in Protocols, g \in Lives :
          /\ gate'[s][g] = IF s = Here /\ g = life THEN "open" ELSE gate[s][g]
          /\ loop'[s][g] = IF s = Here /\ g = life THEN "check" ELSE loop[s][g]
    BY <1>2, <2>1 DEF StartServer
  <2>3. pc' = "start" /\ up' = up \cup {Here} /\ pc = "start" /\ noticed' = noticed /\ pass' = pass
    BY <1>2 DEF StartServer, passVars, logVars
  <2> HIDE DEF Here
  <2>4. \A s \in Protocols, g \in Lives :
          /\ gate'[s][g] = "open" => s \in up'
          /\ loop'[s][g] # "none" => gate'[s][g] # "none"
    BY <2>1, <2>2, <2>3, SMTT(30) DEF Entrances
  <2> QED
    BY <2>3, <2>4 DEF Entrances
<1>3. CASE StartServerFails
  BY <1>3 DEF StartServerFails, Entrances, passVars, logVars
<1>10. CASE ServerStopped
  BY <1>10 DEF ServerStopped, Entrances, serverVars, logVars
<1>4. CASE StopAccepting
  <2>1. /\ at \in 1 .. Len(Servers) /\ gate' = [gate EXCEPT ![Here] = Closed(Here)]
        /\ pc = "gates" /\ up' = up /\ loop' = loop /\ noticed' = noticed
        /\ IF at < Len(Servers) THEN at' = at + 1 /\ pc' = "gates" /\ pass' = pass
           ELSE pc' = "pass" /\ pass' = "count"
    BY <1>4 DEF StopAccepting, Next_
  <2>2. \A s \in Protocols, g \in Lives :
          gate'[s][g] = IF s = Servers[at] /\ gate[s][g] = "open" THEN "closed" ELSE gate[s][g]
    BY <2>1, GateCloses DEF Here
  <2>3. ASSUME NEW s \in Protocols, NEW g \in Lives, gate'[s][g] = "open"
        PROVE  /\ gate[s][g] = "open" /\ s \in up
               /\ at < Len(Servers) /\ \E j \in at + 1 .. Len(Servers) : s = Servers[j]
    <3>1. gate[s][g] = "open" /\ s # Servers[at] /\ s \in up
      BY <2>1, <2>2, <2>3 DEF Entrances
    <3>2. PICK j \in at .. Len(Servers) : s = Servers[j]
      BY <2>1, <3>1 DEF Entrances
    <3>3. j # at
      BY <3>1, <3>2
    <3> QED
      BY <2>1, <3>1, <3>2, <3>3
  <2>4. ~noticed
    BY <2>1 DEF Entrances
  <2>5. \A s \in Protocols, g \in Lives : loop'[s][g] # "none" => gate'[s][g] # "none"
    <3>1. \A s \in Protocols, g \in Lives : loop[s][g] # "none" => gate[s][g] # "none"
      BY DEF Entrances
    <3> HIDE DEF LifecycleTypes
    <3> QED
      BY <2>1, <2>2, <3>1
  <2>6. \A s \in Protocols, g \in Lives : gate'[s][g] = "open" =>
            /\ pc' \in {"start", "up", "gates"} /\ s \in up'
            /\ pc' = "gates" => \E j \in at' .. Len(Servers) : s = Servers[j]
    <3> SUFFICES ASSUME NEW s \in Protocols, NEW g \in Lives, gate'[s][g] = "open"
                 PROVE  /\ pc' \in {"start", "up", "gates"} /\ s \in up'
                        /\ pc' = "gates" => \E j \in at' .. Len(Servers) : s = Servers[j]
      OBVIOUS
    <3>1. s \in up /\ at < Len(Servers) /\ \E j \in at + 1 .. Len(Servers) : s = Servers[j]
      BY <2>3
    <3>2. at' = at + 1 /\ pc' = "gates" /\ up' = up
      BY <2>1, <3>1
    <3> HIDE DEF LifecycleTypes
    <3> QED
      BY <3>1, <3>2
  <2>7. pass' # "none" => pc' \in {"pass", "servers"}
    BY <2>1 DEF Entrances
  <2> QED
    BY <2>1, <2>4, <2>5, <2>6, <2>7 DEF Entrances
<1>5. CASE StopServer
  <2>1. /\ at \in 1 .. Len(Servers) /\ gate' = [gate EXCEPT ![Here] = Closed(Here)]
        /\ pc = "servers" /\ pc' = pc /\ up' = up /\ loop' = loop /\ noticed' = noticed
    BY <1>5 DEF StopServer, logVars
  <2>2. \A s \in Protocols, g \in Lives :
          gate'[s][g] = IF s = Here /\ gate[s][g] = "open" THEN "closed" ELSE gate[s][g]
    BY <2>1, GateCloses
  <2>3. \A s \in Protocols, g \in Lives :
          gate[s][g] # "open" /\ (loop[s][g] # "none" => gate[s][g] # "none")
    BY <2>1 DEF Entrances
  <2> HIDE DEF LifecycleTypes
  <2>4. \A s \in Protocols, g \in Lives :
          gate'[s][g] # "open" /\ (loop'[s][g] # "none" => gate'[s][g] # "none")
    BY <2>1, <2>2, <2>3
  <2> QED
    BY <2>1, <2>4 DEF Entrances
<1> QED
  BY <1>a, <1>b, <1>c, <1>d, <1>1, <1>2, <1>3, <1>4, <1>5, <1>6, <1>7, <1>8, <1>9, <1>10
     DEF Next, StartStep, StopStep, PassStep, LoopStep, Telling

\* With every entrance closed no accept loop accepts: its gate is not open.
LEMMA NobodyAccepted ==
  ASSUME LifecycleTypes, Entrances, Shut, NEW s \in Protocols, NEW g \in Lives, NEW c \in Conns
  PROVE  ~Accept(s, g, c)
<1>1. gate[s][g] \in {"none", "open", "closed"}
  BY DEF LifecycleTypes
<1>2. gate[s][g] # "open"
  BY DEF Entrances, Shut
<1> QED
  BY <1>1, <1>2 DEF Accept, Entrances

\* A late connection stays outside: the steps that let a connection in need an
\* open gate or a handshake under way.
LEMMA LateNext ==
  ASSUME LifecycleTypes, Entrances, Late, Next
  PROVE  Late'
<1>t. \A c \in Conns : link[c] \in {"none", "dialing", "handshake", "open", "closed"}
  BY DEF LifecycleTypes
<1>k. ASSUME late' = late, noticed \/ late = {} => noticed' \/ late = {},
             \A c \in late : link'[c] \in {link[c], "closed"}
      PROVE  Late'
  BY <1>k DEF Late, NoLateEntry
<1>1. CASE Start
  BY <1>1 DEF Start, Late, NoLateEntry
<1>2. CASE StartServer \/ StartServerFails \/ Started \/ Stop
  BY <1>2, <1>k DEF StartServer, Next_, StartServerFails, Started, Stop, serverVars,
       heartbeatVars, connVars, passVars, logVars
<1>3. CASE StopAccepting \/ ConnectionsShutDown \/ StopServer \/ Stopped
  BY <1>3, <1>k DEF StopAccepting, Next_, ConnectionsShutDown, StopServer, Stopped,
       serverVars, heartbeatVars, connVars, passVars, logVars
<1>4. CASE \/ StoreDetector \/ StopDetector \/ Count \/ Broadcasted \/ BroadcastTimesOut \/ GraceOver
           \/ ForceDone \/ BudgetOver
  BY <1>4, <1>k DEF StoreDetector, StopDetector, Count, Shutting, Broadcasted, BroadcastTimesOut,
       GraceOver, ForceDone, BudgetOver, serverVars, heartbeatVars, connVars,
       passVars, logVars
<1>5. CASE ServerStopped
  BY <1>5, <1>k DEF ServerStopped, logVars, Late
<1>6. ASSUME NEW s \in Protocols, NEW g \in Lives, LoopCheck(s, g) \/ LoopEnds(s, g)
      PROVE  Late'
  BY <1>6, <1>k DEF LoopCheck, LoopEnds, serverVars, heartbeatVars, connVars,
       passVars, logVars
<1>7. ASSUME NEW s \in Protocols, NEW g \in Lives, NEW c \in Conns, Accept(s, g, c)
      PROVE  Late'
  <2>1. ~noticed
    BY <1>7, NobodyAccepted DEF Entrances, Shut
  <2> QED
    BY <1>7, <2>1, <1>k DEF Accept, Late, logVars
<1>8. ASSUME NEW c \in Conns, Dial(c) PROVE Late'
  <2>1. late' = late \cup {c} \/ (late' = late /\ ~noticed)
    BY <1>8 DEF Dial
  <2>2. noticed' = noticed /\ link'[c] = "dialing" /\ \A d \in Conns \ {c} : link'[d] = link[d]
    BY <1>8 DEF Dial, LifecycleTypes
  <2>3. late' = late \cup {c} => noticed \/ late' = {}
    BY <1>8 DEF Dial, Late
  <2> QED
    BY <2>1, <2>2, <2>3 DEF Late, NoLateEntry
<1>9. ASSUME NEW c \in Conns, Refused(c) \/ HandshakeFails(c) \/ PeerLeaves(c) \/ BackgroundClose(c)
      PROVE  Late'
  BY <1>9, <1>k DEF Refused, Cut, HandshakeFails, PeerLeaves, BackgroundClose,
       serverVars, heartbeatVars, connVars, passVars, logVars, Late, LifecycleTypes
<1>10. ASSUME NEW c \in Conns, Enter(c) PROVE Late'
  <2>1. c \notin late
    BY <1>10 DEF Enter, Late, NoLateEntry
  <2>2. \A d \in Conns \ {c} : link'[d] = link[d]
    BY <1>10 DEF Enter, LifecycleTypes
  <2> QED
    BY <1>10, <2>1, <2>2, <1>k DEF Enter, Late, logVars
<1>11. ASSUME NEW c \in Conns, Observe(c) \/ OnDisconnect(c) \/ ForceClose(c) \/ ForceDrop(c) \/ Telling(c)
      PROVE  Late'
  BY <1>11, <1>k DEF Observe, OnDisconnect, ForceClose, Shutting, ForceDrop, Telling, Tell, TellUnserialized, TellEvicts,
       serverVars, heartbeatVars, connVars, passVars, logVars, Late, LifecycleTypes
<1> QED
  BY <1>1, <1>2, <1>3, <1>4, <1>5, <1>6, <1>7, <1>8, <1>9, <1>10, <1>11
     DEF Next, StartStep, StopStep, PassStep, LoopStep, Telling

\* The last gate closes with a list of the setups under way, and none begins
\* while every entrance is closed.
LEMMA AdmittedNext ==
  ASSUME LifecycleTypes, Entrances, Admitted, Next
  PROVE  Admitted'
<1>k. ASSUME Shut' => Shut, midway' = midway,
             \A c \in Conns : link'[c] = "handshake" => link[c] = "handshake" \/ ~Shut
      PROVE  Admitted'
  BY <1>k DEF Admitted
<1>1. CASE StopAccepting
  BY <1>1 DEF StopAccepting, connVars, Admitted, Shut
<1>2. CASE Start \/ StartServerFails \/ Started \/ Stop
  BY <1>2, <1>k DEF Start, StartServerFails, Next_, Started, Stop, serverVars,
       heartbeatVars, connVars, passVars, logVars, Shut
<1>3. CASE StartServer
  <2>1. pc' = "start" /\ up' # {}
    BY <1>3 DEF StartServer
  <2> QED
    BY <2>1 DEF Admitted, Shut
<1>4. CASE ConnectionsShutDown \/ StopServer \/ ServerStopped \/ Stopped
  BY <1>4, <1>k DEF ConnectionsShutDown, StopServer, ServerStopped, Next_, Stopped,
       serverVars, heartbeatVars, connVars, passVars, logVars, Shut
<1>5. CASE \/ StoreDetector \/ StopDetector \/ Count \/ Broadcasted \/ BroadcastTimesOut \/ GraceOver
           \/ ForceDone \/ BudgetOver
  BY <1>5, <1>k DEF StoreDetector, StopDetector, Count, Shutting, Broadcasted, BroadcastTimesOut,
       GraceOver, ForceDone, BudgetOver, serverVars, heartbeatVars, connVars,
       passVars, logVars, Shut
<1>6. ASSUME NEW s \in Protocols, NEW g \in Lives, LoopCheck(s, g) \/ LoopEnds(s, g)
      PROVE  Admitted'
  BY <1>6, <1>k DEF LoopCheck, LoopEnds, serverVars, heartbeatVars, connVars,
       passVars, logVars, Shut
<1>7. ASSUME NEW s \in Protocols, NEW g \in Lives, NEW c \in Conns, Accept(s, g, c)
      PROVE  Admitted'
  <2>1. ~Shut
    BY <1>7, NobodyAccepted
  <2> QED
    BY <1>7, <2>1, <1>k DEF Accept, Shut, logVars
<1>8. ASSUME NEW c \in Conns,
             \/ Dial(c) \/ Refused(c) \/ HandshakeFails(c) \/ PeerLeaves(c)
             \/ BackgroundClose(c)
      PROVE  Admitted'
  BY <1>8, <1>k DEF Dial, Refused, Cut, HandshakeFails, PeerLeaves, BackgroundClose,
       serverVars, heartbeatVars, connVars, passVars, logVars, Shut, LifecycleTypes
<1>9. ASSUME NEW c \in Conns, Enter(c) PROVE Admitted'
  <2>1. \A d \in Conns : link'[d] = "handshake" => link[d] = "handshake"
    BY <1>9 DEF Enter, LifecycleTypes
  <2> QED
    BY <1>9, <2>1, <1>k DEF Enter, Shut, serverVars, logVars
<1>10. ASSUME NEW c \in Conns, Observe(c) \/ OnDisconnect(c) \/ ForceClose(c) \/ ForceDrop(c) \/ Telling(c)
      PROVE  Admitted'
  BY <1>10, <1>k DEF Observe, OnDisconnect, ForceClose, Shutting, ForceDrop, Telling, Tell, TellUnserialized, TellEvicts,
       serverVars, heartbeatVars, connVars, passVars, logVars, Shut, LifecycleTypes
<1> QED
  BY <1>1, <1>2, <1>3, <1>4, <1>5, <1>6, <1>7, <1>8, <1>9, <1>10
     DEF Next, StartStep, StopStep, PassStep, LoopStep, Telling

\* The pass empties the table: who is in it is told, then listed, then dropped,
\* and only a setup that was under way can still enter.
LEMMA EmptiedNext ==
  ASSUME LifecycleTypes, Entrances, Admitted, Emptied, Next
  PROVE  Emptied'
<1>k. ASSUME pass' = pass, midway' = midway, told' = told, missed' = missed, todo' = todo,
             table' \subseteq table, Shut' /\ pc' # "pass" => Shut /\ pc # "pass"
      PROVE  Emptied'
  BY <1>k DEF Emptied, Reached
<1>1. CASE Start
  BY <1>1 DEF Start, Emptied, Entrances, Shut, passVars
<1>2. CASE StartServer
  <2>1. pass' = "none" /\ ~Shut'
    BY <1>2 DEF StartServer, Entrances, Shut, passVars
  <2> QED
    BY <2>1 DEF Emptied
<1>3. CASE StartServerFails \/ Started \/ Stop \/ Stopped
  BY <1>3, <1>k DEF StartServerFails, Next_, Started, Stop, Stopped, serverVars,
       heartbeatVars, connVars, passVars, logVars, Shut
<1>4. CASE StopAccepting
  <2>1. pass' \in {"none", "count"} /\ pc' \in {"gates", "pass"}
    BY <1>4 DEF StopAccepting, Entrances
  <2> QED
    BY <2>1 DEF Emptied, Shut
<1>5. CASE ConnectionsShutDown
  BY <1>5 DEF ConnectionsShutDown, Emptied, logVars
<1>6. CASE StopServer \/ ServerStopped
  BY <1>6 DEF StopServer, ServerStopped, Emptied, Shut, serverVars, logVars
<1>7. CASE StoreDetector \/ StopDetector
  BY <1>7, <1>k DEF StoreDetector, StopDetector, serverVars, heartbeatVars,
       connVars, passVars, logVars, Shut
<1>8. CASE Count
  BY <1>8 DEF Count, Each, Shutting, Emptied, Reached, Shut, serverVars, logVars, LifecycleTypes
<1>9. CASE Broadcasted \/ BroadcastTimesOut
  BY <1>9 DEF Broadcasted, BroadcastTimesOut, Shutting, Emptied, Reached, Shut, serverVars,
              logVars, LifecycleTypes
<1>9a. ASSUME NEW c \in Conns, Telling(c) PROVE Emptied'
  BY <1>9a DEF Telling, Tell, TellUnserialized, TellEvicts, Shutting, Emptied, Reached, Shut,
               serverVars, LifecycleTypes
<1>10. CASE GraceOver
  BY <1>10 DEF GraceOver, Each, Shutting, Emptied, Reached, Shut, serverVars, logVars, LifecycleTypes
<1>11. CASE ForceDone
  BY <1>11 DEF ForceDone, Shutting, Emptied, Reached, Shut, serverVars, logVars, LifecycleTypes
<1>12. CASE BudgetOver
  BY <1>12 DEF BudgetOver, Shutting, Emptied, Reached, Shut, serverVars, logVars
<1>13. ASSUME NEW c \in Conns, ForceClose(c) PROVE Emptied'
  BY <1>13 DEF ForceClose, Shutting, Emptied, Reached, Shut, serverVars, logVars, LifecycleTypes
<1>14. ASSUME NEW c \in Conns, ForceDrop(c) PROVE Emptied'
  BY <1>14 DEF ForceDrop, Shutting, Emptied, Reached, Shut, serverVars, logVars, LifecycleTypes
<1>15. ASSUME NEW s \in Protocols, NEW g \in Lives, LoopCheck(s, g) \/ LoopEnds(s, g)
      PROVE  Emptied'
  BY <1>15, <1>k DEF LoopCheck, LoopEnds, serverVars, heartbeatVars, connVars,
       passVars, logVars, Shut
<1>16. ASSUME NEW s \in Protocols, NEW g \in Lives, NEW c \in Conns, Accept(s, g, c)
      PROVE  Emptied'
  BY <1>16, <1>k DEF Accept, serverVars, heartbeatVars, connVars, passVars, logVars,
       Shut
<1>17. ASSUME NEW c \in Conns,
             \/ Dial(c) \/ Refused(c) \/ HandshakeFails(c) \/ PeerLeaves(c)
             \/ BackgroundClose(c)
      PROVE  Emptied'
  BY <1>17, <1>k DEF Dial, Refused, Cut, HandshakeFails, PeerLeaves,
       BackgroundClose, serverVars, heartbeatVars, connVars, passVars, logVars, Shut
<1>18. ASSUME NEW c \in Conns, Observe(c) \/ OnDisconnect(c)
      PROVE  Emptied'
  BY <1>18, <1>k DEF Observe, OnDisconnect, serverVars, heartbeatVars, connVars,
       passVars, logVars, Shut
<1>19. ASSUME NEW c \in Conns, Enter(c) PROVE Emptied'
  <2>1. Shut => c \in midway
    BY <1>19 DEF Enter, Admitted
  <2>2. pass # "none" => Shut
    BY DEF Entrances, Shut
  <2>3. table' = table \/ table' = table \cup {c}
    BY <1>19 DEF Enter
  <2>4. /\ pass' = pass /\ midway' = midway /\ told' = told /\ missed' = missed /\ todo' = todo
        /\ pc' = pc /\ Shut' = Shut
    BY <1>19 DEF Enter, Shut, serverVars, passVars, logVars
  <2> QED
    BY <2>1, <2>2, <2>3, <2>4 DEF Emptied, Reached
<1> QED
  BY <1>1, <1>2, <1>3, <1>4, <1>5, <1>6, <1>7, <1>8, <1>9, <1>9a, <1>10, <1>11, <1>12, <1>13, <1>14, <1>15, <1>16, <1>17, <1>18, <1>19
     DEF Next, StartStep, StopStep, PassStep, LoopStep, Telling

\* The handshake permits of each transport server.
Permits == \A s \in Protocols : Cardinality(InSetup(s)) <= Handshakes

\* No more setups are under way at a transport server than it has permits: a
\* connection holds one from its acceptance to its observer.
LEMMA PermitsNext ==
  ASSUME LifecycleTypes, Permits, Next
  PROVE  Permits'
<1>f. \A s \in Protocols : IsFiniteSet(InSetup(s)) /\ InSetup(s) \in SUBSET Conns
                           /\ Cardinality(InSetup(s)) \in Nat
  <2>1. \A s \in Protocols : InSetup(s) \in SUBSET Conns
    BY DEF InSetup
  <2> QED
    BY <2>1, LifecycleAssumption, FS_Subset, FS_CardinalityType
<1>s. ASSUME NEW s \in Protocols, InSetup(s)' \in SUBSET InSetup(s)
      PROVE  Cardinality(InSetup(s)') <= Handshakes
  <2>1. Cardinality(InSetup(s)') \in Nat /\ Cardinality(InSetup(s)') <= Cardinality(InSetup(s))
    BY <1>f, <1>s, FS_Subset, FS_CardinalityType
  <2> QED
    BY <2>1, <1>f, LifecycleAssumption DEF Permits
<1>k. ASSUME to' = to,
             \A c \in Conns : link'[c] = "handshake" \/ c \in setup' =>
                              link[c] = "handshake" \/ c \in setup
      PROVE  Permits'
  <2>1. \A s \in Protocols : InSetup(s)' \in SUBSET InSetup(s)
    BY <1>k DEF InSetup
  <2> QED
    BY <2>1, <1>s DEF Permits
<1> HIDE DEF Permits
<1>1. CASE Start \/ StartServer \/ StartServerFails \/ Started \/ Stop
  BY <1>1, <1>k DEF Start, StartServer, Next_, StartServerFails, Started, Stop,
       serverVars, heartbeatVars, connVars, passVars, logVars
<1>2. CASE StopAccepting \/ ConnectionsShutDown \/ StopServer \/ ServerStopped \/ Stopped
  BY <1>2, <1>k DEF StopAccepting, Next_, ConnectionsShutDown, StopServer,
       ServerStopped, Stopped, serverVars, heartbeatVars, connVars, passVars,
       logVars
<1>3. CASE \/ StoreDetector \/ StopDetector \/ Count \/ Broadcasted \/ BroadcastTimesOut \/ GraceOver
           \/ ForceDone \/ BudgetOver
  BY <1>3, <1>k DEF StoreDetector, StopDetector, Count, Shutting, Broadcasted, BroadcastTimesOut,
       GraceOver, ForceDone, BudgetOver, serverVars, heartbeatVars, connVars,
       passVars, logVars
<1>4. ASSUME NEW c \in Conns,
             \/ Dial(c) \/ Refused(c) \/ HandshakeFails(c) \/ PeerLeaves(c)
             \/ BackgroundClose(c)
      PROVE  Permits'
  BY <1>4, <1>k DEF Dial, Refused, Cut, HandshakeFails, PeerLeaves, BackgroundClose,
       serverVars, heartbeatVars, connVars, passVars, logVars, LifecycleTypes
<1>5. ASSUME NEW c \in Conns, Observe(c) \/ OnDisconnect(c) \/ ForceClose(c) \/ ForceDrop(c) \/ Telling(c)
      PROVE  Permits'
  BY <1>5, <1>k DEF Observe, OnDisconnect, ForceClose, Shutting, ForceDrop, Telling, Tell, TellUnserialized, TellEvicts,
       serverVars, heartbeatVars, connVars, passVars, logVars, LifecycleTypes
<1>6. ASSUME NEW c \in Conns, Enter(c) PROVE Permits'
  <2>1. \A d \in Conns : link'[d] = "handshake" => link[d] = "handshake"
    BY <1>6 DEF Enter, LifecycleTypes
  <2>2. setup' \subseteq setup \cup {c} /\ link[c] = "handshake" /\ to' = to
    BY <1>6 DEF Enter
  <2> QED
    BY <2>1, <2>2, <1>k
<1>7. ASSUME NEW s \in Protocols, NEW g \in Lives, LoopCheck(s, g) \/ LoopEnds(s, g)
      PROVE  Permits'
  BY <1>7, <1>k DEF LoopCheck, LoopEnds, serverVars, heartbeatVars, connVars,
       passVars, logVars
<1>8. ASSUME NEW s \in Protocols, NEW g \in Lives, NEW c \in Conns, Accept(s, g, c)
      PROVE  Permits'
  <2>1. to' = to /\ setup' = setup /\ to[c] = s /\ link[c] = "dialing"
    BY <1>8 DEF Accept
  <2>2. CASE Cardinality(InSetup(s)) < Handshakes
    <3>1. link' = [link EXCEPT ![c] = "handshake"]
      BY <1>8, <2>2 DEF Accept
    <3>2. ASSUME NEW r \in Protocols PROVE Cardinality(InSetup(r)') <= Handshakes
      <4>1. CASE r = s
        <5>1. InSetup(r)' = InSetup(s) \cup {c}
          BY <2>1, <3>1, <4>1 DEF InSetup, LifecycleTypes
        <5>2. Cardinality(InSetup(s) \cup {c}) \in {Cardinality(InSetup(s)), Cardinality(InSetup(s)) + 1}
          BY <1>f, FS_AddElement
        <5> QED
          BY <5>1, <5>2, <2>2, <1>f, LifecycleAssumption
      <4>2. CASE r # s
        <5>1. InSetup(r)' \in SUBSET InSetup(r)
          BY <2>1, <3>1, <4>2 DEF InSetup, LifecycleTypes
        <5> QED
          BY <5>1, <1>s
      <4> QED
        BY <4>1, <4>2
    <3> QED
      BY <3>2 DEF Permits
  <2>3. CASE ~(Cardinality(InSetup(s)) < Handshakes)
    <3>1. link' = [link EXCEPT ![c] = "closed"]
      BY <1>8, <2>3 DEF Accept
    <3> QED
      BY <2>1, <3>1, <1>k DEF LifecycleTypes
  <2> QED
    BY <2>2, <2>3
<1> QED
  BY <1>1, <1>2, <1>3, <1>4, <1>5, <1>6, <1>7, <1>8
     DEF Next, StartStep, StopStep, PassStep, LoopStep, Telling

---------------------------------------------------------------------------
(* Theorems                                                                 *)

\* Before the first start.
LEMMA LifecycleStarts == Init => LifecycleInv
<1> SUFFICES ASSUME Init PROVE LifecycleInv
  OBVIOUS
<1> USE LifecycleAssumption, ServersListed DEF Init
<1>1. LifecycleTypes
  BY DEF LifecycleTypes, Lives
<1>2. Entrances /\ Late
  BY DEF Entrances, Late, NoLateEntry
<1>3. Admitted /\ Emptied
  BY DEF Admitted, Emptied
<1> QED
  BY <1>1, <1>2, <1>3 DEF LifecycleInv

\* Every step keeps the invariant, by the lemmas above.
LEMMA LifecycleStep == LifecycleInv /\ [Next]_vars => LifecycleInv'
<1> SUFFICES ASSUME LifecycleInv, [Next]_vars PROVE LifecycleInv'
  OBVIOUS
<1>1. CASE Next
  BY <1>1, TypesNext, EntrancesNext, LateNext, AdmittedNext, EmptiedNext DEF LifecycleInv
<1>2. CASE UNCHANGED vars
  BY <1>2 DEF vars, serverVars, heartbeatVars, connVars, passVars, logVars, LifecycleInv,
       LifecycleTypes, Entrances, Late, NoLateEntry, Admitted, Shut, Emptied, Reached
<1> QED
  BY <1>1, <1>2

\* The inductive invariant holds of every behaviour of the server.
THEOREM LifecycleInvariance == Spec => []LifecycleInv
BY LifecycleStarts, LifecycleStep, PTL DEF Spec

\* Type correctness, with the limit on concurrent handshakes: no transport
\* server ever has more setups under way than max_handshake_concurrency.
THEOREM LifecycleTypeCorrect == Spec => []TypeOK
<1>1. Init => Permits
  <2> SUFFICES ASSUME Init PROVE Permits
    OBVIOUS
  <2>1. \A s \in Protocols : InSetup(s) = {}
    BY DEF Init, InSetup
  <2>2. Cardinality({}) = 0 /\ 0 <= Handshakes
    BY FS_EmptySet, LifecycleAssumption
  <2>3. \A s \in Protocols : Cardinality(InSetup(s)) = 0
    BY <2>1, <2>2
  <2> QED
    BY <2>2, <2>3 DEF Permits
<1>2. LifecycleInv /\ Permits /\ [Next]_vars => Permits'
  <2>1. ASSUME Permits, UNCHANGED vars PROVE Permits'
    BY <2>1 DEF vars, connVars, Permits, InSetup
  <2> QED
    BY <2>1, PermitsNext DEF LifecycleInv
<1>3. LifecycleInv /\ Permits => TypeOK
  BY DEF LifecycleInv, LifecycleTypes, Permits, TypeOK
<1> QED
  BY <1>1, <1>2, <1>3, LifecycleInvariance, PTL DEF Spec

\* HybridServer::stop shuts everybody out, whatever peers, callbacks and accept
\* loops do meanwhile: who dials after CLOSE has gone out is not accepted
\* before the next start, and a server that has stopped has nobody in its
\* table but a connection whose setup was under way when the last gate closed.
THEOREM ShutOutCorrect == Spec => []ShutOut
<1>1. LifecycleInv => ShutOut
  BY DEF LifecycleInv, Late, Emptied, Shut, ShutOut, StopClears
<1> QED
  BY <1>1, LifecycleInvariance, PTL

\* What a step may never do: take an open connection out of the table that was
\* neither sent CLOSE(SERVER_SHUTDOWN) nor still being set up, before the
\* broadcast has failed for that very connection (a frame it could not encode,
\* a full queue, the timeout).
THEOREM ReasonedCorrect == Spec => Reasoned
<1> DEFINE Told == \A c \in table \ table' : link[c] = "open" =>
                                         c \in told \cup midway \cup missed'
<1>1. LifecycleInv /\ [Next]_vars => [Told]_vars
  <2> SUFFICES ASSUME LifecycleInv, Next PROVE Told
    OBVIOUS
  <2>k. ASSUME table \subseteq table' PROVE Told
    BY <2>k
  <2>f. ASSUME pass = "force", missed' = missed PROVE Told
    BY <2>f DEF LifecycleInv, Emptied, Reached
  <2> HIDE DEF Told
  <2>1. CASE Start \/ StartServer \/ StartServerFails \/ Started \/ Stop
    BY <2>1, <2>k DEF Start, StartServer, Next_, StartServerFails, Started, Stop,
         serverVars, heartbeatVars, connVars, passVars, logVars
  <2>2. CASE StopAccepting \/ ConnectionsShutDown \/ StopServer \/ ServerStopped \/ Stopped
    BY <2>2, <2>k DEF StopAccepting, Next_, ConnectionsShutDown, StopServer,
         ServerStopped, Stopped, serverVars, heartbeatVars, connVars, passVars,
         logVars
  <2>3. CASE \/ StoreDetector \/ StopDetector \/ Count \/ Broadcasted \/ BroadcastTimesOut \/ GraceOver
             \/ ForceDone
    BY <2>3, <2>k DEF StoreDetector, StopDetector, Count, Shutting, Broadcasted, BroadcastTimesOut,
         GraceOver, ForceDone, serverVars, heartbeatVars, connVars, passVars, logVars
  <2>4. CASE BudgetOver
    BY <2>4, <2>f DEF BudgetOver, logVars
  <2>5a. ASSUME NEW c \in Conns, Telling(c) PROVE Told
    BY <2>5a DEF Telling, Tell, TellUnserialized, TellEvicts, Told
  <2>5. ASSUME NEW c \in Conns, ForceClose(c) \/ ForceDrop(c)
        PROVE  Told
    BY <2>5, <2>f DEF ForceClose, Shutting, ForceDrop, Telling, Tell, TellUnserialized, TellEvicts, serverVars, heartbeatVars,
         connVars, passVars, logVars
  <2>6. ASSUME NEW c \in Conns,
               \/ Dial(c) \/ Refused(c) \/ HandshakeFails(c) \/ PeerLeaves(c)
               \/ BackgroundClose(c) \/ Enter(c) \/ Observe(c)
        PROVE  Told
    BY <2>6, <2>k DEF Dial, Refused, Cut, HandshakeFails, PeerLeaves, BackgroundClose,
         Enter, Observe, serverVars, heartbeatVars, connVars, passVars, logVars
  <2>7. ASSUME NEW c \in Conns, OnDisconnect(c) PROVE Told
    BY <2>7 DEF OnDisconnect, Told
  <2>8. ASSUME NEW s \in Protocols, NEW g \in Lives, LoopCheck(s, g) \/ LoopEnds(s, g)
        PROVE  Told
    BY <2>8, <2>k DEF LoopCheck, LoopEnds, serverVars, heartbeatVars, connVars,
         passVars, logVars
  <2>9. ASSUME NEW s \in Protocols, NEW g \in Lives, NEW c \in Conns, Accept(s, g, c)
        PROVE  Told
    BY <2>9, <2>k DEF Accept, serverVars, heartbeatVars, connVars, passVars, logVars
  <2> QED
    BY <2>1, <2>2, <2>3, <2>4, <2>5, <2>5a, <2>6, <2>7, <2>8, <2>9
       DEF Next, StartStep, StopStep, PassStep, LoopStep, Telling
<1> HIDE DEF Told
<1>2. Spec => [][Told]_vars
  BY <1>1, LifecycleInvariance, PTL DEF Spec
<1> QED
  BY <1>2 DEF Reasoned, Told
=============================================================================
