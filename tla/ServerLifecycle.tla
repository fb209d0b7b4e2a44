-------------------------- MODULE ServerLifecycle --------------------------
(***************************************************************************)
(* A server from start to stop and over again: HybridServer and its        *)
(* transport servers, their accept loops, the setup of accepted            *)
(* connections and the shutdown of the ones online.                        *)
(*   pc, at, life  where start and stop are, the transport server they are *)
(*                 at, and how often the server was started                *)
(*   up            the transport servers this start brought up             *)
(*   running       is_running of each transport server                     *)
(*   endpoint      the QUIC endpoint is there to be started                *)
(*   gate, loop    the accept gate and the accept loop of each start       *)
(*   slot          heartbeat_detector of the core                          *)
(*   stores, stops spawned tasks that are to set the slot, and to stop the *)
(*                 detector in it                                          *)
(*   link, to      each connection, and the transport server it dials      *)
(*   table         the connection table                                    *)
(*   setup, seen   connections added and not yet observed, and those       *)
(*                 observed                                                *)
(*   pass, todo    shutdown_connections: its step, and what it still has   *)
(*                 to do to each connection                                *)
(*   told, missed  connections whose write queue took                      *)
(*                 CLOSE(SERVER_SHUTDOWN) in this life, and those the      *)
(*                 broadcast of it failed for                              *)
(*   noticed, late, midway                                                 *)
(*                 whether CLOSE has gone out, the connections dialled     *)
(*                 after that, and the ones being set up when the last     *)
(*                 gate closed                                             *)
(* One poll of an accept loop's select is one step: no client is told of   *)
(* the shutdown and dials again within it.  The tasks that set and stop    *)
(* the detector share nothing with the connections: they are interleaved   *)
(* with start and stop, and connections are dialled when none is pending.  *)
(***************************************************************************)
EXTENDS Naturals, FiniteSets, Sequences

CONSTANTS Servers,        \* the transport servers, in the order of the list
          Conns,
          Routes,         \* which server each connection dials, if any
          MaxLives,       \* bound: starts
          Handshakes,     \* max_handshake_concurrency
          MaxConnections  \* max_connections

Protocols == {Servers[i] : i \in DOMAIN Servers}
Lives == 1 .. MaxLives

ASSUME LifecycleAssumption ==
  /\ Servers \in Seq({"websocket", "tcp", "quic"}) /\ Servers # <<>>
  /\ \A i, j \in DOMAIN Servers : Servers[i] = Servers[j] => i = j
  /\ Routes \subseteq [Conns -> Protocols \cup {"nobody"}]
  /\ IsFiniteSet(Conns)
  /\ MaxLives \in Nat /\ Handshakes \in Nat \ {0} /\ MaxConnections \in Nat

VARIABLES pc, at, life, up, running, endpoint, gate, loop, slot, stores, stops,
          link, to, table, setup, seen, pass, todo,
          told, missed, noticed, late, midway

heartbeatVars == <<slot, stores, stops>>
serverVars == <<up, running, endpoint, gate, loop>>
connVars == <<link, to, setup, seen>>
passVars == <<pass, todo>>
logVars == <<told, missed, noticed, late, midway>>
vars == <<pc, at, life, serverVars, heartbeatVars, connVars, table,
          passVars, logVars>>

Init ==
  /\ pc = "down" /\ at = 1 /\ life = 0 /\ up = {} /\ endpoint = TRUE
  /\ running = [s \in Protocols |-> FALSE]
  /\ gate = [s \in Protocols |-> [g \in Lives |-> "none"]]
  /\ loop = [s \in Protocols |-> [g \in Lives |-> "none"]]
  /\ slot = "empty" /\ stores = 0 /\ stops = 0
  /\ link = [c \in Conns |-> "none"] /\ to \in Routes
  /\ table = {} /\ setup = {} /\ seen = {}
  /\ pass = "none" /\ todo = [c \in Conns |-> "done"]
  /\ told = {} /\ missed = {} /\ noticed = FALSE /\ late = {} /\ midway = {}

Alive(s) == \E g \in Lives : loop[s][g] \in {"check", "poll"}
InSetup(s) == {c \in Conns : to[c] = s /\ (link[c] = "handshake" \/ c \in setup)}
Here == Servers[at]

(* Bound: no interleaving of the detector's tasks with the connections.    *)
NoConnection == \A c \in Conns : link[c] = "none"
NoTask == stores = 0 /\ stops = 0
Next_ == at' = at + 1

-----------------------------------------------------------------------------
(* start: the detector, then every transport server, which starts it again.*)
Start ==
  /\ pc = "down" /\ life < MaxLives
  /\ pc' = "start" /\ at' = 1 /\ life' = life + 1
  /\ up' = {}
  /\ stores' = stores + 1
  /\ told' = {} /\ missed' = {} /\ noticed' = FALSE /\ late' = {}
  /\ UNCHANGED <<running, endpoint, gate, loop, slot, stops, connVars, table,
                 passVars, midway>>

(* A transport server starts: the port must be free of the accept loop of  *)
(* an earlier start, the QUIC endpoint is made once, with the server.      *)
(* Each start has a gate of its own.                                       *)
StartServer ==
  /\ pc = "start" /\ at <= Len(Servers)
  /\ IF Here = "quic" THEN endpoint ELSE ~Alive(Here)
  /\ endpoint' = (endpoint /\ Here # "quic")
  /\ running' = [running EXCEPT ![Here] = TRUE]
  /\ gate' = [gate EXCEPT ![Here][life] = "open"]
  /\ loop' = [loop EXCEPT ![Here][life] = "check"]
  /\ up' = up \cup {Here} /\ Next_
  /\ stores' = stores + 1
  /\ UNCHANGED <<pc, life, slot, stops, connVars, table, passVars,
                 logVars>>

(* A bind fails; a QUIC server without its endpoint fails after it was     *)
(* marked running and has started the detector.                            *)
StartServerFails ==
  /\ pc = "start" /\ at <= Len(Servers)
  /\ Here = "quic" => ~endpoint
  /\ running' = [running EXCEPT ![Here] = @ \/ Here = "quic"]
  /\ stores' = IF Here = "quic" THEN stores + 1 ELSE stores
  /\ Next_
  /\ UNCHANGED <<pc, life, up, endpoint, gate, loop, slot, stops, connVars,
                 table, passVars, logVars>>

(* The server runs if one of them does.                                    *)
Started ==
  /\ pc = "start" /\ at > Len(Servers)
  /\ pc' = IF up = {} THEN "down" ELSE "up"
  /\ UNCHANGED <<at, life, serverVars, heartbeatVars, connVars, table,
                 passVars, logVars>>

-----------------------------------------------------------------------------
(* stop: the detector, then every gate, then the connections, and then the *)
(* transport servers one by one, each of which shuts the connections down  *)
(* once more.                                                              *)
Stop ==
  /\ pc = "up"
  /\ pc' = "gates" /\ at' = 1
  /\ stops' = stops + 1
  /\ UNCHANGED <<life, serverVars, slot, stores, connVars, table,
                 passVars, logVars>>

Closed(s) == [g \in Lives |-> IF gate[s][g] = "open" THEN "closed" ELSE gate[s][g]]

(* Mutant: only the first server closes its gate.                          *)
StopAccepting_FirstOnly ==
  /\ pc = "gates"
  /\ gate' = [gate EXCEPT ![Here] = Closed(Here)]
  /\ pc' = "pass" /\ pass' = "count"
  /\ midway' = {c \in Conns : link[c] = "handshake"}
  /\ UNCHANGED <<at, life, up, running, endpoint, loop, heartbeatVars, connVars,
                 table, todo, told, missed, noticed, late>>

StopAccepting ==
  /\ pc = "gates"
  /\ gate' = [gate EXCEPT ![Here] = Closed(Here)]
  /\ IF at < Len(Servers)
       THEN Next_ /\ UNCHANGED <<pc, pass, midway>>
       ELSE /\ pc' = "pass" /\ pass' = "count" /\ UNCHANGED at
            /\ midway' = {c \in Conns : link[c] = "handshake"}
  /\ UNCHANGED <<life, up, running, endpoint, loop, heartbeatVars, connVars,
                 table, todo, told, missed, noticed, late>>

ConnectionsShutDown ==
  /\ pc = "pass" /\ pass = "returned"
  /\ pc' = "servers" /\ at' = 1 /\ pass' = "none"
  /\ UNCHANGED <<life, serverVars, heartbeatVars, connVars, table,
                 todo, logVars>>

StopServer ==
  /\ pc = "servers" /\ at <= Len(Servers) /\ pass = "none"
  /\ gate' = [gate EXCEPT ![Here] = Closed(Here)]
  /\ running' = [running EXCEPT ![Here] = FALSE]
  /\ stops' = stops + 1
  /\ pass' = "count"
  /\ UNCHANGED <<pc, at, life, up, endpoint, loop, slot, stores, connVars, table,
                 todo, logVars>>

(* The QUIC server closes its endpoint, and with it every connection of it.*)
ServerStopped ==
  /\ pc = "servers" /\ pass = "returned"
  /\ pass' = "none" /\ Next_
  /\ link' = IF Here = "quic" /\ "quic" \in up
               THEN [c \in Conns |-> IF to[c] = "quic" /\ link[c] # "none"
                                       THEN "closed" ELSE link[c]]
               ELSE link
  /\ UNCHANGED <<pc, life, serverVars, heartbeatVars, to, setup, seen,
                 table, todo, logVars>>

Stopped ==
  /\ pc = "servers" /\ at > Len(Servers) /\ pass = "none"
  /\ pc' = "down"
  /\ UNCHANGED <<at, life, serverVars, heartbeatVars, connVars, table,
                 passVars, logVars>>

-----------------------------------------------------------------------------
(* start_heartbeat and stop_heartbeat do their work in spawned tasks.  The *)
(* detector that is replaced ends with its channel.                        *)
StoreDetector ==
  /\ NoConnection /\ stores > 0 /\ stores' = stores - 1
  /\ slot' = "live"
  /\ UNCHANGED <<pc, at, life, serverVars, stops, connVars, table,
                 passVars, logVars>>

StopDetector ==
  /\ NoConnection /\ stops > 0 /\ stops' = stops - 1
  /\ slot' = IF slot = "live" THEN "stopped" ELSE slot
  /\ UNCHANGED <<pc, at, life, serverVars, stores, connVars, table,
                 passVars, logVars>>

-----------------------------------------------------------------------------
(* The accept loop of start g.                                             *)
LoopCheck(s, g) ==
  /\ loop[s][g] = "check"
  /\ loop' = [loop EXCEPT ![s][g] = IF running[s] THEN "poll" ELSE "ended"]
  /\ UNCHANGED <<pc, at, life, up, running, endpoint, gate, heartbeatVars,
                 connVars, table, passVars, logVars>>

LoopEnds(s, g) ==
  /\ loop[s][g] = "poll" /\ gate[s][g] = "closed"
  /\ loop' = [loop EXCEPT ![s][g] = "ended"]
  /\ UNCHANGED <<pc, at, life, up, running, endpoint, gate, heartbeatVars,
                 connVars, table, passVars, logVars>>

(* A connection is accepted; without a permit it is dropped.               *)
Accept(s, g, c) ==
  /\ loop[s][g] = "poll" /\ gate[s][g] # "closed"
  /\ link[c] = "dialing" /\ to[c] = s
  /\ link' = [link EXCEPT ![c] =
                IF Cardinality(InSetup(s)) < Handshakes THEN "handshake" ELSE "closed"]
  /\ loop' = [loop EXCEPT ![s][g] = "check"]
  /\ UNCHANGED <<pc, at, life, up, running, endpoint, gate, heartbeatVars, to,
                 setup, seen, table, passVars, logVars>>

-----------------------------------------------------------------------------
(* A client dials a server that listens; QUIC refuses new handshakes once  *)
(* its gate is closed.                                                     *)
Dial(c) ==
  /\ link[c] = "none" /\ to[c] \in Protocols /\ Alive(to[c])
  /\ NoConnection => NoTask
  /\ to[c] = "quic" => \E g \in Lives : gate["quic"][g] = "open"
  /\ link' = [link EXCEPT ![c] = "dialing"]
  /\ late' = IF noticed THEN late \cup {c} ELSE late
  /\ UNCHANGED <<pc, at, life, serverVars, heartbeatVars, to, setup, seen,
                 table, passVars, told, missed, noticed, midway>>

Cut(c) ==
  /\ link' = [link EXCEPT ![c] = "closed"]
  /\ UNCHANGED <<pc, at, life, serverVars, heartbeatVars, to, setup, seen,
                 table, passVars, logVars>>

Refused(c) == link[c] = "dialing" /\ ~Alive(to[c]) /\ Cut(c)

HandshakeFails(c) == link[c] = "handshake" /\ Cut(c)

PeerLeaves(c) == link[c] = "open" /\ Cut(c)

(* A removed connection is closed in the background.                       *)
BackgroundClose(c) == link[c] = "open" /\ c \notin table /\ Cut(c)

(* setup_new_connection: into the table, then the observer.                *)
Enter(c) ==
  /\ link[c] = "handshake"
  /\ IF Cardinality(table) < MaxConnections
       THEN /\ link' = [link EXCEPT ![c] = "open"]
            /\ table' = table \cup {c} /\ setup' = setup \cup {c}
       ELSE /\ link' = [link EXCEPT ![c] = "closed"]
            /\ UNCHANGED <<table, setup>>
  /\ UNCHANGED <<pc, at, life, serverVars, heartbeatVars, to, seen,
                 passVars, logVars>>

Observe(c) ==
  /\ c \in setup
  /\ setup' = setup \ {c}
  /\ seen' = IF c \in table THEN seen \cup {c} ELSE seen
  /\ UNCHANGED <<pc, at, life, serverVars, heartbeatVars, link, to,
                 table, passVars, logVars>>

(* on_disconnect: the application's callback, which may take its time, or  *)
(* wait for the lock that start and stop of ServerWrapper hold, and then   *)
(* the removal from the table.                                             *)
OnDisconnect(c) ==
  /\ c \in seen /\ link[c] = "closed"
  /\ seen' = seen \ {c} /\ table' = table \ {c}
  /\ UNCHANGED <<pc, at, life, serverVars, heartbeatVars, link, to, setup,
                 passVars, logVars>>

-----------------------------------------------------------------------------
(* shutdown_connections.                                                   *)
Shutting == UNCHANGED <<pc, at, life, serverVars, heartbeatVars, to, setup, seen>>

Each(S, what) == [c \in Conns |-> IF c \in S THEN what ELSE "done"]

(* Mutant: CLOSE goes to the observed connections only.                    *)
Count_Observed ==
  /\ pass = "count"
  /\ pass' = IF table = {} THEN "returned" ELSE "broadcast"
  /\ todo' = Each(table \cap seen, "tell")
  /\ Shutting /\ UNCHANGED <<link, table, logVars>>

(* Nobody online: done.  Otherwise broadcast_frame takes its snapshots.    *)
Count ==
  /\ pass = "count"
  /\ pass' = IF table = {} THEN "returned" ELSE "broadcast"
  /\ todo' = Each(table, "tell")
  /\ Shutting /\ UNCHANGED <<link, table, logVars>>

(* CLOSE(SERVER_SHUTDOWN) for one connection: its write queue takes it ... *)
Tell(c) ==
  /\ pass = "broadcast" /\ todo[c] = "tell"
  /\ todo' = [todo EXCEPT ![c] = "done"]
  /\ c \in table /\ told' = told \cup {c} /\ noticed' = TRUE
  /\ Shutting /\ UNCHANGED <<link, table, pass, missed, late, midway>>

(* ... it cannot be encoded as negotiated, and the connection stays ...    *)
TellUnserialized(c) ==
  /\ pass = "broadcast" /\ todo[c] = "tell"
  /\ todo' = [todo EXCEPT ![c] = "done"]
  /\ missed' = missed \cup {c}
  /\ Shutting /\ UNCHANGED <<link, table, pass, told, noticed, late, midway>>

(* ... or the queue is full or closed, and the connection is evicted.      *)
TellEvicts(c) ==
  /\ pass = "broadcast" /\ todo[c] = "tell"
  /\ todo' = [todo EXCEPT ![c] = "done"]
  /\ missed' = missed \cup {c} /\ table' = table \ {c}
  /\ Shutting /\ UNCHANGED <<link, pass, told, noticed, late, midway>>

Broadcasted ==
  /\ pass = "broadcast" /\ \A c \in Conns : todo[c] = "done"
  /\ pass' = "grace"
  /\ Shutting /\ UNCHANGED <<link, table, todo, logVars>>

(* SHUTDOWN_BROADCAST_TIMEOUT: who has not been reached is not told.       *)
BroadcastTimesOut ==
  /\ pass = "broadcast" /\ \E c \in Conns : todo[c] # "done"
  /\ pass' = "grace"
  /\ missed' = missed \cup {c \in Conns : todo[c] = "tell"}
  /\ todo' = [c \in Conns |-> "done"]
  /\ Shutting /\ UNCHANGED <<link, table, told, noticed, late, midway>>

(* Mutant: the grace period ends when the table is empty.                  *)
GraceOver_WaitsForAll ==
  /\ pass = "grace" /\ table = {}
  /\ pass' = "force"
  /\ UNCHANGED todo
  /\ Shutting /\ UNCHANGED <<link, table, logVars>>

(* Until nobody is left or the grace is over; then the rest is listed.     *)
GraceOver ==
  /\ pass = "grace" /\ pass' = "force"
  /\ todo' = Each(table, "close")
  /\ Shutting /\ UNCHANGED <<link, table, logVars>>

(* close_going_away, if it is still there, is made to end by its timeout.  *)
ForceClose(c) ==
  /\ pass = "force" /\ todo[c] = "close"
  /\ todo' = [todo EXCEPT ![c] = "drop"]
  /\ \/ c \in table /\ link' = [link EXCEPT ![c] = "closed"]
     \/ UNCHANGED link
  /\ Shutting /\ UNCHANGED <<table, pass, logVars>>

ForceDrop(c) ==
  /\ pass = "force" /\ todo[c] = "drop"
  /\ todo' = [todo EXCEPT ![c] = "done"]
  /\ table' = table \ {c}
  /\ Shutting /\ UNCHANGED <<link, pass, logVars>>

ForceDone ==
  /\ pass = "force" /\ \A c \in Conns : todo[c] = "done"
  /\ pass' = "returned"
  /\ Shutting /\ UNCHANGED <<link, table, todo, logVars>>

(* The budget is over: who is left goes without a close.                   *)
BudgetOver ==
  /\ pass = "force" /\ \E c \in Conns : todo[c] # "done"
  /\ pass' = "returned"
  /\ todo' = [c \in Conns |-> "done"]
  /\ table' = {}
  /\ Shutting /\ UNCHANGED <<link, logVars>>

-----------------------------------------------------------------------------
PassStep ==
  \/ Count \/ Broadcasted \/ BroadcastTimesOut \/ GraceOver \/ ForceDone \/ BudgetOver
  \/ \E c \in Conns : \/ Tell(c) \/ TellUnserialized(c) \/ TellEvicts(c)
                      \/ ForceClose(c) \/ ForceDrop(c)

StopStep ==
  StopAccepting \/ ConnectionsShutDown \/ StopServer \/ ServerStopped \/ Stopped

StartStep == StartServer \/ StartServerFails \/ Started

LoopStep(s, g) ==
  LoopCheck(s, g) \/ LoopEnds(s, g) \/ \E c \in Conns : Accept(s, g, c)

Next ==
  \/ Start \/ StartStep \/ Stop \/ StopStep \/ PassStep
  \/ StoreDetector \/ StopDetector
  \/ \E s \in Protocols, g \in Lives : LoopStep(s, g)
  \/ \E c \in Conns :
       \/ Dial(c) \/ Refused(c) \/ HandshakeFails(c) \/ PeerLeaves(c)
       \/ BackgroundClose(c) \/ Enter(c) \/ Observe(c)
       \/ OnDisconnect(c)

(* The runtime runs the tasks of the server and its timers fire.  Nothing  *)
(* is assumed of a peer, of a close or of the application's callback.      *)
Fairness ==
  /\ WF_vars(StopStep) /\ WF_vars(PassStep)
  /\ \A s \in Protocols, g \in Lives : WF_vars(LoopStep(s, g))

Spec == Init /\ [][Next]_vars /\ Fairness

-----------------------------------------------------------------------------
TypeOK ==
  /\ pc \in {"down", "start", "up", "gates", "pass", "servers"}
  /\ at \in 1 .. Len(Servers) + 1 /\ life \in 0 .. MaxLives
  /\ up \subseteq Protocols /\ running \in [Protocols -> BOOLEAN]
  /\ endpoint \in BOOLEAN
  /\ gate \in [Protocols -> [Lives -> {"none", "open", "closed"}]]
  /\ loop \in [Protocols -> [Lives -> {"none", "check", "poll", "ended"}]]
  /\ slot \in {"empty", "live", "stopped"} /\ stores \in Nat /\ stops \in Nat
  /\ link \in [Conns -> {"none", "dialing", "handshake", "open", "closed"}]
  /\ to \in Routes
  /\ table \subseteq Conns /\ setup \subseteq Conns /\ seen \subseteq Conns
  /\ pass \in {"none", "count", "broadcast", "grace", "force", "returned"}
  /\ todo \in [Conns -> {"tell", "close", "drop", "done"}]
  /\ \A s \in Protocols : Cardinality(InSetup(s)) <= Handshakes

(* Nobody who has been told of the shutdown gets back in: a connection     *)
(* dialled after CLOSE went out is not accepted by any transport server    *)
(* until the server is started again (HybridServer::stop closes every      *)
(* entrance first).                                                        *)
NoLateEntry == \A c \in late : link[c] \in {"dialing", "closed"}

(* A server that has stopped has no connection in its table but one whose  *)
(* setup was under way when the last entrance closed, whatever the peers   *)
(* and the application do and however long their closes take               *)
(* (shutdown_connections_within).                                          *)
StopClears == pc = "down" => table \subseteq midway

(* The shutdown is complete: nobody gets back in and nobody is left.       *)
ShutOut == NoLateEntry /\ StopClears

(* The shutdown cuts off no client that cannot tell it from a failure, but *)
(* for the ones CLOSE could not be handed to: a connection that leaves the *)
(* table while it is open has CLOSE with the typed reason in its write     *)
(* queue, was being set up when the gates closed, or is one the broadcast  *)
(* failed for: it could not be encoded, its queue was full, or the         *)
(* broadcast timed out before it.  Nobody is closed before the broadcast   *)
(* has come to a result for it, and the failure of one connection costs no *)
(* other the reason.                                                       *)
Reasoned ==
  [][\A c \in table \ table' :
       link[c] = "open" => c \in told \cup midway \cup missed']_vars

(* stop returns: peers that neither read nor close, and callbacks that     *)
(* wait for the server's own lock, do not hold it up.                      *)
StopReturns == pc = "gates" ~> pc = "down"

(* A server that is up serves: who dials a transport server that was       *)
(* started is taken in or turned away, also after a restart beside an      *)
(* accept loop of the start before (AcceptGate).                           *)
Served ==
  \A c \in Conns :
    (link[c] = "dialing" /\ pc = "up" /\ to[c] \in up)
      ~> (link[c] # "dialing" \/ pc # "up")

(* Neither a stop nor a dial waits for ever.                               *)
Responsive == StopReturns /\ Served
=============================================================================
