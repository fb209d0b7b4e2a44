-------------------------- MODULE TransportClient --------------------------
(***************************************************************************)
(* The client of one transport (WebSocketClient, QUICClient, TCPClient) as *)
(* the race and the layers above it drive it: connect, try_reconnect and   *)
(* disconnect, step by step, over the state of its ClientCore.             *)
(* ClientSession has the frame handlers and the tasks of the core in full; *)
(* here a frame of the server is one event.                                *)
(*   net        the connection each protocol's client made last            *)
(*   winner     the protocol whose client is driven                        *)
(*   hooked     the protocols whose connection carries the observer of     *)
(*              its core and stands in client_connection                   *)
(*   state, negotiated, requested, ended                                   *)
(*              the core of the winner: its connection state and the       *)
(*              flags negotiation_completed, disconnect_requested and      *)
(*              session_ended_by_server                                    *)
(*   held, prepared, attempts                                              *)
(*              the fields connection, connection_prepared and             *)
(*              reconnect_attempts of the client                           *)
(*   stage, retrying, result                                               *)
(*              the step of the operation in progress, whether it is in    *)
(*              try_reconnect, and what the last one returned              *)
(*   dials      connections dialled by the winner's client                 *)
(*   lock       who holds the lock that the layer above keeps the client   *)
(*              behind                                                     *)
(***************************************************************************)
EXTENDS Naturals, FiniteSets

CONSTANTS Protocols,    \* the protocols of the configuration
          None,
          MaxAttempts,  \* max_reconnect_attempts; None: without limit
          ReconnectOnSend,
          MaxDials      \* bound: connections dialled after the race

ASSUME ClientAssumption ==
  /\ Protocols \subseteq {"websocket", "quic", "tcp"} /\ Protocols # {}
  /\ None \notin Protocols
  /\ MaxAttempts = None \/ MaxAttempts \in Nat
  /\ ReconnectOnSend \in BOOLEAN /\ MaxDials \in Nat

VARIABLES net, winner, hooked, state, negotiated, requested, ended,
          held, prepared, attempts, stage, retrying, result, dials,
          lock

coreVars == <<state, negotiated, ended>>
fieldVars == <<held, prepared, attempts>>
operationVars == <<stage, retrying, result>>
clientVars == <<net, winner, hooked, coreVars, requested, fieldVars,
                operationVars, dials>>
linkVars == <<net, winner, hooked, dials>>

States == {"Disconnected", "Connecting", "Connected", "Disconnecting", "Failed"}

ClientInit ==
  /\ net = [p \in Protocols |-> "none"] /\ winner = None /\ hooked = {}
  /\ state = "Disconnected" /\ negotiated = FALSE
  /\ requested = FALSE /\ ended = FALSE
  /\ held = FALSE /\ prepared = FALSE /\ attempts = 0
  /\ stage = "idle" /\ retrying = FALSE /\ result = "none" /\ dials = 0
  /\ lock = None

(* QUIC counts as connected once CONNECT is sent, the others only with the *)
(* CONNECT_ACK.                                                            *)
IsConnected == state = "Connected" /\ held /\ (winner = "quic" \/ negotiated)

(* can_reconnect, and the limit of try_reconnect.  Without one nobody      *)
(* reads the count, and it stays 0 here.                                   *)
CanReconnect == MaxAttempts = None \/ MaxAttempts > 0
Attempts == IF MaxAttempts = None THEN {0} ELSE 0 .. MaxAttempts
Exhausted == MaxAttempts # None /\ attempts >= MaxAttempts
CountAttempt == attempts' = IF MaxAttempts = None THEN 0 ELSE attempts + 1

CanConnect == state \in {"Disconnected", "Failed"}

(* should_reconnect_before_send.                                           *)
ShouldReconnect ==
  ~IsConnected /\ ReconnectOnSend /\ ~requested /\ ~ended /\ CanReconnect

Free == lock = None

-----------------------------------------------------------------------------
(* What handle_connection_event does to the core.                          *)

ConnectedEvent ==
  /\ state' = "Connected"
  /\ IF state = "Connected"
       THEN UNCHANGED <<negotiated, ended>>
       ELSE negotiated' = FALSE /\ ended' = FALSE

DisconnectedEvent ==
  state' = "Disconnected" /\ negotiated' = FALSE /\ UNCHANGED ended

-----------------------------------------------------------------------------
(* connect: refused unless the state allows it, else internal_connect.     *)
StartConnect ==
  IF CanConnect
    THEN /\ stage' = "dial" /\ retrying' = FALSE /\ result' = "none"
         /\ state' = "Connecting"
         /\ UNCHANGED <<negotiated, ended>>
    ELSE /\ stage' = "idle" /\ retrying' = FALSE /\ result' = "err"
         /\ UNCHANGED coreVars

(* try_reconnect, entered by a failed connect or by a send.                *)
StartReconnect ==
  IF Exhausted
    THEN /\ state' = "Failed" /\ stage' = "idle" /\ retrying' = FALSE
         /\ result' = "err"
         /\ UNCHANGED <<negotiated, ended, attempts>>
    ELSE /\ state' = "Connecting" /\ CountAttempt
         /\ stage' = "pause" /\ retrying' = TRUE /\ result' = "none"
         /\ UNCHANGED <<negotiated, ended>>

(* An attempt failed: connect goes on with try_reconnect, once.            *)
AttemptFails ==
  IF ~retrying /\ CanReconnect
    THEN StartReconnect
    ELSE /\ state' = "Failed" /\ stage' = "idle" /\ result' = "err"
         /\ retrying' = FALSE
         /\ UNCHANGED <<negotiated, ended, attempts>>

(* The pause is over: the old connection is closed, and the close is heard *)
(* through its observer.                                                   *)
PauseEnds ==
  /\ stage = "pause"
  /\ stage' = "dial" /\ prepared' = FALSE /\ held' = FALSE
  /\ IF held /\ net[winner] = "open"
       THEN /\ net' = [net EXCEPT ![winner] = "closed"]
            /\ IF winner \in hooked THEN DisconnectedEvent ELSE UNCHANGED coreVars
       ELSE UNCHANGED <<net, coreVars>>
  /\ UNCHANGED <<winner, hooked, requested, attempts, retrying, result, dials>>

(* internal_connect takes the connection the race prepared, or dials, and  *)
(* attaches the observer, which reports Connected.  QUIC and TCP take the  *)
(* old one out of the field first and put the new one in once CONNECT is   *)
(* sent; WebSocket keeps the field filled all the time.                    *)
Dial ==
  /\ stage = "dial"
  /\ IF prepared
       THEN UNCHANGED <<net, dials>>
       ELSE /\ dials < MaxDials /\ dials' = dials + 1
            /\ net' = [net EXCEPT ![winner] = "open"]
  /\ prepared' = FALSE /\ stage' = "send"
  /\ held' = (winner = "websocket")
  /\ hooked' = hooked \cup {winner}
  /\ ConnectedEvent
  /\ UNCHANGED <<winner, requested, attempts, retrying, result>>

DialFails ==
  /\ stage = "dial" /\ ~prepared
  /\ held' = (held /\ winner = "websocket")
  /\ AttemptFails
  /\ UNCHANGED <<net, winner, hooked, requested, prepared, dials>>

(* CONNECT is sent: the client keeps the connection and reports Connected  *)
(* once more.                                                              *)
SendConnect ==
  /\ stage = "send" /\ net[winner] = "open"
  /\ stage' = "idle" /\ retrying' = FALSE /\ result' = "ok"
  /\ held' = TRUE /\ attempts' = 0
  /\ ConnectedEvent
  /\ UNCHANGED <<net, winner, hooked, requested, prepared, dials>>

SendConnectFails ==
  /\ stage = "send"
  /\ AttemptFails
  /\ UNCHANGED <<net, winner, hooked, requested, held, prepared, dials>>

(* disconnect_internal, with its caller the only user of the client: a     *)
(* connection the client holds is closed, one that only stands in          *)
(* client_connection is dropped with it.                                   *)
Disconnect ==
  /\ prepared' = FALSE /\ held' = FALSE
  /\ requested' = TRUE
  /\ net' = [net EXCEPT ![winner] = "closed"]
  /\ hooked' = hooked \ {winner}
  /\ DisconnectedEvent
  /\ UNCHANGED <<winner, attempts, operationVars, dials>>

OperationStep == PauseEnds \/ Dial \/ DialFails \/ SendConnect \/ SendConnectFails

-----------------------------------------------------------------------------
(* What the network and the server do to the connection in use.            *)

Ack ==
  /\ state = "Connected" /\ winner \in hooked /\ net[winner] = "open"
  /\ stage # "send" /\ ~negotiated
  /\ negotiated' = TRUE
  /\ UNCHANGED <<net, winner, hooked, state, requested, ended,
                 fieldVars, operationVars, dials>>

Ends(why) ==
  /\ winner \in hooked /\ net[winner] = "open"
  /\ net' = [net EXCEPT ![winner] = "closed"]
  /\ state' = IF why = "error" THEN "Failed" ELSE "Disconnected"
  /\ negotiated' = FALSE
  /\ ended' = (ended \/ why = "kick")
  /\ UNCHANGED <<winner, hooked, requested, fieldVars, operationVars, dials>>

-----------------------------------------------------------------------------
ClientTypeOK ==
  /\ net \in [Protocols -> {"none", "open", "closed"}]
  /\ winner \in Protocols \cup {None} /\ hooked \subseteq Protocols
  /\ state \in States
  /\ negotiated \in BOOLEAN /\ requested \in BOOLEAN /\ ended \in BOOLEAN
  /\ held \in BOOLEAN /\ prepared \in BOOLEAN
  /\ attempts \in Attempts
  /\ stage \in {"idle", "pause", "dial", "send"}
  /\ retrying \in BOOLEAN /\ result \in {"none", "ok", "err"}
  /\ dials \in 0 .. MaxDials
=============================================================================
