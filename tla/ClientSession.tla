--------------------------- MODULE ClientSession ---------------------------
(***************************************************************************)
(* One client over its successive connections: ClientCore and its frame    *)
(* handlers, ClientMessageObserver, the TCP client that drives them and    *)
(* the transport under it.                                                 *)
(*                                                                         *)
(* The caller's operations exclude each other (they take &mut self), but   *)
(* everything else runs beside them: the read loop of each transport,      *)
(* which handles a close on the spot, one spawned task per frame read, the *)
(* close events put off until those tasks are done, the spawned cleanups   *)
(* of the pending map, and the heartbeat.  A step is a stretch of code     *)
(* without an await.  Connections are numbered in the order of dialling.   *)
(*   state, negotiated, failure, disconnect_requested, ended,              *)
(*   pending_kick, kick_reported, slot, heartbeat                          *)
(*                  ClientCore, shared by every connection: the connection *)
(*                  state, negotiation_completed and negotiation_failure,  *)
(*                  the requested disconnect, session_ended_by_server, the *)
(*                  kick not yet reported (as the connection it came on),  *)
(*                  whether it was, client_connection and the connection   *)
(*                  the heartbeat in heartbeat_manager beats on            *)
(*   connection, attempts, call                                            *)
(*                  the TCP client: connection, reconnect_attempts and the *)
(*                  call in progress                                       *)
(*   pending, request, answer                                              *)
(*                  pending_map, the latest request and whether its reply  *)
(*                  came through                                           *)
(*   dialled, open, attached                                               *)
(*                  the transports: dialled so far, not is_closed, with    *)
(*                  the client's observer                                  *)
(*   peer, asked, owed                                                     *)
(*                  the server's side of each connection, those it got a   *)
(*                  CONNECT on, and the requests it may still reply to     *)
(*   frames, deferred, clears                                              *)
(*                  the spawned tasks: frames in flight, closes put off,   *)
(*                  cleanups of the pending map                            *)
(*   told, kicks    what the observers heard of closes since the last new  *)
(*                  connection, and how often each connection's kick       *)
(*   late           since then, the client has gone on while frames it had *)
(*                  read before were still being handled, or an earlier    *)
(*                  connection was still being read                        *)
(***************************************************************************)
EXTENDS Naturals, Sequences

CONSTANTS MaxConnections,  \* bound: connections dialled
          MaxRequests,     \* bound: requests sent
          MaxAttempts,     \* max_reconnect_attempts
          PlainFormat,     \* the pre-negotiation parser reads the negotiated format
          ServerSends,     \* bound: the kinds of frames the server sends
          Endings          \* bound: how a read loop ends

Kinds == {"ack", "error", "close", "kick", "reply", "data"}

ASSUME ClientAssumption ==
  /\ MaxConnections \in Nat \ {0}
  /\ MaxRequests \in Nat
  /\ MaxAttempts \in Nat
  /\ PlainFormat \in BOOLEAN
  /\ ServerSends \subseteq Kinds
  /\ Endings \subseteq {"gone", "error"}

Connections == 1 .. MaxConnections
Requests == 1 .. MaxRequests

VARIABLES state, negotiated, failure, disconnect_requested, ended,
          pending_kick, kick_reported, slot, heartbeat,
          connection, attempts, call, pending, request, answer,
          dialled, open, attached, peer, asked, owed,
          frames, deferred, clears, told, kicks, late

kickVars == <<ended, pending_kick, kick_reported, told, kicks>>
negotiationVars == <<negotiated, failure>>
coreVars == <<state, negotiationVars, kickVars, heartbeat>>
clientVars == <<connection, attempts, call>>
pendingVars == <<pending, request, answer>>
netVars == <<dialled, open, attached>>
serverVars == <<peer, asked, owed>>
taskVars == <<frames, deferred, clears, late>>
vars == <<coreVars, disconnect_requested, slot, clientVars, pendingVars,
          netVars, serverVars, taskVars>>

States == {"Disconnected", "Connecting", "Connected", "Disconnecting", "Failed"}

(* A call: its step, what it is for, and the connection it works on.       *)
Calls == [step : {"idle", "stale", "dial", "attach", "send_connect", "finish",
                  "negotiate", "send_frame", "send", "await", "close", "end"},
          for : {"connect", "reconnect", "request", "disconnect", "none"},
          conn : Connections \cup {0}]

Idle == [step |-> "idle", for |-> "none", conn |-> 0]

(* The task of a frame: where it came from, the request a reply is for,    *)
(* negotiated_at_receipt, whether the pre-negotiation parser can read it,  *)
(* the step it is at, and the connection it took from the slot.            *)
FrameTasks == [conn : Connections, kind : Kinds, req : Requests \cup {0},
               negotiated : BOOLEAN, plain : BOOLEAN,
               step : {"queued", "ready", "closing", "report"},
               target : Connections \cup {0}, notify : BOOLEAN]

Init ==
  /\ state = "Disconnected" /\ negotiated = FALSE /\ failure = "none"
  /\ disconnect_requested = FALSE /\ ended = FALSE
  /\ pending_kick = 0 /\ kick_reported = FALSE /\ slot = 0 /\ heartbeat = 0
  /\ connection = 0 /\ attempts = 0 /\ call = Idle
  /\ pending = {} /\ request = 0 /\ answer = FALSE
  /\ dialled = 0 /\ open = {} /\ attached = {}
  /\ peer = [c \in Connections |-> "silent"] /\ asked = {} /\ owed = {}
  /\ frames = {} /\ deferred = {} /\ clears = 0
  /\ told = <<>> /\ kicks = [c \in Connections |-> 0] /\ late = FALSE

-----------------------------------------------------------------------------
(* handle_connection_event.                                                *)

(* Connected: only the first one of a connection resets what the last      *)
(* connection left; the one reported again after CONNECT does not.         *)
HandleConnected ==
  /\ state' = "Connected"
  /\ IF state = "Connected"
       THEN UNCHANGED <<negotiationVars, kickVars>>
       ELSE /\ negotiated' = FALSE /\ failure' = "none"
            /\ ended' = FALSE /\ pending_kick' = 0 /\ kick_reported' = FALSE
            /\ told' = <<>>
            /\ UNCHANGED kicks
  /\ UNCHANGED heartbeat

ClosedDuringNegotiation ==
  state = "Connected" /\ ~negotiated /\ ~disconnect_requested

(* Mutant: the reported kick stays pending.                                *)
ReportClose_KeepsKick ==
  /\ UNCHANGED <<pending_kick, ended>>
  /\ IF pending_kick # 0
       THEN /\ kick_reported' = TRUE
            /\ told' = Append(told, "kick")
            /\ kicks' = [kicks EXCEPT ![pending_kick] = @ + 1]
       ELSE /\ told' = IF kick_reported /\ ~disconnect_requested
                       THEN told ELSE Append(told, "closed")
            /\ UNCHANGED <<kick_reported, kicks>>

(* close_report: a kick not yet reported is reported instead of the close, *)
(* one already reported silences it.                                       *)
ReportClose ==
  /\ pending_kick' = 0
  /\ IF pending_kick # 0
       THEN /\ kick_reported' = TRUE
            /\ told' = Append(told, "kick")
            /\ kicks' = [kicks EXCEPT ![pending_kick] = @ + 1]
       ELSE /\ told' = IF kick_reported /\ ~disconnect_requested
                       THEN told ELSE Append(told, "closed")
            /\ UNCHANGED <<kick_reported, kicks>>
  /\ UNCHANGED ended

(* Mutant: the pending requests are left to their timeouts.                *)
HandleClose_LeavesWaiters(event) ==
  /\ ReportClose
  /\ state' = IF event = "error" THEN "Failed" ELSE "Disconnected"
  /\ negotiated' = FALSE
  /\ heartbeat' = 0
  /\ failure' = IF ClosedDuringNegotiation /\ failure = "none"
                THEN "closed" ELSE failure
  /\ UNCHANGED clears

(* Mutant: the close replaces a recorded rejection.                        *)
HandleClose_OverwritesReason(event) ==
  /\ ReportClose
  /\ state' = IF event = "error" THEN "Failed" ELSE "Disconnected"
  /\ negotiated' = FALSE
  /\ heartbeat' = 0
  /\ failure' = IF ClosedDuringNegotiation THEN "closed" ELSE failure
  /\ clears' = IF clears < MaxRequests THEN clears + 1 ELSE clears

(* Disconnected and Error: the same but for the state they leave.  A       *)
(* rejection recorded before stays the reason of the failed negotiation.   *)
(* The cleanup of the pending map is spawned (those beyond the number of   *)
(* requests could only find the map empty).                                *)
HandleClose(event) ==
  /\ ReportClose
  /\ state' = IF event = "error" THEN "Failed" ELSE "Disconnected"
  /\ negotiated' = FALSE
  /\ heartbeat' = 0
  /\ failure' = IF ClosedDuringNegotiation /\ failure = "none"
                THEN "closed" ELSE failure
  /\ clears' = IF clears < MaxRequests THEN clears + 1 ELSE clears

(* should_defer_close_until_inbound_drained *)
ShouldDefer ==
  state = "Connected" /\ negotiated /\ ~disconnect_requested /\ frames # {}

(* ClientMessageObserver::on_event for a close. *)
OnClose(c, event) ==
  IF ShouldDefer
  THEN /\ deferred' = deferred \cup {[conn |-> c, event |-> event]}
       /\ UNCHANGED <<coreVars, clears>>
  ELSE HandleClose(event) /\ UNCHANGED deferred

(* close_with_reason: the observers hear of it unless the transport had    *)
(* ended before, when nobody is left to hear.                              *)
CloseTransport(c) ==
  /\ open' = open \ {c}
  /\ attached' = attached \ {c}
  /\ UNCHANGED dialled
  /\ IF c \in attached THEN OnClose(c, "gone")
     ELSE UNCHANGED <<coreVars, deferred, clears>>

(* A transport nobody refers to any more ends without an event (Drop). *)
Drop(S) == open' = open \ S /\ attached' = attached \ S

-----------------------------------------------------------------------------
(* The read loop: the server's frames and the end of the connection.       *)

Reading(c) == c \in open \cap attached

(* What the server may send next.  KICKED and CLOSE may come at any time   *)
(* after CONNECT; after a rejection, a KICKED or a CLOSE nothing follows.  *)
MaySend(c, kind) ==
  /\ c \in asked
  /\ CASE kind \in {"ack", "error"} -> peer[c] = "silent"
       [] kind \in {"kick", "close"} -> peer[c] \in {"silent", "acked"}
       [] kind \in {"reply", "data"} -> peer[c] = "acked"

PeerAfter(c, kind) ==
  CASE kind = "ack" -> "acked"
    [] kind = "error" -> "rejected"
    [] kind \in {"kick", "close"} -> "closing"
    [] OTHER -> peer[c]

(* record_connect_rejection: the first reason stays. *)
RecordRejection == failure' = IF failure = "none" THEN "rejected" ELSE failure

(* Until it has acknowledged the CONNECT the server writes frames that the *)
(* pre-negotiation parser reads, but for KICKED (handle_device_conflict).  *)
Plain(c, kind) == PlainFormat \/ (peer[c] = "silent" /\ kind # "kick")

(* ClientMessageObserver::on_event for a message: the rejection is         *)
(* recorded on the spot, the rest is left to a task.                       *)
ReadFrame(c, kind, r) ==
  /\ Reading(c)
  /\ MaySend(c, kind)
  /\ IF kind = "reply" THEN <<c, r>> \in owed ELSE r = 0
  /\ \A t \in frames : t.conn = c => t.kind # kind
  /\ peer' = [peer EXCEPT ![c] = PeerAfter(c, kind)]
  /\ owed' = owed \ {<<c, r>>}
  /\ frames' = frames \cup
       {[conn |-> c, kind |-> kind, req |-> r, negotiated |-> negotiated,
         plain |-> Plain(c, kind), step |-> "queued", target |-> 0, notify |-> FALSE]}
  /\ IF ~negotiated /\ Plain(c, kind) /\ kind \in {"error", "close"}
     THEN RecordRejection ELSE UNCHANGED failure
  /\ UNCHANGED <<state, negotiated, kickVars, heartbeat, disconnect_requested,
                 slot, clientVars, pendingVars, netVars, asked, deferred,
                 clears, late>>

(* The peer closes, or reading fails. *)
ReadEnd(c, event) ==
  /\ Reading(c)
  /\ open' = open \ {c}
  /\ attached' = attached \ {c}
  /\ OnClose(c, event)
  /\ UNCHANGED <<disconnect_requested, slot, clientVars, pendingVars, dialled,
                 serverVars, frames, late>>

(* A close that was put off: all frames are done, or one second is over.   *)
DrainedClose(d) ==
  /\ frames = {}
  /\ deferred' = deferred \ {d}
  /\ HandleClose(d.event)
  /\ UNCHANGED <<disconnect_requested, slot, clientVars, pendingVars, netVars,
                 serverVars, frames, late>>

OverdueClose(d) ==
  /\ frames # {}
  /\ late' = TRUE
  /\ deferred' = deferred \ {d}
  /\ HandleClose(d.event)
  /\ UNCHANGED <<disconnect_requested, slot, clientVars, pendingVars, netVars,
                 serverVars, frames>>

ClearPending ==
  /\ clears > 0
  /\ clears' = clears - 1
  /\ pending' = {}
  /\ UNCHANGED <<coreVars, disconnect_requested, slot, clientVars, request,
                 answer, netVars, serverVars, frames, deferred, late>>

-----------------------------------------------------------------------------
(* The frame tasks: handle_received_message.                               *)

Done(t) == frames' = frames \ {t}
At(t, step) == frames' = (frames \ {t}) \cup {[t EXCEPT !.step = step]}

(* The parser: by the negotiation at receipt; a frame read too early for   *)
(* the pre-negotiation parser gets a second chance.                        *)
Parses(t) == t.negotiated \/ t.plain \/ negotiated

Unparsed(t) ==
  /\ t.step = "queued"
  /\ ~Parses(t)
  /\ Done(t)
  /\ UNCHANGED <<coreVars, disconnect_requested, slot, clientVars, pendingVars,
                 netVars, serverVars, deferred, clears, late>>

(* try_start_heartbeat, once negotiation is marked complete. *)
StartHeartbeat(done) ==
  heartbeat' = IF done /\ heartbeat = 0 THEN slot ELSE heartbeat

(* handle_connect_ack_command: update_parser, then NEGOTIATION_READY on    *)
(* the connection in the slot, and the heartbeat again.                    *)
HandleAck(t) ==
  /\ t.kind = "ack" /\ t.step = "queued" /\ Parses(t)
  /\ negotiated' = TRUE
  /\ StartHeartbeat(TRUE)
  /\ At(t, "ready")
  /\ UNCHANGED <<state, failure, kickVars, disconnect_requested, slot,
                 clientVars, pendingVars, netVars, serverVars, deferred,
                 clears, late>>

NegotiationReady(t) ==
  /\ t.kind = "ack" /\ t.step = "ready"
  /\ StartHeartbeat(negotiated)
  /\ Done(t)
  /\ UNCHANGED <<state, negotiationVars, kickVars, disconnect_requested, slot,
                 clientVars, pendingVars, netVars, serverVars, deferred,
                 clears, late>>

(* An ERROR or a CLOSE read before the negotiation: recorded once more.    *)
HandleRejection(t) ==
  /\ t.kind \in {"error", "close"} /\ t.step = "queued" /\ Parses(t)
  /\ ~t.negotiated
  /\ RecordRejection
  /\ Done(t)
  /\ UNCHANGED <<state, negotiated, kickVars, heartbeat, disconnect_requested,
                 slot, clientVars, pendingVars, netVars, serverVars, deferred,
                 clears, late>>

(* A business frame, or an ERROR after the negotiation: to the handlers.   *)
HandleData(t) ==
  /\ t.kind = "data" \/ (t.kind = "error" /\ t.negotiated)
  /\ t.step = "queued" /\ Parses(t)
  /\ Done(t)
  /\ UNCHANGED <<coreVars, disconnect_requested, slot, clientVars, pendingVars,
                 netVars, serverVars, deferred, clears, late>>

(* A reply goes to its waiter, if there is one still. *)
HandleReply(t) ==
  /\ t.kind = "reply" /\ t.step = "queued" /\ Parses(t)
  /\ pending' = pending \ {t.req}
  /\ answer' = (answer \/ (t.req \in pending /\ t.req = request))
  /\ Done(t)
  /\ UNCHANGED <<coreVars, disconnect_requested, slot, clientVars, request,
                 netVars, serverVars, deferred, clears, late>>

(* handle_close_command: takes the connection out of the slot, ... *)
HandleClosing(t) ==
  /\ t.kind = "close" /\ t.step = "queued" /\ Parses(t) /\ t.negotiated
  /\ IF slot = 0 THEN Done(t)
     ELSE frames' = (frames \ {t}) \cup
            {[t EXCEPT !.step = "closing", !.target = slot]}
  /\ slot' = 0
  /\ UNCHANGED <<coreVars, disconnect_requested, clientVars, pendingVars,
                 netVars, serverVars, deferred, clears, late>>

(* ... and closes it. *)
CloseTaken(t) ==
  /\ t.kind = "close" /\ t.step = "closing"
  /\ CloseTransport(t.target)
  /\ Done(t)
  /\ UNCHANGED <<disconnect_requested, slot, clientVars, pendingVars,
                 serverVars, late>>

(* handle_kicked_command: the kick is noted if it is to be reported, with  *)
(* a reason that may end the session, and the slot is emptied; ...         *)
HandleKicked(t, ends) ==
  /\ t.kind = "kick" /\ t.step = "queued" /\ Parses(t)
  /\ LET notify == t.negotiated /\ ~disconnect_requested IN
       /\ ended' = (ended \/ (notify /\ ends))
       /\ pending_kick' = IF notify THEN t.conn ELSE pending_kick
       /\ frames' = (frames \ {t}) \cup
            {[t EXCEPT !.step = "closing", !.target = slot, !.notify = notify]}
  /\ state' = "Disconnected"
  /\ slot' = 0
  /\ UNCHANGED <<negotiationVars, kick_reported, told, kicks, heartbeat,
                 disconnect_requested, clientVars, pendingVars, netVars,
                 serverVars, deferred, clears, late>>

(* ... disconnect_on_kicked closes what was in the slot; ... *)
DisconnectOnKicked(t) ==
  /\ t.kind = "kick" /\ t.step = "closing"
  /\ CloseTransport(t.target)
  /\ At(t, "report")
  /\ UNCHANGED <<disconnect_requested, slot, clientVars, pendingVars,
                 serverVars, late>>

(* ... every waiter is cancelled, and a kick no close has reported yet is  *)
(* reported here (take_unreported_kick).                                   *)
ReportKick(t) ==
  /\ t.kind = "kick" /\ t.step = "report"
  /\ pending' = {}
  /\ IF t.notify /\ pending_kick # 0
       THEN ReportClose
       ELSE UNCHANGED kickVars
  /\ Done(t)
  /\ UNCHANGED <<state, negotiationVars, heartbeat, disconnect_requested, slot,
                 clientVars, request, answer, netVars, serverVars, deferred,
                 clears, late>>

(* The heartbeat gives a connection up: no PONG, or the PING failed. *)
HeartbeatCloses ==
  /\ heartbeat \in open
  /\ CloseTransport(heartbeat)
  /\ UNCHANGED <<disconnect_requested, slot, clientVars, pendingVars,
                 serverVars, frames, late>>

-----------------------------------------------------------------------------
(* The caller: connect, disconnect, send_frame_and_wait and                *)
(* wait_for_negotiation.                                                   *)

Goto(step) == call' = [call EXCEPT !.step = step]

Connect ==
  /\ call = Idle
  /\ state \in {"Disconnected", "Failed"}
  /\ dialled < MaxConnections
  /\ state' = "Connecting"
  /\ call' = [step |-> "stale", for |-> "connect", conn |-> 0]
  /\ UNCHANGED <<negotiationVars, kickVars, heartbeat, disconnect_requested,
                 slot, connection, attempts, pendingVars, netVars,
                 serverVars, taskVars>>

(* The connection of before is closed first: by internal_connect, or by    *)
(* try_reconnect after its pause.                                          *)
CloseStale ==
  /\ call.step = "stale"
  /\ connection' = 0
  /\ CloseTransport(connection)
  /\ Goto("dial")
  /\ UNCHANGED <<disconnect_requested, slot, attempts, pendingVars,
                 serverVars, frames, late>>

Dial ==
  /\ call.step = "dial"
  /\ dialled < MaxConnections
  /\ dialled' = dialled + 1
  /\ open' = open \cup {dialled + 1}
  /\ call' = [call EXCEPT !.step = "attach", !.conn = dialled + 1]
  /\ UNCHANGED <<coreVars, disconnect_requested, slot, connection, attempts,
                 pendingVars, attached, serverVars, taskVars>>

(* try_reconnect up to its pause, for a call that goes on as what. *)
TryReconnect(what) ==
  IF attempts >= MaxAttempts
  THEN /\ state' = "Failed"
       /\ call' = Idle
       /\ UNCHANGED attempts
  ELSE /\ state' = "Connecting"
       /\ attempts' = attempts + 1
       /\ call' = [step |-> "stale", for |-> what, conn |-> 0]

(* internal_connect fails: connect tries once more, a reconnect gives up.  *)
ConnectFails ==
  IF call.for = "connect" /\ MaxAttempts > 0
  THEN TryReconnect("reconnect")
  ELSE state' = "Failed" /\ call' = Idle /\ UNCHANGED attempts

DialFails ==
  /\ call.step = "dial"
  /\ ConnectFails
  /\ UNCHANGED <<negotiationVars, kickVars, heartbeat, disconnect_requested,
                 slot, connection, pendingVars, netVars, serverVars,
                 taskVars>>

(* setup_connection_and_send_connect: the new connection into the slot     *)
(* (one still there is dropped, unless its heartbeat holds it), the        *)
(* observer, ...                                                           *)
Attach ==
  /\ call.step = "attach"
  /\ slot' = call.conn
  /\ open' = open \ ({slot} \ {heartbeat})
  /\ attached' = (attached \ ({slot} \ {heartbeat})) \cup {call.conn}
  /\ HandleConnected
  /\ late' = (frames # {} \/ deferred # {} \/ attached' # {call.conn})
  /\ Goto("send_connect")
  /\ UNCHANGED <<disconnect_requested, connection, attempts, pendingVars, dialled, serverVars, frames, deferred, clears>>

(* ... and CONNECT. *)
SendConnect ==
  /\ call.step = "send_connect"
  /\ call.conn \in open
  /\ asked' = asked \cup {call.conn}
  /\ connection' = call.conn
  /\ Goto("finish")
  /\ UNCHANGED <<coreVars, disconnect_requested, slot, attempts, pendingVars, netVars, peer, owed, taskVars>>

(* The transport is closed, or the write fails. *)
SendConnectFails ==
  /\ call.step = "send_connect"
  /\ ConnectFails
  /\ UNCHANGED <<negotiationVars, kickVars, heartbeat, disconnect_requested,
                 slot, connection, pendingVars, netVars, serverVars,
                 taskVars>>

(* internal_connect reports Connected once more. *)
ConnectFinishes ==
  /\ call.step = "finish"
  /\ HandleConnected
  /\ attempts' = 0
  /\ Goto(IF call.for = "request" THEN "send" ELSE "negotiate")
  /\ UNCHANGED <<disconnect_requested, slot, connection, pendingVars,
                 netVars, serverVars, taskVars>>

(* wait_for_negotiation *)
Negotiated ==
  /\ call.step = "negotiate"
  /\ negotiated \/ failure # "none"
  /\ call' = Idle
  /\ UNCHANGED <<coreVars, disconnect_requested, slot, connection, attempts,
                 pendingVars, netVars, serverVars, taskVars>>

NegotiationTimeout ==
  /\ call.step = "negotiate"
  /\ ~negotiated /\ failure = "none"
  /\ call' = Idle
  /\ UNCHANGED <<coreVars, disconnect_requested, slot, connection, attempts,
                 pendingVars, netVars, serverVars, taskVars>>

(* send_frame_and_wait registers the request, ... *)
Request ==
  /\ call = Idle
  /\ request < MaxRequests
  /\ request' = request + 1
  /\ pending' = pending \cup {request + 1}
  /\ answer' = FALSE
  /\ call' = [step |-> "send_frame", for |-> "request", conn |-> 0]
  /\ UNCHANGED <<coreVars, disconnect_requested, slot, connection, attempts,
                 netVars, serverVars, taskVars>>

IsConnected == state = "Connected" /\ connection # 0 /\ negotiated

(* ... connects first if the client may come back by itself, ... *)
ShouldReconnect == ~IsConnected /\ ~disconnect_requested /\ ~ended /\ MaxAttempts > 0

SendFrame ==
  /\ call.step = "send_frame"
  /\ IF ShouldReconnect THEN TryReconnect("request")
     ELSE Goto("send") /\ UNCHANGED <<state, attempts>>
  /\ UNCHANGED <<negotiationVars, kickVars, heartbeat, disconnect_requested,
                 slot, connection, pendingVars, netVars, serverVars,
                 taskVars>>

(* ... sends it and waits. *)
SendRequest ==
  /\ call.step = "send"
  /\ state = "Connected" /\ connection \in open
  /\ owed' = owed \cup {<<connection, request>>}
  /\ Goto("await")
  /\ UNCHANGED <<coreVars, disconnect_requested, slot, connection, attempts,
                 pendingVars, netVars, peer, asked, taskVars>>

SendFails ==
  /\ call.step = "send"
  /\ call' = Idle
  /\ UNCHANGED <<coreVars, disconnect_requested, slot, connection, attempts,
                 pendingVars, netVars, serverVars, taskVars>>

(* The reply, or the waiter was cancelled. *)
RequestEnds ==
  /\ call.step = "await"
  /\ answer \/ request \notin pending
  /\ call' = Idle
  /\ UNCHANGED <<coreVars, disconnect_requested, slot, connection, attempts,
                 pendingVars, netVars, serverVars, taskVars>>

RequestTimeout ==
  /\ call.step = "await"
  /\ pending' = pending \ {request}
  /\ call' = Idle
  /\ UNCHANGED <<coreVars, disconnect_requested, slot, connection, attempts,
                 request, answer, netVars, serverVars, taskVars>>

(* disconnect_internal: marked first, the slot emptied, ...  (A second     *)
(* disconnect of the same client is left out.)                             *)
Disconnect ==
  /\ call = Idle
  /\ ~disconnect_requested
  /\ state' = "Disconnecting"
  /\ disconnect_requested' = TRUE
  /\ heartbeat' = 0
  /\ slot' = 0
  /\ connection' = 0
  /\ call' = [step |-> "close", for |-> "disconnect", conn |-> connection]
  /\ Drop({slot} \ {connection})
  /\ UNCHANGED <<negotiationVars, kickVars, attempts, pendingVars,
                 dialled, serverVars, taskVars>>

(* ... the connection closed, ... *)
DisconnectCloses ==
  /\ call.step = "close"
  /\ CloseTransport(call.conn)
  /\ Goto("end")
  /\ UNCHANGED <<disconnect_requested, slot, connection, attempts, pendingVars, serverVars, frames, late>>

(* ... every waiter cancelled and the disconnect reported. *)
DisconnectEnds ==
  /\ call.step = "end"
  /\ pending' = {}
  /\ HandleClose("gone")
  /\ call' = Idle
  /\ UNCHANGED <<disconnect_requested, slot, connection, attempts, request, answer, netVars, serverVars, frames, deferred, late>>

-----------------------------------------------------------------------------
FrameStep(t) ==
  \/ Unparsed(t)
  \/ HandleAck(t)
  \/ NegotiationReady(t)
  \/ HandleRejection(t)
  \/ HandleData(t)
  \/ HandleReply(t)
  \/ HandleClosing(t)
  \/ CloseTaken(t)
  \/ \E ends \in BOOLEAN : HandleKicked(t, ends)
  \/ DisconnectOnKicked(t)
  \/ ReportKick(t)

Tasks ==
  \/ \E t \in frames : FrameStep(t)
  \/ \E d \in deferred : DrainedClose(d)
  \/ \E d \in deferred : OverdueClose(d)
  \/ ClearPending

(* The steps of a call that wait for nothing but the runtime. *)
CallStep ==
  \/ CloseStale
  \/ Dial
  \/ DialFails
  \/ Attach
  \/ SendConnect
  \/ SendConnectFails
  \/ ConnectFinishes
  \/ Negotiated
  \/ SendFrame
  \/ SendRequest
  \/ SendFails
  \/ RequestEnds
  \/ DisconnectCloses
  \/ DisconnectEnds

Environment ==
  \/ \E c \in Connections, kind \in ServerSends, r \in Requests \cup {0} :
       ReadFrame(c, kind, r)
  \/ \E c \in Connections, event \in Endings : ReadEnd(c, event)
  \/ HeartbeatCloses
  \/ Connect
  \/ Request
  \/ Disconnect
  \/ NegotiationTimeout
  \/ RequestTimeout

Next == Tasks \/ CallStep \/ Environment

Spec == Init /\ [][Next]_vars

(* Tasks and calls make progress: tokio runs what is ready, and the wait   *)
(* for the frames in flight is bounded by a timer.  Nothing is assumed of  *)
(* the server, of the network, of the handlers of business frames, or of   *)
(* the timers that bound a request and a negotiation.                      *)
Fairness ==
  /\ WF_vars(\E t \in frames : t.kind # "data" /\ FrameStep(t))
  /\ WF_vars(\E d \in deferred : DrainedClose(d) \/ OverdueClose(d))
  /\ WF_vars(ClearPending)
  /\ WF_vars(CallStep)

FairSpec == Spec /\ Fairness

-----------------------------------------------------------------------------
(* Type correctness, with one relation: the slot, the client and the       *)
(* heartbeat only ever hold connections that were dialled.                 *)
ClientTypeOK ==
  /\ state \in States
  /\ negotiated \in BOOLEAN
  /\ failure \in {"none", "rejected", "closed"}
  /\ disconnect_requested \in BOOLEAN /\ ended \in BOOLEAN
  /\ kick_reported \in BOOLEAN /\ late \in BOOLEAN
  /\ dialled \in 0 .. MaxConnections
  /\ {pending_kick, slot, heartbeat, connection} \subseteq 0 .. dialled
  /\ attempts \in 0 .. MaxAttempts
  /\ call \in Calls
  /\ pending \subseteq Requests /\ request \in Requests \cup {0}
  /\ answer \in BOOLEAN
  /\ open \subseteq 1 .. dialled /\ attached \subseteq open
  /\ peer \in [Connections -> {"silent", "acked", "rejected", "closing"}]
  /\ asked \subseteq 1 .. dialled
  /\ owed \subseteq Connections \X Requests
  /\ frames \subseteq FrameTasks
  /\ deferred \subseteq [conn : Connections, event : {"gone", "error"}]
  /\ clears \in 0 .. MaxRequests
  /\ told \in Seq({"kick", "closed"})
  /\ kicks \in [Connections -> Nat]

(* The observers hear of one kick once, although the close it causes, the  *)
(* peer's close and the kick's own handler may each come to report it, on  *)
(* different threads.                                                      *)
KickToldOnce == \A c \in Connections : kicks[c] <= 1

(* After the kick the observers hear nothing more of the connection until  *)
(* there is a new one, unless the application itself disconnects.          *)
KickIsLast ==
  ~disconnect_requested =>
    \A i, j \in DOMAIN told : (i < j /\ told[i] = "kick") => told[j] # "closed"

(* When the peer closes right behind its KICKED, the kick is what the      *)
(* observers hear first, unless its handling took longer than the bound on *)
(* the wait, something of an earlier connection was left over (late), or a *)
(* request found the connection still negotiating and closed it to         *)
(* reconnect.                                                              *)
KickFirst ==
  (~late /\ request = 0) =>
    \A i, j \in DOMAIN told : (i < j /\ told[i] = "closed") => told[j] # "kick"

(* What the observers hear of a kick: once, last, and first.               *)
KickOrder == KickToldOnce /\ KickIsLast /\ KickFirst

(* The connection had ended before its CONNECT was reported sent: the      *)
(* second Connected then counts as the first of a new connection, and      *)
(* resets the reason with everything else (client_core.rs:1147-1148),      *)
(* against the comment above it and what the client's tests expect.        *)
Forgotten == state = "Connected" /\ connection \notin attached

(* A server that says why it refuses the CONNECT and closes at once: the   *)
(* caller waiting for the negotiation is told that it was rejected, with   *)
(* the reason, and not that the connection closed.  The one exception is   *)
(* the reason Forgotten: then it has no answer but its timeout.            *)
TypedRejection ==
  (~late /\ call.step = "negotiate" /\ peer[connection] = "rejected")
    => failure = "rejected" \/ (failure = "none" /\ Forgotten)

(* A caller waiting for a reply on a connection that has ended is released *)
(* by the cleanup, without its own timeout.                                *)
WaiterReleased ==
  (call.step = "await" /\ connection \notin open) ~> (call.step # "await")
=============================================================================
