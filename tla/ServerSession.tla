--------------------------- MODULE ServerSession ---------------------------
(***************************************************************************)
(* The life of a connection on the server, from setup_new_connection       *)
(* through the CONNECT handler and the device conflict handling to the     *)
(* disconnect callback: server_core.rs, device_handler.rs, observer.rs and *)
(* event_wrapper.rs, composed with the registry of DeviceManager and with  *)
(* the connection table seen at the grain ConnectionManager is proved to   *)
(* provide (BoundedRegistry: enter, leave, look up, each in one step).     *)
(*                                                                         *)
(* Every connection has three tasks that run beside those of the others:   *)
(* the consumer of its inbound queue, which runs the CONNECT handler (pc), *)
(* the task spawned by its terminal transport event (disc), and the pushes *)
(* of the application (push).  Every await of the code is a step boundary. *)
(* A connection id is never reused, so a connection that left the table    *)
(* does not come back.                                                     *)
(*   table          the connection manager's table                         *)
(*   transport      the transport under the connection; "broken" when      *)
(*                  writes fail and the reader has not reported it yet     *)
(*   observed       the connections whose observer is attached             *)
(*   login          owner and platform the CONNECT handler works for       *)
(*   authenticated, profiled, completed                                    *)
(*                  ConnectionInfo: the flag authenticated, negotiated     *)
(*                  format stored, the flag negotiation_completed          *)
(*   victims        conflict_connections not yet dealt with                *)
(*   victim, kick   the one in work and the encoding of its KICKED frame   *)
(*   push           encoding of a frame serialized and not yet written,    *)
(*                  "failed" once its writer failed and has to evict       *)
(*   wire           the frames written to the transport, in order          *)
(*   app            the application's callbacks, in order                  *)
(***************************************************************************)
EXTENDS DeviceManager, FiniteSets

CONSTANTS AuthEnabled,  \* auth_enabled()
          MaxPushes     \* bound: frames the application sends

ASSUME SessionAssumption == AuthEnabled \in BOOLEAN /\ MaxPushes \in Nat

VARIABLES table, transport, observed, pc, disc, login, authenticated,
          profiled, completed, victims, victim, kick, push, wire, app

setupVars == <<transport, observed>>
infoVars == <<authenticated, profiled, completed>>
kickVars == <<victims, victim, kick>>
outVars == <<push, wire>>
vars == <<deviceVars, table, transport, observed, pc, disc, login, infoVars,
          kickVars, outVars, app>>

Steps == {"none", "setup", "attach", "idle", "auth", "reject", "update", "mark",
          "device", "kick", "kick_send", "kick_forget", "kick_remove", "ack",
          "finalize", "complete", "on_connect", "late_reject", "remove", "done"}

(* The steps that follow add_device.                                       *)
Registered == {"kick", "kick_send", "kick_forget", "kick_remove", "ack",
               "finalize", "complete", "on_connect", "late_reject", "remove", "done"}

Encodings == {"pre", "negotiated"}
Frames == {"rejection", "ack", "kicked", "refused", "push"}

ASSUME NothingAssumption == None \notin Conns \cup Encodings

Init ==
  /\ InitDevices
  /\ table = {}
  /\ transport = [c \in Conns |-> "none"]
  /\ observed = {}
  /\ pc = [c \in Conns |-> "none"]
  /\ disc = [c \in Conns |-> "none"]
  /\ login = [c \in Conns |-> [owner |-> None, platform |-> None]]
  /\ authenticated = {}
  /\ profiled = {}
  /\ completed = {}
  /\ victims = [c \in Conns |-> {}]
  /\ victim = [c \in Conns |-> None]
  /\ kick = [c \in Conns |-> None]
  /\ push = [c \in Conns |-> None]
  /\ wire = [c \in Conns |-> <<>>]
  /\ app = [c \in Conns |-> <<>>]

Goto(c, step) == pc' = [pc EXCEPT ![c] = step]

(* A write to the transport of c: a frame if it is open, an error if not.  *)
Written(c, what, enc) ==
  IF transport[c] = "open"
  THEN [wire EXCEPT ![c] = Append(@, [what |-> what, enc |-> enc])]
  ELSE wire

-----------------------------------------------------------------------------
(* setup_new_connection: into the table, then the observer.                *)

AddConnection(c) ==
  /\ pc[c] = "none"
  /\ table' = table \cup {c}
  /\ transport' = [transport EXCEPT ![c] = "open"]
  /\ authenticated' = IF AuthEnabled THEN authenticated ELSE authenticated \cup {c}
  /\ Goto(c, "setup")
  /\ UNCHANGED <<deviceVars, observed, disc, login, profiled, completed,
                 kickVars, outVars, app>>

SetupLookup(c) ==
  /\ pc[c] = "setup"
  /\ Goto(c, IF c \in table THEN "attach" ELSE "done")
  /\ UNCHANGED <<deviceVars, table, setupVars, disc, login, infoVars, kickVars,
                 outVars, app>>

(* add_observer: on a transport that closed meanwhile the observer gets    *)
(* its Disconnected right here.                                            *)
AttachObserver(c) ==
  /\ pc[c] = "attach"
  /\ observed' = observed \cup {c}
  /\ disc' = [disc EXCEPT ![c] = IF transport[c] = "closed" THEN "spawned" ELSE @]
  /\ Goto(c, "idle")
  /\ UNCHANGED <<deviceVars, table, transport, login, infoVars, kickVars,
                 outVars, app>>

-----------------------------------------------------------------------------
(* The CONNECT handler.                                                    *)

(* The consumer task takes the CONNECT frame off the inbound queue; it may *)
(* do so after the connection is gone, and then does nothing.              *)
Connect(c) ==
  /\ pc[c] = "idle"
  /\ Goto(c, IF c \in table THEN "auth" ELSE "done")
  /\ UNCHANGED <<deviceVars, table, setupVars, disc, login, infoVars, kickVars,
                 outVars, app>>

(* parse_connect_message fails: an error without a rejection frame.        *)
ConnectMalformed(c) ==
  /\ pc[c] = "auth"
  /\ Goto(c, "remove")
  /\ UNCHANGED <<deviceVars, table, setupVars, disc, login, infoVars, kickVars,
                 outVars, app>>

(* authenticate_connection: the identity is the authenticator's, with a    *)
(* user; without authentication it is the declared one and may have none.  *)
(* The platform is missing when the client declares no device.             *)
Authenticate(c, o, p) ==
  /\ pc[c] = "auth"
  /\ AuthEnabled => o # None
  /\ login' = [login EXCEPT ![c] = [owner |-> o, platform |-> p]]
  /\ Goto(c, "update")
  /\ UNCHANGED <<deviceVars, table, setupVars, disc, infoVars, kickVars,
                 outVars, app>>

AuthenticationFails(c) ==
  /\ pc[c] = "auth"
  /\ AuthEnabled
  /\ Goto(c, "reject")
  /\ UNCHANGED <<deviceVars, table, setupVars, disc, login, infoVars, kickVars,
                 outVars, app>>

(* send_connect_rejection: past the lock, bounded by a timeout.            *)
SendConnectRejection(c) ==
  /\ pc[c] = "reject"
  /\ wire' \in {Written(c, "rejection", "pre"), wire}
  /\ Goto(c, "remove")
  /\ UNCHANGED <<deviceVars, table, setupVars, disc, login, infoVars, kickVars,
                 push, app>>

(* update_connection_info: a connection that is gone is logged, no more.   *)
UpdateConnectionInfo(c) ==
  /\ pc[c] = "update"
  /\ profiled' = IF c \in table THEN profiled \cup {c} ELSE profiled
  /\ Goto(c, "mark")
  /\ UNCHANGED <<deviceVars, table, setupVars, disc, login, authenticated,
                 completed, kickVars, outVars, app>>

MarkConnectionAuthenticated(c) ==
  /\ pc[c] = "mark"
  /\ authenticated' = IF c \in table THEN authenticated \cup {c} ELSE authenticated
  /\ Goto(c, "device")
  /\ UNCHANGED <<deviceVars, table, setupVars, disc, login, profiled, completed,
                 kickVars, outVars, app>>

(* After the 50 ms pause: add_device and the list of connections to kick;  *)
(* nothing to do without a user or without a device.                       *)
RegisterDevice(c) ==
  /\ pc[c] = "device"
  /\ LET o == login[c].owner
         p == login[c].platform
     IN  IF o # None /\ p # None
         THEN /\ AddDevice(o, c, p)
              /\ victims' = [victims EXCEPT ![c] = Conflicts(o, c, p)]
         ELSE UNCHANGED <<deviceVars, victims>>
  /\ Goto(c, "kick")
  /\ UNCHANGED <<table, setupVars, disc, login, infoVars, victim, kick, outVars,
                 app>>

(* The next conflicting connection, in the order of a HashMap; its KICKED  *)
(* frame is encoded with the format stored in its ConnectionInfo.          *)
KickLookup(c, v) ==
  /\ pc[c] = "kick"
  /\ v \in victims[c]
  /\ victim' = [victim EXCEPT ![c] = v]
  /\ IF v \in table
     THEN /\ kick' = [kick EXCEPT ![c] = IF v \in profiled THEN "negotiated" ELSE "pre"]
          /\ Goto(c, "kick_send")
     ELSE /\ Goto(c, "kick_remove")
          /\ UNCHANGED kick
  /\ UNCHANGED <<deviceVars, table, setupVars, disc, login, infoVars, victims,
                 outVars, app>>

(* A kick that takes the connection out of the table before it writes the  *)
(* KICKED frame.                                                           *)
KickSend_RemovesFirst(c) ==
  /\ pc[c] = "kick_send"
  /\ table' = table \ {victim[c]}
  /\ Goto(c, "kick_forget")
  /\ UNCHANGED <<deviceVars, setupVars, disc, login, infoVars, kickVars, push,
                 wire, app>>

(* The KICKED frame goes straight to the transport, past the write queue.  *)
KickSend(c) ==
  /\ pc[c] = "kick_send"
  /\ wire' = Written(victim[c], "kicked", kick[c])
  /\ Goto(c, "kick_forget")
  /\ UNCHANGED <<deviceVars, table, setupVars, disc, login, infoVars, kickVars,
                 push, app>>

(* The KICKED frame cannot be serialized (a compressor of the application  *)
(* may fail): the kick goes on without it.                                 *)
KickUnserialized(c) ==
  /\ pc[c] = "kick_send"
  /\ kick' = [kick EXCEPT ![c] = None]
  /\ Goto(c, "kick_forget")
  /\ UNCHANGED <<deviceVars, table, setupVars, disc, login, infoVars, victims,
                 victim, outVars, app>>

KickForgetDevice(c) ==
  /\ pc[c] = "kick_forget"
  /\ RemoveDevice(login[c].owner, victim[c])
  /\ Goto(c, "kick_remove")
  /\ UNCHANGED <<table, setupVars, disc, login, infoVars, kickVars, outVars, app>>

(* A kick that leaves the removal to the disconnect event of the client.   *)
KickRemove_Leaves(c) ==
  /\ pc[c] = "kick_remove"
  /\ victims' = [victims EXCEPT ![c] = @ \ {victim[c]}]
  /\ victim' = [victim EXCEPT ![c] = None]
  /\ kick' = [kick EXCEPT ![c] = None]
  /\ Goto(c, "kick")
  /\ UNCHANGED <<deviceVars, table, setupVars, disc, login, infoVars, outVars, app>>

KickRemove(c) ==
  /\ pc[c] = "kick_remove"
  /\ table' = table \ {victim[c]}
  /\ victims' = [victims EXCEPT ![c] = @ \ {victim[c]}]
  /\ victim' = [victim EXCEPT ![c] = None]
  /\ kick' = [kick EXCEPT ![c] = None]
  /\ Goto(c, "kick")
  /\ UNCHANGED <<deviceVars, setupVars, disc, login, infoVars, outVars, app>>

KickDone(c) ==
  /\ pc[c] = "kick"
  /\ victims[c] = {}
  /\ Goto(c, "ack")
  /\ UNCHANGED <<deviceVars, table, setupVars, disc, login, infoVars, kickVars,
                 outVars, app>>

(* The CONNECT_ACK, in the format used before negotiation; a failed write  *)
(* fails the CONNECT.                                                      *)
SendConnectAck(c) ==
  /\ pc[c] = "ack"
  /\ wire' = Written(c, "ack", "pre")
  /\ Goto(c, IF transport[c] = "open" THEN "finalize" ELSE "remove")
  /\ UNCHANGED <<deviceVars, table, setupVars, disc, login, infoVars, kickVars,
                 push, app>>

(* finalize_negotiation_after_ack, up to its await: a connection that is   *)
(* gone ends it without an error, and the handler goes on.                 *)
FinalizeLookup(c) ==
  /\ pc[c] = "finalize"
  /\ Goto(c, IF c \in table THEN "complete" ELSE "on_connect")
  /\ UNCHANGED <<deviceVars, table, setupVars, disc, login, infoVars, kickVars,
                 outVars, app>>

CompleteNegotiation(c) ==
  /\ pc[c] = "complete"
  /\ completed' = IF c \in table THEN completed \cup {c} ELSE completed
  /\ Goto(c, "on_connect")
  /\ UNCHANGED <<deviceVars, table, setupVars, disc, login, authenticated,
                 profiled, kickVars, outVars, app>>

(* The application's on_connect, which may refuse the session.             *)
OnConnect(c) ==
  /\ pc[c] = "on_connect"
  /\ app' = [app EXCEPT ![c] = Append(@, "connect")]
  /\ \E step \in {"done", "late_reject"} : Goto(c, step)
  /\ UNCHANGED <<deviceVars, table, setupVars, disc, login, infoVars, kickVars,
                 outVars>>

(* send_post_ack_rejection: bounded by a timeout.                          *)
SendPostAckRejection(c) ==
  /\ pc[c] = "late_reject"
  /\ wire' \in {Written(c, "refused", "negotiated"), wire}
  /\ Goto(c, "remove")
  /\ UNCHANGED <<deviceVars, table, setupVars, disc, login, infoVars, kickVars,
                 push, app>>

(* Any error of the handler: the observer removes the connection.          *)
RemoveFailed(c) ==
  /\ pc[c] = "remove"
  /\ table' = table \ {c}
  /\ Goto(c, "done")
  /\ UNCHANGED <<deviceVars, setupVars, disc, login, infoVars, kickVars, outVars,
                 app>>

-----------------------------------------------------------------------------
(* The end of a connection.                                                *)

(* disconnect() and the heartbeat cleanup.                                 *)
ServerDisconnect(c) ==
  /\ c \in table
  /\ table' = table \ {c}
  /\ UNCHANGED <<deviceVars, setupVars, pc, disc, login, infoVars, kickVars,
                 outVars, app>>

(* The peer is gone and nobody has noticed.                                *)
TransportBreaks(c) ==
  /\ transport[c] = "open"
  /\ transport' = [transport EXCEPT ![c] = "broken"]
  /\ UNCHANGED <<deviceVars, table, observed, pc, disc, login, infoVars, kickVars,
                 outVars, app>>

(* The transport ends: the peer closes it or it fails, at any time, or the *)
(* server's background close of a removed connection gets through.  The    *)
(* observers are taken off as they are told, so it happens once.           *)
TransportCloses(c) ==
  /\ transport[c] \in {"open", "broken"}
  /\ transport' = [transport EXCEPT ![c] = "closed"]
  /\ disc' = [disc EXCEPT ![c] = IF c \in observed THEN "spawned" ELSE @]
  /\ UNCHANGED <<deviceVars, table, observed, pc, login, infoVars, kickVars,
                 outVars, app>>

(* on_disconnect: the application first, then the table, then the device   *)
(* registry from a task of its own.                                        *)
OnDisconnect(c) ==
  /\ disc[c] = "spawned"
  /\ app' = [app EXCEPT ![c] = Append(@, "disconnect")]
  /\ disc' = [disc EXCEPT ![c] = "notified"]
  /\ UNCHANGED <<deviceVars, table, setupVars, pc, login, infoVars, kickVars,
                 outVars>>

(* An on_disconnect that only tells the application.                       *)
DisconnectRemove_Skipped(c) ==
  /\ disc[c] = "notified"
  /\ disc' = [disc EXCEPT ![c] = "removed"]
  /\ UNCHANGED <<deviceVars, table, setupVars, pc, login, infoVars, kickVars,
                 outVars, app>>

DisconnectRemove(c) ==
  /\ disc[c] = "notified"
  /\ table' = table \ {c}
  /\ disc' = [disc EXCEPT ![c] = "removed"]
  /\ UNCHANGED <<deviceVars, setupVars, pc, login, infoVars, kickVars, outVars,
                 app>>

DisconnectDevice(c) ==
  /\ disc[c] = "removed"
  /\ RemoveDeviceConnection(c)
  /\ disc' = [disc EXCEPT ![c] = "done"]
  /\ UNCHANGED <<table, setupVars, pc, login, infoVars, kickVars, outVars, app>>

-----------------------------------------------------------------------------
(* A frame of the application to c: send_to, send_to_user or a broadcast.  *)

Pushes ==
  Cardinality({c \in Conns : push[c] # None}) +
  Cardinality(UNION {{<<c, i>> : i \in {j \in DOMAIN wire[c] : wire[c][j].what = "push"}}
                     : c \in Conns})

(* A serialization that goes by the stored format alone.                   *)
PushSnapshot_Profiled(c) ==
  /\ c \in table
  /\ c \in authenticated
  /\ push[c] = None
  /\ Pushes < MaxPushes
  /\ push' = [push EXCEPT ![c] = IF c \in profiled THEN "negotiated" ELSE "pre"]
  /\ UNCHANGED <<deviceVars, table, setupVars, pc, disc, login, infoVars,
                 kickVars, wire, app>>

(* Snapshot and serialization: nothing but a few system frames goes to a   *)
(* connection that is not authenticated, and the negotiated format is used *)
(* once negotiation_completed says so.                                     *)
PushSnapshot(c) ==
  /\ c \in table
  /\ c \in authenticated
  /\ push[c] = None
  /\ Pushes < MaxPushes
  /\ push' = [push EXCEPT ![c] = IF c \in completed THEN "negotiated" ELSE "pre"]
  /\ UNCHANGED <<deviceVars, table, setupVars, pc, disc, login, infoVars,
                 kickVars, wire, app>>

(* The writer task gets to the frame.                                      *)
PushWrite(c) ==
  /\ push[c] \in Encodings
  /\ transport[c] = "open"
  /\ wire' = Written(c, "push", push[c])
  /\ push' = [push EXCEPT ![c] = None]
  /\ UNCHANGED <<deviceVars, table, setupVars, pc, disc, login, infoVars,
                 kickVars, app>>

(* The write fails or times out, perhaps after the frame went out ...      *)
PushFails(c) ==
  /\ push[c] \in Encodings
  /\ wire' \in {Written(c, "push", push[c]), wire}
  /\ push' = [push EXCEPT ![c] = "failed"]
  /\ UNCHANGED <<deviceVars, table, setupVars, pc, disc, login, infoVars,
                 kickVars, app>>

(* ... and the writer task takes the connection out of the table.          *)
PushEvicts(c) ==
  /\ push[c] = "failed"
  /\ table' = table \ {c}
  /\ push' = [push EXCEPT ![c] = None]
  /\ UNCHANGED <<deviceVars, setupVars, pc, disc, login, infoVars, kickVars, wire,
                 app>>

(* The queue of a removed connection is dropped with what is left in it.   *)
PushDrop(c) ==
  /\ push[c] \in Encodings
  /\ c \notin table
  /\ push' = [push EXCEPT ![c] = None]
  /\ UNCHANGED <<deviceVars, table, setupVars, pc, disc, login, infoVars,
                 kickVars, wire, app>>

-----------------------------------------------------------------------------

Setup(c) == SetupLookup(c) \/ AttachObserver(c)

Handler(c) ==
  \/ ConnectMalformed(c)
  \/ \E o \in DeviceOwners \cup {None}, p \in Platforms \cup {None} :
       Authenticate(c, o, p)
  \/ AuthenticationFails(c)
  \/ SendConnectRejection(c)
  \/ UpdateConnectionInfo(c)
  \/ MarkConnectionAuthenticated(c)
  \/ RegisterDevice(c)
  \/ \E v \in Conns : KickLookup(c, v)
  \/ KickSend(c)
  \/ KickUnserialized(c)
  \/ KickForgetDevice(c)
  \/ KickRemove(c)
  \/ KickDone(c)
  \/ SendConnectAck(c)
  \/ FinalizeLookup(c)
  \/ CompleteNegotiation(c)
  \/ OnConnect(c)
  \/ SendPostAckRejection(c)
  \/ RemoveFailed(c)

Disconnecting(c) == OnDisconnect(c) \/ DisconnectRemove(c) \/ DisconnectDevice(c)

Next ==
  \E c \in Conns :
    \/ AddConnection(c)
    \/ Setup(c)
    \/ Connect(c)
    \/ Handler(c)
    \/ ServerDisconnect(c)
    \/ TransportBreaks(c)
    \/ TransportCloses(c)
    \/ Disconnecting(c)
    \/ PushSnapshot(c)
    \/ PushWrite(c)
    \/ PushFails(c)
    \/ PushEvicts(c)
    \/ PushDrop(c)

Spec == Init /\ [][Next]_vars

(* CONNECT_ACK and KICKED are written with the connection's lock held and  *)
(* without a timeout: a handler that is there stays there for as long as   *)
(* the peer does not read.  On a transport that fails, the write ends.     *)
Hung(c) ==
  \/ pc[c] = "ack" /\ transport[c] = "open"
  \/ pc[c] = "kick_send" /\ transport[victim[c]] = "open"

-----------------------------------------------------------------------------

Called(c, callback) == \E i \in DOMAIN app[c] : app[c][i] = callback

(* Every variable has its type; no callback is made twice.                 *)
SessionTypeOK ==
  /\ DeviceTypeOK
  /\ table \subseteq Conns
  /\ transport \in [Conns -> {"none", "open", "broken", "closed"}]
  /\ observed \subseteq Conns
  /\ pc \in [Conns -> Steps]
  /\ disc \in [Conns -> {"none", "spawned", "notified", "removed", "done"}]
  /\ login \in [Conns -> [owner : DeviceOwners \cup {None},
                         platform : Platforms \cup {None}]]
  /\ authenticated \subseteq Conns
  /\ profiled \subseteq Conns
  /\ completed \subseteq Conns
  /\ victims \in [Conns -> SUBSET Conns]
  /\ victim \in [Conns -> Conns \cup {None}]
  /\ kick \in [Conns -> Encodings \cup {None}]
  /\ push \in [Conns -> Encodings \cup {"failed", None}]
  /\ wire \in [Conns -> Seq([what : Frames, enc : Encodings])]
  /\ app \in [Conns -> Seq({"connect", "disconnect"})]
  /\ \A c \in Conns : \A i, j \in DOMAIN app[c] : app[c][i] = app[c][j] => i = j

(* The conflict strategy reaches the connection table: of two connections  *)
(* of one owner in an exclusive class that both passed add_device, one is  *)
(* out of the table or still on the list of a CONNECT handler that will    *)
(* take it out.  Nothing else keeps an old login off the delivery routes   *)
(* (the loop over conflict_connections in device_handler.rs).              *)
ExclusiveOnline ==
  \A k \in ExclusiveClasses(strategy), c, d \in table :
    /\ c # d
    /\ pc[c] \in Registered /\ pc[d] \in Registered
    /\ login[c].owner = login[d].owner /\ login[c].owner # None
    /\ login[c].platform \in k /\ login[d].platform \in k
    => \E h \in Conns : victims[h] \cap {c, d} # {}

(* Logins that race never kick each other out: a connection with a device  *)
(* in the registry is on nobody's list, so the last to register stays (the *)
(* case the pause before handle_device_conflict is there to avoid).        *)
WinnerSpared ==
  \A c, h \in Conns : c \in victims[h] => owners[c] = None

(* Nothing but a KICKED frame is on the wire in the negotiated encoding    *)
(* before the CONNECT_ACK: until then the client cannot read it            *)
(* (serialize_frame_for_connection).                                       *)
ReadableBeforeAck ==
  \A c \in Conns : \A i \in DOMAIN wire[c] :
    wire[c][i].enc = "negotiated" /\ wire[c][i].what # "kicked" =>
      \E j \in 1..(i - 1) : wire[c][j].what = "ack"

(* A connection kicked off the table has been told: by then its KICKED     *)
(* frame is on the wire, unless its transport does not take frames any     *)
(* more or the frame could not be serialized.                              *)
KickedWasTold ==
  [][\A c \in Conns : \A v \in table \ table' :
       pc[c] \in {"kick_send", "kick_forget", "kick_remove"} /\ pc'[c] # pc[c]
         /\ v = victim[c] =>
         \/ transport[v] # "open" \/ kick[c] = None
         \/ \E i \in DOMAIN wire[v] : wire[v][i].what = "kicked"]_vars

(* Every end is reported: once the transport is closed the connection      *)
(* leaves the table and the application gets its on_disconnect, whoever    *)
(* ended it, in whatever order the removal, the observer's registration    *)
(* and the close came, and whatever its CONNECT handler is doing or        *)
(* waiting for.  Nothing is said of a removed connection whose peer does   *)
(* not read: its background close has no timeout, and until it ends the    *)
(* application is not told.                                                *)
EndReported ==
  \A c \in Conns :
    c \in observed /\ transport[c] = "closed"
      ~> c \notin table /\ Called(c, "disconnect")
=============================================================================
