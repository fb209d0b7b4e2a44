------------------------ MODULE ClientSessionProofs ------------------------
(***************************************************************************)
(* Proofs about ClientSession, for any number of connections, requests and *)
(* reconnect attempts, whatever the server sends and however it ends a     *)
(* connection.                                                             *)
(*                                                                         *)
(* The three parts of KickOrder and TypedRejection are about the order in  *)
(* which the read loop, the frame tasks and the call leave their marks on  *)
(* the one core.  The invariant says, for each, who can still add one:     *)
(*                                                                         *)
(*   KickOnce      a kick is queued, pending or reported, in this order,   *)
(*                 and the server has sent nothing behind it               *)
(*   CallShape     what the step of the call says about the connection it  *)
(*                 works on and about the state                            *)
(*   Unused        the connection just dialled is known to the call alone  *)
(*   Current       unless the client went on with work left over, what is  *)
(*                 read, being handled or put off is of one connection     *)
(*   Spent         once a kick was taken, or the state fell back without a *)
(*                 report, no other kick can come on it                    *)
(*   Heard         after a close was reported no kick can be noted         *)
(*   Rejected      a rejection that was read is the reason that stands, or *)
(*                 was reset with its connection, which has ended before   *)
(*                                                                         *)
(* The proofs about ClientHeartbeat are below.                             *)
(***************************************************************************)
EXTENDS ClientSession, ClientHeartbeat, FiniteSetTheorems, WellFoundedInduction, TLAPS

\* A KICKED not handled yet, and one that will be reported when it is.
Waiting(t) == t.kind = "kick" /\ t.step = "queued"
Notable(t) == Waiting(t) /\ t.negotiated

Told(what) == \E i \in DOMAIN told : told[i] = what

KickOnce ==
  /\ \A t \in frames :
       /\ t.conn \in asked
       /\ t.kind = "kick" => peer[t.conn] = "closing"
       /\ t.kind = "ack" => peer[t.conn] \in {"acked", "closing"}
       /\ Waiting(t) => kicks[t.conn] = 0 /\ pending_kick # t.conn
  /\ \A t, u \in frames : t.kind = "kick" /\ u.kind = "kick" /\ t.conn = u.conn => t = u
  /\ pending_kick # 0 => peer[pending_kick] = "closing" /\ kicks[pending_kick] = 0
  /\ \A c \in Connections : /\ kicks[c] > 0 => peer[c] = "closing"
                            /\ c \notin asked => peer[c] = "silent"

CallShape ==
  /\ call.step \in {"stale", "dial", "attach"} => state # "Connected"
  /\ call.step \in {"close", "end"} => disconnect_requested
  /\ call.step \in {"attach", "send_connect"} => call.conn \in 1 .. dialled /\ call.conn \notin asked
  /\ call.step \in {"finish", "negotiate"} => connection = call.conn /\ call.conn \in 1 .. dialled
  /\ call.step \in {"send_frame", "send", "await"} => call.for = "request"
  /\ call.for = "request" => request # 0

\* The connection just dialled is known to the call alone.
Unused ==
  /\ \A t \in frames : t.target \in 0 .. dialled
  /\ call.step = "attach" =>
       /\ call.conn = dialled /\ dialled \in open
       /\ dialled \notin {slot, heartbeat, connection} \cup attached
       /\ \A t \in frames : t.target # dialled

Current ==
  ~late =>
    /\ \A a, b \in attached : a = b
    /\ \A t \in frames : \A a \in attached : t.conn = a
    /\ \A t, u \in frames : t.conn = u.conn
    /\ deferred # {} => attached = {}
    /\ negotiated => \A a \in attached : peer[a] \in {"acked", "closing"}
    /\ \A d \in deferred : peer[d.conn] \in {"acked", "closing"}
    /\ call.step = "send_connect" =>
         /\ frames = {} /\ deferred = {} /\ attached \subseteq {call.conn}
         /\ pending_kick = 0 /\ ~kick_reported
         /\ state = "Connected" \/ (told # <<>> /\ attached = {})
    /\ call.step \in {"finish", "negotiate"} =>
         /\ attached \subseteq {call.conn}
         /\ \A t \in frames : t.conn = call.conn
         /\ \A d \in deferred : d.conn = call.conn

\* No KICKED waits, and none can be read on the connection.
NoKickLeft ==
  /\ \A t \in frames : ~Waiting(t)
  /\ \A a \in attached : a \notin asked \/ peer[a] = "closing"

Spent ==
  /\ ~late /\ (kick_reported \/ pending_kick # 0) => NoKickLeft
  /\ ~late /\ request = 0 /\ ~disconnect_requested /\ told = <<>> =>
       /\ state # "Connected" => NoKickLeft
       /\ \A t \in frames : Notable(t) => negotiated

Heard ==
  ~late /\ request = 0 /\ Told("closed") =>
    /\ pending_kick = 0
    /\ \/ disconnect_requested
       \/ attached = {} /\ \A t \in frames : ~Notable(t)

Rejected ==
  ~late =>
    /\ attached # {} => failure # "closed"
    /\ call.step = "finish" /\ state # "Connected" => attached = {} \/ peer[call.conn] = "closing"
    /\ call.step \in {"finish", "negotiate"} /\ peer[call.conn] = "rejected" =>
         \/ failure = "rejected"
         \/ /\ failure = "none" /\ attached = {}
            /\ call.step = "negotiate" /\ state = "Connected"

ToldInOrder ==
  /\ Told("kick") => kick_reported
  /\ KickIsLast /\ KickFirst

Ordered == Current /\ Spent /\ Heard /\ Rejected /\ ToldInOrder

CoreInv ==
  ClientTypeOK /\ Unused /\ KickOnce /\ KickToldOnce /\ CallShape /\ Ordered

-----------------------------------------------------------------------------
(* Types.                                                                  *)

\* A close that is reported leaves the core well typed.
LEMMA ReportTypes ==
  ASSUME ClientTypeOK, ReportClose
  PROVE  /\ pending_kick' = 0 /\ kick_reported' \in BOOLEAN /\ ended' \in BOOLEAN
         /\ told' \in Seq({"kick", "closed"}) /\ kicks' \in [Connections -> Nat]
<1>1. /\ pending_kick \in 0 .. dialled /\ dialled \in 0 .. MaxConnections
      /\ told \in Seq({"kick", "closed"}) /\ kicks \in [Connections -> Nat]
      /\ kick_reported \in BOOLEAN /\ ended \in BOOLEAN
  BY DEF ClientTypeOK
<1>2. pending_kick' = 0 /\ kick_reported' \in BOOLEAN /\ ended' \in BOOLEAN
  BY <1>1 DEF ReportClose
<1>3. told' \in Seq({"kick", "closed"})
  BY <1>1 DEF ReportClose
<1>4. CASE pending_kick = 0
  BY <1>1, <1>2, <1>3, <1>4 DEF ReportClose
<1>5. CASE pending_kick # 0
  <2>1. pending_kick \in Connections
    BY <1>1, <1>5, ClientAssumption DEF Connections
  <2>2. kicks' = [kicks EXCEPT ![pending_kick] = @ + 1]
    BY <1>5 DEF ReportClose
  <2> QED
    BY <1>1, <1>2, <1>3, <2>1, <2>2
<1> QED
  BY <1>4, <1>5

\* handle_connection_event of a close keeps its variables in range.
LEMMA CloseTypes ==
  ASSUME ClientTypeOK, NEW event, HandleClose(event)
  PROVE  /\ pending_kick' = 0 /\ kick_reported' \in BOOLEAN /\ ended' \in BOOLEAN
         /\ told' \in Seq({"kick", "closed"}) /\ kicks' \in [Connections -> Nat]
         /\ state' \in States /\ negotiated' \in BOOLEAN /\ heartbeat' = 0
         /\ failure' \in {"none", "rejected", "closed"} /\ clears' \in 0 .. MaxRequests
<1>1. ReportClose
  BY DEF HandleClose
<1>2. MaxRequests \in Nat /\ clears \in 0 .. MaxRequests
  BY ClientAssumption DEF ClientTypeOK
<1>3. clears' \in 0 .. MaxRequests
  BY <1>2 DEF HandleClose
<1>4. /\ state' \in States /\ negotiated' \in BOOLEAN /\ heartbeat' = 0
      /\ failure' \in {"none", "rejected", "closed"}
  BY DEF HandleClose, States, ClientTypeOK
<1> QED
  BY <1>1, <1>3, <1>4, ReportTypes

\* The same for one that may be put off.
LEMMA OnCloseTypes ==
  ASSUME ClientTypeOK, NEW c \in attached, NEW event \in {"gone", "error"}, OnClose(c, event)
  PROVE  /\ pending_kick' \in {0, pending_kick} /\ kick_reported' \in BOOLEAN
         /\ ended' \in BOOLEAN /\ told' \in Seq({"kick", "closed"})
         /\ kicks' \in [Connections -> Nat]
         /\ state' \in States /\ negotiated' \in BOOLEAN /\ heartbeat' \in {0, heartbeat}
         /\ failure' \in {"none", "rejected", "closed"} /\ clears' \in 0 .. MaxRequests
         /\ deferred' \subseteq [conn : Connections, event : {"gone", "error"}]
<1>0. c \in Connections /\ deferred \subseteq [conn : Connections, event : {"gone", "error"}]
  BY ClientAssumption DEF ClientTypeOK, Connections
<1>1. CASE ShouldDefer
  BY <1>0, <1>1 DEF OnClose, ClientTypeOK, coreVars, negotiationVars, kickVars
<1>2. CASE ~ShouldDefer
  <2>1. HandleClose(event) /\ deferred' = deferred
    BY <1>2 DEF OnClose
  <2> QED
    BY <1>0, <2>1, CloseTypes
<1> QED
  BY <1>1, <1>2

\* ... and so does a close of a transport, which may report one.
LEMMA TransportTypes ==
  ASSUME ClientTypeOK, NEW c, CloseTransport(c)
  PROVE  /\ pending_kick' \in {0, pending_kick} /\ kick_reported' \in BOOLEAN
         /\ ended' \in BOOLEAN /\ told' \in Seq({"kick", "closed"})
         /\ kicks' \in [Connections -> Nat]
         /\ state' \in States /\ negotiated' \in BOOLEAN /\ heartbeat' \in {0, heartbeat}
         /\ failure' \in {"none", "rejected", "closed"} /\ clears' \in 0 .. MaxRequests
         /\ deferred' \subseteq [conn : Connections, event : {"gone", "error"}]
         /\ open' \subseteq 1 .. dialled /\ attached' \subseteq open' /\ dialled' = dialled
<1>1. open' \subseteq 1 .. dialled /\ attached' \subseteq open' /\ dialled' = dialled
  BY DEF CloseTransport, ClientTypeOK
<1>2. CASE c \in attached
  <2>1. OnClose(c, "gone")
    BY <1>2 DEF CloseTransport
  <2> QED
    BY <1>1, <1>2, <2>1, OnCloseTypes
<1>3. CASE c \notin attached
  BY <1>1, <1>3 DEF CloseTransport, ClientTypeOK, coreVars, negotiationVars, kickVars
<1> QED
  BY <1>2, <1>3

\* Every step keeps the types: one case for each action.
LEMMA TypesNext ==
  ASSUME ClientTypeOK, Unused, KickOnce, CallShape, Next
  PROVE  ClientTypeOK'
<1> USE ClientAssumption DEF ClientTypeOK
<1>0. /\ MaxConnections \in Nat /\ MaxRequests \in Nat /\ MaxAttempts \in Nat
      /\ 1 .. dialled \subseteq Connections
  BY DEF Connections
<1>1. ASSUME NEW c \in Connections, NEW kind \in ServerSends, NEW r \in Requests \cup {0},
             ReadFrame(c, kind, r)
      PROVE  ClientTypeOK'
  <2>1. [conn |-> c, kind |-> kind, req |-> r, negotiated |-> negotiated,
         plain |-> Plain(c, kind), step |-> "queued", target |-> 0, notify |-> FALSE]
          \in FrameTasks
    BY DEF FrameTasks, Plain
  <2>2. PeerAfter(c, kind) \in {"silent", "acked", "rejected", "closing"}
    BY DEF PeerAfter
  <2>3. /\ frames' \subseteq FrameTasks /\ owed' \subseteq Connections \X Requests
        /\ peer' \in [Connections -> {"silent", "acked", "rejected", "closing"}]
        /\ failure' \in {"none", "rejected", "closed"}
    BY <1>1, <2>1, <2>2 DEF ReadFrame, RecordRejection
  <2>4. UNCHANGED <<state, negotiated, ended, pending_kick, kick_reported, told, kicks,
                    heartbeat, disconnect_requested, slot, connection, attempts, call, pending,
                    request, answer, dialled, open, attached, asked, deferred, clears, late>>
    BY <1>1 DEF ReadFrame, kickVars, clientVars, pendingVars, netVars
  <2> QED
    BY <2>3, <2>4
<1>2. ASSUME NEW c \in Connections, NEW event \in Endings, ReadEnd(c, event)
      PROVE  ClientTypeOK'
  <2>1. /\ c \in attached /\ OnClose(c, event) /\ open' = open \ {c} /\ attached' = attached \ {c}
        /\ event \in {"gone", "error"}
    BY <1>2 DEF ReadEnd, Reading
  <2>2. UNCHANGED <<disconnect_requested, slot, connection, attempts, call, pending, request,
                    answer, dialled, peer, asked, owed, frames, late>>
    BY <1>2 DEF ReadEnd, clientVars, pendingVars, serverVars
  <2> HIDE DEF ClientTypeOK
  <2>3. /\ pending_kick' \in {0, pending_kick} /\ kick_reported' \in BOOLEAN
        /\ ended' \in BOOLEAN /\ told' \in Seq({"kick", "closed"})
        /\ kicks' \in [Connections -> Nat]
        /\ state' \in States /\ negotiated' \in BOOLEAN /\ heartbeat' \in {0, heartbeat}
        /\ failure' \in {"none", "rejected", "closed"} /\ clears' \in 0 .. MaxRequests
        /\ deferred' \subseteq [conn : Connections, event : {"gone", "error"}]
    BY <2>1, OnCloseTypes
  <2> USE DEF ClientTypeOK
  <2>4. open' \subseteq 1 .. dialled /\ attached' \subseteq open'
    BY <2>1
  <2>5. {pending_kick', slot', heartbeat', connection'} \subseteq 0 .. dialled
    BY <2>2, <2>3, SMTT(30)
  <2> QED
    BY <2>2, <2>3, <2>4, <2>5
\* A close of a transport: what the rest of the step must leave alone.
<1>c. ASSUME NEW c, CloseTransport(c),
             slot' = slot, connection' \in {0, connection}, attempts' = attempts,
             call' \in Calls, frames' \subseteq FrameTasks,
             UNCHANGED <<disconnect_requested, pending, request, answer, peer, asked, owed, late>>
      PROVE  ClientTypeOK'
  <2> HIDE DEF ClientTypeOK
  <2>1. /\ pending_kick' \in {0, pending_kick} /\ kick_reported' \in BOOLEAN
        /\ ended' \in BOOLEAN /\ told' \in Seq({"kick", "closed"})
        /\ kicks' \in [Connections -> Nat]
        /\ state' \in States /\ negotiated' \in BOOLEAN /\ heartbeat' \in {0, heartbeat}
        /\ failure' \in {"none", "rejected", "closed"} /\ clears' \in 0 .. MaxRequests
        /\ deferred' \subseteq [conn : Connections, event : {"gone", "error"}]
        /\ open' \subseteq 1 .. dialled /\ attached' \subseteq open' /\ dialled' = dialled
    BY <1>c, TransportTypes
  <2> USE DEF ClientTypeOK
  <2>2. {pending_kick', slot', heartbeat', connection'} \subseteq 0 .. dialled'
    BY <1>c, <2>1
  <2>3. pending' \subseteq Requests /\ asked' \subseteq 1 .. dialled' /\ dialled' \in 0 .. MaxConnections
    BY <1>c, <2>1
  <2>4. /\ attempts' \in 0 .. MaxAttempts /\ request' \in Requests \cup {0} /\ answer' \in BOOLEAN
        /\ disconnect_requested' \in BOOLEAN /\ late' \in BOOLEAN
        /\ owed' \subseteq Connections \X Requests
        /\ peer' \in [Connections -> {"silent", "acked", "rejected", "closing"}]
        /\ call' \in Calls /\ frames' \subseteq FrameTasks
    BY <1>c
  <2> QED
    BY <2>1, <2>2, <2>3, <2>4
\* A reported close likewise.
<1>h. ASSUME NEW event, HandleClose(event), late' \in BOOLEAN, deferred' \subseteq deferred,
             call' \in Calls, pending' \subseteq pending,
             UNCHANGED <<disconnect_requested, slot, connection, attempts, request, answer,
                         dialled, open, attached, peer, asked, owed, frames>>
      PROVE  ClientTypeOK'
  <2> HIDE DEF ClientTypeOK
  <2>1. /\ pending_kick' = 0 /\ kick_reported' \in BOOLEAN /\ ended' \in BOOLEAN
        /\ told' \in Seq({"kick", "closed"}) /\ kicks' \in [Connections -> Nat]
        /\ state' \in States /\ negotiated' \in BOOLEAN /\ heartbeat' = 0
        /\ failure' \in {"none", "rejected", "closed"} /\ clears' \in 0 .. MaxRequests
    BY <1>h, CloseTypes
  <2> USE DEF ClientTypeOK
  <2> QED
    BY <1>h, <2>1
<1>3. ASSUME NEW d \in deferred, DrainedClose(d) \/ OverdueClose(d)
      PROVE  ClientTypeOK'
  <2>1. HandleClose(d.event) /\ late' \in BOOLEAN /\ deferred' \subseteq deferred
    BY <1>3 DEF DrainedClose, OverdueClose
  <2>2. UNCHANGED <<disconnect_requested, slot, connection, attempts, call, pending, request,
                    answer, dialled, open, attached, peer, asked, owed, frames>>
    BY <1>3 DEF DrainedClose, OverdueClose, clientVars, pendingVars, netVars, serverVars
  <2> QED
    BY <2>1, <2>2, <1>h
<1>4. CASE ClearPending
  BY <1>4 DEF ClearPending, coreVars, negotiationVars, kickVars, clientVars, netVars, serverVars
\* A frame task that ends, or goes to its next step.
<1>f. ASSUME NEW t \in frames, NEW s \in {"queued", "ready", "closing", "report"}
      PROVE  /\ frames \ {t} \subseteq FrameTasks
             /\ (frames \ {t}) \cup {[t EXCEPT !.step = s]} \subseteq FrameTasks
             /\ (frames \ {t}) \cup {[t EXCEPT !.step = s, !.target = slot]} \subseteq FrameTasks
             /\ \A n \in BOOLEAN : (frames \ {t}) \cup
                  {[t EXCEPT !.step = s, !.target = slot, !.notify = n]} \subseteq FrameTasks
  <2>1. t \in FrameTasks /\ slot \in Connections \cup {0}
    BY <1>0
  <2> HIDE DEF ClientTypeOK
  <2>2. /\ [t EXCEPT !.step = s] \in FrameTasks
        /\ [t EXCEPT !.step = s, !.target = slot] \in FrameTasks
        /\ \A n \in BOOLEAN : [t EXCEPT !.step = s, !.target = slot, !.notify = n] \in FrameTasks
    <3> SUFFICES ASSUME NEW n \in BOOLEAN
                 PROVE  /\ [t EXCEPT !.step = s] \in FrameTasks
                        /\ [t EXCEPT !.step = s, !.target = slot] \in FrameTasks
                        /\ [t EXCEPT !.step = s, !.target = slot, !.notify = n] \in FrameTasks
      OBVIOUS
    <3> QED
      BY <2>1 DEF FrameTasks
  <2> USE DEF ClientTypeOK
  <2>3. frames \subseteq FrameTasks
    OBVIOUS
  <2> HIDE DEF ClientTypeOK
  <2> QED
    BY <2>2, <2>3
<1>5. ASSUME NEW t \in frames, Unparsed(t) \/ HandleData(t)  PROVE ClientTypeOK'
  BY <1>5, ZenonT(60) DEF Unparsed, HandleData, Done, coreVars, negotiationVars, kickVars, clientVars,
     pendingVars, netVars, serverVars
<1>6. ASSUME NEW t \in frames, HandleAck(t)  PROVE ClientTypeOK'
  <2>1. frames' \subseteq FrameTasks
    BY <1>6, <1>f DEF HandleAck, At
  <2> QED
    BY <1>6, <2>1, SMTT(30) DEF HandleAck, StartHeartbeat, kickVars, clientVars, pendingVars, netVars,
       serverVars
<1>7. ASSUME NEW t \in frames, NegotiationReady(t)  PROVE ClientTypeOK'
  BY <1>7 DEF NegotiationReady, StartHeartbeat, Done, negotiationVars, kickVars, clientVars,
     pendingVars, netVars, serverVars
<1>8. ASSUME NEW t \in frames, HandleRejection(t)  PROVE ClientTypeOK'
  BY <1>8 DEF HandleRejection, RecordRejection, Done, kickVars, clientVars, pendingVars,
     netVars, serverVars
<1>9. ASSUME NEW t \in frames, HandleReply(t)  PROVE ClientTypeOK'
  BY <1>9 DEF HandleReply, Done, coreVars, negotiationVars, kickVars, clientVars, netVars,
     serverVars
<1>10. ASSUME NEW t \in frames, HandleClosing(t)  PROVE ClientTypeOK'
  <2>1. frames' \subseteq FrameTasks
    BY <1>10, <1>f DEF HandleClosing, Done
  <2> QED
    BY <1>10, <2>1 DEF HandleClosing, coreVars, negotiationVars, kickVars, clientVars,
       pendingVars, netVars, serverVars
<1>11. ASSUME NEW t \in frames, CloseTaken(t)  PROVE ClientTypeOK'
  BY <1>11, <1>c DEF CloseTaken, Done, clientVars, pendingVars, serverVars
<1>12. ASSUME NEW t \in frames, NEW ends \in BOOLEAN, HandleKicked(t, ends)  PROVE ClientTypeOK'
  <2> DEFINE notify == t.negotiated /\ ~disconnect_requested
  <2>1. notify \in BOOLEAN /\ t.conn \in Connections /\ state' = "Disconnected" /\ slot' = 0
    BY <1>12 DEF HandleKicked, FrameTasks
  <2>2. /\ frames' = (frames \ {t}) \cup
             {[t EXCEPT !.step = "closing", !.target = slot, !.notify = notify]}
        /\ ended' = (ended \/ (notify /\ ends))
        /\ pending_kick' = IF notify THEN t.conn ELSE pending_kick
    BY <1>12 DEF HandleKicked
  <2> HIDE DEF notify
  <2>3. frames' \subseteq FrameTasks
    BY <2>1, <2>2, <1>f
  <2>4. ended' \in BOOLEAN /\ pending_kick' \in {pending_kick, t.conn}
    BY <2>2
  <2>5. t.conn \in 0 .. dialled
    <3>1. t.conn \in asked
      BY DEF KickOnce
    <3>2. \A n \in asked : n \in 0 .. dialled
      <4>1. dialled \in Nat /\ asked \subseteq 1 .. dialled
        OBVIOUS
      <4> HIDE DEF ClientTypeOK
      <4> QED
        BY <4>1
    <3> HIDE DEF ClientTypeOK
    <3> QED
      BY <3>1, <3>2
  <2> QED
    BY <1>12, <2>1, <2>3, <2>4, <2>5, SMTT(30) DEF HandleKicked, negotiationVars, clientVars, pendingVars,
       netVars, serverVars, States
<1>13. ASSUME NEW t \in frames, DisconnectOnKicked(t)  PROVE ClientTypeOK'
  <2>1. frames' \subseteq FrameTasks
    BY <1>13, <1>f DEF DisconnectOnKicked, At
  <2> QED
    BY <1>13, <2>1, <1>c DEF DisconnectOnKicked, clientVars, pendingVars, serverVars
<1>14. ASSUME NEW t \in frames, ReportKick(t)  PROVE ClientTypeOK'
  <2> HIDE DEF ClientTypeOK
  <2>1. /\ pending_kick' \in {0, pending_kick} /\ kick_reported' \in BOOLEAN
        /\ ended' \in BOOLEAN /\ told' \in Seq({"kick", "closed"})
        /\ kicks' \in [Connections -> Nat]
    BY <1>14, ReportTypes DEF ReportKick, kickVars, ClientTypeOK
  <2> USE DEF ClientTypeOK
  <2> QED
    BY <1>14, <2>1, SMTT(30) DEF ReportKick, Done, negotiationVars, clientVars, netVars, serverVars
<1>15. CASE HeartbeatCloses
  BY <1>15, <1>c DEF HeartbeatCloses, clientVars, pendingVars, serverVars
<1>g. ASSUME NEW s \in {"idle", "stale", "dial", "attach", "send_connect", "finish",
                        "negotiate", "send_frame", "send", "await", "close", "end"}
      PROVE  [call EXCEPT !.step = s] \in Calls
  BY DEF Calls
<1>i. /\ Idle \in Calls
      /\ \A what \in {"connect", "reconnect", "request"} :
           [step |-> "stale", for |-> what, conn |-> 0] \in Calls
  BY DEF Calls, Idle
<1>16. CASE Connect
  <2>1. call' \in Calls
    BY <1>16, <1>i DEF Connect
  <2> QED
    BY <1>16, <2>1 DEF Connect, negotiationVars, kickVars, pendingVars, netVars, serverVars,
       taskVars, States
<1>17. CASE CloseStale
  <2>1. call' \in Calls
    BY <1>17, <1>g DEF CloseStale, Goto
  <2> QED
    BY <1>17, <2>1, <1>c DEF CloseStale, pendingVars, serverVars
<1>18. CASE Dial
  <2>1. dialled + 1 \in Connections /\ dialled + 1 \in 0 .. MaxConnections
    BY <1>18, <1>0 DEF Dial, Connections
  <2>2. call' \in Calls
    BY <1>18, <2>1 DEF Dial, Calls
  <2>3. /\ \A n \in 0 .. dialled : n \in 0 .. dialled + 1
        /\ 1 .. dialled \subseteq 1 .. dialled + 1 /\ dialled + 1 \in 1 .. dialled + 1
    BY <1>0, SMTT(30)
  <2>4. /\ dialled' = dialled + 1 /\ open' = open \cup {dialled + 1}
        /\ UNCHANGED <<state, negotiated, failure, ended, pending_kick, kick_reported, told, kicks,
                       heartbeat, disconnect_requested, slot, connection, attempts, pending,
                       request, answer, attached, peer, asked, owed, frames, deferred, clears,
                       late>>
    BY <1>18 DEF Dial, coreVars, negotiationVars, kickVars, pendingVars, serverVars, taskVars
  <2> QED
    BY <2>1, <2>2, <2>3, <2>4
<1>t. ASSUME NEW what \in {"connect", "reconnect", "request"}, TryReconnect(what)
      PROVE  state' \in States /\ call' \in Calls /\ attempts' \in 0 .. MaxAttempts
  <2>1. attempts' \in 0 .. MaxAttempts
    BY <1>t, <1>0 DEF TryReconnect
  <2> QED
    BY <1>t, <1>i, <2>1 DEF TryReconnect, States
<1>u. ASSUME ConnectFails
      PROVE  state' \in States /\ call' \in Calls /\ attempts' \in 0 .. MaxAttempts
  <2>1. CASE call.for = "connect" /\ MaxAttempts > 0
    BY <1>u, <2>1, <1>t DEF ConnectFails
  <2>2. CASE ~(call.for = "connect" /\ MaxAttempts > 0)
    BY <1>u, <2>2, <1>i DEF ConnectFails, States
  <2> QED
    BY <2>1, <2>2
<1>19. CASE DialFails \/ SendConnectFails
  <2>1. state' \in States /\ call' \in Calls /\ attempts' \in 0 .. MaxAttempts
    BY <1>19, <1>u DEF DialFails, SendConnectFails
  <2>2. UNCHANGED <<negotiated, failure, ended, pending_kick, kick_reported, told, kicks,
                    heartbeat, disconnect_requested, slot, connection, pending, request, answer,
                    dialled, open, attached, peer, asked, owed, frames, deferred, clears, late>>
    BY <1>19 DEF DialFails, SendConnectFails, negotiationVars, kickVars, pendingVars, netVars,
       serverVars, taskVars
  <2> QED
    BY <2>1, <2>2
<1>n. ASSUME HandleConnected
      PROVE  /\ state' \in States /\ negotiated' \in BOOLEAN /\ ended' \in BOOLEAN
             /\ failure' \in {"none", "rejected", "closed"} /\ pending_kick' \in {0, pending_kick}
             /\ kick_reported' \in BOOLEAN /\ told' \in Seq({"kick", "closed"})
             /\ kicks' \in [Connections -> Nat] /\ heartbeat' = heartbeat
  <2>1. CASE state = "Connected"
    BY <1>n, <2>1 DEF HandleConnected, negotiationVars, kickVars
  <2>2. CASE state # "Connected"
    <3>1. /\ state' = "Connected" /\ negotiated' = FALSE /\ failure' = "none" /\ ended' = FALSE
          /\ pending_kick' = 0 /\ kick_reported' = FALSE /\ told' = <<>> /\ kicks' = kicks
          /\ heartbeat' = heartbeat
      BY <1>n, <2>2 DEF HandleConnected
    <3>2. told' \in Seq({"kick", "closed"})
      BY <3>1
    <3> QED
      BY <3>1, <3>2 DEF States
  <2> QED
    BY <2>1, <2>2
<1>20. CASE Attach
  <2>1. call' \in Calls
    BY <1>20, <1>g DEF Attach, Goto
  <2>2. /\ slot' = dialled /\ dialled \in open /\ dialled # slot /\ late' \in BOOLEAN
        /\ open' = open \ ({slot} \ {heartbeat})
        /\ attached' = (attached \ ({slot} \ {heartbeat})) \cup {dialled}
        /\ UNCHANGED <<disconnect_requested, connection, attempts, pending, request, answer,
                       dialled, peer, asked, owed, frames, deferred, clears>>
    BY <1>20 DEF Attach, Unused, pendingVars, serverVars
  <2>3. open' \subseteq 1 .. dialled /\ attached' \subseteq open'
    BY <2>2
  <2>4. /\ state' \in States /\ negotiated' \in BOOLEAN /\ ended' \in BOOLEAN
        /\ failure' \in {"none", "rejected", "closed"} /\ pending_kick' \in {0, pending_kick}
        /\ kick_reported' \in BOOLEAN /\ told' \in Seq({"kick", "closed"})
        /\ kicks' \in [Connections -> Nat] /\ heartbeat' = heartbeat
    BY <1>20, <1>n DEF Attach
  <2> QED
    <3>1. {pending_kick', slot', heartbeat', connection'} \subseteq 0 .. dialled
      BY <2>2, <2>4, <1>0
    <3> QED
      BY <2>1, <2>2, <2>3, <2>4, <3>1
<1>21. CASE SendConnect
  <2>1. call' \in Calls
    BY <1>21, <1>g DEF SendConnect, Goto
  <2>2. /\ call.conn \in open /\ asked' = asked \cup {call.conn} /\ connection' = call.conn
        /\ UNCHANGED <<state, negotiated, failure, ended, pending_kick, kick_reported, told, kicks,
                       heartbeat, disconnect_requested, slot, attempts, pending, request, answer,
                       dialled, open, attached, peer, owed, frames, deferred, clears, late>>
    BY <1>21 DEF SendConnect, coreVars, negotiationVars, kickVars, pendingVars, netVars, taskVars
  <2>3. call.conn \in 1 .. dialled /\ call.conn \in 0 .. dialled
    BY <2>2
  <2> QED
    BY <2>1, <2>2, <2>3
<1>22. CASE ConnectFinishes
  <2>1. call' \in Calls
    BY <1>22, <1>g DEF ConnectFinishes, Goto
  <2>2. /\ state' \in States /\ negotiated' \in BOOLEAN /\ ended' \in BOOLEAN
        /\ failure' \in {"none", "rejected", "closed"} /\ pending_kick' \in {0, pending_kick}
        /\ kick_reported' \in BOOLEAN /\ told' \in Seq({"kick", "closed"})
        /\ kicks' \in [Connections -> Nat] /\ heartbeat' = heartbeat
    BY <1>22, <1>n DEF ConnectFinishes
  <2>3. /\ attempts' = 0
        /\ UNCHANGED <<disconnect_requested, slot, connection, pending, request, answer, dialled,
                       open, attached, peer, asked, owed, frames, deferred, clears, late>>
    BY <1>22 DEF ConnectFinishes, pendingVars, netVars, serverVars, taskVars
  <2>4. attempts' \in 0 .. MaxAttempts
    BY <2>3, <1>0
  <2> QED
    BY <2>1, <2>2, <2>3, <2>4, SMTT(30)
<1>23. CASE Negotiated \/ NegotiationTimeout \/ SendFails \/ RequestEnds
  BY <1>23, <1>i, ZenonT(60) DEF Negotiated, NegotiationTimeout, SendFails, RequestEnds, coreVars,
     negotiationVars, kickVars, pendingVars, netVars, serverVars, taskVars
<1>24. CASE Request
  <2>1. call' \in Calls
    BY <1>24 DEF Request, Calls
  <2>2. request + 1 \in Requests
    BY <1>24, <1>0 DEF Request, Requests
  <2> QED
    BY <1>24, <2>1, <2>2 DEF Request, coreVars, negotiationVars, kickVars, netVars, serverVars,
       taskVars
<1>25. CASE SendFrame
  <2>1. state' \in States /\ call' \in Calls /\ attempts' \in 0 .. MaxAttempts
    <3>1. CASE ShouldReconnect
      BY <1>25, <3>1, <1>t DEF SendFrame
    <3>2. CASE ~ShouldReconnect
      BY <1>25, <3>2, <1>g DEF SendFrame, Goto
    <3> QED
      BY <3>1, <3>2
  <2> QED
    BY <1>25, <2>1 DEF SendFrame, negotiationVars, kickVars, pendingVars, netVars, serverVars,
       taskVars
<1>26. CASE SendRequest
  <2>1. call' \in Calls
    BY <1>26, <1>g DEF SendRequest, Goto
  <2>2. connection \in Connections /\ request \in Requests
    BY <1>26, <1>0 DEF SendRequest, CallShape
  <2>3. owed' \subseteq Connections \X Requests
    BY <1>26, <2>2 DEF SendRequest
  <2> QED
    BY <1>26, <2>1, <2>3 DEF SendRequest, coreVars, negotiationVars, kickVars, pendingVars,
       netVars, taskVars
<1>27. CASE RequestTimeout
  BY <1>27, <1>i DEF RequestTimeout, coreVars, negotiationVars, kickVars, netVars, serverVars,
     taskVars
<1>28. CASE Disconnect
  <2>1. call' \in Calls
    BY <1>28, <1>0 DEF Disconnect, Calls
  <2>2. /\ state' = "Disconnecting" /\ disconnect_requested' = TRUE /\ heartbeat' = 0
        /\ slot' = 0 /\ connection' = 0
        /\ open' = open \ ({slot} \ {connection}) /\ attached' = attached \ ({slot} \ {connection})
        /\ UNCHANGED <<negotiated, failure, ended, pending_kick, kick_reported, told, kicks,
                       attempts, pending, request, answer, dialled, peer, asked, owed, frames,
                       deferred, clears, late>>
    BY <1>28 DEF Disconnect, Drop, negotiationVars, kickVars, pendingVars, serverVars, taskVars
  <2>3. open' \subseteq 1 .. dialled /\ attached' \subseteq open'
    BY <2>2
  <2> QED
    BY <2>1, <2>2, <2>3, <1>0 DEF States
<1>29. CASE DisconnectCloses
  <2>1. call' \in Calls
    BY <1>29, <1>g DEF DisconnectCloses, Goto
  <2> QED
    BY <1>29, <2>1, <1>c DEF DisconnectCloses, pendingVars, serverVars
<1>30. CASE DisconnectEnds
  BY <1>30, <1>h, <1>i DEF DisconnectEnds, netVars, serverVars
<1> QED
  BY <1>1, <1>2, <1>3, <1>4, <1>5, <1>6, <1>7, <1>8, <1>9, <1>10, <1>11, <1>12, <1>13, <1>14,
     <1>15, <1>16, <1>17, <1>18, <1>19, <1>20, <1>21, <1>22, <1>23, <1>24, <1>25, <1>26, <1>27,
     <1>28, <1>29, <1>30
     DEF Next, Tasks, CallStep, Environment, FrameStep

-----------------------------------------------------------------------------
(* The frame tasks and the kicks.                                          *)

\* The tasks go on: one ends or is past the queue, and none is added.
FramesGo ==
  \/ frames' \subseteq frames
  \/ \E t \in frames : \E u \in FrameTasks :
       /\ frames' = (frames \ {t}) \cup {u}
       /\ u.conn = t.conn /\ u.kind = t.kind /\ u.step # "queued"
       /\ u.target \in {t.target, slot}

\* Frame tasks that only move on add no frame and wake no kick.
LEMMA FramesFacts ==
  ASSUME KickOnce, FramesGo
  PROVE  /\ \A u \in frames' : \E t \in frames : u.conn = t.conn /\ u.kind = t.kind
         /\ \A u \in frames' : Waiting(u) => u \in frames
         /\ \A t, u \in frames' : t.kind = "kick" /\ u.kind = "kick" /\ t.conn = u.conn => t = u
         /\ frames = {} => frames' = {}
         /\ \A u \in frames' : u.target = slot \/ \E t \in frames : u.target = t.target
<1>1. CASE frames' \subseteq frames
  BY <1>1 DEF KickOnce
<1>2. ASSUME NEW t \in frames, NEW w \in FrameTasks,
             frames' = (frames \ {t}) \cup {w},
             w.conn = t.conn, w.kind = t.kind, w.step # "queued",
             w.target \in {t.target, slot}
      PROVE  /\ \A u \in frames' : \E v \in frames : u.conn = v.conn /\ u.kind = v.kind
             /\ \A u \in frames' : Waiting(u) => u \in frames
             /\ \A v, u \in frames' : v.kind = "kick" /\ u.kind = "kick" /\ v.conn = u.conn => v = u
             /\ frames = {} => frames' = {}
             /\ \A u \in frames' : u.target = slot \/ \E v \in frames : u.target = v.target
  <2>1. \A u \in frames' : u = w \/ (u \in frames /\ u # t)
    BY <1>2
  <2>2. \A v, u \in frames : v.kind = "kick" /\ u.kind = "kick" /\ v.conn = u.conn => v = u
    BY DEF KickOnce
  <2>3. \A v, u \in frames' : v.kind = "kick" /\ u.kind = "kick" /\ v.conn = u.conn => v = u
    BY <2>1, <2>2, <1>2
  <2>4. \A u \in frames' : Waiting(u) => u \in frames
    BY <2>1, <1>2 DEF Waiting
  <2>5. \A u \in frames' : \E v \in frames : u.conn = v.conn /\ u.kind = v.kind
    BY <2>1, <1>2
  <2>6. \A u \in frames' : u.target = slot \/ \E v \in frames : u.target = v.target
    BY <2>1, <1>2
  <2> QED
    BY <2>3, <2>4, <2>5, <2>6, <1>2
<1> QED
  BY <1>1, <1>2 DEF FramesGo

\* What the tasks and the kicks are changed by: a frame that is read, a KICKED
\* that is handled, and otherwise nothing but reports.
KickMove ==
  /\ FramesGo /\ asked \subseteq asked' /\ peer' = peer
  /\ \/ kicks' = kicks /\ pending_kick' \in {0, pending_kick}
     \/ ReportClose

\* A close takes a pending kick only to report it.
LEMMA CloseMoves ==
  ASSUME NEW c, NEW event, OnClose(c, event)
  PROVE  (kicks' = kicks /\ pending_kick' \in {0, pending_kick}) \/ ReportClose
BY DEF OnClose, HandleClose, coreVars, kickVars

\* ... whoever closes the transport.
LEMMA TransportMoves ==
  ASSUME NEW c, CloseTransport(c)
  PROVE  (kicks' = kicks /\ pending_kick' \in {0, pending_kick}) \/ ReportClose
BY CloseMoves DEF CloseTransport, coreVars, kickVars

\* A frame task that goes on with its handler is such a move.
LEMMA Handled ==
  ASSUME ClientTypeOK, NEW t \in frames, NEW s \in {"ready", "closing", "report"},
         NEW n \in BOOLEAN,
         \/ frames' = (frames \ {t}) \cup {[t EXCEPT !.step = s]}
         \/ frames' = (frames \ {t}) \cup {[t EXCEPT !.step = s, !.target = slot]}
         \/ frames' = (frames \ {t}) \cup {[t EXCEPT !.step = s, !.target = slot, !.notify = n]}
  PROVE  FramesGo
<1>1. t \in FrameTasks /\ slot \in Connections \cup {0}
  BY ClientAssumption DEF ClientTypeOK, Connections
<1>2. ASSUME NEW u \in {[t EXCEPT !.step = s], [t EXCEPT !.step = s, !.target = slot],
                        [t EXCEPT !.step = s, !.target = slot, !.notify = n]}
      PROVE  /\ u \in FrameTasks /\ u.conn = t.conn /\ u.kind = t.kind /\ u.step # "queued"
             /\ u.target \in {t.target, slot}
  BY <1>1, ZenonT(60) DEF FrameTasks
<1>3. PICK u \in {[t EXCEPT !.step = s], [t EXCEPT !.step = s, !.target = slot],
                  [t EXCEPT !.step = s, !.target = slot, !.notify = n]} :
        frames' = (frames \ {t}) \cup {u}
  OBVIOUS
<1>4. /\ u \in FrameTasks /\ u.conn = t.conn /\ u.kind = t.kind /\ u.step # "queued"
      /\ u.target \in {t.target, slot}
  BY <1>2
<1> QED
  BY <1>3, <1>4 DEF FramesGo

\* Every step of a frame task is such a move.
LEMMA FrameStepGoes ==
  ASSUME ClientTypeOK, NEW t \in frames, FrameStep(t)
  PROVE  FramesGo
<1>1. ASSUME frames' = frames \ {t}  PROVE FramesGo
  BY <1>1 DEF FramesGo
<1>2. CASE Unparsed(t) \/ NegotiationReady(t) \/ HandleRejection(t) \/ HandleData(t)
           \/ HandleReply(t) \/ CloseTaken(t) \/ ReportKick(t)
  BY <1>1, <1>2 DEF Unparsed, NegotiationReady, HandleRejection, HandleData, HandleReply,
     CloseTaken, ReportKick, Done
<1>3. CASE HandleAck(t) \/ DisconnectOnKicked(t)
  BY <1>3, Handled, ZenonT(60) DEF HandleAck, DisconnectOnKicked, At
<1>4. CASE HandleClosing(t)
  BY <1>1, <1>4, Handled DEF HandleClosing, Done
<1>5. ASSUME NEW ends \in BOOLEAN, HandleKicked(t, ends)  PROVE FramesGo
  <2> DEFINE notify == t.negotiated /\ ~disconnect_requested
  <2>1. frames' = (frames \ {t}) \cup
          {[t EXCEPT !.step = "closing", !.target = slot, !.notify = notify]}
    BY <1>5 DEF HandleKicked
  <2>2. notify \in BOOLEAN
    OBVIOUS
  <2> HIDE DEF notify
  <2> QED
    BY <2>1, <2>2, Handled
<1> QED
  BY <1>2, <1>3, <1>4, <1>5 DEF FrameStep

\* A kick is added by a frame that is read and noted by its handler, nowhere else.
LEMMA KickMoves ==
  ASSUME ClientTypeOK, Next
  PROVE  \/ KickMove
         \/ \E c \in Connections, kind \in ServerSends, r \in Requests \cup {0} :
              ReadFrame(c, kind, r)
         \/ \E t \in frames, ends \in BOOLEAN : HandleKicked(t, ends)
<1> USE DEF KickMove
<1>s. ASSUME frames' = frames  PROVE FramesGo
  BY <1>s DEF FramesGo
<1>1. ASSUME NEW t \in frames, FrameStep(t), ~\E ends \in BOOLEAN : HandleKicked(t, ends)
      PROVE  KickMove
  <2>0. FramesGo
    BY <1>1, FrameStepGoes
  <2>1. CASE Unparsed(t) \/ HandleData(t) \/ HandleReply(t) \/ HandleClosing(t)
    BY <2>0, <2>1 DEF Unparsed, HandleData, HandleReply, HandleClosing, coreVars, kickVars,
       serverVars
  <2>2. CASE HandleAck(t) \/ NegotiationReady(t) \/ HandleRejection(t)
    BY <2>0, <2>2 DEF HandleAck, NegotiationReady, HandleRejection, kickVars, serverVars
  <2>3. CASE CloseTaken(t) \/ DisconnectOnKicked(t)
    BY <2>0, <2>3, TransportMoves DEF CloseTaken, DisconnectOnKicked, serverVars
  <2>4. CASE ReportKick(t)
    BY <2>0, <2>4 DEF ReportKick, kickVars, serverVars
  <2> QED
    BY <1>1, <2>1, <2>2, <2>3, <2>4 DEF FrameStep
<1>2. ASSUME NEW d \in deferred, DrainedClose(d) \/ OverdueClose(d)  PROVE KickMove
  BY <1>2, <1>s DEF DrainedClose, OverdueClose, HandleClose, serverVars
<1>3. CASE ClearPending
  BY <1>3, <1>s DEF ClearPending, coreVars, kickVars, serverVars
<1>4. ASSUME NEW c \in Connections, NEW event \in Endings, ReadEnd(c, event)  PROVE KickMove
  BY <1>4, <1>s, CloseMoves DEF ReadEnd, serverVars
<1>5. CASE HeartbeatCloses \/ CloseStale \/ DisconnectCloses
  BY <1>5, <1>s, TransportMoves DEF HeartbeatCloses, CloseStale, DisconnectCloses, serverVars
<1>6. CASE Connect \/ DialFails \/ SendConnectFails \/ SendFrame
  BY <1>6, <1>s DEF Connect, DialFails, SendConnectFails, SendFrame, kickVars, serverVars,
     taskVars
<1>7. CASE Dial \/ Negotiated \/ NegotiationTimeout \/ SendFails \/ RequestEnds \/ Request
           \/ RequestTimeout \/ SendRequest
  BY <1>7, <1>s DEF Dial, Negotiated, NegotiationTimeout, SendFails, RequestEnds, Request,
     RequestTimeout, SendRequest, coreVars, kickVars, serverVars, taskVars
<1>8. CASE SendConnect
  BY <1>8, <1>s DEF SendConnect, coreVars, kickVars, taskVars
<1>9. CASE Attach \/ ConnectFinishes
  BY <1>9, <1>s DEF Attach, ConnectFinishes, HandleConnected, kickVars, serverVars, taskVars
<1>10. CASE Disconnect
  BY <1>10, <1>s DEF Disconnect, kickVars, serverVars, taskVars
<1>11. CASE DisconnectEnds
  BY <1>11, <1>s DEF DisconnectEnds, HandleClose, serverVars
<1> QED
  BY <1>1, <1>2, <1>3, <1>4, <1>5, <1>6, <1>7, <1>8, <1>9, <1>10, <1>11
     DEF Next, Tasks, CallStep, Environment

-----------------------------------------------------------------------------
(* The call and the connection it works on.                                *)

\* What closing a transport does to the parts the call relies on.
LEMMA TransportLeaves ==
  ASSUME NEW c, CloseTransport(c)
  PROVE  /\ state' = state \/ state' # "Connected"
         /\ heartbeat' \in {0, heartbeat}
         /\ open' = open \ {c} /\ attached' = attached \ {c} /\ dialled' = dialled
BY DEF CloseTransport, OnClose, HandleClose, coreVars

\* Nothing but the call itself learns of the connection just dialled.
LEMMA UnusedKept ==
  ASSUME ClientTypeOK, Unused, FramesGo, KickOnce, dialled' = dialled,
         call'.step = "attach" =>
           /\ call' = call /\ dialled \in open' /\ attached' \subseteq attached
           /\ slot' \in {0, slot} /\ heartbeat' \in {0, heartbeat, slot}
           /\ connection' \in {0, connection}
  PROVE  Unused'
<1>1. \A u \in frames' : u.target = slot \/ \E t \in frames : u.target = t.target
  BY FramesFacts
<1>2. slot \in 0 .. dialled /\ dialled \in Nat /\ \A c \in open : c \in 1 .. dialled
  BY ClientAssumption DEF ClientTypeOK
<1>3. \A u \in frames' : u.target \in 0 .. dialled'
  BY <1>1, <1>2 DEF Unused
<1>4. ASSUME call'.step = "attach"
      PROVE  /\ call'.conn = dialled' /\ dialled' \in open'
             /\ dialled' \notin {slot', heartbeat', connection'} \cup attached'
             /\ \A t \in frames' : t.target # dialled'
  <2>1. /\ call' = call /\ dialled \in open' /\ attached' \subseteq attached
        /\ slot' \in {0, slot} /\ heartbeat' \in {0, heartbeat, slot}
        /\ connection' \in {0, connection}
    BY <1>4
  <2>2. /\ call.conn = dialled /\ dialled \in open
        /\ dialled \notin {slot, heartbeat, connection} \cup attached
        /\ \A t \in frames : t.target # dialled
    BY <1>4, <2>1 DEF Unused
  <2>3. dialled # 0
    BY <1>2, <2>2
  <2> QED
    BY <1>1, <2>1, <2>2, <2>3
<1> QED
  BY <1>3, <1>4 DEF Unused

\* A step beside the call.
LEMMA CallLeft ==
  ASSUME CallShape, call' = call, connection' = connection, request' = request,
         dialled' = dialled, asked' = asked, disconnect_requested' = disconnect_requested,
         state' = state \/ state' # "Connected"
  PROVE  CallShape'
BY DEF CallShape

\* The tasks leave the call where it is, or resume it.
LEMMA TasksShape ==
  ASSUME ClientTypeOK, Unused, KickOnce, CallShape, Tasks
  PROVE  Unused' /\ CallShape'
<1>s. ASSUME frames' = frames  PROVE FramesGo
  BY <1>s DEF FramesGo
<1>1. ASSUME NEW t \in frames, FrameStep(t)  PROVE Unused' /\ CallShape'
  <2>0. FramesGo /\ dialled \in Nat /\ slot \in Nat
    BY <1>1, FrameStepGoes, ClientAssumption DEF ClientTypeOK
  <2>1. /\ UNCHANGED <<call, connection, request, dialled, asked, disconnect_requested>>
        /\ state' = state \/ state' # "Connected"
    <3>1. CASE Unparsed(t) \/ HandleData(t) \/ HandleReply(t) \/ HandleClosing(t)
      BY <3>1 DEF Unparsed, HandleData, HandleReply, HandleClosing, coreVars, clientVars,
         pendingVars, netVars, serverVars
    <3>2. CASE HandleAck(t) \/ NegotiationReady(t) \/ HandleRejection(t) \/ ReportKick(t)
      BY <3>2 DEF HandleAck, NegotiationReady, HandleRejection, ReportKick, clientVars,
         pendingVars, netVars, serverVars
    <3>3. CASE CloseTaken(t) \/ DisconnectOnKicked(t)
      BY <3>3, TransportLeaves DEF CloseTaken, DisconnectOnKicked, clientVars, pendingVars,
         serverVars
    <3>4. ASSUME NEW ends \in BOOLEAN, HandleKicked(t, ends)
          PROVE  /\ UNCHANGED <<call, connection, request, dialled, asked, disconnect_requested>>
                 /\ state' = state \/ state' # "Connected"
      BY <3>4 DEF HandleKicked, clientVars, pendingVars, netVars, serverVars
    <3> QED
      BY <1>1, <3>1, <3>2, <3>3, <3>4 DEF FrameStep
  <2>2. /\ slot' \in {0, slot} /\ heartbeat' \in {0, heartbeat, slot}
        /\ attached' \subseteq attached
        /\ open' = open \/ open' = open \ {t.target}
    <3>1. CASE Unparsed(t) \/ HandleData(t) \/ HandleReply(t) \/ HandleClosing(t)
      BY <3>1 DEF Unparsed, HandleData, HandleReply, HandleClosing, coreVars, netVars
    <3>2. CASE HandleAck(t) \/ NegotiationReady(t) \/ HandleRejection(t) \/ ReportKick(t)
      BY <3>2 DEF HandleAck, NegotiationReady, HandleRejection, ReportKick, StartHeartbeat,
         netVars
    <3>3. CASE CloseTaken(t) \/ DisconnectOnKicked(t)
      BY <3>3, TransportLeaves DEF CloseTaken, DisconnectOnKicked
    <3>4. ASSUME NEW ends \in BOOLEAN, HandleKicked(t, ends)
          PROVE  /\ slot' \in {0, slot} /\ heartbeat' = heartbeat
                 /\ attached' \subseteq attached /\ open' = open
      BY <3>4 DEF HandleKicked, netVars
    <3> QED
      BY <1>1, <3>1, <3>2, <3>3, <3>4 DEF FrameStep
  <2>3. call'.step = "attach" => dialled \in open'
    BY <2>1, <2>2 DEF Unused
  <2> QED
    BY <2>0, <2>1, <2>2, <2>3, UnusedKept, CallLeft
<1>2. ASSUME NEW d \in deferred, DrainedClose(d) \/ OverdueClose(d)  PROVE Unused' /\ CallShape'
  <2>1. /\ UNCHANGED <<call, connection, request, dialled, asked, disconnect_requested, slot,
                       open, attached, frames>>
        /\ state' # "Connected" /\ heartbeat' = 0
    BY <1>2 DEF DrainedClose, OverdueClose, HandleClose, clientVars, pendingVars, netVars,
       serverVars
  <2>2. call'.step = "attach" => dialled \in open'
    BY <2>1 DEF Unused
  <2> QED
    BY <1>s, <2>1, <2>2, UnusedKept, CallLeft
<1>3. CASE ClearPending
  <2>1. UNCHANGED <<call, connection, request, dialled, asked, disconnect_requested, slot,
                    open, attached, frames, state, heartbeat>>
    BY <1>3 DEF ClearPending, coreVars, clientVars, netVars, serverVars
  <2>2. call'.step = "attach" => dialled \in open'
    BY <2>1 DEF Unused
  <2> QED
    BY <1>s, <2>1, <2>2, UnusedKept, CallLeft
<1> QED
  BY <1>1, <1>2, <1>3 DEF Tasks

\* The server and the application leave it, or start it.
LEMMA EnvironmentShape ==
  ASSUME ClientTypeOK, Unused, KickOnce, CallShape, Environment
  PROVE  Unused' /\ CallShape'
<1>s. ASSUME frames' = frames  PROVE FramesGo
  BY <1>s DEF FramesGo
<1>n. /\ {slot, heartbeat, connection} \subseteq 0 .. dialled /\ dialled \in Nat
      /\ \A c \in open : c \in 1 .. dialled
  BY ClientAssumption DEF ClientTypeOK
<1>1. ASSUME NEW c \in Connections, NEW kind \in ServerSends, NEW r \in Requests \cup {0},
             ReadFrame(c, kind, r)
      PROVE  Unused' /\ CallShape'
  <2>1. UNCHANGED <<call, connection, request, dialled, asked, disconnect_requested, slot,
                    open, attached, state, heartbeat>>
    BY <1>1 DEF ReadFrame, kickVars, clientVars, pendingVars, netVars
  <2>2. \A u \in frames' : u \in frames \/ u.target = 0
    BY <1>1 DEF ReadFrame
  <2>3. Unused'
    BY <2>1, <2>2, <1>n DEF Unused
  <2> QED
    BY <2>1, <2>3, CallLeft
<1>2. ASSUME NEW c \in Connections, NEW event \in Endings, ReadEnd(c, event)
      PROVE  Unused' /\ CallShape'
  <2>1. /\ UNCHANGED <<call, connection, request, dialled, asked, disconnect_requested, slot,
                       frames>>
        /\ c \in attached /\ open' = open \ {c} /\ attached' = attached \ {c}
    BY <1>2 DEF ReadEnd, Reading, clientVars, pendingVars, serverVars
  <2>2. (state' = state \/ state' # "Connected") /\ heartbeat' \in {0, heartbeat}
    BY <1>2 DEF ReadEnd, OnClose, HandleClose, coreVars
  <2>3. call'.step = "attach" => dialled \in open'
    BY <2>1 DEF Unused
  <2> QED
    BY <1>s, <2>1, <2>2, <2>3, UnusedKept, CallLeft
<1>3. CASE HeartbeatCloses
  <2>1. /\ UNCHANGED <<call, connection, request, dialled, asked, disconnect_requested, slot,
                       frames>>
        /\ open' = open \ {heartbeat} /\ attached' = attached \ {heartbeat}
        /\ (state' = state \/ state' # "Connected") /\ heartbeat' \in {0, heartbeat}
    BY <1>3, TransportLeaves DEF HeartbeatCloses, clientVars, pendingVars, serverVars
  <2>2. call'.step = "attach" => dialled \in open'
    BY <2>1 DEF Unused
  <2> QED
    BY <1>s, <2>1, <2>2, UnusedKept, CallLeft
<1>4. CASE Connect
  <2>1. /\ UNCHANGED <<connection, request, dialled, asked, disconnect_requested, frames>>
        /\ call' = [step |-> "stale", for |-> "connect", conn |-> 0]
        /\ state' # "Connected"
    BY <1>4 DEF Connect, pendingVars, netVars, serverVars, taskVars
  <2> QED
    BY <1>s, <2>1, UnusedKept DEF CallShape
<1>5. CASE Request
  <2>1. /\ UNCHANGED <<connection, dialled, asked, disconnect_requested, frames>>
        /\ call' = [step |-> "send_frame", for |-> "request", conn |-> 0]
        /\ request' = request + 1
    BY <1>5 DEF Request, netVars, serverVars, taskVars
  <2>2. request' # 0
    BY <2>1, ClientAssumption DEF ClientTypeOK, Requests
  <2> QED
    BY <1>s, <2>1, <2>2, UnusedKept DEF CallShape
<1>6. CASE Disconnect
  <2>1. /\ UNCHANGED <<request, dialled, asked, frames>> /\ disconnect_requested'
        /\ call' = [step |-> "close", for |-> "disconnect", conn |-> connection]
    BY <1>6 DEF Disconnect, pendingVars, serverVars, taskVars
  <2> QED
    BY <1>s, <2>1, UnusedKept DEF CallShape
<1>7. CASE NegotiationTimeout \/ RequestTimeout
  <2>1. UNCHANGED <<request, dialled, asked, frames>> /\ call' = Idle
    BY <1>7 DEF NegotiationTimeout, RequestTimeout, pendingVars, netVars, serverVars, taskVars
  <2> QED
    BY <1>s, <2>1, UnusedKept DEF CallShape, Idle
<1> QED
  BY <1>1, <1>2, <1>3, <1>4, <1>5, <1>6, <1>7 DEF Environment

\* Each step of the call finds what the one before it left.
LEMMA CallStepShape ==
  ASSUME ClientTypeOK, Unused, KickOnce, CallShape, CallStep
  PROVE  Unused' /\ CallShape'
<1>s. ASSUME frames' = frames  PROVE FramesGo
  BY <1>s DEF FramesGo
<1>n. /\ {slot, heartbeat, connection} \subseteq 0 .. dialled /\ dialled \in Nat
      /\ attached \subseteq open
      /\ \A c \in open \cup asked : c \in 1 .. dialled
  <2>1. {slot, heartbeat, connection} \subseteq 0 .. dialled /\ dialled \in Nat
    BY ClientAssumption DEF ClientTypeOK
  <2>2. attached \subseteq open /\ \A c \in open \cup asked : c \in 1 .. dialled
    BY DEF ClientTypeOK
  <2> QED
    BY <2>1, <2>2
<1>c. call \in Calls
  BY DEF ClientTypeOK
\* The call goes on, or ends.
<1>g. ASSUME NEW s, Goto(s)
      PROVE  call'.step = s /\ call'.for = call.for /\ call'.conn = call.conn
  BY <1>c, <1>g DEF Goto, Calls
<1>1. CASE CloseStale
  <2>1. /\ UNCHANGED <<request, dialled, asked, disconnect_requested, frames>>
        /\ state' = state \/ state' # "Connected"
        /\ call'.step = "dial" /\ call'.for = call.for
    BY <1>1, <1>g, TransportLeaves DEF CloseStale, pendingVars, serverVars
  <2>2. state # "Connected"
    BY <1>1 DEF CloseStale, CallShape
  <2> QED
    BY <1>s, <2>1, <2>2, UnusedKept DEF CallShape
<1>2. CASE Dial
  <2>1. /\ dialled' = dialled + 1 /\ open' = open \cup {dialled + 1}
        /\ call' = [call EXCEPT !.step = "attach", !.conn = dialled + 1]
        /\ UNCHANGED <<state, request, asked, disconnect_requested, frames, slot, heartbeat,
                       connection, attached>>
    BY <1>2 DEF Dial, coreVars, pendingVars, serverVars, taskVars
  <2>2. call'.step = "attach" /\ call'.conn = dialled + 1 /\ call'.for = call.for
    BY <2>1, <1>c DEF Calls
  <2>3. /\ dialled + 1 \notin {slot, heartbeat, connection} \cup attached
        /\ dialled + 1 \notin asked /\ dialled + 1 \in 1 .. dialled + 1
    BY <1>n
  <2>4. \A t \in frames : t.target \in 0 .. dialled + 1 /\ t.target # dialled + 1
    BY <1>n DEF Unused
  <2>5. Unused'
    BY <2>1, <2>2, <2>3, <2>4 DEF Unused
  <2>6. state # "Connected"
    BY <1>2 DEF Dial, CallShape
  <2> QED
    BY <2>1, <2>2, <2>3, <2>5, <2>6 DEF CallShape
<1>r. ASSUME NEW what \in {"reconnect", "request"}, TryReconnect(what)
      PROVE  \/ state' = "Failed" /\ call' = Idle
             \/ state' = "Connecting" /\ call'.step = "stale" /\ call'.for = what
  BY <1>r DEF TryReconnect
<1>3. CASE DialFails \/ SendConnectFails
  <2>1. UNCHANGED <<request, dialled, asked, disconnect_requested, frames>>
    BY <1>3 DEF DialFails, SendConnectFails, pendingVars, netVars, serverVars, taskVars
  <2>2. /\ state' # "Connected"
        /\ call' = Idle \/ (call'.step = "stale" /\ call'.for = "reconnect")
    BY <1>3, <1>r DEF DialFails, SendConnectFails, ConnectFails
  <2> QED
    BY <1>s, <2>1, <2>2, UnusedKept DEF CallShape, Idle
<1>4. CASE Attach
  <2>1. /\ UNCHANGED <<request, dialled, asked, disconnect_requested, frames>>
        /\ call.step = "attach" /\ call'.step = "send_connect" /\ call'.for = call.for
        /\ call'.conn = call.conn
    BY <1>4, <1>g DEF Attach, pendingVars, serverVars
  <2> QED
    BY <1>s, <2>1, UnusedKept DEF CallShape
<1>5. CASE SendConnect
  <2>1. /\ UNCHANGED <<request, dialled, disconnect_requested, frames>>
        /\ call.step = "send_connect" /\ call'.step = "finish" /\ call'.for = call.for
        /\ call'.conn = call.conn /\ connection' = call.conn
    BY <1>5, <1>g DEF SendConnect, pendingVars, netVars, taskVars
  <2> QED
    BY <1>s, <2>1, UnusedKept DEF CallShape
<1>6. CASE ConnectFinishes
  <2>1. /\ UNCHANGED <<request, dialled, disconnect_requested, frames, asked, connection>>
        /\ call.step = "finish" /\ call'.for = call.for /\ call'.conn = call.conn
        /\ call'.step = IF call.for = "request" THEN "send" ELSE "negotiate"
    BY <1>6, <1>g DEF ConnectFinishes, pendingVars, netVars, serverVars, taskVars
  <2> QED
    BY <1>s, <2>1, UnusedKept DEF CallShape
<1>7. CASE Negotiated \/ SendFails \/ RequestEnds
  <2>1. UNCHANGED <<request, dialled, asked, frames>> /\ call' = Idle
    BY <1>7 DEF Negotiated, SendFails, RequestEnds, pendingVars, netVars, serverVars, taskVars
  <2> QED
    BY <1>s, <2>1, UnusedKept DEF CallShape, Idle
<1>8. CASE SendFrame
  <2>1. UNCHANGED <<request, dialled, asked, disconnect_requested, frames>>
    BY <1>8 DEF SendFrame, pendingVars, netVars, serverVars, taskVars
  <2>2. call.for = "request" /\ request # 0
    BY <1>8 DEF SendFrame, CallShape
  <2>3. \/ state' # "Connected" /\ (call' = Idle \/ (call'.step = "stale" /\ call'.for = "request"))
        \/ call'.step = "send" /\ call'.for = call.for
    BY <1>8, <1>r, <1>g DEF SendFrame
  <2> QED
    BY <1>s, <2>1, <2>2, <2>3, UnusedKept DEF CallShape, Idle
<1>9. CASE SendRequest
  <2>1. /\ UNCHANGED <<request, dialled, asked, frames>>
        /\ call.step = "send" /\ call'.step = "await" /\ call'.for = call.for
    BY <1>9, <1>g DEF SendRequest, pendingVars, netVars, taskVars
  <2> QED
    BY <1>s, <2>1, UnusedKept DEF CallShape
<1>10. CASE DisconnectCloses
  <2>1. /\ UNCHANGED <<request, dialled, asked, disconnect_requested, frames>>
        /\ call.step = "close" /\ call'.step = "end" /\ call'.for = call.for
    BY <1>10, <1>g, TransportLeaves DEF DisconnectCloses, pendingVars, serverVars
  <2> QED
    BY <1>s, <2>1, UnusedKept DEF CallShape
<1>11. CASE DisconnectEnds
  <2>1. UNCHANGED <<dialled, frames>> /\ call' = Idle
    BY <1>11 DEF DisconnectEnds, netVars
  <2> QED
    BY <1>s, <2>1, UnusedKept DEF CallShape, Idle
<1> QED
  BY <1>1, <1>2, <1>3, <1>4, <1>5, <1>6, <1>7, <1>8, <1>9, <1>10, <1>11 DEF CallStep

\* Together: every step of the client.
LEMMA ShapeNext ==
  ASSUME ClientTypeOK, Unused, KickOnce, CallShape, Next
  PROVE  Unused' /\ CallShape'
BY TasksShape, EnvironmentShape, CallStepShape DEF Next

-----------------------------------------------------------------------------
(* A kick is told once.                                                    *)

\* A report of the kick that is pending, or of none, keeps the order queued,
\* pending, told.
LEMMA KickMoveKeeps ==
  ASSUME ClientTypeOK, KickOnce, KickToldOnce, KickMove
  PROVE  KickOnce' /\ KickToldOnce'
<1>1. /\ \A u \in frames' : \E t \in frames : u.conn = t.conn /\ u.kind = t.kind
      /\ \A u \in frames' : Waiting(u) => u \in frames
      /\ \A t, u \in frames' : t.kind = "kick" /\ u.kind = "kick" /\ t.conn = u.conn => t = u
  BY FramesFacts DEF KickMove
<1>2. asked \subseteq asked' /\ peer' = peer
  BY DEF KickMove
<1>3. \A t \in frames' :
        /\ t.conn \in asked'
        /\ t.kind = "kick" => peer'[t.conn] = "closing"
        /\ t.kind = "ack" => peer'[t.conn] \in {"acked", "closing"}
  BY <1>1, <1>2 DEF KickOnce
<1>4. CASE kicks' = kicks /\ pending_kick' \in {0, pending_kick}
  <2>1. \A t \in frames' : Waiting(t) => kicks'[t.conn] = 0 /\ (pending_kick' = 0 \/ pending_kick' # t.conn)
    BY <1>1, <1>4 DEF KickOnce
  <2>2. \A t \in frames : t.conn # 0
    BY ClientAssumption DEF ClientTypeOK, FrameTasks, Connections
  <2>3. \A t \in frames' : Waiting(t) => kicks'[t.conn] = 0 /\ pending_kick' # t.conn
    BY <1>1, <2>1, <2>2
  <2>4. pending_kick' # 0 => peer'[pending_kick'] = "closing" /\ kicks'[pending_kick'] = 0
    BY <1>2, <1>4 DEF KickOnce
  <2> QED
    BY <1>1, <1>2, <1>3, <1>4, <2>3, <2>4 DEF KickOnce, KickToldOnce
<1>5. CASE ReportClose
  <2>0. /\ kicks \in [Connections -> Nat] /\ pending_kick \in Connections \cup {0}
        /\ \A t \in frames : t.conn \in Connections /\ t.conn # 0
    BY ClientAssumption DEF ClientTypeOK, Connections, FrameTasks
  <2>1. CASE pending_kick = 0
    <3>1. kicks' = kicks /\ pending_kick' \in {0, pending_kick}
      BY <1>5, <2>1 DEF ReportClose
    <3> QED
      BY <3>1, <1>4
  <2>2. CASE pending_kick # 0
    <3>1. /\ pending_kick' = 0 /\ kicks' = [kicks EXCEPT ![pending_kick] = @ + 1]
      BY <1>5, <2>2 DEF ReportClose
    <3>2. \A c \in Connections : kicks'[c] = IF c = pending_kick THEN kicks[c] + 1 ELSE kicks[c]
      BY <2>0, <2>2, <3>1
    <3>3. peer[pending_kick] = "closing" /\ kicks[pending_kick] = 0
      BY <2>2 DEF KickOnce
    <3>4. KickToldOnce'
      BY <2>0, <3>2, <3>3 DEF KickToldOnce
    <3>5. \A t \in frames' : Waiting(t) => kicks'[t.conn] = 0 /\ pending_kick' # t.conn
      BY <1>1, <2>0, <3>1, <3>2 DEF KickOnce
    <3>6. \A c \in Connections : /\ kicks'[c] > 0 => peer'[c] = "closing"
                                 /\ c \notin asked' => peer'[c] = "silent"
      BY <1>2, <3>2, <3>3 DEF KickOnce
    <3> QED
      BY <1>1, <1>3, <3>1, <3>4, <3>5, <3>6 DEF KickOnce
  <2> QED
    BY <2>1, <2>2
<1> QED
  BY <1>4, <1>5 DEF KickMove

\* A kick is counted where it is queued, pending or reported, once.
LEMMA KickOnceNext ==
  ASSUME ClientTypeOK, KickOnce, KickToldOnce, Next
  PROVE  KickOnce' /\ KickToldOnce'
<1>1. ASSUME NEW c \in Connections, NEW kind \in ServerSends, NEW r \in Requests \cup {0},
             ReadFrame(c, kind, r)
      PROVE  KickOnce' /\ KickToldOnce'
  <2> DEFINE new == [conn |-> c, kind |-> kind, req |-> r, negotiated |-> negotiated,
                     plain |-> Plain(c, kind), step |-> "queued", target |-> 0,
                     notify |-> FALSE]
  <2>1. /\ frames' = frames \cup {new} /\ MaySend(c, kind)
        /\ peer' = [peer EXCEPT ![c] = PeerAfter(c, kind)]
        /\ UNCHANGED <<pending_kick, kicks, asked>>
    BY <1>1 DEF ReadFrame, kickVars
  <2>2. new.conn = c /\ new.kind = kind
    OBVIOUS
  <2> HIDE DEF new
  <2>3. c \in asked /\ (kind \in Kinds) /\ peer \in [Connections -> {"silent", "acked", "rejected", "closing"}]
    BY <2>1, ClientAssumption DEF MaySend, ClientTypeOK
  <2>4. peer[c] # "closing"
    BY <2>1, <2>3 DEF MaySend, Kinds
  <2>5. \A d \in Connections : peer'[d] = IF d = c THEN PeerAfter(c, kind) ELSE peer[d]
    BY <2>1, <2>3
  <2>6. /\ kind = "kick" => PeerAfter(c, kind) = "closing"
        /\ kind = "ack" => PeerAfter(c, kind) = "acked"
        /\ peer[c] = "acked" => PeerAfter(c, kind) \in {"acked", "closing"}
    BY <2>1, <2>3 DEF PeerAfter, MaySend, Kinds
  <2>7. \A t \in frames : t.conn \in Connections
    BY DEF ClientTypeOK, FrameTasks
  <2>8. kicks[c] = 0 /\ pending_kick # c /\ (\A t \in frames : t.kind = "kick" => t.conn # c)
    <3>1. c # 0 /\ kicks[c] \in Nat
      BY ClientAssumption DEF ClientTypeOK, Connections
    <3>2. ~(kicks[c] > 0)
      BY <2>4 DEF KickOnce
    <3>3. pending_kick # c
      BY <2>4, <3>1 DEF KickOnce
    <3>4. \A t \in frames : t.kind = "kick" => t.conn # c
      BY <2>4 DEF KickOnce
    <3> QED
      BY <3>1, <3>2, <3>3, <3>4
  <2>9. pending_kick \in Connections \cup {0}
    BY ClientAssumption DEF ClientTypeOK, Connections
  <2>10. \A t \in frames' : /\ t.conn \in asked'
                            /\ t.kind = "kick" => peer'[t.conn] = "closing"
                            /\ t.kind = "ack" => peer'[t.conn] \in {"acked", "closing"}
    BY <2>1, <2>2, <2>3, <2>4, <2>5, <2>6, <2>7 DEF KickOnce
  <2>11. \A t \in frames' : Waiting(t) => kicks'[t.conn] = 0 /\ pending_kick' # t.conn
    BY <2>1, <2>2, <2>8 DEF KickOnce
  <2>12. \A t, u \in frames' : t.kind = "kick" /\ u.kind = "kick" /\ t.conn = u.conn => t = u
    BY <2>1, <2>2, <2>8 DEF KickOnce
  <2>13. pending_kick' # 0 => peer'[pending_kick'] = "closing" /\ kicks'[pending_kick'] = 0
    BY <2>1, <2>5, <2>8, <2>9 DEF KickOnce
  <2>14. \A d \in Connections : /\ kicks'[d] > 0 => peer'[d] = "closing"
                                /\ d \notin asked' => peer'[d] = "silent"
    BY <2>1, <2>3, <2>5, <2>8 DEF KickOnce
  <2> QED
    BY <2>1, <2>10, <2>11, <2>12, <2>13, <2>14 DEF KickOnce, KickToldOnce
<1>2. ASSUME NEW t \in frames, NEW ends \in BOOLEAN, HandleKicked(t, ends)
      PROVE  KickOnce' /\ KickToldOnce'
  <2>1. /\ UNCHANGED <<kicks, peer, asked>> /\ Waiting(t)
        /\ pending_kick' \in {pending_kick, t.conn}
    BY <1>2 DEF HandleKicked, serverVars, Waiting
  <2>2. FramesGo
    BY <1>2, FrameStepGoes DEF FrameStep
  <2>3. /\ \A u \in frames' : \E v \in frames : u.conn = v.conn /\ u.kind = v.kind
        /\ \A u \in frames' : Waiting(u) => u \in frames
        /\ \A v, u \in frames' : v.kind = "kick" /\ u.kind = "kick" /\ v.conn = u.conn => v = u
    BY <2>2, FramesFacts
  <2>4. \A u \in frames' : Waiting(u) => u # t
    <3>1. t \in FrameTasks
      BY DEF ClientTypeOK
    <3> DEFINE n == t.negotiated /\ ~disconnect_requested
    <3> DEFINE w == [t EXCEPT !.step = "closing", !.target = slot, !.notify = n]
    <3>2. frames' = (frames \ {t}) \cup {w}
      BY <1>2 DEF HandleKicked
    <3>3. w.step = "closing"
      BY <3>1 DEF FrameTasks
    <3> HIDE DEF w
    <3> QED
      BY <3>2, <3>3 DEF Waiting
  <2>5. \A u \in frames' : /\ u.conn \in asked'
                           /\ u.kind = "kick" => peer'[u.conn] = "closing"
                           /\ u.kind = "ack" => peer'[u.conn] \in {"acked", "closing"}
    BY <2>1, <2>3 DEF KickOnce
  <2>6. \A u \in frames' : Waiting(u) => u.conn # t.conn
    BY <2>1, <2>3, <2>4 DEF KickOnce, Waiting
  <2>7. \A u \in frames' : Waiting(u) => kicks'[u.conn] = 0 /\ pending_kick' # u.conn
    BY <2>1, <2>3, <2>6 DEF KickOnce
  <2>8. pending_kick' # 0 => peer'[pending_kick'] = "closing" /\ kicks'[pending_kick'] = 0
    BY <2>1 DEF KickOnce, Waiting
  <2> QED
    BY <2>1, <2>3, <2>5, <2>7, <2>8 DEF KickOnce, KickToldOnce
<1> QED
  BY <1>1, <1>2, KickMoves, KickMoveKeeps

-----------------------------------------------------------------------------
(* The order of what is told.                                              *)

\* A report adds the kick that was pending, or a close where no kick was
\* reported before, or nothing.
LEMMA ReportAdds ==
  ASSUME ClientTypeOK, ReportClose
  PROVE  /\ pending_kick' = 0
         /\ \/ /\ pending_kick # 0 /\ kick_reported'
               /\ told' = Append(told, "kick")
            \/ /\ pending_kick = 0 /\ kick_reported' = kick_reported
               /\ kick_reported /\ ~disconnect_requested /\ told' = told
            \/ /\ pending_kick = 0 /\ kick_reported' = kick_reported
               /\ ~kick_reported \/ disconnect_requested
               /\ told' = Append(told, "closed")
BY DEF ReportClose, ClientTypeOK

\* What is told is appended: every earlier report stays where it was.
LEMMA Appended ==
  ASSUME NEW S, NEW s \in Seq(S), NEW w
  PROVE  /\ \A i \in DOMAIN Append(s, w) :
              \/ i \in DOMAIN s /\ Append(s, w)[i] = s[i]
              \/ i = Len(s) + 1 /\ Append(s, w)[i] = w
         /\ DOMAIN s = 1 .. Len(s) /\ Len(s) \in Nat
         /\ Append(s, w) # <<>>
OBVIOUS

\* A reported close comes after the kick that was pending, and ends the telling.
LEMMA ReportInOrder ==
  ASSUME ClientTypeOK, ToldInOrder, ReportClose,
         request' = request, disconnect_requested' = disconnect_requested, late => late',
         ~late /\ request = 0 /\ Told("closed") => pending_kick = 0
  PROVE  /\ ToldInOrder'
         /\ Told("closed")' => \/ Told("closed")
                               \/ pending_kick = 0 /\ (~kick_reported \/ disconnect_requested)
         /\ told' = <<>> => told = <<>> /\ kick_reported
<1>1. told \in Seq({"kick", "closed"})
  BY DEF ClientTypeOK
<1>2. CASE told' = told /\ kick_reported' = kick_reported /\ kick_reported
  BY <1>2 DEF ToldInOrder, KickIsLast, KickFirst, Told
<1>3. CASE pending_kick # 0 /\ kick_reported' /\ told' = Append(told, "kick")
  <2>1. /\ \A i \in DOMAIN told' :
             \/ i \in DOMAIN told /\ told'[i] = told[i]
             \/ i = Len(told) + 1 /\ told'[i] = "kick"
        /\ DOMAIN told = 1 .. Len(told) /\ Len(told) \in Nat /\ told' # <<>>
    BY <1>1, <1>3, Appended
  <2>2. Told("closed")' => Told("closed")
    BY <2>1 DEF Told
  <2>3. KickIsLast'
    BY <2>1 DEF ToldInOrder, KickIsLast
  <2>4. KickFirst'
    <3> SUFFICES ASSUME ~late', request' = 0, NEW i \in DOMAIN told', NEW j \in DOMAIN told',
                        i < j, told'[i] = "closed"
                 PROVE  told'[j] # "kick"
      BY DEF KickFirst
    <3>1. Told("closed")
      BY <2>1 DEF Told
    <3> QED
      BY <1>3, <3>1
  <2> QED
    BY <1>3, <2>1, <2>2, <2>3, <2>4 DEF ToldInOrder
<1>4. CASE /\ pending_kick = 0 /\ kick_reported' = kick_reported
           /\ ~kick_reported \/ disconnect_requested
           /\ told' = Append(told, "closed")
  <2>1. /\ \A i \in DOMAIN told' :
             \/ i \in DOMAIN told /\ told'[i] = told[i]
             \/ i = Len(told) + 1 /\ told'[i] = "closed"
        /\ DOMAIN told = 1 .. Len(told) /\ Len(told) \in Nat /\ told' # <<>>
    BY <1>1, <1>4, Appended
  <2>2. Told("kick")' => Told("kick")
    BY <2>1 DEF Told
  <2>3. KickFirst'
    BY <2>1 DEF ToldInOrder, KickFirst
  <2>4. KickIsLast'
    <3> SUFFICES ASSUME ~disconnect_requested', NEW i \in DOMAIN told', NEW j \in DOMAIN told',
                        i < j, told'[i] = "kick"
                 PROVE  told'[j] # "closed"
      BY DEF KickIsLast
    <3>1. Told("kick")
      BY <2>1 DEF Told
    <3> QED
      BY <1>4, <3>1 DEF ToldInOrder
  <2> QED
    BY <1>4, <2>1, <2>2, <2>3, <2>4 DEF ToldInOrder
<1> QED
  BY <1>2, <1>3, <1>4, ReportAdds

\* Nothing is told anew.
LEMMA OrderLeft ==
  ASSUME ToldInOrder, told' = told, kick_reported => kick_reported', late => late',
         request' = request \/ request' # 0, disconnect_requested => disconnect_requested'
  PROVE  ToldInOrder'
BY DEF ToldInOrder, KickIsLast, KickFirst, Told

-----------------------------------------------------------------------------
(* Who can still change what is told: one lemma for each kind of step.     *)

\* Where no kick can come any more, moving frame tasks bring none.
LEMMA NoKickKept ==
  ASSUME KickOnce, FramesGo, NoKickLeft, attached' \subseteq attached, peer' = peer,
         asked' = asked
  PROVE  NoKickLeft'
<1>1. \A u \in frames' : Waiting(u) => u \in frames
  BY FramesFacts
<1> QED
  BY <1>1 DEF NoKickLeft

\* The step of a call whose connection is not settled yet.
Settling == {"send_connect", "finish", "negotiate"}

\* A step that tells nothing, reads nothing and puts nothing off: a frame task
\* that goes on, a call that goes on or ends, a connection that is dropped.
LEMMA QuietStep ==
  ASSUME KickOnce, Ordered, FramesGo, attached' \subseteq attached,
         UNCHANGED <<negotiated, pending_kick, kick_reported, told, peer, asked, deferred, late>>,
         failure' = failure \/ (failure = "none" /\ failure' = "rejected"),
         request' = request \/ request' # 0,
         disconnect_requested => disconnect_requested',
         (call' = call /\ state' = state) \/ call'.step \notin Settling,
         \/ state' = state
         \/ state # "Connected" /\ state' # "Connected"
         \/ request' # 0 \/ disconnect_requested' \/ (~late => NoKickLeft)
  PROVE  Ordered'
<1>0. Current /\ Spent /\ Heard /\ Rejected /\ ToldInOrder
  BY DEF Ordered
<1>1. /\ \A u \in frames' : \E t \in frames : u.conn = t.conn
      /\ \A u \in frames' : Waiting(u) => u \in frames
      /\ frames = {} => frames' = {}
  BY FramesFacts
<1>2. NoKickLeft => NoKickLeft'
  BY NoKickKept
<1>3. Current'
  <2> SUFFICES ASSUME ~late' PROVE Current'
    BY DEF Current
  <2>1. /\ \A a, b \in attached' : a = b
        /\ \A t \in frames' : \A a \in attached' : t.conn = a
        /\ \A t, u \in frames' : t.conn = u.conn
        /\ deferred' # {} => attached' = {}
        /\ negotiated' => \A a \in attached' : peer'[a] \in {"acked", "closing"}
        /\ \A d \in deferred' : peer'[d.conn] \in {"acked", "closing"}
    BY <1>0, <1>1 DEF Current
  <2>2. CASE call'.step \notin Settling
    BY <2>1, <2>2 DEF Current, Settling
  <2>3. CASE call' = call /\ state' = state
    <3>1. call'.step = "send_connect" =>
            /\ frames' = {} /\ deferred' = {} /\ attached' \subseteq {call'.conn}
            /\ pending_kick' = 0 /\ ~kick_reported'
            /\ state' = "Connected" \/ (told' # <<>> /\ attached' = {})
      BY <1>0, <1>1, <2>3 DEF Current
    <3>2. call'.step \in {"finish", "negotiate"} =>
            /\ attached' \subseteq {call'.conn}
            /\ \A t \in frames' : t.conn = call'.conn
            /\ \A d \in deferred' : d.conn = call'.conn
      BY <1>0, <1>1, <2>3 DEF Current
    <3> QED
      BY <2>1, <3>1, <3>2 DEF Current
  <2> QED
    BY <2>2, <2>3
<1>4. Spent'
  <2>1. ~late' /\ (kick_reported' \/ pending_kick' # 0) => NoKickLeft'
    BY <1>0, <1>2 DEF Spent
  <2>2. ASSUME ~late', request' = 0, ~disconnect_requested', told' = <<>>
        PROVE  /\ state' # "Connected" => NoKickLeft'
               /\ \A t \in frames' : Notable(t) => negotiated'
    BY <1>0, <1>1, <1>2, <2>2 DEF Spent, Notable
  <2> QED
    BY <2>1, <2>2 DEF Spent
<1>5. Heard'
  <2> SUFFICES ASSUME ~late', request' = 0, Told("closed")'
               PROVE  /\ pending_kick' = 0
                      /\ \/ disconnect_requested'
                         \/ attached' = {} /\ \A t \in frames' : ~Notable(t)
    BY DEF Heard
  <2>1. /\ pending_kick = 0
        /\ \/ disconnect_requested
           \/ attached = {} /\ \A t \in frames : ~Notable(t)
    BY <1>0 DEF Heard, Told
  <2> QED
    BY <1>1, <2>1 DEF Notable
<1>6. Rejected'
  <2> SUFFICES ASSUME ~late' PROVE Rejected'
    BY DEF Rejected
  <2>1. attached' # {} => failure' # "closed"
    BY <1>0 DEF Rejected
  <2>2. CASE call'.step \notin Settling
    BY <2>1, <2>2 DEF Rejected, Settling
  <2>3. CASE call' = call /\ state' = state
    BY <1>0, <2>1, <2>3 DEF Rejected
  <2> QED
    BY <2>2, <2>3
<1>7. ToldInOrder'
  BY <1>0, OrderLeft
<1> QED
  BY <1>3, <1>4, <1>5, <1>6, <1>7 DEF Ordered

\* A close that is handled: it is of the one connection there was, or of a
\* client that is disconnecting.
LEMMA CloseStep ==
  ASSUME ClientTypeOK, KickOnce, Ordered, FramesGo, NEW event, HandleClose(event),
         attached' \subseteq attached, deferred' \subseteq deferred,
         UNCHANGED <<peer, asked, request, disconnect_requested>>, late => late',
         call' = call \/ call'.step \notin Settling,
         ~late' => attached' = {} \/ (disconnect_requested /\ call'.step \notin Settling),
         ~late' => \/ disconnect_requested \/ frames = {}
                   \/ state # "Connected" \/ ~negotiated,
         ~late' /\ call' = call /\ call.step \in {"finish", "negotiate"}
           /\ peer[call.conn] = "rejected" => failure = "rejected"
  PROVE  Ordered'
<1>0. Current /\ Spent /\ Heard /\ Rejected /\ ToldInOrder
  BY DEF Ordered
<1>1. /\ \A u \in frames' : \E t \in frames : u.conn = t.conn
      /\ \A u \in frames' : Waiting(u) => u \in frames
      /\ frames = {} => frames' = {}
  BY FramesFacts
<1>2. NoKickLeft => NoKickLeft'
  BY NoKickKept
<1>3. ReportClose /\ state' # "Connected" /\ negotiated' = FALSE
  BY DEF HandleClose
<1>4. /\ failure' = failure \/ (failure = "none" /\ ClosedDuringNegotiation)
  BY DEF HandleClose
<1>5. /\ ToldInOrder'
      /\ Told("closed")' => \/ Told("closed")
                            \/ pending_kick = 0 /\ (~kick_reported \/ disconnect_requested)
      /\ told' = <<>> => told = <<>> /\ kick_reported
  BY <1>0, <1>3, ReportInOrder DEF Heard
<1>6. /\ pending_kick' = 0
      /\ kick_reported' => kick_reported \/ pending_kick # 0
  BY <1>3, ReportAdds
<1>7. Current'
  <2> SUFFICES ASSUME ~late' PROVE Current'
    BY DEF Current
  <2>1. /\ \A a, b \in attached' : a = b
        /\ \A t \in frames' : \A a \in attached' : t.conn = a
        /\ \A t, u \in frames' : t.conn = u.conn
        /\ deferred' # {} => attached' = {}
        /\ negotiated' => \A a \in attached' : peer'[a] \in {"acked", "closing"}
        /\ \A d \in deferred' : peer'[d.conn] \in {"acked", "closing"}
    BY <1>0, <1>1, <1>3 DEF Current
  <2>2. CASE call'.step \notin Settling
    BY <2>1, <2>2 DEF Current, Settling
  <2>3. CASE call' = call /\ call.step \in Settling
    <3>0. attached' = {}
      BY <2>3
    <3>1. call'.step = "send_connect" =>
            /\ frames' = {} /\ deferred' = {} /\ attached' \subseteq {call'.conn}
            /\ pending_kick' = 0 /\ ~kick_reported'
            /\ state' = "Connected" \/ (told' # <<>> /\ attached' = {})
      BY <1>0, <1>1, <1>5, <1>6, <2>3, <3>0 DEF Current
    <3>2. call'.step \in {"finish", "negotiate"} =>
            /\ attached' \subseteq {call'.conn}
            /\ \A t \in frames' : t.conn = call'.conn
            /\ \A d \in deferred' : d.conn = call'.conn
      BY <1>0, <1>1, <2>3 DEF Current
    <3> QED
      BY <2>1, <3>1, <3>2 DEF Current
  <2> QED
    BY <2>2, <2>3
<1>8. Spent'
  <2>1. ~late' /\ (kick_reported' \/ pending_kick' # 0) => NoKickLeft'
    BY <1>0, <1>2, <1>6 DEF Spent
  <2>2. ~late' /\ told' = <<>> => NoKickLeft'
    BY <1>0, <1>2, <1>5 DEF Spent
  <2> QED
    BY <2>1, <2>2 DEF Spent, NoKickLeft, Notable
<1>9. Heard'
  <2> SUFFICES ASSUME ~late', request' = 0, Told("closed")', ~disconnect_requested
               PROVE  attached' = {} /\ \A t \in frames' : ~Notable(t)
    BY <1>6 DEF Heard
  <2>1. attached' = {}
    OBVIOUS
  <2>2. CASE Told("closed")
    BY <1>0, <1>1, <2>1, <2>2 DEF Heard, Notable
  <2>3. CASE pending_kick = 0 /\ ~kick_reported /\ ~Told("closed")
    <3>1. told \in Seq({"kick", "closed"}) /\ ~Told("kick")
      BY <1>0, <2>3 DEF ToldInOrder, ClientTypeOK
    <3>2. told = <<>>
      BY <3>1, <2>3 DEF Told
    <3>3. /\ state # "Connected" => NoKickLeft
          /\ \A t \in frames : Notable(t) => negotiated
      BY <1>0, <3>2 DEF Spent
    <3>4. frames = {} \/ state # "Connected" \/ ~negotiated
      OBVIOUS
    <3> QED
      BY <1>1, <2>1, <3>3, <3>4 DEF NoKickLeft, Notable
  <2> QED
    BY <1>5, <2>2, <2>3
<1>10. Rejected'
  <2> SUFFICES ASSUME ~late' PROVE Rejected'
    BY DEF Rejected
  <2>1. attached' # {} => failure' # "closed"
    BY <1>0, <1>4 DEF Rejected, ClosedDuringNegotiation
  <2>2. CASE call'.step \notin Settling
    BY <2>1, <2>2 DEF Rejected, Settling
  <2>3. CASE call' = call /\ call.step \in Settling
    BY <1>4, <2>1, <2>3 DEF Rejected, Settling
  <2> QED
    BY <2>2, <2>3
<1> QED
  BY <1>5, <1>7, <1>8, <1>9, <1>10 DEF Ordered

\* A close that is put off.
LEMMA PutOffStep ==
  ASSUME ClientTypeOK, KickOnce, Ordered, FramesGo, NEW c \in attached, NEW event, ShouldDefer,
         deferred' = deferred \cup {[conn |-> c, event |-> event]}, attached' = attached \ {c},
         UNCHANGED <<state, negotiated, failure, pending_kick, kick_reported, told,
                     peer, asked, request, disconnect_requested, late>>,
         call' = call \/ call'.step \notin Settling
  PROVE  Ordered'
<1>0. Current /\ Spent /\ Heard /\ Rejected /\ ToldInOrder
  BY DEF Ordered
<1>1. /\ \A u \in frames' : \E t \in frames : u.conn = t.conn
      /\ \A u \in frames' : Waiting(u) => u \in frames
      /\ frames # {} /\ negotiated
  BY FramesFacts DEF ShouldDefer
<1>2. NoKickLeft => NoKickLeft'
  BY NoKickKept
<1>3. Current'
  <2> SUFFICES ASSUME ~late' PROVE Current'
    BY DEF Current
  <2>0. attached' = {} /\ peer[c] \in {"acked", "closing"}
    BY <1>0, <1>1 DEF Current
  <2>d. \A d \in deferred' : d.conn = c \/ d \in deferred
    OBVIOUS
  <2>1. /\ \A a, b \in attached' : a = b
        /\ \A t \in frames' : \A a \in attached' : t.conn = a
        /\ \A t, u \in frames' : t.conn = u.conn
        /\ deferred' # {} => attached' = {}
        /\ negotiated' => \A a \in attached' : peer'[a] \in {"acked", "closing"}
        /\ \A d \in deferred' : peer'[d.conn] \in {"acked", "closing"}
    BY <1>0, <1>1, <2>0, <2>d DEF Current
  <2>2. CASE call'.step \notin Settling
    BY <2>1, <2>2 DEF Current, Settling
  <2>3. CASE call' = call
    <3>1. call'.step # "send_connect"
      BY <1>0, <1>1, <2>3 DEF Current
    <3>2. call'.step \in {"finish", "negotiate"} =>
            /\ attached' \subseteq {call'.conn}
            /\ \A t \in frames' : t.conn = call'.conn
            /\ \A d \in deferred' : d.conn = call'.conn
      BY <1>0, <1>1, <2>0, <2>d, <2>3 DEF Current
    <3> QED
      BY <2>1, <3>1, <3>2 DEF Current
  <2> QED
    BY <2>2, <2>3
<1>4. Spent'
  BY <1>0, <1>1, <1>2 DEF Spent, Notable
<1>5. Heard'
  BY <1>0, <1>1 DEF Heard, Told, Notable
<1>6. Rejected'
  BY <1>0 DEF Rejected, Settling
<1>7. ToldInOrder'
  BY <1>0, OrderLeft
<1> QED
  BY <1>3, <1>4, <1>5, <1>6, <1>7 DEF Ordered

\* A transport that ends: what its close comes to.
LEMMA EndStep ==
  ASSUME ClientTypeOK, KickOnce, Ordered, FramesGo, NEW c \in attached, NEW event,
         OnClose(c, event), attached' = attached \ {c},
         UNCHANGED <<peer, asked, request, disconnect_requested, late>>,
         call' = call \/ call'.step \notin Settling
  PROVE  Ordered'
<1>0. Current /\ Rejected
  BY DEF Ordered
<1>1. CASE ShouldDefer
  <2>1. /\ deferred' = deferred \cup {[conn |-> c, event |-> event]}
        /\ UNCHANGED <<state, negotiated, failure, pending_kick, kick_reported, told>>
    BY <1>1 DEF OnClose, coreVars, negotiationVars, kickVars
  <2> QED
    BY <1>1, <2>1, PutOffStep
<1>2. CASE ~ShouldDefer
  <2>1. HandleClose(event) /\ deferred' = deferred
    BY <1>2 DEF OnClose
  <2>2. ~late' => attached' = {}
    BY <1>0 DEF Current
  <2>3. \/ disconnect_requested \/ frames = {} \/ state # "Connected" \/ ~negotiated
    BY <1>2 DEF ShouldDefer
  <2>4. ~late' /\ call' = call /\ call.step \in {"finish", "negotiate"}
          /\ peer[call.conn] = "rejected" => failure = "rejected"
    BY <1>0 DEF Rejected
  <2> QED
    BY <2>1, <2>2, <2>3, <2>4, CloseStep
<1> QED
  BY <1>1, <1>2

\* A close of a transport: reported, put off, or of one nobody listens to.
LEMMA TransportStep ==
  ASSUME ClientTypeOK, KickOnce, Ordered, FramesGo, NEW c, CloseTransport(c),
         UNCHANGED <<peer, asked, request, disconnect_requested, late>>,
         call' = call \/ call'.step \notin Settling
  PROVE  Ordered'
<1>1. attached' = attached \ {c}
  BY DEF CloseTransport
<1>2. CASE c \in attached
  BY <1>1, <1>2, EndStep DEF CloseTransport
<1>3. CASE c \notin attached
  <2>1. UNCHANGED <<state, negotiated, failure, pending_kick, kick_reported, told, deferred>>
    BY <1>3 DEF CloseTransport, coreVars, negotiationVars, kickVars
  <2> QED
    BY <1>1, <2>1, QuietStep
<1> QED
  BY <1>2, <1>3

-----------------------------------------------------------------------------
(* The steps that are none of these.                                       *)

\* CONNECT_ACK: what is read from now on is of a connection that has sent one.
LEMMA AckStep ==
  ASSUME ClientTypeOK, KickOnce, Ordered, NEW t \in frames, HandleAck(t)
  PROVE  Ordered'
<1>0. Current /\ Spent /\ Heard /\ Rejected /\ ToldInOrder
  BY DEF Ordered
<1>1. FramesGo
  BY FrameStepGoes DEF FrameStep
<1>2. /\ t.kind = "ack" /\ negotiated' = TRUE
      /\ UNCHANGED <<state, failure, pending_kick, kick_reported, told, peer, asked, deferred,
                     late, request, disconnect_requested, call, attached>>
  BY DEF HandleAck, kickVars, clientVars, pendingVars, netVars, serverVars
<1>3. /\ \A u \in frames' : \E v \in frames : u.conn = v.conn
      /\ \A u \in frames' : Waiting(u) => u \in frames
      /\ frames # {}
  BY <1>1, FramesFacts
<1>4. NoKickLeft => NoKickLeft'
  BY <1>1, <1>2, NoKickKept
<1>5. Current'
  <2> SUFFICES ASSUME ~late PROVE Current'
    BY <1>2 DEF Current
  <2>1. \A a \in attached' : peer'[a] \in {"acked", "closing"}
    BY <1>0, <1>2 DEF Current, KickOnce
  <2>2. call'.step # "send_connect"
    BY <1>0, <1>2, <1>3 DEF Current
  <2> QED
    BY <1>0, <1>2, <1>3, <2>1, <2>2 DEF Current
<1>6. Spent'
  BY <1>0, <1>2, <1>3, <1>4 DEF Spent, Notable
<1>7. Heard'
  BY <1>0, <1>2, <1>3 DEF Heard, Told, Notable
<1>8. Rejected'
  BY <1>0, <1>2 DEF Rejected
<1>9. ToldInOrder'
  BY <1>0, <1>2, OrderLeft
<1> QED
  BY <1>5, <1>6, <1>7, <1>8, <1>9 DEF Ordered

\* KICKED: it was the only one, and nothing comes behind it.
LEMMA KickedStep ==
  ASSUME ClientTypeOK, KickOnce, Ordered, NEW t \in frames, NEW ends \in BOOLEAN,
         HandleKicked(t, ends)
  PROVE  Ordered'
<1>0. Current /\ Spent /\ Heard /\ Rejected /\ ToldInOrder
  BY DEF Ordered
<1>1. FramesGo
  BY FrameStepGoes DEF FrameStep
<1>2. /\ Waiting(t) /\ state' = "Disconnected"
      /\ pending_kick' = pending_kick \/ (Notable(t) /\ ~disconnect_requested)
      /\ UNCHANGED <<negotiated, failure, kick_reported, told, peer, asked, deferred,
                     late, request, disconnect_requested, call, attached>>
  BY DEF HandleKicked, Waiting, Notable, negotiationVars, clientVars, pendingVars, netVars,
     serverVars
<1>3. /\ \A u \in frames' : \E v \in frames : u.conn = v.conn
      /\ \A u \in frames' : Waiting(u) => u \in frames
  BY <1>1, FramesFacts
<1>4. \A u \in frames' : Waiting(u) => u # t
  <2>1. t \in FrameTasks
    BY DEF ClientTypeOK
  <2> DEFINE n == t.negotiated /\ ~disconnect_requested
  <2> DEFINE w == [t EXCEPT !.step = "closing", !.target = slot, !.notify = n]
  <2>2. frames' = (frames \ {t}) \cup {w}
    BY DEF HandleKicked
  <2>3. w.step = "closing"
    BY <2>1 DEF FrameTasks
  <2> HIDE DEF w
  <2> QED
    BY <2>2, <2>3 DEF Waiting
<1>5. ~late => NoKickLeft'
  <2> SUFFICES ASSUME ~late PROVE NoKickLeft'
    OBVIOUS
  <2>1. \A u \in frames' : ~Waiting(u)
    BY <1>0, <1>2, <1>3, <1>4 DEF Current, KickOnce, Waiting
  <2>2. \A a \in attached' : peer'[a] = "closing"
    BY <1>0, <1>2 DEF Current, KickOnce, Waiting
  <2> QED
    BY <2>1, <2>2 DEF NoKickLeft
<1>6. Current'
  <2> SUFFICES ASSUME ~late PROVE Current'
    BY <1>2 DEF Current
  <2>1. call'.step # "send_connect"
    BY <1>0, <1>2 DEF Current
  <2> QED
    BY <1>0, <1>2, <1>3, <2>1 DEF Current
<1>7. Spent'
  BY <1>2, <1>5 DEF Spent, NoKickLeft, Notable
<1>8. Heard'
  BY <1>0, <1>2, <1>3 DEF Heard, Told, Notable
<1>9. Rejected'
  <2> SUFFICES ASSUME ~late PROVE Rejected'
    BY <1>2 DEF Rejected
  <2>1. call.step \in {"finish", "negotiate"} => peer[call.conn] = "closing"
    BY <1>0, <1>2 DEF Current, KickOnce, Waiting
  <2> QED
    BY <1>0, <1>2, <2>1 DEF Rejected
<1>10. ToldInOrder'
  BY <1>0, <1>2, OrderLeft
<1> QED
  BY <1>6, <1>7, <1>8, <1>9, <1>10 DEF Ordered

\* The kick's own handler reports what no close has taken.
LEMMA ReportKickStep ==
  ASSUME ClientTypeOK, KickOnce, Ordered, NEW t \in frames, ReportKick(t)
  PROVE  Ordered'
<1>0. Current /\ Spent /\ Heard /\ Rejected /\ ToldInOrder
  BY DEF Ordered
<1>1. FramesGo
  BY FrameStepGoes DEF FrameStep
<1>2. UNCHANGED <<state, negotiated, failure, peer, asked, deferred, late, request,
                  disconnect_requested, call, attached>>
  BY DEF ReportKick, negotiationVars, clientVars, netVars, serverVars
<1>3. CASE t.notify /\ pending_kick # 0
  <2>1. ReportClose
    BY <1>3 DEF ReportKick
  <2>2. /\ ToldInOrder'
        /\ Told("closed")' => Told("closed")
        /\ told' # <<>> \/ kick_reported
    BY <1>0, <1>2, <1>3, <2>1, ReportInOrder DEF Heard
  <2>3. pending_kick' = 0
    BY <2>1, ReportAdds
  <2>4. /\ \A u \in frames' : \E v \in frames : u.conn = v.conn
        /\ \A u \in frames' : Waiting(u) => u \in frames
    BY <1>1, FramesFacts
  <2>5. ~late => NoKickLeft'
    BY <1>0, <1>1, <1>2, <1>3, NoKickKept DEF Spent
  <2>6. Current'
    <3> SUFFICES ASSUME ~late PROVE Current'
      BY <1>2 DEF Current
    <3>1. call'.step # "send_connect"
      BY <1>0, <1>2 DEF Current
    <3> QED
      BY <1>0, <1>2, <2>4, <3>1 DEF Current
  <2>7. Spent'
    BY <1>2, <2>5 DEF Spent, NoKickLeft, Notable
  <2>8. Heard'
    BY <1>0, <1>2, <1>3, <2>2, <2>3 DEF Heard
  <2>9. Rejected'
    BY <1>0, <1>2 DEF Rejected
  <2> QED
    BY <2>2, <2>6, <2>7, <2>8, <2>9 DEF Ordered
<1>4. CASE ~(t.notify /\ pending_kick # 0)
  <2>1. UNCHANGED <<pending_kick, kick_reported, told>>
    BY <1>4 DEF ReportKick, kickVars
  <2> QED
    BY <1>1, <1>2, <2>1, QuietStep
<1> QED
  BY <1>3, <1>4

\* A frame that is read: the connection has not been told of its end, and a
\* rejection becomes the reason at once.
LEMMA ReadStep ==
  ASSUME ClientTypeOK, KickOnce, CallShape, Ordered, NEW c \in Connections, NEW kind \in ServerSends,
         NEW r \in Requests \cup {0}, ReadFrame(c, kind, r)
  PROVE  Ordered'
<1>0. Current /\ Spent /\ Heard /\ Rejected /\ ToldInOrder
  BY DEF Ordered
<1> DEFINE new == [conn |-> c, kind |-> kind, req |-> r, negotiated |-> negotiated,
                   plain |-> Plain(c, kind), step |-> "queued", target |-> 0,
                   notify |-> FALSE]
<1>1. /\ frames' = frames \cup {new} /\ MaySend(c, kind)
      /\ peer' = [peer EXCEPT ![c] = PeerAfter(c, kind)]
      /\ c \in attached
      /\ UNCHANGED <<state, negotiated, pending_kick, kick_reported, told, asked, deferred, late,
                     request, disconnect_requested, call, attached>>
  BY DEF ReadFrame, Reading, kickVars, clientVars, pendingVars, netVars
<1>2. new.conn = c /\ new.kind = kind /\ new.negotiated = negotiated
  OBVIOUS
<1> HIDE DEF new
<1>3. /\ c \in asked /\ kind \in Kinds
      /\ peer \in [Connections -> {"silent", "acked", "rejected", "closing"}]
      /\ attached \subseteq Connections
  BY <1>1, ClientAssumption DEF MaySend, ClientTypeOK, Connections
<1>4. peer[c] \in {"silent", "acked"}
  BY <1>1, <1>3 DEF MaySend, Kinds
<1>5. \A d \in Connections : peer'[d] = IF d = c THEN PeerAfter(c, kind) ELSE peer[d]
  BY <1>1, <1>3
<1>6. /\ peer[c] = "acked" => PeerAfter(c, kind) \in {"acked", "closing"}
      /\ PeerAfter(c, kind) = "rejected" => kind = "error" /\ peer[c] = "silent"
  BY <1>1, <1>3, <1>4 DEF PeerAfter, MaySend, Kinds
<1>7. ~NoKickLeft
  BY <1>1, <1>3, <1>4 DEF NoKickLeft
<1>8. ~late => /\ call.step # "send_connect" /\ deferred = {}
               /\ call.step \in {"finish", "negotiate"} => c = call.conn
  BY <1>0, <1>1, <1>3 DEF Current, CallShape
<1>9. Current'
  <2> SUFFICES ASSUME ~late PROVE Current'
    BY <1>1 DEF Current
  <2>1. /\ \A t \in frames' : \A a \in attached' : t.conn = a
        /\ \A t, u \in frames' : t.conn = u.conn
        /\ \A a \in attached' : a = c
    BY <1>0, <1>1, <1>2 DEF Current
  <2>2. negotiated' => \A a \in attached' : peer'[a] \in {"acked", "closing"}
    <3>1. negotiated => peer[c] = "acked"
      BY <1>0, <1>1, <1>4 DEF Current
    <3> QED
      BY <1>1, <1>5, <1>6, <2>1, <3>1
  <2>3. call'.step \in {"finish", "negotiate"} =>
          /\ attached' \subseteq {call'.conn}
          /\ \A t \in frames' : t.conn = call'.conn
          /\ \A d \in deferred' : d.conn = call'.conn
    BY <1>1, <1>8, <2>1
  <2> QED
    BY <1>1, <1>8, <2>1, <2>2, <2>3 DEF Current
<1>10. Spent'
  <2>1. ~late => ~kick_reported /\ pending_kick = 0
    BY <1>0, <1>7 DEF Spent
  <2>2. ASSUME ~late, request = 0, ~disconnect_requested, told = <<>>
        PROVE  state = "Connected" /\ \A t \in frames' : Notable(t) => negotiated
    BY <1>0, <1>1, <1>2, <1>7, <2>2 DEF Spent, Notable
  <2> QED
    BY <1>1, <2>1, <2>2 DEF Spent
<1>11. Heard'
  BY <1>0, <1>1 DEF Heard, Told
<1>12. Rejected'
  <2> SUFFICES ASSUME ~late PROVE Rejected'
    BY <1>1 DEF Rejected
  <2>1. failure \in {"none", "rejected"}
    BY <1>0, <1>1 DEF Rejected, ClientTypeOK
  <2>2. failure' \in {"none", "rejected"} /\ (failure = "rejected" => failure' = "rejected")
    BY <2>1 DEF ReadFrame, RecordRejection
  <2>3. ~(call.step = "finish" /\ state # "Connected")
    BY <1>0, <1>1, <1>4, <1>8 DEF Rejected
  <2>4. ASSUME call'.step \in {"finish", "negotiate"}, peer'[call'.conn] = "rejected"
        PROVE  failure' = "rejected"
    <3>1. kind = "error" /\ peer[c] = "silent"
      BY <1>1, <1>5, <1>6, <1>8, <2>4
    <3>2. ~negotiated
      BY <1>0, <1>1, <3>1 DEF Current
    <3> QED
      BY <2>1, <3>1, <3>2 DEF ReadFrame, Plain, RecordRejection
  <2> QED
    BY <1>1, <2>2, <2>3, <2>4 DEF Rejected
<1>13. ToldInOrder'
  BY <1>0, <1>1, OrderLeft
<1> QED
  BY <1>9, <1>10, <1>11, <1>12, <1>13 DEF Ordered

\* A new connection starts with nothing told.  Unless something was left over,
\* it is the only one there is.
LEMMA AttachStep ==
  ASSUME ClientTypeOK, CallShape, Ordered, Attach
  PROVE  Ordered'
<1>1. call.step = "attach" /\ state # "Connected"
  BY DEF Attach, CallShape
<1>2. /\ state' = "Connected" /\ ~negotiated' /\ failure' = "none"
      /\ pending_kick' = 0 /\ ~kick_reported' /\ told' = <<>>
  BY <1>1 DEF Attach, HandleConnected
<1>3. call'.step = "send_connect" /\ call'.conn = call.conn
  BY DEF Attach, Goto, ClientTypeOK, Calls
<1>4. /\ late' = (frames # {} \/ deferred # {} \/ attached' # {call.conn})
      /\ frames' = frames /\ deferred' = deferred
  BY DEF Attach
<1>5. \A what : ~Told(what)'
  BY <1>2 DEF Told
<1>6. Current'
  BY <1>2, <1>3, <1>4 DEF Current
<1>7. Spent' /\ Heard'
  BY <1>2, <1>4, <1>5 DEF Spent, Heard
<1>8. Rejected'
  BY <1>2, <1>3 DEF Rejected
<1>9. ToldInOrder'
  BY <1>2, <1>5 DEF ToldInOrder, KickIsLast, KickFirst
<1> QED
  BY <1>6, <1>7, <1>8, <1>9 DEF Ordered

\* CONNECT goes out: from now on the server may kick or refuse.
LEMMA SendConnectStep ==
  ASSUME ClientTypeOK, KickOnce, CallShape, Ordered, SendConnect
  PROVE  Ordered'
<1>0. Current /\ Spent /\ Heard /\ Rejected /\ ToldInOrder
  BY DEF Ordered
<1>1. /\ call.step = "send_connect" /\ asked' = asked \cup {call.conn}
      /\ UNCHANGED <<state, negotiated, failure, pending_kick, kick_reported, told, peer, frames,
                     deferred, late, request, disconnect_requested, attached>>
  BY DEF SendConnect, coreVars, negotiationVars, kickVars, pendingVars, netVars, taskVars
<1>2. call'.step = "finish" /\ call'.conn = call.conn
  BY DEF SendConnect, Goto, ClientTypeOK, Calls
<1>3. call.conn \notin asked /\ call.conn \in Connections
  BY <1>1, ClientAssumption DEF CallShape, ClientTypeOK, Connections
<1>4. peer[call.conn] = "silent"
  BY <1>3 DEF KickOnce
<1>5. ~late => /\ frames = {} /\ deferred = {} /\ attached \subseteq {call.conn}
               /\ pending_kick = 0 /\ ~kick_reported
               /\ state = "Connected" \/ (told # <<>> /\ attached = {})
  BY <1>0, <1>1 DEF Current
<1>6. Current'
  BY <1>0, <1>1, <1>2, <1>5 DEF Current
<1>7. Spent'
  BY <1>1, <1>5 DEF Spent
<1>8. Heard'
  BY <1>0, <1>1 DEF Heard, Told
<1>9. Rejected'
  BY <1>0, <1>1, <1>2, <1>4, <1>5 DEF Rejected
<1>10. ToldInOrder'
  BY <1>0, <1>1, OrderLeft
<1> QED
  BY <1>6, <1>7, <1>8, <1>9, <1>10 DEF Ordered

\* The Connected reported again: when the connection has ended in between it
\* resets what that left, and there is nothing to come that could be told.
LEMMA FinishStep ==
  ASSUME ClientTypeOK, KickOnce, CallShape, Ordered, ConnectFinishes
  PROVE  Ordered'
<1>0. Current /\ Spent /\ Heard /\ Rejected /\ ToldInOrder
  BY DEF Ordered
<1>1. /\ call.step = "finish" /\ state' = "Connected"
      /\ UNCHANGED <<peer, asked, frames, deferred, late, request, disconnect_requested, attached>>
  BY DEF ConnectFinishes, HandleConnected, pendingVars, netVars, serverVars, taskVars
<1>2. call'.step \in {"send", "negotiate"} /\ call'.conn = call.conn
  BY DEF ConnectFinishes, Goto, ClientTypeOK, Calls
<1>3. CASE state = "Connected"
  <2>1. UNCHANGED <<negotiated, failure, pending_kick, kick_reported, told>>
    BY <1>3 DEF ConnectFinishes, HandleConnected, negotiationVars, kickVars
  <2>2. Current'
    BY <1>0, <1>1, <1>2, <2>1 DEF Current
  <2>3. Spent'
    BY <1>0, <1>1, <2>1 DEF Spent, NoKickLeft
  <2>4. Heard'
    BY <1>0, <1>1, <2>1 DEF Heard, Told
  <2>5. Rejected'
    BY <1>0, <1>1, <1>2, <2>1 DEF Rejected
  <2>6. ToldInOrder'
    BY <1>0, <1>1, <2>1, OrderLeft
  <2> QED
    BY <2>2, <2>3, <2>4, <2>5, <2>6 DEF Ordered
<1>4. CASE state # "Connected"
  <2>1. /\ ~negotiated' /\ failure' = "none" /\ pending_kick' = 0 /\ ~kick_reported'
        /\ told' = <<>>
    BY <1>4 DEF ConnectFinishes, HandleConnected
  <2>2. \A what : ~Told(what)'
    BY <2>1 DEF Told
  <2>3. Current'
    BY <1>0, <1>1, <1>2, <2>1 DEF Current
  <2>4. Spent'
    <3>1. ASSUME ~late, request = 0, ~disconnect_requested
          PROVE  \A t \in frames : ~Notable(t)
      <4>1. CASE told = <<>>
        BY <1>0, <1>4, <3>1, <4>1 DEF Spent, NoKickLeft, Notable
      <4>2. CASE Told("closed")
        BY <1>0, <3>1, <4>2 DEF Heard
      <4>3. CASE Told("kick")
        BY <1>0, <3>1, <4>3 DEF ToldInOrder, Spent, NoKickLeft, Notable
      <4>4. told \in Seq({"kick", "closed"})
        BY DEF ClientTypeOK
      <4>5. told = <<>> \/ Told("closed") \/ Told("kick")
        BY <4>4 DEF Told
      <4> QED
        BY <4>1, <4>2, <4>3, <4>5
    <3> QED
      BY <1>1, <2>1, <3>1 DEF Spent
  <2>5. Heard'
    BY <2>2 DEF Heard
  <2>6. Rejected'
    BY <1>0, <1>1, <1>2, <1>4, <2>1 DEF Rejected
  <2>7. ToldInOrder'
    BY <2>1, <2>2 DEF ToldInOrder, KickIsLast, KickFirst
  <2> QED
    BY <2>3, <2>4, <2>5, <2>6, <2>7 DEF Ordered
<1> QED
  BY <1>3, <1>4

\* Every step keeps the order: one case for each action.
LEMMA OrderedNext ==
  ASSUME ClientTypeOK, KickOnce, CallShape, Ordered, Next
  PROVE  Ordered'
<1>0. Current /\ Spent /\ Heard /\ Rejected /\ ToldInOrder
  BY DEF Ordered
<1>s. ASSUME frames' = frames  PROVE FramesGo
  BY <1>s DEF FramesGo
<1>c. call \in Calls
  BY DEF ClientTypeOK
<1>g. ASSUME NEW s, Goto(s)
      PROVE  call'.step = s
  BY <1>c, <1>g DEF Goto, Calls
<1>1. ASSUME NEW t \in frames, FrameStep(t)  PROVE Ordered'
  <2>0. FramesGo
    BY <1>1, FrameStepGoes
  <2>1. CASE Unparsed(t) \/ HandleData(t) \/ HandleReply(t) \/ HandleClosing(t)
    <3>1. UNCHANGED <<negotiated, failure, state, pending_kick, kick_reported, told, peer, asked,
                      deferred, late, request, disconnect_requested, call, attached>>
      BY <2>1 DEF Unparsed, HandleData, HandleReply, HandleClosing, coreVars, negotiationVars,
         kickVars, clientVars, pendingVars, netVars, serverVars
    <3> QED
      BY <2>0, <3>1, QuietStep
  <2>2. CASE NegotiationReady(t)
    <3>1. UNCHANGED <<negotiated, failure, state, pending_kick, kick_reported, told, peer, asked,
                      deferred, late, request, disconnect_requested, call, attached>>
      BY <2>2 DEF NegotiationReady, negotiationVars, kickVars, clientVars, pendingVars, netVars,
         serverVars
    <3> QED
      BY <2>0, <3>1, QuietStep
  <2>3. CASE HandleRejection(t)
    <3>1. UNCHANGED <<negotiated, state, pending_kick, kick_reported, told, peer, asked,
                      deferred, late, request, disconnect_requested, call, attached>>
      BY <2>3 DEF HandleRejection, kickVars, clientVars, pendingVars, netVars, serverVars
    <3>2. failure' = failure \/ (failure = "none" /\ failure' = "rejected")
      BY <2>3 DEF HandleRejection, RecordRejection
    <3> QED
      BY <2>0, <3>1, <3>2, QuietStep
  <2>4. CASE CloseTaken(t) \/ DisconnectOnKicked(t)
    <3>1. /\ CloseTransport(t.target)
          /\ UNCHANGED <<peer, asked, request, disconnect_requested, late, call>>
      BY <2>4 DEF CloseTaken, DisconnectOnKicked, clientVars, pendingVars, serverVars
    <3> QED
      BY <2>0, <3>1, TransportStep
  <2> QED
    BY <1>1, <2>1, <2>2, <2>3, <2>4, AckStep, KickedStep, ReportKickStep DEF FrameStep
<1>2. ASSUME NEW d \in deferred, DrainedClose(d) \/ OverdueClose(d)  PROVE Ordered'
  <2>1. /\ HandleClose(d.event) /\ deferred' \subseteq deferred
        /\ late => late'
        /\ late' \/ frames = {}
        /\ UNCHANGED <<peer, asked, request, disconnect_requested, frames, attached, call>>
    BY <1>2 DEF DrainedClose, OverdueClose, clientVars, pendingVars, netVars, serverVars
  <2>2. ~late' => attached' = {}
    BY <1>0, <2>1 DEF Current
  <2>3. ~late' /\ call' = call /\ call.step \in {"finish", "negotiate"}
          /\ peer[call.conn] = "rejected" => failure = "rejected"
    BY <1>0, <2>1 DEF Current
  <2> QED
    BY <1>s, <2>1, <2>2, <2>3, CloseStep
<1>3. CASE ClearPending
  <2>1. UNCHANGED <<negotiated, failure, state, pending_kick, kick_reported, told, peer, asked,
                    deferred, late, request, disconnect_requested, call, attached, frames>>
    BY <1>3 DEF ClearPending, coreVars, negotiationVars, kickVars, clientVars, netVars, serverVars
  <2> QED
    BY <1>s, <2>1, QuietStep
<1>4. ASSUME NEW c \in Connections, NEW event \in Endings, ReadEnd(c, event)  PROVE Ordered'
  <2>1. /\ c \in attached /\ OnClose(c, event) /\ attached' = attached \ {c}
        /\ UNCHANGED <<peer, asked, request, disconnect_requested, late, call, frames>>
    BY <1>4 DEF ReadEnd, Reading, clientVars, pendingVars, serverVars
  <2> QED
    BY <1>s, <2>1, EndStep
<1>5. CASE HeartbeatCloses
  <2>1. /\ CloseTransport(heartbeat)
        /\ UNCHANGED <<peer, asked, request, disconnect_requested, late, call, frames>>
    BY <1>5 DEF HeartbeatCloses, clientVars, pendingVars, serverVars
  <2> QED
    BY <1>s, <2>1, TransportStep
<1>6. CASE CloseStale \/ DisconnectCloses
  <2>1. /\ \E c : CloseTransport(c)
        /\ UNCHANGED <<peer, asked, request, disconnect_requested, late, frames>>
    BY <1>6 DEF CloseStale, DisconnectCloses, pendingVars, serverVars
  <2>2. call'.step \notin Settling
    BY <1>6, <1>g DEF CloseStale, DisconnectCloses, Settling
  <2> QED
    BY <1>s, <2>1, <2>2, TransportStep
<1>7. CASE DisconnectEnds
  <2>1. /\ HandleClose("gone") /\ call' = Idle /\ call.step = "end"
        /\ UNCHANGED <<peer, asked, request, disconnect_requested, late, frames, deferred, attached>>
    BY <1>7 DEF DisconnectEnds, netVars, serverVars
  <2>2. call'.step \notin Settling /\ disconnect_requested /\ call' # call
    BY <2>1 DEF Idle, Settling, CallShape
  <2> QED
    BY <1>s, <2>1, <2>2, CloseStep
\* The call goes on beside the connection, or gives it up.
<1>q. ASSUME UNCHANGED <<negotiated, failure, pending_kick, kick_reported, told, peer, asked,
                         deferred, late, frames>>,
             attached' \subseteq attached, call'.step \notin Settling,
             request' = request \/ request' # 0,
             disconnect_requested => disconnect_requested',
             \/ state' = state
             \/ state # "Connected" /\ state' # "Connected"
             \/ request' # 0 \/ disconnect_requested' \/ (~late => NoKickLeft)
      PROVE  Ordered'
  BY <1>q, <1>s, QuietStep
<1>8. CASE Connect \/ DialFails
  <2>1. UNCHANGED <<negotiated, failure, pending_kick, kick_reported, told, peer, asked,
                    deferred, late, frames, attached, request, disconnect_requested>>
    BY <1>8 DEF Connect, DialFails, negotiationVars, kickVars, pendingVars, netVars, serverVars,
       taskVars
  <2>2. state # "Connected" /\ state' # "Connected" /\ call'.step \notin Settling
    BY <1>8 DEF Connect, DialFails, ConnectFails, TryReconnect, CallShape, Idle, Settling
  <2> QED
    BY <2>1, <2>2, <1>q
<1>9. CASE SendConnectFails
  <2>1. UNCHANGED <<negotiated, failure, pending_kick, kick_reported, told, peer, asked,
                    deferred, late, frames, attached, request, disconnect_requested>>
    BY <1>9 DEF SendConnectFails, negotiationVars, kickVars, pendingVars, netVars, serverVars,
       taskVars
  <2>2. state' # "Connected" /\ call'.step \notin Settling
    BY <1>9 DEF SendConnectFails, ConnectFails, TryReconnect, Idle, Settling
  <2>3. ~late => NoKickLeft
    BY <1>0, <1>9 DEF SendConnectFails, Current, CallShape, NoKickLeft
  <2> QED
    BY <2>1, <2>2, <2>3, <1>q
<1>10. CASE Negotiated \/ NegotiationTimeout \/ SendFails \/ RequestEnds \/ RequestTimeout
  <2>1. UNCHANGED <<negotiated, failure, pending_kick, kick_reported, told, peer, asked,
                    deferred, late, frames, attached, request, disconnect_requested, state>>
    BY <1>10 DEF Negotiated, NegotiationTimeout, SendFails, RequestEnds, RequestTimeout, coreVars,
       negotiationVars, kickVars, pendingVars, netVars, serverVars, taskVars
  <2>2. call'.step \notin Settling
    BY <1>10 DEF Negotiated, NegotiationTimeout, SendFails, RequestEnds, RequestTimeout, Idle,
       Settling
  <2> QED
    BY <2>1, <2>2, <1>q
<1>11. CASE SendRequest
  <2>1. UNCHANGED <<negotiated, failure, pending_kick, kick_reported, told, peer, asked,
                    deferred, late, frames, attached, request, disconnect_requested, state>>
    BY <1>11 DEF SendRequest, coreVars, negotiationVars, kickVars, pendingVars, netVars, taskVars
  <2>2. call'.step \notin Settling
    BY <1>11, <1>g DEF SendRequest, Settling
  <2> QED
    BY <2>1, <2>2, <1>q
<1>12. CASE SendFrame
  <2>1. UNCHANGED <<negotiated, failure, pending_kick, kick_reported, told, peer, asked,
                    deferred, late, frames, attached, request, disconnect_requested>>
    BY <1>12 DEF SendFrame, negotiationVars, kickVars, pendingVars, netVars, serverVars, taskVars
  <2>2. call'.step \notin Settling
    BY <1>12, <1>g DEF SendFrame, TryReconnect, Idle, Settling
  <2>3. request # 0
    BY <1>12 DEF SendFrame, CallShape
  <2> QED
    BY <2>1, <2>2, <2>3, <1>q
<1>13. CASE Request
  <2>1. UNCHANGED <<negotiated, failure, pending_kick, kick_reported, told, peer, asked,
                    deferred, late, frames, attached, disconnect_requested, state>>
    BY <1>13 DEF Request, coreVars, negotiationVars, kickVars, netVars, serverVars, taskVars
  <2>2. call'.step \notin Settling /\ request' # 0
    BY <1>13, ClientAssumption DEF Request, Settling, ClientTypeOK, Requests
  <2> QED
    BY <2>1, <2>2, <1>q
<1>14. CASE Dial
  <2>1. UNCHANGED <<negotiated, failure, pending_kick, kick_reported, told, peer, asked,
                    deferred, late, frames, attached, request, disconnect_requested, state>>
    BY <1>14 DEF Dial, coreVars, negotiationVars, kickVars, pendingVars, serverVars, taskVars
  <2>2. call'.step \notin Settling
    BY <1>14, <1>c DEF Dial, Calls, Settling
  <2> QED
    BY <2>1, <2>2, <1>q
<1>15. CASE Disconnect
  <2>1. /\ UNCHANGED <<negotiated, failure, pending_kick, kick_reported, told, peer, asked,
                       deferred, late, frames, request>>
        /\ attached' \subseteq attached /\ disconnect_requested'
    BY <1>15 DEF Disconnect, Drop, negotiationVars, kickVars, pendingVars, serverVars, taskVars
  <2>2. call'.step \notin Settling
    BY <1>15 DEF Disconnect, Settling
  <2> QED
    BY <2>1, <2>2, <1>q
<1> QED
  BY <1>1, <1>2, <1>3, <1>4, <1>5, <1>6, <1>7, <1>8, <1>9, <1>10, <1>11, <1>12, <1>13, <1>14,
     <1>15, ReadStep, AttachStep, SendConnectStep, FinishStep
     DEF Next, Tasks, CallStep, Environment

-----------------------------------------------------------------------------
(* The theorems.                                                           *)

\* Whatever the observers heard so far, the pieces that bear on what they hear
\* next (tasks, kicks, call, connections) fit it: the inductive invariant.
THEOREM CoreInvariance == Spec => []CoreInv
<1>1. Init => CoreInv
  <2> SUFFICES ASSUME Init PROVE CoreInv
    OBVIOUS
  <2>0. MaxConnections \in Nat /\ MaxRequests \in Nat /\ MaxAttempts \in Nat
    BY ClientAssumption
  <2>1. /\ 0 \in 0 .. MaxConnections /\ 0 \in 0 .. MaxAttempts /\ 0 \in 0 .. MaxRequests
        /\ 0 \in 0 .. 0
    BY <2>0
  <2>2. Idle \in Calls /\ told \in Seq({"kick", "closed"})
    BY DEF Init, Idle, Calls
  <2>3. ClientTypeOK
    BY <2>1, <2>2 DEF Init, ClientTypeOK, States
  <2>4. Unused /\ KickOnce /\ KickToldOnce /\ CallShape
    BY <2>0 DEF Init, Unused, KickOnce, KickToldOnce, CallShape, Idle
  <2>5. Current /\ Spent /\ Heard /\ Rejected /\ ToldInOrder
    BY DEF Init, Current, Spent, NoKickLeft, Heard, Rejected, ToldInOrder, KickIsLast, KickFirst,
       Told, Idle
  <2> QED
    BY <2>3, <2>4, <2>5 DEF CoreInv, Ordered
<1>2. CoreInv /\ [Next]_vars => CoreInv'
  <2> SUFFICES ASSUME CoreInv, [Next]_vars PROVE CoreInv'
    OBVIOUS
  <2>1. CASE Next
    BY <2>1, TypesNext, ShapeNext, KickOnceNext, OrderedNext DEF CoreInv
  <2>2. CASE UNCHANGED vars
    <3> USE <2>2 DEF vars, coreVars, negotiationVars, kickVars, clientVars, pendingVars, netVars,
        serverVars, taskVars
    <3>1. ClientTypeOK'
      BY DEF CoreInv, ClientTypeOK
    <3>2. Unused' /\ KickOnce' /\ KickToldOnce' /\ CallShape'
      BY DEF CoreInv, Unused, KickOnce, KickToldOnce, CallShape
    <3>3. Ordered'
      BY DEF CoreInv, Ordered, Current, Spent, NoKickLeft, Heard, Rejected, ToldInOrder,
         KickIsLast, KickFirst, Told
    <3> QED
      BY <3>1, <3>2, <3>3 DEF CoreInv
  <2> QED
    BY <2>1, <2>2
<1> QED
  BY <1>1, <1>2, PTL DEF Spec

\* Type correctness: the slot, the client and the heartbeat only ever hold
\* connections that were dialled.
THEOREM CoreTypeCorrect == Spec => []ClientTypeOK
<1>1. CoreInv => ClientTypeOK
  BY DEF CoreInv
<1> QED
  BY <1>1, CoreInvariance, PTL

\* The observers hear of a kick once; nothing of the connection after it, and
\* no close of it before, however the read loops, the frame tasks, the closes
\* put off and the calls interleave.
THEOREM KickOrderCorrect == Spec => []KickOrder
<1>1. CoreInv => KickOrder
  BY DEF CoreInv, Ordered, ToldInOrder, KickOrder
<1> QED
  BY <1>1, CoreInvariance, PTL

\* The caller of a CONNECT the server refuses with a reason has that reason,
\* whichever of the read loop, the frame's task and the close wins, unless the
\* connection had ended before its Connected was reported again.
THEOREM TypedRejectionCorrect == Spec => []TypedRejection
<1>1. CoreInv => TypedRejection
  BY DEF CoreInv, Ordered, CallShape, Rejected, TypedRejection, Forgotten
<1> QED
  BY <1>1, CoreInvariance, PTL

-----------------------------------------------------------------------------
(***************************************************************************)
(* The heartbeat in time, for any settings, any round trip shorter than    *)
(* their timeouts and any sequence of probes and changes of settings.      *)
(*                                                                         *)
(*   Waits       how much a wait of the loop has left, and how old the     *)
(*               PING it watches is where it is about to wait again        *)
(*   Answering   while the peer answers, the dated PING is among those on  *)
(*               their way, and a probe's window is not over before it     *)
(*   Silent      once it is gone, how much time can have passed, with what *)
(*               is left of the wait, before and after the last PING that  *)
(*               is dated: a wait hands over to the next what it used up   *)
(***************************************************************************)

\* The bound on each wait there can be before the last PING that is dated.
Dated == RoundTrip + PROBE_TIMEOUT + LongestSleep

\* The settings in force have the intervals of some the application chose.
HeartbeatTypeOK ==
  /\ hconfig \in Settings
  /\ \E c \in HeartbeatConfigs :
       hconfig.interval = c.interval /\ hconfig.timeout = c.timeout
         /\ hconfig.min = c.min /\ hconfig.max = c.max
  /\ hloop \in {"off", "top", "sleep", "ping", "probe", "window", "ended"}
  /\ timer \in Nat /\ ping \in Nat \cup {Unset} /\ silence \in Nat \cup {Unset}
  /\ covered \in BOOLEAN /\ wake \in BOOLEAN /\ stop \in BOOLEAN
  /\ verdict \in {"none", "timeout", "failed"}
  /\ due \subseteq 0 .. RoundTrip

\* A PING is dated and no PONG has come since.
Open == ping # Unset /\ ~covered

\* How much a wait has left, and how old the watched PING can be.
Waits ==
  /\ hloop = "sleep" => timer <= LongestSleep
  /\ hloop = "window" => timer <= PROBE_TIMEOUT
  /\ hloop \in {"off", "top"} /\ ping # Unset => covered \/ ping <= LongestTimeout
  /\ hloop = "ping" /\ ~covered => ping # Unset /\ ping <= LongestTimeout
  /\ hloop = "off" => ping = Unset /\ due = {} /\ silence \in {0, Unset}
  /\ hloop \in {"probe", "window"} => ping # Unset

\* The peer answers: what is dated is on its way, and a probe waits for it.
Answering ==
  silence = Unset /\ ~stop /\ hloop # "ended" /\ Open =>
    /\ ping \in due \/ (ping = 0 /\ hloop \in {"ping", "probe"})
    /\ hloop = "probe" => ping = 0
    /\ hloop = "window" => ping + timer > RoundTrip

\* The peer is silent: how much time can have passed.
Silent ==
  silence # Unset /\ ~stop /\ hloop # "ended" =>
    /\ \A a \in due : silence <= a
    /\ ~Open =>
         /\ hloop \in {"top", "ping", "probe"} => silence <= RoundTrip + PROBE_TIMEOUT
         /\ hloop = "sleep" => silence + timer <= Dated
         /\ hloop \in {"ping", "probe"} => silence <= RoundTrip
         /\ hloop = "window" => silence + timer <= RoundTrip + PROBE_TIMEOUT
    /\ Open =>
         /\ hloop \in {"top", "ping", "sleep"} /\ ping <= LongestTimeout => silence <= Dated + ping
         /\ hloop = "sleep" => silence + timer <= Dated + LongestTimeout + LongestSleep
         /\ hloop = "probe" => silence <= Dated + LongestTimeout
         /\ hloop = "window" => silence + timer <= Dated + LongestTimeout + PROBE_TIMEOUT

HeartbeatInv == HeartbeatTypeOK /\ Waits /\ Answering /\ Silent /\ LiveKept

-----------------------------------------------------------------------------
(* The longest sleep and the longest timeout.                              *)

\* A finite set of numbers that is not empty has a greatest one: otherwise a
\* smallest such set would have one after all.
LEMMA MaxExists ==
  ASSUME NEW S \in SUBSET Nat, IsFiniteSet(S), S # {}
  PROVE  Max(S) \in S /\ \A y \in S : y <= Max(S)
<1> DEFINE Without == {X \in SUBSET S : X # {} /\ ~\E x \in X : \A y \in X : x >= y}
<1>1. Without = {}
  <2> SUFFICES ASSUME Without # {} PROVE FALSE
    OBVIOUS
  <2>1. FiniteSubsetsOf(S) = SUBSET S
    BY FS_FiniteSubsetsOfFinite
  <2>2. IsWellFoundedOn(StrictSubsetOrdering(S), SUBSET S)
    BY <2>1, FS_StrictSubsetOrderingWellFounded
  <2>3. Without \subseteq SUBSET S
    OBVIOUS
  <2>4. PICK X \in Without : \A Y \in Without : <<Y, X>> \notin StrictSubsetOrdering(S)
    <3> HIDE DEF Without
    <3> QED
      BY <2>2, <2>3, WFMin
  <2>5. PICK x \in X : TRUE
    BY <2>4
  <2>6. X \ {x} \notin Without
    BY <2>4, <2>5 DEF StrictSubsetOrdering
  <2>7. CASE X \ {x} = {}
    BY <2>4, <2>5, <2>7
  <2>8. CASE X \ {x} # {}
    <3>1. PICK z \in X \ {x} : \A y \in X \ {x} : z >= y
      BY <2>6, <2>8
    <3>2. x \in Nat /\ z \in Nat /\ \A y \in X : y \in Nat
      BY <2>4
    <3>3. CASE z >= x
      BY <2>4, <3>1, <3>3
    <3>4. CASE x > z
      BY <2>4, <3>1, <3>2, <3>4
    <3> QED
      BY <3>2, <3>3, <3>4
  <2> QED
    BY <2>7, <2>8
<1>2. \E x \in S : \A y \in S : x >= y
  BY <1>1
<1>3. Max(S) \in S /\ \A y \in S : Max(S) >= y
  BY <1>2 DEF Max
<1> QED
  BY <1>3

\* No settings have a longer timeout, or make the loop sleep longer.
LEMMA Longest ==
  /\ LongestSleep \in Nat /\ LongestTimeout \in Nat
  /\ \A c \in HeartbeatConfigs :
       /\ c.timeout <= LongestTimeout
       /\ AtLeast(c.max, AtLeast(c.min, AtLeast(c.interval, 1))) <= LongestSleep
<1>1. \A c \in HeartbeatConfigs :
        c.timeout \in Nat /\ AtLeast(c.max, AtLeast(c.min, AtLeast(c.interval, 1))) \in Nat
  BY HeartbeatAssumption DEF Settings, AtLeast
<1>2. IsFiniteSet(HeartbeatConfigs) /\ HeartbeatConfigs # {}
  BY HeartbeatAssumption
<1> DEFINE sleeps == {AtLeast(c.max, AtLeast(c.min, AtLeast(c.interval, 1))) : c \in HeartbeatConfigs}
           timeouts == {c.timeout : c \in HeartbeatConfigs}
<1>3. Max(sleeps) \in sleeps /\ \A y \in sleeps : y <= Max(sleeps)
  <2> DEFINE f == [c \in HeartbeatConfigs |->
                     AtLeast(c.max, AtLeast(c.min, AtLeast(c.interval, 1)))]
  <2>1. f \in Surjection(HeartbeatConfigs, sleeps)
    BY DEF Surjection
  <2>2. IsFiniteSet(sleeps)
    BY <1>2, <2>1, FS_Surjection
  <2> QED
    BY <1>1, <1>2, <2>2, MaxExists
<1>4. Max(timeouts) \in timeouts /\ \A y \in timeouts : y <= Max(timeouts)
  <2> DEFINE f == [c \in HeartbeatConfigs |-> c.timeout]
  <2>1. f \in Surjection(HeartbeatConfigs, timeouts)
    BY DEF Surjection
  <2>2. IsFiniteSet(timeouts)
    BY <1>2, <2>1, FS_Surjection
  <2> QED
    BY <1>1, <1>2, <2>2, MaxExists
<1> QED
  BY <1>1, <1>3, <1>4 DEF LongestSleep, LongestTimeout

\* A tick moves a unit from what is left of a wait to what has passed.
LEMMA TimeShifts ==
  ASSUME NEW s \in Nat, NEW t \in Nat, NEW u \in Nat, NEW v \in Nat,
         u <= s + 1, v = t - 1
  PROVE  u + v <= s + t
OBVIOUS

\* Lengths of time add up.
LEMMA SumNat == ASSUME NEW x \in Nat, NEW y \in Nat PROVE x + y \in Nat
OBVIOUS

\* What is not longer than a wait within its bound is within it too.
LEMMA StillWithin ==
  ASSUME NEW x \in Nat, NEW y \in Nat, NEW b \in Nat, x <= y, y <= b
  PROVE  x <= b
OBVIOUS

\* What the loop may rely on, whatever settings it finds.
LEMMA Reliable ==
  ASSUME HeartbeatTypeOK
  PROVE  /\ EffectiveInterval(hconfig) \in Nat /\ EffectiveInterval(hconfig) <= LongestSleep
         /\ hconfig.timeout \in Nat /\ RoundTrip < hconfig.timeout
         /\ hconfig.timeout <= LongestTimeout
<1>1. PICK c \in HeartbeatConfigs :
        hconfig.interval = c.interval /\ hconfig.timeout = c.timeout
          /\ hconfig.min = c.min /\ hconfig.max = c.max
  BY DEF HeartbeatTypeOK
<1>2. /\ hconfig.timeout \in Nat /\ RoundTrip < hconfig.timeout
      /\ hconfig.timeout <= LongestTimeout
  BY <1>1, Longest, HeartbeatAssumption DEF Settings
<1>3. /\ hconfig.interval \in Nat /\ hconfig.min \in Nat /\ hconfig.max \in Nat
      /\ hconfig.background \in Nat /\ hconfig.foreground \in Nat \cup {Unset}
      /\ hconfig.nat \in Nat \cup {Unset} /\ hconfig.adaptive \in BOOLEAN
  BY DEF HeartbeatTypeOK, Settings
<1>4. /\ AtLeast(hconfig.max, AtLeast(hconfig.min, AtLeast(hconfig.interval, 1))) <= LongestSleep
      /\ LongestSleep \in Nat
  BY <1>1, Longest
<1>5. \A t \in Nat : NatSafeInterval(t) \in Nat
  BY DEF NatSafeInterval, PositiveDuration, AtLeast
<1>6. CASE ~hconfig.adaptive
  BY <1>2, <1>3, <1>4, <1>6 DEF EffectiveInterval, PositiveDuration, AtLeast
<1>7. CASE hconfig.adaptive
  <2> DEFINE base == PositiveDuration(IF hconfig.app = "Foreground"
                                      THEN Or(hconfig.foreground, hconfig.interval)
                                      ELSE hconfig.background)
             wanted == IF hconfig.nat = Unset THEN base
                       ELSE AtMost(base, NatSafeInterval(hconfig.nat))
             low == PositiveDuration(hconfig.min)
  <2>1. base \in Nat
    BY <1>3 DEF PositiveDuration, AtLeast, Or
  <2>2. wanted \in Nat
    BY <1>3, <1>5, <2>1 DEF AtMost
  <2>3. EffectiveInterval(hconfig) = AtLeast(AtMost(wanted, AtLeast(hconfig.max, low)), low)
    BY <1>7 DEF EffectiveInterval
  <2> HIDE DEF wanted
  <2> QED
    BY <1>2, <1>3, <1>4, <2>2, <2>3 DEF AtLeast, AtMost, PositiveDuration
<1> QED
  BY <1>6, <1>7, <1>3

-----------------------------------------------------------------------------
(* One step of the loop, the peer or the application.                      *)

\* One case for each: what it does to the age of the watched PING, to the wait
\* and to the silence.
LEMMA HeartbeatInvNext ==
  ASSUME HeartbeatInv, HeartbeatNext
  PROVE  HeartbeatInv'
<1> USE DEF waitVars, pingVars, signalVars, peerSide
<1>0. HeartbeatTypeOK /\ Waits /\ Answering /\ Silent /\ LiveKept
  BY DEF HeartbeatInv
<1>n. /\ Unset \notin Nat /\ PROBE_TIMEOUT \in Nat /\ RoundTrip \in Nat /\ RoundTrip < PROBE_TIMEOUT
      /\ LongestSleep \in Nat /\ LongestTimeout \in Nat
      /\ Dated \in Nat /\ Dated = RoundTrip + PROBE_TIMEOUT + LongestSleep
  BY HeartbeatAssumption, Longest DEF Dated
<1>r. /\ EffectiveInterval(hconfig) \in Nat /\ EffectiveInterval(hconfig) <= LongestSleep
      /\ hconfig.timeout \in Nat /\ RoundTrip < hconfig.timeout
      /\ hconfig.timeout <= LongestTimeout
  BY <1>0, Reliable
<1>t. /\ timer \in Nat /\ ping \in Nat \cup {Unset} /\ silence \in Nat \cup {Unset}
      /\ covered \in BOOLEAN /\ wake \in BOOLEAN /\ stop \in BOOLEAN
      /\ verdict \in {"none", "timeout", "failed"}
      /\ due \subseteq 0 .. RoundTrip
      /\ hloop \in {"off", "top", "sleep", "ping", "probe", "window", "ended"}
  BY <1>0 DEF HeartbeatTypeOK
<1>d. \A a \in due : a \in Nat /\ a <= RoundTrip
  BY <1>t, <1>n
\* The settings stay as they were.
<1>c. ASSUME hconfig' = hconfig,
             hloop' \in {"off", "top", "sleep", "ping", "probe", "window", "ended"},
             timer' \in Nat, ping' \in Nat \cup {Unset}, silence' \in Nat \cup {Unset},
             covered' \in BOOLEAN, wake' \in BOOLEAN, stop' \in BOOLEAN,
             verdict' \in {"none", "timeout", "failed"}, due' \subseteq 0 .. RoundTrip
      PROVE  HeartbeatTypeOK'
  BY <1>0, <1>c DEF HeartbeatTypeOK
<1>1. CASE StartLoop
  <2>1. /\ hloop = "off" /\ hloop' = "top"
        /\ UNCHANGED <<hconfig, timer, ping, covered, wake, stop, due, silence, verdict>>
    BY <1>1 DEF StartLoop
  <2>2. HeartbeatTypeOK'
    BY <1>c, <1>t, <2>1
  <2>3. Waits' /\ LiveKept'
    BY <1>0, <2>1 DEF Waits, LiveKept
  <2>4. Answering' /\ Silent'
    BY <1>0, <1>n, <2>1 DEF Waits, Answering, Silent, Open
  <2> QED
    BY <2>2, <2>3, <2>4 DEF HeartbeatInv
<1>2. CASE BeginSleep
  <2>1. /\ hloop = "top" /\ hloop' = "sleep" /\ timer' = EffectiveInterval(hconfig)
        /\ UNCHANGED <<hconfig, ping, covered, wake, stop, due, silence, verdict>>
    BY <1>2 DEF BeginSleep
  <2>2. HeartbeatTypeOK'
    BY <1>c, <1>t, <1>r, <2>1
  <2>3. Waits' /\ LiveKept' /\ Answering'
    BY <1>0, <1>r, <2>1 DEF Waits, LiveKept, Answering, Open
  <2>4. Silent'
    BY <1>0, <1>n, <1>r, <1>t, <2>1 DEF Waits, Silent, Open
  <2> QED
    BY <2>2, <2>3, <2>4 DEF HeartbeatInv
<1>3. CASE SleepEnds
  <2>1. /\ hloop = "sleep" /\ timer = 0
        /\ UNCHANGED <<hconfig, timer, wake, stop, due, silence>>
    BY <1>3 DEF SleepEnds
  <2>2. CASE UnansweredPingTimedOut
    <3>1. /\ hloop' = "ended" /\ verdict' = "timeout" /\ UNCHANGED <<ping, covered>>
          /\ Open /\ ping > hconfig.timeout
      BY <1>3, <2>2 DEF SleepEnds, GiveUp, UnansweredPingTimedOut, Open
    <3>2. silence # Unset \/ stop
      BY <1>0, <1>d, <1>n, <1>r, <1>t, <2>1, <3>1 DEF Answering, Open
    <3>3. HeartbeatTypeOK'
      BY <1>c, <1>t, <2>1, <3>1
    <3>4. Waits' /\ LiveKept' /\ Answering' /\ Silent'
      BY <2>1, <3>1, <3>2 DEF Waits, LiveKept, Answering, Silent
    <3> QED
      BY <3>3, <3>4 DEF HeartbeatInv
  <2>3. CASE ~UnansweredPingTimedOut /\ Open
    <3>1. /\ hloop' = "ping" /\ UNCHANGED <<ping, covered, verdict>>
          /\ ping \in Nat /\ ping <= hconfig.timeout
      BY <1>3, <1>t, <1>r, <2>3 DEF SleepEnds, RecordPingStartIfIdle, UnansweredPingTimedOut, Open
    <3>3. HeartbeatTypeOK'
      BY <1>c, <1>t, <2>1, <3>1
    <3>4. Waits' /\ LiveKept'
      BY <1>0, <1>n, <1>r, <2>1, <2>3, <3>1 DEF Waits, LiveKept, Open
    <3>5. Answering' /\ Silent'
      BY <1>0, <1>n, <1>r, <2>1, <2>3, <3>1 DEF Answering, Silent, Open
    <3> QED
      BY <3>3, <3>4, <3>5 DEF HeartbeatInv
  <2>4. CASE ~UnansweredPingTimedOut /\ ~Open
    <3>1. hloop' = "ping" /\ ping' = 0 /\ covered' = FALSE /\ UNCHANGED verdict
      BY <1>3, <2>4 DEF SleepEnds, RecordPingStartIfIdle, RecordPingStart, Open
    <3>3. HeartbeatTypeOK'
      BY <1>c, <1>t, <2>1, <3>1
    <3>4. Waits' /\ LiveKept'
      BY <1>0, <1>n, <2>1, <3>1 DEF Waits, LiveKept
    <3>5. Answering'
      BY <3>1 DEF Answering
    <3>6. Silent'
      BY <1>0, <1>n, <1>t, <2>1, <2>4, <3>1 DEF Silent, Open
    <3> QED
      BY <3>3, <3>4, <3>5, <3>6 DEF HeartbeatInv
  <2> QED
    BY <2>2, <2>3, <2>4
<1>4. CASE ProbeWakes
  <2>1. hloop = "sleep" /\ wake' = FALSE /\ UNCHANGED <<hconfig, timer, stop, due, silence>>
    BY <1>4 DEF ProbeWakes
  <2>2. CASE UnansweredPingTimedOut
    <3>1. /\ hloop' = "ended" /\ verdict' = "timeout" /\ UNCHANGED <<ping, covered>>
          /\ Open /\ ping > hconfig.timeout
      BY <1>4, <2>2 DEF ProbeWakes, GiveUp, UnansweredPingTimedOut, Open
    <3>2. silence # Unset \/ stop
      BY <1>0, <1>d, <1>n, <1>r, <1>t, <2>1, <3>1 DEF Answering, Open
    <3>3. HeartbeatTypeOK'
      BY <1>c, <1>t, <2>1, <3>1
    <3>4. Waits' /\ LiveKept' /\ Answering' /\ Silent'
      BY <2>1, <3>1, <3>2 DEF Waits, LiveKept, Answering, Silent
    <3> QED
      BY <3>3, <3>4 DEF HeartbeatInv
  <2>3. CASE ~UnansweredPingTimedOut
    <3>1. hloop' = "probe" /\ ping' = 0 /\ covered' = FALSE /\ UNCHANGED verdict
      BY <1>4, <2>3 DEF ProbeWakes, RecordPingStart
    <3>2. Open => ping \in Nat /\ ping <= LongestTimeout
      BY <1>t, <1>r, <1>n, <2>3 DEF UnansweredPingTimedOut, Open
    <3>3. HeartbeatTypeOK'
      BY <1>c, <1>t, <2>1, <3>1
    <3>4. Waits' /\ LiveKept'
      BY <1>0, <1>n, <2>1, <3>1 DEF Waits, LiveKept
    <3>5. Answering'
      BY <3>1 DEF Answering
    <3>6. Silent'
      BY <1>0, <1>n, <1>t, <2>1, <3>1, <3>2 DEF Silent, Open
    <3> QED
      BY <3>3, <3>4, <3>5, <3>6 DEF HeartbeatInv
  <2> QED
    BY <2>2, <2>3
<1>5. CASE PingSent /\ hloop = "ping"
  <2>1. /\ due' = (IF silence = Unset THEN due \cup {0} ELSE due) /\ hloop' = "top"
        /\ UNCHANGED <<hconfig, timer, ping, covered, wake, stop, silence, verdict>>
    BY <1>5 DEF PingSent
  <2>2. HeartbeatTypeOK'
    <3>1. due' \subseteq 0 .. RoundTrip
      BY <1>t, <1>n, <2>1
    <3> QED
      BY <1>c, <1>t, <2>1, <3>1
  <2>3. Waits' /\ LiveKept'
    BY <1>0, <1>5, <2>1 DEF Waits, LiveKept
  <2>4. Answering'
    BY <1>0, <1>5, <2>1 DEF Answering, Open
  <2>5. Silent'
    BY <1>0, <1>5, <1>n, <1>t, <2>1 DEF Silent, Open
  <2> QED
    BY <2>2, <2>3, <2>4, <2>5 DEF HeartbeatInv
<1>6. CASE PingSent /\ hloop = "probe"
  <2>1. /\ due' = (IF silence = Unset THEN due \cup {0} ELSE due) /\ hloop' = "window"
        /\ timer' = AtMost(hconfig.timeout, PROBE_TIMEOUT)
        /\ UNCHANGED <<hconfig, ping, covered, wake, stop, silence, verdict>>
    BY <1>6 DEF PingSent
  <2>2. timer' \in Nat /\ timer' <= PROBE_TIMEOUT /\ timer' > RoundTrip
    BY <1>n, <1>r, <2>1 DEF AtMost
  <2>3. HeartbeatTypeOK'
    <3>1. due' \subseteq 0 .. RoundTrip
      BY <1>t, <1>n, <2>1
    <3> QED
      BY <1>c, <1>t, <2>1, <2>2, <3>1
  <2>4. Waits' /\ LiveKept'
    BY <1>0, <1>6, <2>1, <2>2 DEF Waits, LiveKept
  <2>5. Answering'
    BY <1>0, <1>6, <1>n, <2>1, <2>2 DEF Answering, Open
  <2>6. Silent'
    BY <1>0, <1>6, <1>n, <1>t, <2>1, <2>2 DEF Silent, Open
  <2> QED
    BY <2>3, <2>4, <2>5, <2>6 DEF HeartbeatInv
\* The loop ends.
<1>e. ASSUME hloop' = "ended", LiveKept', HeartbeatTypeOK'
      PROVE  HeartbeatInv'
  BY <1>e DEF HeartbeatInv, Waits, Answering, Silent
<1>7. CASE PingFails \/ StopSeen
  <2>1. /\ hloop' = "ended" /\ verdict' \in {"failed", verdict}
        /\ UNCHANGED <<hconfig, timer, ping, covered, wake, stop, silence, due>>
    BY <1>7 DEF PingFails, StopSeen, GiveUp
  <2>2. HeartbeatTypeOK'
    BY <1>c, <1>t, <2>1
  <2> QED
    BY <1>0, <1>e, <2>1, <2>2 DEF LiveKept
<1>8. CASE ProbeOver
  <2>1. /\ hloop = "window" /\ timer = 0
        /\ UNCHANGED <<hconfig, timer, ping, covered, wake, stop, silence, due>>
    BY <1>8 DEF ProbeOver
  <2>2. CASE covered
    <3>1. hloop' = "top" /\ verdict' = verdict
      BY <1>8, <2>2 DEF ProbeOver
    <3>2. HeartbeatTypeOK'
      BY <1>c, <1>t, <2>1, <3>1
    <3>3. Waits' /\ LiveKept' /\ Answering'
      BY <1>0, <2>1, <2>2, <3>1 DEF Waits, LiveKept, Answering, Open
    <3>4. Silent'
      BY <1>0, <1>n, <1>t, <2>1, <2>2, <3>1 DEF Silent, Open
    <3> QED
      BY <3>2, <3>3, <3>4 DEF HeartbeatInv
  <2>3. CASE ~covered
    <3>1. hloop' = "ended" /\ verdict' = "timeout"
      BY <1>8, <2>3 DEF ProbeOver, GiveUp
    <3>2. silence # Unset \/ stop
      BY <1>0, <1>d, <1>n, <1>t, <2>1, <2>3 DEF Answering, Waits, Open
    <3>3. HeartbeatTypeOK'
      BY <1>c, <1>t, <2>1, <3>1
    <3> QED
      BY <1>e, <2>1, <3>1, <3>2, <3>3 DEF LiveKept
  <2> QED
    BY <2>2, <2>3
<1>9. ASSUME NEW a \in due, RecordPong(a)  PROVE HeartbeatInv'
  <2>1. /\ due' = due \ {a} /\ covered' = (covered \/ ~stop)
        /\ UNCHANGED <<hconfig, hloop, timer, ping, wake, stop, silence, verdict>>
    BY <1>9 DEF RecordPong
  <2>2. HeartbeatTypeOK'
    BY <1>c, <1>t, <2>1
  <2>3. Waits' /\ LiveKept'
    BY <1>0, <1>t, <2>1 DEF Waits, LiveKept
  <2>4. Answering'
    BY <1>0, <2>1 DEF Answering, Open
  <2>5. ASSUME silence # Unset, ~stop, hloop # "ended"
        PROVE  silence \in Nat /\ silence <= RoundTrip
    BY <1>0, <1>d, <1>n, <1>t, <2>5 DEF Silent
  <2>6. Silent'
    BY <1>0, <1>n, <1>t, <2>1, <2>5 DEF Silent, Open, Waits
  <2> QED
    BY <2>2, <2>3, <2>4, <2>6 DEF HeartbeatInv
<1>10. CASE StopHeartbeat
  <2>1. stop' = TRUE /\ UNCHANGED <<hconfig, hloop, timer, ping, covered, wake, due, silence, verdict>>
    BY <1>10 DEF StopHeartbeat
  <2>2. HeartbeatTypeOK'
    BY <1>c, <1>t, <2>1
  <2> QED
    BY <1>0, <2>1, <2>2 DEF HeartbeatInv, Waits, Answering, Silent, LiveKept
<1>u. ASSUME HeartbeatTypeOK', wake' \in BOOLEAN,
             UNCHANGED <<hloop, timer, ping, covered, stop, due, silence, verdict>>
      PROVE  HeartbeatInv'
  BY <1>0, <1>u DEF HeartbeatInv, Waits, Answering, Silent, LiveKept, Open
<1>11. CASE UpdateHeartbeatConfig \/ SetNatTimeout
  <2>1. UNCHANGED <<hloop, timer, ping, covered, wake, stop, due, silence, verdict>>
    BY <1>11 DEF UpdateHeartbeatConfig, SetNatTimeout, UpdateConfig
  <2>2. /\ hconfig' \in Settings
        /\ \E c \in HeartbeatConfigs :
             hconfig'.interval = c.interval /\ hconfig'.timeout = c.timeout
               /\ hconfig'.min = c.min /\ hconfig'.max = c.max
    <3>0. hconfig \in Settings
      BY <1>0 DEF HeartbeatTypeOK
    <3>1. ASSUME NEW c \in HeartbeatConfigs,
                 hconfig' = [c EXCEPT !.app = hconfig.app, !.nat = hconfig.nat]
          PROVE  /\ hconfig' \in Settings
                 /\ hconfig'.interval = c.interval /\ hconfig'.timeout = c.timeout
                 /\ hconfig'.min = c.min /\ hconfig'.max = c.max
      <4>1. c \in Settings
        BY HeartbeatAssumption
      <4> QED
        BY <3>0, <3>1, <4>1 DEF Settings
    <3>2. ASSUME NEW n \in NatTimeouts, hconfig' = [hconfig EXCEPT !.nat = n]
          PROVE  /\ hconfig' \in Settings
                 /\ hconfig'.interval = hconfig.interval /\ hconfig'.timeout = hconfig.timeout
                 /\ hconfig'.min = hconfig.min /\ hconfig'.max = hconfig.max
      BY <3>0, <3>2, HeartbeatAssumption DEF Settings
    <3>3. CASE UpdateHeartbeatConfig
      BY <3>1, <3>3 DEF UpdateHeartbeatConfig, UpdateConfig
    <3>4. CASE SetNatTimeout
      BY <1>0, <3>2, <3>4 DEF SetNatTimeout, UpdateConfig, HeartbeatTypeOK
    <3> QED
      BY <1>11, <3>3, <3>4
  <2> QED
    BY <1>t, <1>u, <2>1, <2>2 DEF HeartbeatTypeOK
<1>12. ASSUME NEW s \in {"Foreground", "Background"}, SetAppState(s)  PROVE HeartbeatInv'
  <2>1. /\ UNCHANGED <<hloop, timer, ping, covered, stop, due, silence, verdict>>
        /\ hconfig' = [hconfig EXCEPT !.app = s] /\ wake' \in BOOLEAN
    BY <1>12 DEF SetAppState
  <2>2. hconfig \in Settings
    BY <1>0 DEF HeartbeatTypeOK
  <2>3. /\ hconfig' \in Settings
        /\ hconfig'.interval = hconfig.interval /\ hconfig'.timeout = hconfig.timeout
        /\ hconfig'.min = hconfig.min /\ hconfig'.max = hconfig.max
    BY <2>1, <2>2 DEF Settings
  <2> QED
    BY <1>0, <1>t, <1>u, <2>1, <2>3 DEF HeartbeatTypeOK
<1>13. CASE PeerFallsSilent
  <2>1. /\ silence' = 0 /\ due' \subseteq due
        /\ UNCHANGED <<hconfig, hloop, timer, ping, covered, wake, stop, verdict>>
    BY <1>13 DEF PeerFallsSilent
  <2>2. HeartbeatTypeOK'
    BY <1>c, <1>t, <2>1
  <2>3. Waits' /\ LiveKept' /\ Answering'
    BY <1>0, <1>n, <2>1 DEF Waits, LiveKept, Answering
  <2>4. Silent'
    BY <1>0, <1>d, <1>n, <1>t, <2>1 DEF Silent, Open, Waits
  <2> QED
    BY <2>2, <2>3, <2>4 DEF HeartbeatInv
<1>14. CASE Tick
  <2>1. /\ UNCHANGED <<hconfig, hloop, covered, wake, stop, verdict>>
        /\ due' = {a + 1 : a \in due} /\ \A a \in due : a < RoundTrip
        /\ hloop = "off" \/ (hloop \in {"sleep", "window"} /\ timer > 0)
    BY <1>14 DEF Tick, LoopWaits
  <2>2. due' \subseteq 0 .. RoundTrip
    BY <1>d, <1>n, <2>1
  <2>3. timer' \in Nat /\ (hloop # "off" => timer' = timer - 1)
    BY <1>14, <1>t, <2>1 DEF Tick
  <2>4. /\ ping = Unset => ping' = Unset
        /\ ping # Unset => /\ ping' \in Nat
                           /\ ping <= LongestTimeout => ping' = ping + 1
                           /\ ping > LongestTimeout => ping' > LongestTimeout
    BY <1>14, <1>t, <1>n DEF Tick, Older, AtMost
  <2>5. /\ silence = Unset \/ hloop = "off" => silence' = silence
        /\ silence # Unset => /\ silence' \in Nat
                              /\ silence' <= silence + 1
    <3>1. Patience \in Nat
      BY <1>n DEF Patience, AtLeast
    <3>2. silence' = IF hloop = "off" THEN silence ELSE Older(silence, Patience + 1)
      BY <1>14 DEF Tick
    <3>3. CASE silence = Unset \/ hloop = "off"
      BY <1>t, <3>2, <3>3 DEF Older
    <3>4. CASE silence # Unset /\ hloop # "off"
      <4>1. silence \in Nat /\ silence' = AtMost(silence + 1, Patience + 1)
        BY <1>t, <3>2, <3>4 DEF Older
      <4> QED
        BY <3>1, <3>4, <4>1 DEF AtMost
    <3> QED
      BY <3>3, <3>4
  <2>6. HeartbeatTypeOK'
    BY <1>c, <1>t, <2>1, <2>2, <2>3, <2>4, <2>5
  <2>7. Waits' /\ LiveKept'
    BY <1>0, <1>n, <1>t, <2>1, <2>3, <2>4, <2>5 DEF Waits, LiveKept
  <2>8. Answering'
    <3> SUFFICES ASSUME silence' = Unset, ~stop', hloop' # "ended", Open'
                 PROVE  /\ ping' \in due'
                        /\ hloop' # "probe"
                        /\ hloop' = "window" => ping' + timer' > RoundTrip
      BY DEF Answering
    <3>1. silence = Unset /\ ~stop /\ hloop # "ended" /\ Open
      BY <1>n, <2>1, <2>4, <2>5 DEF Open
    <3>2. ping \in due /\ (hloop = "window" => ping + timer > RoundTrip)
      BY <1>0, <2>1, <3>1 DEF Answering
    <3>3. ping \in Nat /\ ping <= LongestTimeout
      BY <1>d, <1>n, <1>r, <3>2
    <3>4. ping' = ping + 1 /\ ping' \in due'
      BY <1>n, <2>1, <2>4, <3>2, <3>3
    <3>5. hloop' # "probe"
      BY <2>1
    <3>6. hloop' = "window" => ping' + timer' > RoundTrip
      BY <1>t, <1>n, <2>1, <2>3, <3>2, <3>3, <3>4
    <3> QED
      BY <3>4, <3>5, <3>6
  <2>9. Silent'
    <3> SUFFICES ASSUME silence' # Unset, ~stop', hloop' # "ended"
                 PROVE  Silent'
      BY DEF Silent
    <3>1. CASE hloop = "off"
      BY <1>0, <1>n, <2>1, <2>4, <3>1 DEF Silent, Waits, Open
    <3>2. CASE hloop \in {"sleep", "window"}
      <4>0. silence \in Nat /\ silence' \in Nat /\ silence' <= silence + 1
        BY <1>t, <2>5
      <4>1. \A a \in due' : silence' <= a
        BY <1>0, <1>d, <1>n, <2>1, <4>0 DEF Silent
      <4>2. ~Open' => ~Open
        BY <2>1, <2>4, <1>n DEF Open
      <4>3. Open' => Open
        BY <2>1, <2>4, <1>n DEF Open
      <4>4. silence' + timer' <= silence + timer
        <5>1. timer \in Nat /\ timer' \in Nat /\ timer' = timer - 1
          BY <1>t, <2>3, <3>2
        <5> QED
          BY <4>0, <5>1, TimeShifts
      <4>a. timer \in Nat /\ timer' \in Nat
        BY <1>t, <2>3, <3>2
      <4>b. silence + timer \in Nat /\ silence' + timer' \in Nat
        BY <4>0, <4>a, SumNat
      <4>c. /\ Dated \in Nat /\ RoundTrip + PROBE_TIMEOUT \in Nat
            /\ Dated + LongestTimeout + LongestSleep \in Nat
            /\ Dated + LongestTimeout + PROBE_TIMEOUT \in Nat
        BY <1>n, SumNat
      <4>5. ~Open' =>
              /\ hloop' = "sleep" => silence' + timer' <= Dated
              /\ hloop' = "window" => silence' + timer' <= RoundTrip + PROBE_TIMEOUT
        <5>1. ~Open' =>
                /\ hloop' = "sleep" => silence + timer <= Dated
                /\ hloop' = "window" => silence + timer <= RoundTrip + PROBE_TIMEOUT
          BY <1>0, <1>n, <2>1, <4>0, <4>2 DEF Silent
        <5> QED
          BY <4>4, <4>b, <4>c, <5>1, StillWithin
      <4>6. Open' =>
              /\ hloop' = "sleep" => silence' + timer' <= Dated + LongestTimeout + LongestSleep
              /\ hloop' = "window" => silence' + timer' <= Dated + LongestTimeout + PROBE_TIMEOUT
        <5>1. Open' =>
                /\ hloop' = "sleep" => silence + timer <= Dated + LongestTimeout + LongestSleep
                /\ hloop' = "window" => silence + timer <= Dated + LongestTimeout + PROBE_TIMEOUT
          BY <1>0, <1>n, <2>1, <4>0, <4>3 DEF Silent
        <5> QED
          BY <4>4, <4>b, <4>c, <5>1, StillWithin
      <4>7. Open' /\ hloop' = "sleep" /\ ping' <= LongestTimeout => silence' <= Dated + ping'
        <5> SUFFICES ASSUME Open', hloop' = "sleep", ping' <= LongestTimeout
                     PROVE  silence' <= Dated + ping'
          OBVIOUS
        <5>1. ping \in Nat /\ ping <= LongestTimeout /\ ping' = ping + 1
          BY <1>t, <1>n, <2>4, <4>3 DEF Open
        <5>2. silence <= Dated + ping
          BY <1>0, <2>1, <4>0, <4>3, <5>1, <1>n DEF Silent
        <5> QED
          BY <1>n, <4>0, <5>1, <5>2
      <4> QED
        BY <2>1, <3>2, <4>1, <4>5, <4>6, <4>7 DEF Silent
    <3> QED
      BY <2>1, <3>1, <3>2
  <2> QED
    BY <2>6, <2>7, <2>8, <2>9 DEF HeartbeatInv
<1> QED
  BY <1>1, <1>2, <1>3, <1>4, <1>5, <1>6, <1>7, <1>8, <1>9, <1>10, <1>11, <1>12, <1>13, <1>14
     DEF HeartbeatNext, PingSent

\* The inductive invariant of the heartbeat in time.
THEOREM HeartbeatInvariance == HeartbeatSpec => []HeartbeatInv
<1>1. HeartbeatInit => HeartbeatInv
  <2> SUFFICES ASSUME HeartbeatInit PROVE HeartbeatInv
    OBVIOUS
  <2>1. HeartbeatTypeOK
    BY HeartbeatAssumption DEF HeartbeatInit, HeartbeatTypeOK
  <2> QED
    BY <2>1 DEF HeartbeatInit, HeartbeatInv, Waits, Answering, Silent, LiveKept, Open
<1>2. HeartbeatInv /\ [HeartbeatNext]_heartbeatVars => HeartbeatInv'
  <2> SUFFICES ASSUME HeartbeatInv, UNCHANGED heartbeatVars PROVE HeartbeatInv'
    BY HeartbeatInvNext
  <2> QED
    BY DEF heartbeatVars, waitVars, pingVars, signalVars, peerSide, HeartbeatInv, HeartbeatTypeOK,
       Waits, Answering, Silent, LiveKept, Open
<1> QED
  BY <1>1, <1>2, PTL DEF HeartbeatSpec

\* A peer that is gone is found out within Patience, whatever the settings, the
\* probes and the answers still on their way; one that answers is never taken
\* for dead.
THEOREM KeepaliveCorrect == HeartbeatSpec => []Keepalive
<1>1. HeartbeatInv => Keepalive
  <2> SUFFICES ASSUME HeartbeatInv PROVE Keepalive
    OBVIOUS
  <2>0. HeartbeatTypeOK /\ Waits /\ Silent /\ LiveKept
    BY DEF HeartbeatInv
  <2>1. DeadFound
    <3> SUFFICES ASSUME silence # Unset, hloop # "ended", ~stop PROVE silence <= Patience
      BY DEF DeadFound
    <3>1. /\ Unset \notin Nat /\ PROBE_TIMEOUT \in Nat /\ RoundTrip \in Nat
          /\ LongestSleep \in Nat /\ LongestTimeout \in Nat
      BY HeartbeatAssumption, Longest
    <3>2. /\ Patience \in Nat /\ Dated \in Nat
          /\ Dated + LongestTimeout + LongestSleep <= Patience
          /\ Dated + LongestTimeout + PROBE_TIMEOUT <= Patience
          /\ Dated + LongestTimeout <= Patience
          /\ RoundTrip + PROBE_TIMEOUT <= Patience /\ Dated <= Patience /\ RoundTrip <= Patience
      BY <3>1 DEF Patience, Dated, AtLeast
    <3>3. /\ silence \in Nat /\ timer \in Nat /\ ping \in Nat \cup {Unset}
          /\ hloop \in {"off", "top", "sleep", "ping", "probe", "window", "ended"}
      BY <2>0, <3>1 DEF HeartbeatTypeOK
    <3>4. CASE ~Open
      BY <2>0, <3>1, <3>2, <3>3, <3>4 DEF Silent, Waits
    <3>5. CASE Open
      <4>1. hloop \in {"top", "ping"} => ping \in Nat /\ ping <= LongestTimeout
        BY <2>0, <3>1, <3>3, <3>5 DEF Waits, Open
      <4>2. hloop \in {"top", "ping"} => silence <= Dated + ping
        BY <2>0, <3>5, <4>1 DEF Silent
      <4>3. CASE hloop \in {"top", "ping"}
        BY <3>1, <3>2, <3>3, <4>1, <4>2, <4>3
      <4>4. CASE hloop = "off"
        BY <2>0, <3>2, <4>4 DEF Waits
      <4>5. CASE hloop = "sleep"
        <5>1. silence + timer <= Dated + LongestTimeout + LongestSleep
          BY <2>0, <3>5, <4>5 DEF Silent
        <5> QED
          BY <3>1, <3>2, <3>3, <5>1
      <4>6. CASE hloop = "probe"
        <5>1. silence <= Dated + LongestTimeout
          BY <2>0, <3>5, <4>6 DEF Silent
        <5> QED
          BY <3>1, <3>2, <3>3, <5>1
      <4>7. CASE hloop = "window"
        <5>1. silence + timer <= Dated + LongestTimeout + PROBE_TIMEOUT
          BY <2>0, <3>5, <4>7 DEF Silent
        <5> QED
          BY <3>1, <3>2, <3>3, <5>1
      <4> QED
        BY <3>3, <4>3, <4>4, <4>5, <4>6, <4>7
    <3> QED
      BY <3>4, <3>5
  <2> QED
    BY <2>0, <2>1 DEF Keepalive
<1> QED
  BY <1>1, HeartbeatInvariance, PTL
=============================================================================
