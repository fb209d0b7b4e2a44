-------------------------------- MODULE Wire --------------------------------
(***************************************************************************)
(* One connection from the builders' setters to frames both sides can read:*)
(* configuration, CONNECT, CONNECT_ACK, NEGOTIATION_READY, the switch of   *)
(* both parsers, and the frames sent while all that happens.               *)
(*   ckind, skind, ccfg, scfg, calls                                       *)
(*                  the builders, their configurations so far and how many *)
(*                  setters were called                                    *)
(*   creg, sreg     the codec registries of the two processes              *)
(*   prof           what the two builds came to                            *)
(*   cparser, cdone parser and negotiation_completed of the client core    *)
(*   ended          the client has handled the end of the connection       *)
(*   tasks, acking  client tasks, one per inbound frame, each with the     *)
(*                  negotiated flag at receipt; the task of CONNECT_ACK    *)
(*                  between the switch and NEGOTIATION_READY               *)
(*   pparser, build parser of the message pipeline, progress of building   *)
(*   ptasks         frames in tasks of the listener's observer             *)
(*   sstate, sparser  negotiation state of the connection at the server    *)
(*   pushed         server frames encoded and in the write queue           *)
(*   encoded        client frames encoded and not yet written              *)
(*   toServer, toClient  the two directions of the connection              *)
(*   heard, lost    what the handlers of server and client core got, and   *)
(*                  what these two and the listener failed to parse        *)
(*   stale          client frames encoded before the switch and written    *)
(*                  after NEGOTIATION_READY                                *)
(*   late           frames the server encoded once it knew of the switch   *)
(*   dropped        client frames a full inbound queue of the server took  *)
(*                  no room for                                            *)
(*   outrun         server frames the client handled while it was not      *)
(*                  switched, neither at receipt nor then                  *)
(***************************************************************************)
EXTENDS Negotiation

CONSTANTS ClientMsgs, ServerMsgs,   \* frames of the applications
          Calls,                    \* bound: the calls of setters, by side
          MaxCalls,                 \* bound: how many of them
          ClientRegs, ServerRegs,   \* what the processes have registered
          Kinds,                    \* pairs of builders
          INBOUND_QUEUE_CAPACITY    \* frames of a connection the server keeps

Control == {"CONNECT", "CONNECT_ACK", "NEGOTIATION_READY", "ERROR", "KICKED"}

(* The setters are typed, register_defaults runs in every process, and the *)
(* frames of an application are none of the negotiation's.                 *)
ASSUME WireAssumption ==
  /\ Kinds \subseteq ClientKinds \X ServerKinds /\ MaxCalls \in Nat
  /\ \A c \in Calls.client : c[1] \in STRING /\ ClientCall(c[1], c[2])
  /\ \A c \in Calls.server : c[1] \in STRING /\ ServerCall(c[1], c[2])
  /\ ClientRegs \cup ServerRegs \subseteq Registries
  /\ \A r \in ClientRegs \cup ServerRegs : CompressionRegistered(r, "none")
  /\ (ClientMsgs \cup ServerMsgs) \cap Control = {}
ASSUME CapacityAssumption == INBOUND_QUEUE_CAPACITY \in Nat \ {0}

VARIABLES ckind, skind, ccfg, scfg, calls, creg, sreg, prof,
          cparser, cdone, ended, tasks, acking, pparser, build, ptasks,
          sstate, sparser, pushed, encoded, toServer, toClient,
          heard, lost, stale, late, dropped, outrun

configVars == <<ckind, skind, ccfg, scfg, calls, creg, sreg, prof>>
coreVars == <<cparser, cdone, ended, tasks, acking, encoded>>
listenerVars == <<pparser, build, ptasks>>
serverVars == <<sstate, sparser, pushed>>
lineVars == <<toServer, toClient>>
logVars == <<heard, lost, stale, late, dropped, outrun>>
vars == <<configVars, coreVars, listenerVars, serverVars, lineVars, logVars>>

Sides == {"server", "client", "listener"}
NoProfile == [built |-> FALSE]
NoMsgs == [s \in Sides |-> {}]

Init ==
  /\ \E k \in Kinds : ckind = k[1] /\ skind = k[2]
  /\ ccfg = ClientDefaults /\ scfg = ServerDefaults /\ calls = 0
  /\ creg \in ClientRegs /\ sreg \in ServerRegs /\ prof = NoProfile
  /\ cparser = PRE_NEGOTIATION_PARSER /\ cdone = FALSE /\ ended = FALSE
  /\ tasks = {} /\ acking = "no"
  /\ pparser = PRE_NEGOTIATION_PARSER /\ build = "no" /\ ptasks = {}
  /\ sstate = "pre" /\ sparser = PRE_NEGOTIATION_PARSER /\ pushed = <<>>
  /\ encoded = {} /\ toServer = <<>> /\ toClient = <<>>
  /\ heard = NoMsgs /\ lost = NoMsgs /\ stale = {} /\ late = {}
  /\ dropped = {} /\ outrun = {}

-----------------------------------------------------------------------------
(* The application configures and builds.                                  *)

CallClient ==
  /\ ~prof.built /\ calls < MaxCalls
  /\ \E c \in Calls.client :
       /\ c[1] \in ClientSetters[ckind]
       /\ ccfg' = SetClient(ccfg, c[1], c[2])
  /\ calls' = calls + 1
  /\ UNCHANGED <<ckind, skind, scfg, creg, sreg, prof, coreVars, listenerVars,
                 serverVars, lineVars, logVars>>

CallServer ==
  /\ ~prof.built /\ calls < MaxCalls
  /\ \E c \in Calls.server :
       /\ c[1] \in ServerSetters[skind]
       /\ scfg' = SetServer(scfg, c[1], c[2])
  /\ calls' = calls + 1
  /\ UNCHANGED <<ckind, skind, ccfg, creg, sreg, prof, coreVars, listenerVars,
                 serverVars, lineVars, logVars>>

(* HybridClient: may a frame be sent while the negotiation runs?           *)
MaySendEarly(kind, cfg) ==
  kind = "direct" /\ (~cfg.reconnect_on_send \/ cfg.transport = "quic" \/ IsRace(cfg))

Listener == [name |-> "listener", outcome |-> "pass"]

Profile ==
  [built |-> TRUE, forced |-> IsForced(ccfg), race |-> IsRace(ccfg),
   early |-> MaySendEarly(ckind, ccfg), auth |-> AuthEnabled(scfg),
   initial |-> InitialParser(ccfg), connect |-> ConnectParser(ccfg),
   metadata |-> ConnectMetadata(ccfg, creg),
   open |-> Before(FlarePipeline(ccfg, Listener)) = "pass",
   reaches |-> Listener.name \in Reached(FlarePipeline(ccfg, Listener)),
   result |-> Determine(scfg, ParseConnect(ConnectMetadata(ccfg, creg)))]

(* Both builders are used up, and the connection is there: CONNECT is      *)
(* written.  The observers of simple and observer clients are on it.       *)
Connect ==
  /\ ~prof.built
  /\ ClientBuilds(ckind, ccfg) /\ ServerBuilds(skind, scfg)
  /\ prof' = Profile
  /\ cparser' = InitialParser(ccfg)
  /\ toServer' = <<Serialize(creg, ConnectParser(ccfg), "CONNECT")>>
  /\ build' = IF ckind = "flare" THEN "connected" ELSE "done"
  /\ ccfg' = ClientDefaults /\ scfg' = ServerDefaults /\ calls' = 0
  /\ UNCHANGED <<ckind, skind, creg, sreg, cdone, ended, tasks, acking, encoded,
                 pparser, ptasks, serverVars, toClient, logVars>>

-----------------------------------------------------------------------------
(* The server: one worker takes the frames of a connection in turn.        *)

NoteLost(side, m) == lost' = [lost EXCEPT ![side] = @ \cup {m}]
NoteHeard(side, m) == heard' = [heard EXCEPT ![side] = @ \cup {m}]

(* handle_pre_negotiation_message.                                         *)
TakeBeforeNegotiation ==
  /\ sstate = "pre" /\ toServer # <<>>
  /\ toServer' = Tail(toServer)
  /\ LET d == Head(toServer)
     IN IF ~Parses(sreg, PRE_NEGOTIATION_PARSER, TRUE, d)
        THEN NoteLost("server", d.msg) /\ UNCHANGED <<heard, sstate>>
        ELSE /\ NoteHeard("server", d.msg) /\ UNCHANGED lost
             /\ sstate' = IF d.msg = "CONNECT" THEN "accepted" ELSE sstate
  /\ UNCHANGED <<configVars, coreVars, listenerVars, sparser, pushed, toClient,
                 stale, late, dropped, outrun>>

(* handle_connect_complete: the frames of the handshake are written past   *)
(* the write queue.                                                        *)
SendAck ==
  /\ sstate = "accepted"
  /\ sstate' = "acked"
  /\ toClient' = Append(toClient, Serialize(sreg, PRE_NEGOTIATION_PARSER, "CONNECT_ACK"))
  /\ UNCHANGED <<configVars, coreVars, listenerVars, sparser, pushed, toServer,
                 logVars>>

(* The handler's error makes the worker remove the connection, which       *)
(* closes the write queue; line is what was written before.                *)
CloseAfter(line) ==
  /\ sstate' = "closed" /\ pushed' = <<>> /\ toClient' = line
  /\ UNCHANGED <<configVars, coreVars, listenerVars, sparser, toServer, logVars>>

(* The authenticator refuses CONNECT; the ERROR that says why is written   *)
(* within a bound of time or not at all.                                   *)
RefuseConnect ==
  /\ sstate = "accepted" /\ prof.auth
  /\ \/ CloseAfter(toClient)
     \/ CloseAfter(Append(toClient, Serialize(sreg, PRE_NEGOTIATION_PARSER, "ERROR")))

(* CONNECT_ACK cannot be written.                                          *)
AckFails == sstate = "accepted" /\ CloseAfter(toClient)

(* finalize_negotiation_after_ack: the parser of the negotiation, not of   *)
(* the CONNECT_ACK.                                                        *)
FinalizeNegotiation ==
  /\ sstate = "acked"
  /\ sstate' = "finalized" /\ sparser' = prof.result
  /\ UNCHANGED <<configVars, coreVars, listenerVars, pushed, lineVars, logVars>>

(* The application's on_connect takes the connection, or refuses it: then  *)
(* KICKED follows CONNECT_ACK in the agreed encoding, if it can be written.*)
OnConnect ==
  /\ sstate = "finalized" /\ sstate' = "completed"
  /\ UNCHANGED <<configVars, coreVars, listenerVars, sparser, pushed, lineVars,
                 logVars>>

OnConnectRefuses ==
  /\ sstate = "finalized"
  /\ \/ CloseAfter(toClient)
     \/ /\ CanSerialize(sreg, sparser)
        /\ CloseAfter(Append(toClient, Serialize(sreg, sparser, "KICKED")))

IsReady(d) == d.msg = "NEGOTIATION_READY" /\ Parses(sreg, PRE_NEGOTIATION_PARSER, TRUE, d)

(* handle_negotiated_message: NEGOTIATION_READY ends the tolerance for     *)
(* frames that are not encoded as agreed.                                  *)
TakeNegotiated ==
  /\ sstate \in {"completed", "confirmed"} /\ toServer # <<>>
  /\ toServer' = Tail(toServer)
  /\ LET d == Head(toServer)
     IN IF IsReady(d)
        THEN sstate' = "confirmed" /\ UNCHANGED <<heard, lost>>
        ELSE /\ IF /\ EncryptionRegistered(sreg, sparser.encryption)
                   /\ Parses(sreg, sparser, sstate = "completed", d)
                THEN NoteHeard("server", d.msg) /\ UNCHANGED lost
                ELSE NoteLost("server", d.msg) /\ UNCHANGED heard
             /\ UNCHANGED sstate
  /\ UNCHANGED <<configVars, coreVars, listenerVars, sparser, pushed, toClient,
                 stale, late, dropped, outrun>>

(* serialize_frame_for_connection, by the negotiation state of the moment. *)
PushParser == IF sstate \in {"finalized", "completed", "confirmed"} THEN sparser
              ELSE PRE_NEGOTIATION_PARSER

Pending(m) ==
  /\ \A i \in DOMAIN pushed : pushed[i].msg # m
  /\ \A i \in DOMAIN toClient : toClient[i].msg # m
  /\ \A t \in tasks : t.data.msg # m
  /\ m \notin heard["client"] \cup lost["client"]

Push(m) ==
  /\ prof.built /\ sstate # "closed" /\ Pending(m)
  /\ sstate = "pre" => ~prof.auth
  /\ CanSerialize(sreg, PushParser)
  /\ pushed' = Append(pushed, Serialize(sreg, PushParser, m))
  /\ late' = IF sstate = "confirmed" THEN late \cup {m} ELSE late
  /\ UNCHANGED <<configVars, coreVars, listenerVars, sstate, sparser, lineVars,
                 heard, lost, stale, dropped, outrun>>

WritePushed ==
  /\ pushed # <<>>
  /\ pushed' = Tail(pushed) /\ toClient' = Append(toClient, Head(pushed))
  /\ UNCHANGED <<configVars, coreVars, listenerVars, sstate, sparser, toServer,
                 logVars>>

-----------------------------------------------------------------------------
(* The client core.                                                        *)

(* The reader hands every frame to a task, with the flag of the moment.    *)
CRead ==
  /\ toClient # <<>>
  /\ toClient' = Tail(toClient)
  /\ tasks' = tasks \cup {[data |-> Head(toClient), negotiated |-> cdone]}
  /\ UNCHANGED <<configVars, cparser, cdone, ended, acking, encoded, listenerVars,
                 serverVars, toServer, logVars>>

(* The reader finds the end of the stream: the flag is reset.  It waits    *)
(* for the tasks of a switched client, but only for a bounded time.        *)
CClose ==
  /\ sstate = "closed" /\ toClient = <<>> /\ ~ended
  /\ ended' = TRUE /\ cdone' = FALSE
  /\ UNCHANGED <<configVars, cparser, tasks, acking, encoded, listenerVars,
                 serverVars, lineVars, logVars>>

(* Mutant: a frame read before the switch is tried with the first parser   *)
(* only.                                                                   *)
CoreParses_NoRetry(t) ==
  Parses(creg, IF t.negotiated THEN cparser ELSE PRE_NEGOTIATION_PARSER, TRUE, t.data)

(* handle_received_message: a frame read before the switch is tried with   *)
(* the agreed parser once the switch has been made.                        *)
CoreParses(t) ==
  \/ ~t.negotiated /\ Parses(creg, PRE_NEGOTIATION_PARSER, TRUE, t.data)
  \/ (t.negotiated \/ cdone) /\ Parses(creg, cparser, TRUE, t.data)

Attached == build # "connected"
Notify(d) == ptasks' = IF Attached THEN ptasks \cup {d} ELSE ptasks

(* Any frame but CONNECT_ACK: its handlers are told, and the observers.    *)
TaskFrame(t) ==
  /\ t \in tasks /\ t.data.msg # "CONNECT_ACK"
  /\ tasks' = tasks \ {t}
  /\ IF CoreParses(t)
     THEN NoteHeard("client", t.data.msg) /\ Notify(t.data) /\ UNCHANGED lost
     ELSE NoteLost("client", t.data.msg) /\ UNCHANGED <<heard, ptasks>>
  /\ outrun' = IF t.negotiated \/ cdone THEN outrun ELSE outrun \cup {t.data.msg}
  /\ UNCHANGED <<configVars, cparser, cdone, ended, acking, encoded, pparser, build,
                 serverVars, lineVars, stale, late, dropped>>

(* handle_connect_ack_command: the parser and the flag, under one lock. A  *)
(* forced client keeps its parser.                                         *)
TaskAck(t) ==
  /\ t \in tasks /\ t.data.msg = "CONNECT_ACK" /\ CoreParses(t) /\ acking = "no"
  /\ cparser' = IF prof.forced THEN cparser
                ELSE HandleConnectAck(ConnectAck(sreg, prof.result))
  /\ cdone' = TRUE /\ acking' = "switched"
  /\ UNCHANGED <<configVars, ended, tasks, encoded, listenerVars, serverVars,
                 lineVars, logVars>>

(* A frame goes to the server, whose inbound queue drops what comes while  *)
(* it is full.                                                             *)
Deliver(d) ==
  \/ toServer' = Append(toServer, d) /\ UNCHANGED dropped
  \/ /\ Len(toServer) >= INBOUND_QUEUE_CAPACITY
     /\ dropped' = dropped \cup {d.msg} /\ UNCHANGED toServer

(* Mutant: NEGOTIATION_READY goes out in the agreed encoding.              *)
SendReady_Negotiated ==
  /\ acking = "switched"
  /\ acking' = "ready"
  /\ Deliver(Serialize(creg, IF CanSerialize(creg, cparser) THEN cparser
                             ELSE PRE_NEGOTIATION_PARSER, "NEGOTIATION_READY"))
  /\ \E t \in tasks : /\ t.data.msg = "CONNECT_ACK"
                      /\ tasks' = tasks \ {t} /\ Notify(t.data)
  /\ UNCHANGED <<configVars, cparser, cdone, ended, encoded, pparser, build,
                 serverVars, toClient, heard, lost, stale, late, outrun>>

(* send_negotiation_ready, and then the observers hear of the CONNECT_ACK. *)
SendReady ==
  /\ acking = "switched"
  /\ acking' = "ready"
  /\ Deliver(Serialize(creg, PRE_NEGOTIATION_PARSER, "NEGOTIATION_READY"))
  /\ \E t \in tasks : /\ t.data.msg = "CONNECT_ACK"
                      /\ tasks' = tasks \ {t} /\ Notify(t.data)
  /\ UNCHANGED <<configVars, cparser, cdone, ended, encoded, pparser, build,
                 serverVars, toClient, heard, lost, stale, late, outrun>>

Unsent(m) ==
  /\ \A d \in encoded : d.msg # m
  /\ \A i \in DOMAIN toServer : toServer[i].msg # m
  /\ m \notin heard["server"] \cup lost["server"] \cup dropped

(* send_frame_internal: serialized under the parser lock, written under    *)
(* the lock of the connection.                                             *)
Encode(m) ==
  /\ prof.built /\ Unsent(m) /\ build = "done" /\ ~ended
  /\ cdone \/ prof.early
  /\ CanSerialize(creg, cparser)
  /\ encoded' = encoded \cup {Serialize(creg, cparser, m)}
  /\ stale' = IF cdone THEN stale ELSE stale \cup {m}
  /\ UNCHANGED <<configVars, cparser, cdone, ended, tasks, acking, listenerVars,
                 serverVars, lineVars, heard, lost, late, dropped, outrun>>

Write(d) ==
  /\ d \in encoded
  /\ encoded' = encoded \ {d} /\ Deliver(d)
  /\ stale' = IF acking = "ready" THEN stale ELSE stale \ {d.msg}
  /\ UNCHANGED <<configVars, cparser, cdone, ended, tasks, acking, listenerVars,
                 serverVars, toClient, heard, lost, late, outrun>>

-----------------------------------------------------------------------------
(* The application's listener.                                             *)

(* FlareClient: observed once connected, the pipeline's parser is then set *)
(* from the core the wrapper sees.  Over a race that is not the core that  *)
(* negotiated.                                                             *)
AttachListener ==
  /\ build = "connected" /\ build' = "attached"
  /\ UNCHANGED <<configVars, coreVars, pparser, ptasks, serverVars, lineVars,
                 logVars>>

UpdatePipeline ==
  /\ build = "attached" /\ cdone
  /\ build' = "done"
  /\ pparser' = IF prof.race THEN prof.initial ELSE cparser
  /\ UNCHANGED <<configVars, coreVars, ptasks, serverVars, lineVars, logVars>>

(* wait_for_negotiation times out: build drops the client, and with it the *)
(* connection.                                                             *)
BuildFails ==
  /\ build = "attached" /\ ~cdone
  /\ build' = "failed"
  /\ UNCHANGED <<configVars, coreVars, pparser, ptasks, serverVars, lineVars,
                 logVars>>

(* FlareObserver: CONNECT_ACK changes the pipeline's parser as well.       *)
SimpleParser == NewParser("protobuf", "none", "none")
Listen(d) ==
  /\ d \in ptasks /\ ptasks' = ptasks \ {d}
  /\ pparser' = IF ckind = "flare" /\ d.msg = "CONNECT_ACK"
                THEN HandleConnectAck(ConnectAck(sreg, prof.result)) ELSE pparser
  /\ LET p == IF ckind = "simple" THEN SimpleParser ELSE pparser
     IN IF \/ build # "done"
           \/ /\ \/ ckind \in {"observer", "direct"} \/ d.msg = "CONNECT_ACK"
                 \/ Parses(creg, p, TRUE, d)
              /\ ckind = "flare" => prof.reaches
        THEN UNCHANGED lost
        ELSE NoteLost("listener", d.msg)
  /\ UNCHANGED <<configVars, coreVars, build, serverVars, lineVars, heard, stale, late,
                 dropped, outrun>>

Next ==
  /\ build # "failed"
  /\ \/ CallClient \/ CallServer \/ Connect
     \/ TakeBeforeNegotiation \/ SendAck \/ RefuseConnect \/ AckFails
     \/ FinalizeNegotiation \/ OnConnect \/ OnConnectRefuses \/ TakeNegotiated
     \/ \E m \in ServerMsgs : Push(m)
     \/ WritePushed \/ CRead \/ CClose \/ \E t \in tasks : TaskFrame(t) \/ TaskAck(t)
     \/ SendReady \/ \E m \in ClientMsgs : Encode(m)
     \/ \E d \in encoded : Write(d)
     \/ AttachListener \/ UpdatePipeline \/ BuildFails \/ \E d \in ptasks : Listen(d)

(* Every task gets its turn; what applications do is up to them.  An       *)
(* authenticator and on_connect answer, one way or the other.              *)
Fairness ==
  /\ WF_vars(TakeBeforeNegotiation) /\ WF_vars(SendAck \/ RefuseConnect \/ AckFails)
  /\ WF_vars(FinalizeNegotiation) /\ WF_vars(OnConnect \/ OnConnectRefuses)
  /\ WF_vars(TakeNegotiated) /\ WF_vars(CRead)
  /\ WF_vars(\E t \in tasks : TaskAck(t)) /\ WF_vars(SendReady)
  /\ WF_vars(AttachListener) /\ WF_vars(UpdatePipeline \/ BuildFails)

Spec == Init /\ [][Next]_vars /\ Fairness

-----------------------------------------------------------------------------
(* The two processes can do what was agreed: what the server announces is  *)
(* what it uses, the client can undo it and uses it, and CONNECT itself    *)
(* can be read.                                                            *)
Supported ==
  /\ Parses(sreg, PRE_NEGOTIATION_PARSER, TRUE, Serialize(creg, prof.connect, "CONNECT"))
  /\ ConnectAck(sreg, prof.result) = prof.result
  /\ prof.forced => prof.result = prof.initial
  /\ LET both == Serialize(sreg, prof.result, "m")
     IN Parses(creg, prof.result, FALSE, both) /\ Parses(sreg, prof.result, FALSE, both)
  /\ EncryptionRegistered(creg, prof.result.encryption)
  /\ Serialize(creg, prof.result, "m") = Serialize(sreg, prof.result, "m")

(* Encoded frames, and the tasks of the client core.                       *)
Msgs == ClientMsgs \cup ServerMsgs \cup Control
Data == [msg : Msgs, format : Formats, compression : CompressionNames,
         sealed : Keys \cup {"none"}]
Tasks == [data : Data, negotiated : BOOLEAN]

TypeOK ==
  /\ ckind \in ClientKinds /\ skind \in ServerKinds /\ calls \in 0 .. MaxCalls
  /\ Typed(ccfg, ClientTypes) /\ Typed(scfg, ServerTypes)
  /\ creg \in ClientRegs /\ sreg \in ServerRegs
  /\ cparser \in Parsers /\ pparser \in Parsers /\ sparser \in Parsers
  /\ cdone \in BOOLEAN /\ ended \in BOOLEAN /\ acking \in {"no", "switched", "ready"}
  /\ build \in {"no", "connected", "attached", "done", "failed"}
  /\ sstate \in {"pre", "accepted", "acked", "finalized", "completed", "confirmed",
                 "closed"}
  /\ pushed \in Seq(Data) /\ toServer \in Seq(Data) /\ toClient \in Seq(Data)
  /\ tasks \subseteq Tasks /\ encoded \subseteq Data /\ ptasks \subseteq Data
  /\ heard \in [Sides -> SUBSET Msgs] /\ lost \in [Sides -> SUBSET Msgs]
  /\ stale \subseteq ClientMsgs /\ late \subseteq ServerMsgs
  /\ dropped \subseteq Msgs /\ outrun \subseteq Msgs

(* Of the client's frames that reach the server's worker, it can read      *)
(* every one but those encoded before the switch and written after the     *)
(* frame that announces it.                                                *)
ServerReads == (prof.built /\ Supported) => lost["server"] \subseteq stale

(* Of the server's frames that the client reads, those between CONNECT_ACK *)
(* and NEGOTIATION_READY and the KICKED of a refusing on_connect included, *)
(* a task fails only on one it handles while the client has not switched   *)
(* (not yet, or not any more, for the connection is gone): being read      *)
(* before the switch costs a frame nothing if its task comes after it.     *)
(* What the server encodes once it knows of the switch is never lost.      *)
ClientReads ==
  (prof.built /\ Supported) =>
    lost["client"] \subseteq outrun /\ lost["client"] \cap late = {}

(* What a side may lose around the switch is at most what its peer encoded *)
(* for another moment than the one it is handled at: stale frames at the   *)
(* server, outrun ones at the client.                                      *)
SwitchLossless == ServerReads /\ ClientReads

(* The server compresses what it sends with what the client asked for or   *)
(* with what it can undo.                                                  *)
CompressionAccepted ==
  \A i \in DOMAIN toClient :
    \/ toClient[i].compression \in creg.compressors
    \/ toClient[i].compression = CompressionFromStr(prof.metadata.compression)

(* Once a FlareClient on one protocol is built, its listener hears what    *)
(* its core hears, whatever other processors there are, unless one of its  *)
(* middlewares takes the frame.                                            *)
FlareHears ==
  (prof.built /\ Supported /\ ckind = "flare" /\ ~prof.race /\ prof.open)
    => lost["listener"] = {}

(* A client the server can understand gets the connection confirmed,       *)
(* unless building it timed out, the server ended the connection (refused  *)
(* by the authenticator or on_connect, CONNECT_ACK not written), or the    *)
(* inbound queue was full when NEGOTIATION_READY came; building a          *)
(* FlareClient ends.                                                       *)
Negotiates ==
  /\ (prof.built /\ Supported)
       ~> \/ sstate \in {"confirmed", "closed"} \/ build = "failed"
          \/ "NEGOTIATION_READY" \in dropped
  /\ (build = "connected") ~> (build \in {"done", "failed"})
=============================================================================
