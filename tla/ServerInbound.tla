--------------------------- MODULE ServerInbound ---------------------------
(***************************************************************************)
(* What a client sends once its connection is observed: the inbound queue  *)
(* and its one consumer (ConnectionHandlerObserverAdapter), the message    *)
(* pipeline, and ServerMessageWrapper, which calls the application and     *)
(* answers.  Composed with ServerSession, whose CONNECT handler is run by  *)
(* the same consumer, and whose tasks end the connection meanwhile.        *)
(*   queue      frames waiting, [id, kind]; ids in the order of arrival    *)
(*   sent       how many frames the client has sent, CONNECT among them?   *)
(*   work       the frame the consumer is at, and where it is with it      *)
(*   tasks      frames handed to a task of their own                       *)
(*   replies    answers whose task has not sent them yet                   *)
(*   confirmed  negotiation_confirmed of ConnectionInfo                    *)
(*   handled    frames whose handler the consumer called, in that order    *)
(*   answered   ids answered, in the order of their answers                *)
(*   after      handler calls begun for a connection out of the table      *)
(*   refused    connections and ids whose answer send_frame_to refused     *)
(***************************************************************************)
EXTENDS ServerSession

CONSTANTS Capacity,     \* INBOUND_QUEUE_CAPACITY
          FrameKinds,   \* bound: the kinds of frames clients send
          MaxFrames     \* bound: frames of one client

Ordered == {"message", "notification"}    \* awaited by the consumer
Spawned == {"ping", "custom", "event"}    \* handled in tasks

ASSUME InboundAssumption ==
  /\ Capacity \in Nat \ {0} /\ MaxFrames \in Nat
  /\ FrameKinds \subseteq Ordered \cup Spawned \cup {"connect", "ready"}

VARIABLES queue, sent, work, tasks, replies, confirmed, handled, answered, after,
          refused

consumerVars == <<work, tasks, replies, confirmed>>
noteVars == <<handled, answered, after, refused>>
inboundVars == <<queue, sent, consumerVars, noteVars>>
allVars == <<vars, inboundVars>>

NoFrame == [id |-> 0, kind |-> "none"]
NoWork == [frame |-> NoFrame, step |-> "free"]
At(f, step) == [frame |-> f, step |-> step]

InboundInit ==
  /\ Init
  /\ queue = [c \in Conns |-> <<>>] /\ sent = [c \in Conns |-> [n |-> 0, asked |-> FALSE]]
  /\ work = [c \in Conns |-> NoWork]
  /\ tasks = {} /\ replies = {} /\ confirmed = {}
  /\ handled = [c \in Conns |-> <<>>] /\ answered = [c \in Conns |-> <<>>]
  /\ after = [c \in Conns |-> 0] /\ refused = {}

-----------------------------------------------------------------------------

(* on_event: a frame that finds the queue full is dropped.  A client sends *)
(* CONNECT once.                                                           *)
OnMessage(c, k) ==
  /\ c \in observed /\ transport[c] = "open"
  /\ sent[c].n < MaxFrames
  /\ k = "connect" => ~sent[c].asked
  /\ sent' = [sent EXCEPT ![c] = [n |-> @.n + 1, asked |-> @.asked \/ k = "connect"]]
  /\ queue' = [queue EXCEPT ![c] = IF Len(@) < Capacity
                                   THEN Append(@, [id |-> sent[c].n + 1, kind |-> k])
                                   ELSE @]
  /\ UNCHANGED <<vars, consumerVars, noteVars>>

Free(c) == work[c] = NoWork /\ pc[c] \in {"idle", "done"}

(* CONNECT is the one frame looked at after the connection was removed.    *)
TakeConnect(c) ==
  /\ Free(c) /\ queue[c] # <<>> /\ Head(queue[c]).kind = "connect"
  /\ Connect(c)
  /\ queue' = [queue EXCEPT ![c] = Tail(@)]
  /\ UNCHANGED <<sent, consumerVars, noteVars>>

(* Mutant: the frames of a removed connection are handled as well.         *)
TakeFrame_Anyway(c) ==
  /\ Free(c) /\ queue[c] # <<>> /\ Head(queue[c]).kind # "connect"
  /\ work' = [work EXCEPT ![c] = At(Head(queue[c]), "route")]
  /\ queue' = [queue EXCEPT ![c] = Tail(@)]
  /\ UNCHANGED <<vars, sent, tasks, replies, confirmed, noteVars>>

TakeFrame(c) ==
  /\ Free(c) /\ queue[c] # <<>> /\ Head(queue[c]).kind # "connect"
  /\ work' = [work EXCEPT ![c] = IF c \in table THEN At(Head(queue[c]), "route") ELSE @]
  /\ queue' = [queue EXCEPT ![c] = Tail(@)]
  /\ UNCHANGED <<vars, sent, tasks, replies, confirmed, noteVars>>

(* handle_message_event: by the state of the connection, looked up again.  *)
(* Of a connection that left the table since, frames in the negotiated     *)
(* format may not be readable any more.  The pipeline runs next, and the   *)
(* frame goes on whatever it says.                                         *)
Route(c) ==
  /\ work[c].step = "route"
  /\ LET f == work[c].frame
         negotiated == c \in table \cap completed
     IN /\ confirmed' = IF negotiated /\ f.kind = "ready" THEN confirmed \cup {c}
                        ELSE confirmed
        /\ work' \in {[work EXCEPT ![c] = w] : w \in
             IF negotiated
             THEN {IF f.kind = "ready" THEN NoWork ELSE At(f, "handle")}
             ELSE {At(f, "handle")} \cup (IF c \in completed THEN {NoWork} ELSE {})}
  /\ UNCHANGED <<vars, queue, sent, tasks, replies, noteVars>>

(* Mutant: every frame is handled in a task of its own.                    *)
HandleFrame_Spawns(c) ==
  /\ work[c].step = "handle"
  /\ tasks' = tasks \cup {[conn |-> c, frame |-> work[c].frame]}
  /\ work' = [work EXCEPT ![c] = NoWork]
  /\ UNCHANGED <<vars, queue, sent, replies, confirmed, noteVars>>

CallHandler(c, f) ==
  /\ handled' = [handled EXCEPT ![c] = Append(@, f.id)]
  /\ after' = [after EXCEPT ![c] = IF c \in table THEN @ ELSE @ + 1]

(* handle_frame: payload and notification commands are awaited, the others *)
(* are left to a task.                                                     *)
HandleFrame(c) ==
  /\ work[c].step = "handle"
  /\ LET f == work[c].frame
     IN IF f.kind \in Ordered
        THEN /\ CallHandler(c, f)
             /\ work' = [work EXCEPT ![c] = At(f, "handler")] /\ UNCHANGED tasks
        ELSE /\ tasks' = tasks \cup {[conn |-> c, frame |-> f]}
             /\ work' = [work EXCEPT ![c] = NoWork]
             /\ UNCHANGED <<handled, after>>
  /\ UNCHANGED <<vars, queue, sent, replies, confirmed, answered, refused>>

(* Mutant: a handler without an answer sends no ACK.                       *)
HandlerReturns_Silent(c) ==
  /\ work[c].step = "handler"
  /\ \E silent \in BOOLEAN :
       replies' = IF silent THEN replies
                  ELSE replies \cup {[conn |-> c, frame |-> work[c].frame]}
  /\ work' = [work EXCEPT ![c] = NoWork]
  /\ UNCHANGED <<vars, queue, sent, tasks, confirmed, noteVars>>

(* handle_and_send_response: the application's answer, an ACK or an ACK    *)
(* that says it failed; a task of its own sends it.                        *)
HandlerReturns(c) ==
  /\ work[c].step = "handler"
  /\ replies' = replies \cup {[conn |-> c, frame |-> work[c].frame]}
  /\ work' = [work EXCEPT ![c] = NoWork]
  /\ UNCHANGED <<vars, queue, sent, tasks, confirmed, noteVars>>

(* handle_system_command and handle_custom_command, in their task.  A      *)
(* NEGOTIATION_READY that came too early confirms nothing.                 *)
TaskRuns(t) ==
  /\ t \in tasks /\ tasks' = tasks \ {t}
  /\ IF t.frame.kind = "ready"
     THEN /\ confirmed' = IF t.conn \in table \cap completed
                          THEN confirmed \cup {t.conn} ELSE confirmed
          /\ UNCHANGED <<replies, handled, after>>
     ELSE /\ replies' = replies \cup {t} /\ UNCHANGED confirmed
          /\ IF t.frame.kind \in Ordered THEN CallHandler(t.conn, t.frame)
             ELSE UNCHANGED <<handled, after>>
  /\ UNCHANGED <<vars, queue, sent, work, answered, refused>>

(* send_frame_to: PONG goes out before authentication, too; any other      *)
(* answer is refused, and the connection kept.                             *)
MayAnswer(r) ==
  r.conn \in table /\ (r.conn \in authenticated \/ r.frame.kind = "ping")

SendReply(r) ==
  /\ r \in replies /\ replies' = replies \ {r}
  /\ answered' = IF MayAnswer(r)
                 THEN [answered EXCEPT ![r.conn] = Append(@, r.frame.id)] ELSE answered
  /\ refused' = IF r.conn \in table /\ ~MayAnswer(r)
                THEN refused \cup {<<r.conn, r.frame.id>>} ELSE refused
  /\ UNCHANGED <<vars, queue, sent, work, tasks, confirmed, handled, after>>

(* The write queue does not take it: the connection is evicted.            *)
SendReplyFails(r) ==
  /\ r \in replies /\ MayAnswer(r)
  /\ replies' = replies \ {r}
  /\ table' = table \ {r.conn}
  /\ UNCHANGED <<deviceVars, setupVars, pc, disc, login, infoVars, kickVars, outVars,
                 app, queue, sent, work, tasks, confirmed, noteVars>>

-----------------------------------------------------------------------------

Consumer(c) ==
  TakeConnect(c) \/ TakeFrame(c) \/ Route(c) \/ HandleFrame(c)
  \/ HandlerReturns(c)

(* ServerSession's steps but Connect, which waits for its frame here.      *)
SessionNext(c) ==
  \/ AddConnection(c) \/ Setup(c) \/ Handler(c)
  \/ ServerDisconnect(c) \/ TransportBreaks(c) \/ TransportCloses(c)
  \/ Disconnecting(c)
  \/ PushSnapshot(c) \/ PushWrite(c) \/ PushFails(c) \/ PushEvicts(c) \/ PushDrop(c)

InboundNext ==
  \/ \E c \in Conns : SessionNext(c) /\ UNCHANGED inboundVars
  \/ \E c \in Conns, k \in FrameKinds : OnMessage(c, k)
  \/ \E c \in Conns : Consumer(c)
  \/ \E t \in tasks : TaskRuns(t)
  \/ \E r \in replies : SendReply(r) \/ SendReplyFails(r)

(* The consumer and the spawned tasks run on, but for a write without a    *)
(* timeout, and the application's handlers return.  Clients, transports,   *)
(* pushes and the server's own disconnects owe nothing.                    *)
InboundFairness ==
  /\ \A c \in Conns :
       /\ WF_allVars(Setup(c) /\ UNCHANGED inboundVars)
       /\ WF_allVars(~Hung(c) /\ Handler(c) /\ UNCHANGED inboundVars)
       /\ WF_allVars(Disconnecting(c) /\ UNCHANGED inboundVars)
       /\ WF_allVars(Consumer(c))
  /\ WF_allVars(\E t \in tasks : TaskRuns(t))
  /\ WF_allVars(\E r \in replies : SendReply(r))

InboundSpec == InboundInit /\ [][InboundNext]_allVars /\ InboundFairness

-----------------------------------------------------------------------------

(* The consumer calls the handlers of one connection in the order its      *)
(* frames arrived, and answers no frame twice (the comments on the inbound *)
(* queue in observer.rs).                                                  *)
InOrder ==
  \A c \in Conns :
    /\ \A i, j \in DOMAIN handled[c] : i < j => handled[c][i] < handled[c][j]
    /\ \A i, j \in DOMAIN answered[c] : answered[c][i] = answered[c][j] => i = j

(* Once a connection is out of the table, whoever removed it, the consumer *)
(* calls no more than the one handler it was on its way to.                *)
OneAfterRemoval == \A c \in Conns : after[c] <= 1

(* No frame is forgotten: the queue is worked off, unless the CONNECT      *)
(* handler in it waits for good for a peer that does not read; and a frame *)
(* whose handler was called is answered, unless the connection has left    *)
(* the table or the answer was refused because the client, who may send    *)
(* before CONNECT is through, was not authenticated yet.                   *)
Answered ==
  \A c \in Conns :
    /\ <>[]Hung(c) \/ (queue[c] # <<>> ~> queue[c] = <<>>)
    /\ \A n \in 1..MaxFrames :
         (\E i \in DOMAIN handled[c] : handled[c][i] = n) ~>
           \/ \E i \in DOMAIN answered[c] : answered[c][i] = n
           \/ c \notin table
           \/ <<c, n>> \in refused
=============================================================================
