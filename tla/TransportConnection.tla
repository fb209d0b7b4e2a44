------------------------ MODULE TransportConnection ------------------------
(***************************************************************************)
(* One connection of the transport layer, WebSocket, QUIC or TCP: its      *)
(* reader task, its observers and the methods of the Connection trait.     *)
(*                                                                         *)
(* The methods take &mut self and the connection is shared behind one      *)
(* lock, so they exclude each other; the reader runs beside them and       *)
(* shares is_closed, the list of observers, the gate and the lock of the   *)
(* writing half with them.  A step ends where the code awaits, or between  *)
(* two of those shared objects.                                            *)
(*   transport   which of the three it is                                  *)
(*   is_closed, observers, gate                                            *)
(*               the flag, the registered observers, the permit of         *)
(*               reader_gate                                               *)
(*   method      the method in progress and the observer it works on       *)
(*   reader, item, batch                                                   *)
(*               where the reader is, what it has read and whom it has     *)
(*               still to tell                                             *)
(*   telling     whom the closing method has still to tell                 *)
(*   writer      who holds the writing half                                *)
(*   wire, frames                                                          *)
(*               what the peer has sent and the reader has not read, and   *)
(*               how many messages the peer has sent                       *)
(*   heard       what each observer was told                               *)
(*   asked, removed, first                                                 *)
(*               the observers added so far, the ones removed and the      *)
(*               first one registered                                      *)
(***************************************************************************)
EXTENDS Naturals, Sequences, Functions

CONSTANTS Transports,  \* the transports of an instance
          Observers,
          None,
          MaxFrames    \* bound: frames the peer sends

ASSUME TransportAssumption ==
  /\ Transports \subseteq {"websocket", "quic", "tcp"}
  /\ None \notin Observers
  /\ MaxFrames \in Nat

VARIABLES transport, is_closed, observers, gate, method, reader, item, batch,
          telling, writer, wire, frames, heard, asked, removed, first

sharedVars == <<is_closed, observers, gate>>
readerVars == <<reader, item, batch>>
methodVars == <<method, telling>>
peerVars == <<wire, frames>>
historyVars == <<asked, removed, first>>
vars == <<transport, sharedVars, readerVars, methodVars, writer,
          peerVars, heard, historyVars>>

(* What the peer can put on the wire.  A frame carries its number.         *)
(*   empty        a frame of length zero: a message only on WebSocket      *)
(*   end          the peer ends its side: EOF, stream end, or a Close      *)
(*   cut_prefix, cut_payload                                               *)
(*                it ends within the length prefix, or within the payload  *)
(*   reset        the connection is reset, times out, or is closed by the  *)
(*                peer's application                                       *)
(*   invalid      a length over the limit, a protocol violation            *)
(*   ping, pong   WebSocket control frames                                 *)
Ends == {"empty", "end", "cut_prefix", "cut_payload", "reset", "invalid"}
Item(what, n) == [what |-> what, n |-> n]
Items == {Item(w, 0) : w \in Ends \cup {"ping"}} \cup
         {Item(w, n) : w \in {"frame", "pong", "empty"}, n \in 1 .. MaxFrames}

Final(it) == it.what \in Ends /\ it.n = 0

Nothing == Item("nothing", 0)

(* What an observer is told.                                               *)
Event(what, n) == [what |-> what, n |-> n]
Events == {Event(w, 0) : w \in {"Connected", "Disconnected", "Error"}} \cup
          {Event("Message", n) : n \in 0 .. MaxFrames}
Terminal(e) == e.what \in {"Disconnected", "Error"}

Idle == [step |-> "idle", observer |-> None]

Init ==
  /\ transport \in Transports
  /\ is_closed = FALSE /\ observers = <<>> /\ gate = FALSE
  /\ method = Idle /\ telling = <<>>
  /\ reader = "gate" /\ item = Nothing /\ batch = <<>>
  /\ writer = "free"
  /\ wire = <<>> /\ frames = 0
  /\ heard = [o \in Observers |-> <<>>] /\ asked = {} /\ removed = {}
  /\ first = None

Tell(o, e) == heard' = [heard EXCEPT ![o] = Append(@, e)]
Closed == Event("Disconnected", 0)

-----------------------------------------------------------------------------
(* The methods.                                                            *)

(* add_observer: attach_observer tells the observer Connected, ... *)
AddObserver(o) ==
  /\ method = Idle
  /\ o \notin asked
  /\ asked' = asked \cup {o}
  /\ IF is_closed
       THEN Tell(o, Closed) /\ UNCHANGED method
       ELSE Tell(o, Event("Connected", 0)) /\ method' = [step |-> "attach", observer |-> o]
  /\ UNCHANGED <<transport, sharedVars, readerVars, telling, writer,
                 peerVars, removed, first>>

(* Mutant: the observer is added without a second look.                    *)
RegisterObserver_NoRecheck ==
  /\ method.step = "attach"
  /\ method' = Idle
  /\ observers' = Append(observers, method.observer)
  /\ gate' = TRUE
  /\ first' = IF first = None THEN method.observer ELSE first
  /\ UNCHANGED <<transport, is_closed, readerVars, telling, writer,
                 peerVars, heard, asked, removed>>

(* ... looks again under the lock of the list, and lets the reader go. *)
RegisterObserver ==
  /\ method.step = "attach"
  /\ method' = Idle
  /\ IF is_closed
       THEN Tell(method.observer, Closed) /\ UNCHANGED <<observers, gate, first>>
       ELSE /\ observers' = Append(observers, method.observer)
            /\ gate' = TRUE
            /\ first' = IF first = None THEN method.observer ELSE first
            /\ UNCHANGED heard
  /\ UNCHANGED <<transport, is_closed, readerVars, telling, writer,
                 peerVars, asked, removed>>

(* An observer was added once, and is in the list once.                    *)
RemoveObserver(o) ==
  /\ method = Idle
  /\ \E k \in DOMAIN observers :
       /\ observers[k] = o
       /\ observers' = [i \in 1 .. Len(observers) - 1 |->
                          observers[IF i < k THEN i ELSE i + 1]]
  /\ removed' = removed \cup {o}
  /\ UNCHANGED <<transport, is_closed, gate, readerVars, methodVars, writer,
                 peerVars, heard, asked, first>>

(* send: fails at once on a closed connection, else waits for the writing  *)
(* half, ...                                                               *)
Send ==
  /\ method = Idle
  /\ ~is_closed
  /\ method' = [Idle EXCEPT !.step = "send"]
  /\ UNCHANGED <<transport, sharedVars, readerVars, telling, writer,
                 peerVars, heard, historyVars>>

SendLock ==
  /\ method.step = "send"
  /\ writer = "free"
  /\ writer' = "method"
  /\ method' = [method EXCEPT !.step = "write"]
  /\ UNCHANGED <<transport, sharedVars, readerVars, telling, peerVars,
                 heard, historyVars>>

(* ... and writes, with or without success. *)
SendDone ==
  /\ method.step = "write"
  /\ writer' = "free"
  /\ method' = Idle
  /\ UNCHANGED <<transport, sharedVars, readerVars, telling, peerVars,
                 heard, historyVars>>

(* close, close_with_reason, close_going_away: marks the connection,       *)
(* releases a reader that waits for its first observer, ...                *)
Close(away) ==
  /\ method = Idle
  /\ is_closed' = TRUE
  /\ gate' = TRUE
  /\ method' = [Idle EXCEPT !.step = IF away THEN "close_away" ELSE "close"]
  /\ UNCHANGED <<transport, observers, readerVars, telling, writer,
                 peerVars, heard, historyVars>>

(* ... ends the writing half once nobody writes, ... *)
CloseWriter ==
  /\ method.step \in {"close", "close_away"}
  /\ writer = "free"
  /\ method' = [method EXCEPT !.step = IF @ = "close" THEN "take" ELSE "take_away"]
  /\ UNCHANGED <<transport, sharedVars, readerVars, telling, writer, peerVars,
                 heard, historyVars>>

(* ... takes the observers out of the list, ... *)
CloseTake ==
  /\ method.step \in {"take", "take_away"}
  /\ telling' = observers
  /\ observers' = <<>>
  /\ method' = [method EXCEPT !.step = IF @ = "take" THEN "tell" ELSE "tell_away"]
  /\ UNCHANGED <<transport, is_closed, gate, readerVars, writer,
                 peerVars, heard, historyVars>>

(* ... and tells them one by one.  Going away, QUIC then closes the whole  *)
(* connection, which the reader sees at once.                              *)
CloseTell ==
  /\ method.step \in {"tell", "tell_away"}
  /\ telling # <<>>
  /\ telling' = Tail(telling)
  /\ Tell(Head(telling), Closed)
  /\ UNCHANGED <<transport, sharedVars, readerVars, method, writer,
                 peerVars, historyVars>>

CloseDone ==
  /\ method.step \in {"tell", "tell_away"}
  /\ telling = <<>>
  /\ method' = Idle
  /\ wire' = IF method.step = "tell_away" /\ transport = "quic"
             THEN <<Item("reset", 0)>> ELSE wire
  /\ UNCHANGED <<transport, sharedVars, readerVars, telling, writer,
                 frames, heard, historyVars>>

(* The last handle is dropped: nobody is told. *)
DropTransport ==
  /\ method = Idle
  /\ method' = [Idle EXCEPT !.step = "dropped"]
  /\ is_closed' = TRUE
  /\ gate' = TRUE
  /\ UNCHANGED <<transport, observers, readerVars, telling, writer, peerVars,
                 heard, historyVars>>

-----------------------------------------------------------------------------
(* The reader task.                                                        *)

(* Mutant: the reader does not wait.                                       *)
ReaderGate_Open ==
  /\ reader = "gate"
  /\ reader' = "check"
  /\ UNCHANGED <<transport, sharedVars, item, batch, methodVars, writer,
                 peerVars, heard, historyVars>>

(* It waits for the first observer, or for the close. *)
ReaderGate ==
  /\ reader = "gate"
  /\ gate
  /\ gate' = FALSE
  /\ reader' = IF transport = "websocket" /\ is_closed THEN "ended" ELSE "check"
  /\ UNCHANGED <<transport, is_closed, observers, item, batch, methodVars,
                 writer, peerVars, heard, historyVars>>

(* The head of the loop: QUIC and TCP look at the flag before they read,   *)
(* WebSocket reads on.                                                     *)
ReaderCheck ==
  /\ reader = "check"
  /\ reader' = IF transport # "websocket" /\ is_closed THEN "ended" ELSE "read"
  /\ UNCHANGED <<transport, sharedVars, item, batch, methodVars, writer,
                 peerVars, heard, historyVars>>

ReaderReads ==
  /\ reader = "read"
  /\ wire # <<>>
  /\ item' = Head(wire)
  /\ wire' = Tail(wire)
  /\ reader' = "got"
  /\ UNCHANGED <<transport, sharedVars, batch, methodVars, writer,
                 frames, heard, historyVars>>

(* Which event the end of a connection is: read_length_prefixed and the    *)
(* texts receiver_task looks for on TCP, ...                               *)
TcpEnd(what) ==
  IF what \in {"empty", "end", "cut_prefix", "reset"} THEN "Disconnected" ELSE "Error"

(* ... read_stream and classify_read_error on QUIC, ... *)
QuicEnd(what) ==
  IF what \in {"empty", "end", "reset"} THEN "Disconnected" ELSE "Error"

(* ... event_from_websocket_error on WebSocket, where an empty message is  *)
(* a message and an end within a frame is an unexpected EOF.               *)
WebSocketEnd(what) == IF what = "invalid" THEN "Error" ELSE "Disconnected"

EndEvent(what) ==
  CASE transport = "tcp" -> TcpEnd(what)
    [] transport = "quic" -> QuicEnd(what)
    [] transport = "websocket" -> WebSocketEnd(what)

IsMessage == item.n > 0
IsEnd == Final(item)

(* Closed here meanwhile: what was read is dropped. *)
ReaderClosed ==
  /\ reader = "got"
  /\ is_closed
  /\ reader' = "ended"
  /\ item' = Nothing
  /\ UNCHANGED <<transport, sharedVars, batch, methodVars, writer,
                 peerVars, heard, historyVars>>

(* A message: the observers of this moment, then each of them. *)
ReaderSnapshot ==
  /\ reader = "got"
  /\ ~is_closed
  /\ IsMessage
  /\ batch' = observers
  /\ reader' = "deliver"
  /\ UNCHANGED <<transport, sharedVars, item, methodVars, writer,
                 peerVars, heard, historyVars>>

(* A WebSocket PING: the PONG of the protocol and the PONG frame, each     *)
(* under the lock of the writing half.                                     *)
ReaderPing ==
  /\ reader = "got"
  /\ ~is_closed
  /\ item.what = "ping"
  /\ reader' = "pong_wire"
  /\ UNCHANGED <<transport, sharedVars, item, batch, methodVars, writer,
                 peerVars, heard, historyVars>>

PongLock ==
  /\ reader \in {"pong_wire", "pong_frame"}
  /\ writer = "free"
  /\ writer' = "reader"
  /\ reader' = IF reader = "pong_wire" THEN "write_wire" ELSE "write_frame"
  /\ UNCHANGED <<transport, sharedVars, item, batch, methodVars,
                 peerVars, heard, historyVars>>

PongDone(ok) ==
  /\ reader \in {"write_wire", "write_frame"}
  /\ writer' = "free"
  /\ reader' = IF ~ok THEN "mark" ELSE IF reader = "write_wire" THEN "pong_frame" ELSE "check"
  /\ item' = IF ~ok THEN Item("invalid", 0) ELSE IF reader = "write_wire" THEN item ELSE Nothing
  /\ UNCHANGED <<transport, sharedVars, batch, methodVars, peerVars,
                 heard, historyVars>>

(* The end of the connection: the flag first, ...  QUIC ends its own side  *)
(* too, if nobody is writing (mark_closed_by_peer).                        *)
ReaderEnd ==
  /\ reader = "got"
  /\ ~is_closed
  /\ IsEnd
  /\ reader' = "mark"
  /\ UNCHANGED <<transport, sharedVars, item, batch, methodVars, writer,
                 peerVars, heard, historyVars>>

ReaderMark ==
  /\ reader = "mark"
  /\ is_closed' = TRUE
  /\ reader' = "take"
  /\ UNCHANGED <<transport, gate, observers, item, batch, methodVars, writer,
                 peerVars, heard, historyVars>>

(* Mutant: the observers stay in the list.                                 *)
ReaderTake_Leaves ==
  /\ reader = "take"
  /\ batch' = observers
  /\ reader' = "deliver"
  /\ UNCHANGED <<transport, sharedVars, item, methodVars, writer, peerVars,
                 heard, historyVars>>

(* ... then the observers are taken out (notify_observers_and_clear), ... *)
ReaderTake ==
  /\ reader = "take"
  /\ batch' = observers
  /\ observers' = <<>>
  /\ reader' = "deliver"
  /\ UNCHANGED <<transport, is_closed, gate, item, methodVars, writer,
                 peerVars, heard, historyVars>>

(* ... and told one by one, outside the lock.  One that panics does not    *)
(* keep the others from being told.                                        *)
ReaderTell ==
  /\ reader = "deliver"
  /\ batch # <<>>
  /\ batch' = Tail(batch)
  /\ Tell(Head(batch), IF IsMessage THEN Event("Message", item.n) ELSE Event(EndEvent(item.what), 0))
  /\ UNCHANGED <<transport, sharedVars, reader, item, methodVars, writer,
                 peerVars, historyVars>>

ReaderTold ==
  /\ reader = "deliver"
  /\ batch = <<>>
  /\ reader' = IF IsMessage THEN "check" ELSE "ended"
  /\ item' = Nothing
  /\ UNCHANGED <<transport, sharedVars, batch, methodVars, writer,
                 peerVars, heard, historyVars>>

-----------------------------------------------------------------------------
(* The peer. *)
MayFollow == reader # "ended" /\ ~Final(item) /\ \A i \in DOMAIN wire : ~Final(wire[i])

PeerSends(what) ==
  /\ what \in {"pong", "empty"} => transport = "websocket"
  /\ frames < MaxFrames
  /\ MayFollow
  /\ frames' = frames + 1
  /\ wire' = Append(wire, Item(what, frames + 1))
  /\ UNCHANGED <<transport, sharedVars, readerVars, methodVars, writer,
                 heard, historyVars>>

PeerPings ==
  /\ transport = "websocket"
  /\ wire = <<>>
  /\ wire' = <<Item("ping", 0)>>
  /\ UNCHANGED <<transport, sharedVars, readerVars, methodVars, writer,
                 frames, heard, historyVars>>

PeerEnds(what) ==
  /\ what = "empty" => transport # "websocket"
  /\ MayFollow
  /\ wire' = Append(wire, Item(what, 0))
  /\ UNCHANGED <<transport, sharedVars, readerVars, methodVars, writer,
                 frames, heard, historyVars>>

ReaderStep ==
  \/ ReaderGate
  \/ ReaderCheck
  \/ ReaderReads
  \/ ReaderClosed
  \/ ReaderSnapshot
  \/ ReaderPing
  \/ ReaderEnd
  \/ ReaderMark
  \/ ReaderTake
  \/ ReaderTell
  \/ ReaderTold

MethodStep ==
  \/ RegisterObserver
  \/ SendDone
  \/ CloseTake
  \/ CloseTell
  \/ CloseDone

Caller ==
  \/ \E o \in Observers : AddObserver(o)
  \/ \E o \in Observers : RemoveObserver(o)
  \/ Send
  \/ \E away \in BOOLEAN : Close(away)
  \/ DropTransport

Peer ==
  \/ \E what \in {"frame", "pong", "empty"} : PeerSends(what)
  \/ PeerPings
  \/ \E what \in Ends : PeerEnds(what)

Next ==
  \/ ReaderStep
  \/ PongLock
  \/ \E ok \in BOOLEAN : PongDone(ok)
  \/ MethodStep
  \/ SendLock
  \/ CloseWriter
  \/ Caller
  \/ Peer

Spec == Init /\ [][Next]_vars

(* The reader is polled, a method that has begun goes on, the lock of the  *)
(* writing half is a fair queue, and a write ends, with or without success. *)
FairSpec ==
  /\ Spec
  /\ WF_vars(ReaderStep)
  /\ WF_vars(MethodStep)
  /\ WF_vars(\E ok \in BOOLEAN : PongDone(ok))
  /\ SF_vars(PongLock)
  /\ SF_vars(SendLock \/ CloseWriter)

-----------------------------------------------------------------------------
(* Type correctness, with the lock of the writing half held exactly by     *)
(* whoever is between its lock and the end of its write.                   *)
TypeOK ==
  /\ transport \in Transports
  /\ is_closed \in BOOLEAN /\ gate \in BOOLEAN
  /\ \A list \in {observers, batch, telling} : list \in Seq(Observers)
  /\ asked \subseteq Observers /\ removed \subseteq asked
  /\ method.observer \in Observers \cup {None}
  /\ method.step \in {"idle", "attach", "send", "write", "close", "close_away",
                      "take", "take_away", "tell", "tell_away", "dropped"}
  /\ reader \in {"gate", "check", "read", "got", "deliver", "mark", "take", "pong_wire",
                 "pong_frame", "write_wire", "write_frame", "ended"}
  /\ item \in Items \cup {Nothing}
  /\ writer \in {"free", "method", "reader"}
  /\ writer = "method" <=> method.step = "write"
  /\ writer = "reader" <=> reader \in {"write_wire", "write_frame"}
  /\ wire \in Seq(Items) /\ frames \in 0 .. MaxFrames
  /\ heard \in [Observers -> Seq(Events)]
  /\ first \in Observers \cup {None}

(* However the reader's end, a local close and the registration of an      *)
(* observer overlap, no observer is told of the end twice, and after it    *)
(* hears at most the one frame whose delivery had begun when this side     *)
(* closed; after an end the peer caused, nothing.                          *)
QuietAfterEnd ==
  \A o \in Observers : \A i \in DOMAIN heard[o] :
    Terminal(heard[o][i]) =>
      \/ i = Len(heard[o])
      \/ /\ i + 1 = Len(heard[o])
         /\ heard[o][i] = Closed
         /\ heard[o][i + 1].what = "Message"

(* The reader keeps everything for the first observer: while it stays      *)
(* registered on an open connection and nothing is being delivered, what   *)
(* it has heard and what is still on the wire are together every frame the *)
(* peer has sent, each once and in order.                                  *)
FirstHearsAll ==
  first \in Range(observers) /\ ~is_closed /\ reader \in {"gate", "check", "read"} =>
    \E n \in 0 .. frames :
      /\ heard[first] = <<Event("Connected", 0)>> \o [k \in 1 .. n |-> Event("Message", k)]
      /\ {wire[i].n : i \in DOMAIN wire} \ {0} = n + 1 .. frames

(* A connection that is closed or dropped before it ever had an observer   *)
(* does not leave its reader waiting for one.                              *)
GateReleased == is_closed ~> reader # "gate"

(* Every registered observer is told of the end, by whoever takes the      *)
(* list, unless it is removed or the connection dropped.                   *)
EndTold ==
  \A o \in Observers :
    (is_closed /\ o \in Range(observers)) ~>
      \/ \E i \in DOMAIN heard[o] : Terminal(heard[o][i])
      \/ o \in removed
      \/ method.step = "dropped"

(* A connection that ends lets go of everyone who waits for it: its reader *)
(* and its observers.                                                      *)
EndReaches == GateReleased /\ EndTold
=============================================================================
