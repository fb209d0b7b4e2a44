----------------------------- MODULE WriteQueue -----------------------------
(***************************************************************************)
(* The write path of one server connection                                  *)
(* (ConnectionWriteQueue in src/src/server/connection/manager/mod.rs):      *)
(* senders that took a handle to it enqueue without waiting, one writer     *)
(* task, started by the first of them, writes under the connection's lock,  *)
(* and whoever finds the connection unusable isolates it: marks the queue   *)
(* closed, has the underlying connection closed and its entry removed.      *)
(*                                                                          *)
(* The underlying connection is "open", "stalled" (its peer has stopped     *)
(* reading: a write or a close does not end), "broken" (its peer is gone)   *)
(* or "closed".  A write of the writer has a timeout; a close has none, nor *)
(* has a write past the queue, and both are awaited with the lock held.     *)
(*                                                                          *)
(* The entry's place in the table is one bit here; ConnectionManager models *)
(* the table.  A message is a number, given in the order of the sends.      *)
(***************************************************************************)
EXTENDS Naturals, Sequences, SequencesExt

CONSTANTS
  Senders,       \* tasks that send to this connection
  Capacity,      \* write_queue_capacity.max(1)
  MaxMessages    \* bound: how many sends are tried

ASSUME CapacityAssumption == Capacity \in Nat \ {0}
ASSUME MaxMessagesAssumption == MaxMessages \in Nat

VARIABLES
  in_table,     \* the connection's entry is in the connection table
  closed,       \* ConnectionWriteQueue.closed
  queue,        \* the mpsc channel
  writer,       \* where the writer task is
  hand,         \* the write it has received and not finished, as <<m>> or <<>>
  closer,       \* the background close spawned by close_underlying_in_background
  conn,         \* the underlying connection
  lock,         \* the tokio Mutex around it: who holds it
  sender,       \* [Senders -> where each sender is]
  message,      \* [Senders -> the message it is sending]
  tried,        \* how many messages have been handed to send_to_connection_handle
  accepted,     \* ghost: messages for which try_enqueue returned Ok, in order
  wire          \* ghost: messages written to the connection, in order

vars == <<in_table, closed, queue, writer, hand, closer, conn, lock,
          sender, message, tried, accepted, wire>>

senderVars == <<sender, message, tried>>
writerVars == <<writer, hand>>

Init ==
  /\ in_table = TRUE
  /\ closed = FALSE
  /\ queue = <<>>
  /\ writer = "off"
  /\ hand = <<>>
  /\ closer = "none"
  /\ conn = "open"
  /\ lock = "free"
  /\ sender = [s \in Senders |-> "idle"]
  /\ message = [s \in Senders |-> 0]
  /\ tried = 0
  /\ accepted = <<>>
  /\ wire = <<>>

---------------------------------------------------------------------------
(* Senders: send_to_connection_handle                                       *)

\* close_underlying_in_background: whoever turns closed on spawns the task
\* that closes the connection; a second call does nothing.
MarkClosed ==
  /\ closed' = TRUE
  /\ closer' = IF closed THEN closer ELSE "spawned"

\* A handle is taken from the table (get_connection_snapshot and its like).
TakeHandle(s) ==
  /\ sender[s] = "idle"
  /\ in_table
  /\ tried < MaxMessages
  /\ tried' = tried + 1
  /\ message' = [message EXCEPT ![s] = tried + 1]
  /\ sender' = [sender EXCEPT ![s] = "check"]
  /\ UNCHANGED <<in_table, closed, queue, writerVars, closer, conn, lock, accepted, wire>>

\* try_enqueue's first test.
CheckClosed(s) ==
  /\ sender[s] = "check"
  /\ sender' = [sender EXCEPT ![s] = IF closed THEN "failed" ELSE "start"]
  /\ UNCHANGED <<in_table, closed, queue, writerVars, closer, conn, lock,
                 message, tried, accepted, wire>>

\* ensure_writer_started: the compare-exchange lets one sender start it.
EnsureWriterStarted(s) ==
  /\ sender[s] = "start"
  /\ writer' = IF writer = "off" THEN "recv" ELSE writer
  /\ sender' = [sender EXCEPT ![s] = "enqueue"]
  /\ UNCHANGED <<in_table, closed, queue, hand, closer, conn, lock,
                 message, tried, accepted, wire>>

\* try_send: Full when the channel is at capacity, Closed when the writer has
\* ended and dropped the receiver.
TrySend(s) ==
  /\ sender[s] = "enqueue"
  /\ IF writer # "done" /\ Len(queue) < Capacity
       THEN /\ queue' = Append(queue, message[s])
            /\ accepted' = Append(accepted, message[s])
            /\ sender' = [sender EXCEPT ![s] = "idle"]
       ELSE /\ sender' = [sender EXCEPT ![s] = "failed"]
            /\ UNCHANGED <<queue, accepted>>
  /\ UNCHANGED <<in_table, closed, writerVars, closer, conn, lock, message, tried, wire>>

\* A failed enqueue isolates the connection ...
CloseAfterFailure(s) ==
  /\ sender[s] = "failed"
  /\ MarkClosed
  /\ sender' = [sender EXCEPT ![s] = "evict"]
  /\ UNCHANGED <<in_table, queue, writerVars, conn, lock, message, tried, accepted, wire>>

\* ... and removes it from the table, if it is still there.
EvictAfterFailure(s) ==
  /\ sender[s] = "evict"
  /\ in_table' = FALSE
  /\ IF in_table THEN MarkClosed ELSE UNCHANGED <<closed, closer>>
  /\ sender' = [sender EXCEPT ![s] = "idle"]
  /\ UNCHANGED <<queue, writerVars, conn, lock, message, tried, accepted, wire>>

---------------------------------------------------------------------------
(* Everybody else                                                           *)

\* remove_connection from disconnect, a kick, on_disconnect or cleanup.
RemoveConnection ==
  /\ in_table
  /\ in_table' = FALSE
  /\ MarkClosed
  /\ UNCHANGED <<queue, writerVars, conn, lock, senderVars, accepted, wire>>

\* cleanup_timeout_connections, for a connection of its snapshot: the lock, and
\* under it the close.  It leaves the queue's flag alone.
CleanupLock ==
  /\ lock = "free"
  /\ lock' = "cleanup"
  /\ UNCHANGED <<in_table, closed, queue, writerVars, closer, conn, senderVars, accepted, wire>>

CleanupClose ==
  /\ lock = "cleanup"
  /\ conn # "stalled"
  /\ conn' = "closed"
  /\ lock' = "free"
  /\ UNCHANGED <<in_table, closed, queue, writerVars, closer, senderVars, accepted, wire>>

\* CONNECT_ACK and the KICKED of a device conflict are written past the queue:
\* the lock, and under it a write without a timeout.  The rejections, which
\* have one, only hold the lock for a while.
DirectLock ==
  /\ lock = "free"
  /\ lock' = "direct"
  /\ UNCHANGED <<in_table, closed, queue, writerVars, closer, conn, senderVars, accepted, wire>>

DirectWritten ==
  /\ lock = "direct"
  /\ conn # "stalled"
  /\ lock' = "free"
  /\ UNCHANGED <<in_table, closed, queue, writerVars, closer, conn, senderVars, accepted, wire>>

\* The peer stops reading, reads again, or goes away, after which writes fail.
PeerStalls ==
  /\ conn = "open"
  /\ conn' = "stalled"
  /\ UNCHANGED <<in_table, closed, queue, writerVars, closer, lock, senderVars, accepted, wire>>

PeerReads ==
  /\ conn = "stalled"
  /\ conn' = "open"
  /\ UNCHANGED <<in_table, closed, queue, writerVars, closer, lock, senderVars, accepted, wire>>

PeerGone ==
  /\ conn \in {"open", "stalled"}
  /\ conn' = "broken"
  /\ UNCHANGED <<in_table, closed, queue, writerVars, closer, lock, senderVars, accepted, wire>>

\* The spawned close: take the lock, close, release.
CloserLock ==
  /\ closer = "spawned"
  /\ lock = "free"
  /\ lock' = "closer"
  /\ closer' = "closing"
  /\ UNCHANGED <<in_table, closed, queue, writerVars, conn, senderVars, accepted, wire>>

CloserClose ==
  /\ closer = "closing"
  /\ conn # "stalled"
  /\ conn' = "closed"
  /\ lock' = "free"
  /\ closer' = "done"
  /\ UNCHANGED <<in_table, closed, queue, writerVars, senderVars, accepted, wire>>

---------------------------------------------------------------------------
(* writer_task                                                              *)

\* Mutant: the write is taken from the back of the queue.
WriterReceive_Lifo ==
  /\ writer = "recv"
  /\ queue # <<>>
  /\ hand' = <<queue[Len(queue)]>>
  /\ queue' = SubSeq(queue, 1, Len(queue) - 1)
  /\ writer' = "check"
  /\ UNCHANGED <<in_table, closed, closer, conn, lock, senderVars, accepted, wire>>

WriterReceive ==
  /\ writer = "recv"
  /\ queue # <<>>
  /\ hand' = <<Head(queue)>>
  /\ queue' = Tail(queue)
  /\ writer' = "check"
  /\ UNCHANGED <<in_table, closed, closer, conn, lock, senderVars, accepted, wire>>

\* recv returns None: the entry is gone and so is every handle.
WriterDrained ==
  /\ writer = "recv"
  /\ queue = <<>>
  /\ ~in_table
  /\ \A s \in Senders : sender[s] = "idle"
  /\ writer' = "done"
  /\ UNCHANGED <<in_table, closed, queue, hand, closer, conn, lock, senderVars, accepted, wire>>

\* The task ends: the receiver, and what is still queued, is dropped.
WriterEnds ==
  /\ writer' = "done"
  /\ hand' = <<>>
  /\ queue' = <<>>

WriterCheckClosed ==
  /\ writer = "check"
  /\ IF closed THEN WriterEnds ELSE writer' = "lock" /\ UNCHANGED <<hand, queue>>
  /\ UNCHANGED <<in_table, closed, closer, conn, lock, senderVars, accepted, wire>>

WriterLock ==
  /\ writer = "lock"
  /\ lock = "free"
  /\ lock' = "writer"
  /\ writer' = "send"
  /\ UNCHANGED <<in_table, closed, queue, hand, closer, conn, senderVars, accepted, wire>>

WriterSent ==
  /\ writer = "send"
  /\ conn = "open"
  /\ wire' = wire \o hand
  /\ hand' = <<>>
  /\ lock' = "free"
  /\ writer' = "recv"
  /\ UNCHANGED <<in_table, closed, queue, closer, conn, senderVars, accepted>>

\* Mutant: a failed write is dropped and the writer goes on with the next one.
WriterFailed_GoesOn ==
  /\ writer = "send"
  /\ hand' = <<>>
  /\ lock' = "free"
  /\ writer' = "recv"
  /\ UNCHANGED <<in_table, closed, queue, closer, conn, senderVars, accepted, wire>>

\* The send fails, or times out as it does when the peer is stalled; the bytes
\* may have been written all the same.
WriterFailed ==
  /\ writer = "send"
  /\ \/ conn \in {"open", "stalled"} /\ wire' = wire \o hand
     \/ UNCHANGED wire
  /\ hand' = <<>>
  /\ lock' = "free"
  /\ writer' = "isolate"
  /\ UNCHANGED <<in_table, closed, queue, closer, conn, senderVars, accepted>>

\* closed.store(true): not a swap, so another closer may be at work too.
WriterMarkClosed ==
  /\ writer = "isolate"
  /\ closed' = TRUE
  /\ writer' = "relock"
  /\ UNCHANGED <<in_table, queue, hand, closer, conn, lock, senderVars, accepted, wire>>

WriterRelock ==
  /\ writer = "relock"
  /\ lock = "free"
  /\ lock' = "writer"
  /\ writer' = "close"
  /\ UNCHANGED <<in_table, closed, queue, hand, closer, conn, senderVars, accepted, wire>>

\* Mutant: the writer leaves the close to whoever removes the entry.
WriterClose_Skipped ==
  /\ writer = "close"
  /\ writer' = "remove"
  /\ UNCHANGED <<in_table, closed, queue, hand, closer, conn, lock, senderVars, accepted, wire>>

\* close().await, with no timeout, before the entry is removed.
WriterClose ==
  /\ writer = "close"
  /\ conn # "stalled"
  /\ conn' = "closed"
  /\ writer' = "remove"
  /\ UNCHANGED <<in_table, closed, queue, hand, closer, lock, senderVars, accepted, wire>>

\* ConnectionRemovalRegistry::remove_connection: does not touch the queue.
\* The lock's guard is dropped when the task ends.
WriterRemove ==
  /\ writer = "remove"
  /\ in_table' = FALSE
  /\ lock' = "free"
  /\ WriterEnds
  /\ UNCHANGED <<closed, closer, conn, senderVars, accepted, wire>>

---------------------------------------------------------------------------
SenderStep(s) ==
  \/ CheckClosed(s)
  \/ EnsureWriterStarted(s)
  \/ TrySend(s)
  \/ CloseAfterFailure(s)
  \/ EvictAfterFailure(s)

WriterStep ==
  \/ WriterReceive
  \/ WriterDrained
  \/ WriterCheckClosed
  \/ WriterLock
  \/ WriterSent
  \/ WriterFailed
  \/ WriterMarkClosed
  \/ WriterRelock
  \/ WriterClose
  \/ WriterRemove

CloserStep == CloserLock \/ CloserClose

Next ==
  \/ \E s \in Senders : TakeHandle(s) \/ SenderStep(s)
  \/ RemoveConnection
  \/ CleanupLock \/ CleanupClose
  \/ DirectLock \/ DirectWritten
  \/ PeerStalls \/ PeerReads \/ PeerGone
  \/ CloserStep
  \/ WriterStep

Spec == Init /\ [][Next]_vars

(***************************************************************************)
(* Fairness: tokio polls every spawned task, its Mutex is a fair queue and  *)
(* a send of the writer ends, by its timeout at the latest.  A close and a  *)
(* write past the queue end if the peer reads again and again, or is gone;  *)
(* nothing makes a peer that has stopped reading do either.                 *)
(***************************************************************************)
Fairness ==
  /\ \A s \in Senders : WF_vars(SenderStep(s))
  /\ SF_vars(CloserStep)
  /\ SF_vars(WriterStep)
  /\ SF_vars(CleanupClose)
  /\ SF_vars(DirectWritten)

FairSpec == Spec /\ Fairness

---------------------------------------------------------------------------
(* Correctness                                                              *)

\* Every variable stays in its range, the queue within its capacity.
TypeOK ==
  /\ in_table \in BOOLEAN
  /\ closed \in BOOLEAN
  /\ queue \in Seq(1..MaxMessages) /\ Len(queue) <= Capacity
  /\ writer \in {"off", "recv", "check", "lock", "send", "isolate", "relock",
                 "close", "remove", "done"}
  /\ hand \in Seq(1..MaxMessages) /\ Len(hand) <= 1
  /\ closer \in {"none", "spawned", "closing", "done"}
  /\ conn \in {"open", "stalled", "broken", "closed"}
  /\ lock \in {"free", "writer", "closer", "cleanup", "direct"}
  /\ sender \in [Senders -> {"idle", "check", "start", "enqueue", "failed", "evict"}]
  /\ message \in [Senders -> 0..MaxMessages]
  /\ tried \in 0..MaxMessages
  /\ accepted \in Seq(1..MaxMessages)
  /\ wire \in Seq(1..MaxMessages)

\* What reaches the connection is what was accepted, in that order, without
\* gaps or duplicates, whatever senders and removals are interleaved.
FifoDelivery == IsPrefix(wire, accepted)

\* An accepted write is lost only with the connection: while the queue is not
\* closed and the writer has met no failure, everything accepted has been
\* written, is being written or is queued.
NothingLost ==
  (~closed /\ writer # "isolate") => accepted = wire \o hand \o queue

\* The connection of an entry that has left the table does not stay open: no
\* removal path leaks a socket.
RemovedIsClosed == ~in_table ~> conn = "closed"

\* A connection whose writer failed does not stay in the table as a zombie
\* that accepts no write.
FailedIsRemoved == writer = "isolate" ~> ~in_table

\* A sender that is refused evicts the connection without waiting for its peer.
RefusedIsRemoved == \A s \in Senders : sender[s] = "failed" ~> ~in_table

\* Whoever isolates a connection, the failing writer, a sender that met a full
\* queue or a removal, it ends up both closed and out of the table, if its peer
\* does not stop reading for good.  A peer that does keeps the close, and with
\* it the writer's own removal, from ending: then the next sender that is
\* refused takes the entry out, whoever holds the lock meanwhile.
NoZombie ==
  /\ []<>(conn # "stalled") => RemovedIsClosed /\ FailedIsRemoved
  /\ RefusedIsRemoved
=============================================================================
