-------------------------- MODULE WriteQueueProofs --------------------------
(***************************************************************************)
(* For any senders, any capacity and any number of messages: the variables *)
(* of the write path keep their types, what reaches the connection is a    *)
(* prefix of what was accepted, and nothing accepted is lost before the    *)
(* queue is closed.                                                        *)
(*                                                                         *)
(* The two delivery properties are not inductive.  Conserved says where    *)
(* the accepted messages are while the writer goes on, and what is left of *)
(* that once it has failed; Isolated says that a writer past its failure,  *)
(* or an entry out of the table, implies a closed queue.                   *)
(***************************************************************************)
EXTENDS WriteQueue, SequenceTheorems, TLAPS

Working == {"off", "recv", "check", "lock", "send"}
Carrying == {"check", "lock", "send"}

(* A message is numbered before it is sent, so that what is sent is one.   *)
Numbered == \A s \in Senders : sender[s] # "idle" => message[s] # 0

(* The hand holds a write exactly between its receipt and its end.         *)
HandHeld == hand # <<>> <=> writer \in Carrying

(* Whoever takes the entry out, and a writer past its failure, has closed  *)
(* the queue.                                                              *)
Isolated ==
  ~in_table \/ writer \in {"relock", "close", "remove", "done"} => closed

(* While the writer works, everything accepted is written, in its hand or  *)
(* queued, in that order; afterwards what was written is what came first.  *)
Conserved ==
  IF writer \in Working THEN accepted = wire \o hand \o queue
                        ELSE IsPrefix(wire, accepted)

(* What the peer does, and those who take the lock past the queue.         *)
Outside ==
  \/ CleanupLock \/ CleanupClose \/ DirectLock \/ DirectWritten
  \/ PeerStalls \/ PeerReads \/ PeerGone

(* The inductive invariant.                                                *)
QueueInv == TypeOK /\ Numbered /\ HandHeld /\ Isolated /\ Conserved

-----------------------------------------------------------------------------
(* Facts about sequences.                                                  *)

\* A prefix, element by element.
LEMMA PrefixElements ==
  ASSUME NEW S, NEW s \in Seq(S), NEW t \in Seq(S)
  PROVE  IsPrefix(s, t) <=> Len(s) <= Len(t) /\ \A i \in 1..Len(s) : s[i] = t[i]
BY DEF IsPrefix

\* A sequence is a prefix of what is put behind it.
LEMMA ConcatPrefix ==
  ASSUME NEW S, NEW s \in Seq(S), NEW t \in Seq(S)
  PROVE  IsPrefix(s, s \o t)
<1>1. s \o t \in Seq(S) /\ Len(s) <= Len(s \o t) /\ \A i \in 1..Len(s) : s[i] = (s \o t)[i]
  BY ConcatProperties
<1> QED
  BY <1>1, PrefixElements

\* ... and stays one when more is accepted.
LEMMA PrefixAppend ==
  ASSUME NEW S, NEW s \in Seq(S), NEW t \in Seq(S), NEW e \in S, IsPrefix(s, t)
  PROVE  IsPrefix(s, Append(t, e))
<1>1. Len(s) <= Len(t) /\ \A i \in 1..Len(s) : s[i] = t[i]
  BY PrefixElements
<1>2. Append(t, e) \in Seq(S) /\ Len(s) <= Len(Append(t, e))
        /\ \A i \in 1..Len(s) : s[i] = Append(t, e)[i]
  BY <1>1, AppendProperties
<1> QED
  BY <1>2, PrefixElements

(* The head of a queue moved to the empty hand.                            *)
LEMMA HeadMoves ==
  ASSUME NEW S, NEW s \in Seq(S), NEW t \in Seq(S), t # <<>>
  PROVE  s \o <<>> \o t = s \o <<Head(t)>> \o Tail(t)
OBVIOUS

(* The write in the hand reaches the connection.                           *)
LEMMA HandEmpties ==
  ASSUME NEW S, NEW s \in Seq(S), NEW h \in Seq(S), NEW t \in Seq(S)
  PROVE  s \o h \o t = (s \o h) \o <<>> \o t
OBVIOUS

(* What a write in progress comes before, and what it comes after.         *)
LEMMA WirePrefix ==
  ASSUME NEW S, NEW s \in Seq(S), NEW h \in Seq(S), NEW t \in Seq(S)
  PROVE  IsPrefix(s, s \o h \o t) /\ IsPrefix(s \o h, s \o h \o t)
<1>1. s \o h \in Seq(S) /\ h \o t \in Seq(S) /\ s \o h \o t = s \o (h \o t)
  BY ConcatProperties, ConcatAssociative, SMTT(30)
<1> QED
  BY <1>1, ConcatPrefix

(* The empty sequence is one of messages, and within every bound.          *)
LEMMA EmptyFits ==
  <<>> \in Seq(1..MaxMessages) /\ Len(<<>>) <= Capacity /\ Len(<<>>) <= 1
BY CapacityAssumption

-----------------------------------------------------------------------------
\* Before the first send.
LEMMA InitQueue == Init => QueueInv
<1> SUFFICES ASSUME Init PROVE QueueInv
  OBVIOUS
<1>1. TypeOK
  <2>1. /\ queue \in Seq(1..MaxMessages) /\ Len(queue) <= Capacity
        /\ hand \in Seq(1..MaxMessages) /\ Len(hand) <= 1
        /\ accepted \in Seq(1..MaxMessages) /\ wire \in Seq(1..MaxMessages)
    BY EmptyFits DEF Init
  <2>2. message \in [Senders -> 0..MaxMessages] /\ tried \in 0..MaxMessages
    BY MaxMessagesAssumption DEF Init
  <2> QED
    BY <2>1, <2>2 DEF Init, TypeOK
<1>2. Numbered /\ HandHeld /\ Isolated
  BY DEF Init, Numbered, HandHeld, Isolated, Carrying
<1>3. Conserved
  BY DEF Init, Conserved, Working
<1> QED
  BY <1>1, <1>2, <1>3 DEF QueueInv

(* Types, and the numbering they need.                                     *)
LEMMA StepTypes == TypeOK /\ Numbered /\ [Next]_vars => TypeOK' /\ Numbered'
<1> SUFFICES ASSUME TypeOK, Numbered, [Next]_vars
             PROVE  TypeOK' /\ Numbered'
  OBVIOUS
<1> USE CapacityAssumption, MaxMessagesAssumption
    DEF TypeOK, Numbered, senderVars, writerVars
<1>1. ASSUME NEW s \in Senders, TakeHandle(s) PROVE TypeOK' /\ Numbered'
  BY <1>1 DEF TakeHandle
<1>2. ASSUME NEW s \in Senders, CheckClosed(s) PROVE TypeOK' /\ Numbered'
  BY <1>2 DEF CheckClosed
<1>3. ASSUME NEW s \in Senders, EnsureWriterStarted(s) PROVE TypeOK' /\ Numbered'
  BY <1>3 DEF EnsureWriterStarted
<1>4. ASSUME NEW s \in Senders, TrySend(s) PROVE TypeOK' /\ Numbered'
  <2>1. message[s] \in 1..MaxMessages
    BY <1>4 DEF TrySend
  <2>2. /\ queue' \in Seq(1..MaxMessages) /\ Len(queue') <= Capacity
        /\ accepted' \in Seq(1..MaxMessages)
    <3>1. /\ Append(queue, message[s]) \in Seq(1..MaxMessages)
          /\ Len(Append(queue, message[s])) = Len(queue) + 1
          /\ Append(accepted, message[s]) \in Seq(1..MaxMessages)
      BY <2>1, AppendProperties
    <3>2. Len(queue) \in Nat
      BY LenProperties
    <3>3. CASE writer # "done" /\ Len(queue) < Capacity
      <4>1. queue' = Append(queue, message[s]) /\ accepted' = Append(accepted, message[s])
        BY <1>4, <3>3 DEF TrySend
      <4>2. Len(queue) + 1 <= Capacity
        BY <3>2, <3>3
      <4> QED
        BY <3>1, <4>1, <4>2
    <3>4. CASE ~(writer # "done" /\ Len(queue) < Capacity)
      BY <1>4, <3>4 DEF TrySend
    <3> QED
      BY <3>3, <3>4
  <2>3. sender' \in [Senders -> {"idle", "check", "start", "enqueue", "failed", "evict"}]
    BY <1>4 DEF TrySend
  <2>4. UNCHANGED <<in_table, closed, writerVars, closer, conn, lock, message, tried, wire>>
    BY <1>4 DEF TrySend
  <2>5. TypeOK'
    BY <2>2, <2>3, <2>4
  <2>6. Numbered'
    BY <1>4 DEF TrySend
  <2> QED
    BY <2>5, <2>6
<1>5. ASSUME NEW s \in Senders, CloseAfterFailure(s) PROVE TypeOK' /\ Numbered'
  BY <1>5 DEF CloseAfterFailure, MarkClosed
<1>6. ASSUME NEW s \in Senders, EvictAfterFailure(s) PROVE TypeOK' /\ Numbered'
  BY <1>6, ZenonT(60) DEF EvictAfterFailure, MarkClosed
<1>7. CASE RemoveConnection \/ Outside \/ CloserStep
  <2>1. CASE RemoveConnection
    BY <2>1 DEF RemoveConnection, MarkClosed
  <2>2. CASE CleanupLock \/ CleanupClose \/ DirectLock \/ DirectWritten
    BY <2>2 DEF CleanupLock, CleanupClose, DirectLock, DirectWritten
  <2>3. CASE PeerStalls \/ PeerReads \/ PeerGone
    BY <2>3 DEF PeerStalls, PeerReads, PeerGone
  <2>4. CASE CloserStep
    BY <2>4 DEF CloserStep, CloserLock, CloserClose
  <2> QED
    BY <1>7, <2>1, <2>2, <2>3, <2>4 DEF Outside
<1>8. CASE WriterReceive
  <2>1. Head(queue) \in 1..MaxMessages /\ Tail(queue) \in Seq(1..MaxMessages)
          /\ Len(Tail(queue)) = Len(queue) - 1
    BY <1>8, HeadTailProperties DEF WriterReceive
  <2>2. hand' \in Seq(1..MaxMessages) /\ Len(hand') = 1
    BY <1>8, <2>1 DEF WriterReceive
  <2>3. queue' \in Seq(1..MaxMessages) /\ Len(queue') <= Capacity
    BY <1>8, <2>1, LenProperties DEF WriterReceive
  <2> QED
    BY <1>8, <2>2, <2>3 DEF WriterReceive
<1>9. CASE WriterSent \/ WriterFailed
  <2>1. wire' \in Seq(1..MaxMessages)
    <3>1. wire \o hand \in Seq(1..MaxMessages)
      BY ConcatProperties
    <3> QED
      BY <1>9, <3>1 DEF WriterSent, WriterFailed
  <2>2. hand' \in Seq(1..MaxMessages) /\ Len(hand') <= 1
    BY <1>9, EmptyFits DEF WriterSent, WriterFailed
  <2> QED
    BY <1>9, <2>1, <2>2 DEF WriterSent, WriterFailed
<1>10. CASE WriterDrained \/ WriterCheckClosed \/ WriterLock
  <2>1. queue' \in Seq(1..MaxMessages) /\ hand' \in Seq(1..MaxMessages)
          /\ Len(queue') <= Capacity /\ Len(hand') <= 1
    BY <1>10, EmptyFits DEF WriterDrained, WriterCheckClosed, WriterEnds, WriterLock
  <2> QED
    BY <1>10, <2>1 DEF WriterDrained, WriterCheckClosed, WriterEnds, WriterLock
<1>11. CASE WriterMarkClosed \/ WriterRelock \/ WriterClose \/ WriterRemove
  BY <1>11, EmptyFits DEF WriterMarkClosed, WriterRelock, WriterClose, WriterRemove, WriterEnds
<1>12. CASE UNCHANGED vars
  BY <1>12 DEF vars
<1> QED
  BY <1>1, <1>2, <1>3, <1>4, <1>5, <1>6, <1>7, <1>8, <1>9, <1>10, <1>11, <1>12
  DEF Next, SenderStep, WriterStep, Outside

(* The hand and the closed queue.                                          *)
LEMMA StepControl ==
  TypeOK /\ HandHeld /\ Isolated /\ [Next]_vars => HandHeld' /\ Isolated'
<1> SUFFICES ASSUME TypeOK, HandHeld, Isolated, [Next]_vars
             PROVE  HandHeld' /\ Isolated'
  OBVIOUS
<1> USE DEF HandHeld, Isolated, Carrying, senderVars, writerVars
<1>0. closed \in BOOLEAN /\ in_table \in BOOLEAN
  BY DEF TypeOK
<1>1. ASSUME NEW s \in Senders, TakeHandle(s) \/ SenderStep(s)
      PROVE  HandHeld' /\ Isolated'
  BY <1>0, <1>1 DEF TakeHandle, SenderStep, CheckClosed, EnsureWriterStarted, TrySend,
                    CloseAfterFailure, EvictAfterFailure, MarkClosed
<1>2. CASE RemoveConnection \/ Outside \/ CloserStep
  BY <1>0, <1>2 DEF RemoveConnection, MarkClosed, Outside, CleanupLock, CleanupClose,
                    DirectLock, DirectWritten, PeerStalls, PeerReads, PeerGone, CloserStep,
                    CloserLock, CloserClose
<1>3. CASE WriterReceive
  BY <1>0, <1>3 DEF WriterReceive
<1>4. CASE WriterSent \/ WriterFailed \/ WriterDrained \/ WriterCheckClosed \/ WriterLock
  BY <1>0, <1>4 DEF WriterSent, WriterFailed, WriterDrained, WriterCheckClosed, WriterEnds,
                    WriterLock
<1>5. CASE WriterMarkClosed \/ WriterRelock \/ WriterClose \/ WriterRemove
  BY <1>0, <1>5 DEF WriterMarkClosed, WriterRelock, WriterClose, WriterRemove, WriterEnds
<1>6. CASE UNCHANGED vars
  BY <1>6 DEF vars
<1> QED
  BY <1>1, <1>2, <1>3, <1>4, <1>5, <1>6 DEF Next, WriterStep, Outside

(* What moves a message: its acceptance, its receipt and the write.        *)
LEMMA StepConserved ==
  TypeOK /\ Numbered /\ HandHeld /\ Conserved /\ [Next]_vars => Conserved'
<1> SUFFICES ASSUME TypeOK, Numbered, HandHeld, Conserved, [Next]_vars
             PROVE  Conserved'
  OBVIOUS
<1> DEFINE M == 1..MaxMessages
<1> USE DEF senderVars, writerVars
<1>0. /\ wire \in Seq(M) /\ hand \in Seq(M) /\ queue \in Seq(M) /\ accepted \in Seq(M)
      /\ \A s \in Senders : sender[s] # "idle" => message[s] \in M
  BY MaxMessagesAssumption DEF TypeOK, Numbered
<1>1. ASSUME NEW s \in Senders, TrySend(s)
      PROVE  Conserved'
  <2>1. CASE writer # "done" /\ Len(queue) < Capacity
    <3>1. message[s] \in M
      BY <1>0, <1>1 DEF TrySend
    <3> HIDE DEF M
    <3>2. queue' = Append(queue, message[s]) /\ accepted' = Append(accepted, message[s])
      BY <1>1, <2>1 DEF TrySend
    <3>3. writer' = writer /\ hand' = hand /\ wire' = wire
      BY <1>1 DEF TrySend
    <3>4. CASE writer \in Working
      <4>1. accepted = wire \o hand \o queue
        BY <3>4 DEF Conserved
      <4>2. accepted' = wire \o hand \o queue'
        <5> DEFINE w == wire \o hand
                   m == message[s]
        <5>1. w \in Seq(M) /\ w \o queue \in Seq(M)
          BY <1>0, ConcatProperties
        <5> HIDE DEF w, m
        <5>2. queue' = queue \o <<m>> /\ <<m>> \in Seq(M)
          BY <1>0, <3>1, <3>2, AppendIsConcat DEF m
        <5>3. accepted' = (w \o queue) \o <<m>>
          BY <3>1, <3>2, <4>1, <5>1, AppendIsConcat DEF w, m
        <5>4. (w \o queue) \o <<m>> = w \o (queue \o <<m>>)
          <6>1. w \in Seq(M) /\ queue \in Seq(M) /\ <<m>> \in Seq(M)
            BY <1>0, <5>1, <5>2
          <6> HIDE <1>0
          <6> QED
            BY <6>1, ConcatAssociative
        <5> QED
          BY <5>2, <5>3, <5>4 DEF w
      <4> QED
        BY <3>3, <3>4, <4>2 DEF Conserved
    <3>5. CASE writer \notin Working
      <4>1. IsPrefix(wire, accepted')
        BY <1>0, <3>1, <3>2, <3>5, PrefixAppend DEF Conserved
      <4> QED
        BY <3>3, <3>5, <4>1 DEF Conserved
    <3> QED
      BY <3>4, <3>5
  <2>2. CASE ~(writer # "done" /\ Len(queue) < Capacity)
    BY <1>1, <2>2 DEF TrySend, Conserved
  <2> QED
    BY <2>1, <2>2
<1>2. ASSUME NEW s \in Senders,
             \/ TakeHandle(s) \/ CheckClosed(s) \/ EnsureWriterStarted(s)
             \/ CloseAfterFailure(s) \/ EvictAfterFailure(s)
      PROVE  Conserved'
  BY <1>2 DEF TakeHandle, CheckClosed, EnsureWriterStarted, CloseAfterFailure,
              EvictAfterFailure, Conserved, Working
<1>3. CASE \/ RemoveConnection \/ Outside \/ CloserStep
           \/ WriterLock \/ WriterMarkClosed \/ WriterRelock \/ WriterClose
  BY <1>3 DEF RemoveConnection, Outside, CleanupLock, CleanupClose, DirectLock, DirectWritten,
              PeerStalls, PeerReads, PeerGone, CloserStep, CloserLock, CloserClose, WriterLock,
              WriterMarkClosed, WriterRelock, WriterClose, Conserved, Working
<1>4. CASE WriterReceive
  <2>1. hand = <<>> /\ queue # <<>>
    BY <1>4 DEF WriterReceive, HandHeld, Carrying
  <2>2. wire \o <<>> \o queue = wire \o <<Head(queue)>> \o Tail(queue)
    BY <1>0, <2>1, HeadMoves
  <2> QED
    BY <1>4, <2>1, <2>2 DEF WriterReceive, Conserved, Working
<1>5. CASE WriterSent
  <2>1. wire \o hand \o queue = (wire \o hand) \o <<>> \o queue
    BY <1>0, HandEmpties
  <2> QED
    BY <1>5, <2>1 DEF WriterSent, Conserved, Working
<1>6. CASE WriterFailed \/ WriterDrained \/ WriterCheckClosed \/ WriterRemove
  <2>1. IsPrefix(wire, wire \o hand \o queue) /\ IsPrefix(wire \o hand, wire \o hand \o queue)
    BY <1>0, WirePrefix
  <2> QED
    BY <1>6, <2>1 DEF WriterFailed, WriterDrained, WriterCheckClosed, WriterRemove, WriterEnds,
                      Conserved, Working
<1>7. CASE UNCHANGED vars
  BY <1>7 DEF vars, Conserved
<1> QED
  BY <1>1, <1>2, <1>3, <1>4, <1>5, <1>6, <1>7 DEF Next, SenderStep, WriterStep, Outside

\* The inductive invariant of the write path.
LEMMA QueueInvariance == Spec => []QueueInv
<1>1. QueueInv /\ [Next]_vars => QueueInv'
  BY StepTypes, StepControl, StepConserved DEF QueueInv
<1> QED
  BY InitQueue, <1>1, PTL DEF Spec

-----------------------------------------------------------------------------
(* The variables of the write path keep their types; the channel never     *)
(* holds more than write_queue_capacity messages, although senders decide  *)
(* without a lock (try_enqueue).                                           *)
THEOREM QueueTypeCorrect == Spec => []TypeOK
<1>1. QueueInv => TypeOK
  BY DEF QueueInv
<1> QED
  BY QueueInvariance, <1>1, PTL

(* What reaches the connection is what try_enqueue accepted, in that       *)
(* order, without gaps or duplicates, for any number of senders and any    *)
(* capacity (writer_task).                                                 *)
THEOREM FifoCorrect == Spec => []FifoDelivery
<1>1. QueueInv => FifoDelivery
  <2> SUFFICES ASSUME QueueInv PROVE FifoDelivery
    OBVIOUS
  <2> DEFINE M == 1..MaxMessages
  <2>1. wire \in Seq(M) /\ hand \in Seq(M) /\ queue \in Seq(M)
    BY DEF QueueInv, TypeOK
  <2>2. IsPrefix(wire, wire \o hand \o queue)
    BY <2>1, WirePrefix
  <2> QED
    BY <2>2 DEF QueueInv, Conserved, FifoDelivery
<1> QED
  BY QueueInvariance, <1>1, PTL

(* Until the queue is closed or a write fails, every accepted message is   *)
(* written, being written or queued (try_enqueue, writer_task).            *)
THEOREM NothingLostCorrect == Spec => []NothingLost
<1>1. QueueInv => NothingLost
  BY DEF QueueInv, TypeOK, Isolated, Conserved, Working, NothingLost
<1> QED
  BY QueueInvariance, <1>1, PTL
=============================================================================
