---------------------------- MODULE ClientProofs ----------------------------
(***************************************************************************)
(* Proofs about the client from the race to the layer the application      *)
(* drives it through, for any protocols, senders, reconnect loops and      *)
(* bounds on calls, attempts and dials.                                    *)
(*                                                                         *)
(* LosersQuiet and StaysDown are about what the background task and the    *)
(* senders do long after the race and the disconnect they started from;    *)
(* the invariant says what they still find then:                           *)
(*                                                                         *)
(*   Decided   there is a winner exactly once the race is decided, its     *)
(*             task is joined, and before that nobody listens              *)
(*   Detached  a loser past detach_race_state shares nothing any more      *)
(*   Exclusive an operation on the client runs under the lock that its     *)
(*             caller keeps until it has the result                        *)
(*   Finished  once the application has disconnected nothing runs on the   *)
(*             client, and its core says that this was asked for           *)
(*                                                                         *)
(* The last part is about the locks of the two layers: LockInv says where  *)
(* their holders are, and NobodyStuck follows from it.                     *)
(***************************************************************************)
EXTENDS MCClient, TLAPS

Decided ==
  /\ race \in {"idle", "racing"} =>
       winner = None /\ closing = NoLoser /\ ~watching /\ heard = {}
  /\ race \in {"connecting", "ok"} => winner \in Protocols
  /\ winner \in Protocols => task[winner] = "joined"
  /\ closing = NoLoser \/ closing.loser \in Protocols \ {winner}

Detached == closing.step \in {"mark", "close"} => closing.loser \notin sharing

Exclusive ==
  /\ result # "none" => stage = "idle"
  /\ layer = "wrapper" /\ race = "ok" /\ Free => stage = "idle"

Finished ==
  down => layer = "wrapper" /\ race = "ok" /\ requested /\ stage = "idle"

ClientInv ==
  TypeOK /\ Decided /\ Detached /\ Exclusive /\ Finished /\ LosersQuiet /\ StaysDown
-----------------------------------------------------------------------------
(* What the operations on the client do, whoever runs them.                *)

\* connect, refused or begun, leaves the core and the operation well typed,
\* and returns at once only when nothing runs.
LEMMA ConnectStarts ==
  ASSUME ClientTypeOK, StartConnect
  PROVE  /\ state' \in States /\ negotiated' \in BOOLEAN /\ ended' \in BOOLEAN
         /\ stage' \in {"idle", "pause", "dial", "send"} /\ retrying' \in BOOLEAN
         /\ result' \in {"none", "ok", "err"}
         /\ result' # "none" => stage' = "idle"
BY DEF ClientTypeOK, StartConnect, coreVars, States

\* try_reconnect counts its attempt within max_reconnect_attempts.
LEMMA ReconnectStarts ==
  ASSUME ClientTypeOK, StartReconnect
  PROVE  /\ state' \in States /\ negotiated' \in BOOLEAN /\ ended' \in BOOLEAN
         /\ stage' \in {"idle", "pause", "dial", "send"} /\ retrying' \in BOOLEAN
         /\ result' \in {"none", "ok", "err"} /\ attempts' \in Attempts
         /\ result' # "none" => stage' = "idle"
<1>1. (MaxAttempts = None \/ MaxAttempts \in Nat) /\ attempts \in Attempts
  BY ClientAssumption DEF ClientTypeOK
<1>2. attempts' \in Attempts
  BY <1>1 DEF StartReconnect, Attempts, Exhausted, CountAttempt
<1>3. /\ state' \in {"Failed", "Connecting"} /\ negotiated' = negotiated /\ ended' = ended
      /\ \/ stage' = "idle" /\ result' = "err"
         \/ stage' = "pause" /\ result' = "none"
      /\ retrying' \in BOOLEAN
  BY DEF StartReconnect
<1> QED
  BY <1>2, <1>3 DEF ClientTypeOK, States

\* A failed attempt does the same, with or without a try_reconnect.
LEMMA AttemptEnds ==
  ASSUME ClientTypeOK, AttemptFails
  PROVE  /\ state' \in States /\ negotiated' \in BOOLEAN /\ ended' \in BOOLEAN
         /\ stage' \in {"idle", "pause", "dial", "send"} /\ retrying' \in BOOLEAN
         /\ result' \in {"none", "ok", "err"} /\ attempts' \in Attempts
         /\ result' # "none" => stage' = "idle"
<1>1. CASE ~retrying /\ CanReconnect
  BY <1>1, ReconnectStarts DEF AttemptFails
<1>2. CASE ~(~retrying /\ CanReconnect)
  BY <1>2 DEF AttemptFails, ClientTypeOK, States
<1> QED
  BY <1>1, <1>2

\* A step of the operation in progress stays with the winner, never touches
\* disconnect_requested and has a result only when it is over.
LEMMA OperationKeeps ==
  ASSUME ClientTypeOK, winner \in Protocols, OperationStep,
         result # "none" => stage = "idle"
  PROVE  /\ ClientTypeOK' /\ winner' = winner /\ requested' = requested
         /\ stage # "idle" /\ (result' # "none" => stage' = "idle")
<1> USE ClientAssumption DEF ClientTypeOK
<1>1. CASE PauseEnds
  BY <1>1 DEF PauseEnds, DisconnectedEvent, coreVars, States
<1>2. CASE Dial
  <2>1. /\ stage = "dial" /\ stage' = "send" /\ winner' = winner /\ requested' = requested
        /\ attempts' = attempts /\ retrying' = retrying /\ result' = result
        /\ prepared' = FALSE /\ held' \in BOOLEAN /\ hooked' \subseteq Protocols
    BY <1>2 DEF Dial
  <2>2. net' \in [Protocols -> {"none", "open", "closed"}] /\ dials' \in 0 .. MaxDials
    BY <1>2 DEF Dial
  <2>3. state' \in States /\ negotiated' \in BOOLEAN /\ ended' \in BOOLEAN
    BY <1>2 DEF Dial, ConnectedEvent, States
  <2> QED
    BY <2>1, <2>2, <2>3
<1>3. CASE DialFails
  <2>1. /\ stage = "dial" /\ AttemptFails /\ held' \in BOOLEAN
        /\ UNCHANGED <<net, winner, hooked, requested, prepared, dials>>
    BY <1>3 DEF DialFails
  <2> QED
    BY <2>1, AttemptEnds
<1>4. CASE SendConnect
  <2>1. /\ stage = "send" /\ stage' = "idle" /\ retrying' = FALSE /\ result' = "ok"
        /\ held' = TRUE /\ attempts' = 0
        /\ UNCHANGED <<net, winner, hooked, requested, prepared, dials>>
    BY <1>4 DEF SendConnect
  <2>2. state' \in States /\ negotiated' \in BOOLEAN /\ ended' \in BOOLEAN
    BY <1>4 DEF SendConnect, ConnectedEvent, States
  <2>3. attempts' \in Attempts
    BY <2>1, ClientAssumption DEF Attempts
  <2> QED
    BY <2>1, <2>2, <2>3
<1>5. CASE SendConnectFails
  <2>1. /\ stage = "send" /\ AttemptFails
        /\ UNCHANGED <<net, winner, hooked, requested, held, prepared, dials>>
    BY <1>5 DEF SendConnectFails
  <2> QED
    BY <2>1, AttemptEnds
<1> QED
  BY <1>1, <1>2, <1>3, <1>4, <1>5 DEF OperationStep

\* disconnect leaves the connection of the winner closed and the mark set.
LEMMA DisconnectKeeps ==
  ASSUME ClientTypeOK, winner \in Protocols, Disconnect
  PROVE  /\ ClientTypeOK' /\ winner' = winner /\ requested' = TRUE
         /\ net'[winner] = "closed"
         /\ stage' = stage /\ result' = result
BY DEF ClientTypeOK, Disconnect, DisconnectedEvent, operationVars, States

-----------------------------------------------------------------------------
(* The race, its background task and the winner's connection.              *)

\* The race and the clients in it.
LEMMA RaceKeeps ==
  ASSUME ClientInv, RaceNext, UNCHANGED <<wrapperVars, managerVars>>
  PROVE  ClientInv'
<1> USE ClientAssumption
<1>0. /\ RaceTypeOK /\ ClientTypeOK /\ WrapperTypeOK' /\ ManagerTypeOK'
      /\ lock' = lock /\ layer' = layer /\ down' = down /\ down \in BOOLEAN
  BY DEF ClientInv, TypeOK, RaceNext, wrapperVars, managerVars, handleVars, loopVars,
         RaceTypeOK, WrapperTypeOK, ManagerTypeOK
<1>i. Decided /\ Detached /\ Exclusive /\ Finished /\ LosersQuiet /\ StaysDown
  BY DEF ClientInv
<1>k. ASSUME RaceTypeOK', Decided', Detached', Exclusive', Finished', LosersQuiet', StaysDown'
      PROVE  ClientInv'
  BY <1>0, <1>k DEF ClientInv, TypeOK
<1>1. CASE Spawn
  <2>1. /\ race = "idle" /\ race' = "racing" /\ task' = [p \in Protocols |-> "dialing"]
        /\ sharing' = Protocols /\ closing' = closing
        /\ UNCHANGED <<net, winner, hooked, state, negotiated, ended, requested, held, prepared,
                       attempts, stage, retrying, result, dials, watching, heard, asked>>
    BY <1>1 DEF Spawn, clientVars, coreVars, fieldVars, operationVars, appVars
  <2>2. RaceTypeOK'
    BY <2>1, <1>0 DEF RaceTypeOK, ClientTypeOK
  <2>3. Decided' /\ Detached' /\ LosersQuiet'
    BY <2>1, <1>i DEF Decided, Detached, LosersQuiet, NoLoser
  <2>4. Exclusive' /\ Finished' /\ StaysDown'
    BY <2>1, <1>0, <1>i DEF Exclusive, Finished, StaysDown
  <2> QED
    BY <1>k, <2>2, <2>3, <2>4
<1>2. ASSUME NEW p \in Protocols, Establish(p) \/ EstablishFails(p)  PROVE ClientInv'
  <2>1. /\ task[p] = "dialing" /\ \E a \in {"established", "failed", "aborted"} :
                                    task' = [task EXCEPT ![p] = a]
        /\ net' = net \/ net' = [net EXCEPT ![p] = "open"]
        /\ UNCHANGED <<race, sharing, closing, winner, hooked, state, negotiated, ended, requested,
                       held, prepared, attempts, stage, retrying, result, dials,
                       watching, heard, asked>>
    BY <1>2 DEF Establish, EstablishFails, clientVars, coreVars, fieldVars, operationVars, appVars
  <2>2. RaceTypeOK'
    BY <2>1, <1>0 DEF RaceTypeOK, ClientTypeOK
  <2>3. p # winner
    BY <2>1, <1>i DEF Decided
  <2>4. Decided'
    BY <2>1, <2>3, <1>0, <1>i DEF Decided, RaceTypeOK, NoLoser
  <2>5. Detached' /\ LosersQuiet' /\ Exclusive' /\ Finished'
    BY <2>1, <1>0, <1>i DEF Detached, LosersQuiet, Exclusive, Finished, Free
  <2>6. StaysDown'
    BY <2>1, <2>3, <1>0, <1>i DEF StaysDown, ClientTypeOK, Finished, Decided
  <2> QED
    BY <1>k, <2>2, <2>4, <2>5, <2>6
<1>3. ASSUME NEW p \in Protocols, JoinWinner(p)  PROVE ClientInv'
  <2>1. /\ race = "racing" /\ race' = "connecting" /\ task' = [task EXCEPT ![p] = "joined"]
        /\ winner' = p /\ held' = TRUE /\ prepared' = TRUE /\ StartConnect
        /\ UNCHANGED <<net, hooked, requested, attempts, dials, sharing, closing,
                       watching, heard, asked>>
    BY <1>3 DEF JoinWinner, appVars
  <2>2. RaceTypeOK'
    BY <2>1, <1>0, ConnectStarts DEF RaceTypeOK, ClientTypeOK
  <2>3. Decided' /\ Detached' /\ LosersQuiet'
    BY <2>1, <1>0, <1>i DEF Decided, Detached, LosersQuiet, NoLoser, RaceTypeOK
  <2>4. Exclusive' /\ Finished' /\ StaysDown'
    BY <2>1, <1>0, <1>i, ConnectStarts DEF Exclusive, Finished, StaysDown
  <2> QED
    BY <1>k, <2>2, <2>3, <2>4
<1>4. ASSUME NEW p \in Protocols, JoinFailed(p)  PROVE ClientInv'
  <2>1. /\ race = "racing" /\ race' \in {"racing", "failed"}
        /\ task' = [task EXCEPT ![p] = "joined"]
        /\ UNCHANGED <<net, winner, hooked, state, negotiated, ended, requested, held, prepared,
                       attempts, stage, retrying, result, dials, sharing, closing,
                       watching, heard, asked>>
    BY <1>4 DEF JoinFailed, clientVars, coreVars, fieldVars, operationVars, appVars
  <2>2. RaceTypeOK'
    BY <2>1, <1>0 DEF RaceTypeOK, ClientTypeOK, Over
  <2>3. Decided' /\ Detached' /\ LosersQuiet'
    BY <2>1, <1>0, <1>i DEF Decided, Detached, LosersQuiet, NoLoser, RaceTypeOK
  <2>4. Exclusive' /\ Finished' /\ StaysDown'
    BY <2>1, <1>0, <1>i DEF Exclusive, Finished, StaysDown
  <2> QED
    BY <1>k, <2>2, <2>3, <2>4
<1>5. ASSUME NEW p \in Protocols, JoinLoser(p)  PROVE ClientInv'
  <2>1. /\ winner \notin {None, p} /\ closing = NoLoser /\ task' = [task EXCEPT ![p] = "joined"]
        /\ closing' = [loser |-> p, step |-> "detach"]
        /\ UNCHANGED <<net, winner, hooked, state, negotiated, ended, requested, held, prepared,
                       attempts, stage, retrying, result, dials, race, sharing,
                       watching, heard, asked>>
    BY <1>5 DEF JoinLoser, clientVars, coreVars, fieldVars, operationVars, appVars
  <2>2. RaceTypeOK'
    BY <2>1, <1>0 DEF RaceTypeOK, ClientTypeOK
  <2>3. Decided' /\ Detached' /\ LosersQuiet'
    BY <2>1, <1>0, <1>i DEF Decided, Detached, LosersQuiet, NoLoser, RaceTypeOK, ClientTypeOK
  <2>4. Exclusive' /\ Finished' /\ StaysDown'
    BY <2>1, <1>0, <1>i DEF Exclusive, Finished, StaysDown, Free
  <2> QED
    BY <1>k, <2>2, <2>3, <2>4
<1>6. CASE Detach
  <2>1. /\ closing.step = "detach" /\ sharing' = sharing \ {closing.loser}
        /\ closing' = [closing EXCEPT !.step = "mark"]
        /\ UNCHANGED <<net, winner, hooked, state, negotiated, ended, requested, held, prepared,
                       attempts, stage, retrying, result, dials, race, task,
                       watching, heard, asked>>
    BY <1>6 DEF Detach, clientVars, coreVars, fieldVars, operationVars, appVars
  <2>2. closing # NoLoser /\ closing'.loser = closing.loser /\ closing'.step = "mark"
    BY <2>1, <1>0 DEF RaceTypeOK, NoLoser
  <2>3. RaceTypeOK'
    BY <2>1, <1>0 DEF RaceTypeOK, ClientTypeOK
  <2>4. Decided' /\ Detached' /\ LosersQuiet'
    BY <2>1, <2>2, <1>i DEF Decided, Detached, LosersQuiet
  <2>5. Exclusive' /\ Finished' /\ StaysDown'
    BY <2>1, <1>0, <1>i DEF Exclusive, Finished, StaysDown, Free
  <2> QED
    BY <1>k, <2>3, <2>4, <2>5
<1>7. CASE MarkLoser
  <2>1. /\ closing.step = "mark" /\ requested' = (requested \/ closing.loser \in sharing)
        /\ closing' = [closing EXCEPT !.step = "close"]
        /\ UNCHANGED <<net, winner, hooked, state, negotiated, ended, held, prepared,
                       attempts, stage, retrying, result, dials, race, task, sharing,
                       watching, heard, asked>>
    BY <1>7 DEF MarkLoser, coreVars, fieldVars, operationVars, appVars
  <2>2. closing # NoLoser /\ closing'.loser = closing.loser /\ closing'.step = "close"
    BY <2>1, <1>0 DEF RaceTypeOK, NoLoser
  <2>3. requested' = requested
    BY <2>1, <1>0, <1>i DEF Detached, ClientTypeOK
  <2>4. RaceTypeOK'
    BY <2>1, <2>3, <1>0 DEF RaceTypeOK, ClientTypeOK
  <2>5. Decided' /\ Detached' /\ LosersQuiet'
    BY <2>1, <2>2, <2>3, <1>i DEF Decided, Detached, LosersQuiet
  <2>6. Exclusive' /\ Finished' /\ StaysDown'
    BY <2>1, <2>3, <1>0, <1>i DEF Exclusive, Finished, StaysDown, Free
  <2> QED
    BY <1>k, <2>4, <2>5, <2>6
<1>8. CASE CloseLoser
  <2>1. /\ closing.step = "close" /\ closing' = NoLoser
        /\ net' = [net EXCEPT ![closing.loser] = "closed"]
        /\ heard' = heard \cup (IF closing.loser \in sharing /\ watching THEN {closing.loser} ELSE {})
        /\ UNCHANGED <<winner, hooked, state, negotiated, ended, requested, held, prepared,
                       attempts, stage, retrying, result, dials, race, task, sharing,
                       watching, asked>>
    BY <1>8 DEF CloseLoser, Tells, coreVars, fieldVars, operationVars
  <2>2. heard' = heard
    BY <2>1, <1>i DEF Detached
  <2>3. RaceTypeOK'
    <3>1. ClientTypeOK'
      BY <2>1, <1>0, ZenonT(60) DEF ClientTypeOK
    <3> QED
      BY <2>1, <2>2, <3>1, <1>0 DEF RaceTypeOK, NoLoser
  <2>4. Decided' /\ Detached' /\ LosersQuiet'
    BY <2>1, <2>2, <1>i DEF Decided, Detached, LosersQuiet, NoLoser
  <2>5. Exclusive' /\ Finished' /\ StaysDown'
    BY <2>1, <1>0, <1>i DEF Exclusive, Finished, StaysDown, Free, ClientTypeOK
  <2> QED
    BY <1>k, <2>3, <2>4, <2>5
<1>9. CASE RaceReturns
  <2>1. /\ race = "connecting" /\ result # "none" /\ race' \in {"ok", "failed"}
        /\ net' = net \/ net' = [net EXCEPT ![winner] = "closed"]
        /\ result' = "none"
        /\ UNCHANGED <<winner, hooked, state, negotiated, ended, requested, held, prepared,
                       attempts, stage, retrying, dials, task, sharing, closing,
                       watching, heard, asked>>
    BY <1>9 DEF RaceReturns, coreVars, fieldVars, appVars
  <2>2. RaceTypeOK'
    BY <2>1, <1>0 DEF RaceTypeOK, ClientTypeOK, Over
  <2>3. Decided' /\ Detached' /\ LosersQuiet'
    BY <2>1, <1>i DEF Decided, Detached, LosersQuiet, NoLoser
  <2>4. Exclusive' /\ Finished' /\ StaysDown'
    BY <2>1, <1>0, <1>i DEF Exclusive, Finished, StaysDown
  <2> QED
    BY <1>k, <2>2, <2>3, <2>4
<1>10. CASE RaceTimeout
  <2>1. /\ race \in {"racing", "connecting"} /\ result = "none" /\ race' = "timed_out"
        /\ task' = IF winner # None THEN task ELSE
             [p \in Protocols |-> IF task[p] = "established" THEN "aborted" ELSE task[p]]
        /\ stage' = "idle" /\ retrying' = FALSE /\ result' = result
        /\ UNCHANGED <<winner, hooked, state, negotiated, ended, requested, held, prepared,
                       attempts, dials, sharing, closing, watching, heard, asked>>
    BY <1>10 DEF RaceTimeout, coreVars, fieldVars, appVars
  <2>2. net' \in [Protocols -> {"none", "open", "closed"}]
    BY <1>10, <1>0 DEF RaceTimeout, ClientTypeOK
  <2>3. task' \in [Protocols -> {"none", "dialing", "established", "failed", "joined", "aborted"}]
    BY <2>1, <1>0 DEF RaceTypeOK
  <2>4. RaceTypeOK'
    BY <2>1, <2>2, <2>3, <1>0, ZenonT(60) DEF RaceTypeOK, ClientTypeOK, Over
  <2>5. Decided' /\ Detached' /\ LosersQuiet'
    BY <2>1, <1>i DEF Decided, Detached, LosersQuiet, NoLoser
  <2>6. Exclusive' /\ Finished' /\ StaysDown'
    BY <2>1, <1>0, <1>i DEF Exclusive, Finished, StaysDown
  <2> QED
    BY <1>k, <2>4, <2>5, <2>6
<1>11. CASE WinnerStep
  <2>1. /\ race \in {"connecting", "ok"} /\ OperationStep
        /\ heard' = heard \/ heard' = heard \cup {winner} 
        /\ UNCHANGED <<race, task, sharing, closing, watching, asked>>
    BY <1>11 DEF WinnerStep, Tells, raceVars
  <2>2. winner \in Protocols
    BY <2>1, <1>i DEF Decided
  <2>3. result # "none" => stage = "idle"
    BY <1>i DEF Exclusive
  <2>4. /\ ClientTypeOK' /\ winner' = winner /\ requested' = requested
        /\ stage # "idle" /\ (result' # "none" => stage' = "idle")
    BY <2>1, <2>2, <2>3, <1>0, OperationKeeps
  <2>5. RaceTypeOK'
    BY <2>1, <2>2, <2>4, <1>0 DEF RaceTypeOK
  <2>6. Decided' /\ Detached' /\ LosersQuiet'
    BY <2>1, <2>4, <1>i DEF Decided, Detached, LosersQuiet, NoLoser
  <2>7. Exclusive' /\ Finished' /\ StaysDown'
    BY <2>1, <2>4, <1>0, <1>i DEF Exclusive, Finished, StaysDown, Free
  <2> QED
    BY <1>k, <2>5, <2>6, <2>7
<1>12. CASE ServerActs
  <2>1. /\ race \in {"connecting", "ok"}
        /\ heard' = heard \/ heard' = heard \cup {winner}
        /\ UNCHANGED <<race, task, sharing, closing, watching, asked>>
    BY <1>12 DEF ServerActs, Tells, raceVars
  <2>2. /\ UNCHANGED <<winner, hooked, requested, held, prepared, attempts, stage, retrying,
                       result, dials>>
        /\ net' = net \/ net' = [net EXCEPT ![winner] = "closed"]
        /\ state' \in States /\ negotiated' \in BOOLEAN /\ ended' \in BOOLEAN
    BY <1>12, <1>0 DEF ServerActs, Ack, Ends, fieldVars, operationVars, ClientTypeOK, States
  <2>3. winner \in Protocols
    BY <2>1, <1>i DEF Decided
  <2>4. RaceTypeOK'
    <3>1. ClientTypeOK'
      BY <2>2, <1>0 DEF ClientTypeOK
    <3> QED
      BY <2>1, <2>3, <3>1, <1>0 DEF RaceTypeOK
  <2>5. Decided' /\ Detached' /\ LosersQuiet'
    BY <2>1, <2>2, <1>i DEF Decided, Detached, LosersQuiet, NoLoser
  <2>6. Exclusive' /\ Finished'
    BY <2>1, <2>2, <1>0, <1>i DEF Exclusive, Finished, Free
  <2>7. StaysDown'
    BY <2>2, <2>3, <1>0, <1>i DEF StaysDown, ClientTypeOK
  <2> QED
    BY <1>k, <2>4, <2>5, <2>6, <2>7
<1>13. CASE Watch
  <2>1. /\ race = "ok" /\ watching' = TRUE
        /\ UNCHANGED <<net, winner, hooked, state, negotiated, ended, requested, held, prepared,
                       attempts, stage, retrying, result, dials, race, task, sharing, closing,
                       heard, asked>>
    BY <1>13 DEF Watch, clientVars, coreVars, fieldVars, operationVars, raceVars
  <2>2. RaceTypeOK'
    BY <2>1, <1>0 DEF RaceTypeOK, ClientTypeOK
  <2>3. Decided' /\ Detached' /\ LosersQuiet'
    BY <2>1, <1>i DEF Decided, Detached, LosersQuiet, NoLoser
  <2>4. Exclusive' /\ Finished' /\ StaysDown'
    BY <2>1, <1>0, <1>i DEF Exclusive, Finished, StaysDown, Free
  <2> QED
    BY <1>k, <2>2, <2>3, <2>4
<1> QED
  BY <1>1, <1>2, <1>3, <1>4, <1>5, <1>6, <1>7, <1>8, <1>9, <1>10, <1>11, <1>12, <1>13
     DEF RaceNext, Background
-----------------------------------------------------------------------------
(* The senders and the application behind ClientWrapper.                   *)

\* A look at the client that changes none of it keeps the invariant.
LEMMA CallKeeps ==
  ASSUME ClientInv, layer' = layer, lock' = lock, down' = down, Keep, WrapperTypeOK',
         UNCHANGED managerVars
  PROVE  ClientInv'
<1>1. UNCHANGED <<net, winner, hooked, state, negotiated, ended, requested, held, prepared,
                  attempts, stage, retrying, result, dials, race, task, sharing, closing,
                  watching, heard, asked>>
  BY DEF Keep, clientVars, coreVars, fieldVars, operationVars, raceVars, appVars
<1>2. RaceTypeOK' /\ ManagerTypeOK'
  BY <1>1 DEF ClientInv, TypeOK, RaceTypeOK, ClientTypeOK, ManagerTypeOK, managerVars,
              handleVars, loopVars
<1>3. Decided' /\ Detached' /\ LosersQuiet'
  BY <1>1 DEF ClientInv, Decided, Detached, LosersQuiet, NoLoser
<1>4. Exclusive' /\ Finished' /\ StaysDown'
  BY <1>1 DEF ClientInv, Exclusive, Finished, StaysDown, Free
<1> QED
  BY <1>2, <1>3, <1>4 DEF ClientInv, TypeOK

\* An operation that is started under the lock, or whose result is taken with
\* the lock given back, keeps it too: nothing but the operation and the core
\* changes, and after a disconnect none is started.
LEMMA HandOverKeeps ==
  ASSUME ClientInv, race = "ok", layer' = layer, WrapperTypeOK', ManagerTypeOK',
         UNCHANGED linkVars, UNCHANGED <<requested, held, prepared>>,
         UNCHANGED raceVars, UNCHANGED appVars,
         state' \in States, negotiated' \in BOOLEAN, ended' \in BOOLEAN,
         stage' \in {"idle", "pause", "dial", "send"}, retrying' \in BOOLEAN,
         result' \in {"none", "ok", "err"}, attempts' \in Attempts,
         result' # "none" => stage' = "idle",
         layer = "wrapper" => lock' # None \/ stage' = "idle",
         down' => down /\ stage' = stage
  PROVE  ClientInv'
<1>1. UNCHANGED <<net, winner, hooked, dials, requested, held, prepared, race, task, sharing,
                  closing, watching, heard, asked>>
  BY DEF linkVars, raceVars, appVars
<1>2. RaceTypeOK'
  BY <1>1 DEF ClientInv, TypeOK, RaceTypeOK, ClientTypeOK
<1>3. Decided' /\ Detached' /\ LosersQuiet'
  BY <1>1 DEF ClientInv, Decided, Detached, LosersQuiet, NoLoser
<1>4. Exclusive' /\ Finished' /\ StaysDown'
  BY <1>1 DEF ClientInv, Exclusive, Finished, StaysDown, Free
<1> QED
  BY <1>2, <1>3, <1>4 DEF ClientInv, TypeOK

\* The disconnect the application asks for, through either layer.
LEMMA DisconnectedKeeps ==
  ASSUME ClientInv, race = "ok", layer' = layer, lock' = lock, Free, WrapperTypeOK',
         ManagerTypeOK', Disconnect, asked' = TRUE, Tells(winner), UNCHANGED raceVars,
         watching' = watching, down' => layer = "wrapper"
  PROVE  ClientInv'
<1>1. winner \in Protocols /\ ClientTypeOK
  BY DEF ClientInv, Decided, TypeOK, RaceTypeOK
<1>2. /\ ClientTypeOK' /\ winner' = winner /\ requested' = TRUE /\ net'[winner] = "closed"
      /\ stage' = stage /\ result' = result
  BY <1>1, DisconnectKeeps
<1>3. /\ UNCHANGED <<race, task, sharing, closing>>
      /\ heard' = heard \/ heard' = heard \cup {winner}
  BY DEF Tells, raceVars
<1>4. RaceTypeOK'
  BY <1>1, <1>2, <1>3 DEF ClientInv, TypeOK, RaceTypeOK
<1>5. Decided' /\ Detached' /\ LosersQuiet'
  BY <1>2, <1>3 DEF ClientInv, Decided, Detached, LosersQuiet, NoLoser
<1>6. Exclusive' /\ Finished' /\ StaysDown'
  BY <1>2, <1>3 DEF ClientInv, Exclusive, Finished, StaysDown, Free
<1> QED
  BY <1>4, <1>5, <1>6 DEF ClientInv, TypeOK

\* The counters and program counters of the callers stay well typed.
LEMMA WrapperTypes ==
  ASSUME WrapperTypeOK, WrapperNext
  PROVE  WrapperTypeOK'
<1> USE WrapperAssumption DEF WrapperTypeOK, Callers
<1>1. ASSUME NEW s \in Senders, Send(s) \/ SenderStep(s), down' = down  PROVE WrapperTypeOK'
  <2>1. CASE Send(s)
    BY <1>1, <2>1 DEF Send, Goto
  <2>2. CASE Ready(s) \/ Refuse(s) \/ TakeGate(s) \/ Again(s) \/ Delay(s) \/ Negotiated(s)
    BY <1>1, <2>2 DEF Ready, Refuse, TakeGate, Again, Delay, Negotiated, Goto
  <2>3. CASE Reconnect(s)
    BY <1>1, <2>3 DEF Reconnect, Goto, Return
  <2>4. CASE Reconnected(s) \/ NegotiationFails(s)
    BY <1>1, <2>4 DEF Reconnected, NegotiationFails, Goto, Return
  <2>5. CASE SendLocked(s) \/ Resent(s)
    BY <1>1, <2>5 DEF SendLocked, Resent, Goto
  <2> QED
    BY <1>1, <2>1, <2>2, <2>3, <2>4, <2>5 DEF SenderStep
<1>2. CASE AppConnect
  <2>1. /\ calls[App] < MaxCalls /\ pc' = [pc EXCEPT ![App] = "connect"]
        /\ calls' = [calls EXCEPT ![App] = @ + 1] /\ down' = FALSE /\ gate' = gate
    BY <1>2 DEF AppConnect, Goto
  <2>2. calls[App] + 1 \in 0 .. MaxCalls
    BY <2>1
  <2> QED
    BY <2>1, <2>2
<1>3. CASE AppConnected
  BY <1>3 DEF AppConnected, Goto
<1>4. CASE AppDisconnect
  BY <1>4 DEF AppDisconnect
<1> QED
  BY <1>1, <1>2, <1>3, <1>4 DEF WrapperNext

\* The wrapper and its callers.
LEMMA WrapperKeeps ==
  ASSUME ClientInv, WrapperNext, UNCHANGED managerVars
  PROVE  ClientInv'
<1>0. /\ RaceTypeOK /\ ClientTypeOK /\ WrapperTypeOK /\ WrapperTypeOK' /\ ManagerTypeOK'
      /\ layer = "wrapper" /\ race = "ok" /\ layer' = layer
  BY WrapperTypes DEF ClientInv, TypeOK, RaceTypeOK, ManagerTypeOK, managerVars, handleVars,
         loopVars, WrapperNext
<1>e. /\ Free => stage = "idle"
      /\ result # "none" => stage = "idle"
      /\ down => requested
  BY <1>0 DEF ClientInv, Exclusive, Finished
<1>1. ASSUME NEW s \in Senders, down' = down,
             \/ Send(s) \/ Ready(s) \/ Refuse(s) \/ TakeGate(s) \/ Again(s) \/ Delay(s)
             \/ Negotiated(s) \/ NegotiationFails(s)
      PROVE  ClientInv'
  <2>1. Keep /\ lock' = lock
    BY <1>1 DEF Send, Ready, Refuse, TakeGate, Again, Delay, Negotiated, NegotiationFails
  <2> QED
    BY <2>1, <1>0, <1>1, CallKeeps
<1>2. ASSUME NEW s \in Senders, down' = down, Reconnect(s)  PROVE ClientInv'
  <2>1. CASE Keep /\ lock' = lock
    BY <2>1, <1>0, <1>2, CallKeeps
  <2>2. CASE /\ ~requested /\ lock' = s /\ StartConnect
             /\ UNCHANGED <<linkVars, requested, fieldVars, raceVars, appVars>>
    <3>1. attempts' \in Attempts /\ UNCHANGED <<held, prepared>>
      BY <2>2, <1>0 DEF fieldVars, ClientTypeOK
    <3>2. ~down' /\ lock' # None
      BY <2>2, <1>2, <1>e, WrapperAssumption
    <3> QED
      BY <2>2, <3>1, <3>2, <1>0, ConnectStarts, HandOverKeeps
  <2> QED
    BY <1>2, <2>1, <2>2 DEF Reconnect
<1>3. ASSUME NEW s \in Senders, down' = down, SendLocked(s)  PROVE ClientInv'
  <2>1. CASE Keep /\ lock' = lock
    BY <2>1, <1>0, <1>3, CallKeeps
  <2>2. CASE /\ ~requested /\ lock' = s /\ StartReconnect
             /\ UNCHANGED <<linkVars, requested, held, prepared, raceVars, appVars>>
    <3>1. ~down' /\ lock' # None
      BY <2>2, <1>3, <1>e, WrapperAssumption
    <3> QED
      BY <2>2, <3>1, <1>0, ReconnectStarts, HandOverKeeps
  <2> QED
    BY <1>3, <2>1, <2>2 DEF SendLocked, ShouldReconnect
<1>4. ASSUME result # "none", result' = "none", down' = down,
             UNCHANGED <<linkVars, coreVars, requested, fieldVars, stage, retrying,
                         raceVars, appVars>>
      PROVE  ClientInv'
  <2>1. UNCHANGED <<state, negotiated, ended, held, prepared, attempts>> /\ stage = "idle"
    BY <1>4, <1>e DEF coreVars, fieldVars
  <2> QED
    BY <2>1, <1>0, <1>4, HandOverKeeps DEF ClientTypeOK
<1>5. ASSUME NEW s \in Senders, down' = down, Reconnected(s) \/ Resent(s)  PROVE ClientInv'
  BY <1>5, <1>4 DEF Reconnected, Resent
<1>6. CASE AppConnect
  <2>1. /\ lock' = App /\ StartConnect /\ down' = FALSE
        /\ UNCHANGED <<linkVars, requested, fieldVars, raceVars, appVars>>
    BY <1>6 DEF AppConnect
  <2>2. attempts' \in Attempts /\ UNCHANGED <<held, prepared>>
    BY <2>1, <1>0 DEF fieldVars, ClientTypeOK
  <2>3. ~down' /\ lock' # None
    BY <2>1, WrapperAssumption
  <2> QED
    BY <2>1, <2>2, <2>3, <1>0, ConnectStarts, HandOverKeeps
<1>7. CASE AppConnected
  BY <1>7, <1>4 DEF AppConnected
<1>8. CASE AppDisconnect
  BY <1>8, <1>0, DisconnectedKeeps DEF AppDisconnect
<1> QED
  BY <1>1, <1>2, <1>3, <1>5, <1>6, <1>7, <1>8 DEF WrapperNext, SenderStep
-----------------------------------------------------------------------------
(* The calls and the reconnect loops of ClientConnectionManager.           *)

\* The manager's own state, its handles and its loops stay well typed.
LEMMA ManagerTypes ==
  ASSUME ManagerTypeOK, ManagerNext
  PROVE  ManagerTypeOK'
<1> USE ManagerAssumption DEF ManagerTypeOK, handleVars, loopVars
<1>1. CASE Connect \/ SendFrame
  BY <1>1 DEF Connect, SendFrame, Begin, States
<1>2. CASE Connected \/ FrameSent
  BY <1>2 DEF Connected, FrameSent, States
<1>3. CASE Disconnecting
  BY <1>3 DEF Disconnecting, Begin
<1>4. CASE Unmark \/ CloseClient \/ StoreHandle
  BY <1>4 DEF Unmark, CloseClient, StoreHandle, States
<1>5. CASE StartAutoReconnect
  <2>1. /\ left > 0 /\ left' = left - 1 /\ call' \in {"idle", "store"}
        /\ reconnecting' \in BOOLEAN
        /\ loop' = loop \/ \E l \in Loops : loop' = [loop EXCEPT ![l] = "check"]
        /\ UNCHANGED <<mstate, handle, hlock, rlock, tries, killed>>
    BY <1>5 DEF StartAutoReconnect, Begin, At
  <2>2. left' \in 0 .. MaxManaged
    BY <2>1
  <2> QED
    BY <2>1, <2>2
<1>6. ASSUME NEW l \in Loops, Check(l)  PROVE ManagerTypeOK'
  BY <1>6 DEF Check, At, Tries, GivesUp, CountTry
<1>7. ASSUME NEW l \in Loops, Recheck(l) \/ Report(l)  PROVE ManagerTypeOK'
  BY <1>7 DEF Recheck, Report, At, States
<1>8. ASSUME NEW l \in Loops, LoopConnect(l) \/ LoopConnected(l)  PROVE ManagerTypeOK'
  BY <1>8 DEF LoopConnect, LoopConnected, At, States
<1>9. ASSUME NEW l \in Loops, LoopUnmark(l)  PROVE ManagerTypeOK'
  BY <1>9 DEF LoopUnmark, At
<1>10. ASSUME NEW l \in Loops, ClearHandle(l)  PROVE ManagerTypeOK'
  BY <1>10 DEF ClearHandle, At
<1>11. ASSUME NEW l \in Loops, LoopDies(l)  PROVE ManagerTypeOK'
  BY <1>11 DEF LoopDies, At
<1> QED
  BY <1>1, <1>2, <1>3, <1>4, <1>5, <1>6, <1>7, <1>8, <1>9, <1>10, <1>11
     DEF ManagerNext, CallerStep, LoopStep

\* Behind the manager nothing is ever marked down, and what runs on the client
\* may be dropped with its loop: the invariant asks nothing of the lock here.
LEMMA ManagerKeeps ==
  ASSUME ClientInv, ManagerNext, UNCHANGED wrapperVars
  PROVE  ClientInv'
<1>0. /\ RaceTypeOK /\ ClientTypeOK /\ WrapperTypeOK' /\ ManagerTypeOK'
      /\ layer = "manager" /\ race = "ok" /\ layer' = layer /\ ~down /\ ~down'
      /\ result # "none" => stage = "idle"
  BY ManagerTypes DEF ClientInv, TypeOK, RaceTypeOK, WrapperTypeOK, wrapperVars, ManagerNext,
         Finished, Exclusive
<1>1. ASSUME KeepClient  PROVE ClientInv'
  <2>1. UNCHANGED <<linkVars, coreVars, requested, fieldVars, operationVars, raceVars, appVars>>
    BY <1>1 DEF KeepClient, clientVars, linkVars
  <2>2. UNCHANGED <<state, negotiated, ended, held, prepared, attempts, stage, retrying, result>>
    BY <2>1 DEF coreVars, fieldVars, operationVars
  <2> QED
    BY <2>1, <2>2, <1>0, HandOverKeeps DEF ClientTypeOK
<1>2. ASSUME StartConnect, UNCHANGED <<linkVars, requested, fieldVars, raceVars, appVars>>
      PROVE  ClientInv'
  <2>1. attempts' \in Attempts /\ UNCHANGED <<held, prepared>>
    BY <1>2, <1>0 DEF fieldVars, ClientTypeOK
  <2> QED
    BY <2>1, <1>0, <1>2, ConnectStarts, HandOverKeeps
<1>3. ASSUME StartReconnect,
             UNCHANGED <<linkVars, requested, held, prepared, raceVars, appVars>>
      PROVE  ClientInv'
  BY <1>0, <1>3, ReconnectStarts, HandOverKeeps
<1>4. ASSUME result' = "none", stage' \in {stage, "idle"}, retrying' \in {retrying, FALSE},
             UNCHANGED <<linkVars, coreVars, requested, fieldVars, raceVars, appVars>>
      PROVE  ClientInv'
  <2>1. UNCHANGED <<state, negotiated, ended, held, prepared, attempts>>
    BY <1>4 DEF coreVars, fieldVars
  <2> QED
    BY <2>1, <1>0, <1>4, HandOverKeeps DEF ClientTypeOK
<1>5. CASE Connect
  BY <1>5, <1>1, <1>2 DEF Connect
<1>6. CASE SendFrame
  BY <1>6, <1>1, <1>3 DEF SendFrame
<1>7. CASE Connected \/ FrameSent
  BY <1>7, <1>4 DEF Connected, FrameSent
<1>8. CASE Disconnecting \/ Unmark \/ StartAutoReconnect \/ StoreHandle
  BY <1>8, <1>1 DEF Disconnecting, Unmark, StartAutoReconnect, StoreHandle
<1>9. CASE CloseClient
  BY <1>9, <1>0, DisconnectedKeeps DEF CloseClient
<1>10. ASSUME NEW l \in Loops, LoopStep(l)  PROVE ClientInv'
  <2>1. CASE Check(l) \/ Recheck(l) \/ Report(l) \/ LoopUnmark(l) \/ ClearHandle(l)
    BY <2>1, <1>1 DEF Check, Recheck, Report, LoopUnmark, ClearHandle
  <2>2. CASE LoopConnect(l)
    BY <2>2, <1>2 DEF LoopConnect
  <2>3. CASE LoopConnected(l)
    BY <2>3, <1>4 DEF LoopConnected
  <2>4. CASE LoopDies(l) /\ lock = l
    BY <2>4, <1>4 DEF LoopDies
  <2>5. CASE LoopDies(l) /\ lock # l
    BY <2>5, <1>1 DEF LoopDies, KeepClient, clientVars, linkVars
  <2> QED
    BY <1>10, <2>1, <2>2, <2>3, <2>4, <2>5 DEF LoopStep
<1> QED
  BY <1>5, <1>6, <1>7, <1>8, <1>9, <1>10 DEF ManagerNext, CallerStep

-----------------------------------------------------------------------------
\* The invariant holds of the client behind either layer, whatever the race,
\* the senders, the loops, the server and the network do.
THEOREM ClientInvariance == Spec => []ClientInv
<1>1. Init => ClientInv
  <2> SUFFICES ASSUME Init  PROVE ClientInv
    OBVIOUS
  <2>1. RaceTypeOK
    <3>1. 0 \in Attempts /\ 0 \in 0 .. MaxDials
      BY ClientAssumption DEF Attempts
    <3>2. ClientTypeOK
      BY <3>1 DEF Init, RaceInit, ClientInit, ClientTypeOK, States
    <3> QED
      BY <3>2 DEF Init, RaceInit, RaceTypeOK, NoLoser
  <2>2. WrapperTypeOK
    <3>1. 0 \in 0 .. MaxCalls
      BY WrapperAssumption
    <3> QED
      BY <3>1 DEF Init, WrapperInit, WrapperTypeOK
  <2>3. ManagerTypeOK
    <3>1. 0 \in Tries /\ MaxManaged \in 0 .. MaxManaged
      BY ManagerAssumption DEF Tries
    <3> QED
      BY <3>1 DEF Init, ManagerInit, ManagerTypeOK, States
  <2>4. Decided /\ Detached /\ Exclusive /\ Finished /\ LosersQuiet /\ StaysDown
    BY ClientAssumption DEF Init, RaceInit, ClientInit, WrapperInit, Decided, Detached, Exclusive,
       Finished, LosersQuiet, StaysDown, NoLoser
  <2> QED
    BY <2>1, <2>2, <2>3, <2>4 DEF ClientInv, TypeOK
<1>2. ClientInv /\ [Next]_allVars => ClientInv'
  <2>1. ASSUME ClientInv, Next  PROVE ClientInv'
    BY <2>1, RaceKeeps, WrapperKeeps, ManagerKeeps DEF Next
  <2>2. ASSUME ClientInv, UNCHANGED allVars  PROVE ClientInv'
    <3>1. layer' = layer /\ lock' = lock /\ UNCHANGED wrapperVars /\ Keep /\ UNCHANGED managerVars
      BY <2>2 DEF allVars, Keep
    <3>2. WrapperTypeOK' /\ down' = down
      BY <2>2, <3>1 DEF ClientInv, TypeOK, WrapperTypeOK, wrapperVars
    <3> QED
      BY <2>2, <3>1, <3>2, CallKeeps
  <2> QED
    BY <2>1, <2>2
<1> QED
  BY <1>1, <1>2, PTL DEF Spec

\* Every variable of the client, the race and the two layers keeps its type.
THEOREM ClientTypeCorrect == Spec => []TypeOK
<1>1. ClientInv => TypeOK
  BY DEF ClientInv
<1> QED
  BY <1>1, ClientInvariance, PTL

\* However many protocols race, and however late the background task comes to
\* a loser, nothing of the loser reaches the application and its mark of a
\* requested disconnect never lands on the core that the winner uses.
THEOREM LosersQuietCorrect == Spec => []LosersQuiet
<1>1. ClientInv => LosersQuiet
  BY DEF ClientInv
<1> QED
  BY <1>1, ClientInvariance, PTL

\* However many senders are on their way through ensure_ready_for_send, none
\* of them brings back a client that the application has disconnected.
THEOREM StaysDownCorrect == Spec => []StaysDown
<1>1. ClientInv => StaysDown
  BY DEF ClientInv
<1> QED
  BY <1>1, ClientInvariance, PTL

-----------------------------------------------------------------------------
(* Nobody waits for a lock whose holder waits for it: behind the wrapper   *)
(* the gate is taken before the lock of the client and never under it;     *)
(* behind the manager the only lock awaited under another is that of the   *)
(* mark, which nobody keeps, and a loop that is aborted in the middle of a *)
(* connect gives the lock of the client back.                              *)

(* The operation that the lock of the client is held for goes on, or has   *)
(* returned.                                                               *)
Running == race = "ok" /\ (stage # "idle" \/ result # "none")

(* The steps of a caller that holds reconnect_gate, and those of one that  *)
(* holds the lock of the client over an operation.                         *)
Holding == {"again", "delay", "reconnect", "connect", "negotiate"}
Operating == {"connect", "resend"}

(* Behind the wrapper: who holds reconnect_gate is at a step that does not *)
(* wait for it, and who holds the lock is in an operation on the client    *)
(* and waits for neither.                                                  *)
WrapperLocks ==
  IF layer = "wrapper"
  THEN /\ gate # None => pc[gate] \in Holding
       /\ pc[App] \in {"idle", "connect"} /\ lock \in Callers \cup {None}
       /\ \A c \in Callers : lock = c <=> pc[c] \in Operating
       /\ lock # None => Running
  ELSE \A c \in Callers : pc[c] = "idle"

(* Behind the manager: the lock of the mark is never kept over an await,   *)
(* and that of the handle only while a disconnect clears the mark.         *)
HandleLocks ==
  rlock = None /\ hlock = (IF call = "unmark" THEN Caller ELSE None)

(* The lock of the client is held by a call or a loop in an operation.     *)
ClientLock ==
  /\ lock \in Loops \cup {Caller, None}
  /\ lock = Caller <=> call \in {"connect", "send"}
  /\ \A l \in Loops : lock = l <=> loop[l] = "connect"
  /\ lock # None => Running

(* Loops are started in the order of their numbers, and the call that      *)
(* stores a handle finds the loop it started.                              *)
Started ==
  /\ \A k, l \in Loops : (loop[l] # "new" /\ k <= l) => loop[k] # "new"
  /\ call = "store" => \E l \in Loops : Latest(l)

ManagerLocks ==
  IF layer = "manager" THEN HandleLocks /\ ClientLock /\ Started ELSE call = "idle"

LockInv == ClientInv /\ WrapperLocks /\ ManagerLocks

(* What the next step of a sender, of the application, of a call of the    *)
(* manager and of a loop waits for is there; nothing else is in its guard. *)
SenderGoes(s) ==
  \/ pc[s] \in {"ready", "refuse", "again", "delay", "reconnect", "send"} /\ Free
  \/ pc[s] = "gate" /\ gate = None
  \/ pc[s] \in {"connect", "resend"} /\ lock = s /\ result # "none"
  \/ pc[s] = "negotiate"
AppGoes == pc[App] = "connect" /\ lock = App /\ result # "none"
CallGoes ==
  \/ call \in {"connect", "send"} /\ lock = Caller /\ result # "none"
  \/ call = "unmark" /\ rlock = None
  \/ call = "close" /\ Free
  \/ call = "store" /\ hlock = None /\ \E l \in Loops : Latest(l)
LoopGoes(l) ==
  \/ loop[l] \in {"check", "wait", "lock"} /\ (Free \/ l \in killed)
  \/ loop[l] = "connect" /\ ((lock = l /\ result # "none") \/ l \in killed)
  \/ loop[l] = "report"
  \/ loop[l] = "unmark" /\ (rlock = None \/ l \in killed)
  \/ loop[l] = "clear" /\ (hlock = None \/ l \in killed)

(* LayersMove, with what a step waits for in the place of ENABLED.         *)
NobodyStuck ==
  /\ (\E c \in Callers : pc[c] # "idle") =>
       stage # "idle" \/ AppGoes \/ \E s \in Senders : SenderGoes(s)
  /\ call # "idle" =>
       stage # "idle" \/ CallGoes \/ \E l \in Loops : LoopGoes(l)

\* An operation that starts runs, or has returned at once.
LEMMA StartRuns ==
  ASSUME StartConnect \/ StartReconnect
  PROVE  stage' # "idle" \/ result' # "none"
BY DEF StartConnect, StartReconnect

\* A step of the operation leaves it running, or returns.
LEMMA OperationRuns ==
  ASSUME OperationStep
  PROVE  stage' # "idle" \/ result' # "none"
<1>1. CASE PauseEnds \/ Dial \/ SendConnect
  BY <1>1 DEF PauseEnds, Dial, SendConnect
<1>2. CASE AttemptFails
  BY <1>2, StartRuns DEF AttemptFails
<1> QED
  BY <1>1, <1>2 DEF OperationStep, DialFails, SendConnectFails

\* What the race, its background task and the server do takes no operation
\* away from the one who holds the lock for it.
LEMMA RaceRuns ==
  ASSUME Running, RaceNext
  PROVE  Running'
<1> USE DEF Running
<1>1. race = "ok"
  OBVIOUS
<1>2. CASE UNCHANGED <<race, operationVars>>
  BY <1>2 DEF operationVars
<1>3. CASE WinnerStep
  BY <1>3, OperationRuns DEF WinnerStep, raceVars
<1>4. ASSUME NEW p \in Protocols, Establish(p) \/ EstablishFails(p)
      PROVE  UNCHANGED <<race, operationVars>>
  BY <1>4 DEF Establish, EstablishFails, clientVars
<1>5. ASSUME Background PROVE UNCHANGED <<race, operationVars>>
  BY <1>5 DEF Background, JoinLoser, Detach, MarkLoser, CloseLoser, clientVars
<1>6. ASSUME ServerActs \/ Watch PROVE UNCHANGED <<race, operationVars>>
  BY <1>6 DEF ServerActs, Ack, Ends, Watch, clientVars, raceVars
<1>7. /\ ~Spawn /\ ~RaceReturns /\ ~RaceTimeout
      /\ \A p \in Protocols : ~JoinWinner(p) /\ ~JoinFailed(p)
  BY <1>1 DEF Spawn, RaceReturns, RaceTimeout, JoinWinner, JoinFailed
<1> QED
  BY <1>2, <1>3, <1>4, <1>5, <1>6, <1>7 DEF RaceNext

\* The race keeps what the layers know of their locks.
LEMMA RaceLocks ==
  ASSUME WrapperLocks, ManagerLocks, RaceNext, UNCHANGED <<wrapperVars, managerVars>>
  PROVE  WrapperLocks' /\ ManagerLocks'
<1>1. lock' = lock /\ layer' = layer /\ (Running => Running')
  BY RaceRuns DEF RaceNext
<1>2. UNCHANGED <<gate, pc, handle, hlock, rlock, call, loop>>
  BY DEF wrapperVars, managerVars, handleVars, loopVars
<1> QED
  BY <1>1, <1>2 DEF WrapperLocks, ManagerLocks, HandleLocks, ClientLock, Started, Latest

\* A caller moves: it takes the lock for an operation, gives it back, or
\* leaves it where it was, and so for the gate.
LEMMA CallerLocks ==
  ASSUME WrapperTypeOK, WrapperLocks, layer = "wrapper", layer' = layer,
         NEW c \in Callers, NEW step, pc' = [pc EXCEPT ![c] = step],
         lock' \in {lock, None, c}, \A d \in Callers \ {c} : lock = d => lock' = d,
         lock' = c <=> step \in Operating, lock' # None => Running',
         gate' \in {gate, None, c}, gate' = c => step \in Holding,
         c = App => step \in {"idle", "connect"}
  PROVE  WrapperLocks'
<1>1. /\ App \in Callers /\ None \notin Callers /\ pc' \in [Callers -> {step} \cup
            {"idle", "ready", "refuse", "gate", "again", "delay",
             "reconnect", "connect", "negotiate", "send", "resend"}]
      /\ gate \in Callers \cup {None}
  BY WrapperAssumption DEF Callers, WrapperTypeOK
<1>2. \A d \in Callers \ {c} : pc'[d] = pc[d] /\ (lock' = d <=> lock = d)
  BY <1>1 DEF WrapperLocks, WrapperTypeOK
<1>3. pc'[c] = step
  BY <1>1 DEF WrapperTypeOK
<1>4. \A d \in Callers : lock' = d <=> pc'[d] \in Operating
  BY <1>2, <1>3 DEF WrapperLocks, Operating
<1>5. gate' # None => pc'[gate'] \in Holding
  BY <1>1, <1>2, <1>3 DEF WrapperLocks, Holding
<1>6. pc'[App] \in {"idle", "connect"} /\ lock' \in Callers \cup {None}
  BY <1>1, <1>2, <1>3 DEF WrapperLocks
<1> QED
  BY <1>4, <1>5, <1>6 DEF WrapperLocks, Operating, Holding

\* The wrapper and its callers keep their locks in order.
LEMMA WrapperKeepsLocks ==
  ASSUME WrapperTypeOK, WrapperLocks, ManagerLocks, WrapperNext, UNCHANGED managerVars
  PROVE  WrapperLocks' /\ ManagerLocks'
<1>0. /\ layer = "wrapper" /\ layer' = layer /\ race = "ok" /\ call' = call
      /\ \A s \in Senders : s \in Callers /\ s # App /\ s # None
      /\ App \in Callers /\ None \notin Callers /\ gate \in Senders \cup {None}
      /\ App \notin Senders
  BY WrapperAssumption DEF WrapperNext, managerVars, Callers, WrapperTypeOK
<1>1. ManagerLocks'
  BY <1>0 DEF ManagerLocks
<1>2. /\ gate # None => pc[gate] \in Holding
      /\ \A c \in Callers : lock = c <=> pc[c] \in Operating
      /\ lock # None => Running /\ lock \in Callers \cup {None}
  BY <1>0 DEF WrapperLocks, Holding, Operating
<1>k. ASSUME Keep PROVE Running' <=> Running
  BY <1>k DEF Keep, Running, clientVars, operationVars, raceVars
<1>a. ASSUME NEW s \in Senders, NEW step, Goto(s, step), Keep, lock' = lock,
             pc[s] \notin Operating, step \notin Operating,
             gate' \in {gate, None, s}, gate' = s => step \in Holding
      PROVE  WrapperLocks'
  BY <1>0, <1>2, <1>a, <1>k, CallerLocks DEF Goto
<1>b. ASSUME NEW c \in Callers, NEW step \in {"connect", "resend"}, Goto(c, step), Free,
             StartConnect \/ StartReconnect, lock' = c, race' = race,
             gate' = gate, gate = c => step = "connect", c = App => step = "connect"
      PROVE  WrapperLocks'
  <2>1. Running'
    BY <1>0, <1>b, StartRuns DEF Running
  <2>2. \A d \in Callers \ {c} : lock # d
    BY <1>0, <1>b, WrapperAssumption DEF Free, Callers
  <2> QED
    BY <1>0, <1>b, <2>1, <2>2, CallerLocks DEF Goto, Operating, Holding
<1>c. ASSUME NEW c \in Callers, NEW step, Goto(c, step), lock = c, lock' = None,
             step \notin Operating, gate' \in {gate, None}, gate' = c => step \in Holding,
             c = App => step = "idle"
      PROVE  WrapperLocks'
  BY <1>0, <1>c, CallerLocks DEF Goto
<1>3. ASSUME NEW s \in Senders, Send(s) PROVE WrapperLocks'
  BY <1>0, <1>2, <1>3, <1>a DEF Send, Holding, Operating
<1>4. ASSUME NEW s \in Senders, Ready(s) \/ Refuse(s) \/ TakeGate(s) PROVE WrapperLocks'
  <2>1. CASE Ready(s)
    BY <1>0, <1>2, <2>1, <1>a DEF Ready, Holding, Operating
  <2>2. CASE Refuse(s)
    BY <1>0, <1>2, <2>2, <1>a DEF Refuse, Holding, Operating
  <2>3. CASE TakeGate(s)
    BY <1>0, <1>2, <2>3, <1>a DEF TakeGate, Holding, Operating
  <2> QED BY <1>4, <2>1, <2>2, <2>3
<1>5. ASSUME NEW s \in Senders, Again(s) \/ Delay(s) PROVE WrapperLocks'
  <2>1. CASE Again(s)
    BY <1>0, <1>2, <2>1, <1>a DEF Again, Holding, Operating
  <2>2. CASE Delay(s)
    BY <1>0, <1>2, <2>2, <1>a DEF Delay, Holding, Operating
  <2> QED BY <1>5, <2>1, <2>2
<1>6. ASSUME NEW s \in Senders, Negotiated(s) \/ NegotiationFails(s) PROVE WrapperLocks'
  <2>1. CASE Negotiated(s)
    BY <1>0, <1>2, <2>1, <1>a DEF Negotiated, Holding, Operating
  <2>2. CASE NegotiationFails(s)
    BY <1>0, <1>2, <2>2, <1>a DEF NegotiationFails, Return, Holding, Operating
  <2> QED BY <1>6, <2>1, <2>2
<1>7. ASSUME NEW s \in Senders, Reconnect(s) PROVE WrapperLocks'
  <2>0. pc[s] = "reconnect" /\ Free
    BY <1>7 DEF Reconnect
  <2>1. CASE Goto(s, "negotiate") /\ Keep /\ lock' = lock /\ gate' = gate
    BY <1>0, <2>0, <2>1, <1>a DEF Holding, Operating
  <2>2. CASE Return(s) /\ Keep /\ lock' = lock
    BY <1>0, <2>0, <2>2, <1>a DEF Return, Holding, Operating
  <2>3. CASE lock' = s /\ Goto(s, "connect") /\ StartConnect /\ gate' = gate /\ race' = race
    BY <1>0, <2>0, <2>3, <1>b
  <2> QED BY <1>7, <2>1, <2>2, <2>3 DEF Reconnect, raceVars
<1>8. ASSUME NEW s \in Senders, Reconnected(s) \/ Resent(s) PROVE WrapperLocks'
  <2>1. CASE Reconnected(s)
    <3>1. lock = s /\ lock' = None
      BY <2>1 DEF Reconnected
    <3>2. CASE Goto(s, "negotiate") /\ gate' = gate
      BY <1>0, <3>1, <3>2, <1>c DEF Holding, Operating
    <3>3. CASE Return(s)
      BY <1>0, <3>1, <3>3, <1>c DEF Return, Holding, Operating
    <3> QED BY <2>1, <3>2, <3>3 DEF Reconnected
  <2>2. CASE Resent(s)
    <3>1. lock = s /\ lock' = None /\ Goto(s, "idle") /\ gate' = gate /\ pc[s] = "resend"
      BY <2>2 DEF Resent
    <3>2. gate # s
      BY <1>0, <1>2, <3>1 DEF Holding
    <3> QED BY <1>0, <3>1, <3>2, <1>c DEF Operating
  <2> QED BY <1>8, <2>1, <2>2
<1>9. ASSUME NEW s \in Senders, SendLocked(s) PROVE WrapperLocks'
  <2>0. pc[s] = "send" /\ Free /\ gate' = gate /\ gate # s
    BY <1>0, <1>2, <1>9 DEF SendLocked, Holding
  <2>1. CASE lock' = s /\ Goto(s, "resend") /\ StartReconnect /\ race' = race
    BY <1>0, <2>0, <2>1, <1>b
  <2>2. CASE Goto(s, "idle") /\ lock' = lock /\ Keep
    BY <1>0, <2>0, <2>2, <1>a DEF Operating
  <2> QED BY <1>9, <2>1, <2>2 DEF SendLocked, raceVars
<1>10. ASSUME AppConnect PROVE WrapperLocks'
  <2>1. lock' = App /\ Goto(App, "connect") /\ StartConnect /\ gate' = gate /\ race' = race /\ Free
    BY <1>10 DEF AppConnect, raceVars
  <2> QED BY <1>0, <2>1, <1>b
<1>11. ASSUME AppConnected PROVE WrapperLocks'
  <2>1. lock = App /\ lock' = None /\ Goto(App, "idle") /\ gate' = gate
    BY <1>11 DEF AppConnected
  <2>2. gate # App
    BY <1>0
  <2> QED BY <1>0, <2>1, <2>2, <1>c DEF Operating
<1>12. ASSUME AppDisconnect PROVE WrapperLocks'
  <2>1. UNCHANGED <<lock, gate, pc>> /\ lock = None
    BY <1>12 DEF AppDisconnect, Free
  <2>2. lock' = None /\ gate' = gate /\ pc' = pc /\ layer' = "wrapper"
    BY <1>0, <2>1
  <2> QED BY <1>0, <2>1, <2>2 DEF WrapperLocks
<1> QED
  BY <1>1, <1>3, <1>4, <1>5, <1>6, <1>7, <1>8, <1>9, <1>10, <1>11, <1>12
     DEF WrapperNext, SenderStep

\* A step that starts no loop and enters no stop_reconnect keeps the order of
\* the loops and the locks of the handle.
LEMMA HandleKeeps ==
  ASSUME HandleLocks, Started, UNCHANGED <<hlock, rlock>>,
         call' = "unmark" <=> call = "unmark", call' = "store" => call = "store",
         \A l \in Loops : loop'[l] = "new" <=> loop[l] = "new"
  PROVE  HandleLocks' /\ Started'
<1>1. \A l \in Loops : Latest(l)' <=> Latest(l)
  BY DEF Latest
<1> QED
  BY <1>1 DEF HandleLocks, Started

\* start_auto_reconnect starts the loop with the next number.
LEMMA StartKeeps ==
  ASSUME ManagerTypeOK, HandleLocks, Started, StartAutoReconnect
  PROVE  HandleLocks' /\ Started'
<1>1. /\ call = "idle" /\ call' = (IF reconnecting THEN "idle" ELSE "store")
      /\ UNCHANGED <<hlock, rlock>>
  BY DEF StartAutoReconnect, Begin
<1>2. HandleLocks'
  BY <1>1 DEF HandleLocks
<1>3. CASE reconnecting
  <2>1. loop' = loop
    BY <1>3 DEF StartAutoReconnect
  <2> QED BY <1>1, <1>3, <2>1, HandleKeeps
<1>4. CASE ~reconnecting
  <2>1. PICK l \in Loops : /\ loop[l] = "new" /\ \A k \in Loops : loop[k] = "new" => l <= k
                           /\ loop' = [loop EXCEPT ![l] = "check"]
    BY <1>4 DEF StartAutoReconnect, At
  <2>2. loop'[l] = "check" /\ \A k \in Loops \ {l} : loop'[k] = loop[k]
    BY <2>1 DEF ManagerTypeOK
  <2>3. \A k \in Loops : k \in Nat /\ (loop[k] # "new" => k <= l)
    BY <2>1, LoopAssumption DEF Started
  <2>4. Latest(l)'
    BY <2>1, <2>2, <2>3 DEF Latest
  <2>5. ASSUME NEW k \in Loops, NEW m \in Loops, loop'[m] # "new", k <= m
        PROVE  loop'[k] # "new"
    BY <2>1, <2>2, <2>3, <2>5 DEF Started
  <2> QED BY <1>2, <2>4, <2>5 DEF Started
<1> QED
  BY <1>3, <1>4

\* The manager, its calls and its loops keep their locks in order.
LEMMA ManagerKeepsLocks ==
  ASSUME ManagerTypeOK, WrapperLocks, ManagerLocks, ManagerNext, UNCHANGED wrapperVars
  PROVE  WrapperLocks' /\ ManagerLocks'
<1> USE DEF handleVars, loopVars
<1>0. /\ layer = "manager" /\ layer' = layer /\ race = "ok" /\ pc' = pc
      /\ HandleLocks /\ ClientLock /\ Started
      /\ Caller \notin Loops \cup {None} /\ None \notin Loops
  BY ManagerAssumption DEF ManagerNext, wrapperVars, ManagerLocks
<1>1. WrapperLocks'
  BY <1>0 DEF WrapperLocks
<1>2. ASSUME HandleLocks' /\ Started', ClientLock'  PROVE ManagerLocks'
  BY <1>0, <1>2 DEF ManagerLocks
<1>k. ASSUME KeepClient PROVE Running' <=> Running
  BY <1>k DEF KeepClient, Running, clientVars, operationVars, raceVars
<1>s. ASSUME StartConnect \/ StartReconnect, UNCHANGED raceVars PROVE Running'
  BY <1>0, <1>s, StartRuns DEF Running, raceVars
<1>3. ASSUME Connect PROVE ManagerLocks'
  <2>1. /\ call = "idle" /\ lock = None /\ call' \in {"idle", "connect"}
        /\ UNCHANGED <<hlock, rlock, loop>>
        /\ \/ call' = "idle" /\ lock' = lock /\ KeepClient
           \/ call' = "connect" /\ lock' = Caller /\ StartConnect /\ UNCHANGED raceVars
    BY <1>3 DEF Connect, Begin, Free
  <2>2. ClientLock'
    BY <1>0, <1>s, <2>1 DEF ClientLock
  <2> QED BY <1>0, <1>2, <2>1, <2>2, HandleKeeps
<1>4. ASSUME SendFrame PROVE ManagerLocks'
  <2>1. /\ call = "idle" /\ lock = None /\ call' \in {"idle", "send"}
        /\ UNCHANGED <<hlock, rlock, loop>>
        /\ \/ call' = "idle" /\ lock' = lock /\ KeepClient
           \/ call' = "send" /\ lock' = Caller /\ StartReconnect /\ UNCHANGED raceVars
    BY <1>4 DEF SendFrame, Begin, Free
  <2>2. ClientLock'
    BY <1>0, <1>s, <2>1 DEF ClientLock
  <2> QED BY <1>0, <1>2, <2>1, <2>2, HandleKeeps
<1>5. ASSUME Connected \/ FrameSent PROVE ManagerLocks'
  <2>1. /\ call \in {"connect", "send"} /\ call' = "idle" /\ lock = Caller /\ lock' = None
        /\ UNCHANGED <<hlock, rlock, loop>>
    BY <1>5 DEF Connected, FrameSent
  <2>2. ClientLock'
    BY <1>0, <2>1 DEF ClientLock
  <2> QED BY <1>0, <1>2, <2>1, <2>2, HandleKeeps
<1>6. ASSUME Disconnecting PROVE ManagerLocks'
  <2>1. /\ call = "idle" /\ call' = "unmark" /\ hlock' = Caller /\ KeepClient
        /\ UNCHANGED <<lock, rlock, loop>>
    BY <1>6 DEF Disconnecting, Begin
  <2>2. ClientLock'
    BY <1>0, <1>k, <2>1 DEF ClientLock
  <2> QED BY <1>0, <1>2, <2>1, <2>2 DEF HandleLocks, Started, Latest
<1>7. ASSUME Unmark PROVE ManagerLocks'
  <2>1. /\ call = "unmark" /\ call' = "close" /\ hlock' = None /\ KeepClient
        /\ UNCHANGED <<lock, rlock, loop>>
    BY <1>7 DEF Unmark
  <2>2. ClientLock'
    BY <1>0, <1>k, <2>1 DEF ClientLock
  <2> QED BY <1>0, <1>2, <2>1, <2>2 DEF HandleLocks, Started, Latest
<1>8. ASSUME CloseClient PROVE ManagerLocks'
  <2>1. /\ call = "close" /\ call' = "idle" /\ lock = None
        /\ UNCHANGED <<lock, hlock, rlock, loop>>
    BY <1>8 DEF CloseClient, Free
  <2>2. ClientLock'
    BY <1>0, <2>1 DEF ClientLock
  <2> QED BY <1>0, <1>2, <2>1, <2>2, HandleKeeps
<1>9. ASSUME StoreHandle PROVE ManagerLocks'
  <2>1. /\ call = "store" /\ call' = "idle" /\ KeepClient
        /\ UNCHANGED <<lock, hlock, rlock, loop>>
    BY <1>9 DEF StoreHandle
  <2>2. ClientLock'
    BY <1>0, <1>k, <2>1 DEF ClientLock
  <2> QED BY <1>0, <1>2, <2>1, <2>2, HandleKeeps
<1>10. ASSUME StartAutoReconnect PROVE ManagerLocks'
  <2>1. /\ call = "idle" /\ call' \in {"idle", "store"} /\ KeepClient /\ lock' = lock
        /\ \/ loop' = loop
           \/ \E l \in Loops : loop[l] = "new" /\ loop' = [loop EXCEPT ![l] = "check"]
    BY <1>10 DEF StartAutoReconnect, Begin, At
  <2>2. \A l \in Loops : loop'[l] = "connect" <=> loop[l] = "connect"
    BY <2>1 DEF ManagerTypeOK
  <2>3. ClientLock'
    BY <1>0, <1>k, <2>1, <2>2 DEF ClientLock
  <2> QED BY <1>0, <1>2, <1>10, <2>3, StartKeeps
<1>l. ASSUME NEW l \in Loops, NEW step, loop' = [loop EXCEPT ![l] = step], step # "new",
             loop[l] # "new", UNCHANGED <<hlock, call>>, rlock' = rlock, ClientLock'
      PROVE  ManagerLocks'
  <2>1. \A k \in Loops : loop'[k] = "new" <=> loop[k] = "new"
    BY <1>l DEF ManagerTypeOK
  <2> QED BY <1>0, <1>2, <1>l, <2>1, HandleKeeps
<1>m. ASSUME NEW l \in Loops, NEW step, At(l, step), step \notin {"new", "connect"},
             loop[l] \notin {"new", "connect"}, KeepClient, lock' = lock,
             UNCHANGED <<hlock, call>>, rlock' = rlock
      PROVE  ManagerLocks'
  <2>1. loop' = [loop EXCEPT ![l] = step]
    BY <1>m DEF At
  <2>2. \A k \in Loops : loop'[k] = "connect" <=> loop[k] = "connect"
    BY <1>m, <2>1 DEF ManagerTypeOK
  <2>3. ClientLock'
    BY <1>0, <1>k, <1>m, <2>2 DEF ClientLock
  <2> QED BY <1>l, <1>m, <2>1, <2>3
<1>11. ASSUME NEW l \in Loops, Check(l) PROVE ManagerLocks'
  <2>0. /\ loop[l] = "check" /\ KeepClient /\ UNCHANGED <<lock, hlock, rlock, call>>
        /\ At(l, "unmark") \/ At(l, "wait") \/ loop' = loop
    BY <1>11 DEF Check, Runs
  <2>1. CASE At(l, "unmark") \/ At(l, "wait")
    BY <2>0, <2>1, <1>m
  <2>2. CASE loop' = loop
    <3>1. ClientLock'
      BY <1>0, <1>k, <2>0, <2>2 DEF ClientLock
    <3> QED BY <1>0, <1>2, <2>0, <2>2, <3>1, HandleKeeps
  <2> QED BY <2>0, <2>1, <2>2
<1>12. ASSUME NEW l \in Loops, Recheck(l) \/ Report(l) \/ LoopUnmark(l) PROVE ManagerLocks'
  <2>1. CASE Recheck(l)
    BY <2>1, <1>m DEF Recheck, Runs
  <2>2. CASE Report(l)
    BY <2>2, <1>m DEF Report, Runs
  <2>3. CASE LoopUnmark(l)
    BY <2>3, <1>m DEF LoopUnmark, Runs
  <2> QED BY <1>12, <2>1, <2>2, <2>3
<1>13. ASSUME NEW l \in Loops, ClearHandle(l) PROVE ManagerLocks'
  <2>1. rlock' = rlock
    BY <1>0, <1>13 DEF ClearHandle, HandleLocks
  <2> QED BY <2>1, <1>13, <1>m DEF ClearHandle, Runs
<1>14. ASSUME NEW l \in Loops, LoopConnect(l) PROVE ManagerLocks'
  <2>1. /\ loop[l] = "lock" /\ lock = None /\ lock' = l /\ StartConnect /\ UNCHANGED raceVars
        /\ UNCHANGED <<hlock, rlock, call>> /\ loop' = [loop EXCEPT ![l] = "connect"]
    BY <1>14 DEF LoopConnect, Runs, Free, At
  <2>2. loop'[l] = "connect" /\ \A k \in Loops \ {l} : loop'[k] = loop[k]
    BY <2>1 DEF ManagerTypeOK
  <2>3. ClientLock'
    BY <1>0, <1>s, <2>1, <2>2 DEF ClientLock
  <2> QED BY <1>l, <2>1, <2>3
<1>15. ASSUME NEW l \in Loops, NEW step \in {"report", "check", "done"}, At(l, step),
              lock = l, lock' = None, UNCHANGED <<hlock, rlock, call>>
       PROVE  ManagerLocks'
  <2>1. loop[l] = "connect" /\ loop' = [loop EXCEPT ![l] = step]
    BY <1>0, <1>15 DEF ClientLock, At
  <2>2. loop'[l] = step /\ \A k \in Loops \ {l} : loop'[k] = loop[k]
    BY <2>1 DEF ManagerTypeOK
  <2>3. ClientLock'
    BY <1>0, <1>15, <2>1, <2>2 DEF ClientLock
  <2> QED BY <1>l, <1>15, <2>1, <2>3
<1>16. ASSUME NEW l \in Loops, LoopConnected(l) PROVE ManagerLocks'
  BY <1>15, <1>16 DEF LoopConnected
<1>17. ASSUME NEW l \in Loops, LoopDies(l) PROVE ManagerLocks'
  <2>1. CASE lock = l
    BY <1>15, <1>17, <2>1 DEF LoopDies
  <2>2. CASE lock # l
    <3>1. loop[l] \notin {"new", "connect"} /\ KeepClient /\ lock' = lock
      BY <1>0, <1>17, <2>2 DEF LoopDies, ClientLock, KeepClient, clientVars, linkVars,
                               operationVars, fieldVars, coreVars
    <3> QED BY <1>17, <3>1, <1>m DEF LoopDies
  <2> QED BY <2>1, <2>2
<1> QED
  BY <1>1, <1>3, <1>4, <1>5, <1>6, <1>7, <1>8, <1>9, <1>10, <1>11, <1>12, <1>13, <1>14,
     <1>16, <1>17 DEF ManagerNext, CallerStep, LoopStep

\* Both layers keep their locks in order, whatever else the client does.
THEOREM LockInvariance == Spec => []LockInv
<1>1. Init => WrapperLocks /\ ManagerLocks
  <2> SUFFICES ASSUME Init PROVE WrapperLocks /\ ManagerLocks
    OBVIOUS
  <2>1. /\ gate = None /\ lock = None /\ pc = [c \in Callers |-> "idle"]
        /\ rlock = None /\ hlock = None /\ call = "idle" /\ loop = [l \in Loops |-> "new"]
    BY DEF Init, RaceInit, ClientInit, WrapperInit, ManagerInit
  <2>2. WrapperLocks
    BY <2>1, WrapperAssumption DEF WrapperLocks, Callers, Operating
  <2>3. ManagerLocks
    BY <2>1, ManagerAssumption DEF ManagerLocks, HandleLocks, ClientLock, Started
  <2> QED BY <2>2, <2>3
<1>2. ClientInv /\ WrapperLocks /\ ManagerLocks /\ [Next]_allVars
        => (WrapperLocks /\ ManagerLocks)'
  <2> SUFFICES ASSUME ClientInv, WrapperLocks, ManagerLocks, [Next]_allVars
               PROVE  WrapperLocks' /\ ManagerLocks'
    OBVIOUS
  <2>1. WrapperTypeOK /\ ManagerTypeOK
    BY DEF ClientInv, TypeOK
  <2>2. CASE Next
    BY <2>1, <2>2, RaceLocks, WrapperKeepsLocks, ManagerKeepsLocks DEF Next
  <2>3. CASE UNCHANGED allVars
    <3>1. UNCHANGED <<layer, lock, gate, pc, race, stage, result, hlock, rlock, call, loop>>
      BY <2>3 DEF allVars, wrapperVars, managerVars, handleVars, loopVars, clientVars,
                  operationVars, raceVars
    <3> QED
      BY <3>1 DEF WrapperLocks, ManagerLocks, HandleLocks, ClientLock, Started, Latest, Running
  <2> QED BY <2>2, <2>3
<1> QED
  BY <1>1, <1>2, ClientInvariance, PTL DEF Spec, LockInv

\* Whatever the application does through the wrapper or the manager, with any
\* number of senders and reconnect loops, its calls go on: either the operation
\* on the client is running, or what the next step of one of the tasks awaits
\* (reconnect_gate, the lock of the client, those of the manager's handle) is
\* there.  This is LayersMove with the guards of the steps for ENABLED.
THEOREM NobodyStuckCorrect == Spec => []NobodyStuck
<1>1. LockInv => NobodyStuck
  <2> SUFFICES ASSUME LockInv PROVE NobodyStuck
    OBVIOUS
  <2>0. WrapperTypeOK /\ ManagerTypeOK /\ WrapperLocks /\ ManagerLocks
    BY DEF LockInv, ClientInv, TypeOK
  <2>1. ASSUME NEW c \in Callers, pc[c] # "idle", stage = "idle"
        PROVE  AppGoes \/ \E s \in Senders : SenderGoes(s)
    <3>0. /\ gate # None => pc[gate] \in Holding
          /\ pc[App] \in {"idle", "connect"} /\ lock \in Callers \cup {None}
          /\ \A d \in Callers : lock = d <=> pc[d] \in Operating
          /\ lock # None => result # "none"
      BY <2>0, <2>1 DEF WrapperLocks, Running, Holding, Operating
    <3>1. CASE lock # None
      BY <3>0, <3>1 DEF AppGoes, SenderGoes, Callers, Operating
    <3>2. CASE lock = None
      <4>1. c \in Senders /\ \A d \in Callers : pc[d] \notin Operating
        BY <2>1, <3>0, <3>2, WrapperAssumption DEF Callers, Operating
      <4>2. CASE pc[c] = "gate" /\ gate # None
        <5>1. gate \in Senders /\ gate \in Callers /\ pc[gate] \in Holding
          BY <2>0, <3>0, <4>2 DEF WrapperTypeOK, Callers
        <5> QED BY <3>2, <4>1, <5>1 DEF SenderGoes, Free, Holding, Operating
      <4>3. CASE ~(pc[c] = "gate" /\ gate # None)
        BY <2>0, <2>1, <3>2, <4>1, <4>3 DEF SenderGoes, Free, WrapperTypeOK, Operating
      <4> QED BY <4>2, <4>3
    <3> QED BY <3>1, <3>2
  <2>2. ASSUME call # "idle", stage = "idle"
        PROVE  CallGoes \/ \E l \in Loops : LoopGoes(l)
    <3>0. HandleLocks /\ ClientLock /\ Started /\ (lock # None => result # "none")
      BY <2>0, <2>2 DEF ManagerLocks, ClientLock, Running
    <3>1. CASE call \in {"connect", "send"}
      BY <3>0, <3>1, ManagerAssumption DEF ClientLock, CallGoes
    <3>2. CASE call \in {"unmark", "store"}
      BY <3>0, <3>2 DEF HandleLocks, Started, CallGoes
    <3>3. CASE call = "close" /\ lock = None
      BY <3>3 DEF CallGoes, Free
    <3>4. CASE call = "close" /\ lock # None
      BY <3>0, <3>4 DEF ClientLock, LoopGoes
    <3> QED BY <2>0, <2>2, <3>1, <3>2, <3>3, <3>4 DEF ManagerTypeOK
  <2> QED BY <2>1, <2>2 DEF NobodyStuck
<1> QED
  BY <1>1, LockInvariance, PTL
=============================================================================
