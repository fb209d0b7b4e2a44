---------------------------- MODULE ProtocolRace ----------------------------
(***************************************************************************)
(* HybridClient::connect_with_race: one task per protocol establishes a    *)
(* network connection, the first one established wins and sends CONNECT,   *)
(* and the others are aborted, or detached from the shared core and closed *)
(* by a background task.  The whole race runs under a timeout that drops   *)
(* it where it stands.                                                     *)
(*   race       where connect_with_race is                                 *)
(*   task       the task of each protocol; "joined" once its result is     *)
(*              taken                                                      *)
(*   sharing    the protocols whose core shares the observers, the pending *)
(*              map and the flags of the shared core                       *)
(*   closing    the loser the background task is at, and its step          *)
(*   watching   the application's observer is registered                   *)
(*   heard      the protocols something of which reached the application   *)
(*   asked      the application has called disconnect                      *)
(*   layer      what the application drives the client through             *)
(***************************************************************************)
EXTENDS TransportClient

CONSTANT Layers  \* the layers of an instance

ASSUME RaceAssumption == Layers \subseteq {"wrapper", "manager"}

VARIABLES race, task, sharing, closing, watching, heard, asked,
          layer

appVars == <<watching, heard, asked>>
raceVars == <<race, task, sharing, closing>>

Over == {"ok", "failed", "timed_out"}
NoLoser == [loser |-> None, step |-> "idle"]

RaceInit ==
  /\ ClientInit
  /\ race = "idle" /\ task = [p \in Protocols |-> "none"]
  /\ sharing = {} /\ closing = NoLoser
  /\ watching = FALSE /\ heard = {} /\ asked = FALSE
  /\ layer \in Layers

(* An event of protocol p's core, or its cancelling of every waiter in the *)
(* pending map, reaches the application.                                   *)
Tells(p) == heard' = heard \cup (IF p \in sharing /\ watching THEN {p} ELSE {})

-----------------------------------------------------------------------------
(* spawn_connection_tasks: a core per protocol that shares the race state. *)
Spawn ==
  /\ race = "idle"
  /\ race' = "racing"
  /\ task' = [p \in Protocols |-> "dialing"]
  /\ sharing' = Protocols
  /\ UNCHANGED <<clientVars, closing, appVars>>

(* establish_protocol_network ends.  A task that was aborted may still get *)
(* that far; what it made is dropped when nobody is left to join it.       *)
Establish(p) ==
  /\ task[p] = "dialing"
  /\ IF race = "timed_out" /\ winner = None
       THEN /\ task' = [task EXCEPT ![p] = "aborted"]
            /\ UNCHANGED net
       ELSE /\ task' = [task EXCEPT ![p] = "established"]
            /\ net' = [net EXCEPT ![p] = "open"]
  /\ UNCHANGED <<race, sharing, closing, winner, hooked, coreVars, requested,
                 fieldVars, operationVars, dials, appVars>>

EstablishFails(p) ==
  /\ task[p] = "dialing"
  /\ task' = [task EXCEPT ![p] = IF race = "racing" THEN "failed" ELSE "aborted"]
  /\ UNCHANGED <<clientVars, race, sharing, closing, appVars>>

(* wait_for_first_connection joins a task that has ended: the first one    *)
(* established wins and the rest are handed to the background, a failure   *)
(* is noted.  connect then starts on the winner.                           *)
JoinWinner(p) ==
  /\ race = "racing" /\ task[p] = "established"
  /\ race' = "connecting"
  /\ task' = [task EXCEPT ![p] = "joined"]
  /\ winner' = p /\ held' = TRUE /\ prepared' = TRUE
  /\ StartConnect
  /\ UNCHANGED <<net, hooked, requested, attempts, dials, sharing, closing,
                 appVars>>

JoinFailed(p) ==
  /\ race = "racing" /\ task[p] = "failed"
  /\ task' = [task EXCEPT ![p] = "joined"]
  /\ race' = IF \A q \in Protocols \ {p} : task[q] = "joined"
               THEN "failed" ELSE race
  /\ UNCHANGED <<clientVars, sharing, closing, appVars>>

-----------------------------------------------------------------------------
(* The background task: join a loser that was established, detach it from  *)
(* the shared core, mark its own core and close it.  Losers are closed one *)
(* after the other.                                                        *)
JoinLoser(p) ==
  /\ winner \notin {None, p} /\ closing = NoLoser
  /\ task[p] = "established"
  /\ task' = [task EXCEPT ![p] = "joined"]
  /\ closing' = [loser |-> p, step |-> "detach"]
  /\ UNCHANGED <<clientVars, race, sharing, appVars>>

(* Mutant: the loser keeps the state it shares with the race.              *)
Detach_Skipped ==
  /\ closing.step = "detach"
  /\ closing' = [closing EXCEPT !.step = "mark"]
  /\ UNCHANGED <<clientVars, race, task, sharing, appVars>>

(* detach_race_state: observers, pending map and flags of its own.         *)
Detach ==
  /\ closing.step = "detach"
  /\ sharing' = sharing \ {closing.loser}
  /\ closing' = [closing EXCEPT !.step = "mark"]
  /\ UNCHANGED <<clientVars, race, task, appVars>>

(* set_disconnect_requested and disconnect_internal on the loser.  The     *)
(* transport carries no observer: what is reported comes from the call     *)
(* itself, to whatever observers and waiters its core has.                 *)
MarkLoser ==
  /\ closing.step = "mark"
  /\ requested' = (requested \/ closing.loser \in sharing)
  /\ closing' = [closing EXCEPT !.step = "close"]
  /\ UNCHANGED <<net, winner, hooked, coreVars, fieldVars, operationVars, dials,
                 race, task, sharing, appVars>>

(* Mutant: the loser is dropped without a close.                           *)
CloseLoser_Forgets ==
  /\ closing.step = "close"
  /\ closing' = NoLoser
  /\ UNCHANGED <<clientVars, race, task, sharing, appVars>>

CloseLoser ==
  /\ closing.step = "close"
  /\ closing' = NoLoser
  /\ net' = [net EXCEPT ![closing.loser] = "closed"]
  /\ Tells(closing.loser)
  /\ UNCHANGED <<winner, hooked, coreVars, requested, fieldVars, operationVars,
                 dials, race, task, sharing, watching, asked>>

-----------------------------------------------------------------------------
(* process_race_results: connect on the winner has returned.               *)
RaceReturns ==
  /\ race = "connecting" /\ result # "none"
  /\ race' = IF result = "ok" THEN "ok" ELSE "failed"
  /\ net' = IF result = "ok" \/ winner \in hooked
              THEN net ELSE [net EXCEPT ![winner] = "closed"]
  /\ result' = "none"
  /\ UNCHANGED <<winner, hooked, coreVars, requested, fieldVars, stage,
                 retrying, dials, task, sharing, closing, appVars>>

(* The race timeout: the tasks not joined yet are aborted with the set     *)
(* that holds them, unless the background task has it.  A winner dropped   *)
(* in the middle of connect is closed, unless its connection already holds *)
(* the core that holds it.                                                 *)
RaceTimeout ==
  /\ race \in {"racing", "connecting"} /\ result = "none"
  /\ race' = "timed_out"
  /\ task' = IF winner # None THEN task ELSE
       [p \in Protocols |-> IF task[p] = "established" THEN "aborted" ELSE task[p]]
  /\ net' = [p \in Protocols |->
       IF (winner = None \/ winner = p) /\ p \notin hooked /\ net[p] = "open"
         THEN "closed" ELSE net[p]]
  /\ stage' = "idle" /\ retrying' = FALSE /\ UNCHANGED result
  /\ UNCHANGED <<winner, hooked, coreVars, requested, fieldVars, dials, sharing,
                 closing, appVars>>

(* The operation on the winner goes on, told to the application through    *)
(* the shared observers.                                                   *)
WinnerStep ==
  /\ race \in {"connecting", "ok"}
  /\ OperationStep
  /\ IF state' # state THEN Tells(winner) ELSE UNCHANGED heard
  /\ UNCHANGED <<raceVars, watching, asked>>

(* The server and the network act on the winner's connection.              *)
ServerActs ==
  /\ race \in {"connecting", "ok"}
  /\ \/ Ack /\ UNCHANGED heard
     \/ \E why \in {"lost", "error", "kick"} :
          Ends(why) /\ Tells(winner)
  /\ UNCHANGED <<raceVars, watching, asked>>

(* The builders register the application's observer once the race has      *)
(* returned.                                                               *)
Watch ==
  /\ race = "ok" /\ ~watching
  /\ watching' = TRUE
  /\ UNCHANGED <<clientVars, raceVars, heard, asked>>

Background ==
  \/ \E p \in Protocols : JoinLoser(p)
  \/ Detach \/ MarkLoser \/ CloseLoser

RaceNext ==
  /\ \/ Spawn
     \/ \E p \in Protocols : Establish(p) \/ EstablishFails(p)
     \/ \E p \in Protocols : JoinWinner(p) \/ JoinFailed(p)
     \/ Background
     \/ RaceReturns \/ RaceTimeout
     \/ WinnerStep \/ ServerActs \/ Watch
  /\ UNCHANGED <<lock, layer>>

(* A connection of a protocol that lost.                                   *)
Lost(p) == p # winner /\ net[p] = "open"

-----------------------------------------------------------------------------
RaceTypeOK ==
  /\ ClientTypeOK
  /\ race \in {"idle", "racing", "connecting"} \cup Over
  /\ task \in [Protocols -> {"none", "dialing", "established", "failed",
                             "joined", "aborted"}]
  /\ sharing \subseteq Protocols
  /\ closing \in [loser : Protocols \cup {None},
                  step : {"idle", "detach", "mark", "close"}]
  /\ watching \in BOOLEAN /\ asked \in BOOLEAN
  /\ heard \subseteq Protocols

(* A protocol that lost the race leaves no trace with the winner: none of  *)
(* its events and none of its cancellations reach the application, and the *)
(* mark of a requested disconnect stands on the shared core only if the    *)
(* application asked for it, however late the background task gets to the  *)
(* loser (close_race_loser, detach_race_state).                            *)
LosersQuiet ==
  /\ heard \subseteq {winner}
  /\ requested => asked

(* Once the race is decided, or has timed out, every connection a losing   *)
(* protocol established is closed, also one established after it was       *)
(* aborted (close_race_losers_in_background).                              *)
LosersClosed ==
  (race \notin {"idle", "racing"}) ~> [](\A p \in Protocols : ~Lost(p))
=============================================================================
