------------------------------ MODULE MCClient ------------------------------
(* The client from the race to the layer the application drives it         *)
(* through.                                                                *)
EXTENDS ClientWrapper, ClientManager

allVars == <<clientVars, raceVars, appVars, layer, lock, wrapperVars, managerVars>>

Init == RaceInit /\ WrapperInit /\ ManagerInit

Next ==
  \/ RaceNext /\ UNCHANGED <<wrapperVars, managerVars>>
  \/ WrapperNext /\ UNCHANGED managerVars
  \/ ManagerNext /\ UNCHANGED wrapperVars

(* The runtime keeps the background task running, and a close ends.        *)
Fairness ==
  WF_allVars(Background /\ UNCHANGED <<lock, layer, wrapperVars, managerVars>>)

Spec == Init /\ [][Next]_allVars /\ Fairness

(* The reconnect loops of the manager run as well.                         *)
LoopSpec ==
  Spec /\ \A l \in Loops : WF_allVars(LoopStep(l) /\ UNCHANGED <<layer, wrapperVars>>)

(* Whatever the application does through either layer, its calls go on:    *)
(* none waits for a lock whose holder waits for it.                        *)
LayersMove == CallsMove /\ ManagerMoves

TypeOK == RaceTypeOK /\ WrapperTypeOK /\ ManagerTypeOK
=============================================================================
