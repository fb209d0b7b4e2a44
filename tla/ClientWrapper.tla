--------------------------- MODULE ClientWrapper ---------------------------
(***************************************************************************)
(* ClientWrapper over the client the race returned: senders that reconnect *)
(* before they send, one at a time behind reconnect_gate, beside the       *)
(* application's own connect and disconnect.                               *)
(* Every call takes the lock of the client; ensure_ready_for_send takes it *)
(* afresh for each of its looks at the client, and lets go of it while it  *)
(* pauses and while it waits for the negotiation.                          *)
(*   gate         who holds reconnect_gate                                 *)
(*   pc, calls    where each caller is, and the calls it has made          *)
(*   down         the application has disconnected and not connected since *)
(***************************************************************************)
EXTENDS ProtocolRace

CONSTANTS Senders, App,
          MaxCalls  \* bound: calls of each caller

ASSUME WrapperAssumption ==
  /\ App \notin Senders /\ None \notin Senders \cup {App}
  /\ MaxCalls \in Nat

VARIABLES gate, pc, calls, down

wrapperVars == <<gate, pc, calls, down>>
Callers == Senders \cup {App}

WrapperInit ==
  /\ gate = None /\ down = FALSE
  /\ pc = [c \in Callers |-> "idle"]
  /\ calls = [c \in Callers |-> 0]

Goto(c, step) == pc' = [pc EXCEPT ![c] = step]
Keep == UNCHANGED <<clientVars, raceVars, appVars>>

(* can_send of the shared core: process_race_results set it to Connected,  *)
(* and nothing the winner does later reaches it.                           *)
SendReady == IsConnected /\ negotiated

(* A caller is done; it lets go of the gate if it has it.                  *)
Return(c) ==
  /\ Goto(c, "idle")
  /\ gate' = IF gate = c THEN None ELSE gate

-----------------------------------------------------------------------------
(* send_frame: ensure_ready_for_send first.                                *)
Send(s) ==
  /\ pc[s] = "idle" /\ calls[s] < MaxCalls
  /\ calls' = [calls EXCEPT ![s] = @ + 1]
  /\ Goto(s, "ready")
  /\ Keep /\ UNCHANGED <<lock, gate>>

Ready(s) ==
  /\ pc[s] = "ready" /\ Free
  /\ Goto(s, IF SendReady THEN "send" ELSE "refuse")
  /\ Keep /\ UNCHANGED <<lock, gate, calls>>

(* A session the server ended, or reconnect_on_send off: fail at once.     *)
Refuse(s) ==
  /\ pc[s] = "refuse" /\ Free
  /\ Goto(s, IF ~IsConnected /\ (ended \/ ~ReconnectOnSend)
               THEN "idle" ELSE "gate")
  /\ Keep /\ UNCHANGED <<lock, gate, calls>>

(* Mutant: the gate is awaited with the client lock held.                  *)
TakeGate_UnderLock(s) ==
  /\ pc[s] = "gate"
  /\ \/ Free /\ lock' = s /\ UNCHANGED <<gate, pc>>
     \/ lock = s /\ gate = None /\ gate' = s /\ lock' = None /\ Goto(s, "again")
  /\ Keep /\ UNCHANGED calls

TakeGate(s) ==
  /\ pc[s] = "gate" /\ gate = None
  /\ gate' = s
  /\ Goto(s, "again")
  /\ Keep /\ UNCHANGED <<lock, calls>>

(* Behind the gate: another sender may have reconnected meanwhile.         *)
Again(s) ==
  /\ pc[s] = "again" /\ Free
  /\ IF SendReady
       THEN Goto(s, "send") /\ gate' = None
       ELSE Goto(s, "delay") /\ UNCHANGED gate
  /\ Keep /\ UNCHANGED <<lock, calls>>

(* A server that shut down is given a pause, which holds the gate but not  *)
(* the lock.                                                               *)
Delay(s) ==
  /\ pc[s] = "delay" /\ Free
  /\ Goto(s, "reconnect")
  /\ Keep /\ UNCHANGED <<lock, gate, calls>>

(* Mutant: the application's disconnect is not looked at again.            *)
Reconnect_IgnoresDisconnect(s) ==
  /\ pc[s] = "reconnect" /\ Free
  /\ \/ /\ IsConnected
        /\ Goto(s, "negotiate")
        /\ Keep /\ UNCHANGED <<lock, gate>>
     \/ /\ ~IsConnected /\ (~ReconnectOnSend \/ ended)
        /\ Return(s)
        /\ Keep /\ UNCHANGED lock
     \/ /\ ~IsConnected /\ ReconnectOnSend /\ ~ended
        /\ lock' = s /\ Goto(s, "connect")
        /\ StartConnect
        /\ UNCHANGED <<linkVars, requested, fieldVars, raceVars, appVars, gate>>
  /\ UNCHANGED calls

(* The look that decides, under the lock that connect then keeps.          *)
Reconnect(s) ==
  /\ pc[s] = "reconnect" /\ Free
  /\ \/ /\ IsConnected
        /\ Goto(s, "negotiate")
        /\ Keep /\ UNCHANGED <<lock, gate>>
     \/ /\ ~IsConnected /\ (~ReconnectOnSend \/ ended \/ requested)
        /\ Return(s)
        /\ Keep /\ UNCHANGED lock
     \/ /\ ~IsConnected /\ ReconnectOnSend /\ ~ended /\ ~requested
        /\ lock' = s /\ Goto(s, "connect")
        /\ StartConnect
        /\ UNCHANGED <<linkVars, requested, fieldVars, raceVars, appVars, gate>>
  /\ UNCHANGED calls

(* connect has returned: on success wait for the negotiation, without the  *)
(* lock and with the gate.                                                 *)
Reconnected(s) ==
  /\ pc[s] = "connect" /\ lock = s /\ result # "none"
  /\ lock' = None /\ result' = "none"
  /\ IF result = "ok" THEN Goto(s, "negotiate") /\ UNCHANGED gate ELSE Return(s)
  /\ UNCHANGED <<linkVars, coreVars, requested, fieldVars, stage, retrying,
                 raceVars, appVars, calls>>

(* wait_for_negotiation: completed, or failed or timed out.                *)
Negotiated(s) ==
  /\ pc[s] = "negotiate" /\ negotiated
  /\ Goto(s, "send") /\ gate' = None
  /\ Keep /\ UNCHANGED <<lock, calls>>

NegotiationFails(s) ==
  /\ pc[s] = "negotiate" /\ ~negotiated
  /\ Return(s)
  /\ Keep /\ UNCHANGED <<lock, calls>>

-----------------------------------------------------------------------------
(* The send itself, under the lock: the transport client looks once more,  *)
(* and reconnects by itself, behind no gate.                               *)
SendLocked(s) ==
  /\ pc[s] = "send" /\ Free
  /\ IF ShouldReconnect
       THEN /\ lock' = s /\ Goto(s, "resend")
            /\ StartReconnect
            /\ UNCHANGED <<linkVars, requested, held, prepared, raceVars, appVars>>
       ELSE /\ Goto(s, "idle") /\ UNCHANGED lock
            /\ Keep
  /\ UNCHANGED <<gate, calls>>

Resent(s) ==
  /\ pc[s] = "resend" /\ lock = s /\ result # "none"
  /\ lock' = None /\ result' = "none"
  /\ Goto(s, "idle")
  /\ UNCHANGED <<linkVars, coreVars, requested, fieldVars, stage, retrying,
                 raceVars, appVars, gate, calls>>

-----------------------------------------------------------------------------
(* The application's own connect and disconnect.                           *)
AppConnect ==
  /\ pc[App] = "idle" /\ calls[App] < MaxCalls /\ Free
  /\ lock' = App /\ Goto(App, "connect")
  /\ calls' = [calls EXCEPT ![App] = @ + 1]
  /\ StartConnect
  /\ down' = FALSE
  /\ UNCHANGED <<linkVars, requested, fieldVars, raceVars, appVars, gate>>

AppConnected ==
  /\ pc[App] = "connect" /\ lock = App /\ result # "none"
  /\ lock' = None /\ result' = "none"
  /\ Goto(App, "idle")
  /\ UNCHANGED <<linkVars, coreVars, requested, fieldVars, stage, retrying,
                 raceVars, appVars, gate, calls, down>>

AppDisconnect ==
  /\ pc[App] = "idle" /\ calls[App] < MaxCalls /\ Free
  /\ calls' = [calls EXCEPT ![App] = @ + 1]
  /\ Disconnect
  /\ asked' = TRUE /\ down' = TRUE
  /\ Tells(winner)
  /\ UNCHANGED <<raceVars, watching, lock, gate, pc>>

SenderStep(s) ==
  \/ Ready(s) \/ Refuse(s) \/ TakeGate(s) \/ Again(s) \/ Delay(s)
  \/ Reconnect(s) \/ Reconnected(s) \/ Negotiated(s) \/ NegotiationFails(s)
  \/ SendLocked(s) \/ Resent(s)

WrapperNext ==
  /\ layer = "wrapper" /\ race = "ok"
  /\ \/ \E s \in Senders : (Send(s) \/ SenderStep(s)) /\ UNCHANGED down
     \/ AppConnect \/ AppConnected \/ AppDisconnect
  /\ UNCHANGED layer

-----------------------------------------------------------------------------
WrapperTypeOK ==
  /\ gate \in Senders \cup {None}
  /\ pc \in [Callers -> {"idle", "ready", "refuse", "gate", "again", "delay",
                         "reconnect", "connect", "negotiate", "send", "resend"}]
  /\ calls \in [Callers -> 0 .. MaxCalls] /\ down \in BOOLEAN

(* A client the application has disconnected is not brought back by a      *)
(* send that was on its way, wherever the sender was when disconnect took  *)
(* the lock: until the application connects again itself, its connection   *)
(* stays closed (ensure_ready_for_send, should_reconnect_before_send).     *)
StaysDown == down => net[winner] # "open"

(* The calls under way never wait for each other in a circle: as long as   *)
(* one of them has not returned, one of them, or the operation it runs on  *)
(* the client, can go on, whatever holds the lock of the client and        *)
(* reconnect_gate (ensure_ready_for_send).                                 *)
CallsMove ==
  (\E c \in Callers : pc[c] # "idle") =>
    \/ stage # "idle"
    \/ ENABLED AppConnected
    \/ \E s \in Senders : ENABLED SenderStep(s)
=============================================================================
