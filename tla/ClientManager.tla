--------------------------- MODULE ClientManager ---------------------------
(***************************************************************************)
(* ClientConnectionManager: the layer that owns a client, keeps a          *)
(* connection state of its own and reconnects in a task of its own.        *)
(* One caller makes its calls one after the other; the reconnect loops it  *)
(* starts run beside it.  A step ends where the code awaits.               *)
(*   mstate      the manager's own ConnectionStateManager                  *)
(*   handle      reconnect_handle                                          *)
(*   reconnecting                                                          *)
(*               is_reconnecting                                           *)
(*   hlock, rlock                                                          *)
(*               who holds the locks of those two                          *)
(*   call, left  the step of the call in progress, and the calls left      *)
(*   loop, tries the step of each reconnect loop, and its attempts since   *)
(*               the disconnection                                         *)
(*   killed      the loops that were aborted                               *)
(***************************************************************************)
EXTENDS ProtocolRace

CONSTANTS Caller,
          Loops,          \* bound: the reconnect loops started
          MaxReconnects,  \* max_reconnect_attempts of its loop; None: no limit
          MaxManaged      \* bound: calls

ASSUME ManagerAssumption ==
  /\ Caller \notin Loops \cup {None} /\ None \notin Loops
  /\ MaxReconnects = None \/ MaxReconnects \in Nat
  /\ MaxManaged \in Nat

(* Loops are numbered in the order in which they are started.              *)
ASSUME LoopAssumption == Loops \subseteq Nat

VARIABLES mstate, handle, reconnecting, hlock, rlock, call, left, loop, tries,
          killed

handleVars == <<handle, reconnecting, hlock, rlock>>
loopVars == <<loop, tries, killed>>
managerVars == <<mstate, handleVars, call, left, loopVars>>

ManagerInit ==
  /\ mstate = "Disconnected" /\ handle = None /\ reconnecting = FALSE
  /\ hlock = None /\ rlock = None
  /\ call = "idle" /\ left = MaxManaged
  /\ loop = [l \in Loops |-> "new"] /\ tries = [l \in Loops |-> 0]
  /\ killed = {}

At(l, step) == loop' = [loop EXCEPT ![l] = step]
KeepClient == UNCHANGED <<clientVars, raceVars, appVars>>
Begin(step) == call = "idle" /\ left > 0 /\ left' = left - 1 /\ call' = step

-----------------------------------------------------------------------------
(* connect: nothing to do when the client is connected; else the client's  *)
(* connect under its lock, and its outcome in the manager's state.         *)
Connect ==
  /\ Free /\ Begin(IF IsConnected THEN "idle" ELSE "connect")
  /\ IF IsConnected
       THEN KeepClient /\ UNCHANGED <<mstate, lock>>
       ELSE /\ mstate' = "Connecting" /\ lock' = Caller
            /\ StartConnect
            /\ UNCHANGED <<linkVars, requested, fieldVars, raceVars, appVars>>
  /\ UNCHANGED <<handleVars, loopVars>>

Connected ==
  /\ call = "connect" /\ lock = Caller /\ result # "none"
  /\ mstate' = IF result = "ok" THEN "Connected" ELSE "Disconnected"
  /\ call' = "idle" /\ lock' = None /\ result' = "none"
  /\ UNCHANGED <<linkVars, coreVars, requested, fieldVars, stage, retrying,
                 raceVars, appVars, handleVars, left, loopVars>>

(* send_frame: only in the manager's state Connected; the client may then  *)
(* reconnect before it sends.                                              *)
SendFrame ==
  /\ Free /\ Begin(IF mstate = "Connected" /\ ShouldReconnect
                     THEN "send" ELSE "idle")
  /\ IF mstate = "Connected" /\ ShouldReconnect
       THEN /\ lock' = Caller /\ StartReconnect
            /\ UNCHANGED <<linkVars, requested, held, prepared, raceVars, appVars>>
       ELSE KeepClient /\ UNCHANGED lock
  /\ UNCHANGED <<mstate, handleVars, loopVars>>

FrameSent ==
  /\ call = "send" /\ lock = Caller /\ result # "none"
  /\ call' = "idle" /\ lock' = None /\ result' = "none"
  /\ UNCHANGED <<linkVars, coreVars, requested, fieldVars, stage, retrying,
                 raceVars, appVars, mstate, handleVars, left, loopVars>>

-----------------------------------------------------------------------------
(* disconnect: stop_reconnect takes the handle and aborts its task, then   *)
(* clears the mark with the lock of the handle still held ...              *)
Disconnecting ==
  /\ Begin("unmark") /\ hlock = None
  /\ hlock' = Caller
  /\ killed' = IF handle = None THEN killed ELSE killed \cup {handle}
  /\ handle' = None
  /\ KeepClient
  /\ UNCHANGED <<lock, mstate, reconnecting, rlock, loop, tries>>

Unmark ==
  /\ call = "unmark" /\ rlock = None
  /\ reconnecting' = FALSE /\ hlock' = None
  /\ call' = "close"
  /\ KeepClient
  /\ UNCHANGED <<lock, mstate, handle, rlock, left, loopVars>>

(* ... and the client is disconnected under its lock.                      *)
CloseClient ==
  /\ call = "close" /\ Free
  /\ Disconnect
  /\ asked' = TRUE
  /\ Tells(winner)
  /\ mstate' = "Disconnected"
  /\ call' = "idle"
  /\ UNCHANGED <<lock, raceVars, watching, handleVars, left, loopVars>>

-----------------------------------------------------------------------------
(* start_auto_reconnect: one loop at a time by is_reconnecting; the task   *)
(* runs before its handle is stored.                                       *)
StartAutoReconnect ==
  /\ rlock = None
  /\ Begin(IF reconnecting THEN "idle" ELSE "store")
  /\ IF reconnecting
       THEN UNCHANGED <<reconnecting, loop>>
       ELSE /\ reconnecting' = TRUE
            /\ \E l \in Loops :
                 /\ loop[l] = "new" /\ \A k \in Loops : loop[k] = "new" => l <= k
                 /\ At(l, "check")
  /\ KeepClient
  /\ UNCHANGED <<lock, mstate, handle, hlock, rlock, tries, killed>>

(* The loop of this call is the latest one started.                        *)
Latest(l) == loop[l] # "new" /\ \A k \in Loops : loop[k] # "new" => k <= l

StoreHandle ==
  /\ call = "store" /\ hlock = None
  /\ \E l \in Loops : Latest(l) /\ handle' = l
  /\ call' = "idle"
  /\ KeepClient
  /\ UNCHANGED <<lock, mstate, reconnecting, hlock, rlock, left, loopVars>>

-----------------------------------------------------------------------------
(* The loop.  needs_reconnect asks both the client and the manager's own   *)
(* state, under the lock of the client.                                    *)
NeedsReconnect == ~IsConnected /\ mstate = "Disconnected"

(* A loop that was aborted ends at an await; what stands between two of    *)
(* them it still does.                                                     *)
Runs(l, step) == loop[l] = step /\ (l \notin killed \/ step = "report")

(* The attempts a loop counts: none where there is no limit to compare     *)
(* them with.                                                              *)
Tries == IF MaxReconnects = None THEN {0} ELSE 0 .. MaxReconnects
GivesUp(l) == MaxReconnects # None /\ tries[l] >= MaxReconnects
CountTry(l) ==
  tries' = [tries EXCEPT ![l] = IF MaxReconnects = None THEN 0 ELSE @ + 1]

Check(l) ==
  /\ Runs(l, "check") /\ Free
  /\ IF NeedsReconnect
       THEN IF GivesUp(l)
              THEN At(l, "unmark") /\ UNCHANGED tries
              ELSE At(l, "wait") /\ CountTry(l)
       ELSE tries' = [tries EXCEPT ![l] = 0] /\ UNCHANGED loop
  /\ KeepClient
  /\ UNCHANGED <<lock, mstate, handleVars, call, left, killed>>

Recheck(l) ==
  /\ Runs(l, "wait") /\ Free
  /\ IF NeedsReconnect
       THEN At(l, "lock") /\ mstate' = "Connecting"
       ELSE At(l, "check") /\ UNCHANGED mstate
  /\ KeepClient
  /\ UNCHANGED <<lock, handleVars, call, left, tries, killed>>

LoopConnect(l) ==
  /\ Runs(l, "lock") /\ Free
  /\ lock' = l /\ At(l, "connect")
  /\ StartConnect
  /\ UNCHANGED <<linkVars, requested, fieldVars, raceVars, appVars, mstate,
                 handleVars, call, left, tries, killed>>

LoopConnected(l) ==
  /\ Runs(l, "connect") /\ lock = l /\ result # "none"
  /\ At(l, IF result = "ok" THEN "report" ELSE "check")
  /\ mstate' = IF result = "ok" THEN mstate ELSE "Disconnected"
  /\ lock' = None /\ result' = "none"
  /\ UNCHANGED <<linkVars, coreVars, requested, fieldVars, stage, retrying,
                 raceVars, appVars, handleVars, call, left, tries, killed>>

Report(l) ==
  /\ Runs(l, "report")
  /\ mstate' = "Connected"
  /\ At(l, "unmark")
  /\ KeepClient
  /\ UNCHANGED <<lock, handleVars, call, left, tries, killed>>

(* The end of the loop: the mark, then, with nothing held, the handle.     *)
LoopUnmark(l) ==
  /\ Runs(l, "unmark") /\ rlock = None
  /\ reconnecting' = FALSE
  /\ At(l, "clear")
  /\ KeepClient
  /\ UNCHANGED <<lock, mstate, handle, hlock, rlock, call, left, tries, killed>>

ClearHandle(l) ==
  /\ Runs(l, "clear") /\ hlock = None
  /\ handle' = None
  /\ rlock' = IF rlock = l THEN None ELSE rlock
  /\ At(l, "done")
  /\ KeepClient
  /\ UNCHANGED <<lock, mstate, reconnecting, hlock, call, left, tries, killed>>

(* An aborted loop is dropped, with the lock and the connect it was in.    *)
LoopDies(l) ==
  /\ l \in killed /\ loop[l] \notin {"done", "new", "report"}
  /\ At(l, "done")
  /\ IF lock = l
       THEN /\ lock' = None
            /\ stage' = "idle" /\ retrying' = FALSE /\ result' = "none"
       ELSE UNCHANGED <<lock, operationVars>>
  /\ UNCHANGED <<linkVars, coreVars, requested, fieldVars, raceVars, appVars,
                 mstate, handleVars, call, left, tries, killed>>

-----------------------------------------------------------------------------
LoopStep(l) ==
  \/ Check(l) \/ Recheck(l) \/ LoopConnect(l) \/ LoopConnected(l) \/ Report(l)
  \/ LoopUnmark(l) \/ ClearHandle(l) \/ LoopDies(l)

CallerStep ==
  Connected \/ FrameSent \/ Unmark \/ CloseClient \/ StoreHandle

ManagerNext ==
  /\ layer = "manager" /\ race = "ok"
  /\ \/ Connect \/ SendFrame \/ Disconnecting \/ StartAutoReconnect
     \/ CallerStep
     \/ \E l \in Loops : LoopStep(l)
  /\ UNCHANGED layer

ManagerTypeOK ==
  /\ mstate \in States
  /\ handle \in Loops \cup {None} /\ reconnecting \in BOOLEAN
  /\ hlock \in Loops \cup {Caller, None} /\ rlock \in Loops \cup {Caller, None}
  /\ call \in {"idle", "connect", "send", "unmark", "close", "store"}
  /\ left \in 0 .. MaxManaged
  /\ loop \in [Loops -> {"new", "check", "wait", "lock", "connect", "report",
                         "unmark", "clear", "done"}]
  /\ tries \in [Loops -> Tries]
  /\ killed \subseteq Loops

(* A call of the manager can go on, or what it waits for can: also a       *)
(* disconnect that meets a reconnect loop in the middle of a connect, or   *)
(* one that is ending and clearing its handle.  The aborted loop lets go   *)
(* of the lock of the client, and the two locks of the handle are never    *)
(* waited for in a circle (stop_reconnect, start_auto_reconnect).          *)
ManagerMoves ==
  call # "idle" =>
    \/ stage # "idle"
    \/ ENABLED CallerStep
    \/ \E l \in Loops : ENABLED LoopStep(l)

(* What start_auto_reconnect promises: while a loop is there to reconnect  *)
(* and the connection is lost, the client is connected again, or an        *)
(* attempt is made, or the loop or the loss is over.                       *)
AutoReconnects ==
  \A l \in Loops :
    (loop[l] = "check" /\ net[winner] = "closed" /\ ~IsConnected) ~>
      (loop[l] # "check" \/ IsConnected \/ call # "idle")
=============================================================================
