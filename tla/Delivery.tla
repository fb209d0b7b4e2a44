------------------------------ MODULE Delivery ------------------------------
(***************************************************************************)
(* How the server sends: ServerHandle and the sending half of               *)
(* ConnectionManagerTrait, on top of ConnectionManager.  A call reads the   *)
(* ids it is for, later the entries of those ids, each under its own shard  *)
(* lock, later puts the frame in the queue of each, and at last refreshes   *)
(* the activity of the connections it reached; the manager's operations run *)
(* between any two of these steps.                                          *)
(*                                                                          *)
(*   "read"     the entries of call.todo are still to be looked up          *)
(*   "send"     the snapshots in call.todo are still to be written          *)
(*   "evict"    the same, inside remove_connection after a full queue       *)
(*   "refresh"  the connections of call.todo are still to be refreshed      *)
(*                                                                          *)
(* One call at a time: calls share nothing but the manager, and every other *)
(* use of the manager is already interleaved with this one.  The queue      *)
(* behind try_enqueue is WriteQueue's, the bytes put in it are Wire's.      *)
(***************************************************************************)
EXTENDS ConnectionManager

CONSTANTS
  RequiresAuth,    \* ServerCore::auth_enabled
  Calls            \* the calls that are made: pairs of a target and a payload

ASSUME RequiresAuthAssumption == RequiresAuth \in BOOLEAN

VARIABLES
  authenticated,   \* info.authenticated
  call,            \* the call under way
  ever,            \* history: connections in its audience at some moment of it
  throughout       \* history: connections entitled to it all along

deliveryVars == <<vars, authenticated, call, ever, throughout>>

\* "raw" bytes (send_to_connection, send_to_user, broadcast with data) are
\* neither checked nor do they refresh anything; a "system" frame is one that
\* frame_allowed_before_auth accepts, any other is a "message".
Payloads == {"raw", "system", "message"}

\* What a call is for: one connection, a list, an owner, all, all but one.
Targets ==
       [kind : {"one"}, to : Conns]
  \cup [kind : {"list"}, to : SUBSET Conns]
  \cup [kind : {"user"}, to : Owners]
  \cup [kind : {"all"}, to : {None}]
  \cup [kind : {"except"}, to : Conns]

\* ServerHandle sends frames; raw bytes go through ConnectionManagerTrait only,
\* which has no raw form of a list.
HandleCalls == Targets \X {"system", "message"}
RawCalls == {target \in Targets : target.kind # "list"} \X {"raw"}

ASSUME CallsAssumption == Calls \subseteq HandleCalls \cup RawCalls

NoCall == [stage |-> "idle", target |-> [kind |-> "all", to |-> None],
           payload |-> "raw", todo |-> {}, allowed |-> {}, snapshots |-> {},
           sent |-> {}, unencoded |-> {}, evicting |-> None]

\* Mutant: the user index is asked for the user id in any tenant.
ReadIds_AnyTenant(target) ==
  CASE target.kind = "one"    -> {target.to}
    [] target.kind = "list"   -> target.to
    [] target.kind = "user"   -> UNION {user_connections[<<t, target.to[2]>>] : t \in Tenants}
    [] target.kind = "all"    -> Conns
    [] target.kind = "except" -> Conns \ {target.to}

\* The ids a call goes on with: get_user_connections under the index lock; a
\* broadcast goes through every shard.
ReadIds(target) ==
  CASE target.kind = "one"    -> {target.to}
    [] target.kind = "list"   -> target.to
    [] target.kind = "user"   -> user_connections[target.to]
    [] target.kind = "all"    -> Conns
    [] target.kind = "except" -> Conns \ {target.to}

\* ensure_frame_allowed_for_connection
FrameAllowed(c, payload) == payload # "message" \/ authenticated[c]

---------------------------------------------------------------------------
DeliveryInit ==
  /\ Init
  /\ authenticated = [c \in Conns |-> FALSE]
  /\ call = NoCall
  /\ ever = {}
  /\ throughout = {}

\* send_frame_to, send_frame_to_connections, send_frame_to_user,
\* broadcast_frame, broadcast_frame_except and their raw counterparts.
BeginCall(target, payload) ==
  /\ call.stage = "idle"
  /\ call' = [NoCall EXCEPT !.stage = "read", !.target = target,
                            !.payload = payload, !.todo = ReadIds(target)]
  /\ UNCHANGED <<vars, authenticated>>

\* connection_handles, _except, _for_ids, for raw bytes: an id without an entry
\* is passed over.
ReadHandle(c) ==
  /\ call.stage = "read"
  /\ call.payload = "raw"
  /\ c \in call.todo
  /\ phase[c] # "indexing"
  /\ call' = [call EXCEPT
                !.todo = @ \ {c},
                !.snapshots = IF phase[c] = "live" THEN @ \cup {c} ELSE @,
                !.allowed = @ \cup {c}]
  /\ UNCHANGED <<vars, authenticated>>

\* connection_snapshots and connection_auth_snapshots, each with its _except
\* and _for_ids: the authentication flag is copied along.
ReadEntry(c) ==
  /\ call.stage = "read"
  /\ call.payload # "raw"
  /\ c \in call.todo
  /\ phase[c] # "indexing"
  /\ call' = [call EXCEPT
                !.todo = @ \ {c},
                !.snapshots = IF phase[c] = "live" THEN @ \cup {c} ELSE @,
                !.allowed = IF FrameAllowed(c, call.payload) THEN @ \cup {c} ELSE @]
  /\ UNCHANGED <<vars, authenticated>>

EntriesRead ==
  /\ call.stage = "read"
  /\ call.todo = {}
  /\ call' = [call EXCEPT !.stage = "send"]
  /\ UNCHANGED <<vars, authenticated>>

\* "未验证，无法发送消息": left out, and the connection is kept.
SkipConnection(c) ==
  /\ call.stage = "send"
  /\ c \in call.snapshots \ call.allowed
  /\ call' = [call EXCEPT !.snapshots = @ \ {c}]
  /\ UNCHANGED <<vars, authenticated>>

\* The frame cannot be serialized in the format of the connection.
SerializeFails(c) ==
  /\ call.stage = "send"
  /\ c \in call.snapshots \cap call.allowed
  /\ call.payload # "raw"
  /\ call' = [call EXCEPT !.snapshots = @ \ {c}, !.unencoded = @ \cup {c}]
  /\ UNCHANGED <<vars, authenticated>>

\* send_to_connection_handle, Ok: the queue is open, so c is in the table.
Enqueue(c) ==
  /\ call.stage = "send"
  /\ c \in call.snapshots \cap call.allowed
  /\ c \in Table
  /\ call' = [call EXCEPT !.snapshots = @ \ {c}, !.sent = @ \cup {c}]
  /\ UNCHANGED <<vars, authenticated>>

\* Mutant: the first queue that is full ends the whole fan-out.
EnqueueFails_Stops(c) ==
  /\ call.stage = "send"
  /\ c \in call.snapshots \cap call.allowed
  /\ IF phase[c] = "live"
       THEN /\ RemoveConnection(c)
            /\ call' = [call EXCEPT !.snapshots = {}, !.stage = "evict", !.evicting = c]
       ELSE /\ phase[c] # "indexing"
            /\ call' = [call EXCEPT !.snapshots = {}]
            /\ UNCHANGED vars
  /\ UNCHANGED authenticated

\* send_to_connection_handle, Err: the queue is full or closed.  The
\* connection is removed by id; one that has left already is nobody's error.
EnqueueFails(c) ==
  /\ call.stage = "send"
  /\ c \in call.snapshots \cap call.allowed
  /\ IF phase[c] = "live"
       THEN /\ RemoveConnection(c)
            /\ call' = [call EXCEPT !.snapshots = @ \ {c}, !.stage = "evict", !.evicting = c]
       ELSE /\ phase[c] # "indexing"
            /\ call' = [call EXCEPT !.snapshots = @ \ {c}]
            /\ UNCHANGED vars
  /\ UNCHANGED authenticated

\* remove_connection has returned.
Evicted ==
  /\ call.stage = "evict"
  /\ phase[call.evicting] = "gone"
  /\ call' = [call EXCEPT !.stage = "send", !.evicting = None]
  /\ UNCHANGED <<vars, authenticated>>

\* Every snapshot has been dealt with; a raw call ends here.
FanoutDone ==
  /\ call.stage = "send"
  /\ call.snapshots = {}
  /\ call' = [call EXCEPT !.stage = "refresh",
                          !.todo = IF call.payload = "raw" THEN {} ELSE call.sent]
  /\ UNCHANGED <<vars, authenticated>>

\* Mutant: a refresh that does not find its connection is tried again.
Refresh_Retries(c) ==
  /\ call.stage = "refresh"
  /\ c \in call.todo
  /\ phase[c] = "live"
  /\ call' = [call EXCEPT !.todo = @ \ {c}]
  /\ UpdateConnectionActive(c)
  /\ UNCHANGED authenticated

\* update_connections_active: the connections still in the table.
Refresh(c) ==
  /\ call.stage = "refresh"
  /\ c \in call.todo
  /\ phase[c] # "indexing"
  /\ call' = [call EXCEPT !.todo = @ \ {c}]
  /\ IF phase[c] = "live" THEN UpdateConnectionActive(c) ELSE UNCHANGED vars
  /\ UNCHANGED authenticated

Return ==
  /\ call.stage = "refresh"
  /\ call.todo = {}
  /\ call' = NoCall
  /\ UNCHANGED <<vars, authenticated>>

CallStep ==
  \/ EntriesRead \/ Evicted \/ FanoutDone \/ Return
  \/ \E c \in Conns : \/ ReadHandle(c) \/ ReadEntry(c) \/ SkipConnection(c)
                      \/ SerializeFails(c) \/ Enqueue(c) \/ EnqueueFails(c)
                      \/ Refresh(c)

---------------------------------------------------------------------------
(* The manager's own steps, with the flag they set                          *)

\* setup_new_connection and ConnectionInfo::new: an accepted connection has
\* no user, and is authenticated if the server authenticates nobody.
AddConnection(c) ==
  /\ InsertEntry(c, None)
  /\ authenticated' = [authenticated EXCEPT ![c] = ~RequiresAuth]
  /\ UNCHANGED call

\* set_connection_authenticated
SetConnectionAuthenticated(c, u) ==
  /\ SetConnectionUser(c, u)
  /\ authenticated' = [authenticated EXCEPT ![c] = TRUE]
  /\ UNCHANGED call

ManagerStep ==
  \/ \E c \in Conns :
       \/ AddConnection(c)
       \/ \E u \in Users \cup {None} : SetConnectionAuthenticated(c, u)
  \/ /\ \/ \E c \in Conns :
             \/ ReserveConnectionSlot(c)
             \/ RefuseConnection(c)
             \/ \E u \in Users : BindUser(c, u)
             \/ \E u \in Users \cup {None}, t \in Tenants \cup {None} :
                  UpdateConnectionNegotiation(c, u, t)
             \/ RemoveConnection(c)
             \/ UpdateConnectionActive(c)
             \/ TimeOut(c)
             \/ Progress(c)
        \/ CleanupStep
     /\ UNCHANGED <<authenticated, call>>

\* Whom the call under way is for, now: the connections in the table that
\* match its target.
Audience ==
  {c \in Table :
        CASE call.target.kind = "one"    -> c = call.target.to
          [] call.target.kind = "list"   -> c \in call.target.to
          [] call.target.kind = "user"   -> c \in user_connections[call.target.to]
          [] call.target.kind = "all"    -> TRUE
          [] call.target.kind = "except" -> c # call.target.to}

\* Those of them that may be sent its payload.
Entitled == {c \in Audience : FrameAllowed(c, call.payload)}

\* The histories begin with the call, and end with its last queue.
Watch ==
  CASE call'.stage = "idle" -> ever' = {} /\ throughout' = {}
    [] call'.stage = "refresh" -> UNCHANGED <<ever, throughout>>
    [] call'.stage = "read" /\ call.stage = "idle" ->
         ever' = Audience' /\ throughout' = Entitled'
    [] OTHER ->
         ever' = ever \cup Audience' /\ throughout' = throughout \cap Entitled'

DeliveryNext ==
  /\ \/ \E made \in Calls : BeginCall(made[1], made[2])
     \/ CallStep
     \/ ManagerStep
  /\ Watch

DeliverySpec == DeliveryInit /\ [][DeliveryNext]_deliveryVars

(***************************************************************************)
(* Fairness: a call is one task, polled to its end; it waits for nothing    *)
(* but a shard lock, which no holder keeps and which it is strongly fair    *)
(* to.  The manager's operations are synchronous and run to their end, and  *)
(* the detector's loop goes on.  Nothing forces a caller to call.           *)
(***************************************************************************)
Manager(A) == A /\ UNCHANGED <<authenticated, call>> /\ Watch

OperationsEnd == \A c \in Conns : WF_deliveryVars(Manager(Progress(c)))

CallsEnd == SF_deliveryVars(CallStep /\ Watch)

---------------------------------------------------------------------------
\* Every variable of the call stays in its range, and a call that is evicting
\* a connection still owes it the end of its removal.
DeliveryTypeOK ==
  /\ TypeOK
  /\ authenticated \in [Conns -> BOOLEAN]
  /\ call.target \in Targets /\ call.payload \in Payloads
  /\ call.stage \in {"idle", "read", "send", "evict", "refresh"}
  /\ call.stage = "evict" <=> call.evicting # None
  /\ \A s \in {call.todo, call.allowed, call.snapshots, call.sent, call.unencoded} :
       s \subseteq Conns

\* Nobody is missed: when a fan-out is over, every connection that was
\* entitled to it from its first step to its last has the frame in its queue.  The
\* table is never locked as a whole, entries come and go and connections are
\* rebound meanwhile, and a connection whose queue is full neither stays
\* behind silently nor costs another one the frame.
NobodyMissed ==
  call.stage = "refresh" => throughout \subseteq call.sent \cup call.unencoded

\* Nobody else gets it: a connection that has the frame in its queue was in
\* the audience at some moment of the call.  For an owner this is tenant
\* isolation of the fan-out: the connection has belonged to that user in that
\* tenant since the call began, though it need not any more; and a message
\* frame has only gone to connections that were authenticated by then.
AudienceOnly ==
  /\ call.sent \subseteq ever
  /\ call.payload = "message" => \A c \in call.sent : authenticated[c]

\* A call returns, whatever the connections it is for go through meanwhile:
\* it waits for locks and for removals, its own included.
CallReturns == call.stage # "idle" ~> call.stage = "idle"
=============================================================================
