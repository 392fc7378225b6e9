-------------------------- MODULE CompanionBridge --------------------------
(***************************************************************************)
(* The bridge between the API and a tenant's companion agent               *)
(* (services/agent/pc_agent_bridge.py), the WebSocket sessions that feed   *)
(* it (services/api/websocket/pc_agent.py) and the device registry it asks *)
(* (services/auth/devices.py).  Connections are kept per tenant and nothing*)
(* but shutdown is shared between tenants, so one tenant is modelled.      *)
(*                                                                         *)
(* All of it runs on one event loop: what stands between two awaits is one *)
(* action.  A device check is two: a thread reads the registry, and later  *)
(* the coroutine resumes with what was read.  A session registers at most  *)
(* one connection, so a session stands for its socket and connection too.  *)
(***************************************************************************)
EXTENDS Naturals, FiniteSets

CONSTANTS
  Session,     \* agent sockets, each with one session task
  Command,     \* send_command calls
  Device,      \* paired devices
  DeviceOf,    \* the device whose credential opened each session
  MaxPending,  \* max_pending_commands
  None

ASSUME BridgeAssumption ==
  /\ DeviceOf \in [Session -> Device]
  /\ MaxPending \in Nat \ {0}
  /\ None \notin Session \cup Command

VARIABLES
  device,    \* each device's row in companion_devices
  closing,   \* _closing
  current,   \* _connections[tenant]
  pending,   \* pending of every connection: commands whose request_id is a key
  future,    \* what each command's future holds
  session,   \* where each session task is
  handling,  \* the command whose result a session is checking
  command,   \* where each send_command is
  conn,      \* the connection each command took
  sent       \* commands handed to their socket

sessionVars == <<session, handling>>
commandVars == <<command, conn, sent>>
vars == <<device, closing, current, pending, future, sessionVars, commandVars>>

InProgress == {"queued", "checking", "verified", "refused", "sending", "waiting"}

TypeOK ==
  /\ device \in [Device -> {"new", "active", "revoked"}]
  /\ closing \in BOOLEAN
  /\ current \in Session \cup {None}
  /\ pending \subseteq Command
  /\ future \in [Command -> {"none", "pending", "result", "failed", "cancelled"}]
  /\ session \in [Session -> {"away", "bound", "checking", "verified", "refused", "replacing",
                              "open", "verifying", "confirmed", "denied", "gone"}]
  /\ handling \in [Session -> Command \cup {None}]
  /\ command \in [Command -> {"new", "ended"} \cup InProgress]
  /\ conn \in [Command -> Session \cup {None}]
  /\ \A c \in Command : command[c] # "new" => conn[c] \in Session
  /\ sent \subseteq Command

Init ==
  /\ device = [d \in Device |-> "new"]
  /\ closing = FALSE
  /\ current = None
  /\ pending = {}
  /\ future = [c \in Command |-> "none"]
  /\ session = [s \in Session |-> "away"]
  /\ handling = [s \in Session |-> None]
  /\ command = [c \in Command |-> "new"]
  /\ conn = [c \in Command |-> None]
  /\ sent = {}

ActiveDevice(s) == device[DeviceOf[s]] = "active"
PendingOn(s)    == {c \in pending : conn[c] = s}

\* The pending futures of a connection that goes away are failed.
\* (Mutant first: they are dropped with it.)
FailPendingDropped(s) == UNCHANGED future

FailPending(s) ==
  future' = [c \in Command |-> IF c \in PendingOn(s) /\ future[c] = "pending"
                                 THEN "failed" ELSE future[c]]

-----------------------------------------------------------------------------
\* DeviceRegistry.redeem revokes the tenant's devices and adds the new one.
Redeem(d) ==
  /\ device[d] = "new"
  /\ device' = [e \in Device |-> IF e = d THEN "active"
                                 ELSE IF device[e] = "active" THEN "revoked" ELSE device[e]]
  /\ UNCHANGED <<closing, current, pending, future, sessionVars, commandVars>>

Revoke ==
  /\ \E d \in Device : device[d] = "active"
  /\ device' = [d \in Device |-> IF device[d] = "active" THEN "revoked" ELSE device[d]]
  /\ UNCHANGED <<closing, current, pending, future, sessionVars, commandVars>>

-----------------------------------------------------------------------------
(* Sessions: handle_pc_agent_session and the handlers of the bridge.       *)

Enter(s, step) == session' = [session EXCEPT ![s] = step]

\* require_active, as the bridge sees it: a check succeeds only for an active
\* device, and any check may fail because the registry cannot be asked.
Check(s, ok, failed) == {failed} \cup {outcome \in {ok} : ActiveDevice(s)}

\* The handshake binds the session to an active device.
Bind(s) ==
  /\ session[s] = "away"
  /\ ActiveDevice(s)
  /\ Enter(s, "bound")
  /\ UNCHANGED <<device, closing, current, pending, future, handling, commandVars>>

\* register, up to the device check.
Register(s) ==
  /\ session[s] = "bound"
  /\ Enter(s, IF closing THEN "gone" ELSE "checking")
  /\ UNCHANGED <<device, closing, current, pending, future, handling, commandVars>>

CheckSession(s) ==
  /\ session[s] = "checking"
  /\ \E outcome \in Check(s, "verified", "refused") : Enter(s, outcome)
  /\ UNCHANGED <<device, closing, current, pending, future, handling, commandVars>>

\* register, after the check: the new connection replaces the current one.
\* (Mutant first: shutdown is not looked at again after the check.)
InstallWhileClosing(s) ==
  /\ session[s] = "verified"
  /\ current' = s
  /\ FailPending(current)
  /\ Enter(s, IF current = None THEN "open" ELSE "replacing")
  /\ UNCHANGED <<device, closing, pending, handling, commandVars>>

Install(s) ==
  /\ session[s] = "verified"
  /\ IF closing
       THEN Enter(s, "gone") /\ UNCHANGED <<current, future>>
       ELSE /\ current' = s
            /\ FailPending(current)
            /\ Enter(s, IF current = None THEN "open" ELSE "replacing")
  /\ UNCHANGED <<device, closing, pending, handling, commandVars>>

\* The old socket has been closed, or could not be within a second.  Its
\* session ends (Leave) when it notices.
CloseReplaced(s) ==
  /\ session[s] = "replacing"
  /\ Enter(s, "open")
  /\ UNCHANGED <<device, closing, current, pending, future, handling, commandVars>>

\* handle_result up to the device check.  The agent may answer any request it
\* was sent, early, late or more than once; it knows no other request_id.
ReceiveResult(s, c) ==
  /\ session[s] = "open"
  /\ c \in sent /\ conn[c] = s
  /\ current = s /\ c \in pending /\ future[c] = "pending"
  /\ Enter(s, "verifying")
  /\ handling' = [handling EXCEPT ![s] = c]
  /\ UNCHANGED <<device, closing, current, pending, future, commandVars>>

CheckResult(s) ==
  /\ session[s] = "verifying"
  /\ \E outcome \in Check(s, "confirmed", "denied") : Enter(s, outcome)
  /\ UNCHANGED <<device, closing, current, pending, future, handling, commandVars>>

\* handle_result after the check: the future may have been resolved meanwhile.
\* (Mutant first: neither the future nor the connection is looked at again.)
ResolveUnchecked(s) ==
  LET c == handling[s] IN
  /\ session[s] \in {"confirmed", "denied"}
  /\ future' = [future EXCEPT ![c] = IF session[s] = "denied" THEN "failed" ELSE "result"]
  /\ pending' = IF session[s] = "confirmed" THEN pending \ {c} ELSE pending
  /\ Enter(s, "open")
  /\ handling' = [handling EXCEPT ![s] = None]
  /\ UNCHANGED <<device, closing, current, commandVars>>

Resolve(s) ==
  LET c == handling[s]
      accepted == session[s] = "confirmed" /\ future[c] = "pending" /\ current = s
  IN
  /\ session[s] \in {"confirmed", "denied"}
  /\ future' = [future EXCEPT ![c] = IF @ # "pending" THEN @
                                     ELSE IF accepted THEN "result" ELSE "failed"]
  /\ pending' = IF accepted THEN pending \ {c} ELSE pending
  /\ Enter(s, "open")
  /\ handling' = [handling EXCEPT ![s] = None]
  /\ UNCHANGED <<device, closing, current, commandVars>>

\* unregister, in the session's finally: only its own connection is removed.
\* (Mutant first: whatever connection the tenant has is removed.)
UnregisterTenant(s) ==
  /\ current' = None
  /\ FailPending(current)

Unregister(s) ==
  IF current = s
    THEN current' = None /\ FailPending(s)
    ELSE UNCHANGED <<current, future>>

\* The session ends: the agent or the server hung up, the session's lifetime
\* ran out wherever it was, or the check refused its device.
Leave(s) ==
  /\ session[s] \notin {"away", "gone"}
  /\ Unregister(s)
  /\ Enter(s, "gone")
  /\ handling' = [handling EXCEPT ![s] = None]
  /\ UNCHANGED <<device, closing, pending, commandVars>>

\* close: at shutdown every connection is dropped; closing its socket, which
\* may fail, comes after and lets the session notice.
Close ==
  /\ ~closing
  /\ closing' = TRUE
  /\ current' = None
  /\ FailPending(current)
  /\ UNCHANGED <<device, pending, sessionVars, commandVars>>

-----------------------------------------------------------------------------
(* send_command.                                                           *)

Go(c, step) == command' = [command EXCEPT ![c] = step]

\* The entry guards and the insertion into pending, without an await between.
\* (Mutant first: nothing asks whether an agent is connected.)
BeginUnconnected(c) ==
  /\ command[c] = "new"
  /\ ~closing
  /\ Cardinality(PendingOn(current)) < MaxPending
  /\ pending' = pending \cup {c}
  /\ future' = [future EXCEPT ![c] = "pending"]
  /\ conn' = [conn EXCEPT ![c] = current]
  /\ Go(c, "queued")
  /\ UNCHANGED <<device, closing, current, sessionVars, sent>>

Begin(c) ==
  /\ command[c] = "new"
  /\ ~closing
  /\ current # None
  /\ Cardinality(PendingOn(current)) < MaxPending
  /\ pending' = pending \cup {c}
  /\ future' = [future EXCEPT ![c] = "pending"]
  /\ conn' = [conn EXCEPT ![c] = current]
  /\ Go(c, "queued")
  /\ UNCHANGED <<device, closing, current, sessionVars, sent>>

\* send_lock is held from here until the socket has taken the message.
HoldsLock(c) == command[c] \in {"checking", "verified", "refused", "sending"}

Acquire(c) ==
  /\ command[c] = "queued"
  /\ \A b \in Command : conn[b] = conn[c] => ~HoldsLock(b)
  /\ Go(c, "checking")
  /\ UNCHANGED <<device, closing, current, pending, future, sessionVars, conn, sent>>

\* (Mutant first: the check made at registration is thought to be enough.)
CheckCommandCached(c) ==
  /\ command[c] = "checking"
  /\ Go(c, "verified")
  /\ UNCHANGED <<device, closing, current, pending, future, sessionVars, conn, sent>>

CheckCommand(c) ==
  /\ command[c] = "checking"
  /\ \E outcome \in Check(conn[c], "verified", "refused") : Go(c, outcome)
  /\ UNCHANGED <<device, closing, current, pending, future, sessionVars, conn, sent>>

\* The finally block: the slot is given back, an open future is cancelled.
\* (Mutant first: the slot is given back by the answer only.)
EndKeepingSlot(c) ==
  /\ Go(c, "ended")
  /\ future' = [future EXCEPT ![c] = IF @ = "pending" THEN "cancelled" ELSE @]
  /\ UNCHANGED <<device, closing, current, pending, sessionVars, conn, sent>>

End(c) ==
  /\ Go(c, "ended")
  /\ pending' = pending \ {c}
  /\ future' = [future EXCEPT ![c] = IF @ = "pending" THEN "cancelled" ELSE @]
  /\ UNCHANGED <<device, closing, current, sessionVars, conn, sent>>

\* Delivery begins only if the connection is still the tenant's.
Deliver(c) ==
  /\ command[c] = "verified"
  /\ current = conn[c]
  /\ sent' = sent \cup {c}
  /\ Go(c, "sending")
  /\ UNCHANGED <<device, closing, current, pending, future, sessionVars, conn>>

DeliveryRefused(c) ==
  /\ \/ command[c] = "refused"
     \/ command[c] = "verified" /\ current # conn[c]
  /\ End(c)

SendReturns(c) ==
  /\ command[c] = "sending"
  /\ \/ Go(c, "waiting") /\ UNCHANGED <<device, closing, current, pending, future, sessionVars, conn, sent>>
     \/ End(c)

Answered(c) ==
  /\ command[c] = "waiting"
  /\ future[c] \in {"result", "failed"}
  /\ End(c)

\* The deadline passes or the caller is cancelled, at whatever await it is.
Expire(c) ==
  /\ command[c] \in InProgress
  /\ End(c)

-----------------------------------------------------------------------------
SessionStep(s) ==
  \/ Register(s) \/ CheckSession(s) \/ Install(s) \/ CloseReplaced(s)
  \/ CheckResult(s) \/ Resolve(s)

CommandStep(c) ==
  \/ Acquire(c) \/ CheckCommand(c) \/ Deliver(c) \/ DeliveryRefused(c)
  \/ SendReturns(c) \/ Answered(c)

Next ==
  \/ \E d \in Device : Redeem(d)
  \/ Revoke
  \/ \E s \in Session : SessionStep(s) \/ Bind(s) \/ Leave(s)
  \/ \E s \in Session, c \in Command : ReceiveResult(s, c)
  \/ \E c \in Command : CommandStep(c) \/ Begin(c) \/ Expire(c)
  \/ Close

Spec == Init /\ [][Next]_vars

\* Coroutines that can go on do; checks and sends return.  No deadline is needed
\* and no agent has to answer.
Fairness == \A c \in Command : WF_vars(CommandStep(c))
FairSpec == Spec /\ Fairness

-----------------------------------------------------------------------------
(* Properties.                                                             *)

\* Replacement, disconnection and shutdown leave nobody behind: an unresolved
\* future belongs to the connection the tenant has now.
NobodyWaitsOnOldConnection ==
  \A c \in Command : future[c] = "pending" => current # None /\ conn[c] = current

\* "Reject new work": whatever was awaiting a check when shutdown began, no
\* connection comes back after it, and the tenant's connection always belongs
\* to a session that is still there to remove it.
ConnectionIsOwned ==
  /\ closing => current = None
  /\ current # None => session[current] \in {"replacing", "open", "verifying", "confirmed", "denied"}

\* Every path out of a command gives its slot back, once: the slots that are
\* taken belong to commands in progress and never exceed the limit.
SlotsAreGivenBack ==
  /\ \A c \in pending : command[c] \in InProgress
  /\ \A s \in Session : Cardinality(PendingOn(s)) <= MaxPending

\* A future is resolved once: a result that was being checked while the command
\* failed, timed out or lost its connection changes nothing.
ResolvedOnce ==
  [][\A c \in Command : future[c] \in {"result", "failed", "cancelled"} => future'[c] = future[c]]_vars

\* test_stale_disconnect_cannot_remove_replacement: the tenant's connection is
\* taken away only by its own session's end, a newer registration or shutdown.
OnlyOwnerDisconnects ==
  [][current # None /\ current' # current =>
       session'[current] = "gone" \/ current' # None \/ closing']_vars

\* A command that comes when the connection's device is already revoked never
\* reaches the agent, however checks and sends interleave.
RevokedIsNotCommanded ==
  \A c \in Command :
    []((command[c] = "queued" /\ device[DeviceOf[conn[c]]] = "revoked") => [](c \notin sent))

\* A command whose connection has gone ends without its deadline.
OrphansEnd ==
  \A c \in Command : (command[c] \in InProgress /\ conn[c] # current) ~> command[c] = "ended"
=============================================================================
