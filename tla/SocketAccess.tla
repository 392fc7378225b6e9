---------------------------- MODULE SocketAccess ----------------------------
(***************************************************************************)
(* Credentials and WebSocket admission: API keys (services/auth/           *)
(* api_keys.py), one-use tickets (services/auth/tickets.py) and the        *)
(* sockets of one API process (services/api/websocket/security.py).        *)
(*                                                                         *)
(* The keys and tickets are rows of PostgreSQL, shared by all processes.   *)
(* A statement is atomic; a transaction that takes a lock is as many       *)
(* actions as it has points others can interleave with.                    *)
(***************************************************************************)
EXTENDS Naturals, FiniteSets

CONSTANTS
  Credential,        \* rows api_keys can have
  TenantOf,          \* the tenant of each credential
  Ticket,            \* requests for a ticket, each with its token
  Socket,
  MaxTickets, MaxTicketsPerCredential,
  MaxConnections, MaxConnectionsPerTenant,
  MaxInflight,       \* max_auth_inflight
  None

ASSUME AccessAssumption ==
  /\ None \notin Credential \cup Ticket
  /\ Credential \cap Ticket = {}
  /\ \A n \in {MaxTickets, MaxTicketsPerCredential, MaxConnections,
               MaxConnectionsPerTenant, MaxInflight} : n \in Nat \ {0}

VARIABLES
  key,       \* each credential's row in api_keys
  issue,     \* how far each request for a ticket is
  holder,    \* the credential it was made with
  row,       \* its row in websocket_tickets: "live" until it expires, then "expired"
  socket,    \* where each socket's handler is
  shown,     \* the ticket or the key a socket presents
  principal, \* the credential it was authenticated as
  inflight,  \* _auth_inflight
  closing    \* _closing

ticketVars == <<issue, holder, row>>
socketVars == <<socket, shown, principal, inflight, closing>>

Authenticating == {"authenticating", "resolved", "rejected"}

AccessTypeOK ==
  /\ key \in [Credential -> {"none", "active", "revoked"}]
  /\ issue \in [Ticket -> {"none", "asked", "counted", "refused", "issued"}]
  /\ holder \in [Ticket -> Credential \cup {None}]
  /\ row \in [Ticket -> {"none", "live", "expired"}]
  /\ socket \in [Socket -> {"away", "open", "ended"} \cup Authenticating]
  /\ shown \in [Socket -> Credential \cup Ticket \cup {None}]
  /\ principal \in [Socket -> Credential \cup {None}]
  /\ inflight \in 0..MaxInflight
  /\ closing \in BOOLEAN

AccessInit ==
  /\ key = [c \in Credential |-> "none"]
  /\ issue = [x \in Ticket |-> "none"]
  /\ holder = [x \in Ticket |-> None]
  /\ row = [x \in Ticket |-> "none"]
  /\ socket = [s \in Socket |-> "away"]
  /\ shown = [s \in Socket |-> None]
  /\ principal = [s \in Socket |-> None]
  /\ inflight = 0
  /\ closing = FALSE

----------------------------------------------------------------------------
(* API keys                                                                *)

CreateKey(c) ==
  /\ key[c] = "none"
  /\ key' = [key EXCEPT ![c] = "active"]
  /\ UNCHANGED <<ticketVars, socketVars>>

\* The row lock taken by issue (FOR SHARE) keeps an update out.
Updatable(c) == \A x \in Ticket : issue[x] = "counted" => holder[x] # c

RevokeKey(c) ==
  /\ key[c] = "active" /\ Updatable(c)
  /\ key' = [key EXCEPT ![c] = "revoked"]
  /\ UNCHANGED <<ticketVars, socketVars>>

----------------------------------------------------------------------------
(* Tickets                                                                 *)

ToIssue(x, to) == issue' = [issue EXCEPT ![x] = to]
Rows == {x \in Ticket : row[x] # "none"}

\* issue_websocket_ticket, after get_current_principal.
AskTicket(x, c) ==
  /\ issue[x] = "none" /\ key[c] = "active"
  /\ ToIssue(x, "asked")
  /\ holder' = [holder EXCEPT ![x] = c]
  /\ UNCHANGED <<key, row, socketVars>>

HasRoom(x) ==
  LET left == {y \in Ticket : row[y] = "live"}
  IN  /\ Cardinality(left) < MaxTickets
      /\ Cardinality({y \in left : holder[y] = holder[x]}) < MaxTicketsPerCredential

\* issue, up to its count: the advisory lock admits one transaction at a time.
\* Expired rows are deleted and the others counted.
\* (Mutant first: no lock.)
CountTicketsUnlocked(x) ==
  /\ issue[x] = "asked"
  /\ IF key[holder[x]] = "active" /\ HasRoom(x)
     THEN /\ ToIssue(x, "counted")
          /\ row' = [y \in Ticket |-> IF row[y] = "expired" THEN "none" ELSE row[y]]
     ELSE ToIssue(x, "refused") /\ UNCHANGED row
  /\ UNCHANGED <<key, holder, socketVars>>

CountTickets(x) ==
  /\ issue[x] = "asked"
  /\ \A y \in Ticket : issue[y] # "counted"
  /\ IF key[holder[x]] = "active" /\ HasRoom(x)
     THEN /\ ToIssue(x, "counted")
          /\ row' = [y \in Ticket |-> IF row[y] = "expired" THEN "none" ELSE row[y]]
     ELSE ToIssue(x, "refused") /\ UNCHANGED row
  /\ UNCHANGED <<key, holder, socketVars>>

\* The insert and the commit, or the failure of either.
InsertTicket(x) ==
  /\ issue[x] = "counted"
  /\ \/ ToIssue(x, "issued") /\ row' = [row EXCEPT ![x] = "live"]
     \/ ToIssue(x, "refused") /\ row' \in {row, [row EXCEPT ![x] = "live"]}
  /\ UNCHANGED <<key, holder, socketVars>>

ExpireTicket(x) ==
  /\ row[x] = "live"
  /\ row' = [row EXCEPT ![x] = "expired"]
  /\ UNCHANGED <<key, issue, holder, socketVars>>

----------------------------------------------------------------------------
(* Sockets                                                                 *)

ToSocket(s, to) == socket' = [socket EXCEPT ![s] = to]
Active == {s \in Socket : socket[s] = "open"}

\* authenticate: refused by the rate of the host's attempts, by the number in
\* flight, or for the transport or the credentials shown.
\* (Mutant first: a refused one also counts as ended.)
AuthenticateAlwaysReleasing(s) ==
  /\ socket[s] = "away"
  /\ ToSocket(s, "ended")
  /\ inflight' = inflight - 1
  /\ UNCHANGED <<key, ticketVars, shown, principal, closing>>

Authenticate(s) ==
  /\ socket[s] = "away"
  /\ \/ /\ ToSocket(s, "ended")
        /\ UNCHANGED <<shown, inflight>>
     \/ /\ inflight < MaxInflight
        /\ \E v \in {x \in Ticket : issue[x] = "issued"} \cup {c \in Credential : key[c] # "none"} :
             /\ ToSocket(s, "authenticating")
             /\ shown' = [shown EXCEPT ![s] = v]
             /\ inflight' = inflight + 1
  /\ UNCHANGED <<key, ticketVars, principal, closing>>

Resolve(s, c) ==
  /\ principal' = [principal EXCEPT ![s] = c]
  /\ ToSocket(s, "resolved")

\* The thread of consume.  A ticket that is not there any more, or whose
\* credential was revoked, opens nothing; neither does one asked for another
\* audience, one whose credential lost the scope, or a failing database.
Consume(s) ==
  /\ socket[s] = "authenticating" /\ shown[s] \in Ticket
  /\ LET x == shown[s]
         Usable == row[x] = "live" /\ key[holder[x]] = "active"
     IN  \/ /\ Usable
            /\ row' = [row EXCEPT ![x] = "none"]
            /\ \/ Resolve(s, holder[x])
               \/ ToSocket(s, "rejected") /\ UNCHANGED principal
         \/ ToSocket(s, "rejected") /\ UNCHANGED <<row, principal>>
  /\ UNCHANGED <<key, issue, holder, shown, inflight, closing>>

\* The thread of resolve_principal.
ResolveKey(s) ==
  /\ socket[s] = "authenticating" /\ shown[s] \in Credential
  /\ \/ key[shown[s]] = "active" /\ Resolve(s, shown[s])
     \/ ToSocket(s, "rejected") /\ UNCHANGED principal
  /\ UNCHANGED <<key, ticketVars, shown, inflight, closing>>

Within(s) ==
  LET mine == {t \in Active : TenantOf[principal[t]] = TenantOf[principal[s]]}
  IN  /\ ~closing
      /\ Cardinality(Active) < MaxConnections
      /\ Cardinality(mine) < MaxConnectionsPerTenant

Leave(s) ==
  /\ ToSocket(s, "ended")
  /\ shown' = [shown EXCEPT ![s] = None]
  /\ principal' = [principal EXCEPT ![s] = None]

\* session, resumed: the limits are looked at after the await.
Admit(s) ==
  /\ socket[s] \in {"resolved", "rejected"}
  /\ inflight' = inflight - 1
  /\ IF socket[s] = "resolved" /\ Within(s)
     THEN ToSocket(s, "open") /\ UNCHANGED <<shown, principal>>
     ELSE Leave(s)
  /\ UNCHANGED <<key, ticketVars, closing>>

\* The handler returns, the lifetime is over, or the client is gone.
EndSocket(s) ==
  /\ socket[s] = "open"
  /\ Leave(s)
  /\ UNCHANGED <<key, ticketVars, inflight, closing>>

CloseSecurity ==
  /\ ~closing
  /\ closing' = TRUE
  /\ UNCHANGED <<key, ticketVars, socket, shown, principal, inflight>>

AccessStep ==
  \/ \E c \in Credential : RevokeKey(c)
  \/ \E x \in Ticket, c \in Credential : AskTicket(x, c)
  \/ \E x \in Ticket : CountTickets(x) \/ InsertTicket(x) \/ ExpireTicket(x)
  \/ \E s \in Socket : Authenticate(s) \/ Consume(s) \/ ResolveKey(s) \/ Admit(s) \/ EndSocket(s)
  \/ CloseSecurity
=============================================================================
