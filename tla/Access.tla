------------------------------ MODULE Access -------------------------------
(***************************************************************************)
(* Credentials, tickets, sockets and device enrolment together: an         *)
(* enrolment creates and revokes the keys that sockets and tickets use.    *)
(***************************************************************************)
EXTENDS Enrolment

vars == <<key, ticketVars, socketVars, enrolmentVars>>

Init == AccessInit /\ EnrolmentInit

Next ==
  \/ \E c \in Credential \ Request : CreateKey(c) /\ UNCHANGED enrolmentVars
  \/ AccessStep /\ UNCHANGED enrolmentVars
  \/ EnrolmentStep

Spec == Init /\ [][Next]_vars

----------------------------------------------------------------------------
(* Properties                                                              *)

\* The state has its type; no more authentications and redemptions are in
\* flight than the limits (authenticate, admit).
TypeOK == AccessTypeOK /\ EnrolmentTypeOK

\* However requests, threads and revocations interleave: a ticket that opened
\* a socket is gone, and opened no other; the table never holds more tickets
\* than its quotas; the sockets of the process stay within its limits; and the
\* number in flight is that of the handlers (PostgresTicketStore,
\* WebSocketSecurity.session).
AccessBounded ==
  /\ \A s \in Socket : principal[s] # None /\ shown[s] \in Ticket =>
       /\ row[shown[s]] = "none"
       /\ \A t \in Socket \ {s} : principal[t] # None => shown[t] # shown[s]
  /\ Cardinality(Rows) <= MaxTickets
  /\ \A c \in Credential :
       Cardinality({x \in Rows : holder[x] = c}) <= MaxTicketsPerCredential
  /\ Cardinality(Active) <= MaxConnections
  /\ \A s \in Active :
       Cardinality({t \in Active : TenantOf[principal[t]] = TenantOf[principal[s]]})
         <= MaxConnectionsPerTenant
  /\ inflight = Cardinality({s \in Socket : socket[s] \in Authenticating})

\* A tenant has at most one active device; a token enrols at most once, and
\* never after it was replaced or revoked, also when its redemption had begun;
\* so at most one PC has a working credential, and a key that is not the
\* current device's does not work (redeem, issue_pairing, revoke).
OneDevice ==
  /\ Cardinality(Current) <= 1
  /\ \A r, q \in Request :
       device[r] # "none" /\ device[q] # "none" /\ entered[r] = entered[q] => r = q
  /\ \A r \in Request : device[r] # "none" => entered[r] \notin withdrawn
  /\ \A r \in Request : key[r] = "active" => r \in Current
  /\ Cardinality({p \in PC : file[p] # None /\ key[file[p]] = "active"}) <= 1
=============================================================================
