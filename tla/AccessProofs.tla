---------------------------- MODULE AccessProofs ----------------------------
(***************************************************************************)
(* Theorems about Access, for any credentials, tickets, sockets, requests, *)
(* PCs and limits.  Two arguments carry them.  A count made under a lock   *)
(* stays good for its transaction (Reserved), because whatever else goes   *)
(* on only takes rows away; and a token is in the tenant's row once in its *)
(* life (TokenOnce), so it becomes at most one device.                     *)
(***************************************************************************)
EXTENDS Access, Counting

\* A ticket that is shown was issued, one that is not yet has no row, and a
\* socket has a principal once it is resolved.
ShownWasIssued ==
  /\ \A s \in Socket : socket[s] \in {"away", "authenticating"} => principal[s] = None
  /\ \A s \in Socket : shown[s] \in Ticket => issue[shown[s]] = "issued"
  /\ \A x \in Ticket : issue[x] \in {"none", "asked", "counted"} => row[x] = "none"

\* A ticket that opened a socket is gone, and opened no other.
SingleUse ==
  \A s \in Socket : principal[s] # None /\ shown[s] \in Ticket =>
    /\ row[shown[s]] = "none"
    /\ \A t \in Socket \ {s} : principal[t] # None => shown[t] # shown[s]

RowsOf(c) == {x \in Rows : holder[x] = c}

\* The quotas, and the place kept by the transaction that has counted: the
\* only one, by the advisory lock.
TicketQuotas ==
  /\ IsFiniteSet(Rows)
  /\ Cardinality(Rows) <= MaxTickets
  /\ \A c \in Credential : Cardinality(RowsOf(c)) <= MaxTicketsPerCredential

Reserved ==
  /\ \A x \in Ticket : issue[x] = "counted" =>
       /\ Cardinality(Rows) < MaxTickets
       /\ Cardinality(RowsOf(holder[x])) < MaxTicketsPerCredential
  /\ \A x, y \in Ticket : issue[x] = "counted" /\ issue[y] = "counted" => x = y

\* The open sockets of s's tenant.
Mine(s) == {t \in Active : TenantOf[principal[t]] = TenantOf[principal[s]]}

SocketLimits ==
  /\ IsFiniteSet(Active)
  /\ Cardinality(Active) <= MaxConnections
  /\ \A s \in Active : Cardinality(Mine(s)) <= MaxConnectionsPerTenant

\* The number in flight is that of the handlers between authenticate and admit.
Handlers == {s \in Socket : socket[s] \in Authenticating}

InflightCounts == IsFiniteSet(Handlers) /\ inflight = Cardinality(Handlers)

\* The same of the redemptions.
Redeemers == {r \in Request : server[r] \in {"sent", "found"}}

RedeemingCounts == IsFiniteSet(Redeemers) /\ redeeming = Cardinality(Redeemers)

\* A token is in the tenant's row from its issue until it is redeemed, replaced
\* or revoked; a request carries one token.
TokenOnce ==
  /\ pairing # None => pairing \in issued \ withdrawn
  /\ \A r \in Request : client[r] = "none" => server[r] = "none" /\ device[r] = "none"
  /\ \A r \in Request : server[r] # "none" => entered[r] \in issued
  /\ \A r \in Request : device[r] # "none" =>
       server[r] # "none" /\ entered[r] # pairing /\ entered[r] \notin withdrawn
  /\ \A r, q \in Request :
       device[r] # "none" /\ device[q] # "none" /\ entered[r] = entered[q] => r = q

\* One device is current, and of the devices' keys only its own works.
OneCurrent ==
  /\ \A r, q \in Current : r = q
  /\ \A r \in Request : key[r] = "active" => r \in Current

\* An enrolment is saved at most once, on one PC.
SavedOnce ==
  /\ \A p, q \in PC : file[p] # None /\ file[p] = file[q] => p = q
  /\ \A p \in PC, r \in Request : file[p] = r => client[r] = "over"

AInv ==
  /\ TypeOK
  /\ ShownWasIssued
  /\ SingleUse
  /\ TicketQuotas
  /\ Reserved
  /\ SocketLimits
  /\ InflightCounts
  /\ RedeemingCounts
  /\ TokenOnce
  /\ OneCurrent
  /\ SavedOnce

-----------------------------------------------------------------------------
(* The steps.                                                              *)

\* Keys apart from enrolments', tickets and sockets; enrolments; or nothing.
LEMMA Steps ==
  ASSUME [Next]_vars
  PROVE  \/ UNCHANGED enrolmentVars /\ \E c \in Credential : (CreateKey(c) /\ c \notin Request) \/ RevokeKey(c)
         \/ UNCHANGED enrolmentVars /\ \E x \in Ticket, c \in Credential : AskTicket(x, c)
         \/ UNCHANGED enrolmentVars /\ \E x \in Ticket : CountTickets(x)
         \/ UNCHANGED enrolmentVars /\ \E x \in Ticket : InsertTicket(x)
         \/ UNCHANGED enrolmentVars /\ \E x \in Ticket : ExpireTicket(x)
         \/ UNCHANGED enrolmentVars /\ \E s \in Socket : Authenticate(s)
         \/ UNCHANGED enrolmentVars /\ \E s \in Socket : Consume(s)
         \/ UNCHANGED enrolmentVars /\ \E s \in Socket : ResolveKey(s)
         \/ UNCHANGED enrolmentVars /\ \E s \in Socket : Admit(s)
         \/ UNCHANGED enrolmentVars /\ \E s \in Socket : EndSocket(s)
         \/ UNCHANGED enrolmentVars /\ CloseSecurity
         \/ EnrolmentStep
         \/ UNCHANGED vars
BY DEF Next, AccessStep

\* An enrolment changes no ticket and no socket.
LEMMA EnrolmentFrame ==
  ASSUME EnrolmentStep
  PROVE  UNCHANGED <<ticketVars, socketVars>>
BY DEF EnrolmentStep, IssuePairing, ExpirePairing, RevokeDevice, StartPairing, FindPairing, Redeem, Save, GiveUp

\* Nothing is there at first.
LEMMA InitAInv == Init => AInv
<1> SUFFICES ASSUME Init PROVE AInv
  OBVIOUS
<1> USE AccessAssumption, EnrolmentAssumption DEF Init, AccessInit, EnrolmentInit
<1>1. TypeOK
  <2>1. 0 \in 0..MaxInflight /\ 0 \in 0..MaxRedeeming
    OBVIOUS
  <2>2. AccessTypeOK
    BY <2>1 DEF AccessTypeOK
  <2>3. EnrolmentTypeOK
    BY <2>1 DEF EnrolmentTypeOK
  <2> QED
    BY <2>2, <2>3 DEF TypeOK
<1>2. Rows = {} /\ Active = {} /\ Handlers = {} /\ Redeemers = {} /\ Current = {}
  BY DEF Rows, Active, Handlers, Authenticating, Redeemers, Current
<1>3. \A c : RowsOf(c) = {}
  BY <1>2 DEF RowsOf
<1>4. TicketQuotas /\ SocketLimits /\ InflightCounts /\ RedeemingCounts
  BY <1>2, <1>3, CountNothing DEF TicketQuotas, SocketLimits, InflightCounts, RedeemingCounts
<1>5. ShownWasIssued /\ SingleUse /\ Reserved
  BY DEF ShownWasIssued, SingleUse, Reserved
<1>6. TokenOnce /\ OneCurrent /\ SavedOnce
  BY <1>2 DEF TokenOnce, OneCurrent, SavedOnce
<1> QED
  BY <1>1, <1>4, <1>5, <1>6 DEF AInv

-----------------------------------------------------------------------------
(* Counters.                                                               *)

\* authenticate counts a handler in and session counts it out, whichever way
\* its authentication went.
LEMMA InflightStep ==
  ASSUME AccessTypeOK, InflightCounts, [Next]_vars
  PROVE  InflightCounts' /\ inflight' \in 0..MaxInflight
<1> USE AccessAssumption DEF AccessTypeOK, InflightCounts
<1>1. CASE UNCHANGED <<socket, inflight>>
  BY <1>1 DEF Handlers
<1>2. ASSUME NEW s \in Socket, Authenticate(s)
      PROVE  InflightCounts' /\ inflight' \in 0..MaxInflight
  <2>1. CASE socket' = [socket EXCEPT ![s] = "ended"] /\ UNCHANGED inflight
    <3>1. Handlers' = Handlers
      BY <1>2, <2>1 DEF Authenticate, Handlers, Authenticating
    <3> QED
      BY <2>1, <3>1
  <2>2. CASE /\ inflight < MaxInflight /\ inflight' = inflight + 1
             /\ socket' = [socket EXCEPT ![s] = "authenticating"]
    <3>1. Handlers' = Handlers \cup {s} /\ s \notin Handlers
      BY <1>2, <2>2 DEF Authenticate, Handlers, Authenticating
    <3>2. IsFiniteSet(Handlers') /\ Cardinality(Handlers') = Cardinality(Handlers) + 1
      BY <3>1, CountEnters
    <3> QED
      BY <2>2, <3>2
  <2> QED
    BY <1>2, <2>1, <2>2 DEF Authenticate, ToSocket
<1>3. ASSUME NEW s \in Socket, Consume(s) \/ ResolveKey(s) \/ EndSocket(s)
      PROVE  InflightCounts' /\ inflight' \in 0..MaxInflight
  <2>1. Handlers' = Handlers
    BY <1>3 DEF Consume, ResolveKey, EndSocket, Leave, Resolve, ToSocket, Handlers, Authenticating
  <2>2. inflight' = inflight
    BY <1>3 DEF Consume, ResolveKey, EndSocket
  <2> QED
    BY <2>1, <2>2
<1>4. ASSUME NEW s \in Socket, Admit(s)
      PROVE  InflightCounts' /\ inflight' \in 0..MaxInflight
  <2>1. Handlers' = Handlers \ {s} /\ s \in Handlers
    BY <1>4 DEF Admit, Leave, ToSocket, Handlers, Authenticating
  <2>2. /\ IsFiniteSet(Handlers') /\ Cardinality(Handlers) \in Nat \ {0}
        /\ Cardinality(Handlers') = Cardinality(Handlers) - 1
    BY <2>1, CountLeaves
  <2>3. inflight' = inflight - 1
    BY <1>4 DEF Admit
  <2> QED
    BY <2>2, <2>3
<1> QED
  BY Steps, EnrolmentFrame, <1>1, <1>2, <1>3, <1>4
     DEF CreateKey, RevokeKey, AskTicket, CountTickets, InsertTicket, ExpireTicket, CloseSecurity,
         vars, ticketVars, socketVars

\* admit counts a redemption in and gives its place back with the answer.
LEMMA RedeemingStep ==
  ASSUME EnrolmentTypeOK, RedeemingCounts, TokenOnce, [Next]_vars
  PROVE  RedeemingCounts' /\ redeeming' \in 0..MaxRedeeming
<1> USE EnrolmentAssumption DEF EnrolmentTypeOK, RedeemingCounts
<1>1. CASE UNCHANGED <<server, redeeming>>
  BY <1>1 DEF Redeemers
<1>2. ASSUME NEW r \in Request, NEW p \in PC, NEW k \in Token, StartPairing(r, p, k)
      PROVE  RedeemingCounts' /\ redeeming' \in 0..MaxRedeeming
  <2>1. CASE redeeming < MaxRedeeming /\ redeeming' = redeeming + 1 /\ server' = [server EXCEPT ![r] = "sent"]
    <3>1. Redeemers' = Redeemers \cup {r} /\ r \notin Redeemers
      BY <1>2, <2>1 DEF StartPairing, TokenOnce, Redeemers
    <3>2. IsFiniteSet(Redeemers') /\ Cardinality(Redeemers') = Cardinality(Redeemers) + 1
      BY <3>1, CountEnters
    <3> QED
      BY <2>1, <3>2
  <2> QED
    BY <1>1, <1>2, <2>1 DEF StartPairing, Admitted
<1>3. ASSUME NEW r \in Request, FindPairing(r) \/ Redeem(r)
      PROVE  RedeemingCounts' /\ redeeming' \in 0..MaxRedeeming
  <2>1. CASE server' = [server EXCEPT ![r] = "found"] /\ UNCHANGED redeeming /\ server[r] = "sent"
    <3>1. Redeemers' = Redeemers
      BY <2>1 DEF Redeemers
    <3> QED
      BY <2>1, <3>1
  <2>2. ASSUME NEW how \in {"answered", "refused"}, Respond(r, how), server[r] \in {"sent", "found"}
        PROVE  RedeemingCounts' /\ redeeming' \in 0..MaxRedeeming
    <3>1. Redeemers' = Redeemers \ {r} /\ r \in Redeemers
      BY <2>2 DEF Respond, Redeemers
    <3>2. /\ IsFiniteSet(Redeemers') /\ Cardinality(Redeemers) \in Nat \ {0}
          /\ Cardinality(Redeemers') = Cardinality(Redeemers) - 1
      BY <3>1, CountLeaves
    <3> QED
      BY <2>2, <3>2 DEF Respond
  <2> QED
    BY <1>3, <2>1, <2>2 DEF FindPairing, Redeem
<1> QED
  BY Steps, <1>1, <1>2, <1>3
     DEF EnrolmentStep, IssuePairing, ExpirePairing, RevokeDevice, Save, GiveUp,
         vars, enrolmentVars, clientVars

-----------------------------------------------------------------------------
(* Types                                                                   *)

\* Keys, tickets and sockets keep their types.
LEMMA AccessTypeStep ==
  ASSUME AInv, [Next]_vars
  PROVE  AccessTypeOK'
<1> USE AccessAssumption, EnrolmentAssumption
<1> DEFINE Rest == /\ key' \in [Credential -> {"none", "active", "revoked"}]
                   /\ issue' \in [Ticket -> {"none", "asked", "counted", "refused", "issued"}]
                   /\ holder' \in [Ticket -> Credential \cup {None}]
                   /\ row' \in [Ticket -> {"none", "live", "expired"}]
                   /\ socket' \in [Socket -> {"away", "open", "ended"} \cup Authenticating]
                   /\ shown' \in [Socket -> Credential \cup Ticket \cup {None}]
                   /\ principal' \in [Socket -> Credential \cup {None}]
                   /\ closing' \in BOOLEAN
<1>1. AccessTypeOK
  BY DEF AInv, TypeOK
<1>2. inflight' \in 0..MaxInflight
  BY <1>1, InflightStep DEF AInv
<1>3. CASE \E c \in Credential : CreateKey(c) \/ RevokeKey(c)
  BY <1>1, <1>3 DEF AccessTypeOK, CreateKey, RevokeKey, ticketVars, socketVars
<1>4. ASSUME NEW x \in Ticket, NEW c \in Credential, AskTicket(x, c)
      PROVE  Rest
  BY <1>1, <1>4 DEF AccessTypeOK, AskTicket, ToIssue, socketVars
<1>5. ASSUME NEW x \in Ticket, CountTickets(x) \/ InsertTicket(x) \/ ExpireTicket(x)
      PROVE  Rest
  <2>1. row' \in [Ticket -> {"none", "live", "expired"}]
    BY <1>1, <1>5 DEF AccessTypeOK, CountTickets, InsertTicket, ExpireTicket
  <2>2. issue' \in [Ticket -> {"none", "asked", "counted", "refused", "issued"}]
    BY <1>1, <1>5 DEF AccessTypeOK, CountTickets, InsertTicket, ExpireTicket, ToIssue
  <2> QED
    BY <1>1, <1>5, <2>1, <2>2 DEF AccessTypeOK, CountTickets, InsertTicket, ExpireTicket, socketVars
<1>6. ASSUME NEW s \in Socket, Authenticate(s) \/ ResolveKey(s)
      PROVE  Rest
  BY <1>1, <1>6 DEF AccessTypeOK, Authenticate, ResolveKey, Resolve, ToSocket, Authenticating, ticketVars
<1>7. ASSUME NEW s \in Socket, Consume(s)
      PROVE  Rest
  BY <1>1, <1>7 DEF AccessTypeOK, Consume, Resolve, ToSocket, Authenticating
<1>8. ASSUME NEW s \in Socket, Admit(s) \/ EndSocket(s)
      PROVE  Rest
  BY <1>1, <1>8 DEF AccessTypeOK, Admit, EndSocket, Leave, ToSocket, Authenticating, ticketVars
<1>9. CASE CloseSecurity \/ UNCHANGED vars
  BY <1>1, <1>9 DEF AccessTypeOK, CloseSecurity, vars, ticketVars, socketVars
<1>10. CASE EnrolmentStep
  <2>1. key' \in [Credential -> {"none", "active", "revoked"}]
    BY <1>1, <1>10 DEF AccessTypeOK, EnrolmentStep, IssuePairing, ExpirePairing, RevokeDevice, RevokeCurrent,
                       StartPairing, FindPairing, Redeem, Save, GiveUp
  <2> QED
    BY <1>1, <1>10, <2>1, EnrolmentFrame DEF AccessTypeOK, ticketVars, socketVars
<1>11. Rest
  BY <1>1, <1>3, <1>4, <1>5, <1>6, <1>7, <1>8, <1>9, <1>10, Steps
     DEF AccessTypeOK
<1> QED
  BY <1>2, <1>11 DEF AccessTypeOK

\* The tables and programs of an enrolment keep their types.
LEMMA EnrolmentTypeStep ==
  ASSUME AInv, [Next]_vars
  PROVE  EnrolmentTypeOK'
<1> USE EnrolmentAssumption
<1>1. EnrolmentTypeOK /\ TokenOnce
  BY DEF AInv, TypeOK
<1>2. redeeming' \in 0..MaxRedeeming
  BY <1>1, RedeemingStep DEF AInv
<1>3. CASE UNCHANGED enrolmentVars
  BY <1>1, <1>3 DEF EnrolmentTypeOK, enrolmentVars, operatorVars, clientVars
<1>4. CASE (\E k \in Token : IssuePairing(k)) \/ ExpirePairing \/ RevokeDevice
  <2>1. device' \in [Request -> {"none", "active", "revoked"}]
    BY <1>1, <1>4 DEF EnrolmentTypeOK, IssuePairing, ExpirePairing, RevokeDevice, RevokeCurrent
  <2>2. /\ pairing' \in Token \cup {None}
        /\ issued' \subseteq Token /\ withdrawn' \subseteq issued'
    BY <1>1, <1>4 DEF EnrolmentTypeOK, TokenOnce, IssuePairing, ExpirePairing, RevokeDevice, Pending
  <2> QED
    BY <1>1, <1>4, <2>1, <2>2 DEF EnrolmentTypeOK, IssuePairing, ExpirePairing, RevokeDevice, clientVars
<1>5. ASSUME NEW r \in Request, NEW p \in PC, NEW k \in Token, StartPairing(r, p, k)
      PROVE  EnrolmentTypeOK'
  <2>1. pc' \in [Request -> [on : PC, replace : BOOLEAN] \cup {None}]
    BY <1>1, <1>5 DEF EnrolmentTypeOK, StartPairing
  <2>2. /\ entered' \in [Request -> Token \cup {None}]
        /\ client' \in [Request -> {"none", "waiting", "over"}]
        /\ server' \in [Request -> {"none", "sent", "found", "answered", "refused"}]
    BY <1>1, <1>5 DEF EnrolmentTypeOK, StartPairing
  <2> QED
    BY <1>1, <1>2, <1>5, <2>1, <2>2 DEF EnrolmentTypeOK, StartPairing, operatorVars
<1>6. ASSUME NEW r \in Request, FindPairing(r) \/ Redeem(r)
      PROVE  EnrolmentTypeOK'
  <2>1. device' \in [Request -> {"none", "active", "revoked"}] /\ pairing' \in Token \cup {None}
    BY <1>1, <1>6 DEF EnrolmentTypeOK, FindPairing, Redeem, RevokeCurrent, operatorVars
  <2>2. server' \in [Request -> {"none", "sent", "found", "answered", "refused"}]
    BY <1>1, <1>6 DEF EnrolmentTypeOK, FindPairing, Redeem, Respond
  <2> QED
    BY <1>1, <1>2, <1>6, <2>1, <2>2 DEF EnrolmentTypeOK, FindPairing, Redeem, operatorVars, clientVars
<1>7. ASSUME NEW r \in Request, Save(r) \/ GiveUp(r)
      PROVE  EnrolmentTypeOK'
  BY <1>1, <1>7 DEF EnrolmentTypeOK, Save, GiveUp, LeavePairing, operatorVars
<1> QED
  BY Steps, <1>3, <1>4, <1>5, <1>6, <1>7 DEF EnrolmentStep, vars

-----------------------------------------------------------------------------
(* Tickets                                                                 *)

\* A ticket is shown after its issue, and has no row before it.
LEMMA ShownWasIssuedStep ==
  ASSUME AInv, [Next]_vars
  PROVE  ShownWasIssued'
<1> USE AccessAssumption DEF AInv, TypeOK, AccessTypeOK, ShownWasIssued
<1>1. CASE UNCHANGED <<ticketVars, socket, shown, principal>>
  BY <1>1 DEF ticketVars
<1>2. ASSUME NEW x \in Ticket, NEW c \in Credential, AskTicket(x, c)
      PROVE  ShownWasIssued'
  BY <1>2 DEF AskTicket, ToIssue, socketVars
<1>3. ASSUME NEW x \in Ticket, CountTickets(x) \/ InsertTicket(x) \/ ExpireTicket(x)
      PROVE  ShownWasIssued'
  BY <1>3 DEF CountTickets, InsertTicket, ExpireTicket, ToIssue, socketVars
<1>4. ASSUME NEW s \in Socket, Authenticate(s)
      PROVE  ShownWasIssued'
  BY <1>4 DEF Authenticate, ToSocket, ticketVars
<1>5. ASSUME NEW s \in Socket, Consume(s) \/ ResolveKey(s) \/ Admit(s) \/ EndSocket(s)
      PROVE  ShownWasIssued'
  BY <1>5 DEF Consume, ResolveKey, Resolve, Admit, EndSocket, Leave, ToSocket, ticketVars
<1> QED
  BY Steps, EnrolmentFrame, <1>1, <1>2, <1>3, <1>4, <1>5
     DEF CreateKey, RevokeKey, CloseSecurity, vars, socketVars

\* The row of a consumed ticket stays away: it was issued, so it is never
\* inserted again.
LEMMA SingleUseStep ==
  ASSUME AInv, [Next]_vars
  PROVE  SingleUse'
<1> USE AccessAssumption DEF AInv, TypeOK, AccessTypeOK, ShownWasIssued, SingleUse
<1>1. CASE UNCHANGED <<row, shown, principal>>
  BY <1>1
<1>2. ASSUME NEW x \in Ticket, CountTickets(x) \/ InsertTicket(x) \/ ExpireTicket(x)
      PROVE  SingleUse'
  BY <1>2 DEF CountTickets, InsertTicket, ExpireTicket, socketVars
<1>3. ASSUME NEW s \in Socket, Authenticate(s)
      PROVE  SingleUse'
  <2>1. UNCHANGED <<row, principal>> /\ \A t \in Socket \ {s} : shown'[t] = shown[t]
    BY <1>3 DEF Authenticate, ticketVars
  <2>2. principal[s] = None \/ UNCHANGED shown
    BY <1>3 DEF Authenticate
  <2> QED
    BY <2>1, <2>2
<1>4. ASSUME NEW s \in Socket, Consume(s) \/ ResolveKey(s)
      PROVE  SingleUse'
  BY <1>4 DEF Consume, ResolveKey, Resolve, ticketVars
<1>5. ASSUME NEW s \in Socket, Admit(s) \/ EndSocket(s)
      PROVE  SingleUse'
  BY <1>5 DEF Admit, EndSocket, Leave, ticketVars
<1> QED
  BY Steps, EnrolmentFrame, <1>1, <1>2, <1>3, <1>4, <1>5
     DEF CreateKey, RevokeKey, AskTicket, CloseSecurity, vars, ticketVars, socketVars

\* A step that adds no row and gives none to another credential keeps counts.
LEMMA FewerRows ==
  ASSUME IsFiniteSet(Rows), Rows' \subseteq Rows, \A x \in Rows : holder'[x] = holder[x]
  PROVE  /\ IsFiniteSet(Rows') /\ Cardinality(Rows') \in Nat /\ Cardinality(Rows') <= Cardinality(Rows)
         /\ \A c : /\ Cardinality(RowsOf(c)) \in Nat /\ Cardinality(RowsOf(c)') \in Nat
                   /\ Cardinality(RowsOf(c)') <= Cardinality(RowsOf(c))
<1>1. IsFiniteSet(Rows') /\ Cardinality(Rows') \in Nat /\ Cardinality(Rows') <= Cardinality(Rows)
  BY CountWithin
<1>2. ASSUME NEW c
      PROVE  /\ Cardinality(RowsOf(c)) \in Nat /\ Cardinality(RowsOf(c)') \in Nat
             /\ Cardinality(RowsOf(c)') <= Cardinality(RowsOf(c))
  <2>1. RowsOf(c) \subseteq Rows /\ RowsOf(c)' \subseteq RowsOf(c)
    BY DEF RowsOf
  <2>2. IsFiniteSet(RowsOf(c)) /\ Cardinality(RowsOf(c)) \in Nat
    BY <2>1, CountWithin
  <2> QED
    BY <2>1, <2>2, CountWithin
<1> QED
  BY <1>1, <1>2

\* What is counted as live is what is left when the expired rows are deleted.
LEMMA CountKeepsRoom ==
  ASSUME AInv, NEW x \in Ticket, CountTickets(x), issue'[x] = "counted"
  PROVE  /\ Rows' \subseteq Rows /\ UNCHANGED holder
         /\ Cardinality(Rows') < MaxTickets
         /\ Cardinality(RowsOf(holder[x])') < MaxTicketsPerCredential
<1>1. HasRoom(x) /\ row' = [y \in Ticket |-> IF row[y] = "expired" THEN "none" ELSE row[y]]
  BY DEF CountTickets, ToIssue, AInv, TypeOK, AccessTypeOK
<1>2. UNCHANGED holder
  BY DEF CountTickets
<1>3. Rows' = {y \in Ticket : row[y] = "live"}
  BY <1>1 DEF Rows, AInv, TypeOK, AccessTypeOK
<1>4. RowsOf(holder[x])' = {y \in Rows' : holder[y] = holder[x]}
  BY <1>2 DEF RowsOf
<1> QED
  BY <1>1, <1>2, <1>3, <1>4 DEF HasRoom, Rows

\* The quotas hold, and the transaction that has counted has its place: no
\* other inserts before it, and the rest only deletes.
LEMMA QuotaStep ==
  ASSUME AInv, [Next]_vars
  PROVE  TicketQuotas' /\ Reserved'
<1> USE AccessAssumption
<1>1. /\ TicketQuotas /\ Reserved /\ AccessTypeOK /\ ShownWasIssued
      /\ IsFiniteSet(Rows) /\ Cardinality(Rows) \in Nat
      /\ MaxTickets \in Nat \ {0} /\ MaxTicketsPerCredential \in Nat \ {0}
  BY FS_CardinalityType DEF AInv, TypeOK, TicketQuotas
<1>2. ASSUME Rows' \subseteq Rows, \A y \in Rows : holder'[y] = holder[y],
             \A y \in Ticket : issue'[y] = "counted" => issue[y] = "counted" /\ holder'[y] = holder[y]
      PROVE  TicketQuotas' /\ Reserved'
  BY <1>1, <1>2, FewerRows DEF TicketQuotas, Reserved
<1>3. ASSUME NEW x \in Ticket, NEW c \in Credential, AskTicket(x, c)
      PROVE  TicketQuotas' /\ Reserved'
  <2>1. x \notin Rows /\ Rows' = Rows
    BY <1>1, <1>3 DEF AskTicket, ShownWasIssued, Rows
  <2> QED
    BY <1>1, <1>2, <1>3, <2>1 DEF AskTicket, ToIssue, AccessTypeOK, Rows
<1>4. ASSUME NEW x \in Ticket, CountTickets(x)
      PROVE  TicketQuotas' /\ Reserved'
  <2>1. CASE issue'[x] = "counted"
    <3>1. /\ Rows' \subseteq Rows /\ UNCHANGED holder
          /\ Cardinality(Rows') < MaxTickets
          /\ Cardinality(RowsOf(holder[x])') < MaxTicketsPerCredential
      BY <1>4, <2>1, CountKeepsRoom
    <3>2. TicketQuotas'
      BY <1>1, <3>1, FewerRows DEF TicketQuotas
    <3>3. \A y \in Ticket : issue'[y] = "counted" => y = x
      BY <1>1, <1>4 DEF CountTickets, ToIssue, AccessTypeOK
    <3> QED
      BY <3>1, <3>2, <3>3 DEF Reserved
  <2>2. CASE issue'[x] # "counted"
    BY <1>1, <1>2, <1>4, <2>2 DEF CountTickets, ToIssue, AccessTypeOK, Rows
  <2> QED
    BY <2>1, <2>2
<1>5. ASSUME NEW x \in Ticket, InsertTicket(x)
      PROVE  TicketQuotas' /\ Reserved'
  <2>1. /\ Rows' \subseteq Rows \cup {x} /\ UNCHANGED holder
        /\ \A y \in Ticket : issue'[y] # "counted"
    BY <1>1, <1>5 DEF InsertTicket, ToIssue, AccessTypeOK, Reserved, Rows
  <2>2. Cardinality(Rows) < MaxTickets /\ Cardinality(RowsOf(holder[x])) < MaxTicketsPerCredential
    BY <1>1, <1>5 DEF InsertTicket, Reserved
  <2>3. IsFiniteSet(Rows') /\ Cardinality(Rows') \in Nat /\ Cardinality(Rows') <= MaxTickets
    BY <1>1, <2>1, <2>2, CountWithOne
  <2>4. ASSUME NEW c \in Credential
        PROVE  Cardinality(RowsOf(c)') <= MaxTicketsPerCredential
    <3>1. /\ IsFiniteSet(RowsOf(c)) /\ Cardinality(RowsOf(c)) \in Nat
          /\ Cardinality(RowsOf(c)) <= MaxTicketsPerCredential
      BY <1>1, CountWithin DEF TicketQuotas, RowsOf
    <3>2. CASE c = holder[x]
      <4>1. RowsOf(c)' \subseteq RowsOf(c) \cup {x}
        BY <2>1 DEF RowsOf
      <4> QED
        BY <1>1, <2>2, <3>1, <3>2, <4>1, CountWithOne
    <3>3. CASE c # holder[x]
      <4>1. RowsOf(c)' \subseteq RowsOf(c)
        BY <2>1, <3>3 DEF RowsOf
      <4> QED
        BY <1>1, <3>1, <4>1, CountWithin
    <3> QED
      BY <3>2, <3>3
  <2> QED
    BY <2>1, <2>3, <2>4 DEF TicketQuotas, Reserved
<1>6. ASSUME NEW x \in Ticket, ExpireTicket(x)
      PROVE  TicketQuotas' /\ Reserved'
  BY <1>1, <1>2, <1>6 DEF ExpireTicket, AccessTypeOK, Rows
<1>7. ASSUME NEW s \in Socket, Consume(s)
      PROVE  TicketQuotas' /\ Reserved'
  BY <1>1, <1>2, <1>7 DEF Consume, AccessTypeOK, Rows
<1>8. CASE UNCHANGED ticketVars
  BY <1>2, <1>8 DEF ticketVars, Rows
<1> QED
  BY Steps, EnrolmentFrame, <1>3, <1>4, <1>5, <1>6, <1>7, <1>8
     DEF CreateKey, RevokeKey, Authenticate, ResolveKey, Admit, EndSocket, CloseSecurity, vars

-----------------------------------------------------------------------------
(* Sockets                                                                 *)

\* Sockets that stay open keep their principals, so fewer of them are fewer of
\* every tenant.
LEMMA FewerSockets ==
  ASSUME SocketLimits, MaxConnections \in Nat, MaxConnectionsPerTenant \in Nat,
         Active' \subseteq Active, \A s \in Active' : principal'[s] = principal[s]
  PROVE  SocketLimits'
<1>1. /\ IsFiniteSet(Active') /\ Cardinality(Active') \in Nat /\ Cardinality(Active') <= Cardinality(Active)
      /\ Cardinality(Active) \in Nat
  BY CountWithin DEF SocketLimits
<1>2. ASSUME NEW s \in Active'
      PROVE  Cardinality(Mine(s)') <= MaxConnectionsPerTenant
  <2>1. s \in Active /\ Mine(s)' \subseteq Mine(s) /\ Mine(s) \subseteq Active
    BY DEF Mine
  <2>2. IsFiniteSet(Mine(s)) /\ Cardinality(Mine(s)) \in Nat
    BY <2>1, CountWithin DEF SocketLimits
  <2> QED
    BY <2>1, <2>2, CountWithin DEF SocketLimits
<1> QED
  BY <1>1, <1>2 DEF SocketLimits

\* A socket is opened in the step that looked at the limits.
LEMMA SocketLimitsStep ==
  ASSUME AInv, [Next]_vars
  PROVE  SocketLimits'
<1>1. /\ SocketLimits /\ AccessTypeOK
      /\ MaxConnections \in Nat /\ MaxConnectionsPerTenant \in Nat
      /\ IsFiniteSet(Active) /\ Cardinality(Active) \in Nat
  BY AccessAssumption, FS_CardinalityType DEF AInv, TypeOK, SocketLimits
<1>2. CASE Active' \subseteq Active /\ \A s \in Active' : principal'[s] = principal[s]
  BY <1>1, <1>2, FewerSockets
<1>3. ASSUME NEW s \in Socket, Authenticate(s) \/ Consume(s) \/ ResolveKey(s) \/ EndSocket(s)
      PROVE  SocketLimits'
  <2>1. Active' \subseteq Active /\ \A t \in Active' : principal'[t] = principal[t]
    BY <1>1, <1>3 DEF Authenticate, Consume, ResolveKey, EndSocket, Resolve, Leave, ToSocket, Active,
                      AccessTypeOK
  <2> QED
    BY <1>2, <2>1
<1>4. ASSUME NEW s \in Socket, Admit(s)
      PROVE  SocketLimits'
  <2>1. CASE socket' = [socket EXCEPT ![s] = "open"] /\ UNCHANGED principal /\ Within(s)
    <3>1. Active' = Active \cup {s}
      BY <1>1, <2>1 DEF Active, AccessTypeOK
    <3>2. Cardinality(Active) < MaxConnections /\ Cardinality(Mine(s)) < MaxConnectionsPerTenant
      BY <2>1 DEF Within, Mine
    <3>3. IsFiniteSet(Active') /\ Cardinality(Active') <= MaxConnections
      <4>1. Active' \subseteq Active \cup {s}
        BY <3>1
      <4>2. IsFiniteSet(Active') /\ Cardinality(Active') \in Nat /\ Cardinality(Active') <= Cardinality(Active) + 1
        BY <1>1, <4>1, CountWithOne
      <4> QED
        BY <1>1, <3>2, <4>2
    <3>4. ASSUME NEW t \in Active'
          PROVE  Cardinality(Mine(t)') <= MaxConnectionsPerTenant
      <4>1. CASE TenantOf[principal[t]] = TenantOf[principal[s]]
        <5>1. Mine(t)' \subseteq Mine(s) \cup {s}
          BY <2>1, <3>1, <4>1 DEF Mine
        <5>2. IsFiniteSet(Mine(s)) /\ Cardinality(Mine(s)) \in Nat
          BY <1>1, CountWithin DEF Mine
        <5> QED
          BY <1>1, <3>2, <5>1, <5>2, CountWithOne
      <4>2. CASE TenantOf[principal[t]] # TenantOf[principal[s]]
        <5>1. Mine(t)' = Mine(t) /\ t \in Active
          BY <2>1, <3>1, <4>2 DEF Mine
        <5> QED
          BY <1>1, <5>1 DEF SocketLimits
      <4> QED
        BY <4>1, <4>2
    <3> QED
      BY <3>3, <3>4 DEF SocketLimits
  <2>2. CASE Leave(s)
    <3>1. Active' \subseteq Active /\ \A t \in Active' : principal'[t] = principal[t]
      BY <1>1, <2>2 DEF Leave, ToSocket, Active, AccessTypeOK
    <3> QED
      BY <1>2, <3>1
  <2> QED
    BY <1>4, <2>1, <2>2 DEF Admit, ToSocket
<1>5. CASE UNCHANGED <<socket, principal>>
  BY <1>2, <1>5 DEF Active
<1> QED
  BY Steps, EnrolmentFrame, <1>3, <1>4, <1>5
     DEF CreateKey, RevokeKey, AskTicket, CountTickets, InsertTicket, ExpireTicket, CloseSecurity,
         vars, socketVars

-----------------------------------------------------------------------------
(* Tokens, devices and files                                               *)

\* A token leaves the tenant's row for good: redeemed, or withdrawn.
LEMMA TokenOnceStep ==
  ASSUME AInv, [Next]_vars
  PROVE  TokenOnce'
<1> USE EnrolmentAssumption DEF AInv, TypeOK, EnrolmentTypeOK, TokenOnce
<1>1. CASE UNCHANGED enrolmentVars
  BY <1>1 DEF enrolmentVars, operatorVars, clientVars
<1>2. ASSUME NEW k \in Token, IssuePairing(k)
      PROVE  TokenOnce'
  BY <1>2 DEF IssuePairing, Pending, clientVars
<1>3. CASE ExpirePairing
  BY <1>3 DEF ExpirePairing, Pending, clientVars
<1>4. CASE RevokeDevice
  <2>1. \A r \in Request : device'[r] # "none" <=> device[r] # "none"
    BY <1>4 DEF RevokeDevice, RevokeCurrent, Current
  <2> QED
    BY <1>4, <2>1 DEF RevokeDevice, Pending, clientVars
<1>5. ASSUME NEW r \in Request, NEW p \in PC, NEW k \in Token, StartPairing(r, p, k)
      PROVE  TokenOnce'
  BY <1>5 DEF StartPairing, operatorVars
<1>6. ASSUME NEW r \in Request, FindPairing(r)
      PROVE  TokenOnce'
  BY <1>6 DEF FindPairing, Respond, operatorVars, clientVars
<1>7. ASSUME NEW r \in Request, Redeem(r)
      PROVE  TokenOnce'
  <2>1. \A q \in Request : server'[q] # "none" <=> server[q] # "none"
    BY <1>7 DEF Redeem, Respond
  <2>2. CASE pairing = entered[r] /\ RevokeCurrent({r}) /\ pairing' = None
    <3>1. \A q \in Request \ {r} : device'[q] # "none" <=> device[q] # "none"
      BY <2>2 DEF RevokeCurrent, Current
    <3>2. entered[r] \in issued \ withdrawn /\ entered[r] # None
      BY <1>7, <2>2 DEF Redeem
    <3>3. \A q \in Request \ {r} : device[q] # "none" => entered[q] # entered[r]
      BY <2>2
    <3> QED
      BY <1>7, <2>1, <2>2, <3>1, <3>2, <3>3 DEF Redeem, clientVars
  <2>3. CASE UNCHANGED <<pairing, device>>
    BY <1>7, <2>1, <2>3 DEF Redeem, clientVars
  <2> QED
    BY <1>7, <2>2, <2>3 DEF Redeem
<1>8. ASSUME NEW r \in Request, Save(r) \/ GiveUp(r)
      PROVE  TokenOnce'
  BY <1>8 DEF Save, GiveUp, LeavePairing, operatorVars
<1> QED
  BY Steps, <1>1, <1>2, <1>3, <1>4, <1>5, <1>6, <1>7, <1>8 DEF EnrolmentStep, vars

\* The device before is revoked, with its key, by the transaction that makes
\* the next one current.
LEMMA OneCurrentStep ==
  ASSUME AInv, [Next]_vars
  PROVE  OneCurrent'
<1> USE EnrolmentAssumption DEF AInv, TypeOK, AccessTypeOK, EnrolmentTypeOK, OneCurrent, Current
<1>1. CASE UNCHANGED <<device, key>>
  BY <1>1
<1>2. ASSUME NEW c \in Credential, (CreateKey(c) /\ c \notin Request) \/ RevokeKey(c), UNCHANGED enrolmentVars
      PROVE  OneCurrent'
  BY <1>2 DEF CreateKey, RevokeKey, enrolmentVars
<1>3. CASE RevokeCurrent({})
  BY <1>3 DEF RevokeCurrent
<1>4. ASSUME NEW r \in Request, RevokeCurrent({r})
      PROVE  OneCurrent'
  BY <1>4 DEF RevokeCurrent
<1>5. CASE EnrolmentStep
  BY <1>1, <1>3, <1>4, <1>5
     DEF EnrolmentStep, IssuePairing, ExpirePairing, RevokeDevice, StartPairing, FindPairing, Redeem,
         Save, GiveUp
<1> QED
  BY Steps, <1>1, <1>2, <1>5
     DEF AskTicket, CountTickets, InsertTicket, ExpireTicket, Authenticate, Consume, ResolveKey, Admit,
         EndSocket, CloseSecurity, vars, enrolmentVars

\* A program saves its enrolment once, on its own PC.
LEMMA SavedOnceStep ==
  ASSUME AInv, [Next]_vars
  PROVE  SavedOnce'
<1> USE EnrolmentAssumption, AccessAssumption DEF AInv, TypeOK, EnrolmentTypeOK, SavedOnce
<1>1. CASE UNCHANGED <<file, client>>
  BY <1>1
<1>2. ASSUME NEW r \in Request, NEW p \in PC, NEW k \in Token, StartPairing(r, p, k)
      PROVE  SavedOnce'
  BY <1>2 DEF StartPairing
<1>3. ASSUME NEW r \in Request, Save(r)
      PROVE  SavedOnce'
  <2>1. \A p \in PC : file[p] # r
    BY <1>3 DEF Save
  <2>2. \/ file' = file
        \/ \E p : file' = [file EXCEPT ![p] = r]
    BY <1>3 DEF Save
  <2>3. client' = [client EXCEPT ![r] = "over"]
    BY <1>3 DEF Save, LeavePairing
  <2> QED
    BY <2>1, <2>2, <2>3
<1>4. ASSUME NEW r \in Request, GiveUp(r)
      PROVE  SavedOnce'
  BY <1>4 DEF GiveUp, LeavePairing
<1> QED
  BY Steps, <1>1, <1>2, <1>3, <1>4
     DEF EnrolmentStep, IssuePairing, ExpirePairing, RevokeDevice, FindPairing, Redeem,
         vars, enrolmentVars, clientVars

\* The invariant is inductive.
LEMMA StepAInv ==
  ASSUME AInv, [Next]_vars
  PROVE  AInv'
<1>1. TypeOK'
  BY AccessTypeStep, EnrolmentTypeStep DEF TypeOK
<1>2. InflightCounts' /\ RedeemingCounts'
  BY InflightStep, RedeemingStep DEF AInv, TypeOK
<1> QED
  BY <1>1, <1>2, ShownWasIssuedStep, SingleUseStep, QuotaStep, SocketLimitsStep,
     TokenOnceStep, OneCurrentStep, SavedOnceStep DEF AInv

\* It holds in every reachable state.
THEOREM Invariance == Spec => []AInv
<1>1. AInv /\ [Next]_vars => AInv'
  BY StepAInv
<1> QED
  BY InitAInv, <1>1, PTL DEF Spec

-----------------------------------------------------------------------------
(* What the run checks.                                                    *)

\* The state has its type; authentications and redemptions in flight are
\* within their limits (authenticate, admit).
THEOREM Types == Spec => []TypeOK
<1>1. AInv => TypeOK
  BY DEF AInv
<1> QED
  BY <1>1, Invariance, PTL

\* One ticket opens one socket; tickets and sockets keep to their quotas, and
\* the number in flight to the handlers, although limits are looked at in one
\* statement or after an await and used in another (PostgresTicketStore.issue
\* and consume, WebSocketSecurity.session).
THEOREM BoundedAccess == Spec => []AccessBounded
<1>1. ASSUME AInv
      PROVE  AccessBounded
  <2>1. \A c : {x \in Rows : holder[x] = c} = RowsOf(c)
    BY DEF RowsOf
  <2>2. \A c \in Credential : Cardinality({x \in Rows : holder[x] = c}) <= MaxTicketsPerCredential
    BY <1>1, <2>1 DEF AInv, TicketQuotas
  <2>3. \A s \in Active :
          Cardinality({t \in Active : TenantOf[principal[t]] = TenantOf[principal[s]]})
            <= MaxConnectionsPerTenant
    BY <1>1 DEF AInv, SocketLimits, Mine
  <2>4. inflight = Cardinality({s \in Socket : socket[s] \in Authenticating})
    BY <1>1 DEF AInv, InflightCounts, Handlers
  <2> QED
    BY <1>1, <2>2, <2>3, <2>4 DEF AInv, AccessBounded, SingleUse, TicketQuotas, SocketLimits
<1> QED
  BY <1>1, Invariance, PTL

\* A tenant has one device, a token makes one, and one PC at most can use it
\* (redeem, issue_pairing, revoke, pair.py).
THEOREM SingleDevice == Spec => []OneDevice
<1>1. ASSUME AInv
      PROVE  OneDevice
  <2> USE <1>1 DEF AInv
  <2>1. Cardinality(Current) <= 1
    BY CountOne DEF OneCurrent
  <2>2. \A p, q \in {p \in PC : file[p] # None /\ key[file[p]] = "active"} : p = q
    BY DEF TypeOK, EnrolmentTypeOK, OneCurrent, SavedOnce
  <2>3. Cardinality({p \in PC : file[p] # None /\ key[file[p]] = "active"}) <= 1
    BY <2>2, CountOne
  <2> QED
    BY <2>1, <2>3 DEF OneDevice, TokenOnce, OneCurrent
<1> QED
  BY <1>1, Invariance, PTL
=============================================================================
