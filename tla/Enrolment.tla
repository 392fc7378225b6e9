----------------------------- MODULE Enrolment ------------------------------
(***************************************************************************)
(* Pairing a companion with a tenant: the operator's commands and the      *)
(* redemption of a token (services/auth/devices.py, routes/devices.py,     *)
(* services/auth/admission.py), and the pairing program on a PC            *)
(* (local_agent/pair.py, device_credentials.py).                           *)
(*                                                                         *)
(* The credential and the device a request creates are named after it.     *)
(* Every transaction here locks the tenant's row first, so it is one       *)
(* action; only what redeem read to find the tenant is older.  An expired  *)
(* pairing row is as good as none: it is deleted before it is counted and  *)
(* never redeemed.                                                         *)
(***************************************************************************)
EXTENDS SocketAccess

CONSTANTS
  Request,  \* redemption requests, \subseteq Credential
  Token,    \* pairing tokens
  PC,
  MaxRedeeming  \* max_auth_inflight, of the pairing admission

ASSUME EnrolmentAssumption ==
  /\ Request \subseteq Credential
  /\ None \notin Token
  /\ MaxRedeeming \in Nat \ {0}

VARIABLES
  pairing,    \* the tenant's row of companion_pairings: its token, or None
  issued,     \* tokens issued so far
  withdrawn,  \* tokens replaced or revoked before they were redeemed
  device,     \* each request's row in companion_devices
  entered,    \* the token each request carries
  pc,         \* the PC that sent it, with its --replace
  server,     \* where its handler is
  client,     \* where the pairing program is
  redeeming,  \* inflight
  file        \* the enrolment in each PC's credential file, or None

operatorVars == <<pairing, issued, withdrawn>>
clientVars   == <<entered, pc, client, file>>
enrolmentVars == <<operatorVars, device, server, redeeming, clientVars>>

EnrolmentTypeOK ==
  /\ pairing \in Token \cup {None}
  /\ issued \subseteq Token /\ withdrawn \subseteq issued
  /\ device \in [Request -> {"none", "active", "revoked"}]
  /\ entered \in [Request -> Token \cup {None}]
  /\ pc \in [Request -> [on : PC, replace : BOOLEAN] \cup {None}]
  /\ server \in [Request -> {"none", "sent", "found", "answered", "refused"}]
  /\ client \in [Request -> {"none", "waiting", "over"}]
  /\ redeeming \in 0..MaxRedeeming
  /\ file \in [PC -> Request \cup {None}]

EnrolmentInit ==
  /\ pairing = None /\ issued = {} /\ withdrawn = {}
  /\ device = [r \in Request |-> "none"]
  /\ entered = [r \in Request |-> None]
  /\ pc = [r \in Request |-> None]
  /\ server = [r \in Request |-> "none"]
  /\ client = [r \in Request |-> "none"]
  /\ redeeming = 0
  /\ file = [p \in PC |-> None]

----------------------------------------------------------------------------
(* The operator                                                            *)

Pending == {pairing} \ {None}

\* issue_pairing: the tenant's one row is replaced.  Refusals change nothing.
IssuePairing(k) ==
  /\ k \notin issued
  /\ issued' = issued \cup {k}
  /\ withdrawn' = withdrawn \cup Pending
  /\ pairing' = k
  /\ UNCHANGED <<key, ticketVars, socketVars, device, server, redeeming, clientVars>>

ExpirePairing ==
  /\ pairing # None
  /\ pairing' = None
  /\ withdrawn' = withdrawn \cup Pending
  /\ UNCHANGED <<key, ticketVars, socketVars, issued, device, server, redeeming, clientVars>>

Current == {r \in Request : device[r] = "active"}

\* _revoke, which waits for the key's row.
RevokeCurrent(keep) ==
  /\ \A r \in Current : Updatable(r)
  /\ device' = [r \in Request |->
                  IF r \in keep THEN "active" ELSE IF r \in Current THEN "revoked" ELSE device[r]]
  /\ key' = [c \in Credential |->
               IF c \in keep THEN "active"
               ELSE IF c \in Current /\ key[c] = "active" THEN "revoked" ELSE key[c]]

RevokeDevice ==
  /\ Current \cup Pending # {}
  /\ RevokeCurrent({})
  /\ pairing' = None
  /\ withdrawn' = withdrawn \cup Pending
  /\ UNCHANGED <<ticketVars, socketVars, issued, server, redeeming, clientVars>>

----------------------------------------------------------------------------
(* A PC and its request                                                    *)

\* admit refuses, for the host's attempts or the number in flight.
Admitted == redeeming < MaxRedeeming

\* main and redeem of pair.py: an existing file stops it unless --replace.
StartPairing(r, p, k) ==
  /\ client[r] = "none" /\ k \in issued
  /\ \/ /\ client' = [client EXCEPT ![r] = "over"]
        /\ UNCHANGED <<server, redeeming, entered, pc>>
     \/ /\ Admitted
        /\ \E replace \in BOOLEAN :
             /\ file[p] = None \/ replace
             /\ pc' = [pc EXCEPT ![r] = [on |-> p, replace |-> replace]]
        /\ entered' = [entered EXCEPT ![r] = k]
        /\ client' = [client EXCEPT ![r] = "waiting"]
        /\ server' = [server EXCEPT ![r] = "sent"]
        /\ redeeming' = redeeming + 1
  /\ UNCHANGED <<key, ticketVars, socketVars, operatorVars, device, file>>

\* redeem_device answers; admit gives the place back.
Respond(r, how) ==
  /\ server' = [server EXCEPT ![r] = how]
  /\ redeeming' = redeeming - 1

\* redeem, its first statement; the body of the request or the database can fail.
FindPairing(r) ==
  /\ server[r] = "sent"
  /\ \/ /\ pairing = entered[r]
        /\ server' = [server EXCEPT ![r] = "found"]
        /\ UNCHANGED redeeming
     \/ Respond(r, "refused")
  /\ UNCHANGED <<key, ticketVars, socketVars, operatorVars, device, clientVars>>

\* The rest, under the tenant's lock: the token is taken, or is not there any
\* more; then the device before it is revoked and the new one inserted.  The
\* answer to a commit may be lost.
\* (Mutant first: what the first statement found is trusted.)
RedeemFound(r) ==
  /\ server[r] = "found"
  /\ RevokeCurrent({r})
  /\ pairing' = None
  /\ Respond(r, "answered")
  /\ UNCHANGED <<ticketVars, socketVars, issued, withdrawn, clientVars>>

Redeem(r) ==
  /\ server[r] = "found"
  /\ \/ /\ pairing = entered[r]
        /\ RevokeCurrent({r})
        /\ pairing' = None
        /\ \E how \in {"answered", "refused"} : Respond(r, how)
     \/ /\ Respond(r, "refused")
        /\ UNCHANGED <<key, pairing, device>>
  /\ UNCHANGED <<ticketVars, socketVars, issued, withdrawn, clientVars>>

LeavePairing(r) ==
  /\ client' = [client EXCEPT ![r] = "over"]
  /\ pc' = [pc EXCEPT ![r] = None]

\* save_credentials, or its failure: the enrolment is lost.  Without --replace
\* the file must still be missing.
Save(r) ==
  /\ client[r] = "waiting" /\ server[r] = "answered"
  /\ LeavePairing(r)
  /\ LET p == pc[r].on
     IN  \/ (pc[r].replace \/ file[p] = None) /\ file' = [file EXCEPT ![p] = r]
         \/ UNCHANGED file
  /\ UNCHANGED <<key, ticketVars, socketVars, operatorVars, device, server, redeeming, entered>>

\* A refusal, or no answer in time: "request a new token".
GiveUp(r) ==
  /\ client[r] = "waiting" /\ server[r] # "answered"
  /\ LeavePairing(r)
  /\ UNCHANGED <<key, ticketVars, socketVars, operatorVars, device, server, redeeming, entered, file>>

EnrolmentStep ==
  \/ \E k \in Token : IssuePairing(k)
  \/ ExpirePairing \/ RevokeDevice
  \/ \E r \in Request, p \in PC, k \in Token : StartPairing(r, p, k)
  \/ \E r \in Request : FindPairing(r) \/ Redeem(r) \/ Save(r) \/ GiveUp(r)
=============================================================================
