----------------------------- MODULE AccessMC ------------------------------
(***************************************************************************)
(* Instances of Access.                                                    *)
(***************************************************************************)
EXTENDS Access, TLC

CONSTANTS OtherKey, Tenant, OtherTenant

\* Enrolled devices and the tenant's keys, and one key of another tenant.
Tenants == [c \in Credential |-> IF c = OtherKey THEN OtherTenant ELSE Tenant]

\* Two redemptions race each other and the operator, or there is one enrolment
\* next to whatever sockets and tickets do.
Focus ==
  \/ Cardinality({r \in Request : client[r] # "none"}) <= 1 /\ Cardinality(issued) <= 1
  \/ (\A x \in Ticket : issue[x] = "none") /\ (\A s \in Socket : socket[s] = "away")

Symmetry ==
  Permutations(Socket) \cup Permutations(Ticket) \cup Permutations(Request)
    \cup Permutations(Token) \cup Permutations(PC)
=============================================================================
