----------------------- MODULE CompanionBridgeProofs -----------------------
(***************************************************************************)
(* Theorems about CompanionBridge, for any sessions, commands, devices and *)
(* limit.  The argument rests on Bookkeeping: an unresolved future is a    *)
(* pending entry of a command in progress, so failing what is pending on a *)
(* connection resolves everything that waits on it.                        *)
(***************************************************************************)
EXTENDS CompanionBridge, FiniteSetTheorems, TLAPS

\* What the code's own variables say of each other between two awaits.
Bookkeeping ==
  /\ \A c \in Command :
       /\ future[c] = "pending" => c \in pending
       /\ command[c] = "new" => future[c] = "none"
       /\ c \in pending => command[c] \in InProgress
       /\ c \in sent => command[c] \in {"sending", "waiting", "ended"}
  /\ \A s \in Session :
       session[s] \in {"verifying", "confirmed", "denied"} => handling[s] \in Command

\* The limit, with the finiteness its proof needs.
Bounded ==
  \A s \in Session : IsFiniteSet(PendingOn(s)) /\ Cardinality(PendingOn(s)) <= MaxPending

BInv ==
  /\ TypeOK
  /\ Bookkeeping
  /\ NobodyWaitsOnOldConnection
  /\ ConnectionIsOwned
  /\ Bounded

\* A step is one of the bridge's actions.
LEMMA Steps ==
  ASSUME [Next]_vars
  PROVE  \/ \E d \in Device : Redeem(d)
         \/ Revoke
         \/ \E s \in Session : \/ Register(s) \/ CheckSession(s) \/ CheckResult(s) \/ Bind(s)
         \/ \E s \in Session : Install(s)
         \/ \E s \in Session : CloseReplaced(s)
         \/ \E s \in Session : Resolve(s)
         \/ \E s \in Session : Leave(s)
         \/ \E s \in Session, c \in Command : ReceiveResult(s, c)
         \/ \E c \in Command : Acquire(c) \/ CheckCommand(c) \/ Deliver(c)
         \/ \E c \in Command : command[c] = "sending" /\ Go(c, "waiting") /\
              UNCHANGED <<device, closing, current, pending, future, sessionVars, conn, sent>>
         \/ \E c \in Command : Begin(c)
         \/ \E c \in Command : command[c] \in InProgress /\ End(c)
         \/ Close
         \/ UNCHANGED vars
BY DEF Next, SessionStep, CommandStep, DeliveryRefused, SendReturns, Answered, Expire, InProgress

\* The initial state has no connection, no command and no future.
LEMMA InitBInv == Init => BInv
<1> SUFFICES ASSUME Init PROVE BInv
  OBVIOUS
<1> USE BridgeAssumption
<1>1. TypeOK
  BY DEF Init, TypeOK
<1>2. \A s \in Session : PendingOn(s) = {}
  BY DEF Init, PendingOn
<1>3. Bounded
  BY <1>2, FS_EmptySet DEF Bounded
<1> QED
  BY <1>1, <1>3 DEF Init, BInv, Bookkeeping, NobodyWaitsOnOldConnection, ConnectionIsOwned

-----------------------------------------------------------------------------
(* The invariant is inductive.                                             *)

\* Every handler keeps the types.
LEMMA TypeStep ==
  ASSUME BInv, [Next]_vars
  PROVE  TypeOK'
<1> USE BridgeAssumption DEF BInv, TypeOK, InProgress
<1>1. ASSUME NEW d \in Device, Redeem(d) PROVE TypeOK'
  BY <1>1 DEF Redeem, sessionVars, commandVars
<1>2. CASE Revoke
  BY <1>2 DEF Revoke, sessionVars, commandVars
<1>3. ASSUME NEW s \in Session, Register(s) \/ CheckSession(s) \/ CheckResult(s) \/ Bind(s)
      PROVE  TypeOK'
  BY <1>3 DEF Register, CheckSession, CheckResult, Check, Bind, Enter, commandVars
<1>4. ASSUME NEW s \in Session, Install(s) PROVE TypeOK'
  BY <1>4 DEF Install, Enter, FailPending, commandVars
<1>5. ASSUME NEW s \in Session, CloseReplaced(s) PROVE TypeOK'
  BY <1>5 DEF CloseReplaced, Enter, commandVars, Bookkeeping
<1>6. ASSUME NEW s \in Session, Resolve(s) PROVE TypeOK'
  BY <1>6 DEF Resolve, Enter, commandVars, Bookkeeping
<1>7. ASSUME NEW s \in Session, Leave(s) PROVE TypeOK'
  BY <1>7 DEF Leave, Unregister, FailPending, Enter, commandVars
<1>8. ASSUME NEW s \in Session, NEW c \in Command, ReceiveResult(s, c) PROVE TypeOK'
  BY <1>8 DEF ReceiveResult, Enter, commandVars
<1>9. ASSUME NEW c \in Command, Acquire(c) \/ CheckCommand(c) \/ Deliver(c) PROVE TypeOK'
  BY <1>9 DEF Acquire, CheckCommand, Check, Deliver, Go, sessionVars
<1>10. ASSUME NEW c \in Command, command[c] = "sending", Go(c, "waiting"),
              UNCHANGED <<device, closing, current, pending, future, sessionVars, conn, sent>>
       PROVE  TypeOK'
  BY <1>10 DEF Go, sessionVars
<1>11. ASSUME NEW c \in Command, Begin(c) PROVE TypeOK'
  BY <1>11 DEF Begin, Go, sessionVars
<1>12. ASSUME NEW c \in Command, command[c] \in InProgress, End(c) PROVE TypeOK'
  BY <1>12 DEF End, Go, sessionVars
<1>13. CASE Close
  BY <1>13 DEF Close, FailPending, sessionVars, commandVars
<1>14. CASE UNCHANGED vars
  BY <1>14 DEF vars, sessionVars, commandVars
<1> QED
  BY Steps, <1>1, <1>2, <1>3, <1>4, <1>5, <1>6, <1>7, <1>8, <1>9, <1>10, <1>11, <1>12, <1>13, <1>14

\* A connection that goes away takes every unresolved future with it, because
\* each is pending on the tenant's connection.
LEMMA FailingResolvesAll ==
  ASSUME BInv, FailPending(current)
  PROVE  \A c \in Command : future'[c] # "pending"
BY DEF BInv, TypeOK, Bookkeeping, NobodyWaitsOnOldConnection, FailPending, PendingOn

\* A session that ends leaves the connection alone or takes its futures along.
LEMMA LeaveCases ==
  ASSUME NEW s \in Session, Leave(s)
  PROVE  \/ current = s /\ current' = None /\ FailPending(current)
         \/ current # s /\ UNCHANGED <<current, future>>
BY DEF Leave, Unregister

\* Futures, slots and steps keep telling the same story.
LEMMA BookkeepingStep ==
  ASSUME BInv, [Next]_vars
  PROVE  Bookkeeping'
<1> USE BridgeAssumption DEF BInv, TypeOK, Bookkeeping, InProgress
<1>1. ASSUME NEW d \in Device, Redeem(d) PROVE Bookkeeping'
  BY <1>1 DEF Redeem, sessionVars, commandVars
<1>2. CASE Revoke
  BY <1>2 DEF Revoke, sessionVars, commandVars
<1>3. ASSUME NEW s \in Session, Register(s) \/ CheckSession(s) \/ CheckResult(s) \/ Bind(s)
      PROVE  Bookkeeping'
  BY <1>3 DEF Register, CheckSession, CheckResult, Check, Bind, Enter, commandVars
<1>4. ASSUME NEW s \in Session, Install(s) PROVE Bookkeeping'
  BY <1>4 DEF Install, Enter, FailPending, PendingOn, commandVars
<1>5. ASSUME NEW s \in Session, CloseReplaced(s) PROVE Bookkeeping'
  BY <1>5 DEF CloseReplaced, Enter, commandVars
<1>6. ASSUME NEW s \in Session, Resolve(s) PROVE Bookkeeping'
  BY <1>6 DEF Resolve, Enter, commandVars
<1>7. ASSUME NEW s \in Session, Leave(s) PROVE Bookkeeping'
  BY <1>7 DEF Leave, Unregister, FailPending, PendingOn, Enter, commandVars
<1>8. ASSUME NEW s \in Session, NEW c \in Command, ReceiveResult(s, c) PROVE Bookkeeping'
  BY <1>8 DEF ReceiveResult, Enter, commandVars
<1>9. ASSUME NEW c \in Command, Acquire(c) \/ CheckCommand(c) \/ Deliver(c) PROVE Bookkeeping'
  BY <1>9 DEF Acquire, CheckCommand, Check, Deliver, Go, sessionVars
<1>10. ASSUME NEW c \in Command, command[c] = "sending", Go(c, "waiting"),
              UNCHANGED <<device, closing, current, pending, future, sessionVars, conn, sent>>
       PROVE  Bookkeeping'
  BY <1>10 DEF Go, sessionVars
<1>11. ASSUME NEW c \in Command, Begin(c) PROVE Bookkeeping'
  BY <1>11 DEF Begin, Go, sessionVars
<1>12. ASSUME NEW c \in Command, command[c] \in InProgress, End(c) PROVE Bookkeeping'
  BY <1>12 DEF End, Go, sessionVars
<1>13. CASE Close
  BY <1>13 DEF Close, FailPending, PendingOn, sessionVars, commandVars
<1>14. CASE UNCHANGED vars
  BY <1>14 DEF vars, sessionVars, commandVars
<1> QED
  BY Steps, <1>1, <1>2, <1>3, <1>4, <1>5, <1>6, <1>7, <1>8, <1>9, <1>10, <1>11, <1>12, <1>13, <1>14

\* Whoever waits goes on waiting on the tenant's connection.
LEMMA WaitingStep ==
  ASSUME BInv, [Next]_vars
  PROVE  NobodyWaitsOnOldConnection'
<1> USE BridgeAssumption DEF BInv, TypeOK, NobodyWaitsOnOldConnection
<1>1. ASSUME NEW s \in Session, Install(s) PROVE NobodyWaitsOnOldConnection'
  BY <1>1, FailingResolvesAll DEF Install, commandVars
<1>2. ASSUME NEW s \in Session, Leave(s) PROVE NobodyWaitsOnOldConnection'
  BY <1>2, LeaveCases, FailingResolvesAll DEF Leave, commandVars
<1>3. CASE Close
  BY <1>3, FailingResolvesAll DEF Close
<1>4. ASSUME NEW s \in Session, Resolve(s) PROVE NobodyWaitsOnOldConnection'
  BY <1>4 DEF Resolve, Bookkeeping, commandVars
<1>5. ASSUME NEW c \in Command, Begin(c) PROVE NobodyWaitsOnOldConnection'
  BY <1>5 DEF Begin, sessionVars
<1>6. ASSUME NEW c \in Command, End(c) PROVE NobodyWaitsOnOldConnection'
  BY <1>6 DEF End, sessionVars
<1>7. ASSUME UNCHANGED <<current, future, conn>> PROVE NobodyWaitsOnOldConnection'
  BY <1>7
<1> QED
  BY Steps, <1>1, <1>2, <1>3, <1>4, <1>5, <1>6, <1>7
  DEF Redeem, Revoke, Register, CheckSession, CheckResult, Check, Bind, CloseReplaced, ReceiveResult,
      Acquire, CheckCommand, Check, Deliver, sessionVars, commandVars, vars

\* The connection stays with a session that is there to remove it.
LEMMA OwnedStep ==
  ASSUME BInv, [Next]_vars
  PROVE  ConnectionIsOwned'
<1> USE BridgeAssumption DEF BInv, TypeOK, ConnectionIsOwned
<1>1. ASSUME NEW s \in Session, Register(s) \/ CheckSession(s) \/ CheckResult(s) \/ Bind(s)
      PROVE  ConnectionIsOwned'
  BY <1>1 DEF Register, CheckSession, CheckResult, Check, Bind, Enter
<1>2. ASSUME NEW s \in Session, Install(s) PROVE ConnectionIsOwned'
  BY <1>2 DEF Install, Enter
<1>3. ASSUME NEW s \in Session, CloseReplaced(s) PROVE ConnectionIsOwned'
  BY <1>3 DEF CloseReplaced, Enter
<1>4. ASSUME NEW s \in Session, Resolve(s) PROVE ConnectionIsOwned'
  BY <1>4 DEF Resolve, Enter
<1>5. ASSUME NEW s \in Session, Leave(s) PROVE ConnectionIsOwned'
  BY <1>5 DEF Leave, Unregister, Enter
<1>6. ASSUME NEW s \in Session, NEW c \in Command, ReceiveResult(s, c) PROVE ConnectionIsOwned'
  BY <1>6 DEF ReceiveResult, Enter
<1>7. CASE Close
  BY <1>7 DEF Close
<1>8. ASSUME UNCHANGED <<closing, current, session>> PROVE ConnectionIsOwned'
  BY <1>8
<1> QED
  BY Steps, <1>1, <1>2, <1>3, <1>4, <1>5, <1>6, <1>7, <1>8
  DEF Redeem, Revoke, Begin, End, Acquire, CheckCommand, Check, Deliver, sessionVars, commandVars, vars

\* Only a command that begins takes a slot; whatever else a step does, no
\* connection has more pending entries after it than before.
LEMMA BoundedStep ==
  ASSUME BInv, [Next]_vars
  PROVE  Bounded'
<1> USE BridgeAssumption DEF BInv
<1>1. ASSUME \A s \in Session : PendingOn(s)' \subseteq PendingOn(s)
      PROVE  Bounded'
  <2> SUFFICES ASSUME NEW s \in Session
               PROVE  (IsFiniteSet(PendingOn(s)) /\ Cardinality(PendingOn(s)) <= MaxPending)'
    BY DEF Bounded
  <2>1. IsFiniteSet(PendingOn(s)) /\ Cardinality(PendingOn(s)) <= MaxPending
    BY DEF Bounded
  <2>2. /\ IsFiniteSet(PendingOn(s)')
        /\ Cardinality(PendingOn(s)') <= Cardinality(PendingOn(s))
    BY <1>1, <2>1, FS_Subset
  <2>3. Cardinality(PendingOn(s)) \in Nat /\ Cardinality(PendingOn(s)') \in Nat
    BY <2>1, <2>2, FS_CardinalityType
  <2> QED
    BY <2>1, <2>2, <2>3
<1>2. ASSUME NEW c \in Command, Begin(c) PROVE Bounded'
  <2> SUFFICES ASSUME NEW s \in Session
               PROVE  (IsFiniteSet(PendingOn(s)) /\ Cardinality(PendingOn(s)) <= MaxPending)'
    BY DEF Bounded
  <2>1. IsFiniteSet(PendingOn(s)) /\ Cardinality(PendingOn(s)) <= MaxPending
    BY DEF Bounded
  <2>2. c \notin pending
    BY <1>2 DEF Begin, Bookkeeping, InProgress
  <2>3. CASE s = current
    <3>1. PendingOn(s)' = PendingOn(s) \cup {c}
      BY <1>2, <2>2, <2>3 DEF Begin, PendingOn, TypeOK
    <3>2. c \notin PendingOn(s)
      BY <2>2 DEF PendingOn
    <3>3. /\ IsFiniteSet(PendingOn(s)')
          /\ Cardinality(PendingOn(s)') = Cardinality(PendingOn(s)) + 1
      BY <2>1, <3>1, <3>2, FS_AddElement
    <3>4. Cardinality(PendingOn(s)) < MaxPending /\ Cardinality(PendingOn(s)) \in Nat
      BY <1>2, <2>1, <2>3, FS_CardinalityType DEF Begin
    <3> QED
      BY <3>3, <3>4
  <2>4. CASE s # current
    <3>1. PendingOn(s)' = PendingOn(s)
      BY <1>2, <2>2, <2>4 DEF Begin, PendingOn, TypeOK
    <3> QED
      BY <2>1, <3>1
  <2> QED
    BY <2>3, <2>4
<1>3. ASSUME pending' \subseteq pending, conn' = conn PROVE Bounded'
  BY <1>1, <1>3 DEF PendingOn
<1>4. ASSUME NEW s \in Session, Resolve(s) PROVE pending' \subseteq pending /\ conn' = conn
  BY <1>4 DEF Resolve, commandVars
<1>5. ASSUME NEW c \in Command, End(c) PROVE pending' \subseteq pending /\ conn' = conn
  BY <1>5 DEF End
<1> QED
  BY Steps, <1>2, <1>3, <1>4, <1>5
  DEF Redeem, Revoke, Register, CheckSession, CheckResult, Check, Bind, Install, CloseReplaced, Leave,
      ReceiveResult, Acquire, CheckCommand, Check, Deliver, Close, commandVars, vars

\* All of it together.
LEMMA StepBInv == BInv /\ [Next]_vars => BInv'
<1> SUFFICES ASSUME BInv, [Next]_vars PROVE BInv'
  OBVIOUS
<1>1. BInv' <=> (TypeOK' /\ Bookkeeping' /\ NobodyWaitsOnOldConnection' /\ ConnectionIsOwned' /\ Bounded')
  BY DEF BInv
<1> QED
  BY <1>1, TypeStep, BookkeepingStep, WaitingStep, OwnedStep, BoundedStep

-----------------------------------------------------------------------------
(* Theorems.                                                               *)

\* In every reachable state of the bridge the invariant holds.
THEOREM BridgeInvariance == Spec => []BInv
<1> QED
  BY InitBInv, StepBInv, PTL DEF Spec

\* Every variable of the bridge keeps its type.
THEOREM BridgeTypesAreRight == Spec => []TypeOK
<1>1. BInv => TypeOK
  BY DEF BInv
<1> QED
  BY <1>1, BridgeInvariance, PTL

\* Replacement, disconnection and shutdown leave no send_command waiting on a
\* connection the tenant no longer has.
THEOREM NobodyIsLeftWaiting == Spec => []NobodyWaitsOnOldConnection
<1>1. BInv => NobodyWaitsOnOldConnection
  BY DEF BInv
<1> QED
  BY <1>1, BridgeInvariance, PTL

\* After shutdown no connection comes back, and a connection always has a
\* session whose end removes it.
THEOREM ConnectionsAreOwned == Spec => []ConnectionIsOwned
<1>1. BInv => ConnectionIsOwned
  BY DEF BInv
<1> QED
  BY <1>1, BridgeInvariance, PTL

\* Taken slots belong to commands in progress and never exceed the limit.
THEOREM SlotsComeBack == Spec => []SlotsAreGivenBack
<1>1. BInv => SlotsAreGivenBack
  BY DEF BInv, TypeOK, Bookkeeping, Bounded, SlotsAreGivenBack
<1> QED
  BY <1>1, BridgeInvariance, PTL

\* No step changes a future that has been resolved: late results, replacement,
\* shutdown and expiry leave it as it is.
THEOREM FuturesAreResolvedOnce == Spec => ResolvedOnce
<1> DEFINE Once == \A c \in Command :
                     future[c] \in {"result", "failed", "cancelled"} => future'[c] = future[c]
<1>1. BInv /\ [Next]_vars => [Once]_vars
  <2> SUFFICES ASSUME BInv, [Next]_vars PROVE Once
    OBVIOUS
  <2> USE DEF BInv, TypeOK
  <2>1. ASSUME NEW s \in Session, Install(s) PROVE Once
    BY <2>1 DEF Install, FailPending
  <2>2. ASSUME NEW s \in Session, Leave(s) PROVE Once
    BY <2>2 DEF Leave, Unregister, FailPending
  <2>3. CASE Close
    BY <2>3 DEF Close, FailPending
  <2>4. ASSUME NEW s \in Session, Resolve(s) PROVE Once
    BY <2>4 DEF Resolve, Bookkeeping
  <2>5. ASSUME NEW c \in Command, Begin(c) PROVE Once
    BY <2>5 DEF Begin, Bookkeeping
  <2>6. ASSUME NEW c \in Command, End(c) PROVE Once
    BY <2>6 DEF End
  <2>7. ASSUME UNCHANGED future PROVE Once
    BY <2>7
  <2> QED
    BY Steps, <2>1, <2>2, <2>3, <2>4, <2>5, <2>6, <2>7
    DEF Redeem, Revoke, Register, CheckSession, CheckResult, Check, Bind, CloseReplaced, ReceiveResult,
        Acquire, CheckCommand, Check, Deliver, vars
<1> QED
  BY <1>1, BridgeInvariance, PTL DEF Spec, ResolvedOnce

\* A stale session's end never removes the connection that replaced its own.
THEOREM OnlyOwnersDisconnect == Spec => OnlyOwnerDisconnects
<1> DEFINE Owner == current # None /\ current' # current =>
                      session'[current] = "gone" \/ current' # None \/ closing'
<1>1. BInv /\ [Next]_vars => [Owner]_vars
  <2> SUFFICES ASSUME BInv, [Next]_vars PROVE Owner
    OBVIOUS
  <2> USE BridgeAssumption DEF BInv, TypeOK
  <2>1. ASSUME NEW s \in Session, Install(s) PROVE Owner
    BY <2>1 DEF Install
  <2>2. ASSUME NEW s \in Session, Leave(s) PROVE Owner
    BY <2>2 DEF Leave, Unregister, Enter
  <2>3. CASE Close
    BY <2>3 DEF Close
  <2>4. ASSUME UNCHANGED current PROVE Owner
    BY <2>4
  <2> QED
    BY Steps, <2>1, <2>2, <2>3, <2>4
    DEF Redeem, Revoke, Register, CheckSession, CheckResult, Check, Bind, CloseReplaced, ReceiveResult,
        Resolve, Begin, End, Acquire, CheckCommand, Check, Deliver, vars
<1> QED
  BY <1>1, BridgeInvariance, PTL DEF Spec, OnlyOwnerDisconnects

\* A command that is queued when its connection's device is already revoked
\* never reaches the agent: whatever happens next, its own check comes later
\* than the revocation, which is final.
THEOREM RevokedDevicesAreNotCommanded == Spec => RevokedIsNotCommanded
<1> DEFINE Barred(c) == /\ device[DeviceOf[conn[c]]] = "revoked"
                        /\ command[c] \in {"queued", "checking", "refused", "ended"}
                        /\ c \notin sent
<1> SUFFICES ASSUME NEW c \in Command
             PROVE  Spec => []((command[c] = "queued" /\ device[DeviceOf[conn[c]]] = "revoked")
                               => [](c \notin sent))
  BY DEF RevokedIsNotCommanded
<1>1. BInv /\ command[c] = "queued" /\ device[DeviceOf[conn[c]]] = "revoked" => Barred(c)
  BY DEF BInv, Bookkeeping
<1>2. BInv /\ Barred(c) /\ [Next]_vars => Barred(c)'
  <2> SUFFICES ASSUME BInv, Barred(c), [Next]_vars PROVE Barred(c)'
    OBVIOUS
  <2> USE BridgeAssumption DEF BInv, TypeOK
  <2>1. conn[c] \in Session /\ DeviceOf[conn[c]] \in Device
    BY DEF Bookkeeping
  <2>2. ASSUME NEW d \in Device, Redeem(d) PROVE Barred(c)'
    BY <2>1, <2>2 DEF Redeem, commandVars
  <2>3. CASE Revoke
    BY <2>1, <2>3 DEF Revoke, commandVars
  <2>4. ASSUME NEW b \in Command, Acquire(b) \/ CheckCommand(b) \/ Deliver(b) PROVE Barred(c)'
    BY <2>1, <2>4 DEF Acquire, CheckCommand, Check, ActiveDevice, Deliver, Go
  <2>5. ASSUME NEW b \in Command, command[b] = "sending", Go(b, "waiting"),
               UNCHANGED <<device, closing, current, pending, future, sessionVars, conn, sent>>
        PROVE  Barred(c)'
    BY <2>5 DEF Go
  <2>6. ASSUME NEW b \in Command, Begin(b) PROVE Barred(c)'
    BY <2>6 DEF Begin, Go
  <2>7. ASSUME NEW b \in Command, End(b) PROVE Barred(c)'
    BY <2>7 DEF End, Go
  <2>8. ASSUME UNCHANGED <<device, command, conn, sent>> PROVE Barred(c)'
    BY <2>8
  <2> QED
    BY Steps, <2>2, <2>3, <2>4, <2>5, <2>6, <2>7, <2>8
    DEF Register, CheckSession, CheckResult, Check, Bind, Install, CloseReplaced, Resolve, Leave,
        ReceiveResult, Close, commandVars, vars
<1>3. Barred(c) => c \notin sent
  OBVIOUS
<1> HIDE DEF Barred
<1> QED
  BY <1>1, <1>2, <1>3, BridgeInvariance, PTL DEF Spec
=============================================================================
