-------------------------- MODULE IngestionProofs --------------------------
(***************************************************************************)
(* Theorems about Ingestion, for any documents, uploads, reconciliations   *)
(* and number of faults.  Every step of the system is at most one          *)
(* transaction of the ledger (StepIsTransaction), so what only the ledger  *)
(* decides is proved about its transactions; what the indexes show also    *)
(* needs to be known of the calls in flight (CallsSound) and of the rows   *)
(* a reconciliation has read (RowsSound).                                  *)
(***************************************************************************)
EXTENDS Ingestion, TLAPS

\* The transactions of the ledger.
Transaction ==
  \/ \E v \in Version : Register(v) \/ EnterStage(v) \/ Persist(v) \/ Activate(v)
  \/ \E v \in Version, s \in Verdict : Finish(v, s)
  \/ \E d \in Document : Tombstone(d)
  \/ RepairAttempts

-----------------------------------------------------------------------------
(* Every step is a transaction or leaves the ledger alone.                 *)

\* An activity, on time or late, commits at most one transaction.
LEMMA PerformIsTransaction ==
  ASSUME NEW v \in Version, NEW s, NEW owner, Perform(v, s, owner)
  PROVE  Transaction \/ UNCHANGED ledgerVars
BY DEF Perform, Transaction

\* So does every step of the system: workflows, calls, the flusher, the janitor.
LEMMA StepIsTransaction ==
  ASSUME [Next]_vars
  PROVE  Transaction \/ UNCHANGED ledgerVars
<1>1. CASE \E v \in Version : Advance(v)
  BY <1>1, PerformIsTransaction DEF Advance
<1>2. CASE \E v \in Version, s \in Activity : LateEffect(v, s)
  BY <1>2, PerformIsTransaction DEF LateEffect
<1>3. CASE \E v \in Version : \/ Upload(v) \/ Reject(v) \/ GiveUp(v) \/ TimeOut(v)
                             \/ Cancel(v) \/ JanitorDelete(v)
                             \/ \E s \in Activity : LateEnd(v, s)
  BY <1>3 DEF Upload, Reject, GiveUp, TimeOut, Cancel, JanitorDelete, LateEnd
<1>4. CASE \E c \in calls : CallStep(c) \/ CallFails(c)
  BY <1>4 DEF CallStep, CallFails
<1>5. CASE \E d \in Document : TombstoneDocument(d)
  BY <1>5 DEF TombstoneDocument, Transaction
<1>6. CASE \E r \in Reconciler : ReconcileRepair(r)
  BY <1>6 DEF ReconcileRepair, Transaction
<1>7. CASE \E r \in Reconciler : \/ ReconcileRead(r) \/ ReconcileBm25(r) \/ ReconcileFails(r)
                                \/ \E d \in Document : ReconcileDocument(r, d)
  BY <1>7 DEF ReconcileRead, ReconcileBm25, ReconcileFails, ReconcileDocument
<1>8. CASE FlushBm25 \/ JanitorSelect \/ UNCHANGED vars
  BY <1>8 DEF FlushBm25, JanitorSelect, vars
<1> QED
  BY <1>1, <1>2, <1>3, <1>4, <1>5, <1>6, <1>7, <1>8
  DEF Next, WorkflowStep, ReconcileStep

-----------------------------------------------------------------------------
(* Types.                                                                  *)

\* The transactions keep the types of the rows.
LEMMA TransactionType ==
  ASSUME LedgerTypeOK, Transaction
  PROVE  LedgerTypeOK'
<1> USE LedgerAssumption DEF LedgerTypeOK, DocumentRow, DocumentStatus, AttemptStatus, VersionStatus
<1>1. ASSUME NEW v \in Version, Register(v)
      PROVE  LedgerTypeOK'
  BY <1>1 DEF Register
<1>2. ASSUME NEW v \in Version, EnterStage(v)
      PROVE  LedgerTypeOK'
  BY <1>2 DEF EnterStage
<1>3. ASSUME NEW v \in Version, Persist(v)
      PROVE  LedgerTypeOK'
  BY <1>3 DEF Persist
<1>4. ASSUME NEW v \in Version, Activate(v)
      PROVE  LedgerTypeOK'
  BY <1>4 DEF Activate
<1>5. ASSUME NEW v \in Version, NEW s \in Verdict, Finish(v, s)
      PROVE  LedgerTypeOK'
  BY <1>5 DEF Finish, Verdict
<1>6. ASSUME NEW d \in Document, Tombstone(d)
      PROVE  LedgerTypeOK'
  BY <1>6 DEF Tombstone
<1>7. CASE RepairAttempts
  BY <1>7 DEF RepairAttempts
<1> QED
  BY <1>1, <1>2, <1>3, <1>4, <1>5, <1>6, <1>7 DEF Transaction

\* So does every step.
LEMMA LedgerTypeStep ==
  ASSUME LedgerTypeOK, [Next]_vars
  PROVE  LedgerTypeOK'
BY StepIsTransaction, TransactionType DEF LedgerTypeOK, ledgerVars

-----------------------------------------------------------------------------
(* The ledger's pointers.                                                  *)

\* Activation moves a pointer and retires the version it pointed at; failures
\* touch only staged versions; a tombstone clears pointer and version together.
LEMMA TransactionKeepsPointers ==
  ASSUME LedgerTypeOK, PointerCoherent, Transaction
  PROVE  PointerCoherent'
<1> USE LedgerAssumption DEF LedgerTypeOK, DocumentRow, PointerCoherent, PointsAt, Deleted
<1>1. ASSUME NEW v \in Version, Register(v)
      PROVE  PointerCoherent'
  BY <1>1 DEF Register
<1>2. ASSUME NEW v \in Version, EnterStage(v)
      PROVE  PointerCoherent'
  BY <1>2 DEF EnterStage, StatusOf, MayEnterStage
<1>3. ASSUME NEW v \in Version, Activate(v)
      PROVE  PointerCoherent'
  BY <1>3 DEF Activate
<1>4. ASSUME NEW v \in Version, NEW s \in Verdict, Finish(v, s)
      PROVE  PointerCoherent'
  <2>1. CASE UNCHANGED <<document, version>>
    BY <2>1
  <2>2. CASE ~ UNCHANGED <<document, version>>
    <3> DEFINE status == IF s = "failed" THEN "failed" ELSE "queued"
    <3>1. /\ version[v] = "staged"
          /\ version' = [version EXCEPT ![v] = "failed"]
          /\ document' = [document EXCEPT ![DocumentOf[v]].status = status]
      BY <1>4, <2>2 DEF Finish
    <3>2. \A d \in Document : document'[d].active = document[d].active
      BY <3>1
    <3>3. \A d \in Document : Deleted(d)' => Deleted(d)
      BY <3>1
    <3> QED
      BY <3>1, <3>2, <3>3
  <2> QED
    BY <2>1, <2>2
<1>5. ASSUME NEW d \in Document, Tombstone(d)
      PROVE  PointerCoherent'
  BY <1>5 DEF Tombstone
<1> QED
  BY <1>1, <1>2, <1>3, <1>4, <1>5 DEF Transaction, Persist, RepairAttempts

-----------------------------------------------------------------------------
(* Types of the indexes and of the workflows.                              *)

\* What a step may do to the indexes.
IndexStep ==
  \/ \E v \in Version : Upsert(v)
  \/ \E force \in BOOLEAN : RefreshBm25(force)
  \/ \E c \in calls : Request(c)

\* A step makes at most one request to Qdrant or one rebuild of BM25.
LEMMA StepIsIndexStep ==
  ASSUME [Next]_vars
  PROVE  IndexStep \/ UNCHANGED indexVars
<1>1. ASSUME NEW v \in Version, NEW s, NEW owner, Perform(v, s, owner)
      PROVE  IndexStep \/ UNCHANGED indexVars
  BY <1>1 DEF Perform, IndexStep
<1>2. CASE \E v \in Version : Advance(v) \/ \E s \in Activity : LateEffect(v, s)
  BY <1>1, <1>2 DEF Advance, LateEffect
<1>3. CASE \E v \in Version : \/ Upload(v) \/ Reject(v) \/ GiveUp(v) \/ TimeOut(v)
                             \/ Cancel(v) \/ JanitorDelete(v)
                             \/ \E s \in Activity : LateEnd(v, s)
  BY <1>3 DEF Upload, Reject, GiveUp, TimeOut, Cancel, JanitorDelete, LateEnd
<1>4. CASE \E c \in calls : CallStep(c)
  BY <1>4 DEF CallStep, IndexStep
<1>5. CASE \E c \in calls : CallFails(c)
  BY <1>5 DEF CallFails
<1>6. CASE \E d \in Document : TombstoneDocument(d)
  BY <1>6 DEF TombstoneDocument
<1>7. CASE \E r \in Reconciler : ReconcileBm25(r)
  BY <1>7 DEF ReconcileBm25, IndexStep
<1>8. CASE \E r \in Reconciler : \/ ReconcileRead(r) \/ ReconcileRepair(r) \/ ReconcileFails(r)
                                \/ \E d \in Document : ReconcileDocument(r, d)
  BY <1>8 DEF ReconcileRead, ReconcileRepair, ReconcileFails, ReconcileDocument
<1>9. CASE FlushBm25
  BY <1>9 DEF FlushBm25, IndexStep, RefreshBm25
<1>10. CASE JanitorSelect \/ UNCHANGED vars
  BY <1>10 DEF JanitorSelect, vars
<1> QED
  BY <1>2, <1>3, <1>4, <1>5, <1>6, <1>7, <1>8, <1>9, <1>10
  DEF Next, WorkflowStep, ReconcileStep

\* The requests and rebuilds keep the types of the indexes.
LEMMA IndexTypeStep ==
  ASSUME LedgerTypeOK, IndexTypeOK, [Next]_vars
  PROVE  IndexTypeOK'
<1> USE DEF IndexTypeOK, PointState
<1>1. ASSUME NEW v \in Version, Upsert(v)
      PROVE  IndexTypeOK'
  BY <1>1 DEF Upsert
<1>2. ASSUME NEW force, RefreshBm25(force)
      PROVE  IndexTypeOK'
  <2>1. Corpus \in [versions : SUBSET Version, legacy : SUBSET Document]
    BY SMT DEF Corpus, LedgerTypeOK
  <2> QED
    BY <1>2, <2>1 DEF RefreshBm25, RebuildBm25
<1>3. ASSUME NEW c \in calls, Request(c)
      PROVE  IndexTypeOK'
  BY <1>2, <1>3 DEF Request, ShowVersion, HideOthers, DropPoints, DropLegacyPoints
<1> QED
  BY <1>1, <1>2, <1>3, StepIsIndexStep DEF IndexStep, indexVars

\* The table of activities is a function on the activities.
LEMMA ActivityOrder == After \in [Activity -> Activity \cup {"qdrant", "ended"}]
BY DEF After, Activity

\* A call made with arguments of the right types is a call.
LEMMA NewCallType ==
  ASSUME NEW owner \in Owner \cup {None}, NEW d \in Document,
         NEW active \in Version \cup {None}, NEW deleted \in BOOLEAN
  PROVE  NewCall(owner, d, active, deleted) \in Call
<1>1. (IF deleted THEN "drop" ELSE IF active = None THEN "hide" ELSE "show")
        \in {"show", "hide", "drop", "legacy", "refresh"}
  OBVIOUS
<1> QED
  BY <1>1 DEF NewCall, Call

\* What a reconciliation does to its own record leaves it a run.
LEMMA RunType ==
  /\ NoRun \in Run /\ [NoRun EXCEPT !.step = "repair"] \in Run
  /\ \A run \in Run : [run EXCEPT !.failed = TRUE] \in Run
  /\ \A run \in Run, d \in Document : [run EXCEPT !.todo = @ \ {d}] \in Run
BY DEF Run, NoRun, NoRows, DocumentRow, DocumentStatus

\* Every step keeps the types of the workflows' state.
LEMMA FlowTypeStep ==
  ASSUME LedgerTypeOK, FlowTypeOK, [Next]_vars
  PROVE  FlowTypeOK'
<1> USE LedgerAssumption, IngestionAssumption DEF FlowTypeOK
<1>a. /\ {"failed", "cancelled", "register", "embed", "activate", "indexed", "refresh"} \subseteq Activity
      /\ Guarded \subseteq Activity \cup {"qdrant"}
  BY DEF After, Activity, Guarded
<1>b. ASSUME NEW v \in Version, NEW s \in Activity, NEW owner \in Owner \cup {None}, Perform(v, s, owner)
      PROVE  /\ artifacts' \in [Version -> SUBSET {"pages", "chunks"}]
             /\ calls' \subseteq Call
  <2>1. NewCall(owner, DocumentOf[v], v, FALSE) \in Call
    BY NewCallType
  <2>2. calls' \subseteq Call
    BY <1>b, <2>1 DEF Perform
  <2>3. /\ [artifacts EXCEPT ![v] = {}] \in [Version -> SUBSET {"pages", "chunks"}]
        /\ \A stage \in {"pages", "chunks"} :
             [artifacts EXCEPT ![v] = @ \cup {stage}] \in [Version -> SUBSET {"pages", "chunks"}]
    OBVIOUS
  <2>4. artifacts' \in [Version -> SUBSET {"pages", "chunks"}]
    BY <1>b, <2>3 DEF Perform, StoreArtifact
  <2> QED
    BY <2>2, <2>4
<1>c. ASSUME Spend
      PROVE  faults' \in 0..MaxFaults
  BY <1>c DEF Spend
<1>d. ASSUME NEW owner, Disown(owner)
      PROVE  calls' \subseteq Call
  <2>1. \A c \in Call : [c EXCEPT !.owner = None] \in Call
    BY DEF Call
  <2> QED
    BY <1>d, <2>1 DEF Disown
<1>1. ASSUME NEW v \in Version, Upload(v) \/ Advance(v)
      PROVE  FlowTypeOK'
  BY <1>1, <1>a, <1>b, ActivityOrder DEF Upload, Advance, Goto, Owner, flowVars
<1>2. ASSUME NEW v \in Version, Reject(v) \/ GiveUp(v)
      PROVE  FlowTypeOK'
  BY <1>2, <1>a, <1>c DEF Reject, GiveUp, Goto, OnError
<1>3. ASSUME NEW v \in Version, TimeOut(v) \/ Cancel(v)
      PROVE  FlowTypeOK'
  BY <1>3, <1>a, <1>c, <1>d DEF TimeOut, Cancel, AfterCancel, Guarded, Goto, OnError, Activity, After
<1>4. ASSUME NEW v \in Version, NEW s \in Activity, LateEffect(v, s) \/ LateEnd(v, s)
      PROVE  FlowTypeOK'
  BY <1>4, <1>a, <1>b DEF LateEffect, LateEnd
<1>5. ASSUME NEW c \in calls, CallStep(c)
      PROVE  FlowTypeOK'
  BY <1>5, <1>a DEF CallStep, Call, FollowingStep
<1>6. ASSUME NEW c \in calls, CallFails(c)
      PROVE  FlowTypeOK'
  <2>1. calls' \subseteq Call /\ faults' \in 0..MaxFaults
    BY <1>6, <1>c DEF CallFails
  <2>2. CASE c.owner \in Version
    BY <1>6, <1>a, <2>1, <2>2 DEF CallFails, Goto
  <2>3. CASE c.owner \notin Version
    <3>1. UNCHANGED <<pc, artifacts, late, retired, expired>>
      BY <1>6, <2>3 DEF CallFails
    <3>2. rec' \in [Reconciler -> Run]
      BY <1>6, <2>3, RunType DEF CallFails
    <3> QED
      BY <2>1, <3>1, <3>2
  <2> QED
    BY <2>2, <2>3
<1>7. ASSUME NEW d \in Document, TombstoneDocument(d)
      PROVE  FlowTypeOK'
  <2>1. NewCall(d, d, None, TRUE) \in Call
    BY NewCallType DEF Owner
  <2> QED
    BY <1>7, <2>1 DEF TombstoneDocument
<1>8. ASSUME NEW r \in Reconciler,
             ReconcileRead(r) \/ ReconcileBm25(r) \/ ReconcileRepair(r) \/ ReconcileFails(r)
      PROVE  FlowTypeOK'
  <2>2. [step |-> "running", rows |-> document, failed |-> FALSE,
         todo |-> {d \in Document : document[d].status # "absent"}] \in Run
    BY DEF LedgerTypeOK, Run
  <2>3. rec' \in [Reconciler -> Run]
    BY <1>8, <2>2, RunType DEF ReconcileRead, ReconcileBm25, ReconcileRepair, ReconcileFails
  <2>4. faults' \in 0..MaxFaults
    BY <1>8, <1>c DEF ReconcileRead, ReconcileBm25, ReconcileRepair, ReconcileFails
  <2>5. UNCHANGED <<pc, artifacts, late, calls, retired, expired>>
    BY <1>8 DEF ReconcileRead, ReconcileBm25, ReconcileRepair, ReconcileFails
  <2> QED
    BY <2>3, <2>4, <2>5
<1>9. ASSUME NEW r \in Reconciler, NEW d \in Document, ReconcileDocument(r, d)
      PROVE  FlowTypeOK'
  <2> DEFINE row == rec[r].rows[d]
  <2>1. row.active \in Version \cup {None} /\ (row.status = "deleted") \in BOOLEAN
    BY DEF Run, DocumentRow
  <2>2. NewCall(r, d, row.active, row.status = "deleted") \in Call
    BY <2>1, NewCallType DEF Owner
  <2> QED
    BY <1>9, <2>2, RunType DEF ReconcileDocument
<1>10. CASE FlushBm25 \/ JanitorSelect \/ UNCHANGED vars
  BY <1>10 DEF FlushBm25, JanitorSelect, vars, flowVars
<1>11. ASSUME NEW v \in Version, JanitorDelete(v)
       PROVE  FlowTypeOK'
  BY <1>11 DEF JanitorDelete
<1> QED
  BY <1>1, <1>2, <1>3, <1>4, <1>5, <1>6, <1>7, <1>8, <1>9, <1>10, <1>11
  DEF Next, WorkflowStep, ReconcileStep

-----------------------------------------------------------------------------
(* What search shows.                                                      *)

\* The version a call will show was published before the call was made...
CallsSound == \A c \in calls : c.active # None => Published(c.active)

\* ... because the rows a reconciliation takes its calls from were the ledger's.
RowsSound ==
  \A r \in Reconciler, d \in Document :
    rec[r].rows[d].active # None => Published(rec[r].rows[d].active)

IInv == TypeOK /\ PointerCoherent /\ CallsSound /\ RowsSound /\ OnlyPublishedVisible

\* What was published stays published: no transaction takes a version back to
\* staged, and only staged ones fail.
LEMMA PublishedGrows ==
  ASSUME LedgerTypeOK, [Next]_vars, NEW v \in Version, Published(v)
  PROVE  Published(v)'
<1> USE DEF Published, LedgerTypeOK
<1>1. CASE UNCHANGED ledgerVars
  BY <1>1 DEF ledgerVars
<1>2. CASE Transaction
  BY <1>2 DEF Transaction, Register, EnterStage, Persist, Activate, Finish, Tombstone, RepairAttempts
<1> QED
  BY <1>1, <1>2, StepIsTransaction

\* The version a document points at is published.
LEMMA PointedAtIsPublished ==
  ASSUME LedgerTypeOK, PointerCoherent, NEW d \in Document, document[d].active # None
  PROVE  Published(document[d].active)
BY LedgerAssumption DEF LedgerTypeOK, DocumentRow, PointerCoherent, PointsAt, Published

\* After the transaction of activate_ingestion_version its version is published,
\* also when the pointer was there already.
LEMMA ActivatedIsPublished ==
  ASSUME LedgerTypeOK, PointerCoherent, NEW v \in Version, Activate(v)
  PROVE  Published(v)'
BY DEF LedgerTypeOK, PointerCoherent, Activate, Published

\* A call is made by an activation that has committed or from the rows a
\* reconciliation has read; later steps only move it on.
LEMMA CallsSoundStep ==
  ASSUME IInv, [Next]_vars
  PROVE  CallsSound'
<1> USE DEF IInv, TypeOK
<1>1. \A c \in calls : c.active # None => Published(c.active)'
  BY PublishedGrows DEF CallsSound, FlowTypeOK, Call
<1>2. SUFFICES ASSUME NEW c \in calls', c.active # None
               PROVE  Published(c.active)'
  BY DEF CallsSound
<1>3. ASSUME \E c0 \in calls : c.active = c0.active
      PROVE  Published(c.active)'
  BY <1>1, <1>2, <1>3
<1>4. ASSUME NEW v \in Version, NEW s \in Activity, NEW owner, Perform(v, s, owner)
      PROVE  Published(c.active)'
  <2>1. CASE calls' = calls
    BY <1>2, <1>3, <2>1
  <2>2. CASE Activate(v) /\ calls' = calls \cup {NewCall(owner, DocumentOf[v], v, FALSE)}
    <3>1. Published(v)'
      BY <2>2, ActivatedIsPublished
    <3>2. NewCall(owner, DocumentOf[v], v, FALSE).active = v
      BY DEF NewCall
    <3> QED
      BY <1>2, <1>3, <2>2, <3>1, <3>2
  <2> QED
    BY <1>4, <2>1, <2>2 DEF Perform
<1>5. CASE \E v \in Version : Advance(v) \/ \E s \in Activity : LateEffect(v, s)
  BY <1>4, <1>5 DEF Advance, LateEffect
<1>6. CASE \E v \in Version : TimeOut(v) \/ Cancel(v)
  <2>1. calls' = calls \/ \E v \in Version : Disown(v)
    BY <1>6 DEF TimeOut, Cancel
  <2> QED
    BY <2>1, <1>2, <1>3 DEF Disown, FlowTypeOK, Call
<1>7. CASE \E c0 \in calls : CallStep(c0)
  BY <1>2, <1>3, <1>7 DEF CallStep, FlowTypeOK, Call
<1>8. CASE \E c0 \in calls : CallFails(c0)
  BY <1>2, <1>3, <1>8 DEF CallFails
<1>9. CASE \E d \in Document : TombstoneDocument(d)
  BY <1>2, <1>3, <1>9 DEF TombstoneDocument, NewCall
<1>10. CASE \E r \in Reconciler, d \in Document : ReconcileDocument(r, d)
  <2> PICK r \in Reconciler, d \in Document : ReconcileDocument(r, d)
    BY <1>10
  <2>1. CASE c \in calls
    BY <2>1, <1>3
  <2>2. CASE c = NewCall(r, d, rec[r].rows[d].active, rec[r].rows[d].status = "deleted")
    <3>1. c.active = rec[r].rows[d].active
      BY <2>2 DEF NewCall
    <3>2. Published(rec[r].rows[d].active) /\ rec[r].rows[d].active \in Version
      BY <3>1, <1>2 DEF RowsSound, FlowTypeOK, Run, DocumentRow
    <3> QED
      BY <3>1, <3>2, PublishedGrows
  <2> QED
    BY <2>1, <2>2 DEF ReconcileDocument
<1>11. CASE UNCHANGED calls
  BY <1>2, <1>3, <1>11
<1>12. CASE \/ \E v \in Version : \/ Upload(v) \/ Reject(v) \/ GiveUp(v) \/ JanitorDelete(v)
                                 \/ \E s \in Activity : LateEnd(v, s)
            \/ \E r \in Reconciler : \/ ReconcileRead(r) \/ ReconcileBm25(r)
                                    \/ ReconcileRepair(r) \/ ReconcileFails(r)
            \/ FlushBm25 \/ JanitorSelect \/ UNCHANGED vars
  BY <1>11, <1>12
  DEF Upload, Reject, GiveUp, JanitorDelete, LateEnd, ReconcileRead, ReconcileBm25,
      ReconcileRepair, ReconcileFails, FlushBm25, JanitorSelect, vars, flowVars
<1> QED
  BY <1>5, <1>6, <1>7, <1>8, <1>9, <1>10, <1>12 DEF Next, WorkflowStep, ReconcileStep

\* A reconciliation reads coherent rows, and what they point at stays published.
LEMMA RowsSoundStep ==
  ASSUME IInv, [Next]_vars
  PROVE  RowsSound'
<1> USE DEF IInv, TypeOK
<1> SUFFICES ASSUME NEW r \in Reconciler, NEW d \in Document, rec'[r].rows[d].active # None
             PROVE  Published(rec[r].rows[d].active)'
  BY DEF RowsSound
<1>1. ASSUME rec'[r].rows[d].active = rec[r].rows[d].active
      PROVE  Published(rec[r].rows[d].active)'
  BY <1>1, PublishedGrows DEF RowsSound, FlowTypeOK, Run, DocumentRow
<1>2. CASE ReconcileRead(r)
  <2>1. rec'[r].rows[d].active = document[d].active
    BY <1>2 DEF ReconcileRead, FlowTypeOK
  <2> QED
    BY <2>1, PointedAtIsPublished, PublishedGrows DEF LedgerTypeOK, DocumentRow
<1>3. CASE ReconcileBm25(r) \/ ReconcileRepair(r) \/ ReconcileFails(r)
  <2>1. rec'[r].rows = NoRows
    <3>1. NoRun.rows = NoRows /\ [NoRun EXCEPT !.step = "repair"].rows = NoRows
      BY DEF NoRun
    <3> QED
      BY <1>3, <3>1 DEF ReconcileBm25, ReconcileRepair, ReconcileFails, FlowTypeOK
  <2> QED
    BY <2>1 DEF NoRows
<1>4. CASE \E e \in Document : ReconcileDocument(r, e)
  BY <1>1, <1>4 DEF ReconcileDocument, FlowTypeOK, Run
<1>5. CASE \E q \in Reconciler \ {r} :
             \/ ReconcileRead(q) \/ ReconcileBm25(q) \/ ReconcileRepair(q) \/ ReconcileFails(q)
             \/ \E e \in Document : ReconcileDocument(q, e)
  BY <1>1, <1>5 DEF ReconcileRead, ReconcileBm25, ReconcileRepair, ReconcileFails,
                    ReconcileDocument, FlowTypeOK
<1>6. CASE \E c \in calls : CallFails(c)
  BY <1>1, <1>6 DEF CallFails, FlowTypeOK, Run
<1>7. CASE \/ \E v \in Version : WorkflowStep(v) \/ JanitorDelete(v)
           \/ \E c \in calls : CallStep(c)
           \/ \E e \in Document : TombstoneDocument(e)
           \/ FlushBm25 \/ JanitorSelect \/ UNCHANGED vars
  <2>1. rec' = rec
    BY <1>7 DEF WorkflowStep, Upload, Advance, Reject, GiveUp, TimeOut, Cancel, LateEffect, LateEnd,
                JanitorDelete, CallStep, TombstoneDocument, FlushBm25, JanitorSelect, vars, flowVars
  <2> QED
    BY <1>1, <2>1
<1> QED
  BY <1>2, <1>3, <1>4, <1>5, <1>6, <1>7 DEF Next, ReconcileStep

\* Points become visible by a sound call and the BM25 corpus is the active
\* versions': neither adds an upload that was not published.
LEMMA VisibleStep ==
  ASSUME IInv, [Next]_vars
  PROVE  OnlyPublishedVisible'
<1> USE DEF IInv, TypeOK
<1>1. ASSUME NEW v \in Version, points'[v] # "visible" \/ points'[v] = points[v],
             v \notin bm25'.versions \/ bm25'.versions = bm25.versions
      PROVE  points'[v] = "visible" \/ v \in bm25'.versions => Published(v)'
  BY <1>1, PublishedGrows DEF OnlyPublishedVisible
<1>2. CASE UNCHANGED indexVars
  BY <1>1, <1>2 DEF indexVars, OnlyPublishedVisible
<1>3. CASE \E v \in Version : Upsert(v)
  BY <1>1, <1>3 DEF Upsert, IndexTypeOK, OnlyPublishedVisible
<1>4. CASE \E force : RefreshBm25(force)
  <2>1. CASE RebuildBm25
    <3>1. \A v \in Version : v \in bm25'.versions => Published(v)
      BY <2>1 DEF RebuildBm25, Corpus, Published
    <3>2. points' = points
      BY <2>1 DEF RebuildBm25
    <3> QED
      BY <3>1, <3>2, PublishedGrows DEF OnlyPublishedVisible
  <2>2. CASE UNCHANGED <<points, bm25>>
    BY <1>1, <2>2 DEF OnlyPublishedVisible
  <2> QED
    BY <1>4, <2>1, <2>2 DEF RefreshBm25
<1>5. CASE \E c \in calls : c.step # "refresh" /\ Request(c)
  <2> PICK c \in calls : c.step # "refresh" /\ Request(c)
    BY <1>5
  <2>1. bm25' = bm25
    BY DEF Request, ShowVersion, HideOthers, DropPoints, DropLegacyPoints
  <2>2. CASE ShowVersion(c.active)
    <3>1. \A v \in Version : v # c.active => points'[v] = points[v]
      BY <2>2 DEF ShowVersion, IndexTypeOK
    <3>2. \A v \in Version : v = c.active => Published(v)'
      BY LedgerAssumption, PublishedGrows DEF CallsSound
    <3> QED
      BY <1>1, <2>1, <3>1, <3>2 DEF OnlyPublishedVisible
  <2>3. CASE HideOthers(c.doc, c.active) \/ DropPoints(c.doc) \/ DropLegacyPoints(c.doc)
    BY <1>1, <2>1, <2>3 DEF HideOthers, DropPoints, DropLegacyPoints, OnlyPublishedVisible
  <2> QED
    BY <2>2, <2>3 DEF Request
<1> QED
  BY <1>2, <1>3, <1>4, <1>5, StepIsIndexStep DEF IndexStep, Request

-----------------------------------------------------------------------------
(* The theorems.                                                           *)

\* The invariant holds initially.
LEMMA InitIInv ==
  ASSUME Init
  PROVE  IInv
<1> USE LedgerAssumption, IngestionAssumption DEF Init, LedgerInit, IndexInit
<1>1. LedgerTypeOK
  BY DEF LedgerTypeOK, DocumentRow, DocumentStatus, AttemptStatus, VersionStatus
<1>2. IndexTypeOK
  BY DEF IndexTypeOK, PointState
<1>3. FlowTypeOK
  BY RunType DEF FlowTypeOK
<1>4. PointerCoherent
  BY DEF PointerCoherent, PointsAt, Deleted
<1>5. CallsSound /\ RowsSound
  BY DEF CallsSound, RowsSound, NoRun, NoRows
<1>6. OnlyPublishedVisible
  BY DEF OnlyPublishedVisible
<1> QED
  BY <1>1, <1>2, <1>3, <1>4, <1>5, <1>6 DEF IInv, TypeOK

\* Every step keeps the invariant.
LEMMA StepIInv ==
  ASSUME IInv, [Next]_vars
  PROVE  IInv'
<1>1. LedgerTypeOK' /\ IndexTypeOK' /\ FlowTypeOK'
  BY LedgerTypeStep, IndexTypeStep, FlowTypeStep DEF IInv, TypeOK
<1>2. PointerCoherent'
  <2>1. CASE Transaction
    BY <2>1, TransactionKeepsPointers DEF IInv, TypeOK
  <2>2. CASE UNCHANGED ledgerVars
    BY <2>2 DEF IInv, PointerCoherent, PointsAt, Deleted, ledgerVars
  <2> QED
    BY <2>1, <2>2, StepIsTransaction
<1> QED
  BY <1>1, <1>2, CallsSoundStep, RowsSoundStep, VisibleStep DEF IInv, TypeOK

\* The inductive invariant: types, coherent pointers, sound calls and rows, and
\* what search shows.
THEOREM Invariance == Spec => []IInv
BY InitIInv, StepIInv, PTL DEF Spec

\* Every reachable state is of the types declared.
THEOREM TypesAreRight == Spec => []TypeOK
BY Invariance, PTL DEF IInv

\* The pointer of a document and the statuses of its versions, which
\* _activate, _finish and _tombstone write, agree in every reachable state.
THEOREM PointersAreCoherent == Spec => []PointerCoherent
BY Invariance, PTL DEF IInv

\* Neither search (dense_search's is_active filter, the BM25 index) returns a
\* chunk of an upload that activate_ingestion_version has not published.
THEOREM SearchShowsOnlyPublished == Spec => []OnlyPublishedVisible
BY Invariance, PTL DEF IInv

\* The status column of document_versions only moves forward.
THEOREM VersionsMoveForward == Spec => VersionLifecycle
<1>1. ASSUME IInv, [Next]_vars, NEW v \in Version, version'[v] # version[v]
      PROVE  <<version[v], version'[v]>> \in {<<"absent", "staged">>, <<"staged", "active">>,
                                             <<"staged", "failed">>, <<"active", "superseded">>}
  <2> USE DEF IInv, TypeOK, LedgerTypeOK
  <2>1. Transaction
    BY <1>1, StepIsTransaction DEF ledgerVars
  <2>2. ASSUME NEW w \in Version, Register(w)
        PROVE  version[v] = "absent" /\ version'[v] = "staged"
    BY <1>1, <2>2 DEF Register
  <2>3. ASSUME NEW w \in Version, Activate(w)
        PROVE  \/ version[v] = "staged" /\ version'[v] = "active"
               \/ version[v] = "active" /\ version'[v] = "superseded"
    BY <1>1, <2>3 DEF Activate, MayActivate
  <2>4. ASSUME NEW w \in Version, NEW s \in Verdict, Finish(w, s)
        PROVE  version[v] = "staged" /\ version'[v] = "failed"
    BY <1>1, <2>4 DEF Finish
  <2>5. ASSUME NEW d \in Document, Tombstone(d)
        PROVE  version[v] = "active" /\ version'[v] = "superseded"
    BY <1>1, <2>5 DEF Tombstone
  <2> QED
    BY <1>1, <2>1, <2>2, <2>3, <2>4, <2>5 DEF Transaction, EnterStage, Persist, RepairAttempts
<1>2. IInv /\ [Next]_vars =>
        [\A v \in Version : version'[v] # version[v] =>
           <<version[v], version'[v]>> \in {<<"absent", "staged">>, <<"staged", "active">>,
                                            <<"staged", "failed">>, <<"active", "superseded">>}]_vars
  BY <1>1
<1> QED
  BY <1>2, Invariance, PTL DEF Spec, VersionLifecycle

\* Activations and tombstones are the abstract Publish and Delete, every other
\* step leaves what the documents consist of as it is: whatever the workflows
\* and their retries do, an upload is published at most once and nothing is
\* published for a deleted document.
THEOREM IngestionImplementsPromise == Spec => Refinement
<1>1. Init => Promise!Init
  BY LedgerAssumption DEF Init, LedgerInit, Promise!Init, Published, Deleted
<1>2. ASSUME IInv, [Next]_vars
      PROVE  Promise!Next \/ UNCHANGED <<[d \in Document |-> document[d].active],
                                         {v \in Version : Published(v)},
                                         {d \in Document : Deleted(d)}>>
  <2> USE <1>2, LedgerAssumption DEF IInv, TypeOK, LedgerTypeOK, DocumentRow
  <2> DEFINE Same == UNCHANGED <<[d \in Document |-> document[d].active],
                                 {v \in Version : Published(v)}, {d \in Document : Deleted(d)}>>
             SameDocuments == \A d \in Document :
               document'[d].active = document[d].active /\ (Deleted(d)' <=> Deleted(d))
             SameVersions == \A v \in Version : Published(v)' <=> Published(v)
  <2>1. ASSUME SameDocuments, SameVersions
        PROVE  Same
    <3>1. [d \in Document |-> document'[d].active] = [d \in Document |-> document[d].active]
      BY <2>1
    <3>2. {v \in Version : Published(v)}' = {v \in Version : Published(v)}
      BY <2>1
    <3>3. {d \in Document : Deleted(d)}' = {d \in Document : Deleted(d)}
      BY <2>1
    <3> QED
      BY <3>1, <3>2, <3>3
  <2>2. CASE UNCHANGED <<document, version>>
    <3>1. SameDocuments /\ SameVersions
      BY <2>2 DEF Deleted, Published
    <3> QED
      BY <2>1, <3>1
  <2>3. ASSUME NEW v \in Version, Register(v) \/ EnterStage(v)
        PROVE  Same
    <3>1. SameDocuments
      BY <2>3 DEF Register, MayRegister, EnterStage, MayEnterStage, StatusOf, Deleted
    <3>2. SameVersions
      BY <2>3 DEF Register, EnterStage, Published
    <3> QED
      BY <2>1, <3>1, <3>2
  <2>4. ASSUME NEW v \in Version, NEW s \in Verdict, Finish(v, s), ~ UNCHANGED <<document, version>>
        PROVE  Same
    <3> DEFINE status == IF s = "failed" THEN "failed" ELSE "queued"
    <3>1. /\ version[v] = "staged"
          /\ version' = [version EXCEPT ![v] = "failed"]
          /\ document' = [document EXCEPT ![DocumentOf[v]].status = status]
          /\ MayFinish(v, s) /\ s # "indexed" /\ Open(v)
      BY <2>4 DEF Finish
    <3>2. document[DocumentOf[v]].status = "processing"
      BY <3>1 DEF MayFinish, StatusOf
    <3>3. SameDocuments
      BY <3>1, <3>2 DEF Deleted
    <3>4. SameVersions
      BY <3>1 DEF Published
    <3> QED
      BY <2>1, <3>3, <3>4
  <2>5. ASSUME NEW v \in Version, Activate(v), ~PointsAt(v)
        PROVE  Promise!Publish(v)
    <3> DEFINE d == DocumentOf[v]
    <3>1. /\ document' = [document EXCEPT ![d] = [status |-> "indexed", active |-> v]]
          /\ version' = [w \in Version |->
                           CASE w = v -> "active"
                             [] w = document[d].active /\ version[w] = "active" -> "superseded"
                             [] OTHER -> version[w]]
      BY <2>5 DEF Activate
    <3>2. version[v] = "staged" /\ ~Deleted(d)
      BY <2>5 DEF Activate, MayActivate, StatusOf, PointerCoherent, Deleted
    <3>3. [e \in Document |-> document[e].active]'
            = [[e \in Document |-> document[e].active] EXCEPT ![d] = v]
      BY <3>1
    <3>4. \A w \in Version : Published(w)' <=> Published(w) \/ w = v
      BY <3>1 DEF Published
    <3>5. {w \in Version : Published(w)}' = {w \in Version : Published(w)} \cup {v}
      BY <3>4
    <3>6. \A e \in Document : Deleted(e)' <=> Deleted(e)
      BY <3>1, <3>2 DEF Deleted
    <3>7. {e \in Document : Deleted(e)}' = {e \in Document : Deleted(e)}
      BY <3>6
    <3>8. ~Published(v)
      BY <3>2 DEF Published
    <3> QED
      BY <3>2, <3>3, <3>5, <3>7, <3>8 DEF Promise!Publish
  <2>6. ASSUME NEW d \in Document, Tombstone(d)
        PROVE  Promise!Delete(d) \/ Same
    <3>1. SameVersions
      BY <2>6 DEF Tombstone, Published
    <3>2. {w \in Version : Published(w)}' = {w \in Version : Published(w)}
      BY <3>1
    <3>3. document' = [document EXCEPT ![d] = [status |-> "deleted", active |-> None]]
      BY <2>6 DEF Tombstone
    <3>4. CASE Deleted(d)
      <4>1. SameDocuments
        BY <3>3, <3>4 DEF Deleted, PointerCoherent
      <4> QED
        BY <2>1, <3>1, <4>1
    <3>5. CASE ~Deleted(d)
      <4>1. [e \in Document |-> document[e].active]'
              = [[e \in Document |-> document[e].active] EXCEPT ![d] = None]
        BY <3>3
      <4>2. \A e \in Document : Deleted(e)' <=> Deleted(e) \/ e = d
        BY <3>3 DEF Deleted
      <4>3. {e \in Document : Deleted(e)}' = {e \in Document : Deleted(e)} \cup {d}
        BY <4>2
      <4> QED
        BY <3>2, <3>5, <4>1, <4>3 DEF Promise!Delete
    <3> QED
      BY <3>4, <3>5
  <2>7. CASE Transaction
    BY <2>2, <2>3, <2>4, <2>5, <2>6, <2>7
    DEF Transaction, Persist, Activate, RepairAttempts, Promise!Next
  <2> QED
    BY <2>2, <2>7, StepIsTransaction DEF ledgerVars
<1> QED
  BY <1>1, <1>2, Invariance, PTL DEF Spec, Refinement, Promise!Spec

=============================================================================
