------------------------ MODULE IngestionFlowProofs ------------------------
(***************************************************************************)
(* More theorems about Ingestion: what depends on where the workflows are. *)
(* One lemma per variable says what may have changed it (PcStep, LateStep, *)
(* ArtifactLost, PointsLost, ...); each part of the invariant FInv then    *)
(* follows from those that bear on it.                                     *)
(***************************************************************************)
EXTENDS IngestionProofs

\* Where a workflow is when it has ended or only records its verdict.
Closing == {"failed", "cancelled", "ended"}

\* The attempt row and the version row of an upload are written together; while
\* nothing interferes, an attempt in progress can still be closed.
RowsAgree ==
  \A v \in Version :
    /\ attempt[v] = "absent" <=> version[v] = "absent"
    /\ Open(v) => version[v] # "failed"
    /\ attempt[v] \in {"failed", "cancelled"} => version[v] # "staged"
    /\ Sole(v) => version[v] # "superseded"
    /\ Sole(v) /\ attempt[v] = "queued" =>
         \/ StatusOf(v) \in {"queued", "processing"}
         \/ version[v] = "active" /\ PointsAt(v)
    /\ Sole(v) /\ attempt[v] = "processing" =>
         \/ version[v] = "staged" /\ StatusOf(v) = "processing"
         \/ version[v] = "active" /\ PointsAt(v)

\* A call deletes points only on behalf of a tombstone, and shows a version.
CallsShaped ==
  \A c \in calls :
    /\ c.owner \in Document => c.deleted /\ c.doc = c.owner
    /\ c.deleted => Deleted(c.doc) /\ c.step \in {"drop", "legacy", "refresh"}
    /\ c.step = "drop" => c.deleted
    /\ c.step = "show" => c.active \in Version

\* A workflow waits for one call, which shows its own version.
CallsOwned ==
  \A c \in calls : c.owner \in Version =>
    /\ c.active = c.owner
    /\ pc[c.owner] = "qdrant"
    /\ \A b \in calls : b.owner = c.owner => b = c

\* A reconciliation that has read a deleted row acts on behalf of a tombstone too.
RowsDeleted ==
  \A r \in Reconciler, d \in Document : rec[r].rows[d].status = "deleted" => Deleted(d)

\* What would remove artifacts or close an attempt is only ever left behind by a
\* workflow that is closing.
Final ==
  \A v \in Version :
    /\ \/ attempt[v] \in {"failed", "cancelled"}
       \/ <<v, "failed">> \in late
       \/ <<v, "cancelled">> \in late
       \/ v \in expired
       => pc[v] \in Closing
    /\ <<v, "cleanup">> \in late => pc[v] \in Closing \cup {"cleanup"}

\* The artifacts a workflow has stored and not yet used are there.
Stored ==
  \A v \in Version :
    /\ pc[v] \in {"chunking", "chunk"} => "pages" \in artifacts[v]
    /\ pc[v] \in {"persisting", "persist", "indexing", "embed", "refresh"} => "chunks" \in artifacts[v]

\* What may be activated has been persisted and embedded, and stays so unless
\* its document is deleted.
Ready(v) == v \in chunkRows /\ (Deleted(DocumentOf[v]) \/ points[v] # "absent")

Embedded ==
  \A v \in Version :
    /\ pc[v] \in {"indexing", "embed"} => v \in chunkRows
    /\ \/ pc[v] \in {"refresh", "activate", "qdrant"}
       \/ <<v, "activate">> \in late
       \/ Published(v)
       => Ready(v)

\* An upload is recorded as indexed after it was activated.
Activated ==
  \A v \in Version :
    \/ pc[v] \in {"qdrant", "indexed"}
    \/ <<v, "indexed">> \in late
    \/ attempt[v] = "indexed"
    => Published(v)

\* While nothing has failed: no activity is abandoned, and the rows follow the
\* workflow.
InStep ==
  faults = 0 =>
    /\ late = {}
    /\ \A v \in Version :
         /\ pc[v] \in {"idle", "register"} => attempt[v] = "absent"
         /\ pc[v] = "cleanup" => attempt[v] = "indexed"
         /\ attempt[v] = "queued" => pc[v] \in {"detecting"} \cup Closing
         /\ attempt[v] = "queued" /\ pc[v] = "failed" => ~Sole(v)
         /\ Published(v) => pc[v] \in {"qdrant", "indexed", "cleanup"} \cup Closing

\* The points of a deleted document have been deleted.
Dropped(d) ==
  \/ d \in retired
  \/ \E c \in calls : c.doc = d /\ c.deleted /\ c.step # "drop"

\* What comes back then is not searchable, and only calls to show a published
\* version could make it so.
StaysDropped ==
  /\ \A d \in retired : Deleted(d)
  /\ faults = 0 => \A v \in Version : Dropped(DocumentOf[v]) =>
       /\ points[v] # "visible"
       /\ Published(v) => points[v] = "absent"

\* The inductive invariant.
FInv ==
  /\ IInv
  /\ RowsAgree /\ CallsShaped /\ CallsOwned /\ RowsDeleted
  /\ Final /\ Stored /\ Embedded /\ Activated
  /\ InStep /\ StaysDropped

-----------------------------------------------------------------------------
(* The ledger.                                                             *)

\* A tombstone is never lifted.
LEMMA DeletedStays ==
  ASSUME LedgerTypeOK, Transaction \/ UNCHANGED ledgerVars, NEW d \in Document, Deleted(d)
  PROVE  Deleted(d)'
<1> USE LedgerAssumption DEF LedgerTypeOK, DocumentRow, Deleted
<1>1. CASE UNCHANGED ledgerVars
  BY <1>1 DEF ledgerVars
<1>2. ASSUME NEW v \in Version, Register(v) \/ EnterStage(v) \/ Persist(v) \/ Activate(v)
      PROVE  Deleted(d)'
  BY <1>2 DEF Register, MayRegister, EnterStage, MayEnterStage, Persist, Activate, MayActivate, StatusOf
<1>3. ASSUME NEW v \in Version, NEW s \in Verdict, Finish(v, s)
      PROVE  Deleted(d)'
  <2>1. CASE document' = document
    BY <2>1
  <2>2. CASE document' # document
    <3>1. /\ StatusOf(v) = "processing"
          /\ document' = [document EXCEPT ![DocumentOf[v]].status =
                            IF s = "failed" THEN "failed" ELSE "queued"]
      BY <1>3, <2>2 DEF Finish, MayFinish
    <3>2. DocumentOf[v] # d
      BY <3>1 DEF StatusOf
    <3> QED
      BY <3>1, <3>2
  <2> QED
    BY <2>1, <2>2
<1>4. ASSUME NEW e \in Document, Tombstone(e)
      PROVE  Deleted(d)'
  BY <1>4 DEF Tombstone
<1>5. CASE RepairAttempts
  BY <1>5 DEF RepairAttempts
<1> QED
  BY <1>1, <1>2, <1>3, <1>4, <1>5 DEF Transaction

\* An attempt row is never deleted.
LEMMA AttemptStays ==
  ASSUME LedgerTypeOK, Transaction \/ UNCHANGED ledgerVars, NEW v \in Version, attempt[v] # "absent"
  PROVE  attempt'[v] # "absent"
<1> USE DEF LedgerTypeOK, Verdict
<1>1. CASE UNCHANGED ledgerVars
  BY <1>1 DEF ledgerVars
<1>2. CASE Transaction
  BY <1>2 DEF Transaction, Register, EnterStage, Persist, Activate, Finish, Tombstone, RepairAttempts
<1> QED
  BY <1>1, <1>2

\* An upload whose document others have touched does not have it to itself again.
LEMMA SoleBefore ==
  ASSUME LedgerTypeOK, Transaction \/ UNCHANGED ledgerVars, NEW v \in Version, Sole(v)'
  PROVE  Sole(v)
<1>1. ~Deleted(DocumentOf[v])
  BY LedgerAssumption, DeletedStays DEF Sole
<1>2. \A w \in Version \ {v} : DocumentOf[w] = DocumentOf[v] => attempt[w] = "absent"
  BY AttemptStays DEF Sole
<1> QED
  BY <1>1, <1>2 DEF Sole

\* Each transaction keeps the rows of an upload in agreement.
LEMMA RowsAgreeStep ==
  ASSUME LedgerTypeOK, PointerCoherent, RowsAgree, Transaction \/ UNCHANGED ledgerVars
  PROVE  RowsAgree'
<1> SUFFICES ASSUME NEW v \in Version
             PROVE  /\ attempt'[v] = "absent" <=> version'[v] = "absent"
                    /\ Open(v)' => version'[v] # "failed"
                    /\ attempt'[v] \in {"failed", "cancelled"} => version'[v] # "staged"
                    /\ Sole(v)' => version'[v] # "superseded"
                    /\ Sole(v)' /\ attempt'[v] = "queued" =>
                         \/ StatusOf(v)' \in {"queued", "processing"}
                         \/ version'[v] = "active" /\ PointsAt(v)'
                    /\ Sole(v)' /\ attempt'[v] = "processing" =>
                         \/ version'[v] = "staged" /\ StatusOf(v)' = "processing"
                         \/ version'[v] = "active" /\ PointsAt(v)'
  BY DEF RowsAgree
<1> DEFINE Rows == /\ attempt'[v] = "absent" <=> version'[v] = "absent"
                   /\ Open(v)' => version'[v] # "failed"
                   /\ attempt'[v] \in {"failed", "cancelled"} => version'[v] # "staged"
           Free == /\ version'[v] # "superseded"
                   /\ attempt'[v] = "queued" =>
                        \/ StatusOf(v)' \in {"queued", "processing"}
                        \/ version'[v] = "active" /\ PointsAt(v)'
                   /\ attempt'[v] = "processing" =>
                        \/ version'[v] = "staged" /\ StatusOf(v)' = "processing"
                        \/ version'[v] = "active" /\ PointsAt(v)'
<1>s. Sole(v)' => Sole(v)
  BY SoleBefore
<1>t. ASSUME NEW w \in Version, w # v, DocumentOf[w] = DocumentOf[v], Sole(v)
      PROVE  attempt[w] = "absent" /\ version[w] = "absent"
  BY <1>t DEF Sole, RowsAgree
<1>u. ASSUME NEW w \in Version, w # v, DocumentOf[w] = DocumentOf[v], Sole(v)'
      PROVE  attempt'[w] = "absent"
  BY <1>u DEF Sole
<1> USE LedgerAssumption DEF LedgerTypeOK, DocumentRow, StatusOf, PointsAt, Open
<1>0. CASE UNCHANGED ledgerVars
  BY <1>0, <1>s DEF ledgerVars, RowsAgree
<1>1. ASSUME NEW w \in Version, Register(w)
      PROVE  Rows /\ (Sole(v)' => Free)
  <2>1. Rows
    BY <1>1 DEF Register, RowsAgree
  <2>2. Sole(v)' => Free
    <3>1. CASE w = v
      BY <1>1, <1>s, <3>1 DEF Register, MayRegister, RowsAgree, DocumentStatus
    <3>2. CASE w # v /\ DocumentOf[w] = DocumentOf[v]
      BY <1>1, <1>u, <3>2 DEF Register
    <3>3. CASE w # v /\ DocumentOf[w] # DocumentOf[v]
      BY <1>1, <1>s, <3>3 DEF Register, RowsAgree
    <3> QED
      BY <3>1, <3>2, <3>3
  <2> QED
    BY <2>1, <2>2
<1>2. ASSUME NEW w \in Version, EnterStage(w)
      PROVE  Rows /\ (Sole(v)' => Free)
  <2>1. Rows
    BY <1>2 DEF EnterStage, MayEnterStage, RowsAgree, VersionStatus
  <2>2. Sole(v)' => Free
    <3>1. CASE w = v
      BY <1>2, <1>s, <3>1 DEF EnterStage, MayEnterStage, RowsAgree, VersionStatus, PointerCoherent
    <3>2. CASE w # v /\ DocumentOf[w] = DocumentOf[v]
      BY <1>2, <1>s, <1>t, <3>2 DEF EnterStage, MayEnterStage
    <3>3. CASE w # v /\ DocumentOf[w] # DocumentOf[v]
      BY <1>2, <1>s, <3>3 DEF EnterStage, RowsAgree
    <3> QED
      BY <3>1, <3>2, <3>3
  <2> QED
    BY <2>1, <2>2
<1>3. ASSUME NEW w \in Version, Persist(w)
      PROVE  Rows /\ (Sole(v)' => Free)
  BY <1>3, <1>s DEF Persist, RowsAgree
<1>4. ASSUME NEW w \in Version, Activate(w)
      PROVE  Rows /\ (Sole(v)' => Free)
  <2>1. CASE UNCHANGED <<document, version, attempt>>
    BY <1>s, <2>1 DEF RowsAgree
  <2>2. CASE ~UNCHANGED <<document, version, attempt>>
    <3>1. /\ document' = [document EXCEPT ![DocumentOf[w]] = [status |-> "indexed", active |-> w]]
          /\ version' = [x \in Version |->
                           CASE x = w -> "active"
                             [] x = document[DocumentOf[w]].active /\ version[x] = "active" -> "superseded"
                             [] OTHER -> version[x]]
          /\ attempt' = attempt
          /\ version[w] \in {"staged", "active"} /\ ~PointsAt(w)
      BY <1>4, <2>2 DEF Activate, MayActivate
    <3>2. Rows
      BY <3>1 DEF RowsAgree
    <3>3. CASE w = v
      <4>1. version'[w] = "active"
        BY <3>1
      <4>2. document'[DocumentOf[w]] = [status |-> "indexed", active |-> w]
        BY <3>1
      <4> QED
        BY <3>2, <3>3, <4>1, <4>2
    <3>4. CASE w # v /\ DocumentOf[w] = DocumentOf[v]
      BY <1>s, <1>t, <3>1, <3>2, <3>4
    <3>5. CASE w # v /\ DocumentOf[w] # DocumentOf[v]
      <4>1. v # document[DocumentOf[w]].active
        BY <3>5 DEF PointerCoherent
      <4> QED
        BY <1>s, <3>1, <3>2, <3>5, <4>1 DEF RowsAgree
    <3> QED
      BY <3>3, <3>4, <3>5
  <2> QED
    BY <2>1, <2>2
<1>5. ASSUME NEW w \in Version, NEW s \in Verdict, Finish(w, s)
      PROVE  Rows /\ (Sole(v)' => Free)
  <2> USE DEF Verdict
  <2>1. CASE UNCHANGED <<document, version, attempt>>
    BY <1>s, <2>1 DEF RowsAgree
  <2>2. CASE ~UNCHANGED <<document, version, attempt>>
    <3>1. /\ Open(w)
          /\ attempt' = [attempt EXCEPT ![w] = s]
          /\ \/ /\ s # "indexed" /\ version[w] = "staged"
                /\ version' = [version EXCEPT ![w] = "failed"]
                /\ document' = [document EXCEPT ![DocumentOf[w]].status =
                                  IF s = "failed" THEN "failed" ELSE "queued"]
             \/ /\ s = "indexed" \/ version[w] # "staged"
                /\ UNCHANGED <<document, version>>
      BY <1>5, <2>2 DEF Finish
    <3>2. CASE w = v
      <4>1. Rows
        BY <3>1, <3>2 DEF RowsAgree
      <4> QED
        BY <1>s, <3>1, <3>2, <4>1 DEF RowsAgree
    <3>3. CASE w # v
      <4>1. attempt'[v] = attempt[v] /\ version'[v] = version[v]
        BY <3>1, <3>3
      <4>2. CASE DocumentOf[w] = DocumentOf[v]
        <5>1. ~Sole(v)'
          BY <1>s, <1>t, <3>1, <3>3, <4>2
        <5> QED
          BY <4>1, <5>1 DEF RowsAgree
      <4>3. CASE DocumentOf[w] # DocumentOf[v]
        <5>1. document'[DocumentOf[v]] = document[DocumentOf[v]]
          BY <3>1, <4>3
        <5> QED
          BY <1>s, <4>1, <5>1 DEF RowsAgree
      <4> QED
        BY <4>2, <4>3
    <3> QED
      BY <3>2, <3>3
  <2> QED
    BY <2>1, <2>2
<1>6. ASSUME NEW d \in Document, Tombstone(d)
      PROVE  Rows /\ (Sole(v)' => Free)
  <2>1. CASE DocumentOf[v] = d
    <3>1. ~Sole(v)'
      BY <1>6, <2>1 DEF Tombstone, Sole, Deleted
    <3> QED
      BY <1>6, <3>1 DEF Tombstone, RowsAgree
  <2>2. CASE DocumentOf[v] # d
    BY <1>6, <1>s, <2>2 DEF Tombstone, RowsAgree
  <2> QED
    BY <2>1, <2>2
<1>7. CASE RepairAttempts
  BY <1>7, <1>s DEF RepairAttempts, RowsAgree
<1> QED
  BY <1>0, <1>1, <1>2, <1>3, <1>4, <1>5, <1>6, <1>7 DEF Transaction

-----------------------------------------------------------------------------
(* The calls.                                                              *)

\* The steps at which a workflow waits for no activity.
LEMMA NoActivity ==
  /\ "idle" \notin Activity /\ "qdrant" \notin Activity /\ "ended" \notin Activity
  /\ {"register", "embed", "refresh", "activate", "indexed"} \cup {"failed", "cancelled", "cleanup"}
       \subseteq Activity
BY DEF Activity, After

\* Where a call of the next state may come from, other than the calls there are.
Source(c) ==
  \/ \E v \in Version : /\ Advance(v) /\ pc[v] = "activate"
                        /\ c = NewCall(v, DocumentOf[v], v, FALSE)
  \/ \E v \in Version : /\ LateEffect(v, "activate")
                        /\ c = NewCall(None, DocumentOf[v], v, FALSE)
  \/ \E v \in Version, b \in calls : /\ TimeOut(v) \/ Cancel(v)
                                     /\ b.owner = v /\ c = [b EXCEPT !.owner = None]
  \/ \E b \in calls : /\ CallStep(b) /\ ~LastStep(b)
                      /\ c = [b EXCEPT !.step = FollowingStep(b.step)]
  \/ \E d \in Document : TombstoneDocument(d) /\ c = NewCall(d, d, None, TRUE)
  \/ \E r \in Reconciler, d \in Document :
       /\ ReconcileDocument(r, d)
       /\ c = NewCall(r, d, rec[r].rows[d].active, rec[r].rows[d].status = "deleted")

\* A call that was not there is made by the step, or goes on from one that was.
LEMMA CallsStep ==
  ASSUME TypeOK, [Next]_vars, NEW c \in calls', c \notin calls
  PROVE  Source(c)
<1> USE DEF Source
<1>1. ASSUME NEW v \in Version, NEW s, NEW owner, Perform(v, s, owner)
      PROVE  s = "activate" /\ c = NewCall(owner, DocumentOf[v], v, FALSE)
  BY <1>1 DEF Perform
<1>2. CASE \E v \in Version : Advance(v)
  BY <1>1, <1>2 DEF Advance
<1>3. CASE \E v \in Version, s \in Activity : LateEffect(v, s)
  BY <1>1, <1>3 DEF LateEffect
<1>4. CASE \E v \in Version : TimeOut(v) \/ Cancel(v)
  <2> PICK v \in Version : TimeOut(v) \/ Cancel(v)
    BY <1>4
  <2>1. Disown(v)
    BY DEF TimeOut, Cancel
  <2> QED
    BY <2>1 DEF Disown
<1>5. CASE \E b \in calls : CallStep(b)
  BY <1>5 DEF CallStep
<1>6. CASE \E d \in Document : TombstoneDocument(d)
  BY <1>6 DEF TombstoneDocument
<1>7. CASE \E r \in Reconciler, d \in Document : ReconcileDocument(r, d)
  <2> PICK r \in Reconciler, d \in Document : ReconcileDocument(r, d)
    BY <1>7
  <2>1. c = NewCall(r, d, rec[r].rows[d].active, rec[r].rows[d].status = "deleted")
    BY DEF ReconcileDocument
  <2> QED
    BY <2>1
<1>8. CASE \/ \E v \in Version : \/ Upload(v) \/ Reject(v) \/ GiveUp(v) \/ JanitorDelete(v)
                                \/ \E s \in Activity : LateEnd(v, s)
           \/ \E b \in calls : CallFails(b)
           \/ \E r \in Reconciler : \/ ReconcileRead(r) \/ ReconcileBm25(r)
                                   \/ ReconcileRepair(r) \/ ReconcileFails(r)
           \/ FlushBm25 \/ JanitorSelect \/ UNCHANGED vars
  BY <1>8
  DEF Upload, Reject, GiveUp, JanitorDelete, LateEnd, CallFails, ReconcileRead, ReconcileBm25,
      ReconcileRepair, ReconcileFails, FlushBm25, JanitorSelect, vars, flowVars
<1> QED
  BY <1>2, <1>3, <1>4, <1>5, <1>6, <1>7, <1>8 DEF Next, WorkflowStep, ReconcileStep

\* Calls keep their shape: the first request follows from what they are for, and
\* the order of the requests keeps deletions apart from the rest.
LEMMA CallsShapedStep ==
  ASSUME TypeOK, CallsShaped, RowsDeleted, [Next]_vars
  PROVE  CallsShaped'
<1> USE LedgerAssumption, IngestionAssumption DEF TypeOK, FlowTypeOK
<1> SUFFICES ASSUME NEW c \in calls'
             PROVE  /\ c.owner \in Document => c.deleted /\ c.doc = c.owner
                    /\ c.deleted => Deleted(c.doc)' /\ c.step \in {"drop", "legacy", "refresh"}
                    /\ c.step = "drop" => c.deleted
                    /\ c.step = "show" => c.active \in Version
  BY DEF CallsShaped
<1>d. \A d \in Document : Deleted(d) => Deleted(d)'
  BY DeletedStays, StepIsTransaction
<1>0. CASE c \in calls
  BY <1>0, <1>d DEF CallsShaped, Call
<1>1. ASSUME NEW v \in Version, NEW owner \in Version \cup {None},
             c = NewCall(owner, DocumentOf[v], v, FALSE)
      PROVE  c.owner \notin Document /\ ~c.deleted /\ c.step = "show" /\ c.active \in Version
  BY <1>1 DEF NewCall
<1>2. ASSUME NEW b \in calls, c = [b EXCEPT !.owner = None]
      PROVE  /\ c.owner \notin Document /\ c.deleted = b.deleted /\ c.doc = b.doc
             /\ c.step = b.step /\ c.active = b.active
  BY <1>2 DEF Call
<1>3. ASSUME NEW b \in calls, CallStep(b), ~LastStep(b), c = [b EXCEPT !.step = FollowingStep(b.step)]
      PROVE  /\ c.owner = b.owner /\ c.deleted = b.deleted /\ c.doc = b.doc /\ c.active = b.active
             /\ c.step \in {"hide", "legacy", "refresh"}
             /\ c.step = "hide" => b.step = "show"
  BY <1>3 DEF Call, FollowingStep
<1>4. ASSUME NEW d \in Document, TombstoneDocument(d), c = NewCall(d, d, None, TRUE)
      PROVE  c.doc = d /\ c.owner = d /\ c.deleted /\ c.step = "drop" /\ Deleted(d)'
  BY <1>4 DEF NewCall, TombstoneDocument, Tombstone, Deleted, LedgerTypeOK
<1>5. ASSUME NEW r \in Reconciler, NEW d \in Document,
             c = NewCall(r, d, rec[r].rows[d].active, rec[r].rows[d].status = "deleted")
      PROVE  /\ c.owner \notin Document
             /\ c.deleted => Deleted(c.doc)' /\ c.step \in {"drop", "legacy", "refresh"}
             /\ c.step = "drop" => c.deleted
             /\ c.step = "show" => c.active \in Version
  <2>1. rec[r].rows[d].active \in Version \cup {None}
    BY DEF Run, DocumentRow
  <2>2. rec[r].rows[d].status = "deleted" => Deleted(d)'
    BY <1>d DEF RowsDeleted
  <2> QED
    BY <1>5, <2>1, <2>2 DEF NewCall
<1>6. CASE \E b \in calls : c = [b EXCEPT !.owner = None]
  <2> PICK b \in calls : c = [b EXCEPT !.owner = None]
    BY <1>6
  <2>1. b.doc \in Document
    BY DEF Call
  <2> QED
    BY <1>2, <1>d, <2>1 DEF CallsShaped
<1>7. CASE \E b \in calls : /\ CallStep(b) /\ ~LastStep(b)
                           /\ c = [b EXCEPT !.step = FollowingStep(b.step)]
  <2> PICK b \in calls : CallStep(b) /\ ~LastStep(b) /\ c = [b EXCEPT !.step = FollowingStep(b.step)]
    BY <1>7
  <2>1. b.doc \in Document
    BY DEF Call
  <2> QED
    BY <1>3, <1>d, <2>1 DEF CallsShaped
<1>8. CASE \E v \in Version : \/ c = NewCall(v, DocumentOf[v], v, FALSE)
                              \/ c = NewCall(None, DocumentOf[v], v, FALSE)
  BY <1>1, <1>8
<1>9. CASE \E d \in Document : TombstoneDocument(d) /\ c = NewCall(d, d, None, TRUE)
  BY <1>4, <1>9
<1>10. CASE \E r \in Reconciler, d \in Document :
              c = NewCall(r, d, rec[r].rows[d].active, rec[r].rows[d].status = "deleted")
  BY <1>5, <1>10
<1> HIDE DEF TypeOK, FlowTypeOK
<1>11. CASE c \notin calls
  <2>1. Source(c)
    BY <1>11, CallsStep
  <2> QED
    BY <2>1, <1>6, <1>7, <1>8, <1>9, <1>10, Zenon DEF Source
<1> QED
  BY <1>0, <1>11

\* What a reconciliation has read of a tombstone stays true.
LEMMA RowsDeletedStep ==
  ASSUME TypeOK, RowsDeleted, [Next]_vars
  PROVE  RowsDeleted'
<1> USE DEF TypeOK
<1> SUFFICES ASSUME NEW r \in Reconciler, NEW d \in Document, rec'[r].rows[d].status = "deleted"
             PROVE  Deleted(d)'
  BY DEF RowsDeleted
<1>1. Deleted(d) => Deleted(d)'
  BY DeletedStays, StepIsTransaction
<1>2. ASSUME rec'[r].rows[d].status = rec[r].rows[d].status
      PROVE  Deleted(d)'
  BY <1>1, <1>2 DEF RowsDeleted
<1>3. CASE ReconcileRead(r)
  <2>1. rec'[r].rows[d].status = document[d].status
    BY <1>3 DEF ReconcileRead, FlowTypeOK
  <2> QED
    BY <1>1, <2>1 DEF Deleted
<1>4. CASE ReconcileBm25(r) \/ ReconcileRepair(r) \/ ReconcileFails(r)
  <2>1. rec'[r].rows = NoRows
    <3>1. NoRun.rows = NoRows /\ [NoRun EXCEPT !.step = "repair"].rows = NoRows
      BY DEF NoRun
    <3> QED
      BY <1>4, <3>1 DEF ReconcileBm25, ReconcileRepair, ReconcileFails, FlowTypeOK
  <2> QED
    BY <2>1 DEF NoRows
<1>5. CASE \E e \in Document : ReconcileDocument(r, e)
  BY <1>2, <1>5 DEF ReconcileDocument, FlowTypeOK, Run
<1>6. CASE \E q \in Reconciler \ {r} :
             \/ ReconcileRead(q) \/ ReconcileBm25(q) \/ ReconcileRepair(q) \/ ReconcileFails(q)
             \/ \E e \in Document : ReconcileDocument(q, e)
  BY <1>2, <1>6 DEF ReconcileRead, ReconcileBm25, ReconcileRepair, ReconcileFails,
                    ReconcileDocument, FlowTypeOK
<1>7. CASE \E c \in calls : CallFails(c)
  BY <1>2, <1>7 DEF CallFails, FlowTypeOK, Run
<1>8. CASE \/ \E v \in Version : WorkflowStep(v) \/ JanitorDelete(v)
           \/ \E c \in calls : CallStep(c)
           \/ \E e \in Document : TombstoneDocument(e)
           \/ FlushBm25 \/ JanitorSelect \/ UNCHANGED vars
  <2>1. rec' = rec
    BY <1>8 DEF WorkflowStep, Upload, Advance, Reject, GiveUp, TimeOut, Cancel, LateEffect, LateEnd,
                JanitorDelete, CallStep, TombstoneDocument, FlushBm25, JanitorSelect, vars, flowVars
  <2> QED
    BY <1>2, <2>1
<1> QED
  BY <1>3, <1>4, <1>5, <1>6, <1>7, <1>8 DEF Next, ReconcileStep

-----------------------------------------------------------------------------
(* What changes the state of a workflow.                                   *)

\* How a workflow may get from one activity to another.
Moves(v) ==
  \/ pc'[v] = pc[v]
  \/ Upload(v) \/ Advance(v) \/ Reject(v) \/ Cancel(v)
  \/ /\ faults' # 0
     /\ \/ pc[v] \in Activity /\ pc'[v] = OnError(pc[v])
        \/ pc[v] = "refresh" /\ pc'[v] = "embed"
        \/ pc[v] = "qdrant" /\ pc'[v] \in {"activate", "failed"}
  \/ pc[v] = "qdrant" /\ pc'[v] = "indexed"

\* Every step moves each workflow in one of these ways or not at all.
LEMMA PcStep ==
  ASSUME TypeOK, CallsOwned, [Next]_vars, NEW v \in Version
  PROVE  Moves(v)
<1> USE IngestionAssumption DEF TypeOK, FlowTypeOK, Moves
<1>1. ASSUME NEW w \in Version, w # v, Goto(w, pc'[w])
      PROVE  pc'[v] = pc[v]
  BY <1>1 DEF Goto
<1>2. CASE Upload(v) \/ Advance(v) \/ Reject(v) \/ Cancel(v)
  BY <1>2
<1>3. CASE GiveUp(v) \/ TimeOut(v)
  <2>1. faults' # 0
    BY <1>3 DEF GiveUp, TimeOut, Spend
  <2> QED
    BY <1>3, <2>1, NoActivity DEF GiveUp, TimeOut, Goto
<1>4. ASSUME NEW w \in Version, w # v, WorkflowStep(w)
      PROVE  pc'[v] = pc[v]
  BY <1>4 DEF WorkflowStep, Upload, Advance, Reject, GiveUp, TimeOut, Cancel, LateEffect, LateEnd, Goto
<1>5. CASE \E c \in calls : CallStep(c)
  <2> PICK c \in calls : CallStep(c)
    BY <1>5
  <2>1. c.owner = v => pc[v] = "qdrant"
    BY DEF CallsOwned
  <2> QED
    BY <2>1 DEF CallStep
<1>6. CASE \E c \in calls : CallFails(c)
  <2> PICK c \in calls : CallFails(c)
    BY <1>6
  <2>1. CASE c.owner = v
    <3>1. faults' # 0
      BY <2>1, LedgerAssumption DEF CallFails, Spend
    <3>2. pc[v] = "qdrant"
      BY <2>1 DEF CallsOwned
    <3>3. c.owner \in Version /\ c.owner \notin Reconciler
      BY <2>1
    <3>4. Goto(c.owner, "activate") \/ Goto(c.owner, "failed")
      BY <3>3 DEF CallFails
    <3> QED
      BY <2>1, <3>1, <3>2, <3>4 DEF Goto
  <2>2. CASE c.owner # v
    BY <2>2 DEF CallFails, Goto
  <2> QED
    BY <2>1, <2>2
<1>7. CASE \/ \E w \in Version : JanitorDelete(w)
           \/ \E s \in Activity : LateEffect(v, s) \/ LateEnd(v, s)
           \/ \E d \in Document : TombstoneDocument(d)
           \/ \E r \in Reconciler : ReconcileStep(r) \/ ReconcileFails(r)
           \/ FlushBm25 \/ JanitorSelect \/ UNCHANGED vars
  <2>1. pc' = pc
    BY <1>7
    DEF JanitorDelete, LateEffect, LateEnd, TombstoneDocument, ReconcileStep, ReconcileRead,
        ReconcileDocument, ReconcileBm25, ReconcileRepair, ReconcileFails, FlushBm25, JanitorSelect,
        vars, flowVars
  <2> QED
    BY <2>1
<1> QED
  BY <1>2, <1>3, <1>4, <1>5, <1>6, <1>7 DEF Next, WorkflowStep

\* An activity is abandoned by the workflow that is at it, or is the rebuild
\* that follows an abandoned embedding.
LEMMA LateStep ==
  ASSUME TypeOK, [Next]_vars, NEW v \in Version, NEW s \in Activity,
         <<v, s>> \in late', <<v, s>> \notin late
  PROVE  \/ pc[v] = s /\ faults' # 0
         \/ s = "refresh" /\ late # {}
<1> USE IngestionAssumption DEF TypeOK, FlowTypeOK
<1>1. CASE \E w \in Version : TimeOut(w) \/ Cancel(w)
  BY <1>1 DEF TimeOut, Cancel, Spend
<1>2. CASE \E w \in Version, t \in Activity : LateEffect(w, t)
  BY <1>2 DEF LateEffect
<1>3. CASE \/ \E w \in Version : \/ Upload(w) \/ Advance(w) \/ Reject(w) \/ GiveUp(w)
                                \/ JanitorDelete(w) \/ \E t \in Activity : LateEnd(w, t)
           \/ \E c \in calls : CallStep(c) \/ CallFails(c)
           \/ \E d \in Document : TombstoneDocument(d)
           \/ \E r \in Reconciler : ReconcileStep(r) \/ ReconcileFails(r)
           \/ FlushBm25 \/ JanitorSelect \/ UNCHANGED vars
  <2>1. late' \subseteq late
    BY <1>3
    DEF Upload, Advance, Reject, GiveUp, JanitorDelete, LateEnd, CallStep, CallFails,
        TombstoneDocument, ReconcileStep, ReconcileRead, ReconcileDocument, ReconcileBm25,
        ReconcileRepair, ReconcileFails, FlushBm25, JanitorSelect, vars, flowVars
  <2> QED
    BY <2>1
<1> QED
  BY <1>1, <1>2, <1>3 DEF Next, WorkflowStep

\* Faults are never forgotten.
LEMMA FaultsStep ==
  ASSUME TypeOK, [Next]_vars, faults' = 0
  PROVE  faults = 0
<1> USE IngestionAssumption DEF TypeOK, FlowTypeOK
<1>1. faults' = faults \/ Spend
  BY DEF Next, WorkflowStep, Upload, Advance, Reject, GiveUp, TimeOut, Cancel, LateEffect, LateEnd,
         JanitorDelete, CallStep, CallFails, TombstoneDocument, ReconcileStep, ReconcileRead,
         ReconcileDocument, ReconcileBm25, ReconcileRepair, ReconcileFails, FlushBm25,
         JanitorSelect, vars, flowVars
<1> QED
  BY <1>1 DEF Spend

\* Activities, on time or late.
Performs(v, s) == (pc[v] = s /\ Advance(v)) \/ (<<v, s>> \in late /\ LateEffect(v, s))

\* Either way it is the activity, for the workflow or for no one.
LEMMA PerformsIs ==
  ASSUME NEW v \in Version, NEW s, Performs(v, s)
  PROVE  \E owner \in Version \cup {None} : Perform(v, s, owner)
BY DEF Performs, Advance, LateEffect

\* An attempt is closed by the activity of that name, or found indexed by a
\* reconciliation.
LEMMA AttemptStep ==
  ASSUME TypeOK, [Next]_vars, NEW v \in Version, attempt'[v] # attempt[v]
  PROVE  \/ \E s \in StageStep : Performs(v, s) /\ attempt'[v] = "processing"
         \/ Performs(v, "register") /\ attempt'[v] = "queued"
         \/ \E s \in Verdict : Performs(v, s) /\ attempt'[v] = s
         \/ attempt'[v] = "indexed" /\ version[v] = "active" /\ attempt[v] \in {"processing", "failed"}
<1> USE DEF TypeOK, LedgerTypeOK
<1>1. ASSUME NEW w \in Version, NEW s, Performs(w, s)
      PROVE  /\ w = v
             /\ \/ s \in StageStep /\ attempt'[v] = "processing"
                \/ s = "register" /\ attempt'[v] = "queued"
                \/ s \in Verdict /\ attempt'[v] = s
  <2> PICK owner \in Version \cup {None} : Perform(w, s, owner)
    BY <1>1, PerformsIs
  <2>1. \/ s = "register" /\ Register(w)
        \/ s \in StageStep /\ EnterStage(w)
        \/ s \in Verdict /\ Finish(w, s)
        \/ attempt' = attempt
    BY DEF Perform, Persist, Activate, ledgerVars
  <2> QED
    BY <2>1 DEF Register, EnterStage, Finish
<1>2. CASE \E w \in Version : Advance(w)
  BY <1>1, <1>2 DEF Performs
<1>3. CASE \E w \in Version, s \in Activity : LateEffect(w, s)
  <2> PICK w \in Version, s \in Activity : LateEffect(w, s)
    BY <1>3
  <2>1. Performs(w, s)
    BY DEF Performs, LateEffect
  <2> QED
    BY <1>1, <2>1
<1>4. CASE \E r \in Reconciler : ReconcileRepair(r)
  BY <1>4 DEF ReconcileRepair, RepairAttempts
<1>5. CASE \/ \E w \in Version : \/ Upload(w) \/ Reject(w) \/ GiveUp(w) \/ TimeOut(w) \/ Cancel(w)
                                \/ JanitorDelete(w) \/ \E t \in Activity : LateEnd(w, t)
           \/ \E c \in calls : CallStep(c) \/ CallFails(c)
           \/ \E d \in Document : TombstoneDocument(d)
           \/ \E r \in Reconciler : \/ ReconcileRead(r) \/ ReconcileBm25(r) \/ ReconcileFails(r)
                                   \/ \E d \in Document : ReconcileDocument(r, d)
           \/ FlushBm25 \/ JanitorSelect \/ UNCHANGED vars
  <2>1. attempt' = attempt
    BY <1>5
    DEF Upload, Reject, GiveUp, TimeOut, Cancel, JanitorDelete, LateEnd, CallStep, CallFails,
        TombstoneDocument, Tombstone, ReconcileRead, ReconcileDocument, ReconcileBm25,
        ReconcileFails, FlushBm25, JanitorSelect, vars, ledgerVars
  <2> QED
    BY <2>1
<1> QED
  BY <1>2, <1>3, <1>4, <1>5 DEF Next, WorkflowStep, ReconcileStep

\* Only its activation publishes a version.
LEMMA PublishedStep ==
  ASSUME TypeOK, [Next]_vars, NEW v \in Version, ~Published(v), Published(v)'
  PROVE  Performs(v, "activate")
<1> USE DEF TypeOK, LedgerTypeOK, Published
<1>1. ASSUME NEW w \in Version, NEW s, Performs(w, s)
      PROVE  w = v /\ s = "activate"
  <2> PICK owner \in Version \cup {None} : Perform(w, s, owner)
    BY <1>1, PerformsIs
  <2>1. \/ Register(w) \/ EnterStage(w) \/ Persist(w)
        \/ s \in Verdict /\ Finish(w, s)
        \/ s = "activate" /\ Activate(w)
        \/ version' = version
    BY DEF Perform, ledgerVars
  <2>2. CASE Register(w) \/ EnterStage(w) \/ Persist(w) \/ (s \in Verdict /\ Finish(w, s))
    BY <2>2 DEF Register, EnterStage, Persist, Finish
  <2>3. CASE s = "activate" /\ Activate(w)
    BY <2>3 DEF Activate
  <2> QED
    BY <2>1, <2>2, <2>3
<1>2. CASE \E w \in Version : Advance(w)
  BY <1>1, <1>2 DEF Performs
<1>3. CASE \E w \in Version, s \in Activity : LateEffect(w, s)
  <2> PICK w \in Version, s \in Activity : LateEffect(w, s)
    BY <1>3
  <2>1. Performs(w, s)
    BY DEF Performs, LateEffect
  <2> QED
    BY <1>1, <2>1
<1>4. CASE \E d \in Document : TombstoneDocument(d)
  BY <1>4 DEF TombstoneDocument, Tombstone
<1>5. CASE \/ \E w \in Version : \/ Upload(w) \/ Reject(w) \/ GiveUp(w) \/ TimeOut(w) \/ Cancel(w)
                                \/ JanitorDelete(w) \/ \E t \in Activity : LateEnd(w, t)
           \/ \E c \in calls : CallStep(c) \/ CallFails(c)
           \/ \E r \in Reconciler : ReconcileStep(r) \/ ReconcileFails(r)
           \/ FlushBm25 \/ JanitorSelect \/ UNCHANGED vars
  <2>1. version' = version
    BY <1>5
    DEF Upload, Reject, GiveUp, TimeOut, Cancel, JanitorDelete, LateEnd, CallStep, CallFails,
        ReconcileStep, ReconcileRead, ReconcileDocument, ReconcileBm25, ReconcileRepair,
        RepairAttempts, ReconcileFails, FlushBm25, JanitorSelect, vars, ledgerVars
  <2> QED
    BY <2>1
<1> QED
  BY <1>2, <1>3, <1>4, <1>5 DEF Next, WorkflowStep

\* An activation that succeeds leaves its version published.
LEMMA ActivationPublishes ==
  ASSUME LedgerTypeOK, PointerCoherent, NEW v \in Version, Performs(v, "activate")
  PROVE  Published(v)'
<1> PICK owner \in Version \cup {None} : Perform(v, "activate", owner)
  BY PerformsIs
<1>1. Activate(v)
  BY DEF Perform, Verdict, StageStep
<1>2. CASE PointsAt(v)
  BY <1>1, <1>2 DEF Activate, PointerCoherent, Published
<1>3. CASE ~PointsAt(v)
  BY <1>1, <1>3 DEF Activate, PointsAt, Published
<1> QED
  BY <1>2, <1>3

\* Chunk rows are never removed.
LEMMA ChunkRowsGrow ==
  ASSUME [Next]_vars
  PROVE  chunkRows \subseteq chunkRows'
<1>1. CASE Transaction
  BY <1>1 DEF Transaction, Register, EnterStage, Persist, Activate, Finish, Tombstone, RepairAttempts
<1>2. CASE UNCHANGED ledgerVars
  BY <1>2 DEF ledgerVars
<1> QED
  BY <1>1, <1>2, StepIsTransaction

\* Artifacts are removed by the cleanup and by the janitor, of the versions it
\* selected.
LEMMA ArtifactsStep ==
  ASSUME TypeOK, [Next]_vars, NEW v \in Version, NEW stage \in artifacts[v], stage \notin artifacts'[v]
  PROVE  Performs(v, "cleanup") \/ v \in expired
<1> USE DEF TypeOK, FlowTypeOK
<1>1. ASSUME NEW w \in Version, NEW s, Performs(w, s)
      PROVE  w = v /\ s = "cleanup"
  <2> PICK owner \in Version \cup {None} : Perform(w, s, owner)
    BY <1>1, PerformsIs
  <2>1. \/ artifacts' = artifacts
        \/ \E kind : artifacts' = [artifacts EXCEPT ![w] = @ \cup {kind}]
        \/ s = "cleanup" /\ artifacts' = [artifacts EXCEPT ![w] = {}]
    BY DEF Perform, StoreArtifact
  <2> QED
    BY <2>1
<1>2. CASE \E w \in Version : Advance(w)
  BY <1>1, <1>2 DEF Performs
<1>3. CASE \E w \in Version, s \in Activity : LateEffect(w, s)
  <2> PICK w \in Version, s \in Activity : LateEffect(w, s)
    BY <1>3
  <2>1. Performs(w, s)
    BY DEF Performs, LateEffect
  <2> QED
    BY <1>1, <2>1
<1>4. CASE \E w \in Version : JanitorDelete(w)
  BY <1>4 DEF JanitorDelete
<1>5. CASE \/ \E w \in Version : \/ Upload(w) \/ Reject(w) \/ GiveUp(w) \/ TimeOut(w) \/ Cancel(w)
                                \/ \E t \in Activity : LateEnd(w, t)
           \/ \E c \in calls : CallStep(c) \/ CallFails(c)
           \/ \E d \in Document : TombstoneDocument(d)
           \/ \E r \in Reconciler : ReconcileStep(r) \/ ReconcileFails(r)
           \/ FlushBm25 \/ JanitorSelect \/ UNCHANGED vars
  <2>1. artifacts' = artifacts
    BY <1>5
    DEF Upload, Reject, GiveUp, TimeOut, Cancel, LateEnd, CallStep, CallFails, TombstoneDocument,
        ReconcileStep, ReconcileRead, ReconcileDocument, ReconcileBm25, ReconcileRepair,
        ReconcileFails, FlushBm25, JanitorSelect, vars, flowVars
  <2> QED
    BY <2>1
<1> QED
  BY <1>2, <1>3, <1>4, <1>5 DEF Next, WorkflowStep

\* The janitor selects uploads that were recorded as failed or cancelled.
LEMMA ExpiredStep ==
  ASSUME TypeOK, [Next]_vars, NEW v \in expired', v \notin expired
  PROVE  v \in Version /\ attempt[v] \in {"failed", "cancelled"}
<1>1. CASE JanitorSelect
  BY <1>1 DEF JanitorSelect
<1>2. CASE ~JanitorSelect
  <2>1. expired' \subseteq expired
    BY <1>2
    DEF Next, WorkflowStep, Upload, Advance, Reject, GiveUp, TimeOut, Cancel, LateEffect, LateEnd,
        JanitorDelete, CallStep, CallFails, TombstoneDocument, ReconcileStep, ReconcileRead,
        ReconcileDocument, ReconcileBm25, ReconcileRepair, ReconcileFails, FlushBm25, vars, flowVars
  <2> QED
    BY <2>1
<1> QED
  BY <1>1, <1>2

\* Points are removed by a call of a tombstone, become visible by a call that
\* shows their version, and appear when the version is embedded.
LEMMA PointsStep ==
  ASSUME TypeOK, [Next]_vars, NEW v \in Version, points'[v] # points[v]
  PROVE  \/ Performs(v, "embed") /\ points'[v] = "hidden"
         \/ /\ points'[v] = "absent"
            /\ \E c \in calls : c.step = "drop" /\ c.doc = DocumentOf[v]
         \/ /\ points'[v] = "visible" /\ points[v] # "absent"
            /\ \E c \in calls : c.step = "show" /\ c.active = v
         \/ points'[v] = "hidden" /\ points[v] = "visible"
<1> USE DEF TypeOK, IndexTypeOK
<1>1. ASSUME NEW w \in Version, NEW s, Performs(w, s)
      PROVE  w = v /\ s = "embed" /\ points'[v] = "hidden"
  <2> PICK owner \in Version \cup {None} : Perform(w, s, owner)
    BY <1>1, PerformsIs
  <2>1. \/ points' = points
        \/ s = "embed" /\ Upsert(w)
    BY DEF Perform, RefreshBm25, RebuildBm25, indexVars
  <2> QED
    BY <2>1 DEF Upsert
<1>2. CASE \E w \in Version : Advance(w)
  BY <1>1, <1>2 DEF Performs
<1>3. CASE \E w \in Version, s \in Activity : LateEffect(w, s)
  <2> PICK w \in Version, s \in Activity : LateEffect(w, s)
    BY <1>3
  <2>1. Performs(w, s)
    BY DEF Performs, LateEffect
  <2> QED
    BY <1>1, <2>1
<1>4. CASE \E c \in calls : CallStep(c)
  <2> PICK c \in calls : Request(c)
    BY <1>4 DEF CallStep
  <2>1. CASE c.step = "show" /\ ShowVersion(c.active)
    BY <2>1 DEF ShowVersion
  <2>2. CASE c.step = "drop" /\ DropPoints(c.doc)
    BY <2>2 DEF DropPoints
  <2>3. CASE HideOthers(c.doc, c.active)
    BY <2>3 DEF HideOthers
  <2>4. CASE DropLegacyPoints(c.doc) \/ RefreshBm25(c.deleted)
    BY <2>4 DEF DropLegacyPoints, RefreshBm25, RebuildBm25
  <2> QED
    BY <2>1, <2>2, <2>3, <2>4 DEF Request
<1>5. CASE \/ \E w \in Version : \/ Upload(w) \/ Reject(w) \/ GiveUp(w) \/ TimeOut(w) \/ Cancel(w)
                                \/ JanitorDelete(w) \/ \E t \in Activity : LateEnd(w, t)
           \/ \E c \in calls : CallFails(c)
           \/ \E d \in Document : TombstoneDocument(d)
           \/ \E r \in Reconciler : ReconcileStep(r) \/ ReconcileFails(r)
           \/ FlushBm25 \/ JanitorSelect \/ UNCHANGED vars
  <2>1. points' = points
    BY <1>5
    DEF Upload, Reject, GiveUp, TimeOut, Cancel, JanitorDelete, LateEnd, CallFails, TombstoneDocument,
        ReconcileStep, ReconcileRead, ReconcileDocument, ReconcileBm25, ReconcileRepair,
        ReconcileFails, FlushBm25, RefreshBm25, RebuildBm25, JanitorSelect, vars, indexVars
  <2> QED
    BY <2>1
<1> QED
  BY <1>2, <1>3, <1>4, <1>5 DEF Next, WorkflowStep

-----------------------------------------------------------------------------
(* The parts of the invariant.                                             *)

\* A workflow that stops waiting disowns its call, or its call has ended.
LEMMA CallsOwnedStep ==
  ASSUME TypeOK, CallsOwned, [Next]_vars
  PROVE  CallsOwned'
<1> USE LedgerAssumption, IngestionAssumption DEF TypeOK, FlowTypeOK
<1> SUFFICES ASSUME NEW c \in calls', c.owner \in Version, NEW b \in calls', b.owner = c.owner
             PROVE  c.active = c.owner /\ pc'[c.owner] = "qdrant" /\ b = c
  BY DEF CallsOwned
<1> DEFINE v == c.owner
           Goal == c.active = c.owner /\ pc'[c.owner] = "qdrant" /\ b = c
<1> HIDE DEF v, Goal
<1>v. v \in Version /\ v = c.owner
  BY DEF v
<1>0. ASSUME c \in calls, b \in calls, pc'[v] = pc[v]
      PROVE  Goal
  BY <1>0, <1>v DEF CallsOwned, Goal
<1>1. ASSUME NEW e \in calls, e.owner = v
      PROVE  pc[v] = "qdrant" /\ \A f \in calls : f.owner = v => f = e
  BY <1>1, <1>v DEF CallsOwned
<1>2. ASSUME NEW w \in Version, Advance(w)
      PROVE  Goal
  <2>1. CASE calls' = calls
    <3>1. w # v
      BY <1>1, <1>2, <1>v, <2>1, NoActivity DEF Advance
    <3> QED
      BY <1>0, <1>2, <1>v, <2>1, <3>1 DEF Advance, Goto
  <2>2. CASE calls' # calls
    <3>1. /\ pc[w] = "activate"
          /\ calls' = calls \cup {NewCall(w, DocumentOf[w], w, FALSE)}
          /\ pc' = [pc EXCEPT ![w] = "qdrant"]
      <4>1. pc[w] = "activate" /\ calls' = calls \cup {NewCall(w, DocumentOf[w], w, FALSE)}
        BY <1>2, <2>2 DEF Advance, Perform
      <4>2. After["activate"] = "qdrant"
        BY DEF After
      <4> QED
        BY <1>2, <4>1, <4>2 DEF Advance, Goto
    <3>2. /\ NewCall(w, DocumentOf[w], w, FALSE).owner = w
          /\ NewCall(w, DocumentOf[w], w, FALSE).active = w
      BY DEF NewCall
    <3>3. CASE w = v
      BY <1>1, <1>v, <3>1, <3>2, <3>3, NoActivity DEF Goal
    <3>4. CASE w # v
      <4>1. c \in calls /\ b \in calls
        BY <1>v, <3>1, <3>2, <3>4
      <4>2. pc'[v] = pc[v]
        BY <1>v, <3>1, <3>4
      <4> QED
        BY <1>0, <4>1, <4>2
    <3> QED
      BY <3>3, <3>4
  <2> QED
    BY <2>1, <2>2
<1>3. ASSUME NEW w \in Version, Disown(w), w # v => pc'[v] = pc[v]
      PROVE  Goal
  <2>1. \A e \in calls : [e EXCEPT !.owner = None].owner = None
    BY DEF Call
  <2>2. ASSUME NEW e \in calls', e.owner \in Version
        PROVE  e \in calls /\ e.owner # w
    <3> PICK f \in calls : e = IF f.owner = w THEN [f EXCEPT !.owner = None] ELSE f
      BY <1>3, <2>2 DEF Disown
    <3> QED
      BY <2>1, <2>2
  <2>3. c \in calls /\ b \in calls /\ w # v
    BY <1>v, <2>2
  <2> QED
    BY <1>0, <1>3, <2>3
<1>4. ASSUME NEW w \in Version, Cancel(w)
      PROVE  Goal
  BY <1>3, <1>4, <1>v DEF Cancel, Goto
<1>5. ASSUME NEW w \in Version, Upload(w) \/ Reject(w) \/ GiveUp(w) \/ TimeOut(w), calls' = calls
      PROVE  Goal
  <2>1. w = v => pc'[v] = pc[v]
    <3>1. CASE w # v
      BY <3>1
    <3>2. CASE w = v
      <4>1. pc[v] = "qdrant"
        BY <1>1, <1>5, <1>v
      <4>2. TimeOut(v) /\ Disown(v)
        BY <1>5, <3>2, <4>1, NoActivity DEF Upload, Reject, GiveUp, TimeOut
      <4>3. c.owner # v
        <5>1. \A e \in calls : [e EXCEPT !.owner = None].owner = None
          BY DEF Call
        <5> QED
          BY <1>v, <4>2, <5>1 DEF Disown
      <4> QED
        BY <1>v, <4>3
    <3> QED
      BY <3>1, <3>2
  <2>2. w # v => pc'[v] = pc[v]
    BY <1>5, <1>v DEF Upload, Reject, GiveUp, TimeOut, Goto
  <2> QED
    BY <1>0, <1>5, <2>1, <2>2
<1>6. ASSUME NEW w \in Version, TimeOut(w), calls' # calls
      PROVE  Goal
  BY <1>3, <1>6, <1>v DEF TimeOut, Goto
<1>7. ASSUME NEW e \in calls, CallStep(e)
      PROVE  Goal
  <2>1. CASE LastStep(e)
    <3>1. e.owner # v /\ c \in calls /\ b \in calls
      BY <1>1, <1>7, <1>v, <2>1 DEF CallStep
    <3>2. pc'[v] = pc[v]
      BY <1>7, <1>v, <2>1, <3>1 DEF CallStep
    <3> QED
      BY <1>0, <3>1, <3>2
  <2>2. CASE ~LastStep(e)
    <3> DEFINE f == [e EXCEPT !.step = FollowingStep(e.step)]
    <3>1. f.owner = e.owner /\ f.active = e.active
      BY DEF Call
    <3>2. calls' = (calls \ {e}) \cup {f} /\ pc' = pc
      BY <1>7, <2>2 DEF CallStep
    <3> HIDE DEF f
    <3>3. CASE e.owner = v
      <4>1. c = f /\ b = f
        BY <1>1, <1>v, <3>1, <3>2, <3>3
      <4>2. e.active = v /\ pc[v] = "qdrant"
        BY <1>v, <3>3 DEF CallsOwned
      <4> QED
        BY <1>v, <3>1, <3>2, <4>1, <4>2 DEF Goal
    <3>4. CASE e.owner # v
      BY <1>0, <1>v, <3>1, <3>2, <3>4
    <3> QED
      BY <3>3, <3>4
  <2> QED
    BY <2>1, <2>2
<1>8. ASSUME NEW e \in calls, CallFails(e)
      PROVE  Goal
  <2>1. e.owner # v /\ c \in calls /\ b \in calls
    BY <1>1, <1>8, <1>v DEF CallFails
  <2>2. pc'[v] = pc[v]
    BY <1>8, <1>v, <2>1 DEF CallFails, Goto
  <2> QED
    BY <1>0, <2>1, <2>2
<1>9. ASSUME pc' = pc, NEW new, new.owner \notin Version, calls' \subseteq calls \cup {new}
      PROVE  Goal
  BY <1>0, <1>9, <1>v
<1>10. ASSUME NEW w \in Version, NEW s \in Activity, LateEffect(w, s)
       PROVE  Goal
  <2>1. NewCall(None, DocumentOf[w], w, FALSE).owner = None
    BY DEF NewCall
  <2>2. calls' \subseteq calls \cup {NewCall(None, DocumentOf[w], w, FALSE)} /\ pc' = pc
    BY <1>10 DEF LateEffect, Perform
  <2> QED
    BY <1>9, <2>1, <2>2
<1>11. ASSUME NEW d \in Document, TombstoneDocument(d)
       PROVE  Goal
  <2>1. NewCall(d, d, None, TRUE).owner = d
    BY DEF NewCall
  <2>2. calls' \subseteq calls \cup {NewCall(d, d, None, TRUE)} /\ pc' = pc
    BY <1>11 DEF TombstoneDocument
  <2> QED
    BY <1>9, <2>1, <2>2
<1>12. ASSUME NEW r \in Reconciler, NEW d \in Document, ReconcileDocument(r, d)
       PROVE  Goal
  <2> DEFINE new == NewCall(r, d, rec[r].rows[d].active, rec[r].rows[d].status = "deleted")
  <2>1. new.owner = r
    BY DEF NewCall
  <2>2. calls' \subseteq calls \cup {new} /\ pc' = pc
    BY <1>12 DEF ReconcileDocument
  <2> QED
    BY <1>9, <2>1, <2>2
<1>13. ASSUME \/ \E w \in Version : JanitorDelete(w) \/ \E s \in Activity : LateEnd(w, s)
              \/ \E r \in Reconciler : \/ ReconcileRead(r) \/ ReconcileBm25(r)
                                      \/ ReconcileRepair(r) \/ ReconcileFails(r)
              \/ FlushBm25 \/ JanitorSelect \/ UNCHANGED vars
       PROVE  Goal
  <2>1. pc' = pc /\ calls' = calls
    BY <1>13
    DEF JanitorDelete, LateEnd, ReconcileRead, ReconcileBm25, ReconcileRepair, ReconcileFails,
        FlushBm25, JanitorSelect, vars, flowVars
  <2> QED
    BY <1>0, <2>1
<1>14. ASSUME NEW w \in Version, WorkflowStep(w)
       PROVE  Goal
  <2>1. CASE Upload(w) \/ Reject(w) \/ GiveUp(w) \/ TimeOut(w)
    <3>1. calls' = calls \/ TimeOut(w)
      BY <2>1 DEF Upload, Reject, GiveUp
    <3> QED
      BY <1>5, <1>6, <2>1, <3>1
  <2> QED
    BY <1>2, <1>4, <1>10, <1>13, <1>14, <2>1 DEF WorkflowStep
<1>15. Goal
  BY <1>7, <1>8, <1>11, <1>12, <1>13, <1>14 DEF Next, ReconcileStep
<1> QED
  BY <1>15 DEF Goal

\* What precedes an activity in a run that succeeds.
LEMMA Predecessor ==
  /\ After["activate"] = "qdrant" /\ After["indexed"] = "cleanup"
  /\ \A s \in Activity :
       /\ After[s] \notin {"register", "indexed", "failed", "cancelled", "idle"}
       /\ After[s] = "chunking" => s = "extract"
       /\ After[s] = "chunk" => s = "chunking"
       /\ After[s] = "persisting" => s = "chunk"
       /\ After[s] = "persist" => s = "persisting"
       /\ After[s] = "indexing" => s = "persist"
       /\ After[s] = "embed" => s = "indexing"
       /\ After[s] = "refresh" => s = "embed"
       /\ After[s] = "activate" => s = "refresh"
       /\ After[s] = "qdrant" => s = "activate"
       /\ After[s] = "cleanup" => s = "indexed"
       /\ After[s] = "ended" <=> s \in {"failed", "cancelled", "cleanup"}
BY DEF After, Activity

\* Where a workflow is after a step.
LEMMA Whereto ==
  ASSUME TypeOK, CallsOwned, [Next]_vars, NEW v \in Version, pc'[v] # pc[v]
  PROVE  \/ pc[v] \in Activity /\ Advance(v) /\ pc'[v] = After[pc[v]]
         \/ pc'[v] \in Closing
         \/ pc[v] = "idle" /\ pc'[v] = "register"
         \/ pc[v] = "refresh" /\ pc'[v] = "embed" /\ faults' # 0
         \/ pc[v] = "qdrant" /\ pc'[v] = "activate" /\ faults' # 0
         \/ pc[v] = "qdrant" /\ pc'[v] = "indexed"
<1>1. Moves(v)
  BY PcStep
<1>2. Upload(v) => pc[v] = "idle" /\ pc'[v] = "register"
  BY DEF Upload, Goto, TypeOK, FlowTypeOK
<1>3. Advance(v) => pc[v] \in Activity /\ pc'[v] = After[pc[v]]
  BY DEF Advance, Goto, TypeOK, FlowTypeOK
<1>4. Reject(v) \/ Cancel(v) => pc'[v] \in Closing
  BY DEF Reject, Cancel, AfterCancel, Goto, OnError, Closing, TypeOK, FlowTypeOK
<1>5. OnError(pc[v]) \in Closing
  BY DEF OnError, Closing
<1> QED
  BY <1>1, <1>2, <1>3, <1>4, <1>5 DEF Moves, Closing

\* A workflow that closes goes on to its end.
LEMMA ClosingStays ==
  ASSUME TypeOK, CallsOwned, [Next]_vars, NEW v \in Version, pc[v] \in Closing \cup {"cleanup"}
  PROVE  pc'[v] = pc[v] \/ pc'[v] \in Closing
BY Whereto, Predecessor, NoActivity DEF Closing

\* A verdict is recorded, and an upload selected by the janitor, only behind a
\* workflow that is closing.
LEMMA FinalStep ==
  ASSUME TypeOK, CallsOwned, Final, [Next]_vars
  PROVE  Final'
<1> SUFFICES ASSUME NEW v \in Version
             PROVE  /\ \/ attempt'[v] \in {"failed", "cancelled"}
                       \/ <<v, "failed">> \in late'
                       \/ <<v, "cancelled">> \in late'
                       \/ v \in expired'
                       => pc'[v] \in Closing
                    /\ <<v, "cleanup">> \in late' => pc'[v] \in Closing \cup {"cleanup"}
  BY DEF Final
<1>1. ASSUME NEW s \in {"failed", "cancelled"}, <<v, s>> \in late'
      PROVE  pc[v] \in Closing
  <2>1. pc[v] = s \/ <<v, s>> \in late
    BY <1>1, LateStep, NoActivity
  <2> QED
    BY <2>1 DEF Final, Closing
<1>2. <<v, "cleanup">> \in late' => pc[v] \in Closing \cup {"cleanup"}
  BY LateStep, NoActivity DEF Final
<1>3. attempt'[v] \in {"failed", "cancelled"} => pc[v] \in Closing
  <2>1. ASSUME NEW s \in Verdict, Performs(v, s), s # "indexed"
        PROVE  pc[v] \in Closing
    BY <2>1 DEF Performs, Final, Closing, Verdict
  <2> QED
    BY <2>1, AttemptStep DEF Final, Verdict
<1>4. v \in expired' => pc[v] \in Closing
  BY ExpiredStep DEF Final
<1> QED
  BY <1>1, <1>2, <1>3, <1>4, ClosingStays DEF Closing

\* Whatever removes artifacts belongs to a workflow that is closing.
LEMMA StoredStep ==
  ASSUME TypeOK, CallsOwned, Final, Stored, [Next]_vars
  PROVE  Stored'
<1> USE DEF TypeOK, FlowTypeOK
<1> SUFFICES ASSUME NEW v \in Version
             PROVE  /\ pc'[v] \in {"chunking", "chunk"} => "pages" \in artifacts'[v]
                    /\ pc'[v] \in {"persisting", "persist", "indexing", "embed", "refresh"}
                         => "chunks" \in artifacts'[v]
  BY DEF Stored
<1>1. ASSUME NEW stage \in artifacts[v], pc[v] \notin Closing \cup {"cleanup"}
      PROVE  stage \in artifacts'[v]
  BY <1>1, ArtifactsStep DEF Final, Performs
<1>2. ASSUME Advance(v), pc[v] = "extract"
      PROVE  "pages" \in artifacts'[v]
  BY <1>2 DEF Advance, Perform, StoreArtifact, Verdict, StageStep
<1>3. ASSUME Advance(v), pc[v] = "chunk"
      PROVE  "chunks" \in artifacts'[v]
  BY <1>3 DEF Advance, Perform, StoreArtifact, Verdict, StageStep
<1> HIDE DEF TypeOK, FlowTypeOK
<1>4. CASE pc'[v] = pc[v]
  BY <1>1, <1>4 DEF Stored, Closing
<1>5. CASE pc'[v] # pc[v]
  BY <1>1, <1>2, <1>3, <1>5, Whereto, Predecessor DEF Stored, Closing
<1> QED
  BY <1>4, <1>5

\* Only a tombstone removes what makes a version ready.
LEMMA ReadyStays ==
  ASSUME TypeOK, CallsShaped, [Next]_vars, NEW v \in Version, Ready(v)
  PROVE  Ready(v)'
<1>1. v \in chunkRows'
  BY ChunkRowsGrow DEF Ready
<1>2. DocumentOf[v] \in Document
  BY LedgerAssumption
<1>3. Deleted(DocumentOf[v]) => Deleted(DocumentOf[v])'
  BY <1>2, DeletedStays, StepIsTransaction DEF TypeOK
<1>4. ASSUME points[v] # "absent", points'[v] = "absent"
      PROVE  Deleted(DocumentOf[v])
  BY <1>4, PointsStep DEF CallsShaped
<1> QED
  BY <1>1, <1>3, <1>4 DEF Ready

\* Persisting and embedding come before the activation, however often that is
\* retried and however late it takes effect.
LEMMA EmbeddedStep ==
  ASSUME TypeOK, CallsOwned, CallsShaped, Embedded, [Next]_vars
  PROVE  Embedded'
<1> SUFFICES ASSUME NEW v \in Version
             PROVE  /\ pc'[v] \in {"indexing", "embed"} => v \in chunkRows'
                    /\ \/ pc'[v] \in {"refresh", "activate", "qdrant"}
                       \/ <<v, "activate">> \in late'
                       \/ Published(v)'
                       => Ready(v)'
  BY DEF Embedded
<1>1. v \in chunkRows => v \in chunkRows'
  BY ChunkRowsGrow
<1>2. Ready(v) => Ready(v)' /\ v \in chunkRows'
  BY ReadyStays DEF Ready
<1>3. ASSUME Advance(v), pc[v] = "persist"
      PROVE  v \in chunkRows'
  BY <1>3 DEF Advance, Perform, Persist, Verdict, StageStep
<1>4. ASSUME Advance(v), pc[v] = "embed"
      PROVE  Ready(v)'
  <2>1. points'[v] = "hidden"
    BY <1>4 DEF Advance, Perform, Upsert, Verdict, StageStep, TypeOK, IndexTypeOK
  <2> QED
    BY <1>1, <1>4, <2>1 DEF Ready, Embedded
<1>5. ASSUME pc'[v] \in {"indexing", "embed"}
      PROVE  v \in chunkRows'
  <2>1. CASE pc'[v] = pc[v]
    BY <1>1, <1>5, <2>1 DEF Embedded
  <2>2. CASE pc'[v] # pc[v]
    <3>1. (pc[v] = "persist" /\ Advance(v)) \/ pc[v] \in {"indexing", "refresh"}
      BY <1>5, <2>2, Whereto, Predecessor DEF Closing
    <3> QED
      BY <1>1, <1>2, <1>3, <3>1 DEF Embedded
  <2> QED
    BY <2>1, <2>2
<1>6. ASSUME pc'[v] \in {"refresh", "activate", "qdrant"}
      PROVE  Ready(v)'
  <2>1. CASE pc'[v] = pc[v]
    BY <1>2, <1>6, <2>1 DEF Embedded
  <2>2. CASE pc'[v] # pc[v]
    <3>1. (pc[v] = "embed" /\ Advance(v)) \/ pc[v] \in {"refresh", "activate", "qdrant"}
      BY <1>6, <2>2, Whereto, Predecessor DEF Closing
    <3> QED
      BY <1>2, <1>4, <3>1 DEF Embedded
  <2> QED
    BY <2>1, <2>2
<1>7. <<v, "activate">> \in late' => Ready(v)'
  BY <1>2, LateStep, NoActivity DEF Embedded
<1>8. Published(v)' => Ready(v)'
  <2>1. Performs(v, "activate") => Ready(v)
    BY DEF Performs, Embedded
  <2> QED
    BY <1>2, <2>1, PublishedStep DEF Embedded
<1> QED
  BY <1>5, <1>6, <1>7, <1>8

\* The activity that records the success follows the activation.
LEMMA ActivatedStep ==
  ASSUME TypeOK, PointerCoherent, CallsOwned, Activated, [Next]_vars
  PROVE  Activated'
<1> SUFFICES ASSUME NEW v \in Version,
                    \/ pc'[v] \in {"qdrant", "indexed"}
                    \/ <<v, "indexed">> \in late'
                    \/ attempt'[v] = "indexed"
             PROVE  Published(v)'
  BY DEF Activated
<1>1. Published(v) => Published(v)'
  BY PublishedGrows DEF TypeOK
<1>2. ASSUME Advance(v), pc[v] = "activate"
      PROVE  Published(v)'
  BY <1>2, ActivationPublishes DEF Performs, TypeOK
<1>3. CASE pc'[v] \in {"qdrant", "indexed"}
  BY <1>1, <1>2, <1>3, Whereto, Predecessor DEF Activated, Closing
<1>4. CASE <<v, "indexed">> \in late'
  BY <1>1, <1>4, LateStep, NoActivity DEF Activated
<1>5. CASE attempt'[v] = "indexed"
  <2>1. Performs(v, "indexed") => Published(v)
    BY DEF Performs, Activated
  <2>2. version[v] = "active" => Published(v)
    BY DEF Published
  <2> QED
    BY <1>1, <1>5, <2>1, <2>2, AttemptStep DEF Activated
<1> QED
  BY <1>3, <1>4, <1>5

\* Without faults the rows follow the workflow: a failure or cancellation of an
\* upload that has its document to itself can always be recorded.
LEMMA InStepStep ==
  ASSUME IInv, IInv', CallsOwned, RowsAgree, InStep, [Next]_vars
  PROVE  InStep'
<1> SUFFICES ASSUME faults' = 0
             PROVE  /\ late' = {}
                    /\ \A v \in Version :
                         /\ pc'[v] \in {"idle", "register"} => attempt'[v] = "absent"
                         /\ pc'[v] = "cleanup" => attempt'[v] = "indexed"
                         /\ attempt'[v] = "queued" => pc'[v] \in {"detecting"} \cup Closing
                         /\ attempt'[v] = "queued" /\ pc'[v] = "failed" => ~Sole(v)'
                         /\ Published(v)' => pc'[v] \in {"qdrant", "indexed", "cleanup"} \cup Closing
  BY DEF InStep
<1>1. TypeOK /\ PointerCoherent /\ faults = 0 /\ late = {}
  BY FaultsStep DEF IInv, InStep
<1>2. late' = {}
  <2>1. late' \subseteq Version \X Activity
    BY DEF IInv, TypeOK, FlowTypeOK
  <2>2. ASSUME NEW v \in Version, NEW s \in Activity
        PROVE  <<v, s>> \notin late'
    BY <1>1, LateStep
  <2> QED
    BY <2>1, <2>2
<1> SUFFICES ASSUME NEW v \in Version
             PROVE  /\ pc'[v] \in {"idle", "register"} => attempt'[v] = "absent"
                    /\ pc'[v] = "cleanup" => attempt'[v] = "indexed"
                    /\ attempt'[v] = "queued" => pc'[v] \in {"detecting"} \cup Closing
                    /\ attempt'[v] = "queued" /\ pc'[v] = "failed" => ~Sole(v)'
                    /\ Published(v)' => pc'[v] \in {"qdrant", "indexed", "cleanup"} \cup Closing
  BY <1>2
<1>3. /\ pc[v] \in {"idle", "register"} => attempt[v] = "absent"
      /\ pc[v] = "cleanup" => attempt[v] = "indexed"
      /\ attempt[v] = "queued" => pc[v] \in {"detecting"} \cup Closing
      /\ attempt[v] = "queued" /\ pc[v] = "failed" => ~Sole(v)
      /\ Published(v) => pc[v] \in {"qdrant", "indexed", "cleanup"} \cup Closing
  BY <1>1 DEF InStep
<1>4. ASSUME NEW s, Performs(v, s)
      PROVE  pc[v] = s /\ Advance(v) /\ pc'[v] = After[s] /\ s \in Activity
  BY <1>1, <1>4 DEF Performs, Advance, Goto, TypeOK, FlowTypeOK
<1>5. ASSUME Advance(v), pc[v] \in Verdict
      PROVE  attempt'[v] = pc[v]
  <2>1. Finish(v, pc[v])
    BY <1>5 DEF Advance, Perform, Verdict, StageStep
  <2> QED
    BY <1>1, <2>1 DEF Finish, MayFinish, TypeOK, LedgerTypeOK
<1>6. ASSUME attempt'[v] # attempt[v]
      PROVE  \/ pc[v] \in StageStep \cup {"register"} /\ pc[v] \in Activity /\ pc'[v] = After[pc[v]]
             \/ pc[v] \in Verdict /\ pc[v] \in Activity /\ pc'[v] = After[pc[v]] /\ attempt'[v] = pc[v]
             \/ attempt'[v] = "indexed" /\ attempt[v] \in {"processing", "failed"}
  BY <1>1, <1>4, <1>6, AttemptStep
<1>7. pc'[v] \in {"idle", "register"} => attempt'[v] = "absent"
  <2> SUFFICES ASSUME pc'[v] \in {"idle", "register"}
               PROVE  attempt'[v] = "absent"
    OBVIOUS
  <2>1. pc[v] \in {"idle", "register"}
    BY <1>1, Whereto, Predecessor DEF Closing
  <2>2. attempt[v] = "absent"
    BY <1>3, <2>1
  <2> QED
    BY <1>6, <2>1, <2>2, Predecessor
<1>8. pc'[v] = "cleanup" => attempt'[v] = "indexed"
  <2> SUFFICES ASSUME pc'[v] = "cleanup"
               PROVE  attempt'[v] = "indexed"
    OBVIOUS
  <2>1. CASE pc[v] = "cleanup"
    BY <1>3, <1>6, <2>1 DEF StageStep, Verdict
  <2>2. CASE pc[v] # "cleanup"
    <3>1. Advance(v) /\ pc[v] = "indexed"
      BY <1>1, <2>2, Whereto, Predecessor DEF Closing
    <3> QED
      BY <1>5, <3>1 DEF Verdict
  <2> QED
    BY <2>1, <2>2
<1>9. ASSUME attempt'[v] = "queued"
      PROVE  /\ pc'[v] \in {"detecting"} \cup Closing
             /\ pc'[v] = "failed" => ~Sole(v)'
  <2>1. CASE attempt[v] # "queued"
    <3>1. pc[v] = "register" /\ pc'[v] = "detecting"
      BY <1>1, <1>9, <2>1, <1>4, AttemptStep DEF After, Verdict
    <3> QED
      BY <3>1 DEF Closing
  <2>2. CASE attempt[v] = "queued"
    <3>1. pc[v] \in {"detecting"} \cup Closing /\ (pc[v] = "failed" => ~Sole(v))
      BY <1>3, <2>2
    <3>2. Sole(v)' => Sole(v)
      BY <1>1, SoleBefore, StepIsTransaction DEF TypeOK
    <3>3. pc'[v] = pc[v] \/ pc'[v] \in Closing
      <4>1. CASE pc[v] = "detecting" /\ Advance(v)
        <5>1. EnterStage(v)
          BY <4>1 DEF Advance, Perform, Verdict, StageStep
        <5> QED
          BY <1>1, <1>9, <5>1 DEF EnterStage, TypeOK, LedgerTypeOK
      <4>2. CASE pc[v] \in Closing \/ ~Advance(v)
        BY <1>1, <3>1, <4>2, Whereto, ClosingStays DEF Closing
      <4> QED
        BY <3>1, <4>1, <4>2
    <3>4. ASSUME pc'[v] = "failed", pc[v] # "failed", Sole(v)
          PROVE  FALSE
      <4>1. pc[v] = "detecting"
        <5>1. CASE pc[v] \in {"cancelled", "ended"}
          BY <1>1, <3>4, <5>1, PcStep, Predecessor, NoActivity
             DEF Moves, Upload, Advance, Reject, Cancel, Guarded, OnError, Goto, TypeOK, FlowTypeOK
        <5> QED
          BY <3>1, <3>4, <5>1 DEF Closing
      <4>2. Reject(v)
        BY <1>1, <3>4, <4>1, PcStep, Predecessor, NoActivity
           DEF Moves, Upload, Advance, Cancel, AfterCancel, Guarded, Activity, After, Goto, TypeOK, FlowTypeOK
      <4>3. ~MayEnterStage(v)
        BY <4>1, <4>2 DEF Reject, Accepts, StageStep, Verdict
      <4>4. version[v] = "active"
        BY <2>2, <3>4, <4>3 DEF MayEnterStage, Open, RowsAgree
      <4> QED
        BY <1>3, <4>1, <4>4 DEF Published, Closing
    <3> QED
      BY <3>1, <3>2, <3>3, <3>4 DEF Closing
  <2> QED
    BY <2>1, <2>2
<1>10. Published(v)' => pc'[v] \in {"qdrant", "indexed", "cleanup"} \cup Closing
  <2>1. CASE Published(v)
    <3>1. pc[v] \in {"qdrant", "indexed", "cleanup"} \cup Closing
      BY <1>3, <2>1
    <3>2. CASE pc[v] \in {"cleanup"} \cup Closing
      BY <1>1, <3>2, ClosingStays
    <3>3. CASE pc[v] \in {"qdrant", "indexed"}
      BY <1>1, <3>3, Whereto, Predecessor, NoActivity DEF Closing
    <3> QED
      BY <3>1, <3>2, <3>3
  <2>2. CASE ~Published(v)
    BY <1>1, <1>4, <2>2, PublishedStep, Predecessor
  <2> QED
    BY <2>1, <2>2
<1> QED
  BY <1>7, <1>8, <1>9, <1>10

\* A document is retired when its tombstone's last request has been made, and
\* its points are deleted by the first one.
LEMMA DroppedStep ==
  ASSUME TypeOK, CallsShaped, [Next]_vars, NEW d \in Document, Dropped(d)'
  PROVE  Dropped(d) \/ \E c \in calls : CallStep(c) /\ c.step = "drop" /\ c.doc = d
<1> USE DEF TypeOK, FlowTypeOK
<1>1. CASE d \in retired'
  <2>1. CASE \E c \in calls : CallStep(c)
    <3> PICK c \in calls : CallStep(c)
      BY <2>1
    <3>1. d \in retired \/ (c.owner = d /\ LastStep(c))
      BY <1>1 DEF CallStep
    <3>2. c.owner = d => c.doc = d /\ c.deleted /\ c.step \in {"drop", "legacy", "refresh"}
      BY DEF CallsShaped
    <3>3. c.owner = d /\ LastStep(c) => c.step # "drop"
      BY IngestionAssumption DEF LastStep
    <3> QED
      BY <3>1, <3>2, <3>3 DEF Dropped
  <2>2. CASE ~ \E c \in calls : CallStep(c)
    <3>1. retired' = retired
      BY <2>2
      DEF Next, WorkflowStep, Upload, Advance, Reject, GiveUp, TimeOut, Cancel, LateEffect, LateEnd,
          JanitorDelete, CallFails, TombstoneDocument, ReconcileStep, ReconcileRead,
          ReconcileDocument, ReconcileBm25, ReconcileRepair, ReconcileFails, FlushBm25,
          JanitorSelect, vars, flowVars
    <3> QED
      BY <1>1, <3>1 DEF Dropped
  <2> QED
    BY <2>1, <2>2
<1>2. CASE d \notin retired'
  <2> PICK c \in calls' : c.doc = d /\ c.deleted /\ c.step # "drop"
    BY <1>2 DEF Dropped
  <2>1. CASE c \in calls
    BY <2>1 DEF Dropped
  <2>2. CASE c \notin calls
    <3> HIDE DEF TypeOK, FlowTypeOK
    <3>1. Source(c)
      BY <2>2, CallsStep
    <3>2. ASSUME NEW owner, NEW e, NEW active, NEW deleted \in BOOLEAN
          PROVE  c # NewCall(owner, e, active, deleted)
      BY DEF NewCall
    <3>3. ASSUME NEW r \in Reconciler, NEW e \in Document
          PROVE  c # NewCall(r, e, rec[r].rows[e].active, rec[r].rows[e].status = "deleted")
      BY <3>2
    <3>4. ASSUME NEW b \in calls, c = [b EXCEPT !.owner = None]
          PROVE  Dropped(d)
      <4>1. b.doc = d /\ b.deleted /\ b.step # "drop"
        BY <3>4 DEF Call, TypeOK, FlowTypeOK
      <4> QED
        BY <4>1 DEF Dropped
    <3>5. ASSUME NEW b \in calls, CallStep(b), c = [b EXCEPT !.step = FollowingStep(b.step)]
          PROVE  Dropped(d) \/ \E a \in calls : CallStep(a) /\ a.step = "drop" /\ a.doc = d
      <4>1. b.doc = d /\ b.deleted
        BY <3>5 DEF Call, TypeOK, FlowTypeOK
      <4> QED
        BY <3>5, <4>1 DEF Dropped
    <3> QED
      BY <3>1, <3>2, <3>3, <3>4, <3>5, Zenon DEF Source
  <2> QED
    BY <2>1, <2>2
<1> QED
  BY <1>1, <1>2

\* The points of a retired document come back only by an embedding, and only a
\* published version is ever shown.
LEMMA StaysDroppedStep ==
  ASSUME IInv, CallsShaped, InStep, StaysDropped, [Next]_vars
  PROVE  StaysDropped'
<1>t. TypeOK /\ CallsSound
  BY DEF IInv
<1>d. ASSUME NEW d \in Document
      PROVE  /\ Dropped(d) => Deleted(d)
             /\ Dropped(d)' => Deleted(d)
  <2>1. Dropped(d) => Deleted(d)
    BY DEF Dropped, StaysDropped, CallsShaped
  <2> QED
    BY <1>t, <2>1, DroppedStep DEF CallsShaped
<1>1. \A d \in retired' : Deleted(d)'
  <2>1. retired' \subseteq Document
    BY <1>t, FlowTypeStep DEF TypeOK, FlowTypeOK
  <2>2. ASSUME NEW d \in Document, d \in retired'
        PROVE  Deleted(d)'
    <3>1. Dropped(d)'
      BY <2>2 DEF Dropped
    <3> QED
      BY <1>d, <1>t, <3>1, DeletedStays, StepIsTransaction DEF TypeOK
  <2> QED
    BY <2>1, <2>2
<1>2. ASSUME faults' = 0, NEW v \in Version, Dropped(DocumentOf[v])'
      PROVE  points'[v] # "visible" /\ (Published(v)' => points'[v] = "absent")
  <2> DEFINE d == DocumentOf[v]
  <2>1. d \in Document /\ Deleted(d)
    BY <1>2, <1>d, LedgerAssumption
  <2>2. late = {} /\ (Published(v) => pc[v] \in {"qdrant", "indexed", "cleanup"} \cup Closing)
    BY <1>2, <1>t, FaultsStep DEF InStep
  <2>3. CASE \E c \in calls : CallStep(c) /\ c.step = "drop" /\ c.doc = d
    <3>1. points'[v] = "absent"
      BY <2>3 DEF CallStep, Request, DropPoints
    <3> QED
      BY <3>1
  <2>4. CASE Dropped(d)
    <3>1. points[v] # "visible" /\ (Published(v) => points[v] = "absent")
      BY <1>2, <1>t, <2>4, FaultsStep DEF StaysDropped
    <3>2. Published(v)' => Published(v)
      <4>1. ~Performs(v, "activate")
        <5>1. ~MayActivate(v)
          BY <2>1 DEF MayActivate, StatusOf, Deleted
        <5>2. ASSUME Performs(v, "activate")
              PROVE  MayActivate(v)
          <6> PICK owner \in Version \cup {None} : Perform(v, "activate", owner)
            BY <5>2, PerformsIs
          <6> QED
            BY DEF Perform, Activate, Verdict, StageStep
        <5> QED
          BY <5>1, <5>2
      <4> QED
        BY <1>t, <4>1, PublishedStep
    <3>3. CASE points'[v] = points[v]
      BY <3>1, <3>2, <3>3
    <3>4. CASE points'[v] # points[v]
      <4>1. Performs(v, "embed") => ~Published(v)
        BY <2>2 DEF Performs, Closing
      <4>2. ~ \E c \in calls : c.step = "show" /\ c.active = v /\ points[v] # "absent"
        BY <1>t, <3>1, LedgerAssumption DEF CallsSound
      <4> QED
        BY <1>t, <3>1, <3>2, <3>4, <4>1, <4>2, PointsStep
    <3> QED
      BY <3>3, <3>4
  <2> QED
    BY <1>2, <1>t, <2>1, <2>3, <2>4, DroppedStep
<1> QED
  BY <1>1, <1>2 DEF StaysDropped

-----------------------------------------------------------------------------
(* The theorems.                                                           *)

\* The invariant holds initially.
LEMMA InitFInv ==
  ASSUME Init
  PROVE  FInv
<1> USE LedgerAssumption, IngestionAssumption DEF Init, LedgerInit, IndexInit
<1>1. IInv
  BY InitIInv
<1>2. RowsAgree
  BY DEF RowsAgree, Open
<1>3. CallsShaped /\ CallsOwned /\ RowsDeleted
  BY DEF CallsShaped, CallsOwned, RowsDeleted, NoRun, NoRows
<1>4. Final /\ Stored
  BY DEF Final, Stored
<1>5. Embedded /\ Activated
  BY DEF Embedded, Activated, Published
<1>6. InStep
  BY DEF InStep, Published
<1>7. StaysDropped
  BY DEF StaysDropped, Dropped
<1> QED
  BY <1>1, <1>2, <1>3, <1>4, <1>5, <1>6, <1>7 DEF FInv

\* Every step keeps the invariant.
LEMMA StepFInv ==
  ASSUME FInv, [Next]_vars
  PROVE  FInv'
<1> USE DEF FInv
<1>1. IInv'
  BY StepIInv
<1>2. TypeOK /\ PointerCoherent /\ LedgerTypeOK
  BY DEF IInv, TypeOK
<1>3. RowsAgree'
  BY <1>2, RowsAgreeStep, StepIsTransaction
<1>4. CallsShaped' /\ CallsOwned' /\ RowsDeleted'
  BY <1>2, CallsShapedStep, CallsOwnedStep, RowsDeletedStep
<1>5. Final' /\ Stored'
  BY <1>2, FinalStep, StoredStep
<1>6. Embedded' /\ Activated'
  BY <1>2, EmbeddedStep, ActivatedStep
<1>7. InStep' /\ StaysDropped'
  BY <1>1, InStepStep, StaysDroppedStep
<1> QED
  BY <1>1, <1>3, <1>4, <1>5, <1>6, <1>7

\* The inductive invariant: the ledger's invariant, who waits for which call,
\* what a workflow has behind it at each activity, and what holds of the rows
\* and the points as long as nothing has failed.
THEOREM FlowInvariance == Spec => []FInv
BY InitFInv, StepFInv, PTL DEF Spec

\* The version activate_ingestion_version makes authoritative has its chunk rows
\* and its points, then and for as long as it is active: it was embedded before
\* it could be activated, and only the tombstone of its document deletes points.
THEOREM ActiveVersionsAreComplete == Spec => []ActiveIsComplete
<1>1. FInv => ActiveIsComplete
  <2> SUFFICES ASSUME FInv, NEW v \in Version, version[v] = "active"
               PROVE  v \in chunkRows /\ points[v] # "absent"
    BY DEF ActiveIsComplete
  <2>1. Ready(v)
    BY DEF FInv, Embedded, Published
  <2>2. ~Deleted(DocumentOf[v])
    BY LedgerAssumption DEF FInv, IInv, PointerCoherent, PointsAt
  <2> QED
    BY <2>1, <2>2 DEF Ready
<1> QED
  BY <1>1, FlowInvariance, PTL

\* A terminal status that finish_ingestion_attempt or the reconciliation records
\* is true of the version.
THEOREM VerdictsAreTrue == Spec => []VerdictMatchesVersion
<1>1. FInv => VerdictMatchesVersion
  BY DEF FInv, VerdictMatchesVersion, Activated, RowsAgree
<1> QED
  BY <1>1, FlowInvariance, PTL

\* Neither cleanup_ingestion_artifacts, however late, nor the janitor deletes
\* the artifacts of a workflow that will still load them.
THEOREM ArtifactsAreKept == Spec => []ArtifactsKept
<1>1. FInv => ArtifactsKept
  BY DEF FInv, ArtifactsKept, Stored
<1> QED
  BY <1>1, FlowInvariance, PTL

\* IngestionWorkflow.run leaves an attempt open only when finish_ingestion_attempt
\* refused to close it, which takes another upload or a tombstone of the document
\* or a fault, or when it was cancelled before its first stage was recorded or in
\* the handler that records a failure.
THEOREM OpenMeansConflict == Spec => OpenOnlyAfterConflict
<1> DEFINE Excused(v) == \/ ~Sole(v)
                         \/ pc[v] = "cancelled" /\ attempt[v] = "queued"
                         \/ pc[v] = "failed" /\ MayFinish(v, "failed")
<1>1. ASSUME FInv, FInv', [Next]_vars, NEW v \in Version,
             faults' = 0, pc[v] # "ended", pc'[v] = "ended", Open(v)', ~Excused(v)
      PROVE  FALSE
  <2> USE DEF FInv, IInv
  <2>1. TypeOK /\ faults = 0 /\ late = {}
    BY <1>1, FaultsStep DEF InStep
  <2>2. ASSUME NEW s, Performs(v, s)
        PROVE  pc[v] = s /\ pc'[v] = After[s] /\ s \in Activity
    BY <2>1, <2>2 DEF Performs, Advance, Goto, TypeOK, FlowTypeOK
  <2>3. attempt'[v] = attempt[v]
    <3>1. ASSUME NEW s \in StageStep \cup {"register"}, Performs(v, s)
          PROVE  FALSE
      BY <1>1, <2>2, <3>1, Predecessor DEF StageStep
    <3> QED
      BY <1>1, <2>1, <3>1, AttemptStep DEF Open, Verdict
  <2>4. Open(v)
    BY <1>1, <2>3 DEF Open
  <2>5. pc[v] \notin {"idle", "register", "cleanup"}
    BY <1>1, <2>1, <2>4 DEF InStep, Open
  <2>6. ASSUME pc[v] \in {"failed", "cancelled"}
        PROVE  MayFinish(v, pc[v])
    BY <1>1, <2>1, <2>4, <2>6 DEF MayFinish, Open, RowsAgree, InStep
  <2>7. ~Advance(v)
    <3> SUFFICES ASSUME Advance(v)
                 PROVE  FALSE
      OBVIOUS
    <3>1. pc[v] \in {"failed", "cancelled"}
      BY <1>1, <2>1, <2>5, Predecessor DEF Advance, Goto, TypeOK, FlowTypeOK
    <3>2. Finish(v, pc[v])
      BY <3>1 DEF Advance, Perform, Verdict, StageStep
    <3>3. attempt'[v] = pc[v]
      BY <2>1, <2>4, <3>2 DEF Finish, TypeOK, LedgerTypeOK
    <3> QED
      BY <1>1, <3>1, <3>3 DEF Open
  <2>8. ~Reject(v)
    <3> SUFFICES ASSUME Reject(v)
                 PROVE  FALSE
      OBVIOUS
    <3>1. pc[v] \in {"failed", "cancelled"}
      BY <1>1, <2>1, <2>5 DEF Reject, Goto, OnError, Guarded, TypeOK, FlowTypeOK
    <3>2. Accepts(v, pc[v])
      BY <2>6, <3>1 DEF Accepts, Verdict, StageStep
    <3> QED
      BY <3>1, <3>2 DEF Reject
  <2>9. ~Cancel(v) /\ ~Upload(v)
    <3>1. Cancel(v) => pc[v] = "failed"
      BY <1>1, <2>1, <2>5 DEF Cancel, AfterCancel, Guarded, Goto, TypeOK, FlowTypeOK
    <3> QED
      BY <1>1, <2>5, <2>6, <3>1 DEF Upload
  <2> QED
    BY <1>1, <2>1, <2>7, <2>8, <2>9, PcStep DEF Moves
<1>2. FInv /\ FInv' /\ [Next]_vars =>
        [\A v \in Version :
           faults' = 0 /\ pc[v] # "ended" /\ pc'[v] = "ended" /\ Open(v)' =>
             \/ ~Sole(v)
             \/ pc[v] = "cancelled" /\ attempt[v] = "queued"
             \/ pc[v] = "failed" /\ MayFinish(v, "failed")]_vars
  BY <1>1
<1> QED
  BY <1>2, FlowInvariance, PTL DEF Spec, OpenOnlyAfterConflict

\* When nothing fails, a tombstoned document stays out of dense search: the
\* calls of other workflows and of reconciliations that read older rows find no
\* points to show, and no activity writes a published version's points again.
THEOREM RetiredStayInvisible == Spec => []RetiredUnlessFaults
<1>1. FInv => RetiredUnlessFaults
  BY DEF FInv, RetiredUnlessFaults, RetiredIsInvisible, StaysDropped, Dropped
<1> QED
  BY <1>1, FlowInvariance, PTL

\* The status column of ingestion_attempts: no stage, verdict or retry of an
\* activity changes a terminal status, only the reconciliation does.
THEOREM AttemptsStayTerminal == Spec => AttemptLifecycle
<1>1. ASSUME IInv, [Next]_vars, NEW v \in Version, attempt[v] \in Verdict, attempt'[v] # attempt[v]
      PROVE  attempt[v] = "failed" /\ attempt'[v] = "indexed" /\ version[v] = "active"
  <2> USE DEF IInv, TypeOK, LedgerTypeOK, Verdict
  <2>1. Transaction
    BY <1>1, StepIsTransaction DEF ledgerVars
  <2>2. ASSUME NEW w \in Version, Register(w) \/ EnterStage(w) \/ Persist(w) \/ Activate(w)
        PROVE  attempt'[v] = attempt[v]
    BY <1>1, <2>2 DEF Register, EnterStage, MayEnterStage, Open, Persist, Activate
  <2>3. ASSUME NEW w \in Version, NEW s \in Verdict, Finish(w, s)
        PROVE  attempt'[v] = attempt[v]
    BY <1>1, <2>3 DEF Finish, Open
  <2>4. CASE RepairAttempts
    BY <1>1, <2>4 DEF RepairAttempts
  <2> QED
    BY <1>1, <2>1, <2>2, <2>3, <2>4 DEF Transaction, Tombstone
<1>2. IInv /\ [Next]_vars =>
        [\A v \in Version : attempt[v] \in Verdict /\ attempt'[v] # attempt[v] =>
           /\ attempt[v] = "failed"
           /\ attempt'[v] = "indexed"
           /\ version[v] = "active"]_vars
  BY <1>1
<1> QED
  BY <1>2, Invariance, PTL DEF Spec, AttemptLifecycle

=============================================================================
