-------------------------- MODULE IngestionLedger --------------------------
(***************************************************************************)
(* The PostgreSQL side of ingestion: the rows of ingestion_documents,      *)
(* ingestion_attempts, document_versions and their chunk rows, and the     *)
(* transactions of workflows/activities.py over them.  Every transaction   *)
(* either commits or raises and rolls back, so each is a pair: a predicate *)
(* May... that says when it commits, and the action it then performs.      *)
(*                                                                         *)
(* One upload mints one attempt and one version with fresh identifiers,    *)
(* so a single Version value stands for both rows and for the workflow     *)
(* that owns them.  An upload's document is a function of tenant and       *)
(* filename; DocumentOf gives it.  A document is 'deleted' exactly when    *)
(* its ingestion_tombstones row exists (one transaction writes both), and  *)
(* an attempt's error_code is a function of its status, so neither is a    *)
(* variable of its own.                                                    *)
(***************************************************************************)
EXTENDS Naturals, FiniteSets

CONSTANTS
  Document,     \* uploaded documents: (tenant, filename) pairs
  Version,      \* uploads: attempt, version and workflow in one
  DocumentOf,   \* the document each upload is a version of
  Legacy,       \* documents first indexed before versions existed
  None          \* SQL NULL

ASSUME LedgerAssumption ==
  /\ DocumentOf \in [Version -> Document]
  /\ Legacy \subseteq Document
  /\ None \notin Version

VARIABLES
  document,     \* status and active_version_id of each document row
  attempt,      \* status of each ingestion_attempts row
  version,      \* status of each document_versions row
  chunkRows,    \* versions whose document_version_chunks rows are stored
  legacyRows    \* documents that still have unversioned document_chunks rows

ledgerVars == <<document, attempt, version, chunkRows, legacyRows>>

DocumentStatus == {"absent", "queued", "processing", "indexed", "failed", "deleted"}
AttemptStatus  == {"absent", "queued", "processing", "indexed", "failed", "cancelled"}
VersionStatus  == {"absent", "staged", "active", "superseded", "failed"}

DocumentRow == [status : DocumentStatus, active : Version \cup {None}]

LedgerTypeOK ==
  /\ document \in [Document -> DocumentRow]
  /\ attempt \in [Version -> AttemptStatus]
  /\ version \in [Version -> VersionStatus]
  /\ chunkRows \subseteq Version
  /\ legacyRows \subseteq Document

LedgerInit ==
  /\ document = [d \in Document |-> [status |-> "absent", active |-> None]]
  /\ attempt = [v \in Version |-> "absent"]
  /\ version = [v \in Version |-> "absent"]
  /\ chunkRows = {}
  /\ legacyRows = Legacy

StatusOf(v) == document[DocumentOf[v]].status
PointsAt(v) == document[DocumentOf[v]].active = v
Deleted(d)  == document[d].status = "deleted"

\* An attempt that no terminal transaction has closed yet.
Open(v) == attempt[v] \in {"queued", "processing"}

\* A version that some transaction has made authoritative, then or earlier.
Published(v) == version[v] \in {"active", "superseded"}

-----------------------------------------------------------------------------
\* register_ingestion: insert the three rows, or find them already there.
MayRegister(v) == StatusOf(v) # "deleted"

Register(v) ==
  /\ MayRegister(v)
  /\ document' = [document EXCEPT ![DocumentOf[v]].status =
                    IF @ \in {"absent", "indexed", "failed"} THEN "queued" ELSE @]
  /\ attempt' = [attempt EXCEPT ![v] = IF @ = "absent" THEN "queued" ELSE @]
  /\ version' = [version EXCEPT ![v] = IF @ = "absent" THEN "staged" ELSE @]
  /\ UNCHANGED <<chunkRows, legacyRows>>

\* update_ingestion_stage: both rows must still be open.
MayEnterStage(v) == Open(v) /\ StatusOf(v) \in {"queued", "processing"}

\* Mutant: only the attempt row is updated.
EnterStageAttemptOnly(v) ==
  /\ MayEnterStage(v)
  /\ attempt' = [attempt EXCEPT ![v] = "processing"]
  /\ UNCHANGED <<document, version, chunkRows, legacyRows>>

EnterStage(v) ==
  /\ MayEnterStage(v)
  /\ attempt' = [attempt EXCEPT ![v] = "processing"]
  /\ document' = [document EXCEPT ![DocumentOf[v]].status = "processing"]
  /\ UNCHANGED <<version, chunkRows, legacyRows>>

\* persist_chunks of a versioned upload.
MayPersist(v) == version[v] = "staged"

Persist(v) ==
  /\ MayPersist(v)
  /\ chunkRows' = chunkRows \cup {v}
  /\ UNCHANGED <<document, attempt, version, legacyRows>>

\* The transaction of activate_ingestion_version: nothing is written when the
\* pointer is already at v, otherwise the previous active version is retired.
\* (Mutants first: a version of any status, and a deleted document, are accepted.)
MayActivateAnyVersion(v) == StatusOf(v) \notin {"absent", "deleted"}
MayActivateDeleted(v) == version[v] \in {"staged", "active"}

MayActivate(v) ==
  /\ StatusOf(v) \notin {"absent", "deleted"}
  /\ version[v] \in {"staged", "active"}

\* Mutant: the previous version stays active.
ActivateKeepsPrevious(v) ==
  /\ MayActivate(v)
  /\ IF PointsAt(v)
       THEN UNCHANGED <<document, version>>
       ELSE /\ version' = [version EXCEPT ![v] = "active"]
            /\ document' = [document EXCEPT ![DocumentOf[v]] = [status |-> "indexed", active |-> v]]
  /\ UNCHANGED <<attempt, chunkRows, legacyRows>>

Activate(v) ==
  LET d == DocumentOf[v] IN
  /\ MayActivate(v)
  /\ IF PointsAt(v)
       THEN UNCHANGED <<document, version>>
       ELSE /\ version' = [w \in Version |->
                             CASE w = v -> "active"
                               [] w = document[d].active /\ version[w] = "active" -> "superseded"
                               [] OTHER -> version[w]]
            /\ document' = [document EXCEPT ![d] = [status |-> "indexed", active |-> v]]
  /\ UNCHANGED <<attempt, chunkRows, legacyRows>>

\* finish_ingestion_attempt.  A second call with the same status is a no-op;
\* a failure must also retire the staged version and release the document,
\* unless the version had already become the active one.
MayFinish(v, status) ==
  IF Open(v)
    THEN \/ status = "indexed"
         \/ version[v] = "staged" /\ StatusOf(v) = "processing"
         \/ version[v] = "active" /\ PointsAt(v)
    ELSE attempt[v] = status

\* Mutants: the document is given the attempt's status; the version is left alone.
FinishCopiesStatus(v, status) ==
  /\ MayFinish(v, status)
  /\ attempt' = [attempt EXCEPT ![v] = status]
  /\ IF Open(v) /\ status # "indexed" /\ version[v] = "staged"
       THEN /\ version' = [version EXCEPT ![v] = "failed"]
            /\ document' = [document EXCEPT ![DocumentOf[v]].status = status]
       ELSE UNCHANGED <<version, document>>
  /\ UNCHANGED <<chunkRows, legacyRows>>

FinishLeavesVersion(v, status) ==
  /\ MayFinish(v, status)
  /\ attempt' = [attempt EXCEPT ![v] = status]
  /\ UNCHANGED <<document, version, chunkRows, legacyRows>>

Finish(v, status) ==
  /\ MayFinish(v, status)
  /\ IF Open(v)
       THEN /\ attempt' = [attempt EXCEPT ![v] = status]
            /\ IF status # "indexed" /\ version[v] = "staged"
                 THEN /\ version' = [version EXCEPT ![v] = "failed"]
                      /\ document' = [document EXCEPT ![DocumentOf[v]].status =
                                        IF status = "failed" THEN "failed" ELSE "queued"]
                 ELSE UNCHANGED <<version, document>>
       ELSE UNCHANGED <<document, attempt, version>>
  /\ UNCHANGED <<chunkRows, legacyRows>>

\* The transaction of tombstone_ingestion_document.
Tombstone(d) ==
  /\ document[d].status # "absent"
  /\ document' = [document EXCEPT ![d] = [status |-> "deleted", active |-> None]]
  /\ version' = [v \in Version |-> IF DocumentOf[v] = d /\ version[v] = "active" /\ ~Deleted(d)
                                     THEN "superseded" ELSE version[v]]
  /\ legacyRows' = legacyRows \ {d}
  /\ UNCHANGED <<attempt, chunkRows>>

\* The last transaction of reconcile_ingestion_indexes: an attempt recorded as
\* failed, or left processing, whose version is the active one was indexed.
\* (Mutants first: the attempt's own status is not looked at, and an attempt left
\* processing is passed over.)
RepairAnyAttempt ==
  /\ attempt' = [v \in Version |->
                   IF version[v] = "active" /\ PointsAt(v) THEN "indexed" ELSE attempt[v]]
  /\ UNCHANGED <<document, version, chunkRows, legacyRows>>

RepairFailedOnly ==
  /\ attempt' = [v \in Version |->
                   IF /\ version[v] = "active" /\ PointsAt(v)
                      /\ attempt[v] = "failed"
                     THEN "indexed" ELSE attempt[v]]
  /\ UNCHANGED <<document, version, chunkRows, legacyRows>>

RepairAttempts ==
  /\ attempt' = [v \in Version |->
                   IF /\ version[v] = "active" /\ PointsAt(v)
                      /\ attempt[v] \in {"processing", "failed"}
                     THEN "indexed" ELSE attempt[v]]
  /\ UNCHANGED <<document, version, chunkRows, legacyRows>>

\* The rows _rebuild_now reads: unversioned rows and those of active versions.
Corpus == [versions |-> {v \in chunkRows : version[v] = "active"}, legacy |-> legacyRows]
=============================================================================
