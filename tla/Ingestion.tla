----------------------------- MODULE Ingestion -----------------------------
(***************************************************************************)
(* Durable ingestion: the Temporal workflows of                            *)
(* workflows/ingestion_workflow.py run the activities of                   *)
(* workflows/activities.py against the ledger and the search indexes.      *)
(*                                                                         *)
(* pc[v] is the activity the workflow of upload v waits for.  An activity  *)
(* is retried until it succeeds, is rejected by the ledger, or the retry   *)
(* budget is spent.  Its blocking work runs in a thread that a timeout or  *)
(* a cancellation does not stop (_run_sync_with_heartbeat), so an          *)
(* abandoned activity stays in "late" and may still take effect at any     *)
(* later time.  reconcile_document_version is several Qdrant requests;     *)
(* each run of it is a member of "calls" that other processes interleave   *)
(* with.  Infrastructure faults are bounded by MaxFaults.                  *)
(***************************************************************************)
EXTENDS SearchIndexes

CONSTANTS
  Reconciler,   \* runs of ReconcileIngestionWorkflow that may overlap
  MaxFaults     \* bound on timeouts, exhausted retries and failed calls

ASSUME IngestionAssumption ==
  /\ MaxFaults \in Nat
  /\ None \notin Document \cup Reconciler
  /\ Version \cap Document = {}
  /\ Version \cap Reconciler = {}
  /\ Document \cap Reconciler = {}

VARIABLES
  pc,         \* the activity each upload's workflow is at
  artifacts,  \* the page and chunk artifacts stored for each version
  late,       \* <<v, step>>: threads of activities the workflow gave up on
  calls,      \* reconcile_document_version runs in progress
  rec,        \* what each reconciliation run has read and still has to do
  retired,    \* documents whose tombstone workflow has returned
  expired,    \* versions a janitor run selected and has not yet cleaned
  faults      \* faults so far

flowVars == <<pc, artifacts, late, calls, rec, retired, expired, faults>>
vars == <<ledgerVars, indexVars, flowVars>>

\* The activities of a run that succeeds, in order.
\* (Mutant first: the version is activated without having been embedded.)
AfterSkippingEmbed ==
  [register   |-> "detecting",  detecting |-> "detect",
   detect     |-> "extracting", extracting |-> "extract",
   extract    |-> "chunking",   chunking  |-> "chunk",
   chunk      |-> "persisting", persisting |-> "persist",
   persist    |-> "indexing",   indexing  |-> "activate",
   embed      |-> "refresh",    refresh   |-> "activate",
   activate   |-> "qdrant",     indexed   |-> "cleanup",
   failed     |-> "ended",      cancelled |-> "ended",
   cleanup    |-> "ended"]
After == [register   |-> "detecting",  detecting |-> "detect",
          detect     |-> "extracting", extracting |-> "extract",
          extract    |-> "chunking",   chunking  |-> "chunk",
          chunk      |-> "persisting", persisting |-> "persist",
          persist    |-> "indexing",   indexing  |-> "embed",
          embed      |-> "refresh",    refresh   |-> "activate",
          activate   |-> "qdrant",     indexed   |-> "cleanup",
          failed     |-> "ended",      cancelled |-> "ended",
          cleanup    |-> "ended"]

Activity  == DOMAIN After
StageStep == {"detecting", "extracting", "chunking", "persisting", "indexing"}
Verdict   == {"indexed", "failed", "cancelled"}

\* The activities inside the workflow's try block.
Guarded == (Activity \ {"register", "failed", "cancelled", "cleanup"}) \cup {"qdrant"}

\* Where the workflow goes when the activity it waits for has failed for good.
OnError(s) == IF s \in Guarded THEN "failed" ELSE "ended"

Owner == Version \cup Document \cup Reconciler
Call  == [owner : Owner \cup {None}, doc : Document, active : Version \cup {None},
          deleted : BOOLEAN, step : {"show", "hide", "drop", "legacy", "refresh"}]

Run == [step : {"idle", "running", "repair"}, todo : SUBSET Document,
        rows : [Document -> DocumentRow], failed : BOOLEAN]

NoRows == [d \in Document |-> [status |-> "absent", active |-> None]]
NoRun  == [step |-> "idle", todo |-> {}, rows |-> NoRows, failed |-> FALSE]

FlowTypeOK ==
  /\ pc \in [Version -> Activity \cup {"idle", "qdrant", "ended"}]
  /\ artifacts \in [Version -> SUBSET {"pages", "chunks"}]
  /\ late \subseteq Version \X Activity
  /\ calls \subseteq Call
  /\ rec \in [Reconciler -> Run]
  /\ retired \subseteq Document
  /\ expired \subseteq Version
  /\ faults \in 0..MaxFaults

TypeOK == LedgerTypeOK /\ IndexTypeOK /\ FlowTypeOK

Init ==
  /\ LedgerInit
  /\ IndexInit
  /\ pc = [v \in Version |-> "idle"]
  /\ artifacts = [v \in Version |-> {}]
  /\ late = {}
  /\ calls = {}
  /\ rec = [r \in Reconciler |-> NoRun]
  /\ retired = {}
  /\ expired = {}
  /\ faults = 0

-----------------------------------------------------------------------------
\* reconcile_document_version starts by deleting or by showing and hiding.
NewCall(owner, d, active, deleted) ==
  [owner |-> owner, doc |-> d, active |-> active, deleted |-> deleted,
   step |-> IF deleted THEN "drop" ELSE IF active = None THEN "hide" ELSE "show"]

Waits(owner) == \E c \in calls : c.owner = owner

\* Whether an activity can succeed on the rows and artifacts it finds.
Accepts(v, s) ==
  CASE s = "register"             -> MayRegister(v)
    [] s \in StageStep            -> MayEnterStage(v)
    [] s = "chunk"                -> "pages" \in artifacts[v]
    [] s = "persist"              -> "chunks" \in artifacts[v] /\ MayPersist(v)
    [] s = "embed"                -> "chunks" \in artifacts[v]
    [] s = "activate"             -> MayActivate(v)
    [] s \in Verdict              -> MayFinish(v, s)
    [] OTHER                      -> TRUE

\* What an activity does, up to the Qdrant calls that follow its commit;
\* those belong to the workflow, or to no one when the activity is late.
StoreArtifact(v, stage) == artifacts' = [artifacts EXCEPT ![v] = @ \cup {stage}]

Perform(v, s, owner) ==
  /\ Accepts(v, s)
  /\ \/ /\ \/ s = "register" /\ Register(v)
           \/ s \in StageStep /\ EnterStage(v)
           \/ s = "persist" /\ Persist(v)
           \/ s \in Verdict /\ Finish(v, s)
        /\ UNCHANGED <<indexVars, artifacts, calls>>
     \/ /\ \/ s = "detect" /\ UNCHANGED artifacts
           \/ s = "extract" /\ StoreArtifact(v, "pages")
           \/ s = "chunk" /\ StoreArtifact(v, "chunks")
           \/ s = "cleanup" /\ artifacts' = [artifacts EXCEPT ![v] = {}]
        /\ UNCHANGED <<ledgerVars, indexVars, calls>>
     \/ /\ \/ s = "embed" /\ Upsert(v)
           \/ s = "refresh" /\ RefreshBm25(FALSE)
        /\ UNCHANGED <<ledgerVars, artifacts, calls>>
     \/ /\ s = "activate" /\ Activate(v)
        /\ calls' = calls \cup {NewCall(owner, DocumentOf[v], v, FALSE)}
        /\ UNCHANGED <<indexVars, artifacts>>

Goto(v, s) == pc' = [pc EXCEPT ![v] = s]

Spend == faults < MaxFaults /\ faults' = faults + 1

Disown(owner) ==
  calls' = {IF c.owner = owner THEN [c EXCEPT !.owner = None] ELSE c : c \in calls}

\* UploadUseCase starts the workflow once the file is stored.
Upload(v) ==
  /\ pc[v] = "idle"
  /\ Goto(v, "register")
  /\ UNCHANGED <<ledgerVars, indexVars, artifacts, late, calls, rec, retired, expired, faults>>

\* The activity succeeds and its result reaches the workflow.
Advance(v) ==
  /\ pc[v] \in Activity
  /\ Perform(v, pc[v], v)
  /\ Goto(v, After[pc[v]])
  /\ UNCHANGED <<late, rec, retired, expired, faults>>

\* Every retry of the activity raised: the ledger refuses it, or the uploaded
\* file cannot be extracted.
Reject(v) ==
  /\ pc[v] \in Activity
  /\ pc[v] = "extract" \/ ~Accepts(v, pc[v])
  /\ Goto(v, OnError(pc[v]))
  /\ UNCHANGED <<ledgerVars, indexVars, artifacts, late, calls, rec, retired, expired, faults>>

\* The retry budget ran out without the activity taking effect.
GiveUp(v) ==
  /\ pc[v] \in Activity
  /\ Spend
  /\ Goto(v, OnError(pc[v]))
  /\ UNCHANGED <<ledgerVars, indexVars, artifacts, late, calls, rec, retired, expired>>

\* The activity timed out or its worker stopped answering: the workflow retries
\* it or gives up, and the thread it started is still running.
TimeOut(v) ==
  /\ Spend
  /\ \/ /\ pc[v] \in Activity
        /\ late' = late \cup {<<v, pc[v]>>}
        /\ \/ Goto(v, IF pc[v] = "refresh" THEN "embed" ELSE pc[v])
           \/ Goto(v, OnError(pc[v]))
        /\ UNCHANGED calls
     \/ /\ pc[v] = "qdrant"
        /\ Disown(v)
        /\ \/ Goto(v, "activate")
           \/ Goto(v, "failed")
        /\ UNCHANGED late
  /\ UNCHANGED <<ledgerVars, indexVars, artifacts, rec, retired, expired>>

\* Where a cancelled workflow goes: it records the cancellation, unless it has
\* not registered yet.  The handlers around the record of a failure and around
\* the cleanup swallow a cancellation that reaches the activity they await.
AfterCancel(s) == CASE s \in {"register", "failed"} -> {"ended"}
                    [] s = "cleanup"                -> {"cancelled", "ended"}
                    [] s \in Guarded                -> {"cancelled"}

\* The workflow is cancelled, once at most, and stops waiting.  An activity that
\* has not begun is not run; one that runs, or a call, goes on unattended.
Cancel(v) ==
  /\ pc[v] \in Guarded \cup {"register", "failed", "cleanup"}
  /\ \E next \in AfterCancel(pc[v]) : Goto(v, next)
  /\ \/ UNCHANGED <<late, faults>>
     \/ /\ Spend
        /\ pc[v] \in Activity
        /\ late' = late \cup {<<v, pc[v]>>}
  /\ Disown(v)
  /\ UNCHANGED <<ledgerVars, indexVars, artifacts, rec, retired, expired>>

\* An abandoned thread finishes its work, fails, or dies with its worker.
LateEffect(v, s) ==
  /\ <<v, s>> \in late
  /\ Perform(v, s, None)
  /\ late' = (late \ {<<v, s>>}) \cup (IF s = "embed" THEN {<<v, "refresh">>} ELSE {})
  /\ UNCHANGED <<pc, rec, retired, expired, faults>>

LateEnd(v, s) ==
  /\ <<v, s>> \in late
  /\ late' = late \ {<<v, s>>}
  /\ UNCHANGED <<ledgerVars, indexVars, pc, artifacts, calls, rec, retired, expired, faults>>

-----------------------------------------------------------------------------
\* One Qdrant request of a call, and the step that follows it; the debounced or
\* forced BM25 rebuild is the last step of an activation or a tombstone.
Request(c) ==
  \/ c.step = "show" /\ ShowVersion(c.active)
  \/ c.step = "hide" /\ HideOthers(c.doc, c.active)
  \/ c.step = "drop" /\ DropPoints(c.doc)
  \/ c.step = "legacy" /\ DropLegacyPoints(c.doc)
  \/ c.step = "refresh" /\ RefreshBm25(c.deleted)

LastStep(c) ==
  \/ c.step = "refresh"
  \/ c.owner \in Reconciler /\ c.step = "legacy"
  \/ c.step = "hide" /\ c.active = None

FollowingStep(s) ==
  CASE s = "show"            -> "hide"
    [] s \in {"hide", "drop"} -> "legacy"
    [] OTHER                 -> "refresh"

CallStep(c) ==
  /\ Request(c)
  /\ IF LastStep(c)
       THEN /\ calls' = calls \ {c}
            /\ pc' = [v \in Version |-> IF v = c.owner THEN "indexed" ELSE pc[v]]
            /\ retired' = retired \cup ({c.owner} \cap Document)
       ELSE /\ calls' = (calls \ {c}) \cup {[c EXCEPT !.step = FollowingStep(c.step)]}
            /\ UNCHANGED <<pc, retired>>
  /\ UNCHANGED <<ledgerVars, artifacts, late, rec, expired, faults>>

\* The request fails, or the worker running the call stops.  An activation is
\* retried from its transaction or fails; a reconciliation goes on with the
\* next document and reports the failure at its end.
CallFails(c) ==
  /\ calls' = calls \ {c}
  /\ IF c.owner = None THEN UNCHANGED faults ELSE Spend
  /\ \/ /\ c.owner \in Version
        /\ \/ Goto(c.owner, "activate")
           \/ Goto(c.owner, "failed")
        /\ UNCHANGED rec
     \/ /\ c.owner \in Reconciler
        /\ rec' = [rec EXCEPT ![c.owner].failed = TRUE]
        /\ UNCHANGED pc
     \/ /\ c.owner \notin Version \cup Reconciler
        /\ UNCHANGED <<pc, rec>>
  /\ UNCHANGED <<ledgerVars, indexVars, artifacts, late, retired, expired>>

\* tombstone_ingestion_document, run and re-run by TombstoneIngestionWorkflow;
\* a second request for the same document waits for the first.
TombstoneDocument(d) ==
  /\ ~Waits(d)
  /\ Tombstone(d)
  /\ calls' = calls \cup {NewCall(d, d, None, TRUE)}
  /\ UNCHANGED <<indexVars, pc, artifacts, late, rec, retired, expired, faults>>

-----------------------------------------------------------------------------
\* reconcile_ingestion_indexes: read every document row, make one call for
\* each, rebuild BM25, and repair the attempts if no call failed.
\* (Mutant first: deleted documents are taken as done.)
ReconcileReadSkippingDeleted(r) ==
  /\ rec[r].step = "idle"
  /\ rec' = [rec EXCEPT ![r] = [step |-> "running", rows |-> document, failed |-> FALSE,
                                todo |-> {d \in Document : document[d].status \notin {"absent", "deleted"}}]]
  /\ UNCHANGED <<ledgerVars, indexVars, pc, artifacts, late, calls, retired, expired, faults>>

ReconcileRead(r) ==
  /\ rec[r].step = "idle"
  /\ rec' = [rec EXCEPT ![r] = [step |-> "running", rows |-> document, failed |-> FALSE,
                                todo |-> {d \in Document : document[d].status # "absent"}]]
  /\ UNCHANGED <<ledgerVars, indexVars, pc, artifacts, late, calls, retired, expired, faults>>

ReconcileDocument(r, d) ==
  /\ rec[r].step = "running"
  /\ d \in rec[r].todo
  /\ ~Waits(r)
  /\ rec' = [rec EXCEPT ![r].todo = @ \ {d}]
  /\ calls' = calls \cup
       {NewCall(r, d, rec[r].rows[d].active, rec[r].rows[d].status = "deleted")}
  /\ UNCHANGED <<ledgerVars, indexVars, pc, artifacts, late, retired, expired, faults>>

ReconcileBm25(r) ==
  /\ rec[r].step = "running"
  /\ rec[r].todo = {}
  /\ ~Waits(r)
  /\ RefreshBm25(TRUE)
  /\ rec' = [rec EXCEPT ![r] = IF @.failed THEN NoRun ELSE [NoRun EXCEPT !.step = "repair"]]
  /\ UNCHANGED <<ledgerVars, pc, artifacts, late, calls, retired, expired, faults>>

ReconcileRepair(r) ==
  /\ rec[r].step = "repair"
  /\ RepairAttempts
  /\ rec' = [rec EXCEPT ![r] = NoRun]
  /\ UNCHANGED <<indexVars, pc, artifacts, late, calls, retired, expired, faults>>

\* The activity raises outside a call, or its worker stops: a retry starts over.
ReconcileFails(r) ==
  /\ rec[r].step # "idle"
  /\ ~Waits(r)
  /\ Spend
  /\ rec' = [rec EXCEPT ![r] = NoRun]
  /\ UNCHANGED <<ledgerVars, indexVars, pc, artifacts, late, calls, retired, expired>>

\* bm25_rebuild_worker: flush_if_dirty.
FlushBm25 ==
  /\ dirty
  /\ RebuildBm25
  /\ UNCHANGED <<ledgerVars, flowVars>>

\* janitor_ingestion_artifacts: a query selects terminal uploads whose version
\* failed, then their artifacts are deleted one version at a time.  What the
\* caller lists as running or too recent is any subset, so any subset is kept.
\* (Mutant first: every version that is not the active one is taken.)
JanitorSelectAny ==
  /\ expired = {}
  /\ \E chosen \in SUBSET {v \in Version : attempt[v] # "absent" /\ ~PointsAt(v)} :
       chosen # {} /\ expired' = chosen
  /\ UNCHANGED <<ledgerVars, indexVars, pc, artifacts, late, calls, rec, retired, faults>>

JanitorSelect ==
  /\ expired = {}
  /\ \E chosen \in SUBSET {v \in Version : /\ attempt[v] \in {"failed", "cancelled"}
                                           /\ version[v] = "failed"
                                           /\ ~PointsAt(v)} :
       chosen # {} /\ expired' = chosen
  /\ UNCHANGED <<ledgerVars, indexVars, pc, artifacts, late, calls, rec, retired, faults>>

JanitorDelete(v) ==
  /\ v \in expired
  /\ artifacts' = [artifacts EXCEPT ![v] = {}]
  /\ expired' = expired \ {v}
  /\ UNCHANGED <<ledgerVars, indexVars, pc, late, calls, rec, retired, faults>>

-----------------------------------------------------------------------------
WorkflowStep(v) ==
  \/ Upload(v) \/ Advance(v) \/ Reject(v) \/ GiveUp(v) \/ TimeOut(v) \/ Cancel(v)
  \/ \E s \in Activity : LateEffect(v, s) \/ LateEnd(v, s)

ReconcileStep(r) ==
  \/ ReconcileRead(r) \/ ReconcileBm25(r) \/ ReconcileRepair(r)
  \/ \E d \in Document : ReconcileDocument(r, d)

Next ==
  \/ \E v \in Version : WorkflowStep(v) \/ JanitorDelete(v)
  \/ \E c \in calls : CallStep(c) \/ CallFails(c)
  \/ \E d \in Document : TombstoneDocument(d)
  \/ \E r \in Reconciler : ReconcileStep(r) \/ ReconcileFails(r)
  \/ FlushBm25
  \/ JanitorSelect

Spec == Init /\ [][Next]_vars

\* Temporal retries an activity until it succeeds or is given up; a worker's
\* threads and requests end; the flusher polls.  Nothing starts a reconciliation
\* but an operator (scripts/ingestion_admin.py); one that has started goes on.
Fairness ==
  /\ \A v \in Version : WF_vars(Advance(v) \/ Reject(v))
  /\ \A v \in Version, s \in Activity : WF_vars(LateEffect(v, s) \/ LateEnd(v, s))
  /\ \A o \in Owner \cup {None} : WF_vars(\E c \in calls : c.owner = o /\ CallStep(c))
  /\ \A r \in Reconciler : WF_vars(rec[r].step # "idle" /\ ReconcileStep(r))
  /\ WF_vars(FlushBm25)

FairSpec == Spec /\ Fairness

-----------------------------------------------------------------------------
(* Properties.                                                             *)

\* The pointer of a document row and the statuses of its versions, written by
\* activations, tombstones and failures in any order, never disagree: the
\* version pointed at is active, no other is, and a deleted document has none.
PointerCoherent ==
  /\ \A v \in Version : version[v] = "active" <=> PointsAt(v)
  /\ \A d \in Document :
       /\ document[d].active # None => DocumentOf[document[d].active] = d
       /\ Deleted(d) => document[d].active = None

\* activate_ingestion_version's docstring calls the version it makes
\* authoritative "fully indexed": its chunk rows and its points exist then and
\* for as long as it stays active, whatever abandoned activities still write.
ActiveIsComplete ==
  \A v \in Version : version[v] = "active" => v \in chunkRows /\ points[v] # "absent"

\* Search, dense or lexical, returns no chunk of an upload that was never made
\* authoritative: neither one still being indexed nor one that failed.
OnlyPublishedVisible ==
  \A v \in Version : points[v] = "visible" \/ v \in bm25.versions => Published(v)

\* What an attempt's terminal status says about its version is true: indexed
\* was published, failed or cancelled is not left staged.
VerdictMatchesVersion ==
  \A v \in Version :
    /\ attempt[v] = "indexed" => Published(v)
    /\ attempt[v] \in {"failed", "cancelled"} => version[v] # "staged"

\* The janitor and the cleanup never remove an artifact that the workflow has
\* stored and a later activity of it will still load.
ArtifactsKept ==
  \A v \in Version :
    /\ pc[v] \in {"chunking", "chunk"} => "pages" \in artifacts[v]
    /\ pc[v] \in {"persisting", "persist", "indexing", "embed"} => "chunks" \in artifacts[v]

\* No other upload has reached the ledger for v's document, nor has a deletion.
Sole(v) ==
  /\ ~Deleted(DocumentOf[v])
  /\ \A w \in Version \ {v} : DocumentOf[w] = DocumentOf[v] => attempt[w] = "absent"

\* As long as no activity was abandoned and no request failed, a workflow ends
\* with its attempt still open only if another upload or a deletion of the same
\* document got in its way, or if it was cancelled at one of two bad moments:
\* before its first stage was recorded, or while it recorded a failure that the
\* ledger would have taken (IngestionWorkflow.run, finish_ingestion_attempt).
OpenOnlyAfterConflict ==
  [][\A v \in Version :
       faults' = 0 /\ pc[v] # "ended" /\ pc'[v] = "ended" /\ Open(v)' =>
         \/ ~Sole(v)
         \/ pc[v] = "cancelled" /\ attempt[v] = "queued"
         \/ pc[v] = "failed" /\ MayFinish(v, "failed")]_vars

\* "Retrieval visibility is removed" (scripts/ingestion_admin.py): once the
\* workflow that tombstones a document has returned, dense search returns no
\* chunk of the document again.  (For BM25, whose rebuilds may overlap, see
\* Bm25Index.)
RetiredIsInvisible ==
  \A v \in Version : DocumentOf[v] \in retired => points[v] # "visible"

\* That holds as long as no activity was abandoned and no request failed,
\* whatever activations and reconciliations are under way meanwhile.
RetiredUnlessFaults == faults = 0 => RetiredIsInvisible

\* A version's status only moves forward: staged to active or failed, active to
\* superseded; nothing a late or repeated activity does brings one back.
VersionLifecycle ==
  [][\A v \in Version : version'[v] # version[v] =>
       <<version[v], version'[v]>> \in {<<"absent", "staged">>, <<"staged", "active">>,
                                        <<"staged", "failed">>, <<"active", "superseded">>}]_vars

\* A terminal attempt stays as it is, except that reconciliation turns a failed
\* one whose version is active into indexed.
AttemptLifecycle ==
  [][\A v \in Version : attempt[v] \in Verdict /\ attempt'[v] # attempt[v] =>
       /\ attempt[v] = "failed"
       /\ attempt'[v] = "indexed"
       /\ version[v] = "active"]_vars

\* Ingestion implements the abstract documents.
Promise == INSTANCE PublishedDocuments WITH
  current   <- [d \in Document |-> document[d].active],
  published <- {v \in Version : Published(v)},
  deleted   <- {d \in Document : Deleted(d)}
Refinement == Promise!Spec

\* Qdrant shows exactly the active versions and holds nothing of deleted
\* documents, and the BM25 index is built from the rows there are.
DenseMatches ==
  \A v \in Version :
    /\ points[v] = "visible" <=> PointsAt(v)
    /\ Deleted(DocumentOf[v]) => points[v] = "absent"
LexicalMatches == bm25 = Corpus

\* However activations, tombstones, reconciliations and abandoned activities
\* interleave, both indexes end up matching the ledger and stay so, provided
\* operators keep running ReconcileIngestionWorkflow ("Repair Qdrant visibility
\* from PostgreSQL's active pointers/tombstones").
SearchConverges ==
  (\A r \in Reconciler : []<>(rec[r].step = "running")) => <>[](DenseMatches /\ LexicalMatches)

\* An attempt that was recorded failed, or left open, although its version had
\* become the active one is recorded as indexed in the end, whatever calls fail
\* or overlap meanwhile, under the same condition (reconcile_ingestion_indexes).
AttemptsRepaired ==
  (\A r \in Reconciler : []<>(rec[r].step = "running")) =>
    <>[](\A v \in Version : version[v] = "active" => attempt[v] \notin {"processing", "failed"})

\* Nothing is running any more and every published upload was recorded indexed.
AllIndexed ==
  /\ \A v \in Version : pc[v] \in {"idle", "ended"} /\ (Published(v) => attempt[v] = "indexed")
  /\ late = {} /\ calls = {}

\* "Make Qdrant visibility match PostgreSQL's active pointer or tombstone": true
\* after activations that all succeeded.
ActivationsMatchLedger == AllIndexed => \A v \in Version : points[v] = "visible" <=> PointsAt(v)
=============================================================================
