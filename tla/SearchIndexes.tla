--------------------------- MODULE SearchIndexes ---------------------------
(***************************************************************************)
(* The two retrieval stores derived from the ledger: the points of the     *)
(* Qdrant collection (services/retrieval/qdrant_store.py) and the          *)
(* persisted BM25 index with its dirty marker                              *)
(* (services/retrieval/bm25_index.py).  Each Qdrant request is one action; *)
(* nothing makes two of them atomic.  A BM25 rebuild is one action here;   *)
(* module Bm25Index takes it apart.                                        *)
(***************************************************************************)
EXTENDS IngestionLedger

VARIABLES
  points,        \* a version's points: absent, or their is_active payload
  legacyPoints,  \* documents that have points with no version_id
  bm25,          \* what the saved index was built from
  dirty          \* the .dirty marker exists

indexVars == <<points, legacyPoints, bm25, dirty>>

PointState == {"absent", "hidden", "visible"}

IndexTypeOK ==
  /\ points \in [Version -> PointState]
  /\ legacyPoints \subseteq Document
  /\ bm25 \in [versions : SUBSET Version, legacy : SUBSET Document]
  /\ dirty \in BOOLEAN

IndexInit ==
  /\ points = [v \in Version |-> "absent"]
  /\ legacyPoints = Legacy
  /\ bm25 = [versions |-> {}, legacy |-> Legacy]
  /\ dirty = FALSE

\* index_chunks: an upsert rewrites the whole payload, is_active: False included.
\* (Mutant first: new points are searchable at once.)
UpsertVisible(v) ==
  /\ points' = [points EXCEPT ![v] = "visible"]
  /\ UNCHANGED <<legacyPoints, bm25, dirty>>

Upsert(v) ==
  /\ points' = [points EXCEPT ![v] = "hidden"]
  /\ UNCHANGED <<legacyPoints, bm25, dirty>>

\* The requests of reconcile_document_version, each over the points that
\* exist when it arrives.
ShowVersion(v) ==
  /\ points' = [points EXCEPT ![v] = IF @ = "absent" THEN @ ELSE "visible"]
  /\ UNCHANGED <<legacyPoints, bm25, dirty>>

HideOthers(d, active) ==
  /\ points' = [v \in Version |->
                  IF DocumentOf[v] = d /\ v # active /\ points[v] = "visible"
                    THEN "hidden" ELSE points[v]]
  /\ UNCHANGED <<legacyPoints, bm25, dirty>>

\* Mutant: only searchable points are deleted.
DropVisiblePoints(d) ==
  /\ points' = [v \in Version |-> IF DocumentOf[v] = d /\ points[v] = "visible"
                                     THEN "absent" ELSE points[v]]
  /\ UNCHANGED <<legacyPoints, bm25, dirty>>

DropPoints(d) ==
  /\ points' = [v \in Version |-> IF DocumentOf[v] = d THEN "absent" ELSE points[v]]
  /\ UNCHANGED <<legacyPoints, bm25, dirty>>

DropLegacyPoints(d) ==
  /\ legacyPoints' = legacyPoints \ {d}
  /\ UNCHANGED <<points, bm25, dirty>>

\* rebuild_index_from_postgres: inside the debounce window an unforced call
\* only leaves the marker.
RebuildBm25 ==
  /\ bm25' = Corpus
  /\ dirty' = FALSE
  /\ UNCHANGED <<points, legacyPoints>>

RefreshBm25(force) ==
  \/ RebuildBm25
  \/ /\ ~force
     /\ dirty' = TRUE
     /\ UNCHANGED <<points, legacyPoints, bm25>>
=============================================================================
