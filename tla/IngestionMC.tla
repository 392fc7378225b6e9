---------------------------- MODULE IngestionMC ----------------------------
(***************************************************************************)
(* Instances of Ingestion for TLC: two uploads of one document.            *)
(***************************************************************************)
EXTENDS Ingestion, TLC

CONSTANTS d1, v1, v2, r1

OneDocument  == {d1}
TwoUploads   == {v1, v2}
SameDocument == [v \in Version |-> d1]
Uploads      == Permutations(Version)

\* A reachable state from which overlapping activations are checked: both uploads
\* of d1 have been activated, v2 after v1, neither activation has sent a Qdrant
\* request yet, and the faults there may be have happened and been retried.
BothActivated ==
  /\ document = [d \in Document |-> [status |-> "indexed", active |-> v2]]
  /\ attempt = [v \in Version |-> "processing"]
  /\ version = [v \in Version |-> IF v = v2 THEN "active" ELSE "superseded"]
  /\ chunkRows = Version
  /\ legacyRows = Legacy
  /\ points = [v \in Version |-> "hidden"]
  /\ legacyPoints = Legacy
  /\ bm25 = [versions |-> {}, legacy |-> Legacy]
  /\ dirty = TRUE
  /\ pc = [v \in Version |-> "qdrant"]
  /\ artifacts = [v \in Version |-> {"pages", "chunks"}]
  /\ calls = {NewCall(v, DocumentOf[v], v, FALSE) : v \in Version}
  /\ late = {} /\ retired = {} /\ expired = {} /\ faults = MaxFaults
  /\ rec = [r \in Reconciler |-> NoRun]

\* Another one: the workflow of v2 was cancelled before it registered, and that
\* of v1 has got without a fault to where its chunks are stored as an artifact.
OneChunked ==
  /\ document = [d \in Document |-> [status |-> "processing", active |-> None]]
  /\ attempt = [v \in Version |-> IF v = v1 THEN "processing" ELSE "absent"]
  /\ version = [v \in Version |-> IF v = v1 THEN "staged" ELSE "absent"]
  /\ chunkRows = {}
  /\ legacyRows = Legacy
  /\ IndexInit
  /\ pc = [v \in Version |-> IF v = v1 THEN "persisting" ELSE "ended"]
  /\ artifacts = [v \in Version |-> IF v = v1 THEN {"pages", "chunks"} ELSE {}]
  /\ late = {} /\ calls = {} /\ retired = {} /\ expired = {} /\ faults = 0
  /\ rec = [r \in Reconciler |-> NoRun]

FairSpecFromEither == (BothActivated \/ OneChunked) /\ [][Next]_vars /\ Fairness
=============================================================================
