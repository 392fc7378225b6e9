------------------------ MODULE PublishedDocuments -------------------------
(***************************************************************************)
(* What ingestion promises about a document, without workflows, stages,    *)
(* retries or indexes: at any time at most one of its uploads is current,  *)
(* an upload takes its turn at being current once, and deleting the        *)
(* document is final.                                                      *)
(***************************************************************************)
CONSTANTS Document, Version, DocumentOf, None

VARIABLES
  current,    \* the upload each document currently consists of
  published,  \* the uploads that have had their turn
  deleted     \* the documents a user has deleted

Init ==
  /\ current = [d \in Document |-> None]
  /\ published = {}
  /\ deleted = {}

Publish(v) ==
  /\ v \notin published
  /\ DocumentOf[v] \notin deleted
  /\ current' = [current EXCEPT ![DocumentOf[v]] = v]
  /\ published' = published \cup {v}
  /\ UNCHANGED deleted

Delete(d) ==
  /\ d \notin deleted
  /\ current' = [current EXCEPT ![d] = None]
  /\ deleted' = deleted \cup {d}
  /\ UNCHANGED published

Next ==
  \/ \E v \in Version : Publish(v)
  \/ \E d \in Document : Delete(d)

Spec == Init /\ [][Next]_<<current, published, deleted>>
=============================================================================
