----------------------------- MODULE Bm25Index -----------------------------
(***************************************************************************)
(* The persisted BM25 index, one file operation at a time                  *)
(* (services/retrieval/bm25_index.py and bm25_rebuild_worker.py), and the  *)
(* copy of it that every query thread of the API shares                    *)
(* (services/retrieval/pipeline.py).  Threads of the ingestion worker and  *)
(* the flusher container rebuild the index on one volume without a lock.   *)
(*                                                                         *)
(* The corpus in PostgreSQL is the number of commits that changed it, so a *)
(* smaller number is an older corpus.  Files are inodes: a rename moves an *)
(* inode, an open handle stays with it.  A pickle is written in pieces, of *)
(* which two are kept apart, each at its place in the file; pickles of one *)
(* corpus are the same bytes.  Modification times are unique,              *)
(* so comparing one with the file's is asking whether the file has changed *)
(* since it was read; that answer is kept instead of the time.             *)
(***************************************************************************)
EXTENDS Naturals, FiniteSets

CONSTANTS
  Ingestion,    \* activities that change the corpus, then rebuild debounced
  Removal,      \* tombstones: change the corpus, then force a rebuild
  Reconciler,   \* reconciliations, each a forced rebuild, over and over
  Flusher,      \* the bm25-flusher containers
  Query,        \* query threads of the API
  Inode,        \* files, at least one more than there are processes
  Empty,        \* a piece of a file that is not there since it was truncated
  None,
  MaxAttempts,  \* maximum_attempts of the activities' retry policies
  MaxCrashes    \* bound on rebuilds that stop halfway

Caller  == Ingestion \cup Removal
Process == Caller \cup Reconciler \cup Flusher

ASSUME Bm25Assumption ==
  /\ IsFiniteSet(Process)
  /\ IsFiniteSet(Inode) /\ Cardinality(Inode) > Cardinality(Process)
  /\ MaxAttempts \in Nat \ {0} /\ MaxCrashes \in Nat
  /\ None \notin Inode \cup Nat /\ Empty \notin Nat
  /\ Ingestion \cap Removal = {} /\ Caller \cap (Reconciler \cup Flusher) = {}
  /\ Reconciler \cap Flusher = {}

VARIABLES
  corpus,    \* commits so far
  step,      \* where each process is
  snap,      \* the corpus its SELECT returned
  handle,    \* the inode it has open for writing
  content,   \* whose pickle each piece of an inode comes from
  index,     \* the inode INDEX_PATH names
  tmp,       \* the inode the shared temporary path names
  recent,    \* last_rebuild_at is inside the debounce window
  dirty,     \* the .dirty marker exists
  cache,     \* _bm25_index_cache: its content, and whether its mtime is the file's
  reader,    \* where each query thread is
  attempt,   \* attempts each caller has begun
  crashes

files   == <<content, index, tmp>>
readers == <<cache, reader>>
vars    == <<corpus, step, snap, handle, files, recent, dirty, readers, attempt, crashes>>

Corpus == 0..Cardinality(Caller)
Piece  == Corpus \cup {Empty}
Image  == [head : Piece, rest : Piece]

Blank     == [head |-> Empty, rest |-> Empty]
Pickle(c) == [head |-> c, rest |-> c]

\* A query thread outside of _get_bm25_index.
NoRead == [step |-> "idle", unchanged |-> FALSE, loaded |-> Blank]

\* What pickle.load makes an index of, and what has no piece missing.
Complete(image) == image.head # Empty /\ image.rest # Empty
Whole(image)    == Complete(image) /\ image.head = image.rest

TypeOK ==
  /\ corpus \in Corpus
  /\ step \in [Process -> {"idle", "call", "mark", "read", "open", "write", "finish",
                           "replace", "record", "unlink", "done"}]
  /\ snap \in [Process -> Corpus]
  /\ handle \in [Process -> Inode \cup {None}]
  /\ content \in [Inode -> Image]
  /\ index \in Inode \cup {None}
  /\ tmp \in Inode \cup {None}
  /\ recent \in BOOLEAN /\ dirty \in BOOLEAN
  /\ cache \in [content : Image \cup {None}, current : BOOLEAN]
  /\ reader \in [Query -> [step : {"idle", "compare", "load", "assign", "stamp"},
                           unchanged : BOOLEAN, loaded : Image]]
  /\ attempt \in [Caller -> 1..MaxAttempts]
  /\ crashes \in 0..MaxCrashes

Init ==
  /\ corpus = 0
  /\ step = [p \in Process |-> "idle"]
  /\ snap = [p \in Process |-> 0]
  /\ handle = [p \in Process |-> None]
  /\ content = [i \in Inode |-> Blank]
  /\ index = None /\ tmp = None
  /\ recent = FALSE /\ dirty = FALSE
  /\ cache = [content |-> None, current |-> FALSE]
  /\ reader = [q \in Query |-> NoRead]
  /\ attempt = [p \in Caller |-> 1]
  /\ crashes = 0

-----------------------------------------------------------------------------
Goto(p, s) == step' = [step EXCEPT ![p] = s]

\* The end of a call: callers make one, the others start again.
Return(p) == Goto(p, IF p \in Caller THEN "done" ELSE "idle")

\* A call that raised is retried by Temporal, until its attempts are used up, or
\* comes round again when the container has restarted.
\* (Mutant first: attempts are not counted against the policy.)
AgainForever(p) ==
  /\ Goto(p, IF p \in Caller THEN "call" ELSE "idle")
  /\ attempt' = [q \in Caller |-> IF q = p THEN attempt[q] + 1 ELSE attempt[q]]

Again(p) ==
  IF p \in Caller /\ attempt[p] < MaxAttempts
    THEN Goto(p, "call") /\ attempt' = [attempt EXCEPT ![p] = @ + 1]
    ELSE Return(p) /\ UNCHANGED attempt

\* What INDEX_PATH names has changed: no time read earlier is the file's.
Touch ==
  /\ cache' = [cache EXCEPT !.current = FALSE]
  /\ reader' = [q \in Query |-> [reader[q] EXCEPT !.unchanged = FALSE]]

\* An activity commits its change of the corpus, then calls
\* rebuild_index_from_postgres.
Commit(p) ==
  /\ step[p] = "idle"
  /\ corpus' = corpus + 1
  /\ Goto(p, "call")
  /\ UNCHANGED <<snap, handle, files, recent, dirty, readers, attempt, crashes>>

\* The debounce check; a forced call does not make it.
Debounce(p) ==
  /\ step[p] = "call"
  /\ Goto(p, IF p \in Ingestion /\ recent THEN "mark" ELSE "read")
  /\ UNCHANGED <<corpus, snap, handle, files, recent, dirty, readers, attempt, crashes>>

MarkDirty(p) ==
  /\ step[p] = "mark"
  /\ dirty' = TRUE
  /\ Return(p)
  /\ UNCHANGED <<corpus, snap, handle, files, recent, readers, attempt, crashes>>

\* reconcile_ingestion_indexes forces a rebuild; flush_if_dirty makes one when
\* it finds the marker.
Reconcile(p) ==
  /\ step[p] = "idle"
  /\ Goto(p, "read")
  /\ UNCHANGED <<corpus, snap, handle, files, recent, dirty, readers, attempt, crashes>>

Flush(p) ==
  /\ step[p] = "idle"
  /\ dirty
  /\ Goto(p, "read")
  /\ UNCHANGED <<corpus, snap, handle, files, recent, dirty, readers, attempt, crashes>>

\* _rebuild_now: the SELECT, save() (open the temporary file, write it piece by
\* piece, close it, rename it) and _record_rebuild (write the time, remove the
\* marker).
\* (Mutant first: the time of the rebuild is recorded when it begins.)
SelectRecording(p) ==
  /\ step[p] = "read"
  /\ snap' = [snap EXCEPT ![p] = corpus]
  /\ recent' = TRUE
  /\ Goto(p, "open")
  /\ UNCHANGED <<corpus, handle, files, dirty, readers, attempt, crashes>>

Select(p) ==
  /\ step[p] = "read"
  /\ snap' = [snap EXCEPT ![p] = corpus]
  /\ Goto(p, "open")
  /\ UNCHANGED <<corpus, handle, files, recent, dirty, readers, attempt, crashes>>

NewInode == CHOOSE i \in Inode : i # index /\ \A q \in Process : handle[q] # i

OpenTmp(p) ==
  /\ step[p] = "open"
  /\ LET i == IF tmp = None THEN NewInode ELSE tmp IN
       /\ tmp' = i
       /\ content' = [content EXCEPT ![i] = Blank]
       /\ handle' = [handle EXCEPT ![p] = i]
  /\ Goto(p, "write")
  /\ UNCHANGED <<corpus, snap, index, recent, dirty, readers, attempt, crashes>>

WriteHead(p) ==
  /\ step[p] = "write"
  /\ content' = [content EXCEPT ![handle[p]].head = snap[p]]
  /\ IF handle[p] = index THEN Touch ELSE UNCHANGED readers
  /\ Goto(p, "finish")
  /\ UNCHANGED <<corpus, snap, handle, index, tmp, recent, dirty, attempt, crashes>>

\* (Mutant first: a file that is no longer the temporary one is not written on.)
WriteRestOfTmp(p) ==
  /\ step[p] = "finish"
  /\ IF handle[p] = tmp
       THEN content' = [content EXCEPT ![tmp].rest = snap[p]] /\ Goto(p, "replace") /\ UNCHANGED attempt
       ELSE Again(p) /\ UNCHANGED content
  /\ handle' = [handle EXCEPT ![p] = None]
  /\ UNCHANGED <<corpus, snap, index, tmp, recent, dirty, readers, crashes>>

WriteRest(p) ==
  /\ step[p] = "finish"
  /\ content' = [content EXCEPT ![handle[p]].rest = snap[p]]
  /\ handle' = [handle EXCEPT ![p] = None]
  /\ IF handle[p] = index THEN Touch ELSE UNCHANGED readers
  /\ Goto(p, "replace")
  /\ UNCHANGED <<corpus, snap, index, tmp, recent, dirty, attempt, crashes>>

\* The rename moves whatever file the temporary path names by then (the file it
\* replaces is gone), and raises when another process has already moved it.
\* (Mutant first: rename, which on Windows does not replace a file.)
Rename(p) ==
  /\ step[p] = "replace"
  /\ IF tmp = None \/ index # None
       THEN Again(p) /\ UNCHANGED <<content, index, tmp, readers>>
       ELSE /\ Goto(p, "record")
            /\ index' = tmp
            /\ tmp' = None
            /\ Touch
            /\ UNCHANGED <<content, attempt>>
  /\ UNCHANGED <<corpus, snap, handle, recent, dirty, crashes>>

Replace(p) ==
  /\ step[p] = "replace"
  /\ IF tmp = None
       THEN Again(p) /\ UNCHANGED <<content, index, readers>>
       ELSE /\ Goto(p, "record")
            /\ UNCHANGED attempt
            /\ index' = tmp
            /\ content' = [i \in Inode |-> IF i = index THEN Blank ELSE content[i]]
            /\ Touch
  /\ tmp' = None
  /\ UNCHANGED <<corpus, snap, handle, recent, dirty, crashes>>

RecordTime(p) ==
  /\ step[p] = "record"
  /\ recent' = TRUE
  /\ Goto(p, "unlink")
  /\ UNCHANGED <<corpus, snap, handle, files, dirty, readers, attempt, crashes>>

Unlink(p) ==
  /\ step[p] = "unlink"
  /\ dirty' = FALSE
  /\ Return(p)
  /\ UNCHANGED <<corpus, snap, handle, files, recent, readers, attempt, crashes>>

Rebuild(p) ==
  \/ Select(p) \/ OpenTmp(p) \/ WriteHead(p) \/ WriteRest(p) \/ Replace(p)
  \/ RecordTime(p) \/ Unlink(p)

\* The process dies, or the database or the volume fails it.
Crash(p) ==
  /\ step[p] \in {"read", "open", "write", "finish", "replace", "record", "unlink"}
  /\ crashes < MaxCrashes
  /\ crashes' = crashes + 1
  /\ handle' = [handle EXCEPT ![p] = None]
  /\ Again(p)
  /\ UNCHANGED <<corpus, snap, files, recent, dirty, readers>>

\* The debounce window passes.
WindowPasses ==
  /\ recent
  /\ recent' = FALSE
  /\ UNCHANGED <<corpus, step, snap, handle, files, dirty, readers, attempt, crashes>>

-----------------------------------------------------------------------------
(* _get_bm25_index.                                                        *)

GotoReader(q, s) == reader' = [reader EXCEPT ![q].step = s]
Leave(q) == reader' = [reader EXCEPT ![q] = NoRead]

Stat(q) ==
  /\ reader[q].step = "idle"
  /\ index # None
  /\ reader' = [reader EXCEPT ![q].step = "compare", ![q].unchanged = TRUE]
  /\ UNCHANGED <<corpus, step, snap, handle, files, recent, dirty, cache, attempt, crashes>>

\* The cache is used when the two times are equal: both are still the file's,
\* or both may be the same earlier time of it.
Compare(q) ==
  /\ reader[q].step = "compare"
  /\ \/ /\ cache.content # None /\ reader[q].unchanged = cache.current
        /\ Leave(q)
     \/ /\ ~(reader[q].unchanged /\ cache.current)
        /\ GotoReader(q, "load")
  /\ UNCHANGED <<corpus, step, snap, handle, files, recent, dirty, cache, attempt, crashes>>

\* pickle.load fails on a file with a piece missing, and may or may not fail on
\* a mixture of two pickles; the caller then does without BM25.  A load that a
\* write overlaps counts as taking place before or after it: the file has
\* changed since Stat either way.
Load(q) ==
  /\ reader[q].step = "load"
  /\ \/ /\ ~Whole(content[index])
        /\ Leave(q)
     \/ /\ Complete(content[index])
        /\ reader' = [reader EXCEPT ![q].step = "assign", ![q].loaded = content[index]]
  /\ UNCHANGED <<corpus, step, snap, handle, files, recent, dirty, cache, attempt, crashes>>

\* A loaded index has no time until the thread stamps it; the stamp goes to
\* whatever index the shared variable holds by then.
Assign(q) ==
  /\ reader[q].step = "assign"
  /\ cache' = [content |-> reader[q].loaded, current |-> FALSE]
  /\ GotoReader(q, "stamp")
  /\ UNCHANGED <<corpus, step, snap, handle, files, recent, dirty, attempt, crashes>>

\* (Mutant first: the time is read after the file.)
StampLate(q) ==
  /\ reader[q].step = "stamp"
  /\ cache' = [cache EXCEPT !.current = TRUE]
  /\ Leave(q)
  /\ UNCHANGED <<corpus, step, snap, handle, files, recent, dirty, attempt, crashes>>

Stamp(q) ==
  /\ reader[q].step = "stamp"
  /\ cache' = [cache EXCEPT !.current = reader[q].unchanged]
  /\ Leave(q)
  /\ UNCHANGED <<corpus, step, snap, handle, files, recent, dirty, attempt, crashes>>

Answer(q) == Stat(q) \/ Compare(q) \/ Load(q) \/ Assign(q) \/ Stamp(q)

-----------------------------------------------------------------------------
Work(p) == Debounce(p) \/ MarkDirty(p) \/ Rebuild(p)

Next ==
  \/ \E p \in Process : Work(p) \/ Crash(p)
  \/ \E p \in Caller : Commit(p)
  \/ \E p \in Reconciler : Reconcile(p)
  \/ \E p \in Flusher : Flush(p)
  \/ WindowPasses
  \/ \E q \in Query : Answer(q)

Spec == Init /\ [][Next]_vars

\* A rebuild that has begun goes on and the flusher polls.  Nothing promises
\* that an ingestion, a removal, a reconciliation or a query is ever started.
Fairness ==
  /\ \A p \in Process : WF_vars(Work(p))
  /\ \A p \in Flusher : WF_vars(Flush(p))

FairSpec == Spec /\ Fairness

-----------------------------------------------------------------------------
(* Properties.                                                             *)

\* "Return the cached BM25 index, reloading it when the index file changes":
\* the copy that queries go on using is the one in the file.  A copy loaded
\* from an older file must not carry the time of a newer one.
CacheHonest == cache.current => cache.content = content[index]

\* The debounce window is only ever opened by an index that was saved: a call
\* that is skipped relies on one being there.
RecentMeansSaved == recent => index # None

Resting == \A p \in Process : step[p] \in {"idle", "done"}

\* Two rebuilds share one temporary file, and one may publish what the other
\* has just truncated or half written; but as long as none dies, once all have
\* returned no piece of the published file is missing.
RestingComplete == crashes = 0 /\ Resting /\ index # None => Complete(content[index])

\* "Atomically serialize this index to path" (save): as long as no rebuild dies,
\* once all have returned and none is owed, the published file is one whole index.
RestingReadable == crashes = 0 /\ Resting /\ ~dirty /\ index # None => Whole(content[index])

UpToDate == index # None /\ content[index] = Pickle(corpus)

\* Overlapping rebuilds may save an older corpus over a newer one, but if
\* reconciliations go on the index ends up built from the last corpus.
ReconciledIsUpToDate ==
  (\A p \in Reconciler : []<>(step[p] = "read")) => <>[]UpToDate

\* flush_if_dirty: a burst of ingestions that skipped their own rebuild "still
\* converges to an up-to-date index shortly afterward".
FlushConverges == (\A p \in Caller : step[p] = "done") ~> UpToDate
=============================================================================
