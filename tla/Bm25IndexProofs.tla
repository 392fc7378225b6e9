-------------------------- MODULE Bm25IndexProofs --------------------------
(***************************************************************************)
(* Theorems about Bm25Index, for any number of processes that rebuild the  *)
(* index and of files.  The argument that no piece of what is published is *)
(* missing goes over the writers: a piece that is missing from a file that *)
(* a path names is one that some rebuild has yet to write to it.           *)
(***************************************************************************)
EXTENDS Bm25Index, Counting

Steps == {"idle", "call", "mark", "read", "open", "write", "finish", "replace", "record", "unlink", "done"}

\* Where a process has the file open.
Writing == {"write", "finish"}

\* The corpus counts the callers that have begun.
Begun == {p \in Caller : step[p] # "idle"}

Counted == IsFiniteSet(Begun) /\ corpus = Cardinality(Begun)

\* A process has a file open exactly between opening and writing it.
OpenToWrite == \A p \in Process : handle[p] # None <=> step[p] \in Writing

\* The two paths never name one file.
PathsApart == tmp # None => tmp # index

\* A rebuild is recorded when an index is there.
SavedFirst ==
  /\ recent => index # None
  /\ \A p \in Process : step[p] \in {"record", "unlink"} => index # None

\* So is it when a query reads it.
ReadWhatIsThere == \A q \in Query : reader[q].step # "idle" => index # None

\* As long as no rebuild has died, what is missing from a file that a path names
\* has yet to be written to it.
BeingWritten ==
  crashes = 0 =>
    \A i \in {index, tmp} \ {None} :
       /\ content[i].head = Empty => \E p \in Process : step[p] = "write" /\ handle[p] = i
       /\ content[i].rest = Empty => \E p \in Process : step[p] \in Writing /\ handle[p] = i

BInv ==
  /\ TypeOK
  /\ Counted
  /\ OpenToWrite
  /\ PathsApart
  /\ SavedFirst
  /\ ReadWhatIsThere
  /\ BeingWritten

-----------------------------------------------------------------------------
(* The steps.                                                              *)

\* A process goes on.
Moves(p, from, to) == step[p] = from /\ step' = [step EXCEPT ![p] = to]

\* What does not touch a file, as far as the index is concerned: nobody opens
\* a file, and a rebuild is recorded after the rename.
Quiet ==
  /\ UNCHANGED <<files, handle, crashes>>
  /\ \/ step' = step
     \/ \E p \in Process, from, to \in Steps \ Writing :
          /\ Moves(p, from, to)
          /\ to \in {"record", "unlink"} => from = "record"
          /\ p \in Caller => to # "idle"
          /\ p \in Caller /\ from = "idle" => to = "call"
  /\ recent' => recent \/ \E p \in Process : step[p] = "record"

\* A process whose rebuild raised starts over, or gives up as its role does.
LEMMA AgainMoves ==
  ASSUME TypeOK, NEW p \in Process, step[p] # "idle", Again(p)
  PROVE  /\ \E to \in {"call", "done", "idle"} : Moves(p, step[p], to) /\ (p \in Caller => to # "idle")
         /\ attempt' \in [Caller -> 1..MaxAttempts]
<1>1. CASE p \in Caller /\ attempt[p] < MaxAttempts
  BY <1>1, Bm25Assumption DEF Again, Goto, Moves, TypeOK
<1>2. CASE ~(p \in Caller /\ attempt[p] < MaxAttempts)
  BY <1>2 DEF Again, Return, Goto, Moves, TypeOK
<1> QED
  BY <1>1, <1>2

\* A move that leaves the files alone is quiet.
LEMMA QuietMove ==
  ASSUME NEW p \in Process, NEW from \in Steps \ Writing, NEW to \in Steps \ Writing, Moves(p, from, to),
         to \in {"record", "unlink"} => from = "record",
         p \in Caller => to # "idle",
         p \in Caller /\ from = "idle" => to = "call",
         UNCHANGED <<files, handle, crashes>>,
         recent' => recent \/ from = "record"
  PROVE  Quiet
BY DEF Quiet, Moves

\* The debounce, the selection, the marker and the bookkeeping are quiet.
LEMMA QuietSteps ==
  ASSUME TypeOK, NEW p \in Process,
         \/ Debounce(p) \/ MarkDirty(p) \/ Select(p) \/ RecordTime(p) \/ Unlink(p)
         \/ (p \in Caller /\ Commit(p)) \/ (p \in Reconciler /\ Reconcile(p)) \/ (p \in Flusher /\ Flush(p))
  PROVE  Quiet
<1> DEFINE Back == IF p \in Caller THEN "done" ELSE "idle"
<1> USE DEF Steps, Writing
<1>1. CASE Debounce(p)
  <2>1. step[p] = "call" /\ UNCHANGED <<files, handle, crashes, recent>>
    BY <1>1 DEF Debounce, Goto, Return, Moves
  <2>2. Moves(p, "call", "mark") \/ Moves(p, "call", "read")
    BY <1>1 DEF Debounce, Goto, Return, Moves
  <2> QED
    BY <2>1, <2>2, QuietMove
<1>2. CASE MarkDirty(p)
  <2>1. Moves(p, "mark", Back) /\ UNCHANGED <<files, handle, crashes, recent>>
    BY <1>2 DEF MarkDirty, Goto, Return, Moves
  <2> QED
    BY <2>1, QuietMove
<1>3. CASE Select(p)
  <2>1. Moves(p, "read", "open") /\ UNCHANGED <<files, handle, crashes, recent>>
    BY <1>3 DEF Select, Goto, Return, Moves
  <2> QED
    BY <2>1, QuietMove
<1>4. CASE RecordTime(p)
  <2>1. Moves(p, "record", "unlink") /\ UNCHANGED <<files, handle, crashes>>
    BY <1>4 DEF RecordTime, Goto, Return, Moves
  <2> QED
    BY <2>1, QuietMove
<1>5. CASE Unlink(p)
  <2>1. Moves(p, "unlink", Back) /\ UNCHANGED <<files, handle, crashes, recent>>
    BY <1>5 DEF Unlink, Goto, Return, Moves
  <2> QED
    BY <2>1, QuietMove
<1>6. CASE p \in Caller /\ Commit(p)
  <2>1. Moves(p, "idle", "call") /\ UNCHANGED <<files, handle, crashes, recent>>
    BY <1>6 DEF Commit, Goto, Return, Moves
  <2> QED
    BY <2>1, QuietMove
<1>7. CASE (p \in Reconciler /\ Reconcile(p)) \/ (p \in Flusher /\ Flush(p))
  <2>1. Moves(p, "idle", "read") /\ UNCHANGED <<files, handle, crashes, recent>>
    BY <1>7 DEF Reconcile, Flush, Goto, Return, Moves
  <2>2. p \notin Caller
    BY <1>7, Bm25Assumption
  <2> QED
    BY <2>1, <2>2, QuietMove
<1> QED
  BY <1>1, <1>2, <1>3, <1>4, <1>5, <1>6, <1>7

\* A query thread reads the files and changes only its own state and the cache.
LEMMA AnswerSteps ==
  ASSUME NEW q \in Query, Answer(q)
  PROVE  UNCHANGED <<corpus, step, snap, handle, files, recent, dirty, attempt, crashes>>
BY DEF Answer, Stat, Compare, Load, Assign, Stamp

\* While a process has no file, there is one that nothing uses.
LEMMA FreeInode ==
  ASSUME TypeOK, NEW p \in Process, handle[p] = None
  PROVE  \E i \in Inode : i # index /\ \A q \in Process : handle[q] # i
<1> DEFINE P == Process \ {p}
           f == [q \in P |-> handle[q]]
           T == {handle[q] : q \in P}
<1>1. IsFiniteSet(P) /\ Cardinality(P) \in Nat /\ Cardinality(P) = Cardinality(Process) - 1
  BY CountLeaves, Bm25Assumption
<1>2. f \in Surjection(P, T)
  BY DEF Surjection
<1>3. IsFiniteSet(T) /\ Cardinality(T) <= Cardinality(P)
  <2> HIDE DEF P, f, T
  <2> QED
    BY <1>1, <1>2, FS_Surjection
<1> DEFINE U == T \cup {index}
<1>4. Cardinality(U) \in Nat /\ Cardinality(U) <= Cardinality(T) + 1 /\ Cardinality(T) \in Nat /\ IsFiniteSet(U)
  <2> HIDE DEF T
  <2> QED
    BY <1>3, CountWithOne, FS_CardinalityType
<1>5. ~(Inode \subseteq U)
  <2> HIDE DEF P, T, U
  <2>1. Inode \subseteq U => Cardinality(Inode) <= Cardinality(U)
    BY <1>4, CountWithin
  <2>2. Cardinality(Inode) \in Nat /\ Cardinality(Process) \in Nat /\ Cardinality(Inode) > Cardinality(Process)
    BY Bm25Assumption, FS_CardinalityType
  <2> QED
    BY <1>1, <1>3, <1>4, <2>1, <2>2
<1>6. PICK i \in Inode : i \notin U
  BY <1>5
<1>7. handle[p] # i
  BY Bm25Assumption
<1> QED
  BY <1>6, <1>7

\* The temporary path names a file that is being truncated;
Opens(p) ==
  \E i \in Inode :
    /\ i # index
    /\ tmp' = i
    /\ content' = [content EXCEPT ![i] = Blank]
    /\ handle' = [handle EXCEPT ![p] = i]
    /\ Moves(p, "open", "write")
    /\ UNCHANGED <<corpus, snap, index, recent, dirty, readers, attempt, crashes>>

\* or a piece of a file is written, whatever path names it;
Writes(p) == WriteHead(p) \/ WriteRest(p)

\* or the index path names what the temporary one did;
Publishes(p) ==
  /\ tmp # None
  /\ Moves(p, "replace", "record")
  /\ index' = tmp /\ tmp' = None
  /\ content' = [i \in Inode |-> IF i = index THEN Blank ELSE content[i]]
  /\ Touch
  /\ UNCHANGED <<corpus, snap, handle, recent, dirty, attempt, crashes>>

\* or a rebuild ends early.
Stops(p) ==
  /\ step[p] \notin {"idle", "call"}
  /\ \E to \in {"call", "done", "idle"} : Moves(p, step[p], to) /\ (p \in Caller => to # "idle")
  /\ attempt' \in [Caller -> 1..MaxAttempts]
  /\ handle' = [handle EXCEPT ![p] = None]
  /\ crashes' \in 0..MaxCrashes
  /\ crashes' = 0 => step[p] \notin Writing /\ crashes = 0
  /\ UNCHANGED <<corpus, snap, files, recent, dirty, readers>>

\* Opening the temporary file gives the process an empty file that is not the index.
LEMMA OpenTmpOpens ==
  ASSUME TypeOK, OpenToWrite, PathsApart, NEW p \in Process, OpenTmp(p)
  PROVE  Opens(p)
<1> DEFINE i == IF tmp = None THEN NewInode ELSE tmp
<1>1. handle[p] = None
  BY DEF OpenTmp, OpenToWrite, Writing
<1>2. NewInode \in Inode /\ NewInode # index
  BY <1>1, FreeInode DEF NewInode
<1>3. i \in Inode /\ i # index
  BY <1>2 DEF TypeOK, PathsApart
<1>4. /\ tmp' = i /\ content' = [content EXCEPT ![i] = Blank] /\ handle' = [handle EXCEPT ![p] = i]
      /\ Moves(p, "open", "write")
      /\ UNCHANGED <<corpus, snap, index, recent, dirty, readers, attempt, crashes>>
  BY DEF OpenTmp, Goto, Moves
<1> QED
  BY <1>3, <1>4 DEF Opens

\* os.replace publishes the temporary file, or fails when there is none.
LEMMA ReplaceCases ==
  ASSUME TypeOK, OpenToWrite, NEW p \in Process, Replace(p)
  PROVE  Publishes(p) \/ Stops(p)
<1>1. CASE tmp = None
  <2>1. handle[p] = None
    BY DEF Replace, OpenToWrite, Writing
  <2>2. handle' = [handle EXCEPT ![p] = None]
    BY <2>1 DEF Replace, TypeOK
  <2> QED
    BY <1>1, <2>2, AgainMoves DEF Replace, Stops, TypeOK, files, Writing
<1>2. CASE tmp # None
  BY <1>2 DEF Replace, Publishes, Goto, Moves
<1> QED
  BY <1>1, <1>2

\* A process that dies leaves what it had written so far.
LEMMA CrashStops ==
  ASSUME TypeOK, NEW p \in Process, Crash(p)
  PROVE  Stops(p)
<1>1. crashes' \in 0..MaxCrashes /\ crashes' # 0
  BY Bm25Assumption DEF Crash, TypeOK
<1>2. step[p] \notin {"idle", "call"} /\ Again(p)
  BY DEF Crash
<1> QED
  BY <1>1, <1>2, AgainMoves DEF Crash, Stops

\* A step, as the files look at it.
LEMMA Kinds ==
  ASSUME TypeOK, OpenToWrite, PathsApart, [Next]_vars
  PROVE  \/ \E p \in Process : Opens(p) \/ Writes(p) \/ Publishes(p) \/ Stops(p)
         \/ Quiet
<1>1. ASSUME UNCHANGED <<step, handle, files, crashes>>, recent' => recent
      PROVE  Quiet
  BY <1>1 DEF Quiet
<1>2. CASE UNCHANGED vars
  BY <1>1, <1>2 DEF vars
<1>3. CASE WindowPasses
  BY <1>1, <1>3 DEF WindowPasses
<1>4. CASE \E q \in Query : Answer(q)
  BY <1>1, <1>4, AnswerSteps
<1>5. ASSUME NEW p \in Process, Work(p) \/ Crash(p)
      PROVE  Opens(p) \/ Writes(p) \/ Publishes(p) \/ Stops(p) \/ Quiet
  <2>1. CASE Debounce(p) \/ MarkDirty(p) \/ Select(p) \/ RecordTime(p) \/ Unlink(p)
    BY <2>1, QuietSteps
  <2>2. CASE OpenTmp(p)
    BY <2>2, OpenTmpOpens
  <2>3. CASE Replace(p)
    BY <2>3, ReplaceCases
  <2>4. CASE Crash(p)
    BY <2>4, CrashStops
  <2> QED
    BY <1>5, <2>1, <2>2, <2>3, <2>4 DEF Work, Rebuild, Writes
<1>6. ASSUME NEW p \in Process,
             (p \in Caller /\ Commit(p)) \/ (p \in Reconciler /\ Reconcile(p)) \/ (p \in Flusher /\ Flush(p))
      PROVE  Quiet
  BY <1>6, QuietSteps
<1>7. CASE \E p \in Process : Work(p) \/ Crash(p)
  <2>1. PICK p \in Process : Work(p) \/ Crash(p)
    BY <1>7
  <2> QED
    BY <1>5, <2>1
<1>8. CASE (\E p \in Caller : Commit(p)) \/ (\E p \in Reconciler : Reconcile(p)) \/ \E p \in Flusher : Flush(p)
  <2>1. Caller \subseteq Process /\ Reconciler \subseteq Process /\ Flusher \subseteq Process
    BY DEF Process
  <2>2. ASSUME NEW p \in Caller, Commit(p)
        PROVE  Quiet
    BY <1>6, <2>1, <2>2
  <2>3. ASSUME NEW p \in Reconciler, Reconcile(p)
        PROVE  Quiet
    BY <1>6, <2>1, <2>3
  <2>4. ASSUME NEW p \in Flusher, Flush(p)
        PROVE  Quiet
    BY <1>6, <2>1, <2>4
  <2> QED
    BY <1>8, <2>2, <2>3, <2>4
<1> QED
  BY <1>2, <1>3, <1>4, <1>7, <1>8 DEF Next

-----------------------------------------------------------------------------
(* The invariant                                                           *)

\* The invariant holds initially.
LEMMA InitBInv == Init => BInv
<1> SUFFICES ASSUME Init
             PROVE  BInv
  OBVIOUS
<1> USE Bm25Assumption DEF Init, NoRead, Blank, Image, Piece
<1>1. Begun = {}
  BY DEF Begun, Process
<1>2. IsFiniteSet(Caller) /\ Cardinality(Caller) \in Nat
  BY CountWithin DEF Process
<1>3. TypeOK
  <2>1. corpus \in Corpus /\ snap \in [Process -> Corpus]
    BY <1>2 DEF Corpus
  <2>2. reader \in [Query -> [step : {"idle", "compare", "load", "assign", "stamp"},
                            unchanged : BOOLEAN, loaded : Image]]
    BY <1>2 DEF Corpus
  <2>3. cache \in [content : Image \cup {None}, current : BOOLEAN]
    OBVIOUS
  <2>4. attempt \in [Caller -> 1..MaxAttempts] /\ crashes \in 0..MaxCrashes
    OBVIOUS
  <2>5. content \in [Inode -> Image]
    OBVIOUS
  <2> QED
    BY <2>1, <2>2, <2>3, <2>4, <2>5 DEF TypeOK
<1>4. Counted /\ OpenToWrite /\ PathsApart /\ SavedFirst /\ ReadWhatIsThere /\ BeingWritten
  BY <1>1, CountNothing DEF Counted, OpenToWrite, PathsApart, SavedFirst, ReadWhatIsThere, BeingWritten, Writing
<1> QED
  BY <1>3, <1>4 DEF BInv

\* What a process holds open it is about to write.
LEMMA OpenToWriteStep ==
  ASSUME TypeOK, OpenToWrite, PathsApart, [Next]_vars
  PROVE  OpenToWrite'
<1> USE Bm25Assumption DEF TypeOK, OpenToWrite, Moves, Writing
<1>1. ASSUME NEW p \in Process, Opens(p)
      PROVE  OpenToWrite'
  BY <1>1 DEF Opens
<1>2. ASSUME NEW p \in Process, Writes(p)
      PROVE  OpenToWrite'
  BY <1>2 DEF Writes, WriteHead, WriteRest, Goto
<1>3. ASSUME NEW p \in Process, Publishes(p)
      PROVE  OpenToWrite'
  BY <1>3 DEF Publishes
<1>4. ASSUME NEW p \in Process, Stops(p)
      PROVE  OpenToWrite'
  BY <1>4 DEF Stops
<1>5. CASE Quiet
  BY <1>5 DEF Quiet
<1> QED
  BY Kinds, <1>1, <1>2, <1>3, <1>4, <1>5

\* The temporary path is given a new file, and gives it away.
LEMMA PathsApartStep ==
  ASSUME TypeOK, OpenToWrite, PathsApart, [Next]_vars
  PROVE  PathsApart'
<1> USE DEF PathsApart, files
<1>1. ASSUME NEW p \in Process, Opens(p) \/ Writes(p) \/ Publishes(p) \/ Stops(p)
      PROVE  PathsApart'
  BY <1>1 DEF Opens, Writes, WriteHead, WriteRest, Publishes, Stops
<1>2. CASE Quiet
  BY <1>2 DEF Quiet
<1> QED
  BY Kinds, <1>1, <1>2

\* An index that was saved stays, and a rebuild is recorded behind it.
LEMMA SavedFirstStep ==
  ASSUME TypeOK, OpenToWrite, PathsApart, SavedFirst, [Next]_vars
  PROVE  SavedFirst'
<1> USE DEF TypeOK, SavedFirst, Moves, files
<1>1. ASSUME NEW p \in Process, Opens(p)
      PROVE  SavedFirst'
  BY <1>1 DEF Opens
<1>2. ASSUME NEW p \in Process, Writes(p)
      PROVE  SavedFirst'
  BY <1>2 DEF Writes, WriteHead, WriteRest, Goto
<1>3. ASSUME NEW p \in Process, Publishes(p)
      PROVE  SavedFirst'
  BY <1>3 DEF Publishes
<1>4. ASSUME NEW p \in Process, Stops(p)
      PROVE  SavedFirst'
  BY <1>4 DEF Stops
<1>5. CASE Quiet
  BY <1>5 DEF Quiet
<1> QED
  BY Kinds, <1>1, <1>2, <1>3, <1>4, <1>5

\* What is missing from a named file is somebody's to write: the file is
\* truncated by a process that opens it, and the one the rename leaves behind
\* has no name.
LEMMA BeingWrittenStep ==
  ASSUME TypeOK, OpenToWrite, PathsApart, BeingWritten, [Next]_vars
  PROVE  BeingWritten'
<1> USE DEF TypeOK, BeingWritten, Moves, Writing
<1>1. ASSUME NEW p \in Process, Opens(p)
      PROVE  BeingWritten'
  BY <1>1 DEF Opens
<1>2. ASSUME NEW p \in Process, Writes(p)
      PROVE  BeingWritten'
  <2>1. snap[p] # Empty /\ UNCHANGED <<index, tmp, crashes>>
    BY <1>2, Bm25Assumption DEF Writes, WriteHead, WriteRest, Corpus
  <2>2. \A q \in Process \ {p} : step'[q] = step[q] /\ handle'[q] = handle[q]
    BY <1>2 DEF Writes, WriteHead, WriteRest, Goto
  <2>3. \A i \in Inode \ {handle[p]} : content'[i] = content[i]
    BY <1>2 DEF Writes, WriteHead, WriteRest
  <2>4. handle[p] \in Inode
    BY <1>2 DEF Writes, WriteHead, WriteRest, OpenToWrite
  <2>5. CASE WriteHead(p)
    <3>1. /\ content'[handle[p]].head = snap[p] /\ content'[handle[p]].rest = content[handle[p]].rest
          /\ step[p] = "write" /\ step'[p] = "finish" /\ handle' = handle
      BY <2>4, <2>5 DEF WriteHead, Goto, Image
    <3> QED
      BY <2>1, <2>2, <2>3, <3>1
  <2>6. CASE WriteRest(p)
    <3>1. /\ content'[handle[p]].rest = snap[p] /\ content'[handle[p]].head = content[handle[p]].head
          /\ step[p] = "finish"
      BY <2>4, <2>6 DEF WriteRest, Goto, Image
    <3> QED
      BY <2>1, <2>2, <2>3, <3>1
  <2> QED
    BY <1>2, <2>5, <2>6 DEF Writes
<1>3. ASSUME NEW p \in Process, Publishes(p)
      PROVE  BeingWritten'
  BY <1>3 DEF Publishes, PathsApart
<1>4. ASSUME NEW p \in Process, Stops(p)
      PROVE  BeingWritten'
  BY <1>4 DEF Stops, files
<1>5. CASE Quiet
  BY <1>5 DEF Quiet, files
<1> QED
  BY Kinds, <1>1, <1>2, <1>3, <1>4, <1>5

\* Every caller commits once, so the corpus counts those that have begun.
LEMMA CountedStep ==
  ASSUME TypeOK, OpenToWrite, PathsApart, Counted, [Next]_vars
  PROVE  Counted' /\ corpus' \in Corpus
<1>1. Begun' \subseteq Caller /\ IsFiniteSet(Caller)
  BY Bm25Assumption, CountWithin DEF Begun, Process
<1>2. Counted' => corpus' \in Corpus
  BY <1>1, CountWithin DEF Counted, Corpus
<1>3. ASSUME NEW p \in Caller, Commit(p)
      PROVE  Counted'
  <2>1. p \notin Begun /\ Begun' = Begun \cup {p} /\ corpus' = corpus + 1
    BY <1>3 DEF Commit, Goto, Begun, TypeOK, Process
  <2> QED
    BY <2>1, CountEnters DEF Counted
<1>4. ASSUME corpus' = corpus, Begun' = Begun
      PROVE  Counted'
  BY <1>4 DEF Counted
<1>5. ASSUME NEW p \in Process, NEW to \in Steps, step[p] # "idle" \/ p \notin Caller,
             step' = [step EXCEPT ![p] = to], p \in Caller => to # "idle"
      PROVE  Begun' = Begun
  BY <1>5 DEF Begun, TypeOK
<1>6. ASSUME NEW p \in Process, Work(p) \/ Crash(p)
      PROVE  Counted'
  <2>1. corpus' = corpus
    BY <1>6 DEF Work, Debounce, MarkDirty, Rebuild, Select, OpenTmp, Writes, WriteHead, WriteRest, Replace, RecordTime, Unlink, Crash
  <2>2. CASE Debounce(p) \/ MarkDirty(p) \/ Select(p) \/ OpenTmp(p) \/ Writes(p) \/ RecordTime(p) \/ Unlink(p)
    <3>1. \E to \in Steps : /\ step[p] # "idle" /\ step' = [step EXCEPT ![p] = to]
                            /\ p \in Caller => to # "idle"
      BY <2>2 DEF Debounce, MarkDirty, Select, OpenTmp, Writes, WriteHead, WriteRest, RecordTime, Unlink, Goto, Return, Steps
    <3> QED
      BY <1>4, <1>5, <2>1, <3>1
  <2>3. CASE Replace(p) \/ Crash(p)
    <3>1. Publishes(p) \/ Stops(p)
      BY <2>3, ReplaceCases, CrashStops
    <3>2. \E to \in Steps : /\ step[p] # "idle" /\ step' = [step EXCEPT ![p] = to]
                            /\ p \in Caller => to # "idle"
      BY <3>1 DEF Publishes, Stops, Moves, Steps
    <3> QED
      BY <1>4, <1>5, <2>1, <3>2
  <2> QED
    BY <1>6, <2>2, <2>3 DEF Work, Rebuild, Writes
<1>7. ASSUME NEW p \in Process \ Caller, Reconcile(p) \/ Flush(p)
      PROVE  Counted'
  <2>1. corpus' = corpus /\ step' = [step EXCEPT ![p] = "read"]
    BY <1>7 DEF Reconcile, Flush, Goto
  <2> QED
    BY <1>4, <1>5, <2>1 DEF Steps
<1>8. ASSUME WindowPasses \/ (\E q \in Query : Answer(q)) \/ UNCHANGED vars
      PROVE  Counted'
  <2>1. UNCHANGED <<corpus, step>>
    BY <1>8, AnswerSteps DEF WindowPasses, vars
  <2> QED
    BY <1>4, <2>1 DEF Begun
<1>9. Counted'
  <2>1. CASE \E p \in Process : Work(p) \/ Crash(p)
    BY <1>6, <2>1
  <2>2. CASE (\E p \in Reconciler : Reconcile(p)) \/ \E p \in Flusher : Flush(p)
    BY <1>7, <2>2, Bm25Assumption DEF Process
  <2> QED
    BY <1>3, <1>8, <2>1, <2>2 DEF Next
<1> QED
  BY <1>2, <1>9

-----------------------------------------------------------------------------
(* Types                                                                   *)

Reader == [step : {"idle", "compare", "load", "assign", "stamp"}, unchanged : BOOLEAN, loaded : Image]

\* A query thread keeps the types of the cache and of its own state.
LEMMA ReaderTypes ==
  ASSUME TypeOK, ReadWhatIsThere, NEW q \in Query, Answer(q)
  PROVE  /\ cache' \in [content : Image \cup {None}, current : BOOLEAN]
         /\ reader' \in [Query -> Reader]
<1>0. NoRead \in Reader
  BY Bm25Assumption, CountWithin DEF NoRead, Reader, Blank, Image, Piece
<1> USE DEF TypeOK, Leave
<1>1. reader[q] \in Reader /\ reader \in [Query -> Reader]
  BY DEF Reader
<1> USE DEF Reader
<1>2. CASE Stat(q)
  BY <1>1, <1>2 DEF Stat
<1>3. CASE Compare(q)
  BY <1>0, <1>1, <1>3 DEF Compare, GotoReader
<1>4. CASE Load(q)
  <2>1. CASE Leave(q)
    BY <1>0, <1>1, <1>4, <2>1 DEF Load
  <2>2. CASE reader' = [reader EXCEPT ![q].step = "assign", ![q].loaded = content[index]]
    <3>1. index # None
      BY <1>4 DEF Load, ReadWhatIsThere
    <3>2. content[index] \in Image
      BY <3>1
    <3> QED
      BY <1>1, <1>4, <2>2, <3>2 DEF Load
  <2> QED
    BY <1>4, <2>1, <2>2 DEF Load
<1>5. CASE Assign(q)
  BY <1>1, <1>5 DEF Assign, GotoReader
<1>6. CASE Stamp(q)
  BY <1>0, <1>1, <1>6 DEF Stamp
<1> QED
  BY <1>2, <1>3, <1>4, <1>5, <1>6 DEF Answer

\* A query reads an index that is there, and an index stays.
LEMMA ReadWhatIsThereStep ==
  ASSUME TypeOK, OpenToWrite, PathsApart, ReadWhatIsThere, [Next]_vars
  PROVE  ReadWhatIsThere'
<1> USE DEF TypeOK, ReadWhatIsThere, Leave, NoRead
<1>1. ASSUME NEW q \in Query, Answer(q)
      PROVE  ReadWhatIsThere'
  <2>1. index' = index
    BY <1>1, AnswerSteps DEF files
  <2>2. \A r \in Query \ {q} : reader'[r] = reader[r]
    BY <1>1 DEF Answer, Stat, Compare, Load, Assign, Stamp, GotoReader
  <2>3. index # None
    BY <1>1 DEF Answer, Stat, Compare, Load, Assign, Stamp
  <2> QED
    BY <2>1, <2>3
<1>2. ASSUME reader' = reader \/ Touch, index # None => index' # None
      PROVE  ReadWhatIsThere'
  BY <1>2 DEF Touch
<1>3. ASSUME NEW p \in Process, Writes(p) \/ Opens(p) \/ Publishes(p) \/ Stops(p)
      PROVE  ReadWhatIsThere'
  BY <1>2, <1>3 DEF Writes, WriteHead, WriteRest, Opens, Publishes, Stops, readers, files
<1>4. ASSUME NEW p \in Process,
             \/ Debounce(p) \/ MarkDirty(p) \/ Select(p) \/ RecordTime(p) \/ Unlink(p)
             \/ Commit(p) \/ Reconcile(p) \/ Flush(p)
      PROVE  ReadWhatIsThere'
  BY <1>2, <1>4 DEF Debounce, MarkDirty, Select, RecordTime, Unlink, Commit, Reconcile, Flush, readers, files
<1>5. CASE WindowPasses \/ UNCHANGED vars
  BY <1>2, <1>5 DEF WindowPasses, vars, readers, files
<1>6. ASSUME NEW p \in Process, Work(p) \/ Crash(p)
      PROVE  ReadWhatIsThere'
  BY <1>3, <1>4, <1>6, OpenTmpOpens, ReplaceCases, CrashStops DEF Work, Rebuild, Writes
<1>7. CASE \E p \in Process : Work(p) \/ Crash(p)
  <2>1. PICK p \in Process : Work(p) \/ Crash(p)
    BY <1>7
  <2> QED
    BY <1>6, <2>1
<1>8. CASE (\E p \in Caller : Commit(p)) \/ (\E p \in Reconciler : Reconcile(p)) \/ \E p \in Flusher : Flush(p)
  BY <1>4, <1>8 DEF Process
<1> QED
  BY <1>1, <1>5, <1>7, <1>8 DEF Next

\* What a process of the index does to the types.
LEMMA ProcessTypes ==
  ASSUME TypeOK, OpenToWrite, PathsApart, NEW p \in Process,
         Work(p) \/ Crash(p) \/ Commit(p) \/ Reconcile(p) \/ Flush(p)
  PROVE  /\ step' \in [Process -> Steps]
         /\ snap' \in [Process -> Corpus]
         /\ handle' \in [Process -> Inode \cup {None}]
         /\ content' \in [Inode -> Image]
         /\ index' \in Inode \cup {None} /\ tmp' \in Inode \cup {None}
         /\ recent' \in BOOLEAN /\ dirty' \in BOOLEAN
         /\ attempt' \in [Caller -> 1..MaxAttempts] /\ crashes' \in 0..MaxCrashes
         /\ UNCHANGED readers \/ Touch
<1> USE DEF TypeOK, Steps, Blank, Image, Piece
<1>1. CASE \/ Debounce(p) \/ MarkDirty(p) \/ Select(p) \/ RecordTime(p) \/ Unlink(p)
           \/ Commit(p) \/ Reconcile(p) \/ Flush(p)
  <2>1. /\ \E to \in Steps : step' = [step EXCEPT ![p] = to]
        /\ snap' = snap \/ snap' = [snap EXCEPT ![p] = corpus]
        /\ recent' \in BOOLEAN /\ dirty' \in BOOLEAN
        /\ UNCHANGED <<handle, files, attempt, crashes, readers>>
    BY <1>1 DEF Debounce, MarkDirty, Select, RecordTime, Unlink, Commit, Reconcile, Flush, Goto, Return
  <2>2. snap' \in [Process -> Corpus]
    BY <2>1
  <2>3. step' \in [Process -> Steps]
    BY <2>1
  <2> QED
    BY <2>1, <2>2, <2>3 DEF files
<1>2. CASE Opens(p)
  BY <1>2 DEF Opens, Moves
<1>3. CASE Writes(p)
  <2>1. handle[p] \in Inode
    BY <1>3 DEF Writes, WriteHead, WriteRest, OpenToWrite, Writing
  <2>2. CASE WriteHead(p)
    BY <2>1, <2>2 DEF WriteHead, Goto
  <2>3. CASE WriteRest(p)
    BY <2>1, <2>3 DEF WriteRest, Goto
  <2> QED
    BY <1>3, <2>2, <2>3 DEF Writes
<1>4. CASE Publishes(p)
  BY <1>4 DEF Publishes, Moves
<1>5. CASE Stops(p)
  BY <1>5 DEF Stops, Moves, files
<1> QED
  BY <1>1, <1>2, <1>3, <1>4, <1>5, OpenTmpOpens, ReplaceCases, CrashStops DEF Work, Rebuild, Writes

\* Every step keeps the types.
LEMMA TypeStep ==
  ASSUME TypeOK, OpenToWrite, PathsApart, ReadWhatIsThere, Counted, [Next]_vars
  PROVE  TypeOK'
<1>1. corpus' \in Corpus
  BY CountedStep
<1>2. ASSUME NEW p \in Process, Work(p) \/ Crash(p) \/ Commit(p) \/ Reconcile(p) \/ Flush(p)
      PROVE  TypeOK'
  <2>1. /\ cache' \in [content : Image \cup {None}, current : BOOLEAN]
        /\ reader' \in [Query -> Reader]
    <3>1. UNCHANGED readers \/ Touch
      BY <1>2, ProcessTypes
    <3>2. CASE UNCHANGED readers
      BY <3>2 DEF readers, TypeOK, Reader
    <3>3. CASE Touch
      BY <3>3 DEF Touch, TypeOK, Reader
    <3> QED
      BY <3>1, <3>2, <3>3
  <2> QED
    BY <1>1, <1>2, <2>1, ProcessTypes DEF TypeOK, Steps, Reader
<1>3. ASSUME NEW q \in Query, Answer(q)
      PROVE  TypeOK'
  BY <1>1, <1>3, AnswerSteps, ReaderTypes DEF TypeOK, Reader, files
<1>4. CASE WindowPasses \/ UNCHANGED vars
  BY <1>4 DEF WindowPasses, vars, files, readers, TypeOK
<1>5. CASE \/ \E p \in Process : Work(p) \/ Crash(p)
           \/ (\E p \in Caller : Commit(p)) \/ (\E p \in Reconciler : Reconcile(p))
           \/ \E p \in Flusher : Flush(p)
  <2>1. Caller \subseteq Process /\ Reconciler \subseteq Process /\ Flusher \subseteq Process
    BY DEF Process
  <2>2. PICK p \in Process : Work(p) \/ Crash(p) \/ Commit(p) \/ Reconcile(p) \/ Flush(p)
    BY <1>5, <2>1
  <2> QED
    BY <1>2, <2>2
<1> QED
  BY <1>3, <1>4, <1>5 DEF Next

-----------------------------------------------------------------------------
(* The theorems                                                            *)

\* Every step keeps the invariant.
LEMMA NextBInv == BInv /\ [Next]_vars => BInv'
<1> SUFFICES ASSUME BInv, [Next]_vars
             PROVE  BInv'
  OBVIOUS
<1>1. TypeOK' /\ Counted'
  BY TypeStep, CountedStep DEF BInv
<1>2. OpenToWrite' /\ PathsApart' /\ SavedFirst'
  BY OpenToWriteStep, PathsApartStep, SavedFirstStep DEF BInv
<1>3. ReadWhatIsThere' /\ BeingWritten'
  BY ReadWhatIsThereStep, BeingWrittenStep DEF BInv
<1> QED
  BY <1>1, <1>2, <1>3 DEF BInv

\* BInv is an invariant of the index, whatever processes rebuild it.
THEOREM Invariance == Spec => []BInv
<1> QED
  BY InitBInv, NextBInv, PTL DEF Spec

\* The state keeps its type; in particular the attempts of an activity stay
\* within its retry policy and a temporary file can always be created.
THEOREM Types == Spec => []TypeOK
<1>1. BInv => TypeOK
  BY DEF BInv
<1> QED
  BY <1>1, Invariance, PTL

\* A call that is skipped because of a recent rebuild relies on an index that
\* was saved (rebuild_index_from_postgres, _record_rebuild).
THEOREM Recorded == Spec => []RecentMeansSaved
<1>1. BInv => RecentMeansSaved
  BY DEF BInv, SavedFirst, RecentMeansSaved
<1> QED
  BY <1>1, Invariance, PTL

\* However many rebuilds overlap on the one temporary path, no piece of the
\* index that is published is missing once all have returned, if none has died
\* (save).  The pieces may be of different rebuilds: see the run bm25_saves.
THEOREM NothingMissing == Spec => []RestingComplete
<1>1. BInv => RestingComplete
  BY DEF BInv, BeingWritten, RestingComplete, Resting, Complete, Writing
<1> QED
  BY <1>1, Invariance, PTL

-----------------------------------------------------------------------------
(* One query thread                                                        *)

\* What a thread has seen unchanged is what the file holds, and what the cache
\* calls current too.
Fresh ==
  /\ cache.current => index # None /\ cache.content = content[index]
  /\ \A q \in Query : reader[q].unchanged =>
       /\ reader[q].step = "assign" => reader[q].loaded = content[index]
       /\ reader[q].step = "stamp" => cache.content = content[index]

\* A process changes what the index path names only with a new time.
LEMMA ProcessesTouch ==
  ASSUME TypeOK, OpenToWrite, PathsApart, NEW p \in Process,
         Work(p) \/ Crash(p) \/ Commit(p) \/ Reconcile(p) \/ Flush(p)
  PROVE  \/ Touch
         \/ UNCHANGED readers /\ index' = index /\ (index # None => content'[index] = content[index])
<1>1. CASE \/ Debounce(p) \/ MarkDirty(p) \/ Select(p) \/ RecordTime(p) \/ Unlink(p)
           \/ Commit(p) \/ Reconcile(p) \/ Flush(p)
  BY <1>1 DEF Debounce, MarkDirty, Select, RecordTime, Unlink, Commit, Reconcile, Flush, files, readers
<1>2. CASE Opens(p)
  BY <1>2 DEF Opens, TypeOK
<1>3. CASE Writes(p)
  <2>1. CASE handle[p] = index
    BY <1>3, <2>1 DEF Writes, WriteHead, WriteRest
  <2>2. CASE handle[p] # index
    BY <1>3, <2>2 DEF Writes, WriteHead, WriteRest, TypeOK
  <2> QED
    BY <2>1, <2>2
<1>4. CASE Publishes(p)
  BY <1>4 DEF Publishes
<1>5. CASE Stops(p)
  BY <1>5 DEF Stops, files, readers
<1> QED
  BY <1>1, <1>2, <1>3, <1>4, <1>5, OpenTmpOpens, ReplaceCases, CrashStops DEF Work, Rebuild, Writes

\* With one query thread, a cache it marks current was loaded from the index it saw.
LEMMA FreshStep ==
  ASSUME \A q, r \in Query : q = r, BInv, Fresh, [Next]_vars
  PROVE  Fresh'
<1> USE DEF BInv, TypeOK, Fresh
<1>1. ASSUME NEW q \in Query, Answer(q)
      PROVE  Fresh'
  <2>1. /\ reader[q] \in Reader /\ \A r \in Query : r = q
        /\ content' = content /\ index' = index
    BY <1>1, AnswerSteps DEF Reader, files
  <2> USE <2>1 DEF Reader, GotoReader, Leave, NoRead
  <2>2. CASE Stat(q)
    BY <2>2 DEF Stat
  <2>3. CASE Compare(q)
    BY <2>3 DEF Compare
  <2>4. CASE Load(q)
    BY <2>4 DEF Load
  <2>5. CASE Assign(q)
    BY <2>5 DEF Assign
  <2>6. CASE Stamp(q)
    BY <2>6 DEF Stamp, ReadWhatIsThere
  <2> QED
    BY <1>1, <2>2, <2>3, <2>4, <2>5, <2>6 DEF Answer
<1>2. ASSUME NEW p \in Process, Work(p) \/ Crash(p) \/ Commit(p) \/ Reconcile(p) \/ Flush(p)
      PROVE  Fresh'
  <2>1. CASE Touch
    BY <2>1 DEF Touch
  <2>2. CASE UNCHANGED readers /\ index' = index /\ (index # None => content'[index] = content[index])
    BY <2>2 DEF readers, ReadWhatIsThere
  <2> QED
    BY <1>2, <2>1, <2>2, ProcessesTouch
<1>3. CASE WindowPasses \/ UNCHANGED vars
  BY <1>3 DEF WindowPasses, vars, files, readers
<1>4. CASE \/ \E p \in Process : Work(p) \/ Crash(p)
           \/ (\E p \in Caller : Commit(p)) \/ (\E p \in Reconciler : Reconcile(p))
           \/ \E p \in Flusher : Flush(p)
  <2>1. Caller \subseteq Process /\ Reconciler \subseteq Process /\ Flusher \subseteq Process
    BY DEF Process
  <2>2. PICK p \in Process : Work(p) \/ Crash(p) \/ Commit(p) \/ Reconcile(p) \/ Flush(p)
    BY <1>4, <2>1
  <2> QED
    BY <1>2, <2>2
<1> QED
  BY <1>1, <1>3, <1>4 DEF Next

\* With one query thread the cached index is the one in the file, however many
\* processes rebuild it (_get_bm25_index).  With two it is not: see the run
\* bm25_cache.
THEOREM HonestToOneThread ==
  ASSUME \A q, r \in Query : q = r
  PROVE  Spec => []CacheHonest
<1>1. Init => Fresh
  BY DEF Init, Fresh, NoRead
<1>2. BInv /\ Fresh /\ [Next]_vars => Fresh'
  BY FreshStep
<1>3. Fresh => CacheHonest
  BY DEF Fresh, CacheHonest
<1> QED
  BY <1>1, <1>2, <1>3, Invariance, PTL DEF Spec
=============================================================================
