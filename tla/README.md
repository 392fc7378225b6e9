# Ally: specifications and proofs

TLA+ models of Ally, a multi-tenant RAG platform (the repository in `src/`):
what its concurrent parts do, what they promise, model-checked with TLC and, where
marked, proved with TLAPS. `PROJECT.json` maps every definition to the lines it
stands for and lists runs, mutants, findings, hazards and theorems.

## The system

| Part | State it keeps | Operations | Talks to |
|---|---|---|---|
| Ingestion workflow (`workflows/ingestion_workflow.py`) | where each Temporal workflow is | run, record_stage, finish, cancellation; tombstone, reconcile and janitor workflows | activities, with retries and timeouts |
| Ingestion ledger (`workflows/activities.py`, PostgreSQL) | documents (status, active version), attempts, versions, chunk rows, tombstones | register, update stage, persist, activate, finish, tombstone, repair | one transaction each |
| Artifacts (`services/ingestion/artifacts.py`) | page and chunk files of a version | store, load, cleanup, janitor | the workflow's activities |
| Dense index (`services/retrieval/qdrant_store.py`) | points with an `is_active` payload | upsert, show, hide, delete | Qdrant, one request at a time |
| Lexical index (`services/retrieval/bm25_index.py`, `bm25_rebuild_worker.py`, `pipeline.py`) | index file, temporary file, time of the last rebuild, dirty marker, each API process's cached copy | debounced and forced rebuild, flush, cached load | the worker's threads and the flusher share a volume, query threads share the copy |
| Companion bridge (`services/agent/pc_agent_bridge.py`) | one connection per tenant, its pending commands | register, unregister, send_command, handle_result, close | agent sockets, device registry |
| Keys, tickets, socket admission (`services/auth/`, `services/api/websocket/security.py`) | API keys, single-use tickets, the sockets of a process | create, revoke; issue, consume; authenticate, admit, close | PostgreSQL transactions, every WebSocket |
| Devices and pairing (`services/auth/devices.py`, `local_agent/pair.py`) | the tenant's pairing and device, a PC's credential file | issue, redeem, revoke; save | PostgreSQL, the pairing endpoint |
| Chat and history (`services/chat/`) | the conversation's document, the turn in progress, slots of the store | read, stream an answer, append the exchange | agent graph, gateway, MongoDB |
| Retrieval work (`services/runtime/task_drain.py`, `services/retrieval/model_loading.py`, `pipeline.py`) | tracked tasks, inference slots and waiters, leases of the Qdrant client | start, run, close; inference; lend | turns, shutdown of the API process |
| Companion agent (`local_agent/agent.py`, `shell_runner.py`) | its connection, the command it runs, prompt, audit file, a Windows job per shell command | connect, run a command, reply | the bridge's sockets, the user, Windows |
| LLM gateway, agent graph, ranking, settings | mostly one request's data | see `PROJECT.json` | external services |

What makes it hard: the worker's threads outlive the activities that started them;
Qdrant requests follow PostgreSQL commits without being part of them; a document can
be uploaded again, deleted and reconciled while an upload of it runs; the BM25
files are rebuilt by several processes without a lock; query threads share one
cached index; and every activity is retried. The companion bridge yields to the event
loop in the middle of registering, sending and receiving, to ask the device registry. A chat turn
leaves threads behind when its client goes; a ticket is counted, inserted and consumed by different processes;
a companion's command waits for a user and for processes it does not control, while its
connection closes and its time runs out. `PROJECT.json` lists the hazards line by line.

What makes each part correct:

* ledger: the pointer and the statuses agree; a status only moves forward; an
  attempt's verdict is true of its version; what is active is complete;
* indexes: nothing unpublished is searchable; a deleted document is not; both
  converge to the ledger;
* files: the cached index is the file's; the debounce never skips without an
  index being there; overlapping rebuilds leave a file with nothing missing;
* bridge: a command's result comes from the connection it was sent on; a slot is
  given back once on every path; replacement and shutdown leave nobody waiting;
* tickets and devices: one use, one active device, a token enrols once, quotas hold across processes;
* chat: whole exchanges, each once, and what the client is told of them is true;
* retrieval work: never more than the configured number of calls, nobody sleeps next to a
  free slot, and a client is closed only when nobody uses it;
* companion agent: nothing without approval, one command at a time, no process left
  behind, true reports, every command ends.

## Modules

| Module | Models | Built on |
|---|---|---|
| `IngestionLedger` | the rows and transactions of PostgreSQL. A transaction that raises rolls back, so each is a predicate `May...` (it commits) and an action | - |
| `SearchIndexes` | Qdrant's points and the BM25 index as derived stores, one Qdrant request per action | `IngestionLedger` |
| `Ingestion` | workflows, activities, retries, abandoned threads, tombstone, reconciliation, flusher, janitor | `SearchIndexes` |
| `PublishedDocuments` | the promise: at most one current upload per document, an upload has one turn, deletion is final | - |
| `IngestionMC` | instances for TLC | `Ingestion` |
| `IngestionProofs` | the ledger's and the indexes' invariant and theorems, the refinement | `Ingestion`, TLAPS |
| `IngestionFlowProofs` | the workflows' invariant and theorems | `IngestionProofs` |
| `Bm25Index` | rebuilds one file operation at a time; the API's cached copy | - |
| `Bm25IndexMC` | instances for TLC | `Bm25Index` |
| `Bm25IndexProofs` | inductive invariant and theorems | `Bm25Index`, `Counting` |
| `CompanionBridge` | one tenant's connection, sessions, commands and devices, split at every await | - |
| `CompanionBridgeMC` | instance for TLC | `CompanionBridge` |
| `CompanionBridgeProofs` | inductive invariant and theorems | `CompanionBridge`, TLAPS |
| `ShellRunner` | `run_shell`: one Windows job per command, its processes, output, cleanup | - |
| `LocalAgent` | the companion agent: connection loop, command thread, approval, audit | `ShellRunner` |
| `LocalAgentMC` | instance for TLC | `LocalAgent` |
| `LocalAgentProofs` | inductive invariant and theorems | `LocalAgent`, TLAPS |
| `ChatHistory` | the history store's operations and MongoDB's document of one conversation | - |
| `RetrievalWork` | tracked retrievals, the inference gate, the Qdrant lease | - |
| `ChatTurn` | turns of one conversation, disconnects, shutdown of the process | `ChatHistory`, `RetrievalWork` |
| `ChatTurnMC` | instance for TLC | `ChatTurn` |
| `ChatTurnProofs` | inductive invariant and theorems | `ChatTurn`, `Counting` |
| `SocketAccess` | API keys, tickets, sockets of one process | - |
| `Enrolment` | pairing, redemption, devices, the pairing program's file | `SocketAccess` |
| `Access` | both together and their properties | `Enrolment` |
| `AccessMC` | instance for TLC | `Access` |
| `AccessProofs` | inductive invariant and theorems | `Access`, `Counting` |
| `Counting` | lemmas: what a step does to the cardinality of a set it adds to or takes from | TLAPS |

### Ingestion

A `Version` value stands for one upload: its attempt, its version and its workflow,
minted together by `UploadUseCase.execute`. A document is a (tenant, filename) pair,
`DocumentOf` gives an upload's. `pc[v]` is the activity its workflow waits for; `After`
is the workflow's body, `OnError` its two `except` blocks. `Accepts` and `Perform`
are the activities. A workflow step is one of

* `Advance`: the activity takes effect and its result reaches the workflow;
* `Reject`: every attempt raised, because the ledger refuses or the file cannot be
  extracted;
* `GiveUp`: the retry budget is spent with no effect;
* `TimeOut`: the activity timed out and is retried or given up, but the thread
  `_run_sync_with_heartbeat` started goes on: it joins `late`, and `LateEffect` or
  `LateEnd` ends it at any later time;
* `Cancel`: the workflow is cancelled at any await and goes where its handlers lead
  (`AfterCancel`); a thread or call may go on unattended. Before the registration is known it
  simply ends; while it records a failure, or cleans up, the handler around that await swallows
  the cancellation, and the attempt may stay open.

`reconcile_document_version` is a record in `calls` that `CallStep` moves from one
request to the next and `CallFails` drops; its owner is a workflow, a tombstone run, a
reconciliation, or `None` when nobody waits for it. A reconciliation works from the
rows it read (`rec[r].rows`), document by document, and repairs attempts at its end.

### Bm25Index

Files are inodes; `index` and `tmp` are the names `INDEX_PATH` and its temporary
path. `Select`, `OpenTmp`, `WriteHead`, `WriteRest`, `Replace`, `RecordTime` and `Unlink` are
`_rebuild_now`. `pickle.dump` writes a buffered file in several writes, of which two are kept apart,
each at its place in the file: a piece of an inode holds the number of the corpus its writer
read (a smaller number is an older corpus) or `Empty`, so an inode may be whole, incomplete or a
mixture of two pickles. Modification times are unique, so a stored time is kept as
the one bit that matters: whether it is still the file's. `Stat`, `Compare`, `Load`,
`Assign` and `Stamp` are `_get_bm25_index`, one thread at a time in `Query`.
`SearchIndexes` takes a rebuild as one action; `ReconciledIsUpToDate` is why that does
not lose convergence under repeated reconciliation, and the run `bm25_flush` shows
what it hides for the flusher alone.

### CompanionBridge

The bridge keeps a connection per tenant and shares nothing between tenants but the
shutdown flag, so one tenant is modelled. A session registers at most one connection, so
a `Session` value stands for the session task, its socket and its connection:
`current` is `_connections[tenant]`, and what is pending on a connection is
`PendingOn`, the pending commands whose `conn` it is.

All of it runs on one event loop, so what the code does between two awaits is one
action and every await is a step of `session[s]` or `command[c]`. `register` is
`Register`, `CheckSession`, `Install`, `CloseReplaced`; `handle_result` is
`ReceiveResult`, `CheckResult`, `Resolve`; `send_command` is `Begin`, `Acquire` (the
send lock), `CheckCommand`, `Deliver`, `SendReturns`, `Answered`, with `DeliveryRefused`,
`Expire` and the `finally` block `End` as its ways out; the `finally` block of a session
is `Leave`. A device check is its own action because a thread reads the registry before the
coroutine goes on with what it read; it succeeds only for an active device and may fail
for any. An agent answers only requests it was sent (request ids are random), but early,
repeatedly or never. `Redeem` and `Revoke` are the registry's transactions. A session may
leave wherever it is, because its lifetime is a timeout around all of it.

### ShellRunner and LocalAgent

The other end of the bridge. `agent` is where the coroutine `run` is, `thread[c]` where
`handle_command` of a command is in its thread, `shell[c]` where its `run_shell` is. They interleave with
each other, with the user (`Approve`, `Deny`), the server (`Deliver`, `CloseSocket`), Windows (`Spawn`,
`WriteOutput`, `ExitProcess`, `Die`) and time (`TimeUp`, `Deadline`). `Disconnect`, `Join`, `Return` and
`Interrupt` are `_run_with_disconnect`: a command's thread is told and then waited for.
`_execution_allowed` is read where the code reads it, so an approval may come just before a
cancellation. In `ShellRunner` any call of Windows may fail where the code looks at its result, the
listing of the job may be incomplete, and a terminated process is "dying" until its handle is signalled.
`members` remembers which processes the job had when it was enumerated, opened or not: confirmed
cleanup means that all of them have ended (`CleanedUp`). One that starts between the enumeration
and `TerminateJobObject` is terminated with the others but not waited for, and the property does not ask for it.
`audit[c]` holds the records with their outcome and `effect_outcome`. The approval's record says
"not_started" of a command that is about to run; what `ReportsAreTrue` reads is the end records,
and that an approval is recorded before anything starts is `ApprovedBeforeEffect`.
The two pipes share one allowance and are one pipe. `Crash` ends the process at any point;
Windows then closes the job's handle. Which program `open_app` finds is a choice; the
lookup and the web search it makes for its prompt are not counted as effects.

### ChatHistory, RetrievalWork and ChatTurn

`turn[t]` is the await at which a turn is. `asyncio.to_thread` and the task tracker make the
threads of the other two modules go on by themselves: `EndSession` takes the turn away and leaves
`operation[t]` and `stage[t]` where they are (`AbandonOperation` is the cancellation of a thread that
has not begun). `BeginOperation`, `FindOne`, `UpdateOne`, `Insert` and `UpdateWinner` are `_operation` and
`_append`; an upsert that found nothing inserts in a second step, which the unique index may reject, an
acknowledgement may be lost, and a request the client gave up may be carried out later
(`LateUpdate`). `EnterGate`, `Recheck` and `LeaveGate` are `inference`, `Lease` and `Search` the Qdrant
lease around a dense search, `AfterStage` what `retrieve` does next. `CloseSockets`, `Drain`,
`CloseHistory`, `CloseHistoryClient` and `CloseSearchClient` are the end of `lifespan`, in its order. Two
messages are one exchange: `MaxMessages` is even because `append_exchange` cuts to
pairs. `Earlier` are the exchanges the conversation may begin with. A turn with `scoped` false has no `chat:history`, so its conversation lives on one socket
and its turns follow each other. `ClearHistory` is a method of the store that the API does not call.

### SocketAccess, Enrolment and Access

`row[x]` is a ticket's row in PostgreSQL. `CountTickets` and `InsertTicket` are one transaction
under the advisory lock, in two actions because consumption, expiry and other processes
run in between; the lock is that nobody else is "counted". `Consume` is one statement.
`Authenticate`, `Consume` or `ResolveKey` (a thread), and `Admit` are `session`: the limits
are looked at when the coroutine goes on. In `Enrolment` each transaction locks the tenant's row, so it
is one action, but `FindPairing`, which reads before it holds the lock, is its own. A device and its
credential are named after the request that makes them, so `device[r]` and `key[r]` are created and revoked
together. `Updatable` is the row lock that lets `RevokeKey` and a ticket's issue exclude each other.

## Runs

| Run | Instance | Shows |
|---|---|---|
| `ingestion_faults` | 2 uploads of 1 document, 1 fault, no reconciliation, symmetric uploads; 1.75 million states | types, coherent pointers, complete active versions, nothing unpublished searchable, true verdicts, artifacts kept, when an attempt stays open, forward-only statuses, refinement of `PublishedDocuments` |
| `ingestion_converge` | 1 reconciler and a legacy document, with 2 uploads both just activated, or 1 upload about to persist and 1 fault; 440 thousand states | a deleted document stays hidden; attempts only repaired to match; search converges and attempts are repaired |
| `bm25` | 1 ingestion, 1 reconciler, 1 flusher, 1 query thread, 2 attempts, 1 crash; 2.1 million states | honest cache, sound debounce, nothing missing at rest, convergence |
| `bridge` | 2 devices with a session each, 2 commands, 1 pending slot; 78 thousand states | nobody waits on a connection that is gone, connections are owned, slots come back, futures are resolved once, stale disconnects are harmless, revoked devices are not commanded, orphaned commands end |
| `local_agent` | a shell command and another, 2 processes, 1 unit of output allowed; 647 thousand states | approval and audit before any effect, no overlap, nothing left behind, true reports, every command ends |
| `chat` | 2 turns after an earlier exchange or none, 2 exchanges kept, 1 inference slot, 0 or 1 waiters; 340 thousand states | whole exchanges, true answers, the gate's bounds and wake-ups, orderly shutdown |
| `access` | 2 requests, 2 tokens, 2 PCs, 2 tickets, 2 sockets, a key of another tenant, 1 ticket at a time; symmetric; 677 thousand states | single use, quotas, limits, one device |
| `ingestion_activations` | 2 uploads, no fault | finding: interleaved activations leave Qdrant wrong |
| `ingestion_tombstone` | 1 upload, 1 fault | finding: a deleted document's points come back |
| `bm25_flush` | 2 ingestions, 1 flusher | finding: a lost dirty marker |
| `bm25_saves` | 2 ingestions, 1 flusher | finding: a mixture of two pickles is published |
| `bm25_cache` | 2 query threads | finding: an old index with the new file's time |

Bounds. `MaxFaults` bounds timeouts, exhausted retries and failed requests; one is
enough for every abandoned thread to meet every later step, and two uploads of one
document are the least for the conflicts of the ledger, which has no rule that names
a third. Temporal's retry counts are not counted: a retry that has no effect is a
stutter, and `GiveUp` is possible at every activity. `MaxAttempts` and `MaxCrashes`
bound `Bm25Index`; there are more inodes than open handles. `ingestion_converge` starts
in one of two reachable states, because what precedes them is explored by the first run:
`BothActivated`, when two activations have committed and sent nothing yet, and `OneChunked`, one
upload that is about to persist, from where its fault may leave things for a reconciliation to repair. At most
one tombstone run per document and one janitor run are under way at a time, and two
calls with the same owner, document, pointer and step are one record. In `bridge` two sessions are the least for a replacement and a
stale disconnect, and the second device makes the first session's checks fail; a check
that fails or a device that stays active gives the cases of one device reconnecting. One
slot is enough for contention on the send lock, since an answer that arrives before
the send returns frees the slot while the lock is held. A thread
that is still running when its workflow is cancelled counts as a fault, since it may
later act as one. In `local_agent` the limit of output is one unit, so it is exceeded by the second, and two
processes are a child that survives its root or the other way round; the second command is what a
first one may overlap with. In `chat` two exchanges are kept and the conversation may begin with one, so both turns' exchanges
are seen side by side, one stored twice would show, and the third pushes the first out. One
inference slot makes the second retrieval wait or be refused. Two turns never fill the `Capacity` of the
history store, which is two; a refused append is explored all the same, since content over its
budget is refused too, and the proofs are for any number of turns and any capacity. In `access` one ticket at a
time and two requests for one are a quota in contention; two redemptions are the least for a stale
reading. `Focus` leaves out states with two redemptions or two tokens while there are
tickets or sockets: what sockets see of an enrolment is a key that appears and is
revoked, and one enrolment does both. Symmetry is sound there because the run has no
liveness property. Deadlock is not checked where the system does stop: when every upload, turn, request or
socket has ended and nobody asks for anything.

Fairness. `Ingestion`: an activity is retried until it succeeds or is given up, threads
and Qdrant requests end, the flusher polls (`run_loop`), and a reconciliation that has
started goes on. Nothing in the code starts one but `scripts/ingestion_admin.py`, so
`SearchConverges` is conditional on reconciliations being run again and again; nothing
promises uploads, tombstones or the janitor. `Bm25Index`: a rebuild that has begun goes
on and the flusher polls. `CompanionBridge`: only `send_command` is scheduled (`CommandStep`:
the lock is handed on, checks and sends return, a resolved future wakes its waiter); no agent
has to answer, no session to make progress and no deadline to pass. `LocalAgent`: the coroutine, the
command's thread and time (`Deadline`) go on; nothing is asked of the user, the server,
Windows or the command, so `CommandsEnd` holds because of the deadline and of what the code does
about it. `ChatTurn`: each await of a turn ends, at the latest with the session's lifetime, what a thread calls has
a timeout or is a computation, and a shutdown that began goes on; nobody has to start one. `Access` has no fairness: a
request may stop anywhere.

Every property of a passing run has a mutant of the code that TLC finds it violated
by. The mutated operator stands just before the one it mutates and says what the bug is.

## What disagrees

* *Activations.* `reconcile_document_version` is to "Make Qdrant visibility match
  PostgreSQL's active pointer"; two successful activations of one document may
  leave no version visible. Repaired by a reconciliation (`SearchConverges`).
* *Tombstones.* "Retrieval visibility is removed", but Qdrant requests of an activation
  abandoned before the tombstone may follow it. Without faults it holds
  (`RetiredUnlessFaults`).
* *Flusher.* A burst "still converges to an up-to-date index", but `_record_rebuild`
  removes a marker left after its SELECT.
* *Saves.* "Atomically serialize this index", but `save` opens the same temporary path in
  every process: two rebuilds write one file at once, and one of them publishes the mixture. The
  other's rename raises, its retry is debounced, and its dirty marker goes with the first one's
  `_record_rebuild`. As long as no rebuild dies nothing is *missing* from a published file
  (`RestingComplete`), and a reconciliation repairs it (`ReconciledIsUpToDate`).
* *Cache.* "reloading it when the index file changes": two threads can leave an old
  index with the new time.
* Modelled, but no property: a versioned upload leaves its document's unversioned
  chunk rows, which only a tombstone removes, and which BM25 goes on serving.

The runs of `CompanionBridge`, `LocalAgent`, `ChatTurn` and `Access` found no disagreement.

## Proofs

A theorem holds for every value of the constants that the named assumptions allow; each
invariant a run checks is proved from an inductive one, which TLC has checked too on instances
of these sizes. The assumptions say what the values stand for, and
TLC evaluates them in every run.

`IngestionProofs` proves, for any finite or infinite sets of documents, uploads and
reconciliations and any number of faults, from `LedgerAssumption` (an upload has a
document, `None` is no upload) and `IngestionAssumption` (the kinds of owner are
disjoint):

* `Invariance`: `Spec => []IInv`;
* `TypesAreRight`, `PointersAreCoherent`, `SearchShowsOnlyPublished`: the invariants
  `TypeOK`, `PointerCoherent` and `OnlyPublishedVisible` of the runs;
* `VersionsMoveForward`: the action property `VersionLifecycle`;
* `IngestionImplementsPromise`: the refinement of `PublishedDocuments`.

`OnlyPublishedVisible` is not inductive by itself: a call may show a version on the word
of a pointer read long ago. `IInv` adds `CallsSound` (a call's pointer is a published
version of its document) and `RowsSound` (so is every pointer in a reconciliation's
snapshot), and these rest on `PointerCoherent`. The argument has two layers. First, a
step of the system is one of the ledger's transactions or leaves the ledger alone
(`StepIsTransaction`), and one index operation or none (`StepIsIndexStep`). Then
each conjunct is preserved by each transaction, each index operation or each step;
published versions only grow (`PublishedGrows`), which carries what calls and snapshots
remember over every step. The refinement follows from the same cases: an activation
that moves the pointer is `Publish`, the first tombstone of a document is `Delete`,
everything else is a stutter.

`IngestionFlowProofs` adds, from the same assumptions, what depends on where the workflows are:

* `FlowInvariance`: `Spec => []FInv`;
* `ActiveVersionsAreComplete`, `VerdictsAreTrue`, `ArtifactsAreKept`, `RetiredStayInvisible`: the
  other invariants of the runs;
* `AttemptsStayTerminal` and `OpenMeansConflict`: the action properties `AttemptLifecycle` and
  `OpenOnlyAfterConflict`. The latter speaks of the step that ends a workflow and names the exceptions:
  another upload, a deletion, and the two moments at which a cancellation leaves an attempt open.

One lemma per variable says which steps change it (`PcStep`, `LateStep`, `AttemptStep`,
`PointsStep`, ...) and each part of `FInv` is preserved because of the few that bear on it. `Embedded`
carries completeness: a version is persisted and embedded before its workflow reaches the
activation, an abandoned activation comes from there too, and only a tombstone's call deletes
points. `Final` carries the artifacts: a cleanup, a verdict or a selection by the janitor is
only ever left behind by a workflow that is closing. `Activated` and `RowsAgree` make verdicts true.
`CallsOwned` keeps a workflow from being moved by a call it no longer waits for. The two
properties about runs without faults need `InStep` (no activity is abandoned, so the
rows follow the workflow; an upload that has its document to itself can always be closed)
and `StaysDropped` (after the first request of a tombstone only unpublished points come back,
and only published versions are shown).

`CompanionBridgeProofs` proves, for any sessions, commands and devices and any positive
limit, from `BridgeAssumption` (each session has a device, `None` is neither a session
nor a command):

* `BridgeInvariance`: `Spec => []BInv`;
* `BridgeTypesAreRight`, `NobodyIsLeftWaiting`, `ConnectionsAreOwned`, `SlotsComeBack`: the
  invariants of the run `bridge`;
* `FuturesAreResolvedOnce`, `OnlyOwnersDisconnect`: its action properties;
* `RevokedDevicesAreNotCommanded`: its temporal safety property.

`NobodyWaitsOnOldConnection` needs `Bookkeeping`: an unresolved future is a pending entry, and
a pending entry is a command in progress. With it, failing what is pending on the current
connection resolves every future there is (`FailingResolvesAll`), which is what
`register`, `unregister` and `close` rely on. `SlotsAreGivenBack` adds that each
connection's entries are finite in number (`Bounded`). For the revocation the proof
follows one command: once queued with its device revoked it can only be checked, refused
and ended, because a revocation is final and its own check comes after.

`LocalAgentProofs`, for any commands, processes and sizes, from `AgentAssumption` and
`ShellAssumption`: `Types`, `Approval`, `NoOrphans`, `Sequential` and `TrueReports`, the invariants of
the run `local_agent`. `LInv` tells the life of one command in order: it waits once in the
inbox (`Received`), leaves no trace up to `run_shell` (`Untouched`), gets there by approval and
after its record (`Asked`), and from then on `started`, `cleanup_confirmed` and the end records of the audit file
say what the processes are, the members of the job included (`StartedIsEffect`, `CleanupIsTrue`, `RecordIsTrue`). Each part is about one
command, so a step matters only for its own; `OneAtATime` is what keeps the coroutine from touching a
command its thread still works on.

`AccessProofs`, for any credentials, tickets, sockets, requests, tokens, PCs and positive limits,
from `AccessAssumption` and `EnrolmentAssumption` (a device's credential is named after its request, `None`
is no token): `Types`, `BoundedAccess` and `SingleDevice`, the invariants of `access`. A quota
counted in one action and used in a later one holds because between them only rows go away
(`Reserved`); an admission because the limits are looked at in the statement that admits. A ticket
that opened a socket is gone (`SingleUse`). A token is in its tenant's row once (`TokenOnce`), so
it becomes at most one device, and no two devices are current at once (`OneCurrent`).

`ChatTurnProofs`, for any turns and limits, from `HistoryAssumption` (an even, positive number of
messages; earlier exchanges are of no turn), `RetrievalAssumption` and `TurnAssumption` (each turn makes one retrieval): `Types`,
`Exchanges`, `Told` and `Gate`, the invariants of `chat`, and `ClosedBehindRetrievals`, the safety part of
`OrderlyShutdown`. What may still be appended follows from where an operation is (`AppendedOnce`,
`ToldIsFinal`); the document is a sequence of pairs of distinct appended exchanges, which
appending to its end and cutting its front keep (`Whole`); the counters of the store and of the gate
are the cardinalities of the operations and threads they count (`SlotsCount`, `GateCounts`), which is
also why none of them leaves its type.

`Bm25IndexProofs`, for any processes, files and attempts, from `Bm25Assumption` (finitely many
processes, and more files than processes, as a file system has): `Types`, `Recorded`
and `NothingMissing`, invariants of `bm25`, and `HonestToOneThread`: with one query thread `CacheHonest` holds
(with two it does not: `bm25_cache`). A piece that is missing from a file that a path names is owed by a
rebuild that has yet to write it (`BeingWritten`), as long as none has died; that there is always a free file
needs the cardinalities (`FreeInode`).

Only model-checked: liveness under fairness, which is outside the prover's reach: `SearchConverges`,
`AttemptsRepaired`, `ReconciledIsUpToDate`, `OrphansEnd`, `CommandsEnd` and the temporal parts of `OrderlyShutdown`. So are
the five counterexamples. Every other property of a passing run is a theorem. No module has a
RECURSIVE operator.

## Not modelled, and why

* The unversioned path and the unpatched workflow histories, kept for workflows started
  before the lifecycle existed.
* The Textract polling and its job rows: nothing reads a row but the extraction, and of it only the
  job's id. The extraction is one activity that succeeds, fails or times out.
* Storing an uploaded file: it comes before the workflow, and nobody sees the file until
  it starts.
* The circuit breaker and the fallback between models: pybreaker's and litellm's code, here the
  refusal of a stream at any time. Of the tools other than `local_pc` only that they answer or fail.
* Rates of attempts per host (a refusal at any time); scopes and audiences of a ticket (a
  refusal of a valid one); a second key made by repeating a provisioning whose commit was lost.
* The text of pages, chunks, prompts and answers; scoring and ranking, functions of
  floating-point scores.
* Settings, deployment, evaluation and offline scripts: no concurrent state.
* In `LocalAgent`, what is typed before a prompt appears counts as typed at it.

## Plan

Modelled: everything above, and every safety property that a run checks is proved. What is
left to prove:

1. an abstract specification of the bridge (a command is answered at most once, by the
   connection it was sent on) and of the agent's end of it, with refinement proofs;
2. the safety half of `SearchConverges`: a reconciliation that meets no other step leaves Qdrant
   matching the ledger;
3. a statement of what the lexical cache does guarantee to several query threads.
