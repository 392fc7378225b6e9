--------------------------- MODULE RetrievalWork ---------------------------
(***************************************************************************)
(* Retrieval as the API runs it: a tracked task per query                  *)
(* (services/runtime/task_drain.py) whose thread executes retrieve         *)
(* (services/retrieval/pipeline.py).  Its stages share the process's       *)
(* inference gate (services/retrieval/model_loading.py) and the Qdrant     *)
(* client, which is lent for one search (services/retrieval/               *)
(* qdrant_store.py).  The task outlives the turn that awaits it.           *)
(***************************************************************************)
EXTENDS Naturals, FiniteSets

CONSTANTS
  Query,   \* retrievals, one per turn
  Limits   \* limits the gate can be configured with: [running, waiting]

ASSUME RetrievalAssumption == Limits \subseteq [running : Nat \ {0}, waiting : Nat]

VARIABLES
  limits,   \* _limits of the gate, configured at startup
  stage,    \* the stage of each retrieval
  gate,     \* where its thread is with respect to the gate
  running,  \* _active of the gate
  waiting,  \* _waiting of the gate
  awake,    \* waiters that were notified
  found,    \* retrievals that returned sources
  leases,   \* _active of the Qdrant store
  leased,   \* threads that hold its client
  draining, \* _closing of the task tracker
  qdrant    \* the Qdrant store: "open", "closed" to new leases, or "gone"

gateVars   == <<gate, running, waiting, awake>>
qdrantVars == <<leases, leased, qdrant>>
retrievalVars == <<limits, stage, gateVars, found, qdrantVars, draining>>

GateStages == {"embed", "rerank", "mmr"}
Over == {"done", "failed"}

RetrievalTypeOK ==
  /\ limits \in Limits
  /\ stage \in [Query -> {"none", "search"} \cup GateStages \cup Over]
  /\ gate \in [Query -> {"out", "waiting", "in"}]
  /\ running \in Nat /\ waiting \in Nat /\ leases \in Nat
  /\ awake \subseteq Query /\ found \subseteq Query /\ leased \subseteq Query
  /\ draining \in BOOLEAN
  /\ qdrant \in {"open", "closed", "gone"}

RetrievalInit ==
  /\ limits \in Limits
  /\ stage = [q \in Query |-> "none"]
  /\ gate = [q \in Query |-> "out"]
  /\ running = 0 /\ waiting = 0 /\ awake = {}
  /\ found = {}
  /\ leases = 0 /\ leased = {} /\ qdrant = "open"
  /\ draining = FALSE

Tracked == {q \in Query : stage[q] \notin {"none"} \cup Over}

ToStage(q, to) == stage' = [stage EXCEPT ![q] = to]

----------------------------------------------------------------------------
(* DrainableTasks                                                          *)

\* start: refused once the tracker is closing.
\* (Mutant first: refused by nobody.)
StartRetrievalAlways(q) ==
  /\ stage[q] = "none"
  /\ ToStage(q, "embed")
  /\ UNCHANGED <<limits, gateVars, found, qdrantVars, draining>>

StartRetrieval(q) ==
  /\ stage[q] = "none"
  /\ ~draining
  /\ ToStage(q, "embed")
  /\ UNCHANGED <<limits, gateVars, found, qdrantVars, draining>>

StopAdmission ==
  /\ draining' = TRUE
  /\ UNCHANGED <<limits, stage, gateVars, found, qdrantVars>>

----------------------------------------------------------------------------
(* ModelInferenceGate.inference                                            *)

EnterGate(q) ==
  /\ stage[q] \in GateStages /\ gate[q] = "out"
  /\ \/ /\ running < limits.running
        /\ running' = running + 1
        /\ gate' = [gate EXCEPT ![q] = "in"]
        /\ UNCHANGED <<waiting, stage>>
     \/ /\ running >= limits.running /\ waiting < limits.waiting
        /\ waiting' = waiting + 1
        /\ gate' = [gate EXCEPT ![q] = "waiting"]
        /\ UNCHANGED <<running, stage>>
     \/ /\ running >= limits.running /\ waiting >= limits.waiting
        /\ ToStage(q, "failed")
        /\ UNCHANGED <<running, waiting, gate>>
  /\ UNCHANGED <<limits, awake, found, qdrantVars, draining>>

\* A waiter that was notified, or whose time is over, looks again; it sleeps
\* on, or gives up.
Recheck(q) ==
  /\ gate[q] = "waiting"
  /\ awake' = awake \ {q}
  /\ \/ /\ running < limits.running
        /\ running' = running + 1
        /\ waiting' = waiting - 1
        /\ gate' = [gate EXCEPT ![q] = "in"]
        /\ UNCHANGED stage
     \/ /\ running >= limits.running /\ q \in awake
        /\ UNCHANGED <<running, waiting, gate, stage>>
     \/ /\ running >= limits.running
        /\ waiting' = waiting - 1
        /\ gate' = [gate EXCEPT ![q] = "out"]
        /\ ToStage(q, "failed")
        /\ UNCHANGED running
  /\ UNCHANGED <<limits, found, qdrantVars, draining>>

\* What follows a stage of retrieve.  A failed embedding fails the retrieval,
\* a failed reranking or selection falls back to what there was.
AfterStage(q, ok) ==
  CASE stage[q] = "embed"  -> IF ok THEN "search" ELSE "failed"
    [] stage[q] = "rerank" -> "mmr"
    [] stage[q] = "mmr"    -> "done"

\* The slot is given back whether or not the model call failed, and every
\* waiter is notified.
\* (Mutant first: nobody is.)
LeaveGateSilently(q) ==
  /\ gate[q] = "in"
  /\ running' = running - 1
  /\ gate' = [gate EXCEPT ![q] = "out"]
  /\ \E ok \in BOOLEAN : ToStage(q, AfterStage(q, ok))
  /\ UNCHANGED <<limits, waiting, awake, found, qdrantVars, draining>>

LeaveGate(q) ==
  /\ gate[q] = "in"
  /\ running' = running - 1
  /\ gate' = [gate EXCEPT ![q] = "out"]
  /\ awake' = {w \in Query : gate[w] = "waiting"}
  /\ \E ok \in BOOLEAN : ToStage(q, AfterStage(q, ok))
  /\ UNCHANGED <<limits, waiting, found, qdrantVars, draining>>

----------------------------------------------------------------------------
(* QdrantStore, and the searches                                           *)

Lease(q) ==
  /\ stage[q] = "search" /\ q \notin leased
  /\ \/ /\ qdrant # "open"
        /\ ToStage(q, "failed")
        /\ UNCHANGED <<leases, leased>>
     \/ /\ qdrant = "open"
        /\ leases' = leases + 1
        /\ leased' = leased \cup {q}
        /\ UNCHANGED stage
  /\ UNCHANGED <<limits, gateVars, found, qdrant, draining>>

\* The dense search ends and the lease with it.  A failure ends the retrieval;
\* otherwise the lexical results, if the index can be read, are added and
\* there are candidates or there are none.
Search(q) ==
  /\ q \in leased
  /\ leases' = leases - 1
  /\ leased' = leased \ {q}
  /\ \/ ToStage(q, "failed") /\ UNCHANGED found
     \/ ToStage(q, "done") /\ UNCHANGED found
     \/ ToStage(q, "rerank") /\ found' = found \cup {q}
  /\ UNCHANGED <<limits, gateVars, qdrant, draining>>

CloseQdrant ==
  /\ qdrant = "open"
  /\ qdrant' = "closed"
  /\ UNCHANGED <<limits, stage, gateVars, found, leases, leased, draining>>

CloseQdrantClient ==
  /\ qdrant = "closed" /\ leases = 0
  /\ qdrant' = "gone"
  /\ UNCHANGED <<limits, stage, gateVars, found, leases, leased, draining>>

RetrievalStep(q) ==
  EnterGate(q) \/ Recheck(q) \/ LeaveGate(q) \/ Lease(q) \/ Search(q)
=============================================================================
