----------------------------- MODULE ChatTurn ------------------------------
(***************************************************************************)
(* Chat turns (services/chat/use_cases.py) of one conversation, from the   *)
(* message to the last frame sent, with the history store, the retrieval   *)
(* work and the shutdown of the API process (services/api/main.py).        *)
(*                                                                         *)
(* A turn is a coroutine; what it awaits in between, a thread of the       *)
(* history store or a tracked retrieval, goes on when its session ends.    *)
(* Classifier, tools and language model are reached through the agent      *)
(* graph and the gateway: what they answer is a choice.                    *)
(***************************************************************************)
EXTENDS ChatHistory, RetrievalWork

\* A turn makes one retrieval at most, which has its name.
ASSUME TurnAssumption == Query = Turn

VARIABLES
  turn,      \* where each turn is
  scoped,    \* the credential has chat:history, so the conversation is shared
  answered,  \* turns whose whole answer was produced
  told,      \* the last frame of each turn
  phase      \* of the process: serving, or what its shutdown has reached

turnVars == <<turn, scoped, answered, told, phase>>
vars == <<historyVars, retrievalVars, turnVars>>

Awaiting == {"reading", "routing", "acting", "condensing", "starting", "retrieving",
             "streaming", "persisting"}
Phases == {"serving", "sockets", "draining", "history", "qdrant", "down"}

Init ==
  /\ HistoryInit
  /\ RetrievalInit
  /\ turn = [t \in Turn |-> "idle"]
  /\ scoped \in BOOLEAN
  /\ answered = {}
  /\ told = [t \in Turn |-> "nothing"]
  /\ phase = "serving"

Go(t, to) == turn' = [turn EXCEPT ![t] = to] /\ UNCHANGED <<scoped, told, phase>>

\* The last frame of the turn.
Tell(t, frame) ==
  /\ turn' = [turn EXCEPT ![t] = "over"]
  /\ told' = [told EXCEPT ![t] = frame]
  /\ UNCHANGED <<scoped, answered, phase>>

\* _persist_exchange, with the whole answer.
Persist(t) ==
  /\ Go(t, "persisting")
  /\ answered' = answered \cup {t}
  /\ Submit(t, "append")

----------------------------------------------------------------------------
(* The steps of a turn                                                     *)

\* run, after receive_text.  A credential without chat:history has a
\* conversation of its own, on one socket: one turn after the other.
Receive(t) ==
  /\ turn[t] = "idle" /\ phase # "down"
  /\ \/ /\ scoped
        /\ Go(t, "reading")
        /\ Submit(t, "read")
     \/ /\ ~scoped
        /\ \A u \in Turn : turn[u] \in {"idle", "over"}
        /\ Go(t, "routing")
        /\ UNCHANGED historyVars
  /\ UNCHANGED <<answered, retrievalVars>>

HistoryRead(t) ==
  /\ turn[t] = "reading" /\ result[t] # "none"
  /\ IF result[t] = "ok" THEN Go(t, "routing") /\ UNCHANGED answered ELSE Tell(t, "error")
  /\ UNCHANGED <<historyVars, retrievalVars>>

\* _classify_node: a slash command is a tool's; of any other text the classifier
\* decides, or a rule for the PC's tool where that is authorized.
Route == {"tool", "rag", "conversational"}

\* What run does with a route.
AfterRoute == [tool |-> "acting", rag |-> "condensing", conversational |-> "starting"]

RouteMessage(t) ==
  /\ turn[t] = "routing"
  /\ \/ \E route \in Route : Go(t, AfterRoute[route]) /\ UNCHANGED answered
     \/ Tell(t, "error")     \* routing failed, or documents:read is missing
  /\ UNCHANGED <<historyVars, retrievalVars>>

\* _tool_node: no tool or action, a missing scope and whatever the tool raises
\* all become an error.
ToolOutcome == {"tool_result", "tool_error"}

\* _complete_tool_turn: only a result is kept.
ToolEnds(t) ==
  /\ turn[t] = "acting"
  /\ \E outcome \in ToolOutcome :
       IF outcome = "tool_result" THEN Persist(t) ELSE Tell(t, "error") /\ UNCHANGED historyVars
  /\ UNCHANGED retrievalVars

\* condense_query falls back to the query itself; then the retrieval starts,
\* unless the process is closing.
CondenseAndRetrieve(t) ==
  /\ turn[t] = "condensing"
  /\ \/ StartRetrieval(t) /\ Go(t, "retrieving") /\ UNCHANGED answered
     \/ draining /\ Tell(t, "error") /\ UNCHANGED retrievalVars
  /\ UNCHANGED historyVars

\* Without sources the answer is a fixed one.
Retrieved(t) ==
  /\ turn[t] = "retrieving"
  /\ \/ stage[t] = "failed" /\ Tell(t, "error") /\ UNCHANGED historyVars
     \/ stage[t] = "done" /\ t \in found /\ Go(t, "starting") /\ UNCHANGED <<answered, historyVars>>
     \/ stage[t] = "done" /\ t \notin found /\ Persist(t)
  /\ UNCHANGED retrievalVars

\* stream_chat_completion: the breaker refuses, or no model answers.
StartStream(t) ==
  /\ turn[t] = "starting"
  /\ Tell(t, "error") \/ (Go(t, "streaming") /\ UNCHANGED answered)
  /\ UNCHANGED <<historyVars, retrievalVars>>

\* _stream_answer: an interrupted stream leaves no answer.
StreamEnds(t) ==
  /\ turn[t] = "streaming"
  /\ \/ Tell(t, "error") /\ UNCHANGED historyVars
     \/ Persist(t)
  /\ UNCHANGED retrievalVars

\* _complete_text_turn, and the end of _complete_tool_turn.
Persisted(t) ==
  /\ turn[t] = "persisting" /\ result[t] # "none"
  /\ Tell(t, IF result[t] = "ok" THEN "stored" ELSE "unconfirmed")
  /\ UNCHANGED <<historyVars, retrievalVars>>

TurnStep(t) ==
  \/ HistoryRead(t) \/ RouteMessage(t) \/ ToolEnds(t) \/ CondenseAndRetrieve(t)
  \/ Retrieved(t) \/ StartStream(t) \/ StreamEnds(t) \/ Persisted(t)

\* The session ends while the turn awaits: its lifetime is over, or the client
\* is gone when the next frame is sent.
EndSession(t) ==
  /\ turn[t] \in Awaiting
  /\ Go(t, "gone")
  /\ UNCHANGED <<answered, historyVars, retrievalVars>>

AbandonOperation(t) ==
  /\ turn[t] = "gone"
  /\ Abandon(t)
  /\ UNCHANGED <<retrievalVars, turnVars>>

----------------------------------------------------------------------------
(* The end of lifespan, in its order                                       *)

ToPhase(from, to) == phase = from /\ phase' = to /\ UNCHANGED <<turn, scoped, answered, told>>

\* websocket_security.close and pc_agent_bridge.close.
CloseSockets == ToPhase("serving", "sockets") /\ UNCHANGED <<historyVars, retrievalVars>>

Drain == ToPhase("sockets", "draining") /\ StopAdmission /\ UNCHANGED historyVars

\* retrieval_work.close returns; the resources close in reverse order.
CloseHistory ==
  ToPhase("draining", "history") /\ Tracked = {} /\ CloseStore /\ UNCHANGED retrievalVars

CloseHistoryClient ==
  /\ ToPhase("history", "qdrant")
  /\ CloseClient
  /\ CloseQdrant

CloseSearchClient == ToPhase("qdrant", "down") /\ CloseQdrantClient /\ UNCHANGED historyVars

Shutdown == Drain \/ CloseHistory \/ CloseHistoryClient \/ CloseSearchClient

HistoryThread(t)   == HistoryStep(t) /\ UNCHANGED <<retrievalVars, turnVars>>
RetrievalThread(t) == RetrievalStep(t) /\ UNCHANGED <<historyVars, turnVars>>

Next ==
  \/ \E t \in Turn :
       \/ Receive(t) \/ TurnStep(t) \/ EndSession(t) \/ AbandonOperation(t)
       \/ HistoryThread(t) \/ RetrievalThread(t)
       \/ LateUpdate(t) /\ UNCHANGED <<retrievalVars, turnVars>>
  \/ ClearHistory /\ UNCHANGED <<retrievalVars, turnVars>>
  \/ CloseSockets \/ Shutdown

\* Every await of a turn ends, at the latest with the session's lifetime; what a
\* thread calls has a timeout or is a computation; and a shutdown that began
\* goes on.
Fairness ==
  /\ \A t \in Turn :
       WF_vars(TurnStep(t)) /\ WF_vars(HistoryThread(t)) /\ WF_vars(RetrievalThread(t))
  /\ WF_vars(Shutdown)

Spec == Init /\ [][Next]_vars /\ Fairness

----------------------------------------------------------------------------
(* Properties                                                              *)

\* The state has its type (chat/use_cases.py, chat/mongo_history.py and what
\* they use); the history store's count of slots stays in its range.
TypeOK ==
  /\ HistoryTypeOK
  /\ RetrievalTypeOK
  /\ turn \in [Turn -> Awaiting \cup {"idle", "over", "gone"}]
  /\ scoped \in BOOLEAN
  /\ answered \subseteq Turn
  /\ told \in [Turn -> {"nothing", "error", "stored", "unconfirmed"}]
  /\ phase \in Phases

\* The conversation is made of whole exchanges, each there once, and of no more
\* messages than are kept, however appends, rejected inserts, requests carried
\* out late and clearing interleave (_append, append_exchange).
WholeExchanges ==
  doc # NoDocument =>
    /\ Len(doc) <= MaxMessages
    /\ \A i \in 1..Len(doc) :
         IF i % 2 = 1 THEN doc[i][2] = "user" /\ i < Len(doc)
                      ELSE doc[i] = <<doc[i-1][1], "assistant">>
    /\ \A i, j \in 1..Len(doc) : doc[i] = doc[j] => i = j

\* What the client is told of its exchange is true: stored means it was
\* appended, and an error other than an unconfirmed write means that it was
\* not and never will be; only whole answers are appended, also by threads
\* whose turn was given up (_persist_exchange, _stream_answer).
ToldIsTrue ==
  /\ \A t \in Turn : told[t] = "stored" => t \in appended
  /\ \A t \in Turn : told[t] = "error" => t \notin appended
  /\ appended \subseteq answered

\* The counters of the two gates are those of the threads in them, within the
\* limits, so no slot is lost or given back twice; and nobody sleeps while
\* there is room: a waiter that was not notified sees a full gate
\* (MongoHistoryStore._operation, ModelInferenceGate.inference).
GateKept ==
  /\ active = Cardinality({t \in Turn : operation[t] \in Running}) /\ active <= Capacity
  /\ running = Cardinality({t \in Turn : gate[t] = "in"}) /\ running <= limits.running
  /\ waiting = Cardinality({t \in Turn : gate[t] = "waiting"}) /\ waiting <= limits.waiting
  /\ \A t \in Turn : gate[t] = "waiting" /\ t \notin awake => running = limits.running

\* A shutdown that began completes, without closing a client under a
\* retrieval: once the history store is closed no retrieval is running or
\* starts, also of a turn that goes on; and every turn comes to its end
\* (lifespan, DrainableTasks, QdrantStore.close).
OrderlyShutdown ==
  /\ [](phase \in {"history", "qdrant", "down"} => Tracked = {})
  /\ (phase = "sockets") ~> (phase = "down")
  /\ \A t \in Turn : (turn[t] \in Awaiting) ~> (turn[t] \in {"over", "gone"})
=============================================================================
