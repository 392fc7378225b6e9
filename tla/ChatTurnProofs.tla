--------------------------- MODULE ChatTurnProofs ---------------------------
(***************************************************************************)
(* Theorems about ChatTurn, for any turns, limits and capacity and any     *)
(* even number of messages kept.  The history's part rests on              *)
(* AppendedOnce: the operation, the late request and the exchange in the   *)
(* document are three places of one append, and a turn has it in one of    *)
(* them at a time; the gate's part on the sets its counters count.         *)
(***************************************************************************)
EXTENDS ChatTurn, Counting, SequenceTheorems

\* The operations that append.
Appending == {"append", "appending", "inserting", "rejected"}

\* A turn after it has handed its exchange to the store.
Handed == {"persisting", "over", "gone"}

\* The operation, the request MongoDB may still carry out and the exchange in
\* the document are one append of a turn, in one place at a time.
AppendedOnce ==
  \A t \in Turn :
    /\ operation[t] \in Appending => turn[t] \in {"persisting", "gone"}
    /\ (operation[t] \in Appending \/ late[t] # "none" \/ t \in appended) =>
         turn[t] \in Handed /\ t \in answered
    /\ t \in appended => operation[t] = "none" /\ late[t] = "none"
    /\ late[t] # "none" => operation[t] = "none"
    /\ (turn[t] \notin Handed /\ turn[t] # "reading") => operation[t] = "none"
    /\ (turn[t] = "reading" /\ result[t] # "none") => operation[t] = "none"
    /\ turn[t] = "persisting" =>
         /\ operation[t] \in Appending \cup {"none"}
         /\ result[t] # "none" => operation[t] = "none"
         /\ result[t] = "ok" => t \in appended

\* What was told is final.
ToldIsFinal ==
  \A t \in Turn :
    /\ told[t] # "nothing" => turn[t] = "over"
    /\ turn[t] = "over" => operation[t] = "none"
    /\ told[t] = "error" => late[t] = "none" /\ t \notin appended
    /\ told[t] = "stored" => t \in appended

\* Messages in whole exchanges of some turns, each once.
Whole(messages, turns) ==
  /\ Len(messages) % 2 = 0
  /\ \A i \in 1..Len(messages) :
       /\ messages[i][1] \in turns
       /\ IF i % 2 = 1 THEN messages[i][2] = "user" /\ i < Len(messages)
                       ELSE messages[i] = <<messages[i-1][1], "assistant">>
  /\ \A i, j \in 1..Len(messages) : messages[i] = messages[j] => i = j

\* The document is whole exchanges of turns that appended, or of before.
Document == doc # NoDocument => Len(doc) <= MaxMessages /\ Whole(doc, appended \cup Earlier)

\* The slots of the store are those of the running operations.
Operations == {t \in Turn : operation[t] \in Running}

SlotsCount == IsFiniteSet(Operations) /\ active = Cardinality(Operations)

\* The counters of the gate and of the Qdrant store are those of the threads.
Inside   == {q \in Query : gate[q] = "in"}
Sleepers == {q \in Query : gate[q] = "waiting"}

GateCounts ==
  /\ IsFiniteSet(Inside) /\ running = Cardinality(Inside) /\ running <= limits.running
  /\ IsFiniteSet(Sleepers) /\ waiting = Cardinality(Sleepers) /\ waiting <= limits.waiting
  /\ \A q \in Query : gate[q] = "waiting" /\ q \notin awake => running = limits.running
  /\ IsFiniteSet(leased) /\ leases = Cardinality(leased)

\* A thread is at the gate, or holds the client, in the stages that need it.
InStage ==
  \A q \in Query : /\ gate[q] # "out" => stage[q] \in GateStages
                   /\ q \in leased => stage[q] = "search"

\* No retrieval starts once the process drains, and none is left when the
\* history store closes.
Drained ==
  /\ phase \in {"draining", "history", "qdrant", "down"} => draining
  /\ phase \in {"history", "qdrant", "down"} => Tracked = {}

CInv ==
  /\ TypeOK
  /\ AppendedOnce
  /\ ToldIsFinal
  /\ Document
  /\ SlotsCount
  /\ GateCounts
  /\ InStage
  /\ Drained

-----------------------------------------------------------------------------
(* The steps.                                                              *)

\* A turn goes on, or ends with an error, and the history is left alone.
Advances(t) ==
  /\ UNCHANGED historyVars
  /\ turn[t] \in Awaiting \ {"persisting"}
  /\ turn[t] = "reading" => result[t] # "none"
  /\ UNCHANGED <<scoped, answered, phase>>
  /\ \/ /\ \E to \in Awaiting \ {"reading", "persisting"} : turn' = [turn EXCEPT ![t] = to]
        /\ UNCHANGED told
     \/ /\ turn' = [turn EXCEPT ![t] = "over"]
        /\ told' = [told EXCEPT ![t] = "error"]

\* A turn begins: it reads the history, if it may.
Begins(t) ==
  /\ turn[t] = "idle"
  /\ UNCHANGED <<scoped, answered, told, phase>>
  /\ \/ turn' = [turn EXCEPT ![t] = "reading"] /\ Submit(t, "read")
     \/ turn' = [turn EXCEPT ![t] = "routing"] /\ UNCHANGED historyVars

\* A whole answer is handed to the store.
Hands(t) == turn[t] \in {"acting", "retrieving", "streaming"} /\ Persist(t)

\* What remains of a turn's coroutine.
Ends(t) == Persisted(t) \/ EndSession(t)

\* Threads of the store and MongoDB.
StoreStep(t) == (HistoryStep(t) \/ LateUpdate(t)) /\ UNCHANGED <<retrievalVars, turnVars>>

\* The shutdown, of which the history sees no more than its store's state.
ShutdownStep ==
  /\ UNCHANGED <<mongoVars, operation, result, active, turn, scoped, answered, told>>
  /\ store' = store \/ store' \in {"closed", "gone"}

\* A step, as the history's part looks at it.
LEMMA HistoryKinds ==
  ASSUME TypeOK, [Next]_vars
  PROVE  \/ \E t \in Turn : \/ Begins(t) \/ Advances(t) \/ Hands(t) \/ Ends(t)
                            \/ AbandonOperation(t) \/ StoreStep(t)
         \/ ClearHistory /\ UNCHANGED turnVars
         \/ ShutdownStep
<1>1. ASSUME NEW t \in Turn, Receive(t)
      PROVE  Begins(t)
  BY <1>1 DEF Receive, Begins, Go
<1>2. ASSUME NEW t \in Turn, HistoryRead(t) \/ RouteMessage(t) \/ StartStream(t)
      PROVE  Advances(t)
  BY <1>2 DEF HistoryRead, RouteMessage, StartStream, Route, AfterRoute, Go, Tell, Awaiting, Advances
<1>3. ASSUME NEW t \in Turn, CondenseAndRetrieve(t)
      PROVE  Advances(t)
  BY <1>3 DEF CondenseAndRetrieve, Go, Tell, Awaiting, Advances
<1>4. ASSUME NEW t \in Turn, ToolEnds(t) \/ Retrieved(t) \/ StreamEnds(t)
      PROVE  Advances(t) \/ Hands(t)
  BY <1>4 DEF ToolEnds, ToolOutcome, Retrieved, StreamEnds, Go, Tell, Awaiting, Advances, Hands
<1>5. ASSUME NEW t \in Turn, RetrievalThread(t)
      PROVE  ShutdownStep
  BY <1>5 DEF RetrievalThread, ShutdownStep, historyVars, turnVars
<1>6. CASE CloseSockets \/ Shutdown
  BY <1>6 DEF CloseSockets, Shutdown, Drain, CloseHistory, CloseHistoryClient, CloseSearchClient,
              ToPhase, CloseStore, CloseClient, ShutdownStep, historyVars
<1>7. CASE UNCHANGED vars
  BY <1>7 DEF vars, historyVars, turnVars, ShutdownStep
<1> QED
  BY <1>1, <1>2, <1>3, <1>4, <1>5, <1>6, <1>7
     DEF Next, TurnStep, HistoryThread, StoreStep, Ends

\* A step, as the retrievals look at it.
LEMMA RetrievalKinds ==
  ASSUME [Next]_vars
  PROVE  \/ \E q \in Turn : StartRetrieval(q) \/ RetrievalStep(q)
         \/ StopAdmission \/ CloseQdrant \/ CloseQdrantClient
         \/ UNCHANGED retrievalVars
<1>1. ASSUME NEW t \in Turn, Receive(t) \/ EndSession(t) \/ AbandonOperation(t)
      PROVE  UNCHANGED retrievalVars
  BY <1>1 DEF Receive, EndSession, AbandonOperation
<1>2. ASSUME NEW t \in Turn, TurnStep(t)
      PROVE  StartRetrieval(t) \/ UNCHANGED retrievalVars
  BY <1>2 DEF TurnStep, HistoryRead, RouteMessage, ToolEnds, CondenseAndRetrieve, Retrieved, StartStream,
              StreamEnds, Persisted
<1>3. CASE CloseSockets \/ Shutdown
  BY <1>3 DEF CloseSockets, Shutdown, Drain, CloseHistory, CloseHistoryClient, CloseSearchClient
<1> QED
  BY <1>1, <1>2, <1>3 DEF Next, HistoryThread, RetrievalThread, vars

\* Nothing has been said, read or retrieved.
LEMMA InitCInv == Init => CInv
<1> SUFFICES ASSUME Init PROVE CInv
  OBVIOUS
<1> USE HistoryAssumption, RetrievalAssumption, TurnAssumption DEF Init, HistoryInit, RetrievalInit
<1>1. TypeOK
  <2>1. HistoryTypeOK
    <3>1. ASSUME NEW e \in Earlier
          PROVE  Exchange(e) \in Seq(Message)
      <4>1. <<e, "user">> \in Message /\ <<e, "assistant">> \in Message
        BY DEF Message
      <4> QED
        BY <4>1 DEF Exchange
    <3>2. doc \in Seq(Message) \cup {NoDocument}
      BY <3>1
    <3> QED
      BY <3>2 DEF HistoryTypeOK
  <2>2. RetrievalTypeOK
    BY DEF RetrievalTypeOK
  <2> QED
    BY <2>1, <2>2 DEF TypeOK, Phases
<1>2. limits.running \in Nat /\ limits.waiting \in Nat
  OBVIOUS
<1>3. Operations = {} /\ Inside = {} /\ Sleepers = {} /\ Tracked = {}
  BY DEF Operations, Running, Inside, Sleepers, Tracked
<1>4. SlotsCount /\ GateCounts
  BY <1>2, <1>3, CountNothing DEF SlotsCount, GateCounts
<1>5. AppendedOnce /\ ToldIsFinal /\ InStage /\ Drained
  BY <1>3 DEF AppendedOnce, ToldIsFinal, InStage, Drained, Appending, Handed
<1>6. Document
  <2>1. ASSUME NEW e \in Earlier
        PROVE  Len(Exchange(e)) <= MaxMessages /\ Whole(Exchange(e), appended \cup Earlier)
    <3>1. /\ Len(Exchange(e)) = 2
          /\ Exchange(e)[1] = <<e, "user">> /\ Exchange(e)[2] = <<e, "assistant">>
      BY DEF Exchange
    <3>2. 1..2 = {1, 2} /\ 2 <= MaxMessages
      OBVIOUS
    <3> QED
      BY <3>1, <3>2 DEF Whole
  <2> QED
    BY <2>1 DEF Document
<1> QED
  BY <1>1, <1>4, <1>5, <1>6 DEF CInv

-----------------------------------------------------------------------------
(* Appends                                                                 *)

\* The rest of the turns are not touched by a thread of the store.
Untouched(t) ==
  \A u \in Turn \ {t} : operation'[u] = operation[u] /\ late'[u] = late[u] /\ result'[u] = result[u]

\* What a thread of the store, or MongoDB, does to the append of its turn.
\* It goes on, or a read does;
Waits(t) ==
  /\ UNCHANGED <<doc, late, appended>>
  /\ \/ operation[t] \in Appending /\ operation'[t] \in Appending /\ UNCHANGED result
     \/ operation[t] = "read" /\ operation'[t] = "reading" /\ UNCHANGED result
     \/ operation[t] \in {"read", "reading"} /\ operation'[t] = "none"

\* the exchange is pushed, by the thread or late;
Pushes(t) ==
  /\ Push(t)
  /\ \/ operation[t] \in Appending /\ operation'[t] = "none" /\ UNCHANGED late
     \/ late[t] # "none" /\ late'[t] = "none" /\ UNCHANGED <<operation, result>>

\* or not, and perhaps left to MongoDB.
Fails(t) ==
  /\ UNCHANGED <<doc, appended>>
  /\ \/ operation[t] \in Appending /\ operation'[t] = "none" /\ result'[t] = "failed"
     \/ late[t] # "none" /\ late'[t] = "none" /\ UNCHANGED <<operation, result>>

\* These are all the steps there are.
LEMMA StoreCases ==
  ASSUME TypeOK, NEW t \in Turn, HistoryStep(t) \/ LateUpdate(t)
  PROVE  Untouched(t) /\ (Waits(t) \/ Pushes(t) \/ Fails(t))
<1> USE DEF TypeOK, HistoryTypeOK, Running, Appending, Answer, Release, mongoVars,
            Untouched, Waits, Pushes, Fails
<1>1. CASE BeginOperation(t)
  BY <1>1 DEF BeginOperation
<1>2. CASE FindOne(t)
  BY <1>2 DEF FindOne
<1>3. CASE UpdateOne(t)
  BY <1>3 DEF UpdateOne
<1>4. CASE Insert(t)
  BY <1>4 DEF Insert
<1>5. CASE UpdateWinner(t)
  BY <1>5 DEF UpdateWinner
<1>6. CASE OperationFails(t)
  BY <1>6 DEF OperationFails
<1>7. CASE LateUpdate(t)
  BY <1>7 DEF LateUpdate
<1> QED
  BY <1>1, <1>2, <1>3, <1>4, <1>5, <1>6, <1>7 DEF HistoryStep

\* An append is in one place at a time: it is submitted once, and a thread
\* that gives it up may leave it to MongoDB but does not repeat it.
LEMMA AppendedOnceStep ==
  ASSUME TypeOK, AppendedOnce, ToldIsFinal, [Next]_vars
  PROVE  AppendedOnce'
<1> USE DEF TypeOK, HistoryTypeOK, AppendedOnce, Appending, Handed
<1>1. ASSUME NEW t \in Turn, Begins(t)
      PROVE  AppendedOnce'
  BY <1>1 DEF Begins, Submit, historyVars, mongoVars
<1>2. ASSUME NEW t \in Turn, Advances(t)
      PROVE  AppendedOnce'
  BY <1>2 DEF Advances, Awaiting, historyVars, mongoVars
<1>3. ASSUME NEW t \in Turn, Hands(t)
      PROVE  AppendedOnce'
  BY <1>3 DEF Hands, Persist, Go, Submit, mongoVars
<1>4. ASSUME NEW t \in Turn, Ends(t)
      PROVE  AppendedOnce'
  BY <1>4 DEF Ends, Persisted, EndSession, Tell, Go, Awaiting, historyVars, mongoVars
<1>5. ASSUME NEW t \in Turn, AbandonOperation(t)
      PROVE  AppendedOnce'
  BY <1>5 DEF AbandonOperation, Abandon, turnVars, mongoVars
<1>6. ASSUME NEW t \in Turn, StoreStep(t)
      PROVE  AppendedOnce'
  <2>1. Untouched(t) /\ (Waits(t) \/ Pushes(t) \/ Fails(t)) /\ UNCHANGED turnVars
    BY <1>6, StoreCases DEF StoreStep
  <2>2. \A u \in Turn \ {t} : u \in appended' <=> u \in appended
    BY <2>1 DEF Waits, Pushes, Push, Fails
  <2>3. CASE Waits(t)
    BY <2>1, <2>3 DEF Waits, Untouched, turnVars
  <2>4. CASE Pushes(t)
    BY <2>1, <2>2, <2>4 DEF Pushes, Push, Untouched, turnVars
  <2>5. CASE Fails(t)
    BY <2>1, <2>5 DEF Fails, Untouched, turnVars
  <2> QED
    BY <2>1, <2>3, <2>4, <2>5
<1>7. CASE ClearHistory /\ UNCHANGED turnVars
  BY <1>7 DEF ClearHistory, turnVars
<1>8. CASE ShutdownStep
  BY <1>8 DEF ShutdownStep, mongoVars
<1> QED
  BY HistoryKinds, <1>1, <1>2, <1>3, <1>4, <1>5, <1>6, <1>7, <1>8

\* What the client was told stays so: nothing of the turn is left that could
\* still append.
LEMMA ToldIsFinalStep ==
  ASSUME TypeOK, AppendedOnce, ToldIsFinal, [Next]_vars
  PROVE  ToldIsFinal'
<1> USE DEF TypeOK, HistoryTypeOK, AppendedOnce, ToldIsFinal, Appending, Handed
<1>1. ASSUME NEW t \in Turn, Begins(t)
      PROVE  ToldIsFinal'
  BY <1>1 DEF Begins, Submit, historyVars, mongoVars
<1>2. ASSUME NEW t \in Turn, Advances(t)
      PROVE  ToldIsFinal'
  BY <1>2 DEF Advances, Awaiting, historyVars, mongoVars
<1>3. ASSUME NEW t \in Turn, Hands(t)
      PROVE  ToldIsFinal'
  BY <1>3 DEF Hands, Persist, Go, Submit, mongoVars
<1>4. ASSUME NEW t \in Turn, Ends(t)
      PROVE  ToldIsFinal'
  BY <1>4 DEF Ends, Persisted, EndSession, Tell, Go, Awaiting, historyVars, mongoVars
<1>5. ASSUME NEW t \in Turn, AbandonOperation(t)
      PROVE  ToldIsFinal'
  BY <1>5 DEF AbandonOperation, Abandon, turnVars, mongoVars
<1>6. ASSUME NEW t \in Turn, StoreStep(t)
      PROVE  ToldIsFinal'
  <2>1. Untouched(t) /\ (Waits(t) \/ Pushes(t) \/ Fails(t)) /\ UNCHANGED turnVars
    BY <1>6, StoreCases DEF StoreStep
  <2>2. \A u \in Turn \ {t} : u \in appended' <=> u \in appended
    BY <2>1 DEF Waits, Pushes, Push, Fails
  <2>3. CASE Waits(t)
    BY <2>1, <2>3 DEF Waits, Untouched, turnVars
  <2>4. CASE Pushes(t)
    BY <2>1, <2>2, <2>4 DEF Pushes, Push, Untouched, turnVars
  <2>5. CASE Fails(t)
    BY <2>1, <2>5 DEF Fails, Untouched, turnVars
  <2> QED
    BY <2>1, <2>3, <2>4, <2>5
<1>7. CASE ClearHistory /\ UNCHANGED turnVars
  BY <1>7 DEF ClearHistory, turnVars
<1>8. CASE ShutdownStep
  BY <1>8 DEF ShutdownStep, mongoVars
<1> QED
  BY HistoryKinds, <1>1, <1>2, <1>3, <1>4, <1>5, <1>6, <1>7, <1>8

-----------------------------------------------------------------------------
(* The document                                                            *)

\* An exchange of another turn goes to the end.
LEMMA ExchangeAppended ==
  ASSUME NEW s \in Seq(Message), NEW turns, Whole(s, turns), NEW t \in Turn, t \notin turns
  PROVE  /\ s \o Exchange(t) \in Seq(Message)
         /\ Len(s \o Exchange(t)) = Len(s) + 2
         /\ Whole(s \o Exchange(t), turns \cup {t})
<1> DEFINE e == Exchange(t)
           n == Len(s)
           r == s \o e
<1>1. e \in Seq(Message) /\ Len(e) = 2 /\ e[1] = <<t, "user">> /\ e[2] = <<t, "assistant">>
  BY DEF Exchange, Message
<1>2. n \in Nat /\ n % 2 = 0
  BY DEF Whole
<1>3. \A i \in 1..n : /\ s[i][1] \in turns
                      /\ IF i % 2 = 1 THEN s[i][2] = "user" /\ i < n
                                      ELSE s[i] = <<s[i-1][1], "assistant">>
  BY DEF Whole
<1>4. \A i, j \in 1..n : s[i] = s[j] => i = j
  BY DEF Whole
<1> HIDE DEF e
<1>5. r \in Seq(Message) /\ Len(r) = n + 2
  BY <1>1, ConcatProperties
<1>6. \A i \in 1..n : r[i] = s[i]
  BY <1>1, <1>2
<1>7. r[n + 1] = <<t, "user">>
  <2>1. r[n + 1] = e[1]
    BY <1>1, <1>2
  <2> QED
    BY <1>1, <2>1
<1>8. r[n + 2] = <<t, "assistant">>
  <2>1. r[n + 2] = e[2]
    BY <1>1, <1>2
  <2> QED
    BY <1>1, <2>1
<1> HIDE DEF n, r
<1>9. \A i \in 1..(n + 2) : i \in 1..n \/ i = n + 1 \/ i = n + 2
  BY <1>2
<1>10. ASSUME NEW i \in 1..(n + 2)
       PROVE  /\ r[i][1] \in turns \cup {t}
              /\ IF i % 2 = 1 THEN r[i][2] = "user" /\ i < n + 2
                              ELSE r[i] = <<r[i-1][1], "assistant">>
  <2>1. CASE i \in 1..n
    <3>1. CASE i % 2 = 1
      BY <1>2, <1>3, <1>6, <2>1, <3>1
    <3>2. CASE i % 2 # 1
      <4>1. i - 1 \in 1..n
        BY <1>2, <2>1, <3>2
      <4>2. r[i - 1] = s[i - 1] /\ r[i] = s[i]
        BY <1>6, <2>1, <4>1
      <4> QED
        BY <1>3, <2>1, <3>2, <4>2
    <3> QED
      BY <3>1, <3>2
  <2>2. CASE i = n + 1
    BY <1>2, <1>7, <2>2
  <2>3. CASE i = n + 2
    <3>1. i % 2 # 1 /\ i - 1 = n + 1
      BY <1>2, <2>3
    <3> QED
      BY <1>7, <1>8, <2>3, <3>1
  <2> QED
    BY <1>9, <2>1, <2>2, <2>3
<1>11. ASSUME NEW i \in 1..(n + 2), NEW j \in 1..(n + 2), r[i] = r[j]
       PROVE  i = j
  <2>1. \A k \in 1..n : r[k] # r[n + 1] /\ r[k] # r[n + 2]
    BY <1>3, <1>6, <1>7, <1>8
  <2>2. r[n + 1] # r[n + 2]
    BY <1>7, <1>8
  <2>3. \A k, l \in 1..n : r[k] = r[l] => k = l
    BY <1>4, <1>6
  <2> QED
    BY <1>9, <1>11, <2>1, <2>2, <2>3
<1>12. (n + 2) % 2 = 0
  BY <1>2
<1>13. Whole(r, turns \cup {t})
  BY <1>5, <1>10, <1>11, <1>12 DEF Whole
<1> QED
  BY <1>5, <1>13 DEF e, n, r

\* The oldest exchange is left out.
LEMMA OldestDropped ==
  ASSUME NEW s \in Seq(Message), NEW turns, Whole(s, turns), Len(s) >= 2
  PROVE  /\ SubSeq(s, 3, Len(s)) \in Seq(Message)
         /\ Len(SubSeq(s, 3, Len(s))) = Len(s) - 2
         /\ Whole(SubSeq(s, 3, Len(s)), turns)
<1> DEFINE n == Len(s)
           m == n - 2
           r == SubSeq(s, 3, n)
<1>1. n \in Nat /\ n % 2 = 0 /\ m \in Nat /\ n = m + 2 /\ m % 2 = 0
  BY DEF Whole
<1>2. \A i \in 1..n : /\ s[i][1] \in turns
                      /\ IF i % 2 = 1 THEN s[i][2] = "user" /\ i < n
                                      ELSE s[i] = <<s[i-1][1], "assistant">>
  BY DEF Whole
<1>3. \A i, j \in 1..n : s[i] = s[j] => i = j
  BY DEF Whole
<1>4. r \in Seq(Message) /\ Len(r) = m
  BY <1>1
<1>5. \A i \in 1..m : r[i] = s[i + 2]
  BY <1>1
<1> HIDE DEF n, m, r
<1>6. ASSUME NEW i \in 1..m
      PROVE  /\ r[i][1] \in turns
             /\ IF i % 2 = 1 THEN r[i][2] = "user" /\ i < m
                             ELSE r[i] = <<r[i-1][1], "assistant">>
  <2>1. i + 2 \in 1..n /\ (i + 2) % 2 = i % 2
    BY <1>1
  <2>2. r[i] = s[i + 2]
    BY <1>5
  <2>3. CASE i % 2 = 1
    <3>1. s[i + 2][1] \in turns /\ s[i + 2][2] = "user" /\ i + 2 < n
      BY <1>2, <2>1, <2>3
    <3> QED
      BY <1>1, <2>2, <2>3, <3>1
  <2>4. CASE i % 2 # 1
    <3>1. s[i + 2][1] \in turns /\ s[i + 2] = <<s[(i + 2) - 1][1], "assistant">>
      BY <1>2, <2>1, <2>4
    <3>2. i - 1 \in 1..m /\ (i - 1) + 2 = (i + 2) - 1
      BY <1>1, <2>4
    <3>3. r[i - 1] = s[(i + 2) - 1]
      BY <1>5, <3>2
    <3> QED
      BY <2>2, <2>4, <3>1, <3>3
  <2> QED
    BY <2>3, <2>4
<1>7. ASSUME NEW i \in 1..m, NEW j \in 1..m, r[i] = r[j]
      PROVE  i = j
  <2>1. i + 2 \in 1..n /\ j + 2 \in 1..n
    BY <1>1
  <2>2. s[i + 2] = s[j + 2]
    BY <1>5, <1>7
  <2>3. i + 2 = j + 2
    BY <1>3, <2>1, <2>2
  <2> QED
    BY <2>3
<1>8. Whole(r, turns)
  BY <1>1, <1>4, <1>6, <1>7 DEF Whole
<1> QED
  BY <1>4, <1>8 DEF n, m, r

\* Pushing the exchange of a turn that never appended leaves whole exchanges,
\* once each: of an even number of messages a full document loses its oldest
\* exchange.
LEMMA PushKeepsExchanges ==
  ASSUME HistoryTypeOK, Document, NEW t \in Turn, t \notin appended, Push(t)
  PROVE  /\ Document'
         /\ doc' \in Seq(Message)
<1> USE HistoryAssumption
<1> DEFINE old == IF doc = NoDocument THEN << >> ELSE doc
           new == old \o Exchange(t)
<1>1. old \in Seq(Message) /\ Len(old) \in Nat /\ Len(old) <= MaxMessages /\ Whole(old, appended \cup Earlier)
  <2>1. CASE doc = NoDocument
    <3>1. old = << >> /\ Len(<< >>) = 0
      BY <2>1
    <3>2. Whole(<< >>, appended \cup Earlier)
      BY DEF Whole
    <3>3. << >> \in Seq(Message) /\ 0 <= MaxMessages
      OBVIOUS
    <3> QED
      BY <3>1, <3>2, <3>3
  <2>2. CASE doc # NoDocument
    BY <2>2 DEF HistoryTypeOK, Message, Document
  <2> QED
    BY <2>1, <2>2
<1>2. Len(old) % 2 = 0
  BY <1>1 DEF Whole
<1>3. appended' = appended \cup {t} /\ doc' = Slice(new, MaxMessages)
  BY DEF Push
<1> HIDE DEF old
<1>4. new \in Seq(Message) /\ Len(new) = Len(old) + 2 /\ Whole(new, appended' \cup Earlier)
  <2>1. t \notin appended \cup Earlier
    OBVIOUS
  <2>2. (appended \cup Earlier) \cup {t} = appended' \cup Earlier
    BY <1>3
  <2>3. Whole(new, (appended \cup Earlier) \cup {t})
    BY <1>1, <2>1, ExchangeAppended
  <2> QED
    BY <1>1, <2>1, <2>2, <2>3, ExchangeAppended
<1> HIDE DEF new
<1>5. CASE Len(old) + 2 <= MaxMessages
  <2>1. doc' = SubSeq(new, 1, Len(new))
    <3>1. MaxMessages \in Nat /\ Len(new) \in Nat /\ ~(Len(new) > MaxMessages)
      BY <1>1, <1>4, <1>5
    <3> QED
      BY <1>3, <3>1 DEF Slice
  <2>2. doc' = new
    BY <1>4, <2>1
  <2> QED
    BY <1>4, <1>5, <2>2 DEF Document
<1>6. CASE Len(old) + 2 > MaxMessages
  <2>1. Len(old) = MaxMessages
    BY <1>1, <1>2, <1>6
  <2>2. doc' = SubSeq(new, 3, Len(new))
    BY <1>3, <1>4, <2>1 DEF Slice
  <2> QED
    BY <1>4, <2>1, <2>2, OldestDropped DEF Document
<1> QED
  BY <1>1, <1>5, <1>6

\* Only pushes and the clearing of the history change the document.
LEMMA DocumentStep ==
  ASSUME TypeOK, AppendedOnce, Document, [Next]_vars
  PROVE  /\ Document'
         /\ doc' \in Seq(Message) \cup {NoDocument}
<1> DEFINE Goal == /\ Document'
                   /\ doc' \in Seq(Message) \cup {NoDocument}
<1>1. ASSUME UNCHANGED <<doc, appended>>
      PROVE  Goal
  BY <1>1 DEF Document, TypeOK, HistoryTypeOK, Message
<1>2. ASSUME NEW t \in Turn, Begins(t) \/ Advances(t) \/ Hands(t) \/ Ends(t) \/ AbandonOperation(t)
      PROVE  UNCHANGED <<doc, appended>>
  BY <1>2 DEF Begins, Advances, Hands, Persist, Submit, Ends, Persisted, EndSession, AbandonOperation,
              Abandon, historyVars, mongoVars
<1>3. ASSUME NEW t \in Turn, StoreStep(t)
      PROVE  Goal
  <2>1. Waits(t) \/ Pushes(t) \/ Fails(t)
    BY <1>3, StoreCases DEF StoreStep
  <2>2. CASE Pushes(t)
    <3>1. t \notin appended /\ Push(t)
      BY <2>2 DEF Pushes, AppendedOnce, Appending
    <3> QED
      BY <3>1, PushKeepsExchanges DEF TypeOK
  <2> QED
    BY <1>1, <2>1, <2>2 DEF Waits, Fails
<1>4. CASE ClearHistory
  BY <1>4 DEF ClearHistory, Document
<1>5. CASE ShutdownStep
  BY <1>1, <1>5 DEF ShutdownStep, mongoVars
<1> QED
  BY HistoryKinds, <1>1, <1>2, <1>3, <1>4, <1>5

-----------------------------------------------------------------------------
(* Slots of the history store                                              *)

\* A thread's step takes a slot, gives its own back or does neither.
LEMMA SlotCases ==
  ASSUME TypeOK, NEW t \in Turn, HistoryStep(t) \/ LateUpdate(t)
  PROVE  \/ Operations' = Operations /\ active' = active
         \/ /\ t \notin Operations /\ Operations' = Operations \cup {t}
            /\ active < Capacity /\ active' = active + 1
         \/ t \in Operations /\ Operations' = Operations \ {t} /\ active' = active - 1
<1> USE DEF TypeOK, HistoryTypeOK, Running, Operations, Answer, Release, mongoVars
<1>1. CASE BeginOperation(t)
  BY <1>1 DEF BeginOperation
<1>2. CASE FindOne(t)
  BY <1>2 DEF FindOne
<1>3. CASE UpdateOne(t)
  BY <1>3 DEF UpdateOne
<1>4. CASE Insert(t)
  BY <1>4 DEF Insert
<1>5. CASE UpdateWinner(t)
  BY <1>5 DEF UpdateWinner
<1>6. CASE OperationFails(t)
  BY <1>6 DEF OperationFails
<1>7. CASE LateUpdate(t)
  BY <1>7 DEF LateUpdate
<1> QED
  BY <1>1, <1>2, <1>3, <1>4, <1>5, <1>6, <1>7 DEF HistoryStep

\* So the count of slots is exact, and never leaves its range.
LEMMA SlotsCountStep ==
  ASSUME TypeOK, AppendedOnce, SlotsCount, [Next]_vars
  PROVE  SlotsCount' /\ active' \in 0..Capacity
<1> DEFINE Goal == SlotsCount' /\ active' \in 0..Capacity
<1> USE HistoryAssumption
<1>1. ASSUME Operations' = Operations, active' = active
      PROVE  Goal
  BY <1>1 DEF SlotsCount, TypeOK, HistoryTypeOK
<1>2. ASSUME NEW t \in Turn, Begins(t) \/ Hands(t)
      PROVE  Goal
  <2>1. operation[t] = "none"
    BY <1>2 DEF Begins, Hands, AppendedOnce, Handed
  <2>2. Operations' = Operations /\ active' = active
    BY <1>2, <2>1 DEF Begins, Hands, Persist, Submit, historyVars, Operations, Running, TypeOK, HistoryTypeOK
  <2> QED
    BY <1>1, <2>2
<1>3. ASSUME NEW t \in Turn, Advances(t) \/ Ends(t) \/ AbandonOperation(t)
      PROVE  Goal
  <2>1. Operations' = Operations /\ active' = active
    BY <1>3 DEF Advances, Ends, Persisted, EndSession, AbandonOperation, Abandon, historyVars, Operations,
                Running, TypeOK, HistoryTypeOK
  <2> QED
    BY <1>1, <2>1
<1>4. ASSUME NEW t \in Turn, StoreStep(t)
      PROVE  Goal
  <2>1. CASE Operations' = Operations /\ active' = active
    BY <1>1, <2>1
  <2>2. CASE /\ t \notin Operations /\ Operations' = Operations \cup {t}
             /\ active < Capacity /\ active' = active + 1
    <3>1. IsFiniteSet(Operations') /\ Cardinality(Operations') = active + 1
      BY <2>2, CountEnters DEF SlotsCount
    <3>2. active' \in 0..Capacity
      BY <2>2 DEF TypeOK, HistoryTypeOK
    <3> QED
      BY <2>2, <3>1, <3>2 DEF SlotsCount
  <2>3. CASE t \in Operations /\ Operations' = Operations \ {t} /\ active' = active - 1
    <3>1. IsFiniteSet(Operations') /\ Cardinality(Operations') = active - 1 /\ active # 0
      BY <2>3, CountLeaves DEF SlotsCount
    <3>2. active' \in 0..Capacity
      BY <2>3, <3>1 DEF TypeOK, HistoryTypeOK
    <3> QED
      BY <2>3, <3>1, <3>2 DEF SlotsCount
  <2> QED
    BY <1>4, <2>1, <2>2, <2>3, SlotCases DEF StoreStep
<1>5. CASE ClearHistory \/ ShutdownStep
  <2>1. Operations' = Operations /\ active' = active
    BY <1>5 DEF ClearHistory, ShutdownStep, Operations
  <2> QED
    BY <1>1, <2>1
<1> QED
  BY HistoryKinds, <1>2, <1>3, <1>4, <1>5

-----------------------------------------------------------------------------
(* The inference gate and the Qdrant client                                *)

\* A step that leaves gate and leases alone keeps their counts.
LEMMA GateAlone ==
  ASSUME GateCounts, UNCHANGED <<limits, gateVars, leases, leased>>
  PROVE  GateCounts'
BY DEF GateCounts, gateVars, Inside, Sleepers

\* A thread enters the gate, waits at it, or is turned away.
LEMMA EnterGateCounts ==
  ASSUME RetrievalTypeOK, GateCounts, NEW q \in Query, EnterGate(q)
  PROVE  GateCounts'
<1> USE RetrievalAssumption DEF RetrievalTypeOK
<1>1. limits.running \in Nat \ {0} /\ limits.waiting \in Nat /\ gate[q] = "out"
      /\ UNCHANGED <<limits, awake, leases, leased>>
  BY DEF EnterGate, qdrantVars
<1>2. CASE running < limits.running /\ running' = running + 1 /\ waiting' = waiting
           /\ gate' = [gate EXCEPT ![q] = "in"]
  <2>1. q \notin Inside /\ Inside' = Inside \cup {q} /\ Sleepers' = Sleepers
    BY <1>1, <1>2 DEF Inside, Sleepers
  <2>2. IsFiniteSet(Inside') /\ Cardinality(Inside') = running'
    BY <1>2, <2>1, CountEnters DEF GateCounts
  <2>3. \A w \in Query : gate'[w] = "waiting" => w \in awake
    BY <1>1, <1>2 DEF GateCounts
  <2> QED
    BY <1>1, <1>2, <2>1, <2>2, <2>3 DEF GateCounts
<1>3. CASE running >= limits.running /\ waiting < limits.waiting /\ running' = running
           /\ waiting' = waiting + 1 /\ gate' = [gate EXCEPT ![q] = "waiting"]
  <2>1. q \notin Sleepers /\ Sleepers' = Sleepers \cup {q} /\ Inside' = Inside
    BY <1>1, <1>3 DEF Inside, Sleepers
  <2>2. IsFiniteSet(Sleepers') /\ Cardinality(Sleepers') = waiting'
    BY <1>3, <2>1, CountEnters DEF GateCounts
  <2>3. running' = limits.running
    BY <1>1, <1>3 DEF GateCounts
  <2> QED
    BY <1>1, <1>3, <2>1, <2>2, <2>3 DEF GateCounts
<1>4. CASE UNCHANGED <<running, waiting, gate>>
  BY <1>1, <1>4, GateAlone DEF gateVars
<1> QED
  BY <1>2, <1>3, <1>4 DEF EnterGate

\* A waiter enters, sleeps on or gives up.
LEMMA RecheckCounts ==
  ASSUME RetrievalTypeOK, GateCounts, NEW q \in Query, Recheck(q)
  PROVE  GateCounts'
<1> USE RetrievalAssumption DEF RetrievalTypeOK
<1>1. limits.running \in Nat \ {0} /\ limits.waiting \in Nat /\ gate[q] = "waiting" /\ awake' = awake \ {q}
      /\ UNCHANGED <<limits, leases, leased>>
  BY DEF Recheck, qdrantVars
<1>2. CASE running < limits.running /\ running' = running + 1 /\ waiting' = waiting - 1
           /\ gate' = [gate EXCEPT ![q] = "in"]
  <2>1. q \notin Inside /\ Inside' = Inside \cup {q} /\ q \in Sleepers /\ Sleepers' = Sleepers \ {q}
    BY <1>1, <1>2 DEF Inside, Sleepers
  <2>2. IsFiniteSet(Inside') /\ Cardinality(Inside') = running'
    BY <1>2, <2>1, CountEnters DEF GateCounts
  <2>3. IsFiniteSet(Sleepers') /\ Cardinality(Sleepers') = waiting'
    BY <1>2, <2>1, CountLeaves DEF GateCounts
  <2>4. \A w \in Query : gate'[w] = "waiting" => w \in awake'
    BY <1>1, <1>2 DEF GateCounts
  <2>5. running' <= limits.running /\ waiting' <= limits.waiting
    BY <1>1, <1>2 DEF GateCounts
  <2> QED
    BY <1>1, <2>2, <2>3, <2>4, <2>5 DEF GateCounts
<1>3. CASE running >= limits.running /\ UNCHANGED <<running, waiting, gate>>
  <2>1. running' = limits.running
    BY <1>1, <1>3 DEF GateCounts
  <2> QED
    BY <1>1, <1>3, <2>1 DEF GateCounts, Inside, Sleepers
<1>4. CASE running >= limits.running /\ waiting' = waiting - 1 /\ running' = running
           /\ gate' = [gate EXCEPT ![q] = "out"]
  <2>1. Inside' = Inside /\ q \in Sleepers /\ Sleepers' = Sleepers \ {q}
    BY <1>1, <1>4 DEF Inside, Sleepers
  <2>2. IsFiniteSet(Sleepers') /\ Cardinality(Sleepers') = waiting'
    BY <1>4, <2>1, CountLeaves DEF GateCounts
  <2>3. running' = limits.running /\ waiting' <= limits.waiting
    BY <1>1, <1>4 DEF GateCounts
  <2> QED
    BY <1>1, <1>4, <2>1, <2>2, <2>3 DEF GateCounts
<1> QED
  BY <1>2, <1>3, <1>4 DEF Recheck

\* A thread leaves the gate, and all waiters are notified.
LEMMA LeaveGateCounts ==
  ASSUME RetrievalTypeOK, GateCounts, NEW q \in Query, LeaveGate(q)
  PROVE  GateCounts'
<1> USE RetrievalAssumption DEF RetrievalTypeOK
<1>1. /\ gate[q] = "in" /\ running' = running - 1 /\ gate' = [gate EXCEPT ![q] = "out"]
      /\ awake' = Sleepers
      /\ UNCHANGED <<limits, waiting, leases, leased>>
  BY DEF LeaveGate, qdrantVars, Sleepers
<1>2. q \in Inside /\ Inside' = Inside \ {q} /\ Sleepers' = Sleepers
  BY <1>1 DEF Inside, Sleepers
<1>3. IsFiniteSet(Inside') /\ Cardinality(Inside') = running'
  BY <1>1, <1>2, CountLeaves DEF GateCounts
<1>4. running' <= limits.running /\ limits.running \in Nat
  BY <1>1 DEF GateCounts
<1>5. \A w \in Query : gate'[w] = "waiting" => w \in awake'
  BY <1>1 DEF Sleepers
<1> QED
  BY <1>1, <1>2, <1>3, <1>4, <1>5 DEF GateCounts

\* A lease is taken, or one of those taken is given back.
LEMMA LeaseCounts ==
  ASSUME RetrievalTypeOK, GateCounts, NEW q \in Query, Lease(q) \/ Search(q)
  PROVE  GateCounts'
<1>1. UNCHANGED <<limits, gateVars>>
  BY DEF Lease, Search
<1>2. CASE UNCHANGED <<leases, leased>>
  BY <1>1, <1>2, GateAlone
<1>3. CASE q \notin leased /\ leases' = leases + 1 /\ leased' = leased \cup {q}
  <2>1. IsFiniteSet(leased') /\ leases' = Cardinality(leased')
    BY <1>3, CountEnters DEF GateCounts
  <2> QED
    BY <1>1, <2>1 DEF GateCounts, gateVars, Inside, Sleepers
<1>4. CASE q \in leased /\ leases' = leases - 1 /\ leased' = leased \ {q}
  <2>1. IsFiniteSet(leased') /\ leases' = Cardinality(leased')
    BY <1>4, CountLeaves DEF GateCounts
  <2> QED
    BY <1>1, <2>1 DEF GateCounts, gateVars, Inside, Sleepers
<1> QED
  BY <1>2, <1>3, <1>4 DEF Lease, Search

\* The gate and the leases count exactly the retrievals inside them.
LEMMA GateCountsStep ==
  ASSUME TypeOK, GateCounts, [Next]_vars
  PROVE  GateCounts'
<1>1. ASSUME NEW q \in Turn, RetrievalStep(q)
      PROVE  GateCounts'
  BY <1>1, TurnAssumption, EnterGateCounts, RecheckCounts, LeaveGateCounts, LeaseCounts
     DEF RetrievalStep, TypeOK
<1>2. ASSUME NEW q \in Turn, StartRetrieval(q)
      PROVE  GateCounts'
  BY <1>2, GateAlone DEF StartRetrieval, qdrantVars
<1>3. CASE StopAdmission \/ CloseQdrant \/ CloseQdrantClient \/ UNCHANGED retrievalVars
  BY <1>3, GateAlone DEF StopAdmission, CloseQdrant, CloseQdrantClient, retrievalVars, qdrantVars
<1> QED
  BY RetrievalKinds, <1>1, <1>2, <1>3

-----------------------------------------------------------------------------
(* Retrievals and the shutdown                                             *)

\* Whatever a retrieval's thread does, it goes on in a stage that suits where
\* it is, and it was tracked.
LEMMA ThreadStage ==
  ASSUME RetrievalTypeOK, InStage, NEW q \in Query, RetrievalStep(q)
  PROVE  /\ stage' = stage \/ \E to \in GateStages \cup Over \cup {"search"} : ToStage(q, to)
         /\ q \in Tracked
         /\ gate'[q] # "out" => stage'[q] \in GateStages
         /\ q \in leased' => stage'[q] = "search"
         /\ \A w \in Query \ {q} : gate'[w] = gate[w] /\ (w \in leased' <=> w \in leased)
<1> USE DEF RetrievalTypeOK, InStage, Tracked, GateStages, Over, ToStage, qdrantVars, gateVars
<1>1. CASE EnterGate(q)
  BY <1>1 DEF EnterGate
<1>2. CASE Recheck(q)
  BY <1>2 DEF Recheck
<1>3. CASE LeaveGate(q)
  <2>1. stage[q] \in GateStages /\ q \notin leased /\ gate'[q] = "out"
    BY <1>3 DEF LeaveGate
  <2>2. \A ok \in BOOLEAN : AfterStage(q, ok) \in GateStages \cup Over \cup {"search"}
    BY <2>1 DEF AfterStage
  <2> QED
    BY <1>3, <2>1, <2>2 DEF LeaveGate
<1>4. CASE Lease(q)
  BY <1>4 DEF Lease
<1>5. CASE Search(q)
  BY <1>5 DEF Search
<1> QED
  BY <1>1, <1>2, <1>3, <1>4, <1>5 DEF RetrievalStep

\* A retrieval holds the gate and a lease only at the steps that need them.
LEMMA InStageStep ==
  ASSUME TypeOK, InStage, [Next]_vars
  PROVE  InStage'
<1>1. ASSUME NEW q \in Turn, RetrievalStep(q)
      PROVE  InStage'
  <2>1. /\ stage' = stage \/ \E to \in GateStages \cup Over \cup {"search"} : ToStage(q, to)
        /\ gate'[q] # "out" => stage'[q] \in GateStages
        /\ q \in leased' => stage'[q] = "search"
        /\ \A w \in Query \ {q} : gate'[w] = gate[w] /\ (w \in leased' <=> w \in leased)
    BY <1>1, TurnAssumption, ThreadStage DEF TypeOK
  <2>2. \A w \in Query \ {q} : stage'[w] = stage[w]
    BY <2>1 DEF ToStage, TypeOK, RetrievalTypeOK
  <2> QED
    BY <2>1, <2>2 DEF InStage
<1>2. ASSUME NEW q \in Turn, StartRetrieval(q)
      PROVE  InStage'
  BY <1>2, TurnAssumption
     DEF StartRetrieval, ToStage, GateStages, InStage, qdrantVars, gateVars, TypeOK, RetrievalTypeOK
<1>3. CASE StopAdmission \/ CloseQdrant \/ CloseQdrantClient \/ UNCHANGED retrievalVars
  BY <1>3 DEF StopAdmission, CloseQdrant, CloseQdrantClient, retrievalVars, qdrantVars, gateVars, InStage
<1> QED
  BY RetrievalKinds, <1>1, <1>2, <1>3

\* Once the tracker is closing no retrieval starts.
LEMMA TrackedShrinks ==
  ASSUME TypeOK, InStage, draining, [Next]_vars
  PROVE  Tracked' \subseteq Tracked /\ draining'
<1>1. ASSUME NEW q \in Turn, RetrievalStep(q)
      PROVE  Tracked' \subseteq Tracked /\ draining'
  <2>1. /\ stage' = stage \/ \E to \in GateStages \cup Over \cup {"search"} : ToStage(q, to)
        /\ q \in Tracked
    BY <1>1, TurnAssumption, ThreadStage DEF TypeOK
  <2>2. \A w \in Query \ {q} : stage'[w] = stage[w]
    BY <2>1 DEF ToStage, TypeOK, RetrievalTypeOK
  <2>3. draining' = draining
    BY <1>1 DEF RetrievalStep, EnterGate, Recheck, LeaveGate, Lease, Search
  <2> QED
    BY <2>1, <2>2, <2>3 DEF Tracked
<1>2. ASSUME NEW q \in Turn, StartRetrieval(q)
      PROVE  FALSE
  BY <1>2 DEF StartRetrieval
<1>3. CASE StopAdmission \/ CloseQdrant \/ CloseQdrantClient \/ UNCHANGED retrievalVars
  BY <1>3 DEF StopAdmission, CloseQdrant, CloseQdrantClient, retrievalVars, Tracked
<1> QED
  BY RetrievalKinds, <1>1, <1>2, <1>3

\* The phase of the process, and what it waits for.
LEMMA PhaseSteps ==
  ASSUME [Next]_vars
  PROVE  \/ phase' = phase
         \/ phase' = "sockets"
         \/ phase' = "draining" /\ StopAdmission
         \/ phase = "draining" /\ phase' = "history" /\ Tracked = {}
         \/ phase = "history" /\ phase' = "qdrant"
         \/ phase = "qdrant" /\ phase' = "down"
<1>1. ASSUME NEW t \in Turn, Receive(t) \/ EndSession(t) \/ AbandonOperation(t)
      PROVE  phase' = phase
  BY <1>1 DEF Receive, EndSession, AbandonOperation, Go, turnVars
<1>2. ASSUME NEW t \in Turn, TurnStep(t)
      PROVE  phase' = phase
  BY <1>2 DEF TurnStep, HistoryRead, RouteMessage, ToolEnds, CondenseAndRetrieve, Retrieved, StartStream,
              StreamEnds, Persisted, Persist, Go, Tell
<1>3. CASE CloseSockets \/ Shutdown
  BY <1>3 DEF CloseSockets, Shutdown, Drain, CloseHistory, CloseHistoryClient, CloseSearchClient, ToPhase
<1> QED
  BY <1>1, <1>2, <1>3 DEF Next, HistoryThread, RetrievalThread, turnVars, vars

\* The history store is closed behind the last retrieval, for good.
LEMMA DrainedStep ==
  ASSUME TypeOK, InStage, Drained, [Next]_vars
  PROVE  Drained'
<1>1. draining => draining' /\ Tracked' \subseteq Tracked
  BY TrackedShrinks
<1>2. CASE phase' = phase
  BY <1>1, <1>2 DEF Drained
<1>3. CASE phase' = "sockets"
  BY <1>3 DEF Drained
<1>4. CASE phase' = "draining" /\ StopAdmission
  BY <1>4 DEF Drained, StopAdmission
<1>5. CASE phase \in {"draining", "history", "qdrant"} /\ Tracked = {}
  BY <1>1, <1>5 DEF Drained
<1> QED
  BY <1>2, <1>3, <1>4, <1>5, PhaseSteps DEF Drained

-----------------------------------------------------------------------------
(* Types                                                                   *)

\* Every step keeps the types of the history.
LEMMA HistoryTypes ==
  ASSUME TypeOK, AppendedOnce, Document, SlotsCount, [Next]_vars
  PROVE  HistoryTypeOK'
<1> USE DEF TypeOK, HistoryTypeOK, Running
<1>1. doc' \in Seq(Message) \cup {NoDocument}
  BY DocumentStep
<1>2. active' \in 0..Capacity
  BY SlotsCountStep
<1>3. ASSUME NEW t \in Turn, Begins(t) \/ Advances(t) \/ Hands(t) \/ Ends(t) \/ AbandonOperation(t)
      PROVE  /\ late' = late /\ appended' = appended /\ store' = store
             /\ result' = result \/ result' = [result EXCEPT ![t] = "none"]
             /\ operation' = operation \/ \E to \in {"none", "read", "append"} :
                                            operation' = [operation EXCEPT ![t] = to]
  BY <1>3 DEF Begins, Advances, Hands, Persist, Submit, Ends, Persisted, EndSession, AbandonOperation,
              Abandon, historyVars, mongoVars
<1>4. ASSUME NEW t \in Turn, HistoryStep(t) \/ LateUpdate(t)
      PROVE  /\ late' = late \/ \E to \in {"none", "upsert", "update"} : late' = [late EXCEPT ![t] = to]
             /\ appended' \in {appended, appended \cup {t}}
             /\ store' \in {store, "open"}
             /\ result' = result \/ \E how \in {"ok", "failed"} : result' = [result EXCEPT ![t] = how]
             /\ operation' = operation \/ \E to \in {"none"} \cup Running :
                                            operation' = [operation EXCEPT ![t] = to]
  <2> USE DEF Answer, Release, mongoVars, Push
  <2>1. CASE BeginOperation(t)
    BY <2>1 DEF BeginOperation
  <2>2. CASE FindOne(t)
    BY <2>2 DEF FindOne
  <2>3. CASE UpdateOne(t)
    BY <2>3 DEF UpdateOne
  <2>4. CASE Insert(t)
    BY <2>4 DEF Insert
  <2>5. CASE UpdateWinner(t)
    BY <2>5 DEF UpdateWinner
  <2>6. CASE OperationFails(t)
    BY <2>6 DEF OperationFails
  <2>7. CASE LateUpdate(t)
    BY <2>7 DEF LateUpdate
  <2> QED
    BY <1>4, <2>1, <2>2, <2>3, <2>4, <2>5, <2>6, <2>7 DEF HistoryStep
<1>5. ASSUME NEW t \in Turn, StoreStep(t)
      PROVE  HistoryTypeOK'
  <2>1. late' \in [Turn -> {"none", "upsert", "update"}]
    BY <1>4, <1>5 DEF StoreStep
  <2>2. appended' \subseteq Turn
    BY <1>4, <1>5 DEF StoreStep
  <2>3. operation' \in [Turn -> {"none", "read", "append"} \cup Running]
    BY <1>4, <1>5 DEF StoreStep
  <2>4. result' \in [Turn -> {"none", "ok", "failed"}]
    BY <1>4, <1>5 DEF StoreStep
  <2>5. store' \in {"fresh", "open", "closed", "gone"}
    BY <1>4, <1>5 DEF StoreStep
  <2> QED
    BY <1>1, <1>2, <2>1, <2>2, <2>3, <2>4, <2>5
<1>6. CASE ClearHistory \/ ShutdownStep
  BY <1>1, <1>2, <1>6 DEF ClearHistory, ShutdownStep, mongoVars
<1> QED
  BY HistoryKinds, <1>1, <1>2, <1>3, <1>5, <1>6

\* Every step keeps the types of the retrievals.
LEMMA RetrievalTypes ==
  ASSUME TypeOK, GateCounts, InStage, [Next]_vars
  PROVE  RetrievalTypeOK'
<1> USE DEF TypeOK, RetrievalTypeOK
<1>1. running' \in Nat /\ waiting' \in Nat /\ leases' \in Nat
  BY GateCountsStep, CountWithin DEF GateCounts
<1>2. ASSUME NEW q \in Turn, RetrievalStep(q)
      PROVE  RetrievalTypeOK'
  <2>1. stage' \in [Query -> {"none", "search"} \cup GateStages \cup Over]
    <3>1. stage' = stage \/ \E to \in GateStages \cup Over \cup {"search"} : stage' = [stage EXCEPT ![q] = to]
      BY <1>2, TurnAssumption, ThreadStage DEF ToStage
    <3> QED
      BY <3>1
  <2>2. /\ gate' = gate \/ \E to \in {"out", "waiting", "in"} : gate' = [gate EXCEPT ![q] = to]
        /\ awake' \in SUBSET Query
        /\ found' \in {found, found \cup {q}}
        /\ leased' \in {leased, leased \cup {q}, leased \ {q}}
        /\ UNCHANGED <<limits, draining, qdrant>>
    <3> USE DEF gateVars, qdrantVars
    <3>1. CASE EnterGate(q)
      BY <3>1 DEF EnterGate
    <3>2. CASE Recheck(q)
      BY <3>2 DEF Recheck
    <3>3. CASE LeaveGate(q)
      BY <3>3 DEF LeaveGate
    <3>4. CASE Lease(q) \/ Search(q)
      BY <3>4 DEF Lease, Search
    <3> QED
      BY <1>2, <3>1, <3>2, <3>3, <3>4 DEF RetrievalStep
  <2>3. gate' \in [Query -> {"out", "waiting", "in"}]
    BY <2>2
  <2> QED
    BY <1>1, <2>1, <2>2, <2>3, TurnAssumption
<1>3. ASSUME NEW q \in Turn, StartRetrieval(q)
      PROVE  RetrievalTypeOK'
  BY <1>3 DEF StartRetrieval, ToStage, GateStages, gateVars, qdrantVars
<1>4. CASE StopAdmission \/ CloseQdrant \/ CloseQdrantClient \/ UNCHANGED retrievalVars
  BY <1>4 DEF StopAdmission, CloseQdrant, CloseQdrantClient, retrievalVars, gateVars, qdrantVars
<1> QED
  BY RetrievalKinds, <1>2, <1>3, <1>4

\* Every step keeps the types of the turns.
LEMMA TurnTypes ==
  ASSUME TypeOK, [Next]_vars
  PROVE  /\ turn' \in [Turn -> Awaiting \cup {"idle", "over", "gone"}]
         /\ scoped' \in BOOLEAN /\ answered' \subseteq Turn
         /\ told' \in [Turn -> {"nothing", "error", "stored", "unconfirmed"}]
<1> DEFINE Goal == /\ turn' \in [Turn -> Awaiting \cup {"idle", "over", "gone"}]
                   /\ scoped' \in BOOLEAN /\ answered' \subseteq Turn
                   /\ told' \in [Turn -> {"nothing", "error", "stored", "unconfirmed"}]
<1> USE DEF TypeOK, Awaiting
<1>1. ASSUME NEW t \in Turn, Begins(t) \/ Advances(t) \/ Hands(t) \/ Ends(t) \/ AbandonOperation(t)
      PROVE  /\ turn' = turn \/ \E to \in Awaiting \cup {"over", "gone"} : turn' = [turn EXCEPT ![t] = to]
             /\ scoped' = scoped
             /\ answered' \in {answered, answered \cup {t}}
             /\ told' = told \/ \E frame \in {"error", "stored", "unconfirmed"} :
                                  told' = [told EXCEPT ![t] = frame]
  BY <1>1 DEF Begins, Advances, Hands, Persist, Ends, Persisted, EndSession, AbandonOperation, Tell, Go, turnVars
<1>2. ASSUME NEW t \in Turn, Begins(t) \/ Advances(t) \/ Hands(t) \/ Ends(t) \/ AbandonOperation(t)
      PROVE  Goal
  BY <1>1, <1>2
<1>3. ASSUME UNCHANGED <<turn, scoped, answered, told>>
      PROVE  Goal
  BY <1>3
<1> QED
  BY HistoryKinds, <1>2, <1>3 DEF StoreStep, ShutdownStep, turnVars

\* Every step keeps the types.
LEMMA TypeStep ==
  ASSUME CInv, [Next]_vars
  PROVE  TypeOK'
<1>1. phase' \in Phases
  BY PhaseSteps DEF CInv, TypeOK, Phases
<1> QED
  BY <1>1, HistoryTypes, RetrievalTypes, TurnTypes DEF CInv, TypeOK

-----------------------------------------------------------------------------
(* The theorems                                                            *)

\* Every step keeps the invariant.
LEMMA NextCInv == CInv /\ [Next]_vars => CInv'
<1> SUFFICES ASSUME CInv, [Next]_vars
             PROVE  CInv'
  OBVIOUS
<1>1. TypeOK'
  BY TypeStep
<1>2. AppendedOnce' /\ ToldIsFinal'
  BY AppendedOnceStep, ToldIsFinalStep DEF CInv
<1>3. Document' /\ SlotsCount'
  BY DocumentStep, SlotsCountStep DEF CInv
<1>4. GateCounts' /\ InStage' /\ Drained'
  BY GateCountsStep, InStageStep, DrainedStep DEF CInv
<1> QED
  BY <1>1, <1>2, <1>3, <1>4 DEF CInv

\* CInv is an invariant of a conversation's turns.
THEOREM Invariance == Spec => []CInv
<1> QED
  BY InitCInv, NextCInv, PTL DEF Spec

\* The state keeps its type: the count of running operations never leaves
\* 0..Capacity, so no slot of the store is given back twice (_operation).
THEOREM Types == Spec => []TypeOK
<1>1. CInv => TypeOK
  BY DEF CInv
<1> QED
  BY <1>1, Invariance, PTL

\* However appends, rejected inserts, requests carried out late and clearing
\* interleave, the conversation is whole exchanges, each once, and no longer
\* than it may be (_append, append_exchange).
THEOREM Exchanges == Spec => []WholeExchanges
<1>1. CInv => WholeExchanges
  BY DEF CInv, Document, Whole, WholeExchanges
<1> QED
  BY <1>1, Invariance, PTL

\* What the client was told of its exchange is true, and stays true, also of
\* threads whose turn was given up (_persist_exchange, _stream_answer).
THEOREM Told == Spec => []ToldIsTrue
<1>1. CInv => ToldIsTrue
  BY DEF CInv, AppendedOnce, ToldIsFinal, ToldIsTrue, TypeOK, HistoryTypeOK
<1> QED
  BY <1>1, Invariance, PTL

\* Both gates keep their limits with any number of threads and lose no slot, and
\* no waiter that was not notified sleeps while there is room
\* (MongoHistoryStore._operation, ModelInferenceGate.inference).
THEOREM Gate == Spec => []GateKept
<1>1. ASSUME CInv PROVE GateKept
  <2>1. active = Cardinality({t \in Turn : operation[t] \in Running})
    BY <1>1 DEF CInv, SlotsCount, Operations
  <2>2. active <= Capacity
    BY <1>1, HistoryAssumption DEF CInv, TypeOK, HistoryTypeOK
  <2> QED
    BY <1>1, <2>1, <2>2, TurnAssumption DEF CInv, GateCounts, Inside, Sleepers, GateKept
<1> QED
  BY <1>1, Invariance, PTL

\* The safety part of an orderly shutdown: behind the history store no
\* retrieval is running or starts, and the Qdrant client goes when nobody
\* holds it (lifespan, DrainableTasks, QdrantStore.close).
THEOREM ClosedBehindRetrievals ==
  Spec => [](phase \in {"history", "qdrant", "down"} => Tracked = {} /\ leased = {})
<1>1. CInv => (phase \in {"history", "qdrant", "down"} => Tracked = {} /\ leased = {})
  <2>1. ASSUME InStage, TypeOK
        PROVE  leased \subseteq Tracked
    BY <2>1 DEF InStage, Tracked, Over, TypeOK, RetrievalTypeOK
  <2> QED
    BY <2>1 DEF CInv, Drained
<1> QED
  BY <1>1, Invariance, PTL
=============================================================================
