---------------------------- MODULE ChatHistory ----------------------------
(***************************************************************************)
(* The chat history store (services/chat/mongo_history.py) and the MongoDB *)
(* document of one conversation.  A turn reads the history once and appends*)
(* its exchange once; each of the two runs in a thread of its own, which   *)
(* goes on when the turn that started it is cancelled.                     *)
(*                                                                         *)
(* MongoDB is external: an update of one document is atomic, an upsert that*)
(* finds no document inserts one in a second step, and a request that      *)
(* failed for the client may still be carried out.                         *)
(***************************************************************************)
EXTENDS Naturals, Sequences

CONSTANTS
  Turn,         \* turns of the conversation, of any number of sockets
  Earlier,      \* exchanges the conversation may have from before
  MaxMessages,  \* messages kept: settings.max_messages
  Capacity,     \* 2 * max_pool_size
  NoDocument

\* One message of the document: whose it is, and its role.
Message == (Turn \cup Earlier) \X {"user", "assistant"}

ASSUME HistoryAssumption ==
  /\ Turn \cap Earlier = {}
  /\ MaxMessages \in Nat \ {0}
  /\ MaxMessages % 2 = 0     \* _limit(pair=True)
  /\ Capacity \in Nat \ {0}
  /\ NoDocument \notin Seq(Message)

VARIABLES
  doc,        \* the messages of the conversation's document
  late,       \* requests given up by the client that MongoDB may still carry out
  appended,   \* turns whose exchange was ever appended
  operation,  \* the store operation of each turn
  result,     \* how its last operation ended
  active,     \* _active
  store       \* the store: "fresh" until _initialize succeeds, then "open";
              \* "closed" refuses operations, "gone" has closed its client

mongoVars   == <<doc, late, appended>>
historyVars == <<mongoVars, operation, result, active, store>>

Running == {"reading", "appending", "inserting", "rejected"}

HistoryTypeOK ==
  /\ doc \in Seq(Message) \cup {NoDocument}
  /\ late \in [Turn -> {"none", "upsert", "update"}]
  /\ appended \subseteq Turn
  /\ operation \in [Turn -> {"none", "read", "append"} \cup Running]
  /\ result \in [Turn -> {"none", "ok", "failed"}]
  /\ active \in 0..Capacity
  /\ store \in {"fresh", "open", "closed", "gone"}

Exchange(t) == << <<t, "user">>, <<t, "assistant">> >>

\* The process may find a conversation that was begun before it.
HistoryInit ==
  /\ doc \in {NoDocument} \cup {Exchange(e) : e \in Earlier}
  /\ late = [t \in Turn |-> "none"]
  /\ appended = {}
  /\ operation = [t \in Turn |-> "none"]
  /\ result = [t \in Turn |-> "none"]
  /\ active = 0
  /\ store = "fresh"

Submit(t, what) ==
  /\ operation' = [operation EXCEPT ![t] = what]
  /\ result' = [result EXCEPT ![t] = "none"]
  /\ UNCHANGED <<mongoVars, active, store>>

\* The thread ends with an answer, or an exception, for the turn.
Answer(t, how) ==
  /\ operation' = [operation EXCEPT ![t] = "none"]
  /\ result' = [result EXCEPT ![t] = how]

\* _operation gives its slot back however the operation ended.
Release(t, how) == Answer(t, how) /\ active' = active - 1 /\ UNCHANGED store

\* Why an operation never starts: append_exchange refuses content over its
\* budget; _operation refuses when closed or at capacity, and the first one
\* creates the client and its unique index, which can fail.
Refusable(t) ==
  operation[t] = "append" \/ store # "open" \/ active >= Capacity

\* (Mutant first: a refused operation gives back a slot it never took.)
BeginOperationAlwaysReleasing(t) ==
  /\ operation[t] \in {"read", "append"}
  /\ \/ /\ Refusable(t)
        /\ Release(t, "failed")
     \/ /\ store \in {"fresh", "open"} /\ active < Capacity
        /\ store' = "open"
        /\ active' = active + 1
        /\ operation' = [operation EXCEPT ![t] = IF @ = "read" THEN "reading" ELSE "appending"]
        /\ UNCHANGED result
  /\ UNCHANGED mongoVars

BeginOperation(t) ==
  /\ operation[t] \in {"read", "append"}
  /\ \/ /\ Refusable(t)
        /\ Answer(t, "failed")
        /\ UNCHANGED <<active, store>>
     \/ /\ store \in {"fresh", "open"} /\ active < Capacity
        /\ store' = "open"
        /\ active' = active + 1
        /\ operation' = [operation EXCEPT ![t] = IF @ = "read" THEN "reading" ELSE "appending"]
        /\ UNCHANGED result
  /\ UNCHANGED mongoVars

\* get_history; _messages refuses a document of another shape.
FindOne(t) ==
  /\ operation[t] = "reading"
  /\ Release(t, "ok")
  /\ UNCHANGED mongoVars

Slice(messages, n) ==
  SubSeq(messages, IF Len(messages) > n THEN Len(messages) - n + 1 ELSE 1, Len(messages))

\* $push of both messages, sliced to the newest ones.
Push(t) ==
  /\ doc' = Slice((IF doc = NoDocument THEN << >> ELSE doc) \o Exchange(t), MaxMessages)
  /\ appended' = appended \cup {t}

\* update_one(upsert=True).  The acknowledgement may be lost.
\* (Mutant first: without it the update is sent again.)
UpdateOneAgain(t) ==
  /\ operation[t] = "appending"
  /\ \/ /\ doc # NoDocument
        /\ Push(t)
        /\ Release(t, "ok") \/ UNCHANGED <<operation, result, active, store>>
     \/ /\ doc = NoDocument
        /\ operation' = [operation EXCEPT ![t] = "inserting"]
        /\ UNCHANGED <<doc, appended, result, active, store>>
  /\ UNCHANGED late

UpdateOne(t) ==
  /\ operation[t] = "appending"
  /\ \/ /\ doc # NoDocument
        /\ Push(t)
        /\ \E how \in {"ok", "failed"} : Release(t, how)
     \/ /\ doc = NoDocument
        /\ operation' = [operation EXCEPT ![t] = "inserting"]
        /\ UNCHANGED <<doc, appended, result, active, store>>
  /\ UNCHANGED late

\* The insert of an upsert, rejected by the unique index if another one won.
Insert(t) ==
  /\ operation[t] = "inserting"
  /\ \/ /\ doc = NoDocument
        /\ Push(t)
        /\ \E how \in {"ok", "failed"} : Release(t, how)
     \/ /\ doc # NoDocument
        /\ operation' = [operation EXCEPT ![t] = "rejected"]
        /\ UNCHANGED <<doc, appended, result, active, store>>
  /\ UNCHANGED late

\* After DuplicateKeyError: one attempt without upsert, which must match.
\* (Mutant first: matched_count is not looked at.)
UpdateWinnerBlindly(t) ==
  /\ operation[t] = "rejected"
  /\ IF doc # NoDocument THEN Push(t) ELSE UNCHANGED <<doc, appended>>
  /\ \E how \in {"ok", "failed"} : Release(t, how)
  /\ UNCHANGED late

UpdateWinner(t) ==
  /\ operation[t] = "rejected"
  /\ \/ /\ doc # NoDocument
        /\ Push(t)
        /\ \E how \in {"ok", "failed"} : Release(t, how)
     \/ /\ doc = NoDocument
        /\ Release(t, "failed")
        /\ UNCHANGED <<doc, appended>>
  /\ UNCHANGED late

\* A PyMongoError: the request was not carried out, or not yet.
OperationFails(t) ==
  /\ operation[t] \in Running
  /\ Release(t, "failed")
  /\ \/ UNCHANGED late
     \/ operation[t] \in {"appending", "inserting"} /\ late' = [late EXCEPT ![t] = "upsert"]
     \/ operation[t] = "rejected" /\ late' = [late EXCEPT ![t] = "update"]
  /\ UNCHANGED <<doc, appended>>

LateUpdate(t) ==
  /\ late[t] # "none"
  /\ late' = [late EXCEPT ![t] = "none"]
  /\ IF late[t] = "update" /\ doc = NoDocument THEN UNCHANGED <<doc, appended>> ELSE Push(t)
  /\ UNCHANGED <<operation, result, active, store>>

\* clear_history, by another user of the store: the API has no caller of it.
ClearHistory ==
  /\ doc # NoDocument
  /\ doc' = NoDocument
  /\ UNCHANGED <<late, appended, operation, result, active, store>>

\* close refuses new operations, waits for the running ones, for a bounded
\* time, and closes the client.
CloseStore ==
  /\ store \in {"fresh", "open"}
  /\ store' = "closed"
  /\ UNCHANGED <<mongoVars, operation, result, active>>

CloseClient ==
  /\ store = "closed"
  /\ store' = "gone"
  /\ UNCHANGED <<mongoVars, operation, result, active>>

\* The turn stopped waiting: a thread that has not begun is cancelled, unless
\* it begins first.
Abandon(t) ==
  /\ operation[t] \in {"read", "append"}
  /\ operation' = [operation EXCEPT ![t] = "none"]
  /\ UNCHANGED <<mongoVars, result, active, store>>

HistoryStep(t) ==
  \/ BeginOperation(t) \/ FindOne(t) \/ UpdateOne(t) \/ Insert(t) \/ UpdateWinner(t)
  \/ OperationFails(t)
=============================================================================
