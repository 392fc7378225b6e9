----------------------------- MODULE LocalAgent -----------------------------
(***************************************************************************)
(* The companion agent (local_agent/agent.py): one coroutine that connects,*)
(* receives commands and runs them one at a time, each in a thread that    *)
(* checks it, asks the user (local_approval.py), acts or runs a shell      *)
(* command (ShellRunner) and keeps an audit file (execution_audit.py).     *)
(*                                                                         *)
(* Shell commands are run_command; every other command has one effect on   *)
(* the PC.  The user, the server, the network and the end of the agent's   *)
(* process are the environment.                                            *)
(***************************************************************************)
EXTENDS ShellRunner, Sequences

CONSTANTS
  Shell,      \* the commands whose action is run_command
  None

ASSUME AgentAssumption ==
  /\ Shell \subseteq Command
  /\ None \notin Command

VARIABLES
  agent,      \* where the coroutine run is
  socket,     \* its connection to the server
  inbox,      \* commands received and not yet taken
  current,    \* the command being run
  thread,     \* where handle_command of each command is
  approved,   \* commands the user approved at their prompt
  effect,     \* commands that read or did something on the PC, but for the look-up
              \* of a program and the web search that open_app makes for its prompt
  audit,      \* records in shell_exec_audit.log
  recorded,   \* audit_recorded of the result
  reported    \* commands whose details the server was sent

agentVars  == <<agent, socket, inbox, current>>
threadVars == <<thread, approved, effect, audit, recorded>>
outsideVars == <<approved, effect, audit, recorded, reported>>  \* what outlives a connection
vars == <<shellVars, agentVars, threadVars, reported>>

\* What the records of shell_exec_audit.log say: the approval, which is written
\* while nothing has started, and the one that ends an execution.
ApprovedRecord == [outcome |-> "approved_for_execution", effect |-> "not_started"]
UnknownRecord  == [outcome |-> "execution_status_unknown", effect |-> "unknown", cleanup |-> FALSE]
FinishedRecord(c) ==
  [outcome |-> outcome[c], effect |-> IF started[c] THEN "not_verified" ELSE "not_started",
   cleanup |-> cleanup[c]]

EndRecord ==
  [outcome : {"none", "exited", "timed_out", "cancelled", "output_limit", "execution_status_unknown"} \cup Failure,
   effect : {"not_started", "not_verified", "unknown"}, cleanup : BOOLEAN]

EndRecords(c) == audit[c] \ {ApprovedRecord}

Busy  == {"checking", "searching", "asking", "cleared", "shell"}
Ended == {"done", "failed"}

TypeOK ==
  /\ ShellTypeOK
  /\ agent \in {"stopped", "connecting", "backoff", "idle", "running", "joining", "replying", "stopping"}
  /\ socket \in {"none", "open", "closed"}
  /\ inbox \in Seq(Command)
  /\ current \in Command \cup {None}
  /\ thread \in [Command -> {"new", "queued", "dropped"} \cup Busy \cup Ended]
  /\ approved \subseteq Command
  /\ effect \subseteq Command
  /\ audit \in [Command -> SUBSET ({ApprovedRecord} \cup EndRecord)]
  /\ recorded \in [Command -> BOOLEAN]
  /\ reported \subseteq Command
  /\ agent \in {"running", "joining", "replying", "stopping"} <=> current # None

Init ==
  /\ ShellInit
  /\ agent = "connecting"
  /\ socket = "none"
  /\ inbox = << >>
  /\ current = None
  /\ thread = [c \in Command |-> "new"]
  /\ approved = {}
  /\ effect = {}
  /\ audit = [c \in Command |-> {}]
  /\ recorded = [c \in Command |-> FALSE]
  /\ reported = {}

Move(c, to) == thread' = [thread EXCEPT ![c] = to]

\* _execution_allowed: the event is not set and the deadline not reached.
ExecutionAllowed(c) == c \notin cancelled /\ clock[c] # "expired"

----------------------------------------------------------------------------
(* handle_command, in its thread.                                          *)

\* validate_action and the capability's switch: an exception, no effect.
Refuse(c) == Move(c, "failed")

\* open_app looks its target up (needs_web_search) and searches the web when it
\* is not found or a search was asked for; every other action is asked for.
AfterCheck(c) == IF c \in Shell THEN {"asking"} ELSE {"asking", "searching"}

\* The handler up to its prompt.
Check(c) ==
  /\ thread[c] = "checking"
  /\ \/ Refuse(c)
     \/ ExecutionAllowed(c) /\ \E to \in AfterCheck(c) : Move(c, to)
  /\ UNCHANGED <<shellVars, agentVars, approved, effect, audit, recorded, reported>>

\* search_web, then the checks of _require again before the prompt.
SearchWeb(c) ==
  /\ thread[c] = "searching"
  /\ \/ Refuse(c)
     \/ ExecutionAllowed(c) /\ Move(c, "asking")
  /\ UNCHANGED <<shellVars, agentVars, approved, effect, audit, recorded, reported>>

\* approve_locally: the user types APPROVE while the prompt is open, and the
\* checks are made again.
Approve(c) ==
  /\ thread[c] = "asking"
  /\ approved' = approved \cup {c}
  /\ Move(c, IF ExecutionAllowed(c) THEN "cleared" ELSE "failed")
  /\ UNCHANGED <<shellVars, agentVars, effect, audit, recorded, reported>>

\* The user denies, there is no terminal, or the loop sees that the command
\* was cancelled or expired.
Deny(c) ==
  /\ thread[c] = "asking"
  /\ Move(c, "failed")
  /\ UNCHANGED <<shellVars, agentVars, approved, effect, audit, recorded, reported>>

\* (Mutant first: reading the terminal blocks.)
LeavePromptBlocked(c) == FALSE /\ Deny(c)

LeavePrompt(c) == ~ExecutionAllowed(c) /\ Deny(c)

\* resolve_and_launch: the first of its lookups that finds something launches
\* it; otherwise it raises, and so does an alias that cannot be launched.
Launch(c) ==
  \/ Refuse(c) /\ UNCHANGED effect
  \/ Move(c, "done") /\ effect' = effect \cup {c}

\* The other handlers may fail before they reach the PC or in the middle.
Reach(c) == effect' = effect \cup {c} /\ \E end \in Ended : Move(c, end)

\* Windows and files: a path outside the allowed folders and a window that is
\* not there reach nothing.
UseWindowOrFile(c) == Reach(c) \/ (Refuse(c) /\ UNCHANGED effect)

\* Mouse and keyboard: pyautogui may be missing.
UseInput(c) == Reach(c) \/ (Refuse(c) /\ UNCHANGED effect)

\* Every action but run_command.
Act(c) ==
  /\ c \notin Shell
  /\ thread[c] = "cleared"
  /\ Launch(c) \/ UseWindowOrFile(c) \/ UseInput(c)
  /\ UNCHANGED <<shellVars, agentVars, approved, audit, recorded, reported>>

\* run_command: the attempt is recorded durably before anything is created.
\* (Mutant first: a record that cannot be written is let go.)
AuditApprovedIfPossible(c) ==
  /\ c \in Shell
  /\ thread[c] = "cleared"
  /\ \/ audit' = [audit EXCEPT ![c] = @ \cup {ApprovedRecord}]
     \/ UNCHANGED audit
  /\ Move(c, "shell")
  /\ UNCHANGED <<shellVars, agentVars, approved, effect, recorded, reported>>

AuditApproved(c) ==
  /\ c \in Shell
  /\ thread[c] = "cleared"
  /\ \/ Move(c, "failed") /\ UNCHANGED audit
     \/ Move(c, "shell") /\ audit' = [audit EXCEPT ![c] = @ \cup {ApprovedRecord}]
  /\ UNCHANGED <<shellVars, agentVars, approved, effect, recorded, reported>>

\* run_shell is entered, runs and comes back.  Resuming the thread of the
\* created process is the effect.
RunShell(c) ==
  /\ thread[c] = "shell"
  /\ \/ EnterShell(c) /\ UNCHANGED effect
     \/ /\ ShellStep(c)
        /\ effect' = IF proc'[c][Root] = "running" THEN effect \cup {c} ELSE effect
  /\ UNCHANGED <<agentVars, thread, approved, audit, recorded, reported>>

\* The terminal record.  An exception of run_shell is recorded as unknown and
\* goes on; a lost record of a result is reported with it.
AuditFinished(c) ==
  /\ thread[c] = "shell" /\ shell[c] = "returned"
  /\ \/ /\ outcome[c] = "raised"
        /\ Move(c, "failed")
        /\ UNCHANGED recorded
        /\ audit' \in {audit, [audit EXCEPT ![c] = @ \cup {UnknownRecord}]}
     \/ /\ outcome[c] # "raised"
        /\ Move(c, "done")
        /\ \/ UNCHANGED <<audit, recorded>>
           \/ /\ audit' = [audit EXCEPT ![c] = @ \cup {FinishedRecord(c)}]
              /\ recorded' = [recorded EXCEPT ![c] = TRUE]
  /\ UNCHANGED <<shellVars, agentVars, approved, effect, reported>>

ThreadStep(c) ==
  \/ Check(c) \/ SearchWeb(c) \/ LeavePrompt(c) \/ Act(c)
  \/ AuditApproved(c) \/ RunShell(c) \/ AuditFinished(c)

----------------------------------------------------------------------------
(* The coroutine run.                                                      *)

\* Credentials are loaded anew.  A missing file or a refused connection is
\* retried later; an unusable credential ends the program.
Connect ==
  /\ agent = "connecting"
  /\ \/ agent' = "idle" /\ socket' = "open"
     \/ agent' = "backoff" /\ UNCHANGED socket
     \/ agent' = "stopped" /\ UNCHANGED socket
  /\ inbox' = << >>
  /\ UNCHANGED <<shellVars, threadVars, current, reported>>

Backoff ==
  /\ agent = "backoff"
  /\ agent' = "connecting"
  /\ UNCHANGED <<shellVars, threadVars, socket, inbox, current, reported>>

\* Leaving the connection drops what was received and not taken, and the
\* event and deadline of the command that was running.
\* (Mutant first: the command stays the current one.)
Forget == cancelled' = {} /\ clock' = [c \in Command |-> "early"]

Dropped(to) == IF to = "queued" THEN "dropped" ELSE to

LeaveKeepingCommand(to) ==
  /\ agent' = to /\ socket' = "none" /\ inbox' = << >> /\ UNCHANGED current
  /\ thread' = [c \in Command |-> Dropped(thread[c])]
  /\ Forget

Leave(to) ==
  /\ agent' = to /\ socket' = "none" /\ inbox' = << >> /\ current' = None
  /\ thread' = [c \in Command |-> Dropped(thread[c])]
  /\ Forget

\* The next command, even if the connection has closed behind it.  A message
\* that is no JSON ends the program, a command without a request id the
\* connection; one without expiry is answered with an error.
Take(c) ==
  /\ agent = "idle"
  /\ inbox # << >> /\ c = Head(inbox)
  /\ \/ /\ agent' = "running" /\ current' = c /\ inbox' = Tail(inbox)
        /\ Move(c, "checking")
        /\ UNCHANGED <<socket, cancelled, clock>>
     \/ /\ agent' = "replying" /\ current' = c /\ inbox' = Tail(inbox)
        /\ Move(c, "failed")
        /\ UNCHANGED <<socket, cancelled, clock>>
     \/ Leave("connecting")
     \/ Leave("stopped")
  /\ UNCHANGED <<shell, procVars, watchVars, resultVars, outsideVars>>

\* The connection ended and nothing is left to take: a clean close is
\* reconnected at once, any other after a pause.
Closed ==
  /\ agent = "idle" /\ socket = "closed" /\ inbox = << >>
  /\ Leave("connecting") \/ Leave("backoff")
  /\ UNCHANGED <<shell, procVars, watchVars, resultVars, outsideVars>>

\* _run_with_disconnect sees the connection close: the thread is told and
\* waited for.
\* (Mutant first: told, but not waited for.)
DisconnectAbandoning ==
  /\ agent = "running" /\ socket = "closed"
  /\ Leave("connecting")
  /\ UNCHANGED <<shell, procVars, watchVars, resultVars, outsideVars>>

Disconnect ==
  /\ agent = "running" /\ socket = "closed"
  /\ cancelled' = cancelled \cup {current}
  /\ agent' = "joining"
  /\ UNCHANGED <<clock, shell, procVars, watchVars, resultVars, threadVars, socket, inbox, current, reported>>

Join ==
  /\ agent = "joining"
  /\ thread[current] \in Ended
  /\ Leave("connecting")
  /\ UNCHANGED <<shell, procVars, watchVars, resultVars, outsideVars>>

\* The thread ended first; its event is set in any case.
Return ==
  /\ agent = "running"
  /\ thread[current] \in Ended
  /\ agent' = "replying"
  /\ cancelled' = cancelled \cup {current}
  /\ UNCHANGED <<clock, shell, procVars, watchVars, resultVars, threadVars, socket, inbox, current, reported>>

\* The details or the error are sent.  Details that are too large become an
\* error; on a closed connection neither can be sent.
SendReply ==
  /\ agent = "replying"
  /\ \/ /\ socket = "open"
        /\ agent' = "idle" /\ current' = None
        /\ Forget
        /\ \/ thread[current] = "done" /\ reported' = reported \cup {current}
           \/ UNCHANGED reported
        /\ UNCHANGED <<socket, inbox, thread>>
     \/ /\ socket = "closed"
        /\ Leave("backoff")
        /\ UNCHANGED reported
  /\ UNCHANGED <<shell, procVars, watchVars, resultVars, approved, effect, audit, recorded>>

\* Ctrl-C: the coroutine is cancelled and still waits for its thread.
Interrupt ==
  /\ agent \notin {"stopped", "stopping"}
  /\ \/ /\ agent \in {"running", "joining"}
        /\ cancelled' = cancelled \cup {current}
        /\ agent' = "stopping"
        /\ UNCHANGED <<clock, socket, inbox, current, thread>>
     \/ /\ agent \notin {"running", "joining"}
        /\ Leave("stopped")
  /\ UNCHANGED <<shell, procVars, watchVars, resultVars, outsideVars>>

Exit ==
  /\ agent = "stopping"
  /\ thread[current] \in Ended
  /\ Leave("stopped")
  /\ UNCHANGED <<shell, procVars, watchVars, resultVars, outsideVars>>

\* The process dies: its threads end, results not sent are lost and Windows
\* closes its handles.
Crash ==
  /\ agent # "stopped"
  /\ agent' = "stopped" /\ socket' = "none" /\ inbox' = << >> /\ current' = None
  /\ thread' = [c \in Command |-> IF thread[c] \in Busy THEN "failed" ELSE Dropped(thread[c])]
  /\ Forget
  /\ shell' = [c \in Command |-> IF shell[c] \in InCall THEN "off" ELSE shell[c]]
  /\ proc' = [c \in Command |-> [p \in Proc |-> IF p \in Active(c) THEN "dying" ELSE proc[c][p]]]
  /\ pipe' = [c \in Command |-> 0]
  /\ observed' = [c \in Command |-> 0]
  /\ members' = [c \in Command |-> IF thread[c] = "shell" THEN {} ELSE members[c]]
  /\ listed' = [c \in Command |-> {}]
  /\ inspected' = [c \in Command |-> FALSE]
  /\ outcome' = [c \in Command |-> IF thread[c] = "shell" THEN "none" ELSE outcome[c]]
  /\ started' = [c \in Command |-> started[c] /\ thread[c] # "shell"]
  /\ cleanup' = [c \in Command |-> cleanup[c] \/ thread[c] = "shell"]
  /\ returncode' = [c \in Command |-> IF thread[c] = "shell" THEN "none" ELSE returncode[c]]
  /\ UNCHANGED outsideVars

Restart ==
  /\ agent = "stopped"
  /\ agent' = "connecting"
  /\ UNCHANGED <<shellVars, threadVars, socket, inbox, current, reported>>

\* The server sends a command, the connection closes.
Deliver(c) ==
  /\ socket = "open" /\ thread[c] = "new"
  /\ inbox' = Append(inbox, c)
  /\ Move(c, "queued")
  /\ UNCHANGED <<shellVars, agent, socket, current, approved, effect, audit, recorded, reported>>

CloseSocket ==
  /\ socket = "open"
  /\ socket' = "closed"
  /\ UNCHANGED <<shellVars, threadVars, agent, inbox, current, reported>>

----------------------------------------------------------------------------
Windows(c) ==
  /\ Spawn(c) \/ WriteOutput(c) \/ ExitProcess(c) \/ Die(c) \/ TimeUp(c)
  /\ UNCHANGED <<agentVars, threadVars, reported>>

Deadline(c) ==
  /\ thread[c] \in Busy
  /\ Expire(c)
  /\ UNCHANGED <<agentVars, threadVars, reported>>

AgentStep ==
  \/ Connect \/ Backoff \/ Closed \/ Disconnect \/ Join \/ Return \/ SendReply \/ Exit
  \/ \E c \in Command : Take(c)

Next ==
  \/ AgentStep \/ Interrupt \/ Crash \/ Restart \/ CloseSocket
  \/ \E c \in Command : ThreadStep(c) \/ Approve(c) \/ Deny(c) \/ Deliver(c) \/ Windows(c) \/ Deadline(c)

Spec == Init /\ [][Next]_vars

(* The coroutine and its thread go on and time passes while a command runs.*)
(* Nothing is assumed of the user, the server, Windows or the command.     *)
Fairness ==
  /\ WF_vars(AgentStep)
  /\ WF_vars(\E c \in Command : ThreadStep(c))
  /\ WF_vars(\E c \in Command : Deadline(c))

FairSpec == Spec /\ Fairness

----------------------------------------------------------------------------
(* Properties                                                              *)

\* A command that read or did something on the PC (see effect) was approved by
\* the user, and a shell command that ran has its approval in the audit file,
\* whatever was cancelled, lost or restarted since (agent.py _require, run_command).
ApprovedBeforeEffect ==
  \A c \in Command :
    c \in effect => c \in approved /\ (c \in Shell => ApprovedRecord \in audit[c])

\* A process of a command lives only while run_shell of that command is being
\* executed: neither a normal exit, a timeout, a failed cleanup, a disconnect
\* nor the end of the agent leaves one behind (shell_runner.py run_shell).
NothingOutlivesRun ==
  \A c \in Command :
    Active(c) # {} => thread[c] = "shell" /\ shell[c] \in InCall

\* An agent that looks for its next command or reconnects has no command left
\* in a thread: commands never overlap, not even across connections
\* (agent.py _run_with_disconnect).
OneAtATime ==
  \A c \in Command :
    thread[c] \in Busy => current = c /\ agent \in {"running", "joining", "stopping"}

\* What LocalPCTool.execute counts as a successful run_command.
ToolSuccess(c) ==
  /\ c \in reported
  /\ outcome[c] = "exited" /\ returncode[c] = "zero"
  /\ cleanup[c] /\ recorded[c]

\* What confirmed cleanup says of a command: nothing of its job runs, and the
\* created process and all that were members when the job was enumerated have
\* ended.  One that started between the enumeration and TerminateJobObject has
\* been terminated too, but was not waited for.
CleanedUp(c) ==
  /\ Active(c) = {}
  /\ proc[c][Root] \in {"none", "gone"}
  /\ \A p \in members[c] : proc[c][p] = "gone"

\* What is reported of a shell command is so.  A result that did not start, or
\* an end record in the audit file with effect "not_started", means that nothing
\* of it ever ran (the approval's own "not_started" speaks of the moment it was
\* written, when ApprovedBeforeEffect wants it to be there).  Confirmed cleanup,
\* in either, means CleanedUp.  Success means that it ran, ended, that its whole
\* output was read and that the audit file has its outcome (shell_runner.py
\* ShellResult and _terminate_and_confirm, execution_audit.py).
ReportsAreTrue ==
  \A c \in Shell :
    /\ \A r \in EndRecords(c) :
         (r.effect = "not_started" => c \notin effect) /\ (r.cleanup => CleanedUp(c))
    /\ thread[c] = "done" => (started[c] <=> c \in effect) /\ (cleanup[c] => CleanedUp(c))
    /\ (shell[c] = "closing" /\ outcome[c] = "exited" /\ cleanup[c]) => pipe[c] = 0
    /\ ToolSuccess(c) =>
         c \in effect /\ \E r \in EndRecords(c) : r.outcome = "exited" /\ r.effect = "not_verified"

\* A command ends although its user never answers, its processes never exit or
\* the server is gone, and a closed connection is left for a new one.
CommandsEnd ==
  /\ current # None ~> current = None
  /\ socket = "closed" ~> socket # "closed"
=============================================================================
