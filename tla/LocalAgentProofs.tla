-------------------------- MODULE LocalAgentProofs --------------------------
(***************************************************************************)
(* Theorems about LocalAgent, for any commands, processes and sizes.       *)
(* LInv is the story of one command told in order: waiting once in the     *)
(* inbox, untouched up to run_shell, asked for, then a ShellResult whose   *)
(* fields are what the processes, the effect and the audit file say.  Its  *)
(* parts concern one command each, so a step has to be looked at only for  *)
(* the command it is about; OneAtATime keeps the coroutine from touching a *)
(* command that its thread still works on.                                 *)
(***************************************************************************)
EXTENDS LocalAgent, TLAPS

\* Where a command is before anything was done for it.
Before == {"new", "queued", "dropped", "checking", "searching", "asking", "cleared"}

\* What was received and not taken is waiting, once.
Received ==
  /\ \A i \in 1..Len(inbox) : thread[inbox[i]] = "queued"
  /\ \A i, j \in 1..Len(inbox) : inbox[i] = inbox[j] => i = j

\* Until run_shell is entered there is no trace of a command.
Untouched ==
  \A c \in Command : thread[c] \in Before =>
    /\ shell[c] = "off"
    /\ \A p \in Proc : proc[c][p] = "none"
    /\ outcome[c] = "none" /\ ~started[c] /\ cleanup[c]
    /\ members[c] = {}
    /\ audit[c] = {} /\ ~recorded[c]
    /\ c \notin effect

\* A command gets past its prompt by approval alone, and into run_shell after
\* the record of it.
Asked ==
  \A c \in Command :
    /\ thread[c] \in {"cleared", "shell"} => c \in approved
    /\ thread[c] = "shell" => c \in Shell /\ ApprovedRecord \in audit[c]

\* ShellResult.started is the effect, and only what started runs.
StartedIsEffect ==
  \A c \in Command :
    /\ thread[c] = "shell" => (c \in effect <=> started[c])
    /\ (c \in Shell /\ thread[c] = "done") => (c \in effect <=> started[c])
    /\ \A p \in Proc : proc[c][p] = "running" => started[c]

\* While cleanup_confirmed stands nothing of the command runs, what was found in
\* its job has ended, and its whole output was read.  It is confirmed by handles
\* of all that was found, or not at all.
CleanupOf(c) ==
  /\ cleanup[c] => Active(c) = {}
  /\ shell[c] \in {"created", "poll", "inspect", "terminate", "confirm"} => ~cleanup[c]
  /\ inspected[c] => members[c] \subseteq listed[c]
  /\ (thread[c] \in {"shell", "done"} /\ cleanup[c]) => CleanedUp(c)
  /\ (shell[c] = "closing" /\ outcome[c] = "exited" /\ cleanup[c]) => pipe[c] = 0

CleanupIsTrue == \A c \in Command : CleanupOf(c)

\* An exit code is that of a process that ran.  The audit file has the result
\* of an execution, or its end as unknown.
RecordIsTrue ==
  \A c \in Command :
    /\ thread[c] = "shell" => ~recorded[c]
    /\ (thread[c] = "shell" /\ shell[c] = "poll") => started[c]
    /\ (thread[c] \in {"shell", "done"} /\ outcome[c] = "exited") => started[c]
    /\ \A r \in EndRecords(c) : r = UnknownRecord \/ (thread[c] = "done" /\ r = FinishedRecord(c))
    /\ recorded[c] => thread[c] = "done" /\ FinishedRecord(c) \in audit[c]
    /\ c \in reported => thread[c] = "done"

LInv ==
  /\ TypeOK
  /\ OneAtATime
  /\ NothingOutlivesRun
  /\ Received
  /\ Untouched
  /\ Asked
  /\ ApprovedBeforeEffect
  /\ StartedIsEffect
  /\ CleanupIsTrue
  /\ RecordIsTrue

-----------------------------------------------------------------------------
(* The steps, by what they do to commands.                                 *)

\* The coroutine, the user's Ctrl-C, the network and the clocks: queued
\* commands may be dropped, and what is done reported.
Quiet ==
  /\ UNCHANGED <<shell, procVars, watchVars, resultVars, approved, effect, audit, recorded>>
  /\ \A c \in Command : thread'[c] = thread[c] \/ (thread[c] = "queued" /\ thread'[c] = "dropped")
  /\ \A c \in reported' : c \in reported \/ thread[c] = "done"
  /\ inbox' = << >> \/ (UNCHANGED <<inbox, thread>>)

\* A command is taken from the inbox, to be run or answered with an error.
Took(c) ==
  /\ agent = "idle"
  /\ inbox # << >> /\ c = Head(inbox) /\ inbox' = Tail(inbox)
  /\ Move(c, "checking") \/ Move(c, "failed")
  /\ UNCHANGED <<shell, procVars, watchVars, resultVars, outsideVars>>

\* A handler goes on before its prompt, at it, or away from it.
Prompted(c) ==
  /\ thread[c] \in {"checking", "searching", "asking"}
  /\ \E to \in {"searching", "asking", "cleared", "failed"} :
       Move(c, to) /\ (to = "cleared" => c \in approved')
  /\ approved \subseteq approved'
  /\ UNCHANGED <<inbox, shell, procVars, watchVars, resultVars, effect, audit, recorded, reported>>

InShell(c) == thread[c] = "shell" /\ UNCHANGED <<agentVars, thread, approved, audit, recorded, reported>>

\* run_shell goes on, and the effect is counted.
ShellRuns(c) ==
  /\ InShell(c)
  /\ ShellStep(c)
  /\ effect' = IF proc'[c][Root] = "running" THEN effect \cup {c} ELSE effect

\* run_shell of the command is entered.
ShellEntered(c) == InShell(c) /\ EnterShell(c) /\ UNCHANGED effect

\* The processes of a command go on by themselves.
ProcessesRun(c) ==
  /\ Spawn(c) \/ WriteOutput(c) \/ ExitProcess(c) \/ Die(c)
  /\ UNCHANGED <<agentVars, threadVars, reported>>

\* The steps of the coroutine, the network, the user and the clock.
CoroutineStep ==
  \/ Connect \/ Backoff \/ Closed \/ Disconnect \/ Join \/ Return \/ SendReply \/ Exit
  \/ Interrupt \/ Restart \/ CloseSocket
  \/ \E c \in Command : Take(c)
  \/ \E c \in Command : TimeUp(c) /\ UNCHANGED <<agentVars, threadVars, reported>>
  \/ \E c \in Command : Deadline(c)
  \/ UNCHANGED vars

\* A step is one of these.
LEMMA Steps ==
  ASSUME [Next]_vars
  PROVE  \/ CoroutineStep
         \/ Crash
         \/ \E c \in Command : Deliver(c)
         \/ \E c \in Command : Check(c) \/ SearchWeb(c) \/ Approve(c) \/ Deny(c)
         \/ \E c \in Command : Act(c)
         \/ \E c \in Command : AuditApproved(c)
         \/ \E c \in Command : ShellEntered(c)
         \/ \E c \in Command : ShellRuns(c)
         \/ \E c \in Command : AuditFinished(c)
         \/ \E c \in Command : ProcessesRun(c)
<1>1. ASSUME NEW c \in Command, ThreadStep(c)
      PROVE  \/ Check(c) \/ SearchWeb(c) \/ Deny(c) \/ Act(c) \/ AuditApproved(c)
             \/ ShellEntered(c) \/ ShellRuns(c) \/ AuditFinished(c)
  BY <1>1 DEF ThreadStep, LeavePrompt, RunShell, ShellEntered, ShellRuns, InShell
<1>2. ASSUME NEW c \in Command, Windows(c)
      PROVE  ProcessesRun(c) \/ (TimeUp(c) /\ UNCHANGED <<agentVars, threadVars, reported>>)
  BY <1>2 DEF Windows, ProcessesRun
<1> QED
  BY <1>1, <1>2 DEF Next, AgentStep, CoroutineStep

\* The agent starts connecting, with nothing received and nothing done.
LEMMA InitLInv == Init => LInv
<1> SUFFICES ASSUME Init PROVE LInv
  OBVIOUS
<1> USE ShellAssumption, AgentAssumption DEF Init, ShellInit, Busy, Ended, InCall
<1>1. TypeOK
  BY DEF TypeOK, ShellTypeOK
<1>2. OneAtATime /\ NothingOutlivesRun
  BY DEF OneAtATime, NothingOutlivesRun, Active
<1>3. Received /\ Untouched /\ Asked /\ ApprovedBeforeEffect
  BY DEF Received, Untouched, Asked, Before, ApprovedBeforeEffect
<1>4. StartedIsEffect /\ CleanupIsTrue /\ RecordIsTrue
  BY DEF StartedIsEffect, CleanupIsTrue, CleanupOf, CleanedUp, RecordIsTrue, EndRecords, Active
<1> QED
  BY <1>1, <1>2, <1>3, <1>4 DEF LInv

-----------------------------------------------------------------------------
(* Types                                                                   *)

Condition == {"none", "suspended", "running", "dying", "gone"}

\* Moving one process keeps the others; so does terminating a job.
LEMMA ProcTypes ==
  ASSUME proc \in [Command -> [Proc -> Condition]], NEW c \in Command
  PROVE  /\ \A p \in Proc, to \in Condition :
              proc' = [proc EXCEPT ![c][p] = to] => proc' \in [Command -> [Proc -> Condition]]
         /\ KillJob(c) => proc' \in [Command -> [Proc -> Condition]]
<1>1. ASSUME NEW q \in [Proc -> Condition]
      PROVE  [proc EXCEPT ![c] = q] \in [Command -> [Proc -> Condition]]
  OBVIOUS
<1>2. ASSUME NEW p \in Proc, NEW to \in Condition
      PROVE  [proc[c] EXCEPT ![p] = to] \in [Proc -> Condition]
  OBVIOUS
<1>3. [p \in Proc |-> IF p \in Active(c) THEN "dying" ELSE proc[c][p]] \in [Proc -> Condition]
  BY DEF Condition
<1> QED
  BY <1>1, <1>2, <1>3 DEF KillJob

\* Every call of run_shell keeps the types of its variables.
LEMMA ShellTypeStep ==
  ASSUME ShellTypeOK, NEW c \in Command, ShellStep(c) \/ EnterShell(c)
  PROVE  ShellTypeOK'
<1> USE ShellAssumption DEF ShellTypeOK, InCall, Failure, StopCause, shellVars, procVars, watchVars, resultVars
<1>1. CASE EnterShell(c)
  BY <1>1 DEF EnterShell
<1>10. CASE SetUpJob(c)
  BY <1>10 DEF SetUpJob, SetupFails
<1>11. CASE PollFails(c)
  BY <1>11 DEF PollFails
<1>2. CASE CreateProcess(c) \/ ResumeThread(c)
  <2>1. proc' \in [Command -> [Proc -> Condition]]
    BY <1>2, ProcTypes DEF CreateProcess, ResumeThread, Condition, SetupFails
  <2> QED
    BY <1>2, <2>1 DEF CreateProcess, SetupFails, ResumeThread, Condition
<1>3. ASSUME NEW n \in DrainSizes(c), Drain(c, n)
      PROVE  /\ pipe' \in [Command -> 0..PipeSize]
             /\ observed' \in [Command -> 0..(MaxOutput + 1)]
  BY <1>3 DEF DrainSizes, Drain
<1>4. CASE PollShell(c)
  <2>1. /\ pipe' \in [Command -> 0..PipeSize]
        /\ observed' \in [Command -> 0..(MaxOutput + 1)]
    <3>1. (\E n \in DrainSizes(c) : Drain(c, n)) \/ UNCHANGED <<pipe, observed>>
      BY <1>4 DEF PollShell
    <3> QED
      BY <1>3, <3>1
  <2>2. outcome' \in [Command -> {"none", "exited", "timed_out", "cancelled", "output_limit"} \cup Failure]
    <3>1. \/ outcome' = outcome
          \/ outcome' = [outcome EXCEPT ![c] = "exited"]
          \/ outcome' = [outcome EXCEPT ![c] = "output_limit"]
          \/ outcome' = [outcome EXCEPT ![c] = StopCause(c)]
      BY <1>4 DEF PollShell
    <3> QED
      BY <3>1
  <2>3. shell' \in [Command -> {"off", "returned"} \cup InCall]
    <3>1. shell' = shell \/ shell' = [shell EXCEPT ![c] = "inspect"]
      BY <1>4 DEF PollShell
    <3> QED
      BY <3>1
  <2>4. returncode' \in [Command -> {"none", "zero", "nonzero"}]
    <3>1. \/ returncode' = returncode
          \/ \E code \in {"zero", "nonzero"} : returncode' = [returncode EXCEPT ![c] = code]
      BY <1>4 DEF PollShell
    <3> QED
      BY <3>1
  <2> QED
    BY <1>4, <2>1, <2>2, <2>3, <2>4 DEF PollShell
<1>5. CASE InspectJob(c)
  <2>1. Active(c) \subseteq Proc
    BY DEF Active
  <2>2. members' \in [Command -> SUBSET Proc]
    BY <1>5, <2>1 DEF InspectJob
  <2>3. listed' \in [Command -> SUBSET Proc]
    <3>1. PICK opened \in SUBSET Active(c) : listed' = [listed EXCEPT ![c] = opened]
      BY <1>5 DEF InspectJob
    <3>2. opened \in SUBSET Proc
      BY <2>1
    <3> QED
      BY <3>1, <3>2
  <2>4. inspected' \in [Command -> BOOLEAN]
    <3>1. \/ inspected' = [inspected EXCEPT ![c] = FALSE]
          \/ inspected' = [inspected EXCEPT ![c] = TRUE]
      BY <1>5 DEF InspectJob
    <3> QED
      BY <3>1
  <2>5. shell' \in [Command -> {"off", "returned"} \cup InCall]
    BY <1>5 DEF InspectJob
  <2> QED
    BY <1>5, <2>2, <2>3, <2>4, <2>5 DEF InspectJob
<1>6. CASE TerminateJob(c)
  <2>1. proc' \in [Command -> [Proc -> Condition]]
    BY <1>6, ProcTypes DEF TerminateJob, Condition
  <2> QED
    BY <1>6, <2>1 DEF TerminateJob, AfterCleanup, Condition
<1>7. CASE CloseHandles(c)
  <2>1. proc' \in [Command -> [Proc -> Condition]]
    BY <1>7, ProcTypes DEF CloseHandles, Condition
  <2>2. /\ members' = members
        /\ listed' \in [Command -> SUBSET Proc]
        /\ inspected' \in [Command -> BOOLEAN]
    BY <1>7 DEF CloseHandles, ClosePipes
  <2>3. /\ pipe' \in [Command -> 0..PipeSize]
        /\ observed' \in [Command -> 0..(MaxOutput + 1)]
    BY <1>7 DEF CloseHandles, ClosePipes
  <2> QED
    BY <1>7, <2>1, <2>2, <2>3 DEF CloseHandles, Condition
<1>8. CASE ConfirmCleanup(c)
  <2>1. inspected[c] \in BOOLEAN
    OBVIOUS
  <2>2. cleanup' \in [Command -> BOOLEAN]
    BY <1>8, <2>1 DEF ConfirmCleanup
  <2> QED
    BY <1>8, <2>2 DEF ConfirmCleanup, AfterCleanup
<1>9. CASE DrainRest(c)
  <2>1. /\ pipe' \in [Command -> 0..PipeSize]
        /\ observed' \in [Command -> 0..(MaxOutput + 1)]
    <3>1. (\E n \in DrainSizes(c) : Drain(c, n)) \/ UNCHANGED <<pipe, observed>>
      BY <1>9 DEF DrainRest
    <3> QED
      BY <1>3, <3>1
  <2>2. outcome' \in [Command -> {"none", "exited", "timed_out", "cancelled", "output_limit"} \cup Failure]
    <3>1. \/ outcome' = outcome
          \/ outcome' = [outcome EXCEPT ![c] = IF @ = "exited" THEN "output_limit" ELSE @]
          \/ outcome' = [outcome EXCEPT ![c] = IF started[c] THEN "runtime_error" ELSE "startup_failed"]
      BY <1>9 DEF DrainRest
    <3> QED
      BY <3>1
  <2>3. shell' \in [Command -> {"off", "returned"} \cup InCall]
    BY <1>9 DEF DrainRest
  <2> QED
    BY <1>9, <2>1, <2>2, <2>3 DEF DrainRest
<1> QED
  BY <1>1, <1>10, <1>11, <1>2, <1>4, <1>5, <1>6, <1>9, <1>8, <1>7 DEF ShellStep

\* So do its processes and its clock.
LEMMA WindowsTypeStep ==
  ASSUME ShellTypeOK, NEW c \in Command,
         Spawn(c) \/ WriteOutput(c) \/ ExitProcess(c) \/ Die(c) \/ TimeUp(c) \/ Expire(c)
  PROVE  ShellTypeOK'
<1> USE ShellAssumption DEF ShellTypeOK, procVars, watchVars, resultVars
<1>1. CASE Spawn(c) \/ ExitProcess(c) \/ Die(c)
  <2>1. proc' \in [Command -> [Proc -> Condition]]
    BY <1>1, ProcTypes DEF Spawn, ExitProcess, Die, Condition
  <2> QED
    BY <1>1, <2>1 DEF Spawn, ExitProcess, Die, Condition
<1>2. CASE WriteOutput(c)
  BY <1>2 DEF WriteOutput
<1>3. CASE TimeUp(c) \/ Expire(c)
  BY <1>3 DEF TimeUp, Expire
<1> QED
  BY <1>1, <1>2, <1>3

\* Leaving a connection forgets the command and what was not taken.
LEMMA LeaveTypes ==
  ASSUME TypeOK, NEW to \in {"stopped", "connecting", "backoff"}, Leave(to),
         UNCHANGED <<shell, procVars, watchVars, resultVars, approved, effect, audit, recorded>>,
         reported' \subseteq Command
  PROVE  TypeOK'
<1> USE AgentAssumption DEF TypeOK, Leave, Forget, Dropped
<1>1. ShellTypeOK'
  BY DEF ShellTypeOK, procVars, watchVars, resultVars
<1>2. inbox' \in Seq(Command)
  OBVIOUS
<1> QED
  BY <1>1, <1>2 DEF Busy, Ended

\* run_shell is where it was, whatever became of its event and its deadline.
LEMMA ShellStays ==
  ASSUME ShellTypeOK, UNCHANGED <<shell, procVars, watchVars, resultVars>>,
         cancelled' \subseteq Command,
         clock' \in [Command -> {"early", "timeUp", "expired"}]
  PROVE  ShellTypeOK'
BY DEF ShellTypeOK, procVars, watchVars, resultVars

\* What the coroutine does keeps the types.
LEMMA CoroutineTypes ==
  ASSUME TypeOK, CoroutineStep
  PROVE  TypeOK'
<1> USE AgentAssumption
<1>1. CASE Connect \/ Backoff \/ Restart \/ CloseSocket \/ UNCHANGED vars
  <2>1. UNCHANGED shellVars
    BY <1>1 DEF Connect, Backoff, Restart, CloseSocket, vars
  <2>2. ShellTypeOK'
    BY <2>1, ShellStays DEF TypeOK, ShellTypeOK, shellVars
  <2>3. inbox' \in Seq(Command)
    <3>1. CASE Connect
      BY <3>1 DEF Connect
    <3>2. CASE Backoff \/ Restart \/ CloseSocket \/ UNCHANGED vars
      BY <3>2 DEF Backoff, Restart, CloseSocket, vars, agentVars, TypeOK
    <3> QED
      BY <1>1, <3>1, <3>2
  <2>4. UNCHANGED <<current, threadVars, reported>>
    BY <1>1 DEF Connect, Backoff, Restart, CloseSocket, vars, agentVars
  <2>5. /\ \/ /\ agent' \in {"stopped", "connecting", "backoff", "idle"}
              /\ current = None
           \/ UNCHANGED agent
        /\ socket' \in {"none", "open", "closed"}
    BY <1>1 DEF Connect, Backoff, Restart, CloseSocket, vars, agentVars, TypeOK
  <2> QED
    BY <2>2, <2>3, <2>4, <2>5 DEF TypeOK, threadVars
<1>2. CASE Closed \/ Join \/ Exit
  BY <1>2, LeaveTypes DEF Closed, Join, Exit, outsideVars, TypeOK
<1>3. CASE Disconnect \/ Return \/ Interrupt
  <2>1. CASE \E to \in {"stopped", "connecting", "backoff"} : Leave(to)
    BY <1>3, <2>1, LeaveTypes DEF Disconnect, Return, Interrupt, outsideVars, threadVars, TypeOK
  <2>2. CASE /\ agent \in {"running", "joining"}
             /\ agent' \in {"joining", "replying", "stopping"}
             /\ cancelled' = cancelled \cup {current}
             /\ UNCHANGED <<clock, socket, inbox, current, threadVars, reported>>
             /\ UNCHANGED <<shell, procVars, watchVars, resultVars>>
    <3>1. ShellTypeOK'
      BY <2>2, ShellStays DEF TypeOK, ShellTypeOK
    <3> QED
      BY <2>2, <3>1 DEF TypeOK, threadVars
  <2> QED
    BY <1>3, <2>1, <2>2 DEF Disconnect, Return, Interrupt, outsideVars, threadVars
<1>4. CASE SendReply
  <2>1. current \in Command /\ reported' \subseteq Command
    BY <1>4 DEF SendReply, TypeOK
  <2>2. CASE \E to \in {"stopped", "connecting", "backoff"} : Leave(to)
    BY <1>4, <2>1, <2>2, LeaveTypes DEF SendReply
  <2>3. CASE agent' = "idle" /\ current' = None /\ Forget /\ UNCHANGED <<socket, inbox, thread>>
    <3>1. ShellTypeOK'
      BY <1>4, <2>3, ShellStays DEF SendReply, Forget, TypeOK
    <3> QED
      BY <1>4, <2>1, <2>3, <3>1 DEF SendReply, TypeOK
  <2> QED
    BY <1>4, <2>2, <2>3 DEF SendReply
<1>5. ASSUME NEW c \in Command, Take(c)
      PROVE  TypeOK'
  <2>1. CASE \E to \in {"stopped", "connecting", "backoff"} : Leave(to)
    BY <1>5, <2>1, LeaveTypes DEF Take, outsideVars, TypeOK
  <2>2. CASE /\ agent' \in {"running", "replying"} /\ current' = c
             /\ inbox # << >> /\ inbox' = Tail(inbox)
             /\ \E to \in {"checking", "failed"} : Move(c, to)
             /\ UNCHANGED <<socket, cancelled, clock, shell, procVars, watchVars, resultVars, outsideVars>>
    <3>1. ShellTypeOK'
      BY <2>2, ShellStays DEF TypeOK, ShellTypeOK
    <3>2. inbox' \in Seq(Command)
      BY <2>2 DEF TypeOK
    <3>3. thread' \in [Command -> {"new", "queued", "dropped"} \cup Busy \cup Ended]
      BY <2>2 DEF TypeOK, Move, Busy, Ended
    <3> QED
      BY <2>2, <3>1, <3>2, <3>3 DEF TypeOK, outsideVars
  <2> QED
    BY <1>5, <2>1, <2>2 DEF Take
<1>6. ASSUME NEW c \in Command, TimeUp(c) \/ Expire(c), UNCHANGED <<agentVars, threadVars, reported>>
      PROVE  TypeOK'
  BY <1>6, WindowsTypeStep DEF TypeOK, agentVars, threadVars
<1> QED
  BY <1>1, <1>2, <1>3, <1>4, <1>5, <1>6 DEF CoroutineStep, Deadline

\* A handler's own step keeps the types.
LEMMA HandlerTypes ==
  ASSUME TypeOK, NEW c \in Command,
         \/ Check(c) \/ SearchWeb(c) \/ Approve(c) \/ Deny(c) \/ Act(c)
         \/ AuditApproved(c) \/ AuditFinished(c)
  PROVE  TypeOK'
<1> USE AgentAssumption DEF TypeOK, Busy, Ended, agentVars
<1>1. UNCHANGED <<shellVars, agentVars, reported>>
  BY DEF Check, SearchWeb, Approve, Deny, Act, AuditApproved, AuditFinished
<1>2. ShellTypeOK'
  BY <1>1, ShellStays DEF ShellTypeOK, shellVars
<1>3. CASE Check(c) \/ SearchWeb(c) \/ Approve(c) \/ Deny(c)
  BY <1>1, <1>2, <1>3 DEF Check, SearchWeb, Approve, Deny, Refuse, AfterCheck, Move
<1>4. CASE Act(c)
  BY <1>1, <1>2, <1>4 DEF Act, Launch, UseWindowOrFile, UseInput, Reach, Refuse, Move
<1>5. CASE AuditApproved(c)
  BY <1>1, <1>2, <1>5 DEF AuditApproved, Move
<1>6. CASE AuditFinished(c)
  <2>1. \/ audit' = audit
        \/ \E r \in {UnknownRecord, FinishedRecord(c)} : audit' = [audit EXCEPT ![c] = @ \cup {r}]
    BY <1>6 DEF AuditFinished
  <2>5. {UnknownRecord, FinishedRecord(c)} \subseteq EndRecord
    BY DEF UnknownRecord, FinishedRecord, EndRecord, Failure, ShellTypeOK
  <2>2. audit' \in [Command -> SUBSET ({ApprovedRecord} \cup EndRecord)]
    BY <2>1, <2>5
  <2>3. recorded' \in [Command -> BOOLEAN]
    BY <1>6 DEF AuditFinished
  <2>4. thread' \in [Command -> {"new", "queued", "dropped"} \cup Busy \cup Ended]
    BY <1>6 DEF AuditFinished, Move
  <2> QED
    BY <1>1, <1>2, <1>6, <2>2, <2>3, <2>4 DEF AuditFinished
<1> QED
  BY <1>3, <1>4, <1>5, <1>6

\* The end of the process leaves every variable in its type.
LEMMA CrashTypes ==
  ASSUME TypeOK, Crash
  PROVE  TypeOK'
<1> USE ShellAssumption, AgentAssumption DEF TypeOK, Crash, Forget
<1>1. /\ shell' \in [Command -> {"off", "returned"} \cup InCall]
      /\ proc' \in [Command -> [Proc -> Condition]]
  BY DEF ShellTypeOK, Condition
<1>2. /\ pipe' \in [Command -> 0..PipeSize]
      /\ observed' \in [Command -> 0..(MaxOutput + 1)]
      /\ members' \in [Command -> SUBSET Proc]
      /\ listed' \in [Command -> SUBSET Proc]
      /\ inspected' \in [Command -> BOOLEAN]
  BY DEF ShellTypeOK
<1>3. /\ outcome' \in [Command -> {"none", "exited", "timed_out", "cancelled", "output_limit"} \cup Failure]
      /\ returncode' \in [Command -> {"none", "zero", "nonzero"}]
  BY DEF ShellTypeOK
<1>4. started' \in [Command -> BOOLEAN] /\ cleanup' \in [Command -> BOOLEAN]
  BY DEF ShellTypeOK
<1>5. cancelled' \subseteq Command /\ clock' \in [Command -> {"early", "timeUp", "expired"}]
  OBVIOUS
<1>6. ShellTypeOK'
  BY <1>1, <1>2, <1>3, <1>4, <1>5 DEF ShellTypeOK, Condition
<1>7. thread' \in [Command -> {"new", "queued", "dropped"} \cup Busy \cup Ended]
  BY DEF Dropped, Busy, Ended
<1>8. inbox' \in Seq(Command)
  OBVIOUS
<1> QED
  BY <1>6, <1>7, <1>8 DEF outsideVars

\* Every step keeps the types.
LEMMA TypeStep ==
  ASSUME TypeOK, [Next]_vars
  PROVE  TypeOK'
<1>1. ASSUME NEW c \in Command, Deliver(c)
      PROVE  TypeOK'
  <2>1. ShellTypeOK'
    BY <1>1, ShellStays DEF Deliver, TypeOK, ShellTypeOK, shellVars
  <2>2. inbox' \in Seq(Command)
    BY <1>1 DEF Deliver, TypeOK
  <2> QED
    BY <1>1, <2>1, <2>2 DEF Deliver, TypeOK, Move, Busy, Ended
<1>2. ASSUME NEW c \in Command, ShellEntered(c) \/ ShellRuns(c)
      PROVE  TypeOK'
  <2>1. ShellTypeOK'
    BY <1>2, ShellTypeStep DEF ShellEntered, ShellRuns, TypeOK
  <2> QED
    BY <1>2, <2>1 DEF ShellEntered, ShellRuns, InShell, TypeOK, agentVars
<1>3. ASSUME NEW c \in Command, ProcessesRun(c)
      PROVE  TypeOK'
  BY <1>3, WindowsTypeStep DEF ProcessesRun, TypeOK, agentVars, threadVars
<1> QED
  BY Steps, CoroutineTypes, HandlerTypes, CrashTypes, <1>1, <1>2, <1>3

-----------------------------------------------------------------------------
(* One command at a time, and what the steps of the coroutine leave alone. *)

\* The coroutine goes on to another command, and lets go of its connection,
\* only when the thread has ended.
LEMMA OneAtATimeStep ==
  ASSUME TypeOK, OneAtATime, [Next]_vars
  PROVE  OneAtATime'
<1> USE AgentAssumption DEF TypeOK, OneAtATime, Busy, Ended
<1>1. CASE Connect \/ Backoff \/ Restart \/ CloseSocket \/ Disconnect \/ Return \/ UNCHANGED vars
  BY <1>1 DEF Connect, Backoff, Restart, CloseSocket, Disconnect, Return, vars, agentVars, threadVars
<1>2. CASE Closed \/ Join \/ Exit
  BY <1>2 DEF Closed, Join, Exit, Leave, Dropped
<1>3. CASE Interrupt
  BY <1>3 DEF Interrupt, Leave, Dropped
<1>4. CASE SendReply
  BY <1>4 DEF SendReply, Leave, Dropped
<1>5. ASSUME NEW c \in Command, Take(c)
      PROVE  OneAtATime'
  BY <1>5 DEF Take, Leave, Dropped, Move
<1>6. ASSUME NEW c \in Command, UNCHANGED <<agentVars, threadVars, reported>>
      PROVE  OneAtATime'
  BY <1>6 DEF agentVars, threadVars
<1>7. CASE CoroutineStep
  BY <1>1, <1>2, <1>3, <1>4, <1>5, <1>6, <1>7 DEF CoroutineStep, Deadline
<1>8. CASE Crash
  BY <1>8 DEF Crash, Dropped
<1>9. ASSUME NEW c \in Command, Deliver(c)
      PROVE  OneAtATime'
  BY <1>9 DEF Deliver, Move
<1>10. ASSUME NEW c \in Command, Check(c) \/ SearchWeb(c) \/ Approve(c) \/ Deny(c)
       PROVE  OneAtATime'
  BY <1>10 DEF Check, SearchWeb, Approve, Deny, Refuse, AfterCheck, Move, agentVars
<1>11. ASSUME NEW c \in Command, Act(c) \/ AuditApproved(c) \/ AuditFinished(c)
       PROVE  OneAtATime'
  BY <1>11 DEF Act, Launch, UseWindowOrFile, UseInput, Reach, Refuse, AuditApproved, AuditFinished,
               Move, agentVars
<1>12. ASSUME NEW c \in Command, ShellEntered(c) \/ ShellRuns(c) \/ ProcessesRun(c)
       PROVE  OneAtATime'
  BY <1>12 DEF ShellEntered, ShellRuns, InShell, ProcessesRun, agentVars, threadVars
<1> QED
  BY Steps, <1>7, <1>8, <1>9, <1>10, <1>11, <1>12

\* A step of the coroutine is quiet, unless it takes a command.
LEMMA CoroutineKinds ==
  ASSUME TypeOK, CoroutineStep
  PROVE  Quiet \/ \E c \in Command : Took(c)
<1> USE DEF TypeOK, Busy, Ended
<1>1. CASE Connect \/ Backoff \/ Restart \/ CloseSocket \/ UNCHANGED vars
  BY <1>1 DEF Connect, Backoff, Restart, CloseSocket, vars, shellVars, procVars, watchVars, resultVars, agentVars,
              threadVars, Quiet
<1>2. ASSUME NEW to, Leave(to),
             UNCHANGED <<shell, procVars, watchVars, resultVars, outsideVars>>
      PROVE  Quiet
  BY <1>2 DEF Leave, Dropped, outsideVars, Quiet
<1>3. CASE Closed \/ Join \/ Exit
  BY <1>2, <1>3 DEF Closed, Join, Exit
<1>4. CASE Disconnect \/ Return \/ Interrupt
  <2>1. CASE Leave("stopped") /\ Interrupt
    BY <1>2, <2>1 DEF Interrupt
  <2> QED
    BY <1>4, <2>1 DEF Disconnect, Return, Interrupt, outsideVars, threadVars, Quiet
<1>5. CASE SendReply
  BY <1>5 DEF SendReply, Leave, Dropped, Quiet
<1>6. ASSUME NEW c \in Command, Take(c)
      PROVE  Quiet \/ Took(c)
  <2>1. CASE Leave("connecting") \/ Leave("stopped")
    BY <1>2, <1>6, <2>1 DEF Take
  <2> QED
    BY <1>6, <2>1 DEF Take, Took
<1>7. ASSUME NEW c \in Command, TimeUp(c) \/ Expire(c), UNCHANGED <<agentVars, threadVars, reported>>
      PROVE  Quiet
  BY <1>7 DEF TimeUp, Expire, agentVars, threadVars, procVars, watchVars, resultVars, Quiet
<1> QED
  BY <1>1, <1>3, <1>4, <1>5, <1>6, <1>7 DEF CoroutineStep, Deadline

\* The prompt is passed by approval alone.
LEMMA PromptedSteps ==
  ASSUME TypeOK, NEW c \in Command, Check(c) \/ SearchWeb(c) \/ Approve(c) \/ Deny(c)
  PROVE  Prompted(c)
BY DEF Check, SearchWeb, Approve, Deny, Refuse, AfterCheck, Prompted, agentVars, shellVars

\* A step, as the parts of the invariant look at it.
LEMMA Kinds ==
  ASSUME TypeOK, [Next]_vars
  PROVE  \/ Quiet
         \/ Crash
         \/ \E c \in Command : \/ Took(c) \/ Deliver(c) \/ Prompted(c)
                               \/ Act(c) \/ AuditApproved(c) \/ AuditFinished(c)
         \/ \E c \in Command : ShellEntered(c)
         \/ \E c \in Command : ShellRuns(c)
         \/ \E c \in Command : ProcessesRun(c)
BY Steps, CoroutineKinds, PromptedSteps

-----------------------------------------------------------------------------
(* The story of a command.                                                 *)

\* run_shell of one command leaves the others' alone.
LEMMA ShellFrame ==
  ASSUME ShellTypeOK, NEW c \in Command, ShellStep(c) \/ EnterShell(c)
  PROVE  \A d \in Command \ {c} :
           /\ shell'[d] = shell[d] /\ proc'[d] = proc[d] /\ pipe'[d] = pipe[d]
           /\ members'[d] = members[d] /\ listed'[d] = listed[d] /\ inspected'[d] = inspected[d]
           /\ outcome'[d] = outcome[d] /\ started'[d] = started[d] /\ cleanup'[d] = cleanup[d]
<1> USE DEF ShellTypeOK, procVars, watchVars, resultVars
<1>1. CASE EnterShell(c) \/ SetUpJob(c) \/ PollFails(c)
  BY <1>1 DEF EnterShell, SetUpJob, SetupFails, PollFails
<1>2. CASE CreateProcess(c) \/ ResumeThread(c)
  BY <1>2 DEF CreateProcess, SetupFails, ResumeThread
<1>3. CASE PollShell(c)
  BY <1>3 DEF PollShell, Drain
<1>4. CASE DrainRest(c)
  BY <1>4 DEF DrainRest, Drain
<1>5. CASE InspectJob(c) \/ TerminateJob(c) \/ ConfirmCleanup(c) \/ CloseHandles(c)
  BY <1>5 DEF InspectJob, TerminateJob, KillJob, ConfirmCleanup, CloseHandles, ClosePipes
<1> QED
  BY <1>1, <1>2, <1>3, <1>4, <1>5 DEF ShellStep

\* What is done to the processes of a command by the calls of run_shell: they
\* change only while it is being executed, and are terminated at its end.
LEMMA ShellProcesses ==
  ASSUME ShellTypeOK, NEW c \in Command, ShellStep(c)
  PROVE  /\ shell[c] \in InCall
         /\ shell'[c] \in InCall \/ (shell'[c] = "returned" /\ Active(c)' = {})
<1> USE DEF ShellTypeOK, InCall, procVars, watchVars, resultVars
<1>1. CASE SetUpJob(c) \/ PollFails(c) \/ CreateProcess(c) \/ ResumeThread(c)
  BY <1>1 DEF SetUpJob, SetupFails, PollFails, CreateProcess, ResumeThread
<1>2. CASE PollShell(c) \/ DrainRest(c)
  BY <1>2 DEF PollShell, DrainRest
<1>3. CASE InspectJob(c) \/ TerminateJob(c) \/ ConfirmCleanup(c)
  BY <1>3 DEF InspectJob, TerminateJob, ConfirmCleanup, AfterCleanup
<1>4. CASE CloseHandles(c)
  BY <1>4 DEF CloseHandles, KillJob, Active
<1> QED
  BY <1>1, <1>2, <1>3, <1>4 DEF ShellStep

\* A process lives within the call of run_shell that made it.
LEMMA NothingOutlivesRunStep ==
  ASSUME TypeOK, OneAtATime, NothingOutlivesRun, [Next]_vars
  PROVE  NothingOutlivesRun'
<1> USE DEF TypeOK, NothingOutlivesRun
<1>1. CASE Quiet
  BY <1>1 DEF Quiet, procVars, Active
<1>2. CASE Crash
  BY <1>2 DEF Crash, Active, ShellTypeOK
<1>3. ASSUME NEW c \in Command,
             Took(c) \/ Deliver(c) \/ Prompted(c) \/ Act(c) \/ AuditApproved(c) \/ AuditFinished(c)
      PROVE  NothingOutlivesRun'
  <2>1. UNCHANGED <<shell, proc>> /\ \A d \in Command \ {c} : thread'[d] = thread[d]
    BY <1>3 DEF Took, Deliver, Prompted, Act, Launch, UseWindowOrFile, UseInput, Reach, Refuse,
                AuditApproved, AuditFinished, Move, shellVars, procVars
  <2>2. Active(c) = {}
    BY <1>3 DEF Took, Deliver, Prompted, Act, AuditApproved, AuditFinished, OneAtATime, Busy, InCall
  <2> QED
    BY <2>1, <2>2 DEF Active
<1>4. ASSUME NEW c \in Command, ShellEntered(c)
      PROVE  NothingOutlivesRun'
  BY <1>4, ShellFrame DEF ShellEntered, InShell, EnterShell, procVars, Active, InCall
<1>5. ASSUME NEW c \in Command, ShellRuns(c)
      PROVE  NothingOutlivesRun'
  BY <1>5, ShellFrame, ShellProcesses DEF ShellRuns, InShell, Active
<1>6. ASSUME NEW c \in Command, ProcessesRun(c)
      PROVE  NothingOutlivesRun'
  <2>1. UNCHANGED <<shell, thread>> /\ \A d \in Command \ {c} : proc'[d] = proc[d]
    BY <1>6 DEF ProcessesRun, Spawn, WriteOutput, ExitProcess, Die, threadVars, ShellTypeOK
  <2>2. Active(c)' # {} => Active(c) # {}
    BY <1>6 DEF ProcessesRun, Spawn, WriteOutput, ExitProcess, Die, ShellTypeOK, Active
  <2> QED
    BY <2>1, <2>2 DEF Active
<1> QED
  BY Kinds, <1>1, <1>2, <1>3, <1>4, <1>5, <1>6

\* The inbox holds each command once, until it is taken or dropped.
LEMMA ReceivedStep ==
  ASSUME TypeOK, OneAtATime, Received, [Next]_vars
  PROVE  Received'
<1> USE DEF TypeOK, Received
<1>1. CASE Quiet \/ Crash
  BY <1>1 DEF Quiet, Crash
<1>2. ASSUME NEW c \in Command, Took(c)
      PROVE  Received'
  <2>1. /\ Len(inbox') = Len(inbox) - 1
        /\ c = inbox[1]
        /\ \A i \in 1..Len(inbox') : inbox'[i] = inbox[i + 1] /\ i + 1 \in 1..Len(inbox)
    BY <1>2 DEF Took
  <2>2. ASSUME NEW i \in 1..Len(inbox')
        PROVE  inbox'[i] # c /\ inbox'[i] \in Command
    <3>1. inbox'[i] = inbox[i + 1] /\ i + 1 \in 1..Len(inbox) /\ 1 \in 1..Len(inbox) /\ i + 1 # 1
      BY <2>1
    <3> QED
      BY <2>1, <3>1
  <2>3. \A d \in Command \ {c} : thread'[d] = thread[d]
    BY <1>2 DEF Took, Move
  <2>4. \A i, j \in 1..Len(inbox') : inbox'[i] = inbox'[j] => i = j
    BY <2>1
  <2> QED
    BY <2>1, <2>2, <2>3, <2>4
<1>3. ASSUME NEW c \in Command, Deliver(c)
      PROVE  Received'
  <2>1. /\ Len(inbox') = Len(inbox) + 1 /\ inbox'[Len(inbox) + 1] = c
        /\ \A i \in 1..Len(inbox) : inbox'[i] = inbox[i] /\ inbox[i] \in Command /\ inbox[i] # c
    BY <1>3 DEF Deliver
  <2>2. thread'[c] = "queued" /\ \A d \in Command \ {c} : thread'[d] = thread[d]
    BY <1>3 DEF Deliver, Move
  <2> QED
    BY <2>1, <2>2
<1>4. ASSUME NEW c \in Command, Prompted(c) \/ Act(c) \/ AuditApproved(c) \/ AuditFinished(c)
      PROVE  Received'
  <2>1. inbox' = inbox /\ \A d \in Command \ {c} : thread'[d] = thread[d]
    BY <1>4 DEF Prompted, Act, Launch, UseWindowOrFile, UseInput, Reach, Refuse,
                AuditApproved, AuditFinished, Move, agentVars
  <2>2. thread[c] # "queued"
    BY <1>4 DEF Prompted, Act, AuditApproved, AuditFinished
  <2>3. \A i \in 1..Len(inbox) : inbox[i] \in Command \ {c}
    BY <2>2
  <2> QED
    BY <2>1, <2>3
<1>5. CASE \E c \in Command : ShellEntered(c) \/ ShellRuns(c) \/ ProcessesRun(c)
  BY <1>5 DEF ShellEntered, ShellRuns, InShell, ProcessesRun, agentVars, threadVars
<1> QED
  BY Kinds, <1>1, <1>2, <1>3, <1>4, <1>5

\* Up to run_shell nothing is recorded, created or done for a command.
LEMMA UntouchedStep ==
  ASSUME TypeOK, NothingOutlivesRun, Received, Untouched, [Next]_vars
  PROVE  Untouched'
<1> USE DEF TypeOK, Untouched, Before
<1>1. CASE Quiet
  BY <1>1 DEF Quiet, procVars, watchVars, resultVars
<1>2. CASE Crash
  <2>1. ASSUME NEW c \in Command, thread'[c] \in Before
        PROVE  thread[c] \in Before /\ thread[c] \notin Busy
    BY <1>2, <2>1 DEF Crash, Dropped, Busy, Ended
  <2> QED
    BY <1>2, <2>1 DEF Crash, Active, ShellTypeOK, Busy, InCall, outsideVars
<1>3. ASSUME NEW c \in Command, Took(c)
      PROVE  Untouched'
  <2>1. thread[c] = "queued"
    BY <1>3 DEF Took, Received
  <2> QED
    BY <1>3, <2>1 DEF Took, Move, procVars, watchVars, resultVars, outsideVars
<1>4. ASSUME NEW c \in Command, Deliver(c) \/ Prompted(c)
      PROVE  Untouched'
  BY <1>4 DEF Deliver, Prompted, Move, shellVars, procVars, watchVars, resultVars
<1>5. ASSUME NEW c \in Command, Act(c)
      PROVE  Untouched'
  BY <1>5 DEF Act, Launch, UseWindowOrFile, UseInput, Reach, Refuse, Ended, Move, shellVars, procVars, watchVars, resultVars
<1>6. ASSUME NEW c \in Command, AuditApproved(c) \/ AuditFinished(c)
      PROVE  Untouched'
  BY <1>6 DEF AuditApproved, AuditFinished, Move, shellVars, procVars, watchVars, resultVars
<1>7. ASSUME NEW c \in Command, ShellEntered(c) \/ ShellRuns(c)
      PROVE  Untouched'
  BY <1>7, ShellFrame DEF ShellEntered, ShellRuns, InShell
<1>8. ASSUME NEW c \in Command, ProcessesRun(c)
      PROVE  Untouched'
  <2>1. UNCHANGED <<shell, thread, effect, audit, recorded, members, resultVars>>
        /\ \A d \in Command \ {c} : proc'[d] = proc[d]
    BY <1>8 DEF ProcessesRun, Spawn, WriteOutput, ExitProcess, Die, threadVars, watchVars, ShellTypeOK
  <2>2. thread[c] \in Before => proc' = proc
    BY <1>8 DEF ProcessesRun, Spawn, WriteOutput, ExitProcess, Die
  <2> QED
    BY <2>1, <2>2 DEF resultVars
<1> QED
  BY Kinds, <1>1, <1>2, <1>3, <1>4, <1>5, <1>6, <1>7, <1>8

\* A command gets past its prompt by the user's word, and into run_shell with
\* its record.
LEMMA AskedStep ==
  ASSUME TypeOK, Asked, [Next]_vars
  PROVE  Asked'
<1> USE DEF TypeOK, Asked
<1>1. CASE Quiet \/ Crash
  BY <1>1 DEF Quiet, Crash, Dropped, Busy, outsideVars
<1>2. ASSUME NEW c \in Command, Took(c) \/ Deliver(c) \/ Prompted(c)
      PROVE  Asked'
  BY <1>2 DEF Took, Deliver, Prompted, Move, outsideVars
<1>3. ASSUME NEW c \in Command, Act(c)
      PROVE  Asked'
  BY <1>3 DEF Act, Launch, UseWindowOrFile, UseInput, Reach, Refuse, Ended, Move
<1>4. ASSUME NEW c \in Command, AuditApproved(c) \/ AuditFinished(c)
      PROVE  Asked'
  BY <1>4 DEF AuditApproved, AuditFinished, Move
<1>5. CASE \E c \in Command : ShellEntered(c) \/ ShellRuns(c) \/ ProcessesRun(c)
  BY <1>5 DEF ShellEntered, ShellRuns, InShell, ProcessesRun, threadVars
<1> QED
  BY Kinds, <1>1, <1>2, <1>3, <1>4, <1>5

\* What has an effect was asked for and, if a shell command, recorded.
LEMMA ApprovedStep ==
  ASSUME TypeOK, Asked, ApprovedBeforeEffect, [Next]_vars
  PROVE  ApprovedBeforeEffect'
<1> USE DEF TypeOK, Asked, ApprovedBeforeEffect
<1>1. CASE Quiet \/ Crash
  BY <1>1 DEF Quiet, Crash, outsideVars
<1>2. ASSUME NEW c \in Command, Took(c) \/ Deliver(c) \/ Prompted(c)
      PROVE  ApprovedBeforeEffect'
  BY <1>2 DEF Took, Deliver, Prompted, outsideVars
<1>3. ASSUME NEW c \in Command, Act(c)
      PROVE  ApprovedBeforeEffect'
  BY <1>3 DEF Act, Launch, UseWindowOrFile, UseInput, Reach, Refuse
<1>4. ASSUME NEW c \in Command, AuditApproved(c) \/ AuditFinished(c)
      PROVE  ApprovedBeforeEffect'
  BY <1>4 DEF AuditApproved, AuditFinished
<1>5. ASSUME NEW c \in Command, ShellEntered(c) \/ ShellRuns(c) \/ ProcessesRun(c)
      PROVE  ApprovedBeforeEffect'
  BY <1>5 DEF ShellEntered, ShellRuns, InShell, ProcessesRun, threadVars
<1> QED
  BY Kinds, <1>1, <1>2, <1>3, <1>4, <1>5

\* Nothing of a command runs before its thread is resumed, which is what
\* started says.
LEMMA ShellStarts ==
  ASSUME ShellTypeOK, NEW c \in Command, ShellStep(c)
  PROVE  /\ \/ started'[c] = started[c] /\ \A p \in Proc : proc'[c][p] = "running" => proc[c][p] = "running"
            \/ started'[c] /\ proc'[c][Root] = "running"
         /\ started[c] => started'[c]
<1> USE ShellAssumption DEF ShellTypeOK, procVars, watchVars, resultVars
<1>1. CASE SetUpJob(c) \/ PollFails(c) \/ PollShell(c) \/ DrainRest(c) \/ InspectJob(c) \/ ConfirmCleanup(c)
  BY <1>1 DEF SetUpJob, PollFails, PollShell, DrainRest, InspectJob, ConfirmCleanup
<1>2. CASE CreateProcess(c)
  BY <1>2 DEF CreateProcess
<1>3. CASE ResumeThread(c)
  BY <1>3 DEF ResumeThread
<1>4. CASE TerminateJob(c) \/ CloseHandles(c)
  BY <1>4 DEF TerminateJob, CloseHandles, KillJob
<1> QED
  BY <1>1, <1>2, <1>3, <1>4 DEF ShellStep

\* started and not_started say of the effect what is so.
LEMMA StartedIsEffectStep ==
  ASSUME TypeOK, NothingOutlivesRun, Received, Untouched, Asked, StartedIsEffect, [Next]_vars
  PROVE  StartedIsEffect'
<1> USE ShellAssumption DEF TypeOK, StartedIsEffect, Ended
<1>1. CASE Quiet
  BY <1>1 DEF Quiet, procVars, watchVars, resultVars
<1>2. CASE Crash
  BY <1>2 DEF Crash, Dropped, Busy, outsideVars, NothingOutlivesRun, Active, ShellTypeOK
<1>3. ASSUME NEW c \in Command, Took(c)
      PROVE  StartedIsEffect'
  <2>1. thread[c] = "queued"
    BY <1>3 DEF Took, Received
  <2>2. audit[c] = {}
    BY <2>1 DEF Untouched, Before
  <2> QED
    BY <1>3, <2>1, <2>2 DEF Took, Move, procVars, watchVars, resultVars, outsideVars
<1>4. ASSUME NEW c \in Command, Deliver(c) \/ Prompted(c)
      PROVE  StartedIsEffect'
  BY <1>4 DEF Deliver, Prompted, Move, shellVars, procVars, watchVars, resultVars, Untouched, Before
<1>5. ASSUME NEW c \in Command, Act(c)
      PROVE  StartedIsEffect'
  BY <1>5 DEF Act, Launch, UseWindowOrFile, UseInput, Reach, Refuse, Move, shellVars, procVars, watchVars, resultVars,
              Untouched, Before
<1>6. ASSUME NEW c \in Command, AuditApproved(c)
      PROVE  StartedIsEffect'
  BY <1>6 DEF AuditApproved, Move, shellVars, procVars, watchVars, resultVars, Untouched, Before
<1>7. ASSUME NEW c \in Command, AuditFinished(c)
      PROVE  StartedIsEffect'
  BY <1>7 DEF AuditFinished, Move, shellVars, procVars, watchVars, resultVars
<1>8. ASSUME NEW c \in Command, ShellEntered(c)
      PROVE  StartedIsEffect'
  BY <1>8 DEF ShellEntered, InShell, EnterShell, procVars
<1>9. ASSUME NEW c \in Command, ShellRuns(c)
      PROVE  StartedIsEffect'
  <2>1. \A d \in Command \ {c} : started'[d] = started[d] /\ proc'[d] = proc[d]
    BY <1>9, ShellFrame DEF ShellRuns
  <2>2. \/ started'[c] = started[c] /\ \A p \in Proc : proc'[c][p] = "running" => proc[c][p] = "running"
        \/ started'[c] /\ proc'[c][Root] = "running"
    BY <1>9, ShellStarts DEF ShellRuns
  <2>3. c \in effect' <=> started'[c]
    BY <1>9, <2>2 DEF ShellRuns, InShell
  <2>4. \A p \in Proc : proc'[c][p] = "running" => started'[c]
    BY <2>2
  <2> QED
    BY <1>9, <2>1, <2>3, <2>4 DEF ShellRuns, InShell
<1>10. ASSUME NEW c \in Command, ProcessesRun(c)
       PROVE  StartedIsEffect'
  <2>1. UNCHANGED <<thread, effect, audit, started>> /\ \A d \in Command \ {c} : proc'[d] = proc[d]
    BY <1>10 DEF ProcessesRun, Spawn, WriteOutput, ExitProcess, Die, threadVars, resultVars, ShellTypeOK
  <2>2. \A p \in Proc : proc'[c][p] = "running" => started[c]
    BY <1>10 DEF ProcessesRun, Spawn, WriteOutput, ExitProcess, Die, ShellTypeOK
  <2> QED
    BY <2>1, <2>2
<1> QED
  BY Kinds, <1>1, <1>2, <1>3, <1>4, <1>5, <1>6, <1>7, <1>8, <1>9, <1>10

\* The calls of run_shell confirm the cleanup of a job in which nothing is
\* left, and read what it wrote.
LEMMA ShellCleanup ==
  ASSUME TypeOK, NEW c \in Command, thread[c] = "shell", CleanupOf(c), ShellStep(c), UNCHANGED thread
  PROVE  CleanupOf(c)'
<1> USE ShellAssumption DEF TypeOK, ShellTypeOK, CleanupOf, CleanedUp, Active, procVars, watchVars, resultVars
<1>1. CASE SetUpJob(c) \/ PollFails(c)
  BY <1>1 DEF SetUpJob, SetupFails, PollFails, StopCause
<1>2. CASE CreateProcess(c)
  BY <1>2 DEF CreateProcess, SetupFails
<1>3. CASE ResumeThread(c)
  BY <1>3 DEF ResumeThread
<1>4. CASE PollShell(c)
  BY <1>4 DEF PollShell
<1>5. CASE InspectJob(c)
  BY <1>5 DEF InspectJob
<1>6. CASE TerminateJob(c)
  BY <1>6 DEF TerminateJob, KillJob, AfterCleanup, Failure
<1>7. CASE ConfirmCleanup(c)
  BY <1>7 DEF ConfirmCleanup, Confirmed, AfterCleanup, Failure
<1>8. CASE DrainRest(c)
  <2>1. ASSUME shell'[c] = "closing", outcome'[c] = "exited"
        PROVE  pipe'[c] = 0
    <3>1. 0 \in DrainSizes(c) /\ Drain(c, 0) /\ observed[c] <= MaxOutput
      BY <1>8, <2>1 DEF DrainRest
    <3> QED
      BY <3>1 DEF DrainSizes, Drain
  <2> QED
    BY <1>8, <2>1 DEF DrainRest
<1>9. CASE CloseHandles(c)
  BY <1>9 DEF CloseHandles, ClosePipes, KillJob
<1> QED
  BY <1>1, <1>2, <1>3, <1>4, <1>5, <1>6, <1>7, <1>8, <1>9 DEF ShellStep

\* Confirmed cleanup stays true to the end of the call and after it.
LEMMA CleanupIsTrueStep ==
  ASSUME TypeOK, NothingOutlivesRun, Received, Untouched, CleanupIsTrue, [Next]_vars
  PROVE  CleanupIsTrue'
<1> USE ShellAssumption DEF TypeOK, CleanupIsTrue, CleanupOf, CleanedUp
<1>1. CASE Quiet
  BY <1>1 DEF Quiet, procVars, watchVars, resultVars, Active
<1>2. CASE Crash
  <2>1. \A c \in Command : Active(c)' = {}
    BY <1>2 DEF Crash, Active, ShellTypeOK
  <2>2. ASSUME NEW c \in Command, thread'[c] \in {"shell", "done"}
        PROVE  thread[c] = "done" /\ thread'[c] = "done"
    BY <1>2, <2>2 DEF Crash, Dropped, Busy
  <2>3. ASSUME NEW c \in Command, thread[c] = "done", cleanup'[c]
        PROVE  CleanedUp(c)'
    <3>1. cleanup[c]
      BY <1>2, <2>3 DEF Crash, ShellTypeOK
    <3>2. CleanedUp(c) /\ Active(c) = {}
      BY <2>3, <3>1
    <3>3. members'[c] = members[c] /\ \A p \in Proc : proc'[c][p] = proc[c][p]
      BY <1>2, <2>3, <3>2 DEF Crash, ShellTypeOK
    <3> QED
      BY <2>1, <3>2, <3>3 DEF ShellTypeOK
  <2>4. \A c \in Command :
          /\ shell'[c] \notin {"created", "poll", "inspect", "terminate", "confirm", "closing"}
          /\ ~inspected'[c]
    BY <1>2 DEF Crash, InCall, ShellTypeOK
  <2> QED
    BY <2>1, <2>2, <2>3, <2>4
<1>3. ASSUME NEW c \in Command, Took(c) \/ Deliver(c) \/ Prompted(c) \/ Act(c) \/ AuditApproved(c)
      PROVE  CleanupIsTrue'
  <2>1. thread[c] \in Before
    BY <1>3 DEF Took, Received, Deliver, Prompted, Act, AuditApproved, Before
  <2>2. UNCHANGED <<shell, procVars, watchVars, resultVars>> /\ \A d \in Command \ {c} : thread'[d] = thread[d]
    BY <1>3 DEF Took, Deliver, Prompted, Act, Launch, UseWindowOrFile, UseInput, Reach, Refuse,
                AuditApproved, Move, shellVars
  <2> QED
    BY <2>1, <2>2 DEF procVars, watchVars, resultVars, Active, Untouched
<1>4. ASSUME NEW c \in Command, AuditFinished(c)
      PROVE  CleanupIsTrue'
  BY <1>4 DEF AuditFinished, Move, shellVars, procVars, watchVars, resultVars, Active
<1>5. ASSUME NEW c \in Command, ShellEntered(c)
      PROVE  CleanupIsTrue'
  <2>1. UNCHANGED <<thread, procVars, watchVars, cleanup>>
    BY <1>5 DEF ShellEntered, InShell, EnterShell
  <2>2. \A d \in Command \ {c} : shell'[d] = shell[d] /\ outcome'[d] = outcome[d]
    BY <1>5, ShellFrame DEF ShellEntered
  <2>3. shell'[c] \in {"setup", "returned"}
    BY <1>5 DEF ShellEntered, EnterShell, ShellTypeOK
  <2> QED
    BY <2>1, <2>2, <2>3 DEF procVars, watchVars, Active
<1>6. ASSUME NEW c \in Command, ShellRuns(c)
      PROVE  CleanupIsTrue'
  <2>1. \A d \in Command \ {c} : CleanupOf(d) => CleanupOf(d)'
    BY <1>6, ShellFrame DEF ShellRuns, InShell, Active
  <2>2. CleanupOf(c)'
    BY <1>6, ShellCleanup DEF ShellRuns, InShell
  <2> QED
    BY <2>1, <2>2
<1>7. ASSUME NEW c \in Command, ProcessesRun(c)
      PROVE  CleanupIsTrue'
  <2>1. /\ UNCHANGED <<shell, thread, outcome, cleanup, watchVars>>
        /\ \A d \in Command \ {c} : proc'[d] = proc[d] /\ pipe'[d] = pipe[d]
    BY <1>7 DEF ProcessesRun, Spawn, WriteOutput, ExitProcess, Die, threadVars, resultVars, ShellTypeOK
  <2>2. CASE Die(c)
    <3>1. /\ UNCHANGED pipe
          /\ \A p \in Proc :
               proc'[c][p] = proc[c][p] \/ (proc[c][p] = "dying" /\ proc'[c][p] = "gone")
      BY <2>2 DEF Die, ShellTypeOK
    <3>2. Active(c)' = Active(c)
      BY <3>1 DEF Active
    <3>3. CleanedUp(c) => CleanedUp(c)'
      BY <2>1, <3>1, <3>2 DEF watchVars, ShellTypeOK
    <3> QED
      BY <2>1, <3>1, <3>2, <3>3 DEF watchVars, Active
  <2>3. CASE ~Die(c)
    <3>1. Active(c) # {}
      BY <1>7, <2>3 DEF ProcessesRun, Spawn, WriteOutput, ExitProcess, Active
    <3> QED
      BY <2>1, <3>1 DEF watchVars, Active
  <2> QED
    BY <2>2, <2>3
<1> QED
  BY Kinds, <1>1, <1>2, <1>3, <1>4, <1>5, <1>6, <1>7

\* The watching of a process begins with its start; its exit is seen there.
LEMMA ShellExits ==
  ASSUME ShellTypeOK, NEW c \in Command, ShellStep(c)
  PROVE  /\ shell'[c] = "poll" => shell[c] = "poll" \/ started'[c]
         /\ outcome'[c] = "exited" => outcome[c] = "exited" \/ shell[c] = "poll"
<1> USE ShellAssumption DEF ShellTypeOK, StopCause, procVars, watchVars, resultVars
<1>1. CASE SetUpJob(c) \/ CreateProcess(c)
  BY <1>1 DEF SetUpJob, SetupFails, CreateProcess
<1>2. CASE ResumeThread(c)
  BY <1>2 DEF ResumeThread
<1>3. CASE PollShell(c) \/ PollFails(c)
  BY <1>3 DEF PollShell, PollFails
<1>4. CASE DrainRest(c)
  BY <1>4 DEF DrainRest
<1>5. CASE InspectJob(c) \/ TerminateJob(c) \/ ConfirmCleanup(c) \/ CloseHandles(c)
  BY <1>5 DEF InspectJob, TerminateJob, ConfirmCleanup, AfterCleanup, CloseHandles
<1> QED
  BY <1>1, <1>2, <1>3, <1>4, <1>5 DEF ShellStep

\* A result is recorded and reported when it is final, and its record says
\* whether anything started.
LEMMA RecordIsTrueStep ==
  ASSUME TypeOK, OneAtATime, Received, Untouched, RecordIsTrue, [Next]_vars
  PROVE  RecordIsTrue'
<1> USE DEF TypeOK, RecordIsTrue, EndRecords, FinishedRecord
<1>1. CASE Quiet
  BY <1>1 DEF Quiet, resultVars
<1>2. CASE Crash
  <2>1. \A c \in Command : thread'[c] # "shell"
    BY <1>2 DEF Crash, Dropped, Busy
  <2>2. ASSUME NEW c \in Command
        PROVE  /\ thread'[c] = "done" => UNCHANGED <<thread[c], outcome[c], started[c], cleanup[c]>>
               /\ thread[c] = "done" => thread'[c] = "done"
               /\ started'[c] => started[c]
    BY <1>2 DEF Crash, Dropped, Busy, ShellTypeOK
  <2>3. UNCHANGED <<audit, recorded, reported>>
    BY <1>2 DEF Crash, outsideVars
  <2>4. ASSUME NEW c \in Command
        PROVE  /\ \A r \in EndRecords(c)' : r = UnknownRecord \/ (thread'[c] = "done" /\ r = FinishedRecord(c)')
               /\ recorded'[c] => thread'[c] = "done" /\ FinishedRecord(c)' \in audit'[c]
    <3>1. CASE thread[c] = "done"
      <4>1. FinishedRecord(c)' = FinishedRecord(c) /\ thread'[c] = "done"
        BY <2>2, <3>1
      <4> QED
        BY <2>3, <4>1
    <3>2. CASE thread[c] # "done"
      BY <2>3, <3>2
    <3> QED
      BY <3>1, <3>2
  <2> QED
    BY <2>1, <2>2, <2>3, <2>4
<1>3. ASSUME NEW c \in Command, Took(c) \/ Deliver(c) \/ Prompted(c) \/ Act(c) \/ AuditApproved(c)
      PROVE  RecordIsTrue'
  <2>1. thread[c] \in Before
    BY <1>3 DEF Took, Received, Deliver, Prompted, Act, AuditApproved, Before
  <2>2. /\ UNCHANGED <<shell, started, outcome, cleanup, recorded, reported>>
        /\ \A d \in Command \ {c} : thread'[d] = thread[d] /\ audit'[d] = audit[d]
        /\ audit'[c] \in {audit[c], audit[c] \cup {ApprovedRecord}}
    BY <1>3 DEF Took, Deliver, Prompted, Act, Launch, UseWindowOrFile, UseInput, Reach, Refuse,
                AuditApproved, Move, shellVars, resultVars, outsideVars
  <2> QED
    BY <2>1, <2>2 DEF Untouched, Before
<1>4. ASSUME NEW c \in Command, AuditFinished(c)
      PROVE  RecordIsTrue'
  <2>1. UNCHANGED <<shell, resultVars, reported>>
    BY <1>4 DEF AuditFinished, shellVars
  <2>2. \A d \in Command \ {c} :
          thread'[d] = thread[d] /\ audit'[d] = audit[d] /\ recorded'[d] = recorded[d]
    BY <1>4 DEF AuditFinished, Move
  <2>3. thread[c] = "shell" /\ ~recorded[c] /\ \A r \in EndRecords(c) : r = UnknownRecord
    BY <1>4 DEF AuditFinished
  <2>4. CASE thread'[c] = "failed"
    <3>1. audit'[c] \in {audit[c], audit[c] \cup {UnknownRecord}} /\ ~recorded'[c]
      BY <1>4, <2>3, <2>4 DEF AuditFinished, Move
    <3> QED
      BY <2>1, <2>2, <2>3, <2>4, <3>1 DEF resultVars
  <2>5. CASE thread'[c] = "done"
    <3>1. \/ audit'[c] = audit[c] /\ ~recorded'[c]
          \/ audit'[c] = audit[c] \cup {FinishedRecord(c)}
      BY <1>4, <2>3, <2>5 DEF AuditFinished, Move
    <3> QED
      BY <2>1, <2>2, <2>3, <2>5, <3>1 DEF resultVars
  <2> QED
    BY <1>4, <2>4, <2>5 DEF AuditFinished, Move
<1>5. ASSUME NEW c \in Command, ShellEntered(c) \/ ShellRuns(c)
      PROVE  RecordIsTrue'
  <2>1. UNCHANGED <<thread, audit, recorded, reported>> /\ thread[c] = "shell"
    BY <1>5 DEF ShellEntered, ShellRuns, InShell
  <2>2. \A d \in Command \ {c} :
          UNCHANGED <<shell[d], outcome[d], started[d], cleanup[d]>>
    BY <1>5, ShellFrame DEF ShellEntered, ShellRuns
  <2>3. /\ shell'[c] = "poll" => started'[c]
        /\ outcome'[c] = "exited" => started'[c]
    <3>1. CASE ShellEntered(c)
      BY <3>1 DEF ShellEntered, InShell, EnterShell, StopCause, ShellTypeOK
    <3>2. CASE ShellRuns(c)
      BY <2>1, <3>2, ShellStarts, ShellExits DEF ShellRuns
    <3> QED
      BY <1>5, <3>1, <3>2
  <2>4. ASSUME NEW d \in Command
        PROVE  /\ \A r \in EndRecords(d)' : r = UnknownRecord \/ (thread'[d] = "done" /\ r = FinishedRecord(d)')
               /\ recorded'[d] => thread'[d] = "done" /\ FinishedRecord(d)' \in audit'[d]
    <3>1. CASE d = c
      BY <2>1, <3>1
    <3>2. CASE d # c
      BY <2>1, <2>2, <3>2
    <3> QED
      BY <3>1, <3>2
  <2> QED
    BY <2>1, <2>2, <2>3, <2>4
<1>6. ASSUME NEW c \in Command, ProcessesRun(c)
      PROVE  RecordIsTrue'
  BY <1>6 DEF ProcessesRun, Spawn, WriteOutput, ExitProcess, Die, threadVars, resultVars
<1> QED
  BY Kinds, <1>1, <1>2, <1>3, <1>4, <1>5, <1>6

\* The invariant is inductive.
LEMMA StepLInv ==
  ASSUME LInv, [Next]_vars
  PROVE  LInv'
BY TypeStep, OneAtATimeStep, NothingOutlivesRunStep, ReceivedStep, UntouchedStep, AskedStep,
   ApprovedStep, StartedIsEffectStep, CleanupIsTrueStep, RecordIsTrueStep DEF LInv

\* The story holds in every reachable state.
THEOREM Invariance == Spec => []LInv
<1>1. LInv /\ [Next]_vars => LInv'
  BY StepLInv
<1> QED
  BY InitLInv, <1>1, PTL DEF Spec

-----------------------------------------------------------------------------
(* What the runs check.                                                    *)

\* Every variable of the agent and of run_shell keeps to its values
\* (agent.py, shell_runner.py).
THEOREM Types == Spec => []TypeOK
<1>1. LInv => TypeOK
  BY DEF LInv
<1> QED
  BY <1>1, Invariance, PTL

\* Nothing is read or done on the PC without the user's APPROVE at the prompt,
\* and no shell command runs without its record in the audit file (agent.py
\* _require, run_command).
THEOREM Approval == Spec => []ApprovedBeforeEffect
<1>1. LInv => ApprovedBeforeEffect
  BY DEF LInv
<1> QED
  BY <1>1, Invariance, PTL

\* No process of a command outlives its run_shell, however that ends
\* (shell_runner.py run_shell).
THEOREM NoOrphans == Spec => []NothingOutlivesRun
<1>1. LInv => NothingOutlivesRun
  BY DEF LInv
<1> QED
  BY <1>1, Invariance, PTL

\* Commands never overlap, also across connections (agent.py
\* _run_with_disconnect).
THEOREM Sequential == Spec => []OneAtATime
<1>1. LInv => OneAtATime
  BY DEF LInv
<1> QED
  BY <1>1, Invariance, PTL

\* What the server is told and the audit file keeps of a shell command is so:
\* not_started, cleanup_confirmed, and success (shell_runner.py ShellResult,
\* execution_audit.py).
THEOREM TrueReports == Spec => []ReportsAreTrue
<1>1. ASSUME LInv PROVE ReportsAreTrue
  <2> SUFFICES ASSUME NEW c \in Shell
               PROVE  /\ \A r \in EndRecords(c) :
                           /\ r.effect = "not_started" => c \notin effect
                           /\ r.cleanup => CleanedUp(c)
                      /\ thread[c] = "done" =>
                           (started[c] <=> c \in effect) /\ (cleanup[c] => CleanedUp(c))
                      /\ (shell[c] = "closing" /\ outcome[c] = "exited" /\ cleanup[c]) => pipe[c] = 0
                      /\ ToolSuccess(c) =>
                           /\ c \in effect
                           /\ \E r \in EndRecords(c) : r.outcome = "exited" /\ r.effect = "not_verified"
    BY DEF ReportsAreTrue
  <2> USE <1>1, AgentAssumption DEF LInv
  <2>1. c \in Command
    OBVIOUS
  <2>2. thread[c] = "done" => (started[c] <=> c \in effect) /\ (cleanup[c] => CleanedUp(c))
    BY <2>1 DEF StartedIsEffect, CleanupIsTrue, CleanupOf
  <2>3. (shell[c] = "closing" /\ outcome[c] = "exited" /\ cleanup[c]) => pipe[c] = 0
    BY <2>1 DEF CleanupIsTrue, CleanupOf
  <2>4. ASSUME NEW r \in EndRecords(c)
        PROVE  /\ r.effect = "not_started" => c \notin effect
               /\ r.cleanup => CleanedUp(c)
    <3>1. r = UnknownRecord \/ (thread[c] = "done" /\ r = FinishedRecord(c))
      BY <2>1, <2>4 DEF RecordIsTrue
    <3>2. CASE r = UnknownRecord
      BY <3>2 DEF UnknownRecord
    <3>3. CASE thread[c] = "done" /\ r = FinishedRecord(c)
      <4>1. r.effect = "not_started" => ~started[c]
        BY <3>3 DEF FinishedRecord
      <4>2. r.cleanup = cleanup[c]
        BY <3>3 DEF FinishedRecord
      <4> QED
        BY <2>2, <3>3, <4>1, <4>2
    <3> QED
      BY <3>1, <3>2, <3>3
  <2>5. ASSUME ToolSuccess(c)
        PROVE  /\ c \in effect
               /\ \E r \in EndRecords(c) : r.outcome = "exited" /\ r.effect = "not_verified"
    <3>1. started[c] /\ outcome[c] = "exited" /\ c \in effect
      BY <2>1, <2>2, <2>5 DEF ToolSuccess, RecordIsTrue
    <3>2. FinishedRecord(c).outcome = "exited" /\ FinishedRecord(c).effect = "not_verified"
      BY <3>1 DEF FinishedRecord
    <3>3. FinishedRecord(c) # ApprovedRecord
      BY <3>2 DEF ApprovedRecord
    <3>4. FinishedRecord(c) \in EndRecords(c)
      BY <2>1, <2>5, <3>3 DEF ToolSuccess, RecordIsTrue, EndRecords
    <3> QED
      BY <3>1, <3>2, <3>4
  <2> QED
    BY <2>2, <2>3, <2>4, <2>5
<1> QED
  BY <1>1, Invariance, PTL
=============================================================================
