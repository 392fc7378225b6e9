---------------------------- MODULE ShellRunner ----------------------------
(***************************************************************************)
(* run_shell of the companion agent (local_agent/shell_runner.py): an      *)
(* approved command is run in a Windows job object, watched, and cleaned   *)
(* up.  Every command has its own job; the processes of a job are the      *)
(* elements of Proc, Root being the cmd.exe that run_shell creates.        *)
(*                                                                         *)
(* Windows is external.  A process that was terminated is "dying" until    *)
(* its handle is signalled: the job no longer counts it as active and it   *)
(* runs nothing.  Output is counted in units; the two pipes share their    *)
(* allowance and are one pipe here.                                        *)
(***************************************************************************)
EXTENDS Naturals, FiniteSets

CONSTANTS
  Command,    \* commands the server sends, each with its own request_id
  Proc, Root, \* processes a job can have, and the one created by run_shell
  MaxOutput,  \* max_output_bytes
  PipeSize    \* what the pipes hold

ASSUME ShellAssumption ==
  /\ Root \in Proc
  /\ MaxOutput \in Nat
  /\ PipeSize \in Nat \ {0}

VARIABLES
  cancelled,  \* commands whose cancel event is set
  clock,      \* how far time has come: the shell's timeout, the command's deadline
  shell,      \* where run_shell of each command is
  proc,       \* the processes of each command's job
  pipe,       \* output written and not yet read
  observed,   \* output read
  members,    \* processes _terminate_and_confirm found in the job, kept after the call
  listed,     \* those of them that it holds handles of
  inspected,  \* its enumeration of the job succeeded
  outcome,    \* outcome, started, cleanup_confirmed, returncode of the ShellResult
  started,
  cleanup,
  returncode

procVars  == <<proc, pipe>>
watchVars == <<observed, members, listed, inspected>>
resultVars == <<outcome, started, cleanup, returncode>>
shellVars == <<cancelled, clock, shell, procVars, watchVars, resultVars>>

InCall == {"setup", "create", "created", "poll", "inspect", "terminate", "confirm", "drain", "closing"}
Failure == {"startup_failed", "runtime_error", "raised"}

ShellTypeOK ==
  /\ cancelled \subseteq Command
  /\ clock \in [Command -> {"early", "timeUp", "expired"}]
  /\ shell \in [Command -> {"off", "returned"} \cup InCall]
  /\ proc \in [Command -> [Proc -> {"none", "suspended", "running", "dying", "gone"}]]
  /\ pipe \in [Command -> 0..PipeSize]
  /\ observed \in [Command -> 0..(MaxOutput + 1)]
  /\ members \in [Command -> SUBSET Proc]
  /\ listed \in [Command -> SUBSET Proc]
  /\ inspected \in [Command -> BOOLEAN]
  /\ outcome \in [Command -> {"none", "exited", "timed_out", "cancelled", "output_limit"} \cup Failure]
  /\ started \in [Command -> BOOLEAN]
  /\ cleanup \in [Command -> BOOLEAN]
  /\ returncode \in [Command -> {"none", "zero", "nonzero"}]

ShellInit ==
  /\ cancelled = {}
  /\ clock = [c \in Command |-> "early"]
  /\ shell = [c \in Command |-> "off"]
  /\ proc = [c \in Command |-> [p \in Proc |-> "none"]]
  /\ pipe = [c \in Command |-> 0]
  /\ observed = [c \in Command |-> 0]
  /\ members = [c \in Command |-> {}]
  /\ listed = [c \in Command |-> {}]
  /\ inspected = [c \in Command |-> FALSE]
  /\ outcome = [c \in Command |-> "none"]
  /\ started = [c \in Command |-> FALSE]
  /\ cleanup = [c \in Command |-> TRUE]
  /\ returncode = [c \in Command |-> "none"]

Active(c) == {p \in Proc : proc[c][p] \in {"suspended", "running"}}

\* The checks of run_shell: cancellation first, then its own end.
Stopped(c)   == c \in cancelled \/ clock[c] # "early"
StopCause(c) == IF c \in cancelled THEN "cancelled" ELSE "timed_out"

\* TerminateJobObject, and closing the last handle of a kill-on-close job.
KillJob(c) ==
  proc' = [proc EXCEPT ![c] = [p \in Proc |-> IF p \in Active(c) THEN "dying" ELSE @[p]]]

----------------------------------------------------------------------------
(* The call, up to the process it creates.                                 *)

\* The first checks; a platform other than Windows executes nothing.
EnterShell(c) ==
  /\ shell[c] = "off"
  /\ \/ /\ Stopped(c)
        /\ outcome' = [outcome EXCEPT ![c] = StopCause(c)]
        /\ shell' = [shell EXCEPT ![c] = "returned"]
     \/ /\ ~Stopped(c)
        /\ outcome' = [outcome EXCEPT ![c] = "startup_failed"]
        /\ shell' = [shell EXCEPT ![c] = "returned"]
     \/ /\ ~Stopped(c)
        /\ shell' = [shell EXCEPT ![c] = "setup"]
        /\ UNCHANGED outcome
  /\ UNCHANGED <<cancelled, clock, procVars, watchVars, started, cleanup, returncode>>

\* _check, after any call that makes the job, the pipes, the attributes or the
\* process: the OSError leaves through the exit stack, which closes what was
\* made so far.
SetupFails(c) ==
  /\ outcome' = [outcome EXCEPT ![c] = "startup_failed"]
  /\ shell' = [shell EXCEPT ![c] = "closing"]

\* The job with its limits, the pipes and the attributes are made; then the
\* checks again.
SetUpJob(c) ==
  /\ shell[c] = "setup"
  /\ \/ SetupFails(c)
     \/ /\ Stopped(c)
        /\ outcome' = [outcome EXCEPT ![c] = StopCause(c)]
        /\ shell' = [shell EXCEPT ![c] = "closing"]
     \/ /\ ~Stopped(c)
        /\ shell' = [shell EXCEPT ![c] = "create"]
        /\ UNCHANGED outcome
  /\ UNCHANGED <<cancelled, clock, procVars, watchVars, started, cleanup, returncode>>

\* CreateProcessW, suspended and inside the job from the start.
CreateProcess(c) ==
  /\ shell[c] = "create"
  /\ \/ SetupFails(c) /\ UNCHANGED <<proc, cleanup>>
     \/ /\ proc' = [proc EXCEPT ![c][Root] = "suspended"]
        /\ cleanup' = [cleanup EXCEPT ![c] = FALSE]
        /\ shell' = [shell EXCEPT ![c] = "created"]
        /\ UNCHANGED outcome
  /\ UNCHANGED <<cancelled, clock, pipe, watchVars, started, returncode>>

\* Checked once more while the process is suspended.
ResumeThread(c) ==
  /\ shell[c] = "created"
  /\ \/ /\ \/ Stopped(c) /\ outcome' = [outcome EXCEPT ![c] = StopCause(c)]
           \/ ~Stopped(c) /\ outcome' = [outcome EXCEPT ![c] = "startup_failed"]
        /\ shell' = [shell EXCEPT ![c] = "inspect"]
        /\ UNCHANGED <<proc, started>>
     \/ /\ ~Stopped(c)
        /\ proc' = [proc EXCEPT ![c][Root] = "running"]
        /\ started' = [started EXCEPT ![c] = TRUE]
        /\ shell' = [shell EXCEPT ![c] = "poll"]
        /\ UNCHANGED outcome
  /\ UNCHANGED <<cancelled, clock, pipe, watchVars, cleanup, returncode>>

----------------------------------------------------------------------------
(* Watching the process.                                                   *)

\* One pass of _drain: something, if there is anything, within the allowance.
DrainSizes(c) ==
  LET allowance == MaxOutput + 1 - observed[c]
      most == IF pipe[c] < allowance THEN pipe[c] ELSE allowance
  IN  IF most = 0 THEN {0} ELSE 1..most

Drain(c, n) ==
  /\ pipe' = [pipe EXCEPT ![c] = @ - n]
  /\ observed' = [observed EXCEPT ![c] = @ + n]

\* One round of the poll loop.
PollShell(c) ==
  /\ shell[c] = "poll"
  /\ \/ /\ Stopped(c)
        /\ outcome' = [outcome EXCEPT ![c] = StopCause(c)]
        /\ shell' = [shell EXCEPT ![c] = "inspect"]
        /\ UNCHANGED <<pipe, observed, returncode>>
     \/ /\ ~Stopped(c)
        /\ \E n \in DrainSizes(c) :
             /\ Drain(c, n)
             /\ \/ /\ observed[c] + n > MaxOutput
                   /\ outcome' = [outcome EXCEPT ![c] = "output_limit"]
                   /\ shell' = [shell EXCEPT ![c] = "inspect"]
                   /\ UNCHANGED returncode
                \/ /\ observed[c] + n <= MaxOutput
                   /\ proc[c][Root] = "gone"
                   /\ outcome' = [outcome EXCEPT ![c] = "exited"]
                   /\ \E code \in {"zero", "nonzero"} : returncode' = [returncode EXCEPT ![c] = code]
                   /\ shell' = [shell EXCEPT ![c] = "inspect"]
                \/ /\ observed[c] + n <= MaxOutput
                   /\ proc[c][Root] # "gone"
                   /\ UNCHANGED <<outcome, returncode, shell>>
  /\ UNCHANGED <<cancelled, clock, proc, members, listed, inspected, started, cleanup>>

\* A call of the loop fails: an OSError becomes an outcome, any other
\* exception leaves run_shell after its cleanup.
PollFails(c) ==
  /\ shell[c] = "poll"
  /\ \E o \in {"runtime_error", "raised"} : outcome' = [outcome EXCEPT ![c] = o]
  /\ shell' = [shell EXCEPT ![c] = "inspect"]
  /\ UNCHANGED <<cancelled, clock, procVars, watchVars, started, cleanup, returncode>>

----------------------------------------------------------------------------
(* _terminate_and_confirm, the residual output and the end of the call.    *)

\* The members of the job are opened; the list is incomplete when the query
\* or the opening of a live member fails.
InspectJob(c) ==
  /\ shell[c] = "inspect"
  /\ members' = [members EXCEPT ![c] = Active(c)]
  /\ \E opened \in SUBSET Active(c) :
       /\ listed' = [listed EXCEPT ![c] = opened]
       /\ \/ inspected' = [inspected EXCEPT ![c] = FALSE]
          \/ opened = Active(c) /\ inspected' = [inspected EXCEPT ![c] = TRUE]
  /\ shell' = [shell EXCEPT ![c] = "terminate"]
  /\ UNCHANGED <<cancelled, clock, procVars, observed, resultVars>>

\* Where the call goes on after its finally clause: an exception skips the
\* residual output.
AfterCleanup(c) == IF outcome[c] \in Failure THEN "closing" ELSE "drain"

TerminateJob(c) ==
  /\ shell[c] = "terminate"
  /\ \/ shell' = [shell EXCEPT ![c] = AfterCleanup(c)] /\ UNCHANGED proc
     \/ shell' = [shell EXCEPT ![c] = "confirm"] /\ KillJob(c)
  /\ UNCHANGED <<cancelled, clock, pipe, watchVars, resultVars>>

\* Nothing is active and every handle held is signalled.
Confirmed(c) == Active(c) = {} /\ \A p \in listed[c] \cup {Root} : proc[c][p] = "gone"

\* Confirmed in time, or given up because time is over or the query failed.
\* (Mutant first: an incomplete list is taken for the whole job.)
ConfirmListed(c) ==
  /\ shell[c] = "confirm"
  /\ \/ Confirmed(c) /\ cleanup' = [cleanup EXCEPT ![c] = TRUE]
     \/ UNCHANGED cleanup
  /\ shell' = [shell EXCEPT ![c] = AfterCleanup(c)]
  /\ UNCHANGED <<cancelled, clock, procVars, watchVars, outcome, started, returncode>>

ConfirmCleanup(c) ==
  /\ shell[c] = "confirm"
  /\ \/ Confirmed(c) /\ cleanup' = [cleanup EXCEPT ![c] = inspected[c]]
     \/ UNCHANGED cleanup
  /\ shell' = [shell EXCEPT ![c] = AfterCleanup(c)]
  /\ UNCHANGED <<cancelled, clock, procVars, watchVars, outcome, started, returncode>>

DrainRest(c) ==
  /\ shell[c] = "drain"
  /\ \/ \E n \in DrainSizes(c) :
          /\ Drain(c, n)
          /\ \/ /\ observed[c] + n > MaxOutput
                /\ outcome' = [outcome EXCEPT ![c] = IF @ = "exited" THEN "output_limit" ELSE @]
                /\ shell' = [shell EXCEPT ![c] = "closing"]
             \/ /\ observed[c] + n <= MaxOutput
                /\ shell' = [shell EXCEPT ![c] = IF n = 0 THEN "closing" ELSE "drain"]
                /\ UNCHANGED outcome
     \/ /\ outcome' = [outcome EXCEPT ![c] = IF started[c] THEN "runtime_error" ELSE "startup_failed"]
        /\ shell' = [shell EXCEPT ![c] = "closing"]
        /\ UNCHANGED <<pipe, observed>>
  /\ UNCHANGED <<cancelled, clock, proc, members, listed, inspected, started, cleanup, returncode>>

ClosePipes(c) ==
  /\ pipe' = [pipe EXCEPT ![c] = 0]
  /\ observed' = [observed EXCEPT ![c] = 0]
  /\ listed' = [listed EXCEPT ![c] = {}]
  /\ inspected' = [inspected EXCEPT ![c] = FALSE]
  /\ UNCHANGED members

\* The exit stack closes every handle, the job's among them, and the call's
\* variables end with it.
\* (Mutant first: the job was made without its kill-on-close limit.)
CloseHandlesOnly(c) ==
  /\ shell[c] = "closing"
  /\ shell' = [shell EXCEPT ![c] = "returned"]
  /\ ClosePipes(c)
  /\ UNCHANGED <<cancelled, clock, proc, resultVars>>

CloseHandles(c) ==
  /\ shell[c] = "closing"
  /\ KillJob(c)
  /\ shell' = [shell EXCEPT ![c] = "returned"]
  /\ ClosePipes(c)
  /\ UNCHANGED <<cancelled, clock, resultVars>>

ShellStep(c) ==
  \/ SetUpJob(c) \/ CreateProcess(c) \/ ResumeThread(c) \/ PollShell(c) \/ PollFails(c)
  \/ InspectJob(c) \/ TerminateJob(c) \/ ConfirmCleanup(c) \/ DrainRest(c) \/ CloseHandles(c)

----------------------------------------------------------------------------
(* The processes of the job, and time.                                     *)

Spawn(c) ==
  /\ \E p \in Proc : proc[c][p] = "running"
  /\ \E p \in Proc : proc[c][p] = "none" /\ proc' = [proc EXCEPT ![c][p] = "running"]
  /\ UNCHANGED <<cancelled, clock, shell, pipe, watchVars, resultVars>>

WriteOutput(c) ==
  /\ \E p \in Proc : proc[c][p] = "running"
  /\ pipe[c] < PipeSize
  /\ pipe' = [pipe EXCEPT ![c] = @ + 1]
  /\ UNCHANGED <<cancelled, clock, shell, proc, watchVars, resultVars>>

ExitProcess(c) ==
  /\ \E p \in Proc :
       /\ proc[c][p] = "running"
       /\ proc' = [proc EXCEPT ![c][p] = "gone"]
  /\ UNCHANGED <<cancelled, clock, shell, pipe, watchVars, resultVars>>

Die(c) ==
  /\ \E p \in Proc : proc[c][p] = "dying" /\ proc' = [proc EXCEPT ![c][p] = "gone"]
  /\ UNCHANGED <<cancelled, clock, shell, pipe, watchVars, resultVars>>

\* The shell's timeout comes no later than the command's deadline.
TimeUp(c) ==
  /\ clock[c] = "early"
  /\ shell[c] \in InCall
  /\ clock' = [clock EXCEPT ![c] = "timeUp"]
  /\ UNCHANGED <<cancelled, shell, procVars, watchVars, resultVars>>

Expire(c) ==
  /\ clock[c] # "expired"
  /\ clock' = [clock EXCEPT ![c] = "expired"]
  /\ UNCHANGED <<cancelled, shell, procVars, watchVars, resultVars>>
=============================================================================
