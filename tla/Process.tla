------------------------------ MODULE Process ------------------------------
(***************************************************************************)
(* runCommand() of core/process.cpp: one command, its merged output, a     *)
(* time limit and a Stop flag.  The probes of the checker (8 s), the       *)
(* local steps and checksums of a session (15 min, 1 min) and the          *)
(* questions put to the system (2 to 5 s) all run through it.              *)
(*                                                                         *)
(* Output is a number of chunks: what is kept is a prefix of what was      *)
(* written, so its length tells all.  A process that the command has       *)
(* started, here the grandchild, has the same pipe for its output.         *)
(***************************************************************************)
EXTENDS Naturals

CONSTANTS MaxOutput,   \* kMaxOutput, in chunks
          MaxWritten   \* chunks written, a bound for TLC

ASSUME ProcessAssumption == MaxOutput \in Nat \ {0} /\ MaxWritten \in Nat

VARIABLES
  pc,              \* where the caller's thread is
  child,           \* the command: running, a zombie, reaped
  status,          \* how it ended
  sigkill,         \* SIGKILL has been sent to it while it ran
  holders,         \* who has the pipe's write end open
  grandchild,      \* the command has started another process
  pipe, written,   \* chunks in the pipe, and ever written or meant for it
  output, exitCode, timedOut, cancelled,   \* CommandResult
  killed,          \* the local of that name
  broken,          \* poll() or read() has failed
  late,            \* timeoutMs have passed
  cancelRequested  \* what cancelled() returns

processVars == <<child, status, sigkill, holders, grandchild, written>>
resultVars == <<output, exitCode, timedOut, cancelled>>
flags == <<late, cancelRequested>>
runnerVars == <<pc, processVars, pipe, resultVars, killed, broken, flags>>

(* Exit codes, 127 among the others, and what stands for -1.                 *)
Codes == {"zero", "other"}
NoCode == "-1"

ProcessInit ==
  /\ pc = "start" /\ child = "none" /\ status = "none" /\ sigkill = FALSE
  /\ holders = {} /\ grandchild = FALSE /\ pipe = 0 /\ written = 0
  /\ output = 0 /\ exitCode = NoCode /\ timedOut = FALSE /\ cancelled = FALSE
  /\ killed = FALSE /\ broken = FALSE /\ late = FALSE /\ cancelRequested \in BOOLEAN

------------------------------------------------------------------------------
(* The caller *)

(* No argument, no pipe or no process: the result as it was made.            *)
NotStarted ==
  /\ pc = "start" /\ pc' = "returned"
  /\ UNCHANGED <<processVars, pipe, resultVars, killed, broken, flags>>

Start ==
  /\ pc = "start" /\ pc' = "read" /\ child' = "running" /\ holders' = {"child"}
  /\ UNCHANGED <<status, sigkill, grandchild, pipe, written, resultVars, killed, broken, flags>>

(* kill() of a zombie does nothing. *)
Kill == killed' = TRUE /\ sigkill' = (sigkill \/ child = "running")

(* Stop comes before the time limit, and only one of the two is reported.    *)
GiveUp ==
  /\ \/ cancelRequested /\ cancelled' = TRUE /\ UNCHANGED timedOut
     \/ ~cancelRequested /\ late /\ timedOut' = TRUE /\ UNCHANGED cancelled
  /\ Kill

StopReading ==
  /\ pc = "read" /\ GiveUp /\ pc' = "reap"
  /\ UNCHANGED <<child, status, holders, grandchild, pipe, written, output, exitCode, broken, flags>>

Reading == pc = "read" /\ ~cancelRequested /\ ~late

(* appendChunk() *)
Kept(size) == IF output + size > MaxOutput THEN MaxOutput ELSE output + size

ReadChunk ==
  /\ Reading
  /\ \E size \in 1..pipe : pipe' = pipe - size /\ output' = Kept(size)
  /\ UNCHANGED <<pc, processVars, exitCode, timedOut, cancelled, killed, broken, flags>>

NothingToRead == pipe = 0                                               \* mutant
AtEnd == pipe = 0 /\ holders = {}

EndOfStream ==
  /\ Reading /\ AtEnd /\ pc' = "reap"
  /\ UNCHANGED <<processVars, pipe, resultVars, killed, broken, flags>>

ReadFails ==
  /\ Reading /\ broken' = TRUE /\ pc' = "reap"
  /\ UNCHANGED <<processVars, pipe, resultVars, killed, flags>>

ChildHasEnded == child = "zombie"

(* waitpid() with WNOHANG: the child has gone, or the flags are looked at.   *)
(* It has no other way to fail: nobody else waits for this child.            *)
WaitPid ==
  /\ pc = "reap"
  /\ IF ChildHasEnded THEN pc' = "reaped" ELSE pc' = "look"
  /\ child' = IF child = "zombie" THEN "reaped" ELSE child
  /\ UNCHANGED <<status, sigkill, holders, grandchild, pipe, written, resultVars, killed, broken, flags>>

LooksOnlyWhileReading == FALSE                                          \* mutant
MustGiveUp == ~killed /\ (cancelRequested \/ late)

Look ==
  /\ pc = "look" /\ pc' = "reap"
  /\ \/ MustGiveUp /\ GiveUp
     \/ ~MustGiveUp
        /\ UNCHANGED <<timedOut, cancelled, killed, sigkill>>
  /\ UNCHANGED <<child, status, holders, grandchild, pipe, written, output, exitCode, broken, flags>>

CodeAsReaped == IF status \in Codes THEN status ELSE NoCode             \* mutant
CodeOf == IF timedOut \/ cancelled \/ status \notin Codes THEN NoCode ELSE status

Return ==
  /\ pc = "reaped" /\ pc' = "returned" /\ exitCode' = CodeOf
  /\ UNCHANGED <<processVars, pipe, output, timedOut, cancelled, killed, broken, flags>>

Runner == \/ NotStarted \/ Start \/ StopReading \/ ReadChunk \/ EndOfStream \/ ReadFails
          \/ WaitPid \/ Look \/ Return

------------------------------------------------------------------------------
(* The command, the process it has started, the clock and the user           *)

(* A write fails once the caller has closed its end of the pipe.             *)
Write ==
  /\ holders # {} /\ written < MaxWritten /\ written' = written + 1
  /\ pipe' = IF pc = "read" THEN pipe + 1 ELSE pipe
  /\ UNCHANGED <<pc, child, status, sigkill, holders, grandchild, resultVars, killed, broken, flags>>

ForkGrandchild ==
  /\ child = "running" /\ "child" \in holders /\ ~grandchild
  /\ grandchild' = TRUE /\ holders' = holders \cup {"grandchild"}
  /\ UNCHANGED <<pc, child, status, sigkill, pipe, written, resultVars, killed, broken, flags>>

(* The writer closes its output, or the grandchild ends.                     *)
CloseOutput ==
  /\ \E who \in holders : holders' = holders \ {who}
  /\ UNCHANGED <<pc, child, status, sigkill, grandchild, pipe, written, resultVars, killed, broken,
                 flags>>

Ended(how) == child = "running" /\ child' = "zombie" /\ status' = how
              /\ holders' = holders \ {"child"}
BesideChild == UNCHANGED <<pc, sigkill, grandchild, pipe, written, resultVars, killed, broken, flags>>

(* It ends by itself, 127 if it could not be executed, or by a signal of     *)
(* somebody else's.                                                          *)
ChildEnds == (\E how \in Codes \cup {"signal"} : Ended(how)) /\ BesideChild

ChildKilled == sigkill /\ Ended("signal") /\ BesideChild

Deadline ==
  /\ ~late /\ pc # "returned" /\ late' = TRUE
  /\ UNCHANGED <<pc, processVars, pipe, resultVars, killed, broken, cancelRequested>>

Cancel ==
  /\ ~cancelRequested /\ pc # "returned" /\ cancelRequested' = TRUE
  /\ UNCHANGED <<pc, processVars, pipe, resultVars, killed, broken, late>>

Rest == pc = "returned" /\ UNCHANGED runnerVars

ProcessNext ==
  \/ Runner \/ Write \/ ForkGrandchild \/ CloseOutput \/ ChildEnds \/ ChildKilled
  \/ Deadline \/ Cancel \/ Rest

ProcessSpec == ProcessInit /\ [][ProcessNext]_runnerVars

(* Every caller sets a time limit.  The command need not do anything.        *)
ProcessFairSpec ==
  ProcessSpec /\ WF_runnerVars(Runner) /\ WF_runnerVars(ChildKilled) /\ WF_runnerVars(Deadline)

------------------------------------------------------------------------------
(* Properties *)

ProcessTypeOK ==
  /\ pc \in {"start", "read", "reap", "look", "reaped", "returned"}
  /\ child \in {"none", "running", "zombie", "reaped"} /\ status \in Codes \cup {"none", "signal"}
  /\ holders \subseteq {"child", "grandchild"}
  /\ {sigkill, grandchild, timedOut, cancelled, killed, broken, late, cancelRequested} \subseteq BOOLEAN
  /\ pipe \in 0..written /\ written \in 0..MaxWritten
  /\ output \in 0..MaxOutput /\ exitCode \in Codes \cup {NoCode}

Returned == pc = "returned"

(* What callers ask of the result: an exit code is that of the command, one  *)
(* that has neither been stopped nor timed out; -1 has one reason, which is  *)
(* one of the flags, a signal, or that nothing was started (process.h:17).   *)
ResultTellsWhatHappened ==
  Returned =>
    /\ exitCode # NoCode => exitCode = status /\ ~timedOut /\ ~cancelled
    /\ exitCode = NoCode => child = "none" \/ timedOut \/ cancelled \/ status = "signal"
    /\ ~(timedOut /\ cancelled) /\ (timedOut => late) /\ (cancelled => cancelRequested)

(* An answer with an exit code has the whole output up to the limit of 8 MB, *)
(* that of processes which outlive the command included: the last writer may *)
(* close the pipe before or after the command ends, and the command may run  *)
(* on after it has closed its output (process.cpp:105).                      *)
SuccessIsComplete ==
  Returned /\ exitCode # NoCode /\ ~broken => output = (IF written > MaxOutput THEN MaxOutput ELSE written)

(* The caller's thread returns, also when the command hangs with its output  *)
(* open or closed, or leaves a process behind that keeps the pipe, and then  *)
(* the command has gone: a killed one is waited for too (process.cpp:109).   *)
Returns == <>(Returned /\ child \in {"none", "reaped"})
=============================================================================
