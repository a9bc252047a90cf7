------------------------------- MODULE Session -------------------------------
(***************************************************************************)
(* One privileged session, end to end: the worker thread of HelperSession  *)
(* (ui/helpersession.cpp), the server and executor of the root helper      *)
(* (helper/server.cpp, helper/executor.cpp), the command it runs, the      *)
(* stream socket between the two processes, the queue of events the worker *)
(* posts to the main thread, and the user pressing Stop.                   *)
(*                                                                         *)
(* A message is one line.  Output lines only reach the log and are left    *)
(* out.  What the two processes have sent and not yet read is toHelper and *)
(* toClient; the client's own line buffer is kept apart, because           *)
(* readLine() looks at it before it looks at the Stop flag.                *)
(***************************************************************************)
EXTENDS Integers, Sequences, FiniteSets

CONSTANTS StepId,     \* identifiers of install steps
          NoStep,     \* an empty dependsOn, and the id of an event of no step
          Plans,      \* the plans the builder may return
          ExitCodes,  \* the exit codes commands have
          Crashes     \* which of "helper" and "gui" may die

Lost == -1            \* the code of a command that has no exit code
Codes == ExitCodes \cup {Lost}

Step == [id : StepId, dependsOn : StepId \cup {NoStep}, local : BOOLEAN,
         verify : BOOLEAN, check : BOOLEAN, command : BOOLEAN, optional : BOOLEAN,
         permitted : BOOLEAN, allowed : SUBSET ExitCodes]

ASSUME NamesAssumption == NoStep \notin StepId
ASSUME ExitCodesAssumption == ExitCodes \subseteq Nat /\ 0 \in ExitCodes
ASSUME PlansAssumption ==
  \A p \in Plans : /\ p \in Seq(Step)
                   /\ \A j, k \in DOMAIN p : p[j].id = p[k].id => j = k
(* Only an AppImage's steps depend on another: its publish step on the       *)
(* download before it, its chmod on the publish step (plan.cpp:60-93); none  *)
(* of the three is optional.                                                 *)
ASSUME DependenciesAssumption ==
  \A p \in Plans : \A k \in DOMAIN p :
    p[k].dependsOn # NoStep =>
      \E j \in 1..k-1 : p[j].id = p[k].dependsOn /\ ~p[j].optional
ASSUME CrashesAssumption == Crashes \subseteq {"helper", "gui"}

VARIABLES
  (* HelperSession: the worker thread *)
  pc,               \* where run() stands
  steps,            \* the plan the builder returned
  index,            \* the step the loop is at
  stepOk,           \* the map stepOk, "unset" where it has no entry
  errorCount,
  cancelRequested,  \* m_cancelRequested, set by the main thread
  cancelSent,       \* the cancelSent of the current execute() or authenticate()
  buffer,           \* lines received and not yet looked at
  (* the main thread *)
  events,           \* everything post() was given, in order
  delivered,        \* how many of them drain() has run
  chips, result,    \* the Install Now page
  (* the socket *)
  connection,       \* the client's end: "none", "open", "closed"
  toHelper, toClient,
  (* Server and Executor *)
  server,           \* where the helper process stands
  request,          \* the execute request being served
  cancelFlag,       \* Server::m_cancelRequested
  signal,           \* the last signal sent to the command
  graceOver,        \* kTermGraceMs have passed since SIGTERM
  child, childCode, \* the command's process and its exit code
  (* history, read by properties only *)
  applied           \* what really happened on the system for each step

workerVars == <<pc, steps, index, stepOk, errorCount, cancelSent, buffer>>
pageVars == <<delivered, chips, result>>
serverVars == <<server, request, cancelFlag, signal, graceOver, child, childCode>>
vars == <<workerVars, cancelRequested, events, pageVars, connection, toHelper, toClient,
          serverVars, applied>>

------------------------------------------------------------------------------
(* Messages and events *)

Execute(k, what) == [step |-> k, what |-> what]
Answer(type, k, code) == [type |-> type, step |-> k, code |-> code]
(* A line without an exit code is parsed as one with -1. *)
Notice(type) == Answer(type, 0, Lost)

What == {"check", "command"}
Simple == {"auth", "cancel", "shutdown"}
Request == [step : Nat, what : What \cup Simple]
Plain(type) == Execute(0, type)
AnswerType == {"auth_ok", "started", "finished", "rejected", "cancel_ack", "shutdown_ack"}
Response == [type : AnswerType, step : Nat, code : Codes]

Good == {"OK", "ALREADY INSTALLED"}
Settled == Good \cup {"FAILED", "SKIPPED"}
Mark == Settled \cup {"WAITING", "RUNNING"}
Chip(id, mark) == [id |-> id, mark |-> mark, count |-> 0]
Done(n) == [id |-> NoStep, mark |-> "WAITING", count |-> n]
Event == [id : StepId \cup {NoStep}, mark : Mark, count : Nat]

Pending == -1
Now == steps[index]
Post(event) == events' = Append(events, event)

Gone == {"exited", "killed"}
HelperReadable == server \notin Gone \cup {"none"}
Accepted(step) == {0} \cup step.allowed

Init ==
  /\ pc = "launch" /\ steps = <<>> /\ index = 1 /\ errorCount = 0
  /\ stepOk = [id \in StepId |-> "unset"]
  /\ cancelRequested = FALSE /\ cancelSent = FALSE /\ buffer = <<>>
  /\ events = <<>> /\ delivered = 0 /\ result = Pending
  /\ chips = [id \in StepId |-> "WAITING"]
  /\ connection = "none" /\ toHelper = <<>> /\ toClient = <<>>
  /\ server = "none" /\ request = Plain("auth") /\ cancelFlag = FALSE
  /\ signal = "none" /\ graceOver = FALSE /\ child = "none" /\ childCode = 0
  /\ applied = [id \in StepId |-> "no"]

------------------------------------------------------------------------------
(* The worker: launch, connect, authenticate *)

(* launch() gave up (dismissed, timed out, stopped): one task emits failed  *)
(* and done(1).                                                             *)
LaunchFails ==
  /\ pc = "launch"
  /\ Post(Done(1)) /\ pc' = "ended"
  /\ UNCHANGED <<steps, index, stepOk, errorCount, cancelSent, buffer, cancelRequested,
                 pageVars, connection, toHelper, toClient, serverVars, applied>>

(* The helper printed its socket and nonce; the plan is built on the worker. *)
LaunchSucceeds ==
  /\ pc = "launch"
  /\ steps' \in Plans
  /\ server' = "accept" /\ pc' = "connect"
  /\ UNCHANGED <<index, stepOk, errorCount, cancelSent, buffer, cancelRequested, events,
                 pageVars, connection, toHelper, toClient, request, cancelFlag, signal,
                 graceOver, child, childCode, applied>>

(* The failure is posted before the helper is waited for. *)
ConnectFails ==
  /\ pc = "connect"
  /\ Post(Done(1)) /\ pc' = "stopFailed"
  /\ UNCHANGED <<steps, index, stepOk, errorCount, cancelSent, buffer, cancelRequested,
                 pageVars, connection, toHelper, toClient, serverVars, applied>>

Connect ==
  /\ pc = "connect" /\ server = "accept"
  /\ connection' = "open" /\ toHelper' = Append(toHelper, Plain("auth"))
  /\ cancelSent' = FALSE /\ pc' = "auth"
  /\ UNCHANGED <<steps, index, stepOk, errorCount, buffer, cancelRequested, events, pageVars,
                 toClient, serverVars, applied>>

(* The first line must be auth_ok.  authenticate() has a buffer of its own, *)
(* so what arrived behind the answer is dropped with it.                    *)
Authenticated ==
  /\ pc = "auth" /\ buffer # <<>> /\ Head(buffer).type = "auth_ok"
  /\ buffer' = <<>> /\ pc' = "loop"
  /\ UNCHANGED <<steps, index, stepOk, errorCount, cancelSent, cancelRequested, events, pageVars,
                 connection, toHelper, toClient, serverVars, applied>>

(* What was received and not read is lost with the descriptor. *)
Close == connection' = "closed" /\ buffer' = <<>> /\ toClient' = <<>>

(* Another first line, the end of the stream, or the 15 s deadline. *)
AuthenticationFails ==
  /\ pc = "auth"
  /\ Post(Done(1)) /\ Close /\ pc' = "stopFailed"
  /\ UNCHANGED <<steps, index, stepOk, errorCount, cancelSent, cancelRequested, pageVars,
                 toHelper, serverVars, applied>>

------------------------------------------------------------------------------
(* The worker: the step loop *)

CountsAny(mark) == mark = "FAILED"                                      \* mutant
CountsPrivileged(mark) == mark = "FAILED" /\ ~Now.optional /\ ~Now.local    \* mutant
Counts(mark) == mark = "FAILED" /\ ~Now.optional

NextStep(mark) ==
  /\ Post(Chip(Now.id, mark))
  /\ stepOk' = [stepOk EXCEPT ![Now.id] = IF mark \in Good THEN "ok" ELSE "failed"]
  /\ errorCount' = IF Counts(mark) THEN errorCount + 1 ELSE errorCount
  /\ index' = index + 1 /\ pc' = "loop"

NotKnownToFail == Now.dependsOn # NoStep => stepOk[Now.dependsOn] # "failed"   \* mutant
DependencyMet == Now.dependsOn # NoStep => stepOk[Now.dependsOn] = "ok"

(* The top of the loop: the Stop flag, then the dependency, then StepStarted. *)
SkipStep ==
  /\ pc = "loop" /\ index <= Len(steps) /\ ~cancelRequested /\ ~DependencyMet
  /\ Post(Chip(Now.id, "SKIPPED")) /\ index' = index + 1
  /\ UNCHANGED <<pc, steps, stepOk, errorCount, cancelSent, buffer, cancelRequested, pageVars,
                 connection, toHelper, toClient, serverVars, applied>>

BeginStep ==
  /\ pc = "loop" /\ index <= Len(steps) /\ ~cancelRequested /\ DependencyMet
  /\ Post(Chip(Now.id, "RUNNING"))
  /\ pc' = IF Now.local THEN "local" ELSE IF Now.check THEN "check" ELSE "command"
  /\ UNCHANGED <<steps, index, stepOk, errorCount, cancelSent, buffer, cancelRequested, pageVars,
                 connection, toHelper, toClient, serverVars, applied>>

(* A step of the user's own: runCommand() ends with an exit code, or with    *)
(* Lost when it was stopped, timed out or was killed.  Only exit code 0 is   *)
(* success here, allowedExitCodes are not looked at.                         *)
RunLocal ==
  /\ pc = "local"
  /\ \E code \in Codes :
       /\ applied' = [applied EXCEPT ![Now.id] =
                        IF code = 0 /\ ~Now.verify THEN "done" ELSE "begun"]
       /\ IF code = 0 /\ Now.verify
          THEN pc' = "verify" /\ UNCHANGED <<index, stepOk, errorCount, events>>
          ELSE NextStep(IF code = 0 THEN "OK" ELSE "FAILED")
  /\ UNCHANGED <<steps, cancelSent, buffer, cancelRequested, pageVars, connection, toHelper,
                 toClient, serverVars>>

(* sha256sum, which Stop kills like any local command. *)
VerifyLocal ==
  /\ pc = "verify"
  /\ \E match \in BOOLEAN :
       /\ applied' = IF match THEN [applied EXCEPT ![Now.id] = "done"] ELSE applied
       /\ NextStep(IF match THEN "OK" ELSE "FAILED")
  /\ UNCHANGED <<steps, cancelSent, buffer, cancelRequested, pageVars, connection, toHelper,
                 toClient, serverVars>>

NoCommand ==
  /\ pc = "command" /\ ~Now.command
  /\ NextStep("OK")
  /\ UNCHANGED <<steps, cancelSent, buffer, cancelRequested, pageVars, connection, toHelper,
                 toClient, serverVars, applied>>

(* What the loop does with the value of execute(). *)
AcceptedCheck(code) ==                                                  \* mutant
  IF code \in Accepted(Now)
  THEN NextStep(IF pc \in {"check", "awaitCheck"} THEN "ALREADY INSTALLED" ELSE "OK")
  ELSE IF pc \in {"check", "awaitCheck"}
       THEN pc' = "command" /\ UNCHANGED <<index, stepOk, errorCount, events>>
       ELSE NextStep("FAILED")
Return(code) ==
  IF pc \in {"check", "awaitCheck"}
  THEN IF code = 0
       THEN NextStep("ALREADY INSTALLED")
       ELSE pc' = "command" /\ UNCHANGED <<index, stepOk, errorCount, events>>
  ELSE NextStep(IF code \in Accepted(Now) THEN "OK" ELSE "FAILED")

Continue == UNCHANGED <<pc, index, stepOk, errorCount, events>>

(* execute(): the request goes out, or the helper is gone. *)
SendExecute ==
  /\ pc = "check" \/ (pc = "command" /\ Now.command)
  /\ IF HelperReadable
     THEN /\ toHelper' = Append(toHelper, Execute(index, pc))
          /\ pc' = IF pc = "check" THEN "awaitCheck" ELSE "awaitCommand"
          /\ cancelSent' = FALSE
          /\ UNCHANGED <<index, stepOk, errorCount, events>>
     ELSE Return(Lost) /\ UNCHANGED <<toHelper, cancelSent>>
  /\ UNCHANGED <<steps, buffer, cancelRequested, pageVars, connection, toClient, serverVars,
                 applied>>

Waiting == pc \in {"awaitCheck", "awaitCommand"}

AlsoStarted == {"started", "finished", "rejected", "cancel_ack"}        \* mutant
Ends == {"finished", "rejected", "cancel_ack"}

CodeOf(line) == IF line.type = "finished" THEN line.code ELSE Lost

(* The first buffered line: whichever request it answers, the requestId of   *)
(* a finished line is not compared with the one that was sent.               *)
TakeLine ==
  /\ Waiting /\ buffer # <<>>
  /\ buffer' = Tail(buffer)
  /\ LET line == Head(buffer) IN
       IF line.type \in Ends THEN Return(CodeOf(line)) ELSE Continue
  /\ UNCHANGED <<steps, cancelSent, cancelRequested, pageVars, connection, toHelper, toClient,
                 serverVars, applied>>

(* readLine() with nothing buffered: tell the helper of Stop, once per call  *)
(* of execute(), or receive what has arrived.  Between the look at the flag  *)
(* and the receive the flag may change, so Receive does not depend on it.    *)
SendCancel ==
  /\ Waiting \/ pc = "auth"
  /\ buffer = <<>> /\ cancelRequested /\ ~cancelSent /\ HelperReadable
  /\ toHelper' = Append(toHelper, Plain("cancel")) /\ cancelSent' = TRUE
  /\ UNCHANGED <<pc, steps, index, stepOk, errorCount, buffer, cancelRequested, events, pageVars,
                 connection, toClient, serverVars, applied>>

Receive ==
  /\ Waiting \/ pc = "auth"
  /\ buffer = <<>>
  /\ \E n \in 1..Len(toClient) :
       /\ buffer' = SubSeq(toClient, 1, n)
       /\ toClient' = SubSeq(toClient, n + 1, Len(toClient))
  /\ UNCHANGED <<pc, steps, index, stepOk, errorCount, cancelSent, cancelRequested, events,
                 pageVars, connection, toHelper, serverVars, applied>>

(* Nothing left to read and the helper is gone, or sending Stop to it failed. *)
ReceiveClosed ==
  /\ Waiting /\ buffer = <<>> /\ ~HelperReadable
  /\ toClient = <<>> \/ (cancelRequested /\ ~cancelSent)
  /\ Return(Lost)
  /\ UNCHANGED <<steps, cancelSent, buffer, cancelRequested, pageVars, connection, toHelper,
                 toClient, serverVars, applied>>

(* After the last step, or when Stop was seen at the top of the loop. *)
EndSession ==
  /\ pc = "loop" /\ (index > Len(steps) \/ cancelRequested)
  /\ toHelper' = IF HelperReadable THEN Append(toHelper, Plain("shutdown")) ELSE toHelper
  /\ Close /\ pc' = "stop"
  /\ UNCHANGED <<steps, index, stepOk, errorCount, cancelSent, cancelRequested, events, pageVars,
                 serverVars, applied>>

SignalIsEnough == TRUE                                                  \* mutant
HelperGone == server \in Gone

(* stopHelper(): the helper is root and cannot be signalled by the user, so  *)
(* this waits until it exits by itself.                                      *)
StopHelper ==
  /\ pc \in {"stop", "stopFailed"} /\ HelperGone
  /\ pc' = "ended"
  /\ IF pc = "stop" THEN Post(Done(errorCount)) ELSE UNCHANGED events
  /\ UNCHANGED <<steps, index, stepOk, errorCount, cancelSent, buffer, cancelRequested, pageVars,
                 connection, toHelper, toClient, serverVars, applied>>

Worker == \/ LaunchFails \/ LaunchSucceeds \/ ConnectFails \/ Connect
          \/ Authenticated \/ AuthenticationFails
          \/ SkipStep \/ BeginStep \/ RunLocal \/ VerifyLocal \/ NoCommand
          \/ SendExecute \/ TakeLine \/ SendCancel \/ Receive \/ ReceiveClosed
          \/ EndSession \/ StopHelper

------------------------------------------------------------------------------
(* The main thread *)

(* The Stop dialog was confirmed. *)
Cancel ==
  /\ ~cancelRequested /\ pc \notin {"ended", "crashed"}
  /\ cancelRequested' = TRUE
  /\ UNCHANGED <<workerVars, events, pageVars, connection, toHelper, toClient, serverVars, applied>>

(* drain() runs the posted tasks one by one; here is one of them. *)
Deliver ==
  /\ delivered < Len(events) /\ pc # "crashed"
  /\ delivered' = delivered + 1
  /\ LET event == events[delivered + 1] IN
       IF event.id = NoStep
       THEN result' = event.count /\ UNCHANGED chips
       ELSE chips' = [chips EXCEPT ![event.id] = event.mark] /\ UNCHANGED result
  /\ UNCHANGED <<workerVars, cancelRequested, events, connection, toHelper, toClient, serverVars,
                 applied>>

GuiCrash ==
  /\ "gui" \in Crashes /\ pc \notin {"ended", "crashed"}
  /\ pc' = "crashed"
  /\ IF connection = "open" THEN Close ELSE UNCHANGED <<connection, buffer, toClient>>
  /\ UNCHANGED <<steps, index, stepOk, errorCount, cancelSent, cancelRequested, events, pageVars,
                 toHelper, serverVars, applied>>

------------------------------------------------------------------------------
(* The helper *)

(* A reply to a client that has gone is lost. *)
Reply(answers) ==
  toClient' = IF connection = "open" THEN toClient \o answers ELSE toClient

HelperUnchanged == UNCHANGED <<workerVars, cancelRequested, events, pageVars, connection>>

(* acceptClient(): the first line authenticates, or 60 s pass. *)
HelperAccepts ==
  /\ server = "accept" /\ toHelper # <<>> /\ Head(toHelper).what = "auth"
  /\ toHelper' = Tail(toHelper) /\ Reply(<<Notice("auth_ok")>>)
  /\ server' = "serve"
  /\ UNCHANGED <<request, cancelFlag, signal, graceOver, child, childCode, applied>>
  /\ HelperUnchanged

HelperGivesUp ==
  /\ server = "accept" /\ server' = "exited"
  /\ UNCHANGED <<toHelper, toClient, request, cancelFlag, signal, graceOver, child, childCode,
                 applied>>
  /\ HelperUnchanged

(* handle(): a permitted command is started, and the Stop flag is reset.     *)
HandleExecute(line) ==
  IF ~steps[line.step].permitted
  THEN /\ Reply(<<Answer("rejected", line.step, Lost)>>)
       /\ UNCHANGED <<server, request, cancelFlag, signal, graceOver, child, childCode, applied>>
  ELSE /\ cancelFlag' = FALSE /\ request' = line /\ signal' = "none" /\ graceOver' = FALSE
       /\ \/ /\ Reply(<<Notice("started")>>)
             /\ server' = "pump" /\ child' = "running"
             /\ applied' = IF line.what = "command"
                           THEN [applied EXCEPT ![steps[line.step].id] = "begun"] ELSE applied
          \/ \* no pipe or no process
             /\ Reply(<<Notice("started"), Answer("finished", line.step, Lost)>>)
             /\ UNCHANGED <<server, child, applied>>
       /\ UNCHANGED childCode

HelperReads ==
  /\ server = "serve" /\ toHelper # <<>>
  /\ toHelper' = Tail(toHelper)
  /\ LET line == Head(toHelper) IN
       \/ /\ line.what = "shutdown"
          /\ Reply(<<Notice("shutdown_ack")>>) /\ server' = "exited"
          /\ UNCHANGED <<request, cancelFlag, signal, graceOver, child, childCode, applied>>
       \/ /\ line.what = "cancel"
          /\ Reply(<<Notice("cancel_ack")>>) /\ cancelFlag' = TRUE
          /\ UNCHANGED <<server, request, signal, graceOver, child, childCode, applied>>
       \/ line.what \in What /\ HandleExecute(line)
  /\ HelperUnchanged

HelperSeesEnd ==
  /\ server = "serve" /\ toHelper = <<>> /\ connection = "closed"
  /\ server' = "exited"
  /\ UNCHANGED <<toHelper, toClient, request, cancelFlag, signal, graceOver, child, childCode,
                 applied>>
  /\ HelperUnchanged

Cancels == Cardinality({n \in DOMAIN toHelper : toHelper[n].what = "cancel"})

NeverKill(stop) == IF stop /\ signal = "none" THEN "term" ELSE signal   \* mutant
NextSignal(stop) == CASE stop /\ signal = "none" -> "term"
                      [] stop /\ graceOver       -> "kill"
                      [] OTHER                   -> signal

(* pumpClient() while the command runs: a cancel is answered, every other    *)
(* line is dropped, the end of the stream goes unnoticed.  The executor then *)
(* signals the command.                                                      *)
HelperPumps ==
  /\ server = "pump" /\ server' = "reap"
  /\ toHelper' = <<>>
  /\ Reply([n \in 1..Cancels |-> Notice("cancel_ack")])
  /\ cancelFlag' = (cancelFlag \/ Cancels > 0)
  /\ signal' = NextSignal(cancelFlag')
  /\ UNCHANGED <<request, graceOver, child, childCode, applied>>
  /\ HelperUnchanged

ReapedUnlessStopped == child = "exited" /\ ~cancelFlag                 \* mutant
Reaped == child = "exited"

HelperReaps ==
  /\ server = "reap"
  /\ IF Reaped
     THEN /\ Reply(<<Answer("finished", request.step, childCode)>>)
          /\ server' = "serve" /\ child' = "none"
     ELSE server' = "pump" /\ UNCHANGED <<toClient, child>>
  /\ UNCHANGED <<toHelper, request, cancelFlag, signal, graceOver, childCode, applied>>
  /\ HelperUnchanged

Helper == \/ HelperAccepts \/ HelperGivesUp \/ HelperReads \/ HelperSeesEnd
          \/ HelperPumps \/ HelperReaps

GraceElapses ==
  /\ signal = "term" /\ ~graceOver /\ server \in {"pump", "reap"}
  /\ graceOver' = TRUE
  /\ UNCHANGED <<server, request, cancelFlag, signal, child, childCode, toHelper, toClient, applied>>
  /\ HelperUnchanged

(* The command ends, by itself or because of a signal.  It may take no       *)
(* notice of SIGTERM; it cannot ignore SIGKILL.                              *)
ChildExits ==
  /\ child = "running" /\ child' = "exited"
  /\ childCode' \in IF signal = "kill" THEN {Lost} ELSE Codes
  /\ LET step == steps[request.step] IN
       applied' = [applied EXCEPT ![step.id] =
         IF request.what = "command"
         THEN IF childCode' \in Accepted(step) THEN "done" ELSE @
         ELSE IF childCode' = 0 /\ @ = "no" THEN "found" ELSE @]
  /\ UNCHANGED <<server, request, cancelFlag, signal, graceOver, toHelper, toClient>>
  /\ HelperUnchanged

(* The helper dies; a command it started runs on. *)
HelperCrash ==
  /\ "helper" \in Crashes /\ HelperReadable
  /\ server' = "killed"
  /\ UNCHANGED <<request, cancelFlag, signal, graceOver, child, childCode, toHelper, toClient,
                 applied>>
  /\ HelperUnchanged

------------------------------------------------------------------------------
(* Everything that could happen has happened. *)
Over == /\ pc \in {"ended", "crashed"} /\ server \in Gone \cup {"none"} /\ child # "running"
        /\ pc = "ended" => delivered = Len(events)

Terminated == Over /\ UNCHANGED vars

Next == \/ Worker \/ Helper \/ GraceElapses \/ ChildExits
        \/ Cancel \/ Deliver \/ GuiCrash \/ HelperCrash
        \/ Terminated

Spec == Init /\ [][Next]_vars

(* Threads and processes that can move do, and the grace timer runs; a       *)
(* killed command dies.                                                      *)
Scheduled == /\ WF_vars(Worker) /\ WF_vars(Helper) /\ WF_vars(Deliver)
             /\ WF_vars(GraceElapses) /\ WF_vars(ChildExits /\ signal = "kill")

(* Commands may run for as long as they like. *)
FairSpec == Spec /\ Scheduled

------------------------------------------------------------------------------
(* Properties *)

TypeOK ==
  /\ pc \in {"launch", "connect", "auth", "loop", "check", "awaitCheck", "command", "awaitCommand",
             "local", "verify", "stop", "stopFailed", "ended", "crashed"}
  /\ steps \in Seq(Step) /\ index \in Nat \ {0} /\ errorCount \in Nat
  /\ stepOk \in [StepId -> {"unset", "ok", "failed"}]
  /\ cancelRequested \in BOOLEAN /\ cancelSent \in BOOLEAN
  /\ buffer \in Seq(Response)
  /\ events \in Seq(Event) /\ delivered \in 0..Len(events)
  /\ chips \in [StepId -> Mark] /\ result \in Nat \cup {Pending}
  /\ connection \in {"none", "open", "closed"}
  /\ toHelper \in Seq(Request) /\ toClient \in Seq(Response)
  /\ server \in {"none", "accept", "serve", "pump", "reap", "exited", "killed"}
  /\ request \in Request /\ cancelFlag \in BOOLEAN
  /\ signal \in {"none", "term", "kill"} /\ graceOver \in BOOLEAN
  /\ child \in {"none", "running", "exited"} /\ childCode \in Codes
  /\ applied \in [StepId -> {"no", "found", "begun", "done"}]

Effective(step) == \/ applied[step.id] \in {"done", "found"}
                   \/ ~step.local /\ ~step.command

Misreported == {k \in DOMAIN steps : stepOk[steps[k].id] = "ok" /\ ~Effective(steps[k])}

(* A step reported as installed is installed: its command ran to an          *)
(* accepted exit code (and the download matched its checksum), or its check  *)
(* found it.  Answers carry no matched requestId, so a stale answer can be   *)
(* taken for the current one; that happens to the step Stop interrupts, and  *)
(* to no other (helpersession.cpp, execute() and the step loop).             *)
HonestUntilStopped ==
  /\ Misreported # {} => cancelRequested
  /\ Misreported \subseteq {index - 1}

(* Nothing of a dependent step is carried out, and an AppImage is published, *)
(* only over what really succeeded before it (helpersession.cpp:391-399).    *)
DependentsFollowSuccess ==
  \A k \in DOMAIN steps :
    steps[k].dependsOn # NoStep /\ applied[steps[k].id] # "no" =>
      \E j \in DOMAIN steps : steps[j].id = steps[k].dependsOn /\ Effective(steps[j])

(* As long as nobody pressed Stop, every answer on its way to the client is  *)
(* an answer to the request it is waiting for, although the code never       *)
(* compares the requestId.                                                   *)
AnswersAreCurrent ==
  ~cancelRequested =>
    \A line \in {buffer[n] : n \in DOMAIN buffer} \cup {toClient[n] : n \in DOMAIN toClient} :
      line.type \in {"finished", "rejected"} => line.step = index /\ Waiting

(* Once the page has its summary no command of the session is running, so    *)
(* the Done page, its Reboot button and a second session start on a quiet    *)
(* system (helpersession.cpp:472-481).  A helper that is killed leaves its   *)
(* command behind.                                                           *)
QuietWhenDone == result # Pending /\ server # "killed" => child # "running"

(* donepage.cpp:72: with no errors, "All selected packages and tools are     *)
(* installed."  So it is if Stop was not pressed: then the loop ends with    *)
(* steps left out, and these count as no errors (helpersession.cpp:386).     *)
NoErrorsMeansInstalled ==
  result = 0 /\ ~cancelRequested =>
    \A k \in DOMAIN steps : steps[k].optional \/ (chips[steps[k].id] \in Good /\ Effective(steps[k]))

(* The page sees a run of InstallRun.                                        *)
Run == INSTANCE InstallRun WITH plan <- steps, chip <- chips, summary <- result
KeepsPromise == Run!Spec

(* Nothing in the code limits the time of a command.                         *)
CommandsEnd == WF_vars(ChildExits)

(* If commands end, the page gets its summary, whichever process died.       *)
SessionEnds == CommandsEnd => <>(result # Pending \/ pc = "crashed")

(* If commands end, the root helper never outlives its client for good, also *)
(* when the client died while a command ran and the helper took no notice.   *)
HelperLeaves == CommandsEnd => (pc \in {"ended", "crashed"} ~> ~HelperReadable)

(* A command the helper was told to stop does not run on, whether or not it  *)
(* minds SIGTERM (executor.cpp:122-137).                                     *)
StoppedCommandDies ==
  (server \in {"pump", "reap"} /\ cancelFlag) ~> (child # "running" \/ server = "killed")

(* Refuted: see the violation run of MCSession.                              *)

(* HELP.md: "The Install Now step marks each step as it runs."  A step is    *)
(* marked OK or ALREADY INSTALLED only if it was carried out.                *)
MarksAreTrue == \A k \in DOMAIN steps : chips[steps[k].id] \in Good => Effective(steps[k])
=============================================================================
