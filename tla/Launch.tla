------------------------------- MODULE Launch -------------------------------
(***************************************************************************)
(* The life of one HelperSession object and of its root helpers: start(),  *)
(* the destructor, launch() with its two attempts (ui/helpersession.cpp),  *)
(* and the helper from pkexec to cleanup() (helper/server.cpp, main.cpp).  *)
(* What a session does once it is authenticated is module Session; here    *)
(* one command stands for those of its plan, which is finite.              *)
(*                                                                         *)
(* pkexec runs with the user's real id until its dialog is answered, so    *)
(* the worker can end it with a signal.  A helper is root and cannot be    *)
(* signalled: stopHelper() and launch() wait for it to leave by itself.    *)
(***************************************************************************)
EXTENDS Naturals, Sequences, FiniteSets

CONSTANTS MaxSessions,   \* calls of start(), a bound for TLC
          MaxStrangers   \* connections of other processes, a bound for TLC

ASSUME LaunchAssumption == MaxSessions \in Nat /\ MaxStrangers \in Nat

VARIABLES
  mainAt,          \* what the main thread is doing
  running,         \* m_running
  cancelRequested, \* m_cancelRequested
  posted,          \* summaries posted and not drained
  starts,          \* sessions started
  pc,              \* where the worker of the latest session is
  attempt,         \* of launch()
  reported,        \* the worker has posted its summary
  child,           \* the number of the latest pkexec, its process and what it becomes
  stage,           \* [process -> what it is doing]
  setUp,           \* how many steps of start() the latest has done
  announced,       \* its line is in the pipe
  killed,          \* something from outside has ended it
  queue,           \* connections waiting at its socket
  client,          \* its m_clientFd
  authSent,        \* the nonce is on its way
  authOk,          \* and so is auth_ok
  asked,           \* the command: "none", "sent" and in the socket, or "taken" from it
  strangers        \* connections made by other processes

mainVars == <<mainAt, running, cancelRequested, posted, starts>>
workerVars == <<pc, attempt, reported, child>>
conversation == <<authSent, authOk, asked>>
socketVars == <<queue, client, conversation>>
helperVars == <<stage, setUp, announced, killed>>
vars == <<mainVars, workerVars, helperVars, socketVars, strangers>>

Process == 1 .. 2 * MaxSessions
(* start(): a step is what can fail and what cleanup() has to undo.          *)
SetUpSteps == <<"caller", "directory", "socket", "nonce">>
Ready == Len(SetUpSteps)
HasDirectory == setUp >= 2

Gone == {"exited", "reaped"}
Root == {"starting", "accepting", "reading", "serving", "executing", "cleaning"}
Alive(p) == stage[p] \in Root \cup {"pkexec"}

Init ==
  /\ mainAt = "free" /\ running = FALSE /\ cancelRequested = FALSE /\ posted = 0 /\ starts = 0
  /\ pc = "none" /\ attempt = 0 /\ reported = TRUE /\ child = 0
  /\ stage = [p \in Process |-> "none"] /\ setUp = 0
  /\ announced = FALSE /\ killed = FALSE
  /\ queue = <<>> /\ client = "none" /\ authSent = FALSE /\ authOk = FALSE /\ asked = "none"
  /\ strangers = 0

------------------------------------------------------------------------------
(* The main thread *)

BeginWorker == pc' = "launch" /\ attempt' = 0 /\ reported' = FALSE

(* start() does nothing while m_running; else it joins the last worker.      *)
Start ==
  /\ mainAt = "free" /\ ~running /\ starts < MaxSessions
  /\ running' = TRUE /\ starts' = starts + 1 /\ mainAt' = "joining"
  /\ UNCHANGED <<cancelRequested, posted, workerVars, helperVars, socketVars, strangers>>

WorkerEnded == pc \in {"none", "finished"}

Joined ==
  /\ mainAt = "joining" /\ WorkerEnded
  /\ mainAt' = "free" /\ cancelRequested' = FALSE /\ BeginWorker
  /\ UNCHANGED <<running, posted, starts, child, helperVars, socketVars, strangers>>

Cancel ==
  /\ mainAt = "free" /\ ~cancelRequested /\ cancelRequested' = TRUE
  /\ UNCHANGED <<mainAt, running, posted, starts, workerVars, helperVars, socketVars, strangers>>

(* drain(): the summary's task clears m_running. *)
Drain ==
  /\ mainAt = "free" /\ posted > 0
  /\ posted' = posted - 1 /\ running' = FALSE
  /\ UNCHANGED <<mainAt, cancelRequested, starts, workerVars, helperVars, socketVars, strangers>>

(* ~HelperSession() *)
Destroy ==
  /\ mainAt = "free" /\ mainAt' = "leaving" /\ cancelRequested' = TRUE
  /\ UNCHANGED <<running, posted, starts, workerVars, helperVars, socketVars, strangers>>

Destroyed ==
  /\ mainAt = "leaving" /\ WorkerEnded /\ mainAt' = "gone"
  /\ UNCHANGED <<running, cancelRequested, posted, starts, workerVars, helperVars, socketVars,
                 strangers>>

------------------------------------------------------------------------------
(* The worker: launch() *)

Post == posted' = posted + 1 /\ reported' = TRUE

(* pipe2() or fork() failed, or there is no attempt left: run() ends.        *)
GiveUp == /\ Post /\ pc' = "finished"

NoProcess ==
  /\ pc = "launch" /\ GiveUp
  /\ UNCHANGED <<mainAt, running, cancelRequested, starts, attempt, child, helperVars, socketVars,
                 strangers>>

Fork ==
  /\ pc = "launch"
  /\ child' = child + 1 /\ stage' = [stage EXCEPT ![child'] = "pkexec"] /\ pc' = "ask"
  /\ setUp' = 0 /\ announced' = FALSE /\ killed' = FALSE
  /\ queue' = <<>> /\ client' = "none" /\ authSent' = FALSE /\ authOk' = FALSE
  /\ asked' = "none"
  /\ UNCHANGED <<mainVars, attempt, reported, strangers>>

Unsignalled(p) == stage                                                 \* mutant

(* SIGTERM ends pkexec, and nothing that is root. *)
AfterSignal(p) == IF stage[p] = "pkexec" THEN [stage EXCEPT ![p] = "exited"] ELSE stage

(* Stop, the end of the output, or 120 s without a line.                     *)
AskEnds ==
  /\ pc = "ask"
  /\ cancelRequested \/ ~announced
  /\ pc' = "reap" /\ stage' = AfterSignal(child) /\ announced' = FALSE
  /\ UNCHANGED <<mainVars, attempt, reported, child, setUp, killed, socketVars, strangers>>

AskAnswered ==
  /\ pc = "ask" /\ ~cancelRequested /\ announced
  /\ pc' = "connect" /\ announced' = FALSE
  /\ UNCHANGED <<mainVars, attempt, reported, child, stage, setUp, killed, socketVars, strangers>>

NoReap == TRUE                                                          \* mutant
ChildGone == stage[child] \in Gone
(* What waitpid() leaves of a process that has ended. *)
Collected == IF stage[child] = "exited" THEN [stage EXCEPT ![child] = "reaped"] ELSE stage

(* waitpid() of launch(), then the next attempt or none. *)
Reap ==
  /\ pc = "reap" /\ ChildGone
  /\ stage' = Collected
  /\ IF attempt = 0 THEN pc' = "pause" /\ UNCHANGED <<posted, reported>> ELSE GiveUp
  /\ UNCHANGED <<mainAt, running, cancelRequested, starts, attempt, child, setUp, announced, killed,
                 socketVars, strangers>>

(* 1.5 s before the second attempt, or Stop. *)
Pause ==
  /\ pc = "pause" /\ attempt' = 1
  /\ IF cancelRequested THEN GiveUp ELSE pc' = "launch" /\ UNCHANGED <<posted, reported>>
  /\ UNCHANGED <<mainAt, running, cancelRequested, starts, child, helperVars, socketVars, strangers>>

------------------------------------------------------------------------------
(* The worker: from the socket to stopHelper() *)

Listening == stage[child] \in Root \ {"cleaning"} /\ setUp >= 3

Connect ==
  /\ pc = "connect" /\ Listening
  /\ queue' = Append(queue, "gui") /\ pc' = "authenticate"
  /\ UNCHANGED <<mainVars, attempt, reported, child, helperVars, client, conversation, strangers>>

(* The page is told before the helper has gone. *)
ConnectFails ==
  /\ pc = "connect" /\ ~Listening
  /\ Post /\ pc' = "stop"
  /\ UNCHANGED <<mainAt, running, cancelRequested, starts, attempt, child, helperVars, socketVars,
                 strangers>>

SendNonce ==
  /\ pc = "authenticate" /\ ~authSent /\ authSent' = TRUE
  /\ UNCHANGED <<mainVars, workerVars, helperVars, queue, client, authOk, asked, strangers>>

Authenticated ==
  /\ pc = "authenticate" /\ authOk /\ pc' = "session"
  /\ UNCHANGED <<mainVars, attempt, reported, child, helperVars, socketVars, strangers>>

(* The end of the connection reaches the helper wherever it stands. *)
HangUp == /\ queue' = [n \in DOMAIN queue |-> IF queue[n] = "gui" THEN "closed" ELSE queue[n]]
          /\ client' = IF client = "gui" THEN "closed" ELSE client

(* The helper has hung up, or 15 s have passed: it may just be answering.    *)
NotAuthenticated ==
  /\ pc = "authenticate" /\ Post /\ pc' = "stop" /\ HangUp
  /\ UNCHANGED <<mainAt, running, cancelRequested, starts, attempt, child, helperVars, conversation,
                 strangers>>

SendRequest ==
  /\ pc = "session" /\ asked = "none" /\ asked' = "sent"
  /\ UNCHANGED <<mainVars, workerVars, helperVars, queue, client, authSent, authOk, strangers>>

(* execute() waits for its answer, for the end of the helper or, after Stop, *)
(* for no more than cancel_ack.                                              *)
Unanswered == asked = "sent" \/ stage[child] = "executing"

(* Then the shutdown message, and the socket is closed. *)
SessionOver ==
  /\ pc = "session" /\ (Unanswered => cancelRequested \/ ChildGone)
  /\ pc' = "stop" /\ HangUp
  /\ UNCHANGED <<mainVars, attempt, reported, child, helperVars, conversation, strangers>>

StopHelper ==
  /\ pc = "stop" /\ ChildGone
  /\ pc' = "finished" /\ stage' = Collected
  /\ IF reported THEN UNCHANGED <<posted, reported>> ELSE Post
  /\ UNCHANGED <<mainAt, running, cancelRequested, starts, attempt, child, setUp, announced, killed,
                 socketVars, strangers>>

Worker == \/ NoProcess \/ Fork \/ AskEnds \/ AskAnswered \/ Reap \/ Pause
          \/ Connect \/ ConnectFails \/ SendNonce \/ Authenticated \/ NotAuthenticated
          \/ SendRequest \/ SessionOver \/ StopHelper

------------------------------------------------------------------------------
(* pkexec and the helper *)

Becomes(p, from, to) == stage[p] = from /\ stage' = [stage EXCEPT ![p] = to]
BesideHelper == UNCHANGED <<mainVars, workerVars, strangers>>

(* The dialog is answered: with the password, or not. *)
Answer(p) ==
  /\ \/ Becomes(p, "pkexec", "starting") \/ Becomes(p, "pkexec", "exited")
  /\ UNCHANGED <<setUp, announced, killed, socketVars>> /\ BesideHelper

(* One step of start(); when one fails, start() and the destructor clean up. *)
SetUp(p) ==
  /\ setUp < Ready
  /\ \/ stage[p] = "starting" /\ setUp' = setUp + 1 /\ UNCHANGED stage
     \/ Becomes(p, "starting", "cleaning") /\ UNCHANGED setUp
  /\ UNCHANGED <<announced, killed, socketVars>> /\ BesideHelper

OutputOpen(p) == pc = "ask" /\ child = p

(* main() prints the socket and the nonce; after Stop nobody reads them any   *)
(* more.  The helper does not die of that: it inherits that SIGPIPE is        *)
(* ignored from the application, where GLib's sockets see to it.              *)
Announce(p) ==
  /\ setUp = Ready /\ Becomes(p, "starting", "accepting")
  /\ announced' = OutputOpen(p)
  /\ UNCHANGED <<setUp, killed, socketVars>> /\ BesideHelper

(* acceptClient(): a client of another user is turned away at once.          *)
Accept(p) ==
  /\ queue # <<>> /\ queue' = Tail(queue)
  /\ IF Head(queue) = "other user"
     THEN stage[p] = "accepting" /\ UNCHANGED <<stage, client>>
     ELSE Becomes(p, "accepting", "reading") /\ client' = Head(queue)
  /\ UNCHANGED <<setUp, announced, killed, conversation>> /\ BesideHelper

AcceptForever(p) == FALSE /\ UNCHANGED vars                             \* mutant

(* 60 s, looked at between two clients. *)
AcceptTimesOut(p) ==
  /\ Becomes(p, "accepting", "cleaning")
  /\ UNCHANGED <<setUp, announced, killed, socketVars>> /\ BesideHelper

ReadNonce(p) ==
  /\ client \in {"gui", "closed"} /\ authSent
  /\ Becomes(p, "reading", "serving") /\ authOk' = TRUE
  /\ UNCHANGED <<setUp, announced, killed, queue, client, authSent, asked>> /\ BesideHelper

(* 5 s, the end of the connection, or another line than the nonce.           *)
Refuse(p) ==
  /\ Becomes(p, "reading", "accepting") /\ client' = "none"
  /\ UNCHANGED <<setUp, announced, killed, queue, conversation>> /\ BesideHelper

(* handle(): the policy refuses the command, or it runs.  It reads from the  *)
(* socket what was sent before the client went away, too.                    *)
Execute(p) ==
  /\ asked = "sent" /\ asked' = "taken"
  /\ \/ Becomes(p, "serving", "executing")
     \/ stage[p] = "serving" /\ UNCHANGED stage
  /\ UNCHANGED <<setUp, announced, killed, queue, client, authSent, authOk>> /\ BesideHelper

(* While a command runs pumpClient() takes no notice of the end of the       *)
(* connection, and nothing limits the command's time.                        *)
CommandEnds(p) ==
  /\ Becomes(p, "executing", "serving")
  /\ UNCHANGED <<setUp, announced, killed, socketVars>> /\ BesideHelper

ServeEnds(p) ==
  /\ client = "closed" /\ asked # "sent" /\ Becomes(p, "serving", "cleaning")
  /\ UNCHANGED <<setUp, announced, killed, socketVars>> /\ BesideHelper

CleanupLeavesDirectory(p) ==                                            \* mutant
  /\ Becomes(p, "cleaning", "exited") /\ queue' = <<>> /\ client' = "none"
  /\ UNCHANGED <<setUp, announced, killed, conversation>> /\ BesideHelper

(* cleanup(): connections closed, socket and directory removed.              *)
Cleanup(p) ==
  /\ Becomes(p, "cleaning", "exited") /\ queue' = <<>> /\ client' = "none"
  /\ setUp' = 0
  /\ UNCHANGED <<announced, killed, conversation>> /\ BesideHelper

Helper(p) == \/ SetUp(p) \/ Announce(p) \/ Accept(p) \/ AcceptTimesOut(p) \/ ReadNonce(p)
             \/ Refuse(p) \/ Execute(p) \/ ServeEnds(p) \/ Cleanup(p)

------------------------------------------------------------------------------
(* Everything else *)

HelperCrash(p) ==
  /\ stage[p] \in Root /\ stage' = [stage EXCEPT ![p] = "exited"]
  /\ killed' = TRUE /\ queue' = <<>> /\ client' = "none"
  /\ UNCHANGED <<setUp, announced, conversation>> /\ BesideHelper

GuiCrash ==
  /\ mainAt # "crashed" /\ mainAt' = "crashed" /\ pc' = "dead" /\ HangUp
  /\ UNCHANGED <<running, cancelRequested, posted, starts, attempt, reported, child, helperVars,
                 conversation, strangers>>

(* Another process connects: root, or one of the user's.                     *)
Stranger ==
  /\ child # 0 /\ Listening /\ strangers < MaxStrangers /\ strangers' = strangers + 1
  /\ \E who \in {"other user", "same user"} : queue' = Append(queue, who)
  /\ UNCHANGED <<mainVars, workerVars, helperVars, client, conversation>>

Rest == /\ \/ mainAt \in {"gone", "crashed"}
           \/ mainAt = "free" /\ starts = MaxSessions /\ posted = 0
        /\ pc \in {"none", "finished", "dead"} /\ \A p \in Process : ~Alive(p)
        /\ UNCHANGED vars

Main == Joined \/ Drain \/ Destroyed

Next == \/ Start \/ Cancel \/ Destroy \/ Main \/ Worker
        \/ \E p \in Process : Answer(p) \/ Helper(p) \/ CommandEnds(p) \/ HelperCrash(p)
        \/ GuiCrash \/ Stranger \/ Rest

Spec == Init /\ [][Next]_vars

(* Nothing is assumed of the user, of the dialog or of other processes, and  *)
(* commands may run for ever: where they must end, the property says so.     *)
FairSpec == /\ Spec /\ WF_vars(Main) /\ WF_vars(Worker)
            /\ \A p \in Process : WF_vars(Helper(p))

------------------------------------------------------------------------------
(* Properties *)

TypeOK ==
  /\ mainAt \in {"free", "joining", "leaving", "gone", "crashed"}
  /\ {running, cancelRequested, reported, announced, killed, authSent, authOk} \subseteq BOOLEAN
  /\ posted \in Nat /\ starts \in 0..MaxSessions /\ strangers \in 0..MaxStrangers
  /\ pc \in {"none", "launch", "ask", "reap", "pause", "connect", "authenticate", "session",
            "stop", "finished", "dead"}
  /\ attempt \in 0..1 /\ child \in 0 .. 2 * MaxSessions
  /\ stage \in [Process -> Root \cup Gone \cup {"none", "pkexec"}]
  /\ setUp \in 0..Ready
  /\ asked \in {"none", "sent", "taken"}
  /\ queue \in Seq({"gui", "closed", "other user", "same user"})
  /\ client \in {"none", "gui", "closed", "same user"}

(* However often a session is started, stopped, refused or timed out: there  *)
(* is one pkexec or root helper at a time, and none when the worker of the   *)
(* session has ended.  start() joins that worker (helpersession.cpp:121),    *)
(* and it ends on no path before waitpid() (203-260).                        *)
OneHelperAtATime ==
  /\ \A p, q \in Process : Alive(p) /\ Alive(q) => p = q
  /\ WorkerEnded => \A p \in Process : ~Alive(p)

(* docs/DEVELOPMENT.md:100: "the helper session directory is removed         *)
(* recursively."  A helper that nobody kills takes its directory under /run  *)
(* with it, at whatever step it failed or gave up waiting (server.cpp:396).  *)
DirectoryRemoved ==
  child # 0 /\ stage[child] \in Gone /\ ~killed => ~HasDirectory

CommandsEnd == \A p \in Process : WF_vars(CommandEnds(p))

(* If commands end, every start() that is not ignored is answered by a       *)
(* summary, or the page goes away, whatever the user does with Stop and the  *)
(* password dialog: the page shows Stop until then.  The main thread, which  *)
(* waits for the last worker in start() (helpersession.cpp:121) and in the   *)
(* destructor, gets on: the worker never waits for it, and the helper that   *)
(* the worker waits for has a time limit wherever it stands, but in a        *)
(* command.                                                                  *)
EveryStartIsAnswered ==
  CommandsEnd =>
    /\ running ~> (~running \/ mainAt \in {"leaving", "gone", "crashed"})
    /\ mainAt = "joining" ~> mainAt # "joining"
    /\ mainAt = "leaving" ~> mainAt # "leaving"

(* If commands end, nothing that is root stays behind, whatever happens to   *)
(* the application: a helper whose client has died, or never came, leaves    *)
(* from every state but the one in which it waits for its command            *)
(* (server.cpp:286-296, executor.cpp:106-144).                               *)
RootLeaves == CommandsEnd => \A p \in Process : (stage[p] \in Root ~> stage[p] \in Gone)
=============================================================================
