---------------------------- MODULE LegacySession ----------------------------
(***************************************************************************)
(* The sessions of the retired Qt program, the reference for this one's    *)
(* (legacy/qt): the pages that start them, the worker thread and the root  *)
(* helper, which carries commands out in its event loop and so hears of    *)
(* nothing while one runs.  m_cancelFlag is therefore never set while a    *)
(* command runs, and the signals of commandexecutor.cpp are never sent.    *)
(***************************************************************************)
EXTENDS Integers, Sequences, FiniteSets

CONSTANTS Plans,   \* of the install page
          Codes,   \* that commands end with
          HelperMayDie,
          MaxEntries \* of the install page

(* What is told apart of an InstallStep: whether it has an                   *)
(* alreadyInstalledCheck, whether its failure counts, whether the helper's   *)
(* allow-list knows its command, and the exit codes taken for success.       *)
Step == [check : BOOLEAN, optional : BOOLEAN, permitted : BOOLEAN, accepted : SUBSET Codes]

ASSUME LegacyAssumption ==
  /\ Codes \subseteq Nat /\ 0 \in Codes /\ HelperMayDie \in BOOLEAN /\ MaxEntries \in Nat
  /\ \A steps \in Plans : steps \in Seq(Step)

VARIABLES
  ui,         \* where the user is
  path,       \* "install/socketPath" is set
  handle,     \* m_helperProcess: "none", "running", "finished"
  errorCount, \* "install/errorCount"
  chips,      \* of the install page
  events,     \* signals of the worker on their way to the page
  worker,     \* where run() or runHelperCommand() stands
  plan, index, failed, cancelled,
  toHelper, toClient, \* messages in the socket
  unread,     \* what the worker was told of and has not read
  connected,  \* the client's end
  helper,     \* "gone", "listening", "idle", "busy", "quitting"
  request,    \* that the helper is busy with
  outcome,    \* history: of each step, what happened to it
  late,       \* history: commands begun after the window was closed
  entry,      \* history: how the install page was entered last
  entries,    \* history: how often
  stray       \* counts that a worker without the helper may still end with

page == <<ui, path, handle, errorCount, chips>>
loop == <<plan, index, failed>>
socket == <<toHelper, toClient, unread, connected>>
history == <<outcome, late>>
again == <<entry, entries, stray>>
vars == <<page, events, worker, loop, cancelled, socket, helper, request, history, again>>

Unset == -1
NoRequest == [type |-> "none"]
Execute(n, kind) == [type |-> "execute", step |-> n, kind |-> kind]
Finished(code) == [type |-> "finished", code |-> code]

(* buildSteps() gives every step a command, and some a check before it.       *)
Simple(optional) ==
  [check |-> FALSE, optional |-> optional, permitted |-> TRUE, accepted |-> {0}]

Init ==
  /\ ui = "offer" /\ path = FALSE /\ handle = "none" /\ errorCount = Unset /\ chips = <<>>
  /\ events = <<>> /\ worker = "none" /\ plan = <<>> /\ index = 1 /\ failed = 0 /\ cancelled = FALSE
  /\ toHelper = <<>> /\ toClient = <<>> /\ unread = <<>> /\ connected = FALSE
  /\ helper = "gone" /\ request = NoRequest /\ outcome = <<>> /\ late = 0
  /\ entry = "none" /\ entries = 0 /\ stray = {}

Quiet == {"none", "ended"}

------------------------------------------------------------------------------
(* launchHelper(): two attempts, each with its deadlines.  A process that is *)
(* taken to be running is not started again.  One that does not tell its     *)
(* socket's name in time is killed; when it is root by then it cannot be,    *)
(* and listens where nobody will connect: it has no part in what follows,    *)
(* and is left out.                                                          *)
Launched ==
  \/ handle = "running" /\ path /\ UNCHANGED <<path, handle, helper>>
  \/ handle # "running" /\ path' = TRUE /\ handle' = "running" /\ helper' = "listening"

NotLaunched ==
  \/ handle = "running" /\ ~path /\ UNCHANGED <<path, handle, helper>>
  \/ handle # "running" /\ handle' = "none" /\ UNCHANGED <<path, helper>>

(* A thread with a new InstallWorker.  For an update no signal is under way. *)
StartWorker(steps) ==
  /\ worker' = "connect" /\ plan' = steps /\ index' = 1 /\ failed' = 0 /\ cancelled' = FALSE
  /\ toHelper' = <<>> /\ toClient' = <<>> /\ unread' = <<>>
  /\ outcome' = [n \in DOMAIN steps |-> "nothing"]
  /\ UNCHANGED <<request, late>>
Idle == UNCHANGED <<events, worker, loop, cancelled, socket, request, history>>

(* finishUpdate() *)
FinishUpdate == path' = FALSE /\ ui' \in {"kernel", "ready"}

StartUpdate ==
  /\ ui = "offer" /\ UNCHANGED <<errorCount, chips>>
  /\ \/ Launched /\ ui' = "updating" /\ StartWorker(<<Simple(FALSE)>>)
        /\ events' = <<>> /\ UNCHANGED connected
     \/ NotLaunched /\ ui' = ui /\ Idle

Skip == ui = "offer" /\ ui' = "ready" /\ UNCHANGED <<path, handle, errorCount, chips, helper>> /\ Idle

StartFlatpakUpdate ==
  /\ ui = "flatpak?" /\ UNCHANGED <<errorCount, chips>>
  /\ \/ Launched /\ ui' = "flatpak" /\ StartWorker(<<Simple(TRUE)>>)
        /\ events' = <<>> /\ UNCHANGED connected
     \/ handle # "running" /\ handle' = "none" /\ FinishUpdate /\ Idle /\ UNCHANGED helper

NoFlatpakUpdate ==
  ui = "flatpak?" /\ FinishUpdate /\ Idle /\ UNCHANGED <<handle, errorCount, chips, helper>>

(* Reboot Now of either page: runHelperCommand() blocks the main thread.     *)
(* While a worker has the helper, which takes one client, it does nothing.   *)
Reboot ==
  /\ ui \in {"kernel", "done"} /\ worker \in Quiet /\ UNCHANGED <<errorCount, chips>>
  /\ \/ /\ Launched /\ ui' = IF ui = "done" THEN "rebooting at the end" ELSE "rebooting"
        /\ worker' = "reboot" /\ toHelper' = <<>> /\ toClient' = <<>> /\ unread' = <<>>
        /\ UNCHANGED <<events, loop, cancelled, connected, request, history>>
     \/ NotLaunched /\ ui' = ui /\ Idle

Continue == ui = "kernel" /\ ui' = "ready" /\ UNCHANGED <<path, handle, errorCount, chips, helper>> /\ Idle

(* No page is a commit page, and QWizard enables Back again after            *)
(* initializePage().  "installed" is also where the user is behind a page    *)
(* whose run is over, "back" behind one whose run is not.                    *)
Back == ui = "install" /\ ui' = "back" /\ UNCHANGED <<path, handle, errorCount, chips, helper>> /\ Idle

Alone == worker \in Quiet /\ events = <<>> /\ stray = {}
Enter(kind) ==
  /\ entries < MaxEntries /\ entries' = entries + 1
  /\ entry' = IF entry # "mixed" /\ Alone THEN kind ELSE "mixed"

(* InstallPage::initializePage(), with no worker alive.                      *)
Install ==
  /\ ui \in {"ready", "back", "installed"} /\ worker \in Quiet /\ UNCHANGED <<errorCount, stray>>
  /\ \/ \E steps \in Plans : /\ Launched /\ ui' = "install" /\ StartWorker(steps)
                             /\ chips' = [n \in DOMAIN steps |-> ".."] /\ Enter("alone")
                             /\ UNCHANGED <<events, connected>>
     \/ NotLaunched /\ ui' = "installed" /\ chips' = <<>> /\ Idle /\ Enter("not launched")

(* And over one, which is cancelled and not waited for: it keeps the helper  *)
(* there is, which closed its server, or loses it to the new one.  The       *)
(* worker that is left without a helper is told of by its count alone, and   *)
(* one such is the bound.  So is a selection that was left as it was, and    *)
(* the list of the steps, now about both workers, is left out.               *)
InstallOver ==
  /\ ui \in {"back", "installed"} /\ worker \notin Quiet /\ stray = {}
  /\ Enter("mixed") /\ chips' = <<>> /\ UNCHANGED errorCount
  /\ \/ /\ handle = "running" /\ ui' = "install" /\ cancelled' = TRUE
        /\ stray' = {1, Cardinality({n \in DOMAIN plan : ~plan[n].optional})}
        /\ UNCHANGED <<path, handle, events, worker, loop, socket, helper, request, history>>
     \/ /\ handle = "running" => worker = "connect" /\ helper = "listening"
        /\ Launched /\ ui' = "install" /\ StartWorker(plan) /\ connected' = FALSE
        /\ stray' = {failed, failed + 1} /\ UNCHANGED events
     \/ /\ NotLaunched /\ ui' = "installed" /\ worker' = "none" /\ connected' = FALSE
        /\ stray' = {failed, failed + 1}
        /\ UNCHANGED <<events, loop, cancelled, toHelper, toClient, unread, request, history>>

GoToDone == ui = "installed" /\ ui' = "done" /\ UNCHANGED <<path, handle, errorCount, chips, helper>> /\ Idle

(* QProcess learns of the end in the event loop. *)
HandleNotices ==
  /\ handle = "running" /\ helper = "gone"
  /\ ui \notin {"rebooting", "rebooting at the end", "closing", "closed"}
  /\ handle' = "finished" /\ UNCHANGED <<ui, path, errorCount, chips, helper>> /\ Idle

------------------------------------------------------------------------------
(* The slots of the pages *)

Done(errors) == [type |-> "allDone", errors |-> errors]

Deliver ==
  LET event == Head(events) IN
  /\ events # <<>> /\ ui \in {"updating", "flatpak", "install", "back", "installed"}
  /\ events' = Tail(events)
  /\ IF event.type # "allDone"
     THEN /\ chips' = IF ui \in {"updating", "flatpak"} THEN chips
                      ELSE [n \in DOMAIN chips |-> IF n = event.step THEN event.mark ELSE chips[n]]
          /\ UNCHANGED <<ui, path, errorCount>>
     ELSE CASE ui = "updating" -> ui' = "flatpak?" /\ UNCHANGED <<path, errorCount, chips>>
            [] ui = "flatpak" -> FinishUpdate /\ UNCHANGED <<errorCount, chips>>
            [] ui \in {"install", "back", "installed"} ->
                 /\ ui' = (IF ui = "install" THEN "installed" ELSE ui)
                 /\ errorCount' = event.errors /\ UNCHANGED <<path, chips>>
  /\ UNCHANGED <<handle, worker, loop, cancelled, socket, helper, request, history>>

(* A worker without the helper ends; its chips are left out.                 *)
StrayEnds ==
  /\ ui \notin {"closing", "closed"} /\ stray' = {} /\ UNCHANGED <<entry, entries>>
  /\ \E errors \in stray : events' = Append(events, Done(errors))
  /\ UNCHANGED <<page, worker, loop, cancelled, socket, helper, request, history>>

(* The install page's destructor waits for its last worker, wherever the     *)
(* user is; a running thread of the update page is destroyed with it, and    *)
(* the program aborts.  A worker that is not the last is not waited for, and *)
(* signals that are under way go with the page.                              *)
CloseWindow ==
  /\ ui \notin {"rebooting", "rebooting at the end", "closing", "closed"}
  /\ \/ /\ ui \in {"install", "back"} \/ entry = "mixed"
        /\ ui' = "closing" /\ cancelled' = TRUE /\ UNCHANGED <<worker, connected>>
     \/ /\ ui \notin {"install", "back"} \/ entry = "mixed"
        /\ ui' = "closed" /\ worker' = "none" /\ connected' = FALSE /\ UNCHANGED cancelled
  /\ events' = <<>>
  /\ UNCHANGED <<path, handle, errorCount, chips, loop, toHelper, toClient, unread, helper, request,
                 history>>

Closed ==
  /\ ui = "closing" /\ worker \in Quiet /\ ui' = "closed"
  /\ UNCHANGED <<path, handle, errorCount, chips, helper>> /\ Idle

------------------------------------------------------------------------------
(* The worker *)

Chip(n, mark) == [type |-> "step", step |-> n, mark |-> mark]
Ours == UNCHANGED <<page, helper, request, history, again>>

Connect ==
  /\ worker = "connect" /\ Ours /\ UNCHANGED <<loop, cancelled, toHelper, toClient, unread>>
  /\ IF helper = "listening"
     THEN worker' = "loop" /\ connected' = TRUE /\ UNCHANGED events
     ELSE worker' = "ended" /\ events' = Append(events, Done(1)) /\ UNCHANGED connected

BeginAlways == \* mutant
  LET step == plan[index] IN
  /\ worker = "loop" /\ Ours /\ UNCHANGED <<plan, failed, cancelled, toClient, unread, connected>>
  /\ IF index > Len(plan)
     THEN worker' = "shutdown" /\ UNCHANGED <<index, events, toHelper>>
     ELSE LET kind == IF step.check THEN "check" ELSE "command" IN
          /\ worker' = kind /\ toHelper' = Append(toHelper, Execute(index, kind))
          /\ events' = Append(events, Chip(index, ">>")) /\ UNCHANGED index

(* The top of the loop over the steps. *)
Begin ==
  LET step == plan[index] IN
  /\ worker = "loop" /\ Ours /\ UNCHANGED <<plan, failed, cancelled, toClient, unread, connected>>
  /\ IF index > Len(plan) \/ cancelled
     THEN worker' = "shutdown" /\ UNCHANGED <<index, events, toHelper>>
     ELSE LET kind == IF step.check THEN "check" ELSE "command" IN
          /\ worker' = kind /\ toHelper' = Append(toHelper, Execute(index, kind))
          /\ events' = Append(events, Chip(index, ">>")) /\ UNCHANGED index

Lost == -1

(* What sendRequest() returns to: a check, which anything but 0 leads on to  *)
(* the command, whatever m_cancelled is, or a command.                       *)
Return(code) ==
  LET step == plan[index]
      ok == code \in step.accepted \cup {0}
  IN
  IF worker = "check"
  THEN IF code = 0
       THEN /\ worker' = "loop" /\ events' = Append(events, Chip(index, "--")) /\ index' = index + 1
            /\ UNCHANGED <<failed, toHelper>>
       ELSE /\ worker' = "command" /\ toHelper' = Append(toHelper, Execute(index, "command"))
            /\ UNCHANGED <<events, index, failed>>
  ELSE /\ worker' = "loop" /\ events' = Append(events, Chip(index, IF ok THEN "OK" ELSE "!!"))
       /\ index' = index + 1 /\ failed' = failed + (IF ok \/ step.optional THEN 0 ELSE 1)
       /\ UNCHANGED toHelper

EndsOnStarted == {"started", "finished", "rejected", "cancel_ack"}             \* mutant
Ends == {"finished", "rejected", "cancel_ack"}

(* All there is is read, and lost but for the first answer in it.            *)
Answers(batch) == {n \in DOMAIN batch : batch[n].type \in Ends}
First(batch) == batch[CHOOSE n \in Answers(batch) : \A m \in Answers(batch) : n <= m]
CodeIn(answer) == IF answer.type = "finished" THEN answer.code ELSE Lost

Waiting == worker \in {"check", "command"}

Read ==
  LET batch == unread \o toClient IN
  /\ Waiting /\ toClient # <<>> /\ toClient' = <<>> /\ unread' = <<>>
  /\ IF Answers(batch) = {} THEN UNCHANGED <<worker, events, index, failed, toHelper>>
     ELSE Return(CodeIn(First(batch)))
  /\ Ours /\ UNCHANGED <<plan, cancelled, connected>>

(* Nothing for 300 ms. *)
Disconnected ==
  /\ Waiting /\ toClient = <<>> /\ ~cancelled /\ helper = "gone" /\ Return(Lost)
  /\ Ours /\ UNCHANGED <<plan, cancelled, toClient, unread, connected>>

SendCancel ==
  /\ Waiting /\ toClient = <<>> /\ cancelled
  /\ worker' = (IF worker = "check" THEN "cancelled check" ELSE "cancelled command")
  /\ toHelper' = Append(toHelper, [type |-> "cancel"])
  /\ Ours /\ UNCHANGED <<events, loop, cancelled, toClient, unread, connected>>

(* Then 2 s for an answer, which stays unread. *)
Cancelled ==
  /\ worker \in {"cancelled check", "cancelled command"}
  /\ unread' = unread \o toClient /\ toClient' = <<>>
  /\ IF worker = "cancelled check"
     THEN /\ worker' = "command" /\ toHelper' = Append(toHelper, Execute(index, "command"))
          /\ UNCHANGED <<events, index, failed>>
     ELSE /\ worker' = "loop" /\ index' = index + 1 /\ UNCHANGED toHelper
          /\ events' = Append(events, Chip(index, "!!"))
          /\ failed' = failed + (IF plan[index].optional THEN 0 ELSE 1)
  /\ Ours /\ UNCHANGED <<plan, cancelled, connected>>

Shutdown ==
  /\ worker = "shutdown" /\ worker' = "disconnect"
  /\ toHelper' = Append(toHelper, [type |-> "shutdown"])
  /\ Ours /\ UNCHANGED <<events, loop, cancelled, toClient, unread, connected>>

Disconnect ==
  /\ worker = "disconnect" /\ worker' = "ended" /\ connected' = FALSE
  /\ toClient' = <<>> /\ unread' = <<>> /\ events' = Append(events, Done(failed))
  /\ Ours /\ UNCHANGED <<loop, cancelled, toHelper>>

(* runHelperCommand(), then disconnectFromServer() without a word.           *)
RebootConnect ==
  /\ worker = "reboot" /\ helper = "listening" /\ worker' = "rebooting" /\ connected' = TRUE
  /\ toHelper' = <<Execute(0, "reboot")>>
  /\ Ours /\ UNCHANGED <<events, loop, cancelled, toClient, unread>>

Rebooted ==
  /\ \/ worker = "reboot" /\ helper # "listening"
     \/ worker = "rebooting" /\ (Answers(toClient) # {} \/ helper = "gone")
  /\ worker' = "none" /\ connected' = FALSE /\ toClient' = <<>>
  /\ ui' = IF ui = "rebooting" THEN "kernel" ELSE "done"
  /\ UNCHANGED <<path, handle, errorCount, chips, events, loop, cancelled, toHelper, unread, helper,
                 request, history>>

------------------------------------------------------------------------------
(* The helper *)

Theirs == UNCHANGED <<page, events, worker, loop, cancelled, unread, connected, again>>

Send(message) == toClient' = IF connected THEN Append(toClient, message) ELSE toClient

Permitted(message) == message.kind \in {"check", "reboot"} \/ plan[message.step].permitted

HelperShutsDown ==
  /\ helper = "idle" /\ toHelper # <<>> /\ Head(toHelper).type = "shutdown" /\ toHelper' = Tail(toHelper)
  /\ Send([type |-> "shutdown_ack"]) /\ helper' = "quitting" /\ Theirs /\ UNCHANGED <<request, history>>

HelperIsCancelled ==
  /\ helper = "idle" /\ toHelper # <<>> /\ Head(toHelper).type = "cancel" /\ toHelper' = Tail(toHelper)
  /\ Send([type |-> "cancel_ack"]) /\ Theirs /\ UNCHANGED <<helper, request, history>>

HelperExecutes ==
  LET message == Head(toHelper) IN
  /\ helper = "idle" /\ toHelper # <<>> /\ message.type = "execute" /\ toHelper' = Tail(toHelper)
  /\ IF Permitted(message)
     THEN /\ helper' = "busy" /\ request' = message /\ Send([type |-> "started"])
          /\ outcome' = IF message.kind = "command" THEN [outcome EXCEPT ![message.step] = "begun"] ELSE outcome
          /\ late' = late + (IF ui \in {"closing", "closed"} /\ message.kind = "command" THEN 1 ELSE 0)
     ELSE Send([type |-> "rejected"]) /\ UNCHANGED <<helper, request, history>>
  /\ Theirs

Ended(code) ==
  CASE request.kind = "check" -> IF code = 0 THEN "found" ELSE "nothing"
    [] request.kind = "command" -> IF code \in plan[request.step].accepted \cup {0} THEN "done" ELSE "failed"

CommandEnds(code) ==
  /\ helper = "busy" /\ helper' = "idle" /\ request' = NoRequest /\ Send(Finished(code))
  /\ outcome' = IF request.kind = "reboot" THEN outcome ELSE [outcome EXCEPT ![request.step] = Ended(code)]
  /\ Theirs /\ UNCHANGED <<toHelper, late>>

HelperForgetsClient == \* mutant
  /\ helper = "idle" /\ toHelper = <<>> /\ ~connected /\ helper' = "listening"
  /\ Theirs /\ UNCHANGED <<toHelper, toClient, request, history>>

(* The end of the socket, once what came before it is read.                  *)
HelperSeesEnd ==
  /\ helper = "idle" /\ toHelper = <<>> /\ ~connected /\ helper' = "quitting"
  /\ Theirs /\ UNCHANGED <<toHelper, toClient, request, history>>

HelperAccepts ==
  /\ helper = "listening" /\ connected /\ helper' = "idle"
  /\ Theirs /\ UNCHANGED <<toHelper, toClient, request, history>>

HelperQuits ==
  /\ helper = "quitting" /\ helper' = "gone"
  /\ Theirs /\ UNCHANGED <<toHelper, toClient, request, history>>

HelperCrash ==
  /\ HelperMayDie /\ helper \in {"idle", "busy"} /\ helper' = "gone" /\ request' = NoRequest
  /\ Theirs /\ UNCHANGED <<toHelper, toClient, history>>

------------------------------------------------------------------------------
Click == StartUpdate \/ Skip \/ StartFlatpakUpdate \/ NoFlatpakUpdate \/ Reboot \/ Continue \/ Back
         \/ GoToDone \/ CloseWindow
User == (Click /\ UNCHANGED again) \/ Install \/ InstallOver
Handled == HandleNotices \/ Deliver \/ Closed \/ RebootConnect \/ Rebooted
MainLoop == (Handled /\ UNCHANGED again) \/ StrayEnds
WorkerSteps == Connect \/ Begin \/ Read \/ Disconnected \/ Cancelled \/ Shutdown \/ Disconnect
HelperSteps == HelperShutsDown \/ HelperIsCancelled \/ HelperExecutes \/ HelperSeesEnd \/ HelperAccepts
               \/ HelperQuits
Terminated == ui = "closed" /\ helper \in {"gone", "listening"} /\ UNCHANGED vars

Next == User \/ MainLoop \/ WorkerSteps \/ SendCancel \/ HelperSteps
        \/ (\E code \in Codes : CommandEnds(code)) \/ HelperCrash \/ Terminated

(* Each waits with a limit or on a descriptor.  Nothing is assumed of the    *)
(* user, or of a command being silent, which a Stop has to wait for.         *)
Spec == Init /\ [][Next]_vars

FairSpec ==
  /\ Spec
  /\ WF_vars(MainLoop) /\ WF_vars(WorkerSteps) /\ WF_vars(HelperSteps)
  /\ WF_vars(SendCancel /\ helper \notin {"busy"})
  /\ WF_vars(\E code \in Codes : CommandEnds(code))

------------------------------------------------------------------------------
TypeOK ==
  /\ ui \in {"offer", "updating", "flatpak?", "flatpak", "kernel", "ready", "install", "back",
            "installed", "done", "rebooting", "rebooting at the end", "closing", "closed"}
  /\ path \in BOOLEAN /\ handle \in {"none", "running", "finished"}
  /\ errorCount \in {Unset} \cup Nat
  /\ worker \in {"none", "connect", "loop", "check", "command", "cancelled check",
                 "cancelled command", "shutdown", "disconnect", "ended", "reboot", "rebooting"}
  /\ helper \in {"gone", "listening", "idle", "busy", "quitting"}
  /\ index \in Nat /\ failed \in Nat /\ late \in Nat
  /\ cancelled \in BOOLEAN /\ connected \in BOOLEAN
  /\ \A n \in DOMAIN chips : chips[n] \in {"..", ">>", "OK", "--", "!!"}
  /\ \A n \in DOMAIN outcome : outcome[n] \in {"nothing", "begun", "done", "failed", "found"}

(* What the page shows of a step is what became of it, although answers are  *)
(* matched to requests by their order alone and no requestId is looked at:   *)
(* OK is a command that ended well, -- a check that found the step there.    *)
ChipsAreTrue ==
  \A n \in DOMAIN chips :
    /\ chips[n] = "OK" => outcome[n] = "done"
    /\ chips[n] = "--" => outcome[n] = "found"
    /\ chips[n] = "!!" => outcome[n] \notin {"done", "found"}

AllThere == \A n \in DOMAIN plan : ~plan[n].optional => outcome[n] \in {"done", "found"}
SaysAllThere == errorCount \in {Unset, 0} \* getOpt("install/errorCount", 0)
LastPage == {"installed", "done", "rebooting at the end"}

(* A count of no errors, for which the last page says that all that was      *)
(* selected is installed, means that each step the count is about is there,  *)
(* though the helper may die in between or never take the connection, and    *)
(* though the page may have been entered before: of a run that was started,  *)
(* with no other worker alive.                                               *)
NoErrorsMeansThere == entry = "alone" /\ ui \in LastPage /\ SaysAllThere => AllThere

(* Both, until the page is entered over a worker of an earlier entry.  From  *)
(* then on neither is so, and the second is not after an entry that could    *)
(* not launch the helper: the last page reads the count of another worker,   *)
(* or none as 0, and says "All selected packages and tools have been         *)
(* installed." (donepage.cpp:61-67).                                         *)
ShownIsTrue == entry # "mixed" => ChipsAreTrue /\ NoErrorsMeansThere

(* A window that closes in the middle of a check still lets that step's      *)
(* command begin, whatever m_cancelled says, but no other one after it.      *)
OneMoreAfterClose == late <= 1

Running == ui \in {"updating", "flatpak", "install", "closing", "rebooting", "rebooting at the end"}

(* No page waits for ever, and a helper that has had a client is not left    *)
(* behind as root when the window is gone.  One that nobody ever connected   *)
(* to is: main.cpp gives its start no limit.                                 *)
EverythingEnds ==
  /\ Running ~> ~Running
  /\ ui = "closed" /\ helper \in {"idle", "busy", "quitting"} ~> helper = "gone"
=============================================================================
