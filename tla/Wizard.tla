------------------------------- MODULE Wizard -------------------------------
(***************************************************************************)
(* The wizard on the main thread: the window's navigation (ui/window.cpp), *)
(* the System Update page (ui/pages/updatepage.cpp), the Install Now page  *)
(* (installpage.cpp) and the Setup Complete page (donepage.cpp), each with *)
(* a privileged session of its own.                                        *)
(*                                                                         *)
(* A session is what Session and InstallRun say of it: once started it     *)
(* runs until one task reports the number of errors, and start() does      *)
(* nothing while it runs.  One page stands for all the selection pages     *)
(* and the review.  A dialog is modal: the window behind it takes no       *)
(* input, while sessions go on and report.                                 *)
(***************************************************************************)
EXTENDS Integers, FiniteSets

CONSTANTS Item,       \* what can be selected and installed
          Uncounted,  \* items a step of which may fail and be no error: it is optional,
                      \* exits 0 over what it skipped, or its exit code is allowed
          MaxKernel   \* kernels that may get installed, a bound for TLC

ASSUME WizardAssumption == MaxKernel \in Nat /\ Uncounted \subseteq Item

Welcome == 0
Update == 1
Select == 2
Install == 3
Finish == 4
Page == Welcome..Finish

VARIABLES
  current, sensitive, offered, continueShown,   \* Window
  dialog,                                       \* the open dialog
  phase, busy, complete, kernelsBefore,         \* UpdatePage
  flatpakBox, kernelBox, updateOn, skipOn,
  job,                                          \* what the update page's session runs
  selected,                                     \* the shared Selection
  displayed, started, running, done, errorCount,\* InstallPage
  built, planned, left, failed, stopped,        \* its session: the plan, what is still to
                                                \* do, an error counted, and Stop
  message, rebooting,                           \* DonePage and its session
  kernels, installed,                           \* the system
  updated, skipped                \* history: what the user went through

navVars == <<current, sensitive, offered, continueShown>>
buttons == <<flatpakBox, kernelBox, updateOn, skipOn>>
updateVars == <<phase, busy, complete, kernelsBefore, buttons, job>>
planVars == <<built, planned, left, failed>>
installVars == <<displayed, started, running, done, errorCount, planVars, stopped>>
doneVars == <<message, rebooting>>
system == <<kernels, installed>>
history == <<updated, skipped>>
vars == <<navVars, dialog, updateVars, selected, installVars, doneVars, system, history>>

Init ==
  /\ current = Welcome /\ sensitive = TRUE /\ offered = FALSE /\ continueShown = FALSE
  /\ dialog = "none"
  /\ phase = "idle" /\ busy = FALSE /\ complete = FALSE /\ kernelsBefore = -1
  /\ flatpakBox = FALSE /\ kernelBox = FALSE /\ updateOn = TRUE /\ skipOn = TRUE /\ job = "none"
  /\ selected = {} /\ displayed = {}
  /\ started = FALSE /\ running = FALSE /\ done = FALSE /\ errorCount = 0
  /\ built = FALSE /\ planned = {} /\ left = {} /\ failed = FALSE /\ stopped = FALSE
  /\ message = "none" /\ rebooting = FALSE
  /\ kernels = 0 /\ installed = {}
  /\ updated = FALSE /\ skipped = FALSE

------------------------------------------------------------------------------
(* The window *)

LockedByInstall == current = Install /\ running                         \* mutant
LockedOnceStarted == (current = Update /\ busy) \/ (current = Install /\ started)    \* mutant
Locked == (current = Update /\ busy) \/ (current = Install /\ running)
CanAdvance == (current = Update => complete) /\ (current = Install => done)

(* updateNavigation(), called when a page's state or the page has changed.   *)
SidebarOnly == sensitive' = ~Locked' /\ UNCHANGED <<offered, continueShown>>  \* mutant
UpdateNavigation ==
  /\ sensitive' = ~Locked'
  /\ offered' = complete'
  /\ continueShown' = (current' \notin {Welcome, Finish} /\ CanAdvance' /\ ~Locked')

(* prepare(), each time the page is shown until the installation starts.     *)
PreparedOnce(index) == IF index = Install /\ displayed = {} THEN selected ELSE displayed   \* mutant
Prepared(index) == IF index = Install /\ ~started THEN selected ELSE displayed

(* The last page keeps the summary it was given when it was shown.           *)
SummaryOnce(index) ==                                                   \* mutant
  IF index # Finish \/ message # "none" THEN message
  ELSE IF errorCount = 0 THEN "all installed" ELSE "errors"
Summary(index) == IF index # Finish THEN message
                  ELSE IF errorCount = 0 THEN "all installed" ELSE "errors"

(* showStep(): a row of the sidebar, Continue, or the keyboard shortcuts.    *)
ShowStep(index) ==
  /\ dialog = "none" /\ index # current
  /\ \/ sensitive /\ (offered \/ index <= Update)
     \/ index \in {current - 1, current + 1}
  /\ ~Locked /\ (complete \/ index <= Update)
  /\ current' = index
  /\ displayed' = Prepared(index)
  /\ message' = Summary(index)
  /\ UNCHANGED <<dialog, updateVars, selected, started, running, done, errorCount, planVars,
                 stopped, rebooting, system, history>>
  /\ UpdateNavigation

Toggle(item) ==
  /\ dialog = "none" /\ current = Select
  /\ selected' = IF item \in selected THEN selected \ {item} ELSE selected \cup {item}
  /\ UNCHANGED <<current, dialog, updateVars, installVars, doneVars, system, history>>
  /\ UpdateNavigation

Open(which) ==
  /\ dialog = "none" /\ dialog' = which
  /\ UNCHANGED <<navVars, updateVars, selected, installVars, doneVars, system, history>>

AskSkip == current = Update /\ skipOn /\ Open("skip")
AskReboot == current = Update /\ kernelBox /\ Open("reboot")
AskStop == current = Install /\ running /\ Open("stop")
AskFinalReboot == current = Finish /\ Open("final reboot")

Dismiss ==
  /\ dialog # "none" /\ dialog' = "none"
  /\ UNCHANGED <<navVars, updateVars, selected, installVars, doneVars, system, history>>

------------------------------------------------------------------------------
(* System Update *)

(* HelperSession::start() does nothing while its session runs. *)
StartSession(what) == job' = IF job = "none" THEN what ELSE job

SetBusy(on) ==
  /\ busy' = on
  /\ updateOn' = (~on /\ ~complete) /\ skipOn' = (~on /\ ~complete)

OnUpdatePage == current = Update /\ dialog = "none"
BesideUpdate == UNCHANGED <<current, selected, installVars, doneVars, system>>

StartUpdate ==
  /\ OnUpdatePage /\ updateOn
  /\ kernelsBefore' = kernels /\ phase' = "system"
  /\ SetBusy(TRUE) /\ StartSession("system")
  /\ UNCHANGED <<complete, flatpakBox, kernelBox, dialog, history>>
  /\ BesideUpdate /\ UpdateNavigation

StartFlatpak ==
  /\ OnUpdatePage /\ flatpakBox
  /\ flatpakBox' = FALSE /\ phase' = "flatpak"
  /\ SetBusy(TRUE) /\ StartSession("flatpak")
  /\ UNCHANGED <<complete, kernelsBefore, kernelBox, dialog, history>>
  /\ BesideUpdate /\ UpdateNavigation

MarkComplete ==
  /\ complete' = TRUE /\ updateOn' = FALSE /\ skipOn' = FALSE
  /\ flatpakBox' = FALSE /\ kernelBox' = FALSE

NewKernel == kernels # kernelsBefore

(* No to the Flatpak question: finishUpdate(). *)
DeclineFlatpak ==
  /\ OnUpdatePage /\ flatpakBox
  /\ IF NewKernel
     THEN kernelBox' = TRUE /\ UNCHANGED <<complete, updateOn, skipOn, flatpakBox>>
     ELSE MarkComplete
  /\ UNCHANGED <<phase, busy, kernelsBefore, job, dialog, history>>
  /\ BesideUpdate /\ UpdateNavigation

ContinueAnyway ==
  /\ OnUpdatePage /\ kernelBox
  /\ MarkComplete
  /\ UNCHANGED <<phase, busy, kernelsBefore, job, dialog, history>>
  /\ BesideUpdate /\ UpdateNavigation

ConfirmSkip ==
  /\ dialog = "skip" /\ dialog' = "none"
  /\ MarkComplete /\ skipped' = TRUE
  /\ UNCHANGED <<phase, busy, kernelsBefore, job, updated>>
  /\ BesideUpdate /\ UpdateNavigation

(* The reboot does not make the page busy. *)
ConfirmReboot ==
  /\ dialog = "reboot" /\ dialog' = "none"
  /\ phase' = "reboot" /\ StartSession("reboot")
  /\ UNCHANGED <<busy, complete, kernelsBefore, buttons, navVars, selected, installVars, doneVars,
                 system, history>>

KernelInstalled ==
  /\ job = "system" /\ kernels < MaxKernel
  /\ kernels' = kernels + 1
  /\ UNCHANGED <<navVars, dialog, updateVars, selected, installVars, doneVars, installed, history>>

(* signalDone: the phase, and not the job that ended, decides what follows.  *)
(* The session may have ended before its command ran, with one error.        *)
UpdateSessionEnds(errors, ran) ==
  /\ job # "none" /\ job' = "none" /\ (errors = 0 => ran)
  /\ updated' = (updated \/ (job = "system" /\ ran))
  /\ busy' = FALSE /\ phase' = "idle"
  /\ CASE phase = "system" ->
            /\ flatpakBox' = TRUE
            /\ updateOn' = (~complete /\ errors # 0) /\ skipOn' = (~complete /\ errors # 0)
            /\ UNCHANGED <<complete, kernelBox>>
       [] phase = "flatpak" /\ ~NewKernel -> MarkComplete
       [] phase = "flatpak" /\ NewKernel ->
            /\ flatpakBox' = FALSE /\ kernelBox' = TRUE
            /\ updateOn' = ~complete /\ skipOn' = ~complete /\ UNCHANGED complete
       [] OTHER ->
            /\ updateOn' = ~complete /\ skipOn' = ~complete
            /\ UNCHANGED <<complete, flatpakBox, kernelBox>>
  /\ UNCHANGED <<kernelsBefore, dialog, skipped>>
  /\ BesideUpdate /\ UpdateNavigation

------------------------------------------------------------------------------
(* Install Now *)

BesideInstall == UNCHANGED <<current, updateVars, selected, doneVars, kernels, history>>

StartInstall ==
  /\ current = Install /\ dialog = "none" /\ ~started
  /\ started' = TRUE /\ running' = TRUE /\ done' = FALSE
  /\ UNCHANGED <<displayed, errorCount, planVars, stopped, dialog, installed>>
  /\ BesideInstall /\ UpdateNavigation

(* The worker builds the plan when the helper is up, from the selection then. *)
BuildPlan ==
  /\ running /\ ~built
  /\ built' = TRUE /\ planned' = selected /\ left' = selected
  /\ UNCHANGED <<navVars, dialog, updateVars, selected, displayed, started, running, done,
                 errorCount, failed, stopped, doneVars, system, history>>

(* The steps of an item: they leave it installed, or one of them fails.      *)
BesideItem == UNCHANGED <<navVars, dialog, updateVars, selected, displayed, started, running, done,
                          errorCount, built, planned, stopped, doneVars, kernels, history>>

InstallItem(item) ==
  /\ running /\ item \in left /\ left' = left \ {item}
  /\ installed' = installed \cup {item}
  /\ UNCHANGED failed /\ BesideItem

FailItem(item, counted) ==
  /\ running /\ item \in left /\ left' = left \ {item}
  /\ item \notin Uncounted => counted
  /\ failed' = (failed \/ counted)
  /\ UNCHANGED installed /\ BesideItem

ConfirmStop ==
  /\ dialog = "stop" /\ dialog' = "none"
  /\ stopped' = TRUE
  /\ UNCHANGED <<navVars, updateVars, selected, displayed, started, running, done, errorCount,
                 planVars, doneVars, system, history>>

(* One error if the helper did not start, could not be reached or refused    *)
(* the session; else those counted, when every item was gone through or the  *)
(* worker saw Stop between two steps.                                        *)
InstallEnds(errors) ==
  /\ running
  /\ \/ errors = 1 /\ (~built \/ left = planned)
     \/ errors = (IF failed THEN 1 ELSE 0) /\ built /\ (left = {} \/ stopped)
  /\ running' = FALSE /\ done' = TRUE /\ errorCount' = errors
  /\ UNCHANGED <<displayed, started, planVars, stopped, dialog, installed>>
  /\ BesideInstall /\ UpdateNavigation

------------------------------------------------------------------------------
(* Setup Complete *)

ConfirmFinalReboot ==
  /\ dialog = "final reboot" /\ dialog' = "none"
  /\ rebooting' = TRUE
  /\ UNCHANGED <<navVars, updateVars, selected, installVars, message, system, history>>

FinalRebootEnds ==
  /\ rebooting /\ rebooting' = FALSE
  /\ UNCHANGED <<navVars, dialog, updateVars, selected, installVars, message, system, history>>

------------------------------------------------------------------------------
WorkerStep == \/ BuildPlan
              \/ \E item \in Item : InstallItem(item) \/ \E counted \in BOOLEAN : FailItem(item, counted)

SessionsEnd == \/ \E errors \in 0..1, ran \in BOOLEAN : UpdateSessionEnds(errors, ran)
               \/ \E errors \in 0..1 : InstallEnds(errors)
               \/ FinalRebootEnds

Next == \/ \E index \in Page : ShowStep(index)
        \/ \E item \in Item : Toggle(item)
        \/ AskSkip \/ AskReboot \/ AskStop \/ AskFinalReboot \/ Dismiss
        \/ StartUpdate \/ StartFlatpak \/ DeclineFlatpak \/ ContinueAnyway
        \/ ConfirmSkip \/ ConfirmReboot \/ KernelInstalled
        \/ StartInstall \/ WorkerStep \/ ConfirmStop
        \/ ConfirmFinalReboot \/ SessionsEnd

Spec == Init /\ [][Next]_vars

(* Sessions end (Session!SessionEnds); the user need not do anything.        *)
FairSpec ==
  /\ Spec
  /\ WF_vars(\E errors \in 0..1, ran \in BOOLEAN : UpdateSessionEnds(errors, ran))
  /\ WF_vars(WorkerStep) /\ WF_vars(\E errors \in 0..1 : InstallEnds(errors))

------------------------------------------------------------------------------
(* Properties *)

TypeOK ==
  /\ current \in Welcome..Finish /\ sensitive \in BOOLEAN /\ offered \in BOOLEAN /\ continueShown \in BOOLEAN
  /\ dialog \in {"none", "skip", "reboot", "stop", "final reboot"}
  /\ phase \in {"idle", "system", "flatpak", "reboot"} /\ busy \in BOOLEAN /\ complete \in BOOLEAN
  /\ kernels \in 0..MaxKernel /\ kernelsBefore \in -1..MaxKernel
  /\ flatpakBox \in BOOLEAN /\ kernelBox \in BOOLEAN /\ updateOn \in BOOLEAN /\ skipOn \in BOOLEAN
  /\ job \in {"none", "system", "flatpak", "reboot"}
  /\ selected \subseteq Item /\ displayed \subseteq Item /\ installed \subseteq Item
  /\ started \in BOOLEAN /\ running \in BOOLEAN /\ done \in BOOLEAN /\ errorCount \in 0..1
  /\ built \in BOOLEAN /\ planned \subseteq Item /\ left \subseteq Item
  /\ failed \in BOOLEAN /\ stopped \in BOOLEAN
  /\ message \in {"none", "all installed", "errors"} /\ rebooting \in BOOLEAN
  /\ updated \in BOOLEAN /\ skipped \in BOOLEAN

(* A system or Flatpak update and an installation never run at once, though  *)
(* their sessions do not know of each other: only the navigation lock keeps  *)
(* them apart, and the update page's buttons can be pressed in orders that   *)
(* leave its phase wrong (window.cpp showStep, updatepage.cpp setBusy).      *)
UpdateExcludesInstall == ~(job \in {"system", "flatpak"} /\ running)

(* What is installed is what the Install Now page listed when it was shown,  *)
(* although the worker builds its own plan, later, from the shared selection *)
(* (installpage.cpp prepare() and start()).                                  *)
NothingRunsUnseen == built => planned = displayed

(* The sidebar, the offered steps and Continue agree with the pages, after   *)
(* every event: each change reaches updateNavigation().                      *)
NavigationInSync ==
  /\ sensitive = ~Locked /\ offered = complete
  /\ continueShown = (current \notin {Welcome, Finish} /\ CanAdvance /\ ~Locked)

(* When the last page says "All selected packages and tools are installed."  *)
(* (donepage.cpp:72), an installation ran and it was not stopped, every item *)
(* the Install Now page listed is installed, but for those whose failure is  *)
(* no error: of these it is not so.  The page listed them from its own plan, *)
(* the worker counted over another, and the window passes the count on when  *)
(* it shows the page (installpage.cpp prepare(), start(); window.cpp         *)
(* 371-373).                                                                 *)
SummaryIsTrue ==
  current = Finish /\ message = "all installed" /\ started /\ ~stopped =>
    built /\ displayed \ Uncounted \subseteq installed

(* The user is not locked in: a page that locks navigation releases it.      *)
NavigationUnlocks == Locked ~> ~Locked

(* Refuted: see the violation run of MCWizard.                              *)

(* CHANGELOG.md, 3.0.0: "Only the Welcome and System Update steps are        *)
(* offered until the update has run or has been explicitly skipped".         *)
UnlockedByUpdateOrSkip == offered => updated \/ skipped
=============================================================================
