---------------------------- MODULE Wizard_proofs ----------------------------
(***************************************************************************)
(* Theorems about Wizard, for any set of items.                            *)
(***************************************************************************)
EXTENDS Wizard, TLAPS

(* Two sessions that know nothing of each other are kept apart by the page   *)
(* the user is on: an update holds the user on the update page, an           *)
(* installation on the Install Now page.                                     *)
UpdateIsBusy == job \in {"system", "flatpak"} => busy
BusyStays == busy => current = Update
RunningStays == running => current = Install
HeldApart == UpdateIsBusy /\ BusyStays /\ RunningStays

(* From the moment the page is shown the selection cannot change before the  *)
(* plan is built.                                                            *)
RunningStarted == running => started
BuiltStarted == built => started
ShownIsSelected == current = Install /\ (~started \/ (running /\ ~built)) => displayed = selected
PlanAsShown == /\ NothingRunsUnseen /\ RunningStarted /\ BuiltStarted /\ ShownIsSelected

(* As long as no error is counted, what the worker has gone through is       *)
(* installed, or may fail uncounted.  An installation that has ended with no *)
(* errors went through all of its plan, and the last page cannot be up while *)
(* one runs.                                                                 *)
Counted == ~failed => (planned \ left) \ Uncounted \subseteq installed
EndedComplete ==
  started /\ ~running /\ ~stopped /\ errorCount = 0 => built /\ ~failed /\ left = {}
MessageHolds == current = Finish /\ message = "all installed" => errorCount = 0
SummaryInv == Counted /\ EndedComplete /\ MessageHolds

WizardInv == HeldApart /\ PlanAsShown /\ NavigationInSync /\ SummaryInv

LEMMA PagesDiffer == Update # Install /\ Select # Install /\ Install # Finish
BY DEF Update, Select, Install, Finish

LEMMA EndsTruly ==
  ASSUME NEW errors \in 0..1, InstallEnds(errors), errors = 0
  PROVE  built /\ ~failed /\ (stopped \/ left = {})
<1>1. errors # 1 /\ errors = (IF failed THEN 1 ELSE 0) /\ built /\ (left = {} \/ stopped)
  BY DEF InstallEnds
<1>2. QED BY <1>1

LEMMA NavigationSteps ==
  ASSUME UpdateNavigation
  PROVE  NavigationInSync'
BY DEF UpdateNavigation, NavigationInSync

LEMMA WindowSteps ==
  ASSUME WizardInv,
         \/ \E index \in Page : ShowStep(index)
         \/ \E item \in Item : Toggle(item)
         \/ AskSkip \/ AskReboot \/ AskStop \/ AskFinalReboot \/ Dismiss
  PROVE  WizardInv'
<1> USE DEF WizardInv, HeldApart, UpdateIsBusy, BusyStays, RunningStays, PlanAsShown,
            NothingRunsUnseen, RunningStarted, BuiltStarted, ShownIsSelected,
            SummaryInv, Counted, EndedComplete, MessageHolds,
            navVars, updateVars, planVars, installVars, doneVars, system
<1>1. ASSUME NEW index \in Page, ShowStep(index)
      PROVE  WizardInv'
  <2>1. HeldApart'
    BY <1>1 DEF ShowStep, Locked
  <2>2. PlanAsShown'
    BY <1>1 DEF ShowStep, Locked, Prepared
  <2>3. NavigationInSync'
    BY <1>1, NavigationSteps DEF ShowStep
  <2>4. SummaryInv'
    BY <1>1 DEF ShowStep, Summary
  <2>5. QED BY <2>1, <2>2, <2>3, <2>4
<1>2. ASSUME NEW item \in Item, Toggle(item)
      PROVE  WizardInv'
  <2>1. HeldApart' /\ PlanAsShown'
    BY <1>2, PagesDiffer, Zenon DEF Toggle
  <2>2. SummaryInv'
    BY <1>2 DEF Toggle
  <2>3. NavigationInSync'
    BY <1>2, NavigationSteps DEF Toggle
  <2>4. QED BY <2>1, <2>2, <2>3
<1>3. ASSUME AskSkip \/ AskReboot \/ AskStop \/ AskFinalReboot \/ Dismiss
      PROVE  WizardInv'
  <2>1. UNCHANGED <<navVars, updateVars, selected, installVars, doneVars, system>>
    BY <1>3 DEF AskSkip, AskReboot, AskStop, AskFinalReboot, Open, Dismiss
  <2>2. QED BY <2>1 DEF NavigationInSync, Locked, CanAdvance
<1>4. QED BY <1>1, <1>2, <1>3

LEMMA UpdatePageSteps ==
  ASSUME WizardInv,
         \/ StartUpdate \/ StartFlatpak \/ DeclineFlatpak \/ ContinueAnyway
         \/ ConfirmSkip \/ ConfirmReboot \/ KernelInstalled
         \/ \E errors \in 0..1, ran \in BOOLEAN : UpdateSessionEnds(errors, ran)
  PROVE  WizardInv'
<1> USE DEF WizardInv, HeldApart, UpdateIsBusy, BusyStays, RunningStays, PlanAsShown,
            NothingRunsUnseen, RunningStarted, BuiltStarted, ShownIsSelected,
            SummaryInv, Counted, EndedComplete, MessageHolds,
            navVars, updateVars, planVars, installVars, doneVars, system, BesideUpdate, OnUpdatePage
<1>1. CASE StartUpdate
  BY <1>1, NavigationSteps DEF StartUpdate, StartSession, SetBusy
<1>2. CASE StartFlatpak
  BY <1>2, NavigationSteps DEF StartFlatpak, StartSession, SetBusy
<1>3. CASE DeclineFlatpak
  BY <1>3, NavigationSteps DEF DeclineFlatpak
<1>4. CASE ContinueAnyway
  BY <1>4, NavigationSteps DEF ContinueAnyway
<1>5. CASE ConfirmSkip
  BY <1>5, NavigationSteps DEF ConfirmSkip
<1>6. CASE ConfirmReboot
  BY <1>6 DEF ConfirmReboot, StartSession, NavigationInSync, Locked, CanAdvance
<1>7. CASE KernelInstalled
  BY <1>7 DEF KernelInstalled, NavigationInSync, Locked, CanAdvance
<1>8. ASSUME NEW errors \in 0..1, NEW ran \in BOOLEAN, UpdateSessionEnds(errors, ran)
      PROVE  WizardInv'
  <2>1. /\ job' = "none" /\ busy' = FALSE /\ UpdateNavigation
        /\ UNCHANGED <<current, selected, installVars, doneVars, system>>
    BY <1>8 DEF UpdateSessionEnds
  <2>2. QED BY <2>1, NavigationSteps
<1>9. QED BY <1>1, <1>2, <1>3, <1>4, <1>5, <1>6, <1>7, <1>8

LEMMA InstallPageSteps ==
  ASSUME WizardInv,
         \/ StartInstall \/ WorkerStep \/ ConfirmStop \/ ConfirmFinalReboot \/ FinalRebootEnds
         \/ \E errors \in 0..1 : InstallEnds(errors)
  PROVE  WizardInv'
<1> USE DEF WizardInv, HeldApart, UpdateIsBusy, BusyStays, RunningStays, PlanAsShown,
            NothingRunsUnseen, RunningStarted, BuiltStarted, ShownIsSelected,
            SummaryInv, Counted, EndedComplete, MessageHolds,
            navVars, updateVars, planVars, installVars, doneVars, system, BesideInstall
<1>1. CASE StartInstall
  BY <1>1, NavigationSteps DEF StartInstall
<1>2. CASE BuildPlan
  BY <1>2 DEF BuildPlan, NavigationInSync, Locked, CanAdvance
<1>3. CASE ConfirmStop
  BY <1>3 DEF ConfirmStop, NavigationInSync, Locked, CanAdvance
<1>4. CASE ConfirmFinalReboot
  BY <1>4 DEF ConfirmFinalReboot, NavigationInSync, Locked, CanAdvance
<1>5. CASE FinalRebootEnds
  BY <1>5 DEF FinalRebootEnds, NavigationInSync, Locked, CanAdvance
<1>6. ASSUME NEW item \in Item,
             InstallItem(item) \/ \E counted \in BOOLEAN : FailItem(item, counted)
      PROVE  WizardInv'
  <2>1. /\ running /\ left' = left \ {item}
        /\ UNCHANGED <<navVars, updateVars, selected, displayed, started, running, errorCount>>
        /\ UNCHANGED <<built, planned, stopped, done, doneVars>>
    BY <1>6 DEF InstallItem, FailItem, BesideItem
  <2>2. HeldApart' /\ PlanAsShown' /\ NavigationInSync' /\ EndedComplete' /\ MessageHolds'
    BY <2>1 DEF NavigationInSync, Locked, CanAdvance
  <2>3. Counted'
    <3>1. CASE InstallItem(item)
      <4>1. failed' = failed /\ installed' = installed \cup {item}
        BY <3>1 DEF InstallItem
      <4> QED
        BY <2>1, <4>1
    <3>2. ASSUME NEW counted \in BOOLEAN, FailItem(item, counted)
          PROVE  Counted'
      <4>1. /\ failed' = (failed \/ counted) /\ installed' = installed
            /\ item \notin Uncounted => counted
        BY <3>2 DEF FailItem
      <4> QED
        BY <2>1, <4>1
    <3> QED
      BY <1>6, <3>1, <3>2
  <2> QED
    BY <2>2, <2>3
<1>7. ASSUME NEW errors \in 0..1, InstallEnds(errors)
      PROVE  WizardInv'
  <2>1. /\ running' = FALSE /\ UpdateNavigation
        /\ UNCHANGED <<current, updateVars, selected, displayed, started, planVars>>
        /\ UNCHANGED <<stopped, message, installed>>
    BY <1>7 DEF InstallEnds
  <2>2. HeldApart' /\ PlanAsShown' /\ NavigationInSync' /\ Counted'
    BY <2>1, NavigationSteps
  <2>3. EndedComplete'
    <3>1. errors = 0 => built /\ ~failed /\ (stopped \/ left = {})
      BY <1>7, EndsTruly
    <3>2. errorCount' = errors
      BY <1>7 DEF InstallEnds
    <3>3. QED BY <2>1, <3>1, <3>2
  <2>4. MessageHolds'
    BY <1>7, <2>1, PagesDiffer, Zenon DEF InstallEnds
  <2>5. QED BY <2>2, <2>3, <2>4
<1>8. QED BY <1>1, <1>2, <1>3, <1>4, <1>5, <1>6, <1>7 DEF WorkerStep

LEMMA WizardInvariant == Spec => []WizardInv
<1>1. Init => WizardInv
  BY DEF Init, WizardInv, HeldApart, UpdateIsBusy, BusyStays, RunningStays, PlanAsShown,
         NothingRunsUnseen, RunningStarted, BuiltStarted, ShownIsSelected,
         SummaryInv, Counted, EndedComplete, MessageHolds, NavigationInSync, Locked, CanAdvance, Welcome, Update, Install, Finish
<1>2. WizardInv /\ [Next]_vars => WizardInv'
  <2>1. CASE UNCHANGED vars
    BY <2>1 DEF vars, navVars, updateVars, planVars, installVars, doneVars, system,
                WizardInv, HeldApart, UpdateIsBusy,
                BusyStays, RunningStays, PlanAsShown, NothingRunsUnseen, RunningStarted,
                BuiltStarted, ShownIsSelected, SummaryInv, Counted, EndedComplete, MessageHolds,
                NavigationInSync, Locked, CanAdvance
  <2>2. CASE Next
    BY <2>2, WindowSteps, UpdatePageSteps, InstallPageSteps DEF Next, SessionsEnd
  <2>3. QED BY <2>1, <2>2
<1>3. QED BY <1>1, <1>2, PTL DEF Spec

(* An update and an installation never run at once, in whatever order the    *)
(* buttons of the update page are pressed and the sessions end.              *)
THEOREM Apart == Spec => []UpdateExcludesInstall
<1>1. WizardInv => UpdateExcludesInstall
  BY DEF WizardInv, HeldApart, UpdateIsBusy, BusyStays, RunningStays, UpdateExcludesInstall,
         Update, Install
<1>2. QED BY <1>1, WizardInvariant, PTL

(* The plan that is run is the plan that was shown, for any selection.       *)
THEOREM Shown == Spec => []NothingRunsUnseen
<1>1. WizardInv => NothingRunsUnseen
  BY DEF WizardInv, PlanAsShown
<1>2. QED BY <1>1, WizardInvariant, PTL

(* The sidebar and Continue always agree with the pages.                     *)
THEOREM InSync == Spec => []NavigationInSync
<1>1. WizardInv => NavigationInSync
  BY DEF WizardInv
<1>2. QED BY <1>1, WizardInvariant, PTL

(* "All selected packages and tools are installed" is said only when every   *)
(* item listed is installed, if an installation ran and was not stopped, but *)
(* for the items whose failure is not counted.                               *)
THEOREM Summarised == Spec => []SummaryIsTrue
<1>1. WizardInv => SummaryIsTrue
  <2> SUFFICES ASSUME WizardInv, current = Finish, message = "all installed", started, ~stopped
               PROVE  built /\ displayed \ Uncounted \subseteq installed
    BY DEF SummaryIsTrue
  <2>1. ~running /\ errorCount = 0
    BY PagesDiffer, Zenon DEF WizardInv, HeldApart, RunningStays, SummaryInv, MessageHolds
  <2>2. built /\ ~failed /\ left = {}
    BY <2>1 DEF WizardInv, SummaryInv, EndedComplete
  <2>3. planned \ Uncounted \subseteq installed
    BY <2>2 DEF WizardInv, SummaryInv, Counted
  <2> QED
    BY <2>2, <2>3 DEF WizardInv, PlanAsShown, NothingRunsUnseen
<1>2. QED BY <1>1, WizardInvariant, PTL
=============================================================================
