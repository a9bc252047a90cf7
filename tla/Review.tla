------------------------------- MODULE Review -------------------------------
(***************************************************************************)
(* The review page's comparison of the plan with the disk, and its gate    *)
(* (ui/pages/reviewpage.cpp, estimateDiskMb() and availableDiskMb()).  The *)
(* selection changes on other pages, the disk at any time.                 *)
(***************************************************************************)
EXTENDS Integers, FiniteSetsExt

CONSTANTS Drivers,    \* the AMD drivers, hidden and left out of the plan without that GPU
          Flatpaks,   \* what needsFlatpak() looks for
          Others,     \* other items
          DiskMb,     \* [item -> its size in the catalogue]
          Free        \* how much may be free on the disk, in MB

Items == Drivers \cup Flatpaks \cup Others

ASSUME ReviewAssumption ==
  /\ Drivers \cap (Flatpaks \cup Others) = {} /\ IsFiniteSet(Items)
  /\ DiskMb \in [Items -> Nat] /\ Free \subseteq Nat

VARIABLES
  selected, amd,     \* the selection and the GPU chosen
  free,              \* what is free on the disk
  shown,             \* the page is on the screen
  diskOk, proceeded, \* m_diskOk, m_proceeded
  proceedVisible,    \* the button Proceed Anyway
  banner,            \* what the page says of the disk
  seen               \* history: [available, selected, amd] at the last rebuild()

choices == <<selected, amd>>
page == <<diskOk, proceeded, proceedVisible, banner, seen>>
vars == <<choices, free, shown, page>>

Unknown == -1

Init ==
  /\ selected = {} /\ amd = FALSE /\ free \in Free /\ shown = FALSE
  /\ diskOk = TRUE /\ proceeded = FALSE /\ proceedVisible = FALSE /\ banner = "none"
  /\ seen = [available |-> Unknown, selected |-> {}, amd |-> FALSE]

------------------------------------------------------------------------------
FlatpakMb == 200
SizeOf(items) == MapThenSumSet(LAMBDA item : DiskMb[item], items)

EstimateWithoutFlatpak(items) == SizeOf(items)                          \* mutant
(* estimateDiskMb() counts every selected item, on the screen or not.        *)
EstimateDiskMb(items) ==
  SizeOf(items) + IF items \cap Flatpaks # {} THEN FlatpakMb ELSE 0

WithBuffer(megabytes) == megabytes + (megabytes * 15) \div 100 + 500

(* availableDiskMb(): 0 is taken for an answer that could not be read.       *)
Available(answer) == IF answer > 0 THEN answer ELSE Unknown

NotMoreThan(available, needed) == available <= needed                   \* mutant
TooSmall(available, needed) == available < needed

(* rebuild(), once the button has been pressed or not; df may fail.          *)
Rebuild(going) ==
  \E answer \in {free, Unknown} :
    LET available == Available(answer)
        short == ~going /\ TooSmall(available, WithBuffer(EstimateDiskMb(selected)))
    IN  /\ seen' = [available |-> answer, selected |-> selected, amd |-> amd]
        /\ \/ /\ available = Unknown /\ banner' = "unknown" /\ diskOk' = TRUE
              /\ proceedVisible' = (proceedVisible /\ ~going)
           \/ /\ available # Unknown /\ short /\ banner' = "short" /\ diskOk' = FALSE
              /\ proceedVisible' = TRUE
           \/ /\ available # Unknown /\ ~short /\ banner' = "fits" /\ diskOk' = TRUE
              /\ proceedVisible' = (proceedVisible /\ ~going)

OnShown == Rebuild(proceeded) /\ UNCHANGED proceeded

Show == ~shown /\ shown' = TRUE /\ OnShown /\ UNCHANGED <<choices, free>>
Leave == shown /\ shown' = FALSE /\ UNCHANGED <<choices, free, page>>

Proceed ==
  /\ shown /\ proceedVisible /\ proceeded' = TRUE /\ Rebuild(TRUE)
  /\ UNCHANGED <<choices, free, shown>>

(* A card of another page; the drivers' are there for AMD.                   *)
Toggle(item) ==
  /\ ~shown /\ (item \in Drivers => amd)
  /\ selected' = IF item \in selected THEN selected \ {item} ELSE selected \cup {item}
  /\ UNCHANGED <<amd, free, shown, page>>

ChooseGpu == ~shown /\ amd' = ~amd /\ UNCHANGED <<selected, free, shown, page>>

DiskChanges ==
  /\ \E megabytes \in Free \ {free} : free' = megabytes
  /\ UNCHANGED <<choices, shown, page>>

Next == Show \/ Leave \/ Proceed \/ ChooseGpu \/ DiskChanges \/ \E item \in Items : Toggle(item)
Spec == Init /\ [][Next]_vars

------------------------------------------------------------------------------
(* Properties *)

(* canAdvance(): Continue is on the screen.                                  *)
Continue == shown /\ (diskOk \/ proceeded)

(* What the plan that is listed will install.                                *)
Planned == IF seen.amd THEN seen.selected ELSE seen.selected \ Drivers
Needed == WithBuffer(SizeOf(Planned) + IF Planned \cap Flatpaks # {} THEN FlatpakMb ELSE 0)

(* HELP.md:136: the page "compares it with free space on /" with 15% and 500 *)
(* MB more.  Continue is on the screen only if that much was free when the   *)
(* page was shown, or df gave no answer, or Proceed Anyway has ever been     *)
(* pressed (reviewpage.cpp:50), for whatever selection, or nothing at all    *)
(* was free (system.cpp:110).                                                *)
GateHolds ==
  Continue => \/ seen.available >= Needed
              \/ seen.available = Unknown
              \/ proceeded
              \/ seen.available = 0

(* And Continue is held back, with the page calling the disk too small, only *)
(* if it is too small for the plan; but for drivers that were selected for   *)
(* AMD, before another GPU was (plan.cpp:571).                               *)
AlarmIsTrue ==
  shown /\ banner = "short" =>
    /\ ~Continue /\ proceedVisible
    /\ seen.available < Needed \/ (~seen.amd /\ seen.selected \cap Drivers # {})
=============================================================================
