-------------------------------- MODULE Parity --------------------------------
(***************************************************************************)
(* The plan of a selection against the plan that the Qt program made of    *)
(* the same selection, and against what either helper lets through.        *)
(***************************************************************************)
EXTENDS Selection, LegacyPlan

Kept == selected \ (New \cup Changed)

(* What is carried out for a selection, with no file manager and no terminal,*)
(* which the Qt program did not offer.                                       *)
Runs(set) ==
  AddedFor(Carried[PackageSet(system.fedora)],
           AskedFor(set, [choice EXCEPT !.fileManager = "none", !.terminal = "none"]))
LegacyRuns(set) ==
  AddedFor(LegacyCarried[PackageSet(system.fedora)], LegacyAskedFor(set, choice.gpu))

(* legacy/qt/README.md: "Its privileged helper protocol, allow-list, and     *)
(* install plan are the reference for behaviour parity".  For all that both  *)
(* offer and install in the same way, the same commands run with the same    *)
(* checks in the same order, whichever items are selected together: two      *)
(* plans and two allow-lists written twice (plan.cpp:408-566, policy.cpp:90, *)
(* mainwizard.cpp:165, helperserver.cpp:44).  But not on whether Flathub is  *)
(* needed: Chrome alone did not bring it then, Spotify alone does not now.   *)
SameAsBefore ==
  \/ Runs(Kept) = LegacyRuns(Kept)
  \/ NeedsFlatpak(Kept) /\ Kept \cap LegacyFlatpakKeys = {} /\ "browsers/chrome" \in Kept
  \/ ~NeedsFlatpak(Kept) /\ Kept \cap LegacyFlatpakKeys # {} /\ "comms/spotify" \in Kept
=============================================================================
