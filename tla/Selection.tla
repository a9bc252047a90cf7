----------------------------- MODULE Selection -----------------------------
(***************************************************************************)
(* The user's choices (core/selection.cpp) as the wizard's pages change    *)
(* them (selectpage.cpp, choicepage.cpp, gpupage.cpp), and what the plan   *)
(* for each reachable selection must be like.                              *)
(***************************************************************************)
EXTENDS Plan

CONSTANTS Systems,    \* the systems the wizard may find itself on
          MaxItems,   \* items chosen card by card, a bound for TLC
          MaxPages,   \* pages selected as a whole, a bound for TLC
          MaxChoices  \* groups with a choice, a bound for TLC

ASSUME SystemsAssumption ==
  \A system \in Systems : system.fedora \in Nat /\ system.architecture \in {"x86_64", "aarch64"}

ASSUME BoundsAssumption == {MaxItems, MaxPages, MaxChoices} \subseteq Nat

VARIABLES system,     \* what was found at the start
          selected,   \* the keys that are set
          choice      \* [group -> its value]

vars == <<system, selected, choice>>

Init == system \in Systems /\ selected = {} /\ choice = [group \in DOMAIN Groups |-> "none"]

------------------------------------------------------------------------------
(* m_cards of a page: Epic serves its launcher for one architecture.         *)
Cards(page) ==
  IF system.architecture = "x86_64" THEN Catalogue[page] ELSE Catalogue[page] \ {"gaming/epic"}

(* The cards of the AMD drivers are on a box that only AMD shows. *)
Shown(page) == page = "graphics" => choice.gpu = "amd"

Touched == {page \in Pages : selected' \cap Catalogue[page] # {}}
Few == Cardinality(selected') <= MaxItems
FewPages == Cardinality(Touched) <= MaxPages

Toggle(page, key) ==
  /\ Shown(page) /\ key \in Cards(page)
  /\ selected' = IF key \in selected THEN selected \ {key} ELSE selected \cup {key}
  /\ Few /\ UNCHANGED <<system, choice>>

(* Select All and Select None of a page. *)
SetAll(page, on) ==
  /\ Shown(page)
  /\ selected' = IF on THEN selected \cup Cards(page) ELSE selected \ Cards(page)
  /\ FewPages /\ UNCHANGED <<system, choice>>

(* The button of a warning: the item is on the page, what it requires may be *)
(* on another.                                                               *)
SelectRequirement(page) ==
  /\ \E pair \in Unmet(selected, system.fedora) :
       pair[1] \in Cards(page) /\ selected' = selected \cup {pair[2]}
  /\ (Few \/ FewPages) /\ UNCHANGED <<system, choice>>

Chosen == {group \in DOMAIN Groups : choice'[group] # "none"}
FewChoices == Cardinality(Chosen) <= MaxChoices

(* A card of Essentials: choosing the chosen one takes the choice back.      *)
Choose(group, value) ==
  /\ group # "gpu"
  /\ choice' = [choice EXCEPT ![group] = IF @ = value THEN "none" ELSE value]
  /\ FewChoices /\ UNCHANGED <<system, selected>>

ChooseAll ==
  /\ choice' = [group \in DOMAIN Groups |->
                  IF group # "gpu" /\ choice[group] = "none" THEN Recommended[group]
                  ELSE choice[group]]
  /\ FewChoices /\ UNCHANGED <<system, selected>>

ChooseNone ==
  /\ choice' = [group \in DOMAIN Groups |-> IF group = "gpu" THEN choice[group] ELSE "none"]
  /\ UNCHANGED <<system, selected>>

(* A radio button of the GPU page; a selection made for AMD stays.  Skip is   *)
(* the active one before anything is chosen.                                 *)
Active == IF choice.gpu = "none" THEN "skip" ELSE choice.gpu

ChooseGpu(maker) ==
  /\ maker # Active
  /\ choice' = [choice EXCEPT !.gpu = maker]
  /\ FewChoices /\ UNCHANGED <<system, selected>>

Next == \/ \E page \in Pages : \/ \E key \in Cards(page) : Toggle(page, key)
                               \/ \E on \in BOOLEAN : SetAll(page, on)
                               \/ SelectRequirement(page)
        \/ \E group \in DOMAIN Groups : \E value \in Groups[group] : Choose(group, value)
        \/ ChooseAll \/ ChooseNone
        \/ \E maker \in Groups.gpu : ChooseGpu(maker)

Spec == Init /\ [][Next]_vars

------------------------------------------------------------------------------
(* Properties *)

(* What is set are cards of the catalogue and options of their groups.       *)
TypeOK ==
  /\ system \in Systems
  /\ selected \in SUBSET Key
  /\ DOMAIN choice = DOMAIN Groups
  /\ \A group \in DOMAIN Groups : choice[group] \in Groups[group] \cup {"none"}

plan == BuildPlan(selected, system.fedora, choice)
StepsOf(key) == CatalogSteps[PackageSet(system.fedora)][key]

IdsOf(steps) == {steps[n].id : n \in DOMAIN steps}

(* A plan is one that a session can run: Session's PlansAssumption.  No two  *)
(* steps have the same id, although several items share steps and pages are  *)
(* scattered over the plan: the chips and the results of the steps are kept  *)
(* by id.  What a step depends on comes before it, or it would be skipped.   *)
PlanSuitsSession ==
  LET steps == plan IN
  /\ Cardinality(IdsOf(steps)) = Len(steps)
  /\ \A n \in DOMAIN steps :
       steps[n].dependsOn # "none" => \E m \in 1..n-1 : steps[m].id = steps[n].dependsOn

(* The items the plan is to install: AMD's drivers only for AMD.             *)
Wanted == IF choice.gpu = "amd" THEN selected ELSE selected \ Amd

(* Every selected item gets all of its steps, no other item gets any: the    *)
(* lists of keys in buildPlan() and the catalogue's pages do not know of     *)
(* each other (plan.cpp:408-566, catalog.cpp:19-408).                        *)
PlanIsTheSelection ==
  LET steps == plan IN
  /\ \A key \in Wanted : IdsOf(StepsOf(key)) \subseteq IdsOf(steps)
  /\ \A n \in DOMAIN steps : steps[n].item \in Wanted \cup {NoItem}

ProvidedBefore(steps, n) == UNION {steps[m].provides : m \in 1..n-1}

(* If the pages and the review show no unmet requirement, every repository,  *)
(* tool and file a step needs has been put there by an earlier step, but for *)
(* Spotify as the only Flatpak and the CachyOS headers without the kernel.   *)
SourcesComeFirst ==
  LET steps == plan IN
  Unmet(selected, system.fedora) = {} =>
    \A n \in DOMAIN steps :
      \/ steps[n].needs \subseteq ProvidedBefore(steps, n)
      \/ steps[n].item = "comms/spotify" /\ ~NeedsFlatpak(selected)
      \/ steps[n].item = "cachyos/kernel_devel" /\ "cachyos/kernel" \notin selected
=============================================================================
