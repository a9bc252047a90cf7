--------------------------- MODULE CatalogueFacts ---------------------------
(***************************************************************************)
(* Facts about the tables of Plan and LegacyPlan, before anything is       *)
(* selected.  No state is in them and nothing is left open but the names   *)
(* of users: TLC, which evaluates them before a run, decides them.  What   *)
(* they mean for the plan of a selection, of which there are too many to   *)
(* look at, is proved in Plan_proofs.                                      *)
(***************************************************************************)
EXTENDS LegacyPlan, Effects

ChoiceValues == Groups.fileManager \cup Groups.terminal
Reasons == Key \cup ChoiceValues \cup {Always}

OfferSet ==
  [for : SUBSET Reasons,
   step : [item : Key \cup {NoItem}, id : STRING, needs : SUBSET STRING,
           provides : SUBSET STRING, dependsOn : STRING]]

ASSUME OffersTyped ==
  \A packages \in PackageSets : Offers[packages] \in Seq(OfferSet)

(* A key is no option, and no driver is needed for anything else.            *)
ASSUME KeysApart ==
  /\ Key \cap (ChoiceValues \cup {Always, "none"}) = {}
  /\ (FlatpakItems \cup {"cachyos/kernel"}) \cap Amd = {}
  /\ \A packages \in PackageSets : Requirements(packages) \subseteq Key \X (Key \ Amd)

(* No id is offered twice, whatever asks for it.                             *)
ASSUME IdsDiffer ==
  \A packages \in PackageSets :
    LET offers == Offers[packages]
    IN  \A m, n \in DOMAIN offers : offers[m].step.id = offers[n].step.id => m = n

(* What asks for a step asks for the one that it depends on.                 *)
ASSUME DependsOnEarlier ==
  \A packages \in PackageSets :
    LET offers == Offers[packages]
    IN  \A n \in DOMAIN offers :
          offers[n].step.dependsOn # "none" =>
            \E m \in 1..n-1 : /\ offers[m].step.id = offers[n].step.dependsOn
                              /\ offers[n].for \subseteq offers[m].for

(* Every step that the catalogue has for a key is offered for it.            *)
ASSUME StepsOffered ==
  \A packages \in PackageSets : \A key \in Key :
    LET offers == Offers[packages]
        steps == CatalogSteps[packages][key]
    IN  \A s \in DOMAIN steps :
          \E n \in DOMAIN offers : key \in offers[n].for /\ offers[n].step.id = steps[s].id

(* A step of an item is offered for this item and for nothing else.          *)
ASSUME OfferedForItem ==
  \A packages \in PackageSets :
    LET offers == Offers[packages]
    IN  \A n \in DOMAIN offers :
          offers[n].step.item # NoItem => offers[n].for = {offers[n].step.item}

(* What a step needs is offered earlier, for all that asks for the step or   *)
(* for something that it requires; with two exceptions.                      *)
ASSUME SourcesOffered ==
  \A packages \in PackageSets :
    LET offers == Offers[packages]
    IN  \A n \in DOMAIN offers : \A need \in offers[n].step.needs :
          \E m \in 1..n-1 :
            /\ need \in offers[m].step.provides
            /\ \/ offers[n].for \subseteq offers[m].for
               \/ Always \in offers[m].for
               \/ \E pair \in Requirements(packages) :
                    offers[n].for = {pair[1]} /\ pair[2] \in offers[m].for
               \/ offers[n].step.item = "comms/spotify" /\ offers[m].for = FlatpakItems
               \/ /\ offers[n].step.item = "cachyos/kernel_devel"
                  /\ offers[m].for = {"cachyos/kernel"}

------------------------------------------------------------------------------
(* The commands of the steps *)

(* Of these the words depend on who was found, and not on the release alone. *)
OfOneUser(id) == id \in ForUser \/ IsLocal(id)

Words(packages, id) == CommandOf(id, SystemWith(ReleaseWith[packages]))
ChecksOf(packages, id) == Rpms(ToSet(AlreadyInstalledCheck(id, ReleaseWith[packages])))
Ids(packages) == {Offers[packages][n].step.id : n \in DOMAIN Offers[packages]}

(* A step has one command, and one that is the user's own no check.          *)
ASSUME OwnCommands ==
  LET groups == {"kvm_group", "libvirt_group"}
  IN  /\ (ForUser \cup DOMAIN AppImageSteps) \cap DOMAIN CommonCommands = {}
      /\ groups \cap DOMAIN PipxTools = {}
      /\ ForUser \cap DOMAIN AppImageSteps = {}
      /\ \A id \in ForUser \cup DOMAIN AppImageSteps :
           /\ id \notin Tolerant
           /\ \A packages \in PackageSets :
                AlreadyInstalledCheck(id, ReleaseWith[packages]) = <<>>
      /\ \A id \in DOMAIN AppImageSteps :
           AppImageSteps[id] \in (DOMAIN AppImages) \X {"_directory", "_download", "_publish", "_executable"}
      /\ \A id \in DOMAIN PipxTools : PipxTools[id] \in AllowedPipxTools

(* The helper lets every command through, whoever the user is: "root" is a   *)
(* name that none of its rules accepts.                                      *)
ASSUME StepsAllowed ==
  \A packages \in PackageSets : \A id \in Ids(packages) :
    OfOneUser(id) \/ Validate(Words(packages, id), "root")

(* What a command may take from the system, and that nothing brings          *)
(* scx-scheds-git.                                                           *)
Taken == {<<"rpm", "ffmpeg-free">>, <<"unit", "NetworkManager-wait-online">>}

ASSUME LittleTaken ==
  \A packages \in PackageSets : \A id \in Ids(packages) :
    /\ Taken \cap ChecksOf(packages, id) = {}
    /\ OfOneUser(id) \/ /\ RemovedBy(Words(packages, id)) \subseteq Taken
                        /\ <<"rpm", "scx-scheds-git">> \notin AddedBy(id, Words(packages, id))

(* Unsure is what cannot be told by the system; Apart, what is looked for at *)
(* a place that depends on the user.                                         *)
Unsure == {"systools/clean_cache", "media/gst_bad_nonfree", "media/gst_bad_free_extras"}
PipxItems == [wish \in {"systools/tldr", "content/ytdlp"} |->
                IF wish = "systools/tldr" THEN "pipx_tldr" ELSE "pipx_ytdlp"]
Apart == DOMAIN PipxItems \cup DOMAIN AppImageOf

KnownBy(packages, wish) ==
  IF wish \in Key \ {"systools/cbonsai"}
  THEN CheckFor(wish, SystemWith(ReleaseWith[packages]), User)
  ELSE Rpms({IF wish \in Key THEN "cbonsai" ELSE wish})

(* A step that does what it is asked to.                                     *)
Surely(id, words) ==
  id \notin Tolerant /\ ~(words[1] = "dnf" /\ "--skip-unavailable" \in ToSet(words))

(* What is looked for is what one of the steps leaves behind, or takes away. *)
ASSUME StepsSeen ==
  \A packages \in PackageSets :
    LET offers == Offers[packages]
    IN  \A wish \in (Key \cup Groups.fileManager \cup Groups.terminal) \ (Unsure \cup Apart) :
          \E n \in DOMAIN offers :
            LET id == offers[n].step.id
                words == Words(packages, id)
            IN  /\ wish \in offers[n].for /\ ~OfOneUser(id) /\ Surely(id, words)
                /\ IF wish \in Negated
                   THEN /\ AlreadyInstalledCheck(id, ReleaseWith[packages]) = <<>>
                        /\ KnownBy(packages, wish) \subseteq RemovedBy(words)
                        /\ \A other \in Ids(packages) :
                             OfOneUser(other) \/ Taken \cap AddedBy(other, Words(packages, other)) = {}
                   ELSE \E thing \in (KnownBy(packages, wish) \cap AddedBy(id, words)) \ Taken :
                          /\ thing[1] \notin {"file", "executable"}
                          /\ \/ AlreadyInstalledCheck(id, ReleaseWith[packages]) = <<>>
                             \/ thing \in ChecksOf(packages, id)

(* What an item is known by is said once for each.                          *)
ASSUME ChecksDiffer ==
  LET single == DOMAIN PipxItems \cup {"systools/cbonsai"}
      others == {"systools/moonlight", "systools/sunshine", "toolkit/lgl_scheduler_manager",
                 "gpu/amd/mesa_vulkan", "gpu/amd/mesa_va", "systools/nm_wait_online"}
  IN  /\ Apart \subseteq Key /\ Negated \subseteq Key \ Apart
      /\ (single \cup others) \cap DOMAIN AppImageOf = {}
      /\ (single \cup DOMAIN AppImageOf) \cap (others \cup DOMAIN RpmPackages \cup DOMAIN FlatpakIds) = {}
      /\ others \cap (DOMAIN RpmPackages \cup DOMAIN FlatpakIds) = {}
      /\ DOMAIN RpmPackages \cap DOMAIN FlatpakIds = {}

ASSUME PipxSeen ==
  \A packages \in PackageSets : \A wish \in DOMAIN PipxItems :
    \E n \in DOMAIN Offers[packages] :
      Offers[packages][n].for = {wish} /\ Offers[packages][n].step.id = PipxItems[wish]

(* The last of the four steps of an AppImage makes it executable.            *)
ASSUME AppImagesSeen ==
  \A packages \in PackageSets :
    LET offers == Offers[packages]
        Kind(n) == AppImageSteps[offers[n].step.id][2]
    IN  /\ \A wish \in DOMAIN AppImageOf :
             \E n \in DOMAIN offers :
               /\ offers[n].for = {wish} /\ IsLocal(offers[n].step.id) /\ Kind(n) = "_executable"
               /\ AppImages[AppImageSteps[offers[n].step.id][1]] = AppImageOf[wish]
        /\ \A m, n \in DOMAIN offers :
             /\ IsLocal(offers[m].step.id) /\ IsLocal(offers[n].step.id)
             /\ offers[m].for \cap offers[n].for # {} /\ Kind(m) = "_executable" /\ m < n
             => Kind(n) # "_publish"
        /\ \A n \in DOMAIN offers : IsLocal(offers[n].step.id) => offers[n].for \subseteq Key

------------------------------------------------------------------------------
(* The table of the Qt program *)

(* What both offer in the same way. *)
Shared == (Key \ (New \cup Changed)) \cup {Always}

RunSet == [command : Seq(STRING), tolerant : BOOLEAN, check : Seq(STRING)]
CarriedSet == [for : SUBSET STRING, step : RunSet]

ASSUME CarriedTyped ==
  /\ Reasons \subseteq STRING /\ Shared \subseteq STRING
  /\ \A packages \in PackageSets :
       /\ Carried[packages] \in Seq(CarriedSet) /\ LegacyCarried[packages] \in Seq(CarriedSet)
       /\ \A n \in DOMAIN Carried[packages] : "none" \notin Carried[packages][n].for

(* Which items need Flathub: one of each side does so on that side only.     *)
ASSUME FlathubDiffers ==
  /\ (FlatpakItems \cap Shared) \ LegacyFlatpakKeys = {"browsers/chrome"}
  /\ (LegacyFlatpakKeys \cap Shared) \ FlatpakItems = {"comms/spotify"}
  /\ (FlatpakItems \cup LegacyFlatpakKeys) \cap (Amd \cup {Always, "none"}) = {}

(* The offers that something shared asks for, and the one of this program    *)
(* that runs what the one of the Qt program ran.                             *)
Relevant(table) == {n \in DOMAIN table : table[n].for \cap Shared # {}}

Counterpart ==
  [packages \in PackageSets |->
     [n \in Relevant(LegacyCarried[packages]) |->
        CHOOSE m \in Relevant(Carried[packages]) :
          Carried[packages][m].step = LegacyCarried[packages][n].step]]

(* Step by step, the two tables run the same for what they share, in the     *)
(* same order, and for the same items, but for what needs Flathub.           *)
ASSUME TablesMatch ==
  \A packages \in PackageSets :
    LET now == Carried[packages]
        before == LegacyCarried[packages]
        to == Counterpart[packages]
    IN  /\ \A n \in Relevant(before) :
             /\ to[n] \in Relevant(now) /\ now[to[n]].step = before[n].step
             /\ \/ now[to[n]].for \cap Shared = before[n].for \cap Shared
                \/ now[to[n]].for = FlatpakItems /\ before[n].for = LegacyFlatpakKeys
        /\ \A m, n \in Relevant(before) : m < n => to[m] < to[n]
        /\ \A m \in Relevant(now) : \E n \in Relevant(before) : to[n] = m
=============================================================================
