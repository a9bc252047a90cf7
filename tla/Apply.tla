------------------------------- MODULE Apply -------------------------------
(***************************************************************************)
(* What the steps of a plan do to the system: the wizard looks at the      *)
(* system, builds the plan for one wish, has its commands run one after    *)
(* the other by the helper or as the user, and looks again whether the     *)
(* item is there.  Stop, the socket and the pages are module Session's.    *)
(***************************************************************************)
EXTENDS Effects

CONSTANTS Environments,  \* what the wizard may find, see DetectSystem
          MaxMissing     \* packages that are not there while others are, a bound for TLC

ASSUME ApplyAssumption == MaxMissing \in Nat

(* The wizard is not set-user-id: who runs it with root's rights is root.    *)
ASSUME EnvironmentsAssumption == \A some \in Environments : some.euid = "root" => some.self = "root"

VARIABLES
  found,     \* what the wizard finds on the system
  detected,  \* what detectSystem() made of it
  wish,      \* the card that is selected, or the option chosen
  planned,   \* the steps given to the session
  there,     \* what is installed
  initially, \* history: what was there at the start
  stage,     \* "launch", "steps", "ended"
  results    \* of the steps that are over

given == <<found, detected, wish, planned, initially>>
applyVars == <<given, there, stage, results>>

OptionGroup == [option \in Groups.fileManager \cup Groups.terminal |->
               IF option \in Groups.fileManager THEN "fileManager" ELSE "terminal"]

Offered == {card \in Key : found.machine # "x86_64" => card # "gaming/epic"} \cup DOMAIN OptionGroup

Choice ==
  [group \in DOMAIN Groups |->
     IF group = "gpu" THEN (IF wish \in Amd THEN "amd" ELSE "none")
     ELSE IF wish \in DOMAIN OptionGroup /\ OptionGroup[wish] = group THEN wish ELSE "none"]

(* What the steps ask for before they install it.                            *)
Asked == UNION {ToSet(AlreadyInstalledCheck(planned[m].id, detected.fedora)) : m \in DOMAIN planned}
AllBut(odd) == {Asked \ few : few \in {few \in SUBSET Asked : Cardinality(few) <= odd}}

(* What every Fedora Workstation comes with. *)
Fresh == {<<"unit", "NetworkManager-wait-online">>, <<"rpm", "ffmpeg-free">>}

ApplyInit ==
  /\ found \in Environments /\ wish \in Offered
  /\ detected = DetectSystem(found) /\ planned = BuildPlan({wish} \cap Key, detected.fedora, Choice)
  /\ initially \in {Fresh \cup Rpms(some) : some \in AllBut(MaxMissing) \cup {{}}}
  /\ there = initially /\ stage = "launch" /\ results = <<>>

------------------------------------------------------------------------------
(* A step *)

position == Len(results) + 1
stepNow == planned[position]
commandNow == CommandOf(stepNow.id, detected)

Records(result) == results' = Append(results, result) /\ UNCHANGED <<given, stage>>

(* The helper does not work for root: PKEXEC_UID must not be 0.               *)
Launch ==
  /\ stage = "launch" /\ stage' = (IF found.self = "root" THEN "ended" ELSE "steps")
  /\ UNCHANGED <<given, there, results>>

InPlan == stage = "steps" /\ position <= Len(planned)

Succeeded(id) == \E m \in DOMAIN results : planned[m].id = id /\ results[m] \in {"ok", "skipped"}

SkipDependent ==
  /\ InPlan /\ stepNow.dependsOn # "none" /\ ~Succeeded(stepNow.dependsOn)
  /\ Records("dependent") /\ UNCHANGED there

Begins == InPlan /\ (stepNow.dependsOn # "none" => Succeeded(stepNow.dependsOn))

OneIsThere ==                                                            \* mutant
  Rpms(ToSet(AlreadyInstalledCheck(stepNow.id, detected.fedora))) \cap there # {}
AlreadyThere ==
  LET check == AlreadyInstalledCheck(stepNow.id, detected.fedora)
  IN  /\ check # <<>> /\ Rpms(ToSet(check)) \subseteq there
      /\ Validate(<<"rpm", "-q", "--quiet">> \o check, found.self)

(* The helper asks rpm before it runs the step. *)
Skip == Begins /\ AlreadyThere /\ Records("skipped") /\ UNCHANGED there

Permitted(id, words, expected) == IsLocal(id) \/ Validate(words, expected)

Reject ==
  /\ Begins /\ ~AlreadyThere /\ ~Permitted(stepNow.id, commandNow, found.self)
  /\ Records("rejected") /\ UNCHANGED there

MayRun == Begins /\ ~AlreadyThere /\ Permitted(stepNow.id, commandNow, found.self)

Fail == MayRun /\ Records("failed") /\ UNCHANGED there

(* Exit code 1, or nothing that could be skipped was available.              *)
DoNothing ==
  /\ MayRun
  /\ \/ stepNow.id \in Tolerant
     \/ commandNow[1] = "dnf" /\ "--skip-unavailable" \in ToSet(commandNow)
  /\ Records("ok") /\ UNCHANGED there

(* The program does what it is asked to. *)
Succeed ==
  /\ MayRun /\ Records("ok")
  /\ there' = (there \ RemovedBy(commandNow)) \cup AddedBy(stepNow.id, commandNow)

End ==
  /\ stage = "steps" /\ position > Len(planned) /\ stage' = "ended"
  /\ UNCHANGED <<given, there, results>>

Ended == stage = "ended" /\ UNCHANGED applyVars

ApplyNext == Launch \/ SkipDependent \/ Skip \/ Reject \/ Fail \/ DoNothing \/ Succeed \/ End \/ Ended
ApplySpec == ApplyInit /\ [][ApplyNext]_applyVars

------------------------------------------------------------------------------
(* Properties *)

(* The account that the wizard says it installs for is the one it runs as:   *)
(* not after su, where the login has another name, and not if that name is   *)
(* too long or has a dot or a capital (system.cpp:43, policy.cpp:248).       *)
Ordinary == found.self \in ValidNames /\ found.login \in {found.self, ""}

(* No step of any plan is refused by the helper, which knows neither the     *)
(* catalogue nor the plan (policy.cpp:53: "Adding a new COPR to the install  *)
(* plan also means adding it here"); except what is for a user, where the    *)
(* wizard and pkexec do not mean the same one.                               *)
NothingRejected ==
  \A m \in DOMAIN results :
    results[m] = "rejected" => planned[m].id \in ForUser /\ ~Ordinary

(* An item whose steps have all succeeded is seen as installed by its own    *)
(* check, and its badge says so: the check is written apart from the steps   *)
(* (plan.cpp:587).  Not so for an action without a state, and for packages   *)
(* that dnf may leave out without failing.                                   *)
InstalledIsSeen ==
  stage = "ended" /\ Len(results) = Len(planned) /\ ToSet(results) \subseteq {"ok", "skipped"} =>
    \/ IF wish \in Key THEN Seen(wish, detected, found.self, there)
                      ELSE Rpms({wish}) \subseteq there
    \/ wish \in {"systools/clean_cache", "media/gst_bad_nonfree", "media/gst_bad_free_extras"}

(* A step that was left out as already installed has nothing left to         *)
(* install; but for scx-scheds, for which another package may stand in.      *)
SkippedIsThere ==
  \A m \in DOMAIN results :
    results[m] = "skipped" =>
      \/ planned[m].id = "toolkit_scx_scheds" /\ <<"rpm", "scx-scheds-git">> \in initially
      \/ Rpms(ToSet(PackagesFor(planned[m].id, detected.fedora))) \subseteq there
=============================================================================
