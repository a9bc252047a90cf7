-------------------------------- MODULE Plan --------------------------------
(***************************************************************************)
(* The catalogue (core/catalog.cpp) and the plan built from a selection    *)
(* (core/plan.cpp): which steps, in which order.                           *)
(*                                                                         *)
(* A command is reduced to what it needs to be there before it and what it *)
(* leaves behind: a repository, a tool, a file.  What a package needs is   *)
(* the source the catalogue names for it.                                  *)
(***************************************************************************)
EXTENDS Integers, SequencesExt

(* Two names of packages depend on the release (catalog.cpp, plan.cpp).      *)
PackageSets == {"before 44", "from 44"}
PackageSet(fedora) == IF fedora >= 44 THEN "from 44" ELSE "before 44"

------------------------------------------------------------------------------
(* The catalogue: the cards of every page *)

Free == "repos/rpmfusion_free"
NonFree == "repos/rpmfusion_nonfree"

Prefixed(prefix, names) == {prefix \o name : name \in names}

Amd == Prefixed("gpu/amd/", {"mesa_dri", "mesa_vulkan", "vulkan_loader", "mesa_va", "linux_fw"})
Codecs == Prefixed("media/", {"ffmpeg", "gst_bad_free_extras", "gst_bad_nonfree", "vlc"})

Catalogue ==
  [repositories |-> {Free, NonFree},
   systools |-> Prefixed("systools/", {"fastfetch", "btop", "cmatrix", "tldr", "distrobox",
     "cbonsai", "podman", "timeshift", "flatseal", "nm_wait_online", "clean_cache"}),
   remote |-> Prefixed("systools/", {"moonlight", "sunshine", "parsec", "tailscale"}),
   development |-> Prefixed("python/", {"pip", "pipx", "zed", "git", "github_desktop"}),
   multimedia |-> Codecs,
   content |-> Prefixed("content/", {"obs", "audacity", "ytdlp"}),
   graphics |-> Amd,
   gaming |-> Prefixed("gaming/", {"kernel_modules_extra", "steam", "faugus", "lutris", "heroic",
     "epic", "wine", "protontricks", "protonplus", "protonup", "goverlay"}),
   virtualisation |-> Prefixed("virt/", {"virtmanager", "libvirt", "virt_install",
     "virt_viewer", "vmcurator"}),
   browsers |-> Prefixed("browsers/", {"vivaldi", "helium", "chromium", "edge", "brave", "chrome",
     "firefox", "librewolf", "waterfox", "zen", "floorp"}),
   communication |-> Prefixed("comms/", {"artcraft", "office_calc", "office_writer", "discord",
     "telegram", "spotify", "lgl_cliamp"}),
   kernel |-> Prefixed("cachyos/", {"kernel", "kernel_devel"}),
   toolkit |-> Prefixed("toolkit/", {"lgl_scheduler_manager", "lgl_dnf_helper", "lgl_emoji_picker",
     "lgl_colour_picker", "lgl_powerprofile_manager", "lgl_papercutter", "lgl_keychron_helper"})]

Pages == DOMAIN Catalogue
Key == UNION {Catalogue[page] : page \in Pages}

Groups == [fileManager |-> {"dolphin", "nemo"}, terminal |-> {"konsole", "kitty", "foot", "ghostty"},
           gpu |-> {"amd", "nvidia", "skip"}]
Recommended == [fileManager |-> "dolphin", terminal |-> "konsole"]

(* The requirements of the items: <<item, what it requires>>. *)
Requirements(packages) ==
  {<<key, Free>> : key \in Codecs}
    \cup {<<"gaming/steam", NonFree>>, <<"gaming/protontricks", "gaming/steam">>}
    \cup IF packages = "from 44"
         THEN {<<"gpu/amd/mesa_vulkan", Free>>, <<"gpu/amd/mesa_va", Free>>} ELSE {}

(* unmetRequirements() *)
Unmet(selected, fedora) ==
  {pair \in Requirements(PackageSet(fedora)) : pair[1] \in selected /\ pair[2] \notin selected}

------------------------------------------------------------------------------
(* Steps *)

NoItem == "none"

(* A step no item has to itself has NoItem. *)
Step(item, id, needs, provides) ==
  [item |-> item, id |-> id, needs |-> needs, provides |-> provides, dependsOn |-> "none"]

Freeworld == {"gpu/amd/mesa_vulkan", "gpu/amd/mesa_va"}

(* From Fedora 44 on, two drivers have another package name. *)
MesaSourcesAlways(packages, key) == IF key \in Freeworld THEN {Free} ELSE {}  \* mutant
MesaSources(packages, key) == IF packages = "from 44" /\ key \in Freeworld THEN {Free} ELSE {}

(* The repositories the packages of an item come from. *)
Sources(key) ==
  CASE key \in Codecs -> {Free}
    [] key = "gaming/steam" -> {NonFree}
    [] key \in Catalogue.toolkit \ {"toolkit/lgl_powerprofile_manager"} -> {"lgl-toolkit"}
    [] key \in Catalogue.kernel -> {"kernel-cachyos"}
    [] OTHER -> {}

Dnf(key, id) == <<Step(key, id, Sources(key), {})>>
Flathub(key, id) == <<Step(key, id, {"flatpak", "flathub"}, {})>>
Pipx(key, id) == <<Step(key, id, {"pipx"}, {})>>

(* dnf copr enable needs the plugins that the bootstrap step installs. *)
CoprThenDnf(key, copr, id) ==
  <<Step(key, copr, {"plugins"}, {copr}), Step(key, id, {copr}, {})>>

RepoFileThenDnf(key, name) ==
  <<Step(key, name \o "_repo_dl", {"curl"}, {name \o ".repo"}),
    Step(key, name \o "_repo_add", {name \o ".repo", "plugins"}, {name}),
    Step(key, name, {name}, {})>>

AppImage(key, name) ==
  LET After(step, before) == [step EXCEPT !.dependsOn = name \o before]
  IN <<Step(key, name \o "_directory", {}, {"~/Applications"}),
       Step(key, name \o "_download", {"curl", "~/Applications"}, {name \o ".part"}),
       After(Step(key, name \o "_publish", {name \o ".part"}, {name}), "_download"),
       After(Step(key, name \o "_executable", {name}, {}), "_publish")>>

(* The steps named after their item: the key without its prefix, behind      *)
(* another prefix.                                                           *)
Named(make(_, _), prefix, names, idPrefix, idSuffix) ==
  [key \in Prefixed(prefix, names) |->
     LET name == CHOOSE n \in names : prefix \o n = key
     IN make(key, idPrefix \o name \o idSuffix)]

CommonSteps ==
  (Free :> <<Step(Free, "rpmfusion_free", {}, {Free})>>)
  @@ (NonFree :> <<Step(NonFree, "rpmfusion_nonfree", {}, {NonFree})>>)
  @@ Named(Dnf, "systools/", {"fastfetch", "btop", "cmatrix", "distrobox", "timeshift", "cbonsai",
                              "podman", "tailscale"}, "systool_", "")
  @@ Named(Flathub, "systools/", {"moonlight", "sunshine", "parsec", "flatseal"}, "flatpak_", "")
  @@ ("systools/tldr" :> Pipx("systools/tldr", "pipx_tldr"))
  @@ Named(Dnf, "systools/", {"nm_wait_online"}, "", "")
  @@ ("systools/clean_cache" :> Dnf("systools/clean_cache", "clean_all"))
  @@ Named(Dnf, "python/", {"pip", "git"}, "", "")
  @@ ("python/pipx" :> <<Step("python/pipx", "pipx_pkg", {}, {"pipx"})>>)
  @@ Named(Flathub, "python/", {"zed", "github_desktop"}, "flatpak_", "")
  @@ ("media/ffmpeg" :> Dnf("media/ffmpeg", "ffmpeg_swap"))
  @@ Named(Dnf, "media/", {"gst_bad_nonfree", "gst_bad_free_extras", "vlc"}, "", "")
  @@ Named(Dnf, "content/", {"obs"}, "", "")
  @@ ("content/audacity" :> AppImage("content/audacity", "audacity"))
  @@ ("content/ytdlp" :> Pipx("content/ytdlp", "pipx_ytdlp"))
  @@ Named(Dnf, "gaming/", {"kernel_modules_extra", "steam", "lutris", "wine", "protontricks"},
           "gaming_", "")
  @@ ("gaming/goverlay" :> CoprThenDnf("gaming/goverlay", "goverlay_copr", "gaming_goverlay"))
  @@ ("gaming/heroic" :> CoprThenDnf("gaming/heroic", "heroic_copr", "heroic_install"))
  @@ ("gaming/faugus" :> CoprThenDnf("gaming/faugus", "faugus_copr", "faugus_install"))
  @@ ("gaming/epic" :> AppImage("gaming/epic", "epic"))
  @@ Named(Flathub, "gaming/", {"protonplus", "protonup"}, "flatpak_", "")
  @@ Named(Dnf, "virt/", {"virtmanager", "libvirt", "virt_install", "virt_viewer"}, "virt_", "")
  @@ ("virt/vmcurator" :>
        CoprThenDnf("virt/vmcurator", "virt_vmcurator_copr", "virt_vmcurator_install")
          \o <<Step("virt/vmcurator", "kvm_group", {}, {})>>)
  @@ Named(Dnf, "browsers/", {"firefox", "chromium"}, "", "")
  @@ Named(Flathub, "browsers/", {"chrome", "librewolf", "waterfox", "zen", "floorp"}, "", "")
  @@ ("browsers/brave" :> RepoFileThenDnf("browsers/brave", "brave"))
  @@ ("browsers/vivaldi" :> RepoFileThenDnf("browsers/vivaldi", "vivaldi"))
  @@ ("browsers/edge" :> RepoFileThenDnf("browsers/edge", "edge"))
  @@ ("browsers/helium" :> CoprThenDnf("browsers/helium", "helium_copr", "helium_install"))
  @@ Named(Dnf, "comms/", {"office_calc", "office_writer"}, "", "")
  @@ Named(Flathub, "comms/", {"discord", "telegram", "spotify"}, "flatpak_", "")
  @@ ("comms/lgl_cliamp" :> CoprThenDnf("comms/lgl_cliamp", "cliamp_copr", "cliamp_install"))
  @@ ("comms/artcraft" :> AppImage("comms/artcraft", "artcraft"))
  @@ ("cachyos/kernel" :>
        <<Step("cachyos/kernel", "cachyos_copr1", {"plugins"}, {"kernel-cachyos"})>>
          \o Dnf("cachyos/kernel", "cachyos_kernel"))
  @@ ("cachyos/kernel_devel" :> Dnf("cachyos/kernel_devel", "cachyos_devel"))
  @@ ("toolkit/lgl_scheduler_manager" :>
        LET key == "toolkit/lgl_scheduler_manager" IN
        <<Step(key, "toolkit_scx_scheds", {"kernel-cachyos-addons"}, {}),
          Step(key, "toolkit_scx_tools", {"kernel-cachyos-addons"}, {}),
          Step(key, "toolkit_scheduler_install", {"lgl-toolkit"}, {})>>)
  @@ Named(Dnf, "toolkit/", {"lgl_dnf_helper", "lgl_emoji_picker", "lgl_colour_picker",
                             "lgl_papercutter", "lgl_keychron_helper"}, "toolkit_", "_install")
  @@ ("toolkit/lgl_powerprofile_manager" :>
        CoprThenDnf("toolkit/lgl_powerprofile_manager", "toolkit_lgl_powerprofile_manager_copr",
                    "toolkit_lgl_powerprofile_manager_install"))

AmdSteps(packages) ==
  LET AmdDnf(key, id) == <<Step(key, id, MesaSources(packages, key), {})>>
  IN Named(AmdDnf, "gpu/amd/", {"mesa_dri", "mesa_vulkan", "vulkan_loader", "mesa_va", "linux_fw"},
           "amd_", "")

CatalogSteps == [packages \in PackageSets |-> CommonSteps @@ AmdSteps(packages)]

------------------------------------------------------------------------------
(* buildPlan() *)

(* What it may add, in its order: a step and what asks for it, one of the    *)
(* items and options or nothing in particular.                               *)
Always == "always"
Offer(for, steps) == [n \in DOMAIN steps |-> [for |-> for, step |-> steps[n]]]

Infrastructure(for, id, needs, provides) == Offer(for, <<Step(NoItem, id, needs, provides)>>)

(* add() for the selected ones of the keys, in the order given.              *)
Selected(packages, prefix, names) ==
  FlattenSeq([n \in DOMAIN names |->
                Offer({prefix \o names[n]}, CatalogSteps[packages][prefix \o names[n]])])

FlatpakItems ==
  Prefixed("gaming/", {"heroic", "protonup", "protonplus"})
    \cup Prefixed("systools/", {"flatseal", "moonlight", "sunshine", "parsec"})
    \cup Prefixed("comms/", {"discord", "telegram"})
    \cup Prefixed("browsers/", {"librewolf", "chrome", "waterfox", "zen", "floorp"})
    \cup Prefixed("python/", {"zed", "github_desktop"})

NeedsFlatpak(selected) == selected \cap FlatpakItems # {}

(* One file manager and one terminal. *)
Essential(option) == Offer({option}, Dnf(NoItem, "essential_" \o option))
Essentials ==
  Essential("dolphin") \o Essential("nemo")
  \o Essential("konsole") \o Essential("kitty") \o Essential("foot")
  \o Offer({"ghostty"}, CoprThenDnf(NoItem, "copr_ghostty", "essential_ghostty"))

PythonWithPipx(packages) == Selected(packages, "python/", <<"pip", "pipx", "git">>)  \* mutant
Python(packages) == Selected(packages, "python/", <<"pip", "git">>)

UsesPipx == {"python/pipx", "systools/tldr", "content/ytdlp"}

Libvirt == Prefixed("virt/", {"virtmanager", "libvirt", "virt_install"})

Virtualisation(packages) ==
  Infrastructure(Libvirt, "virt_libvirt_runtime", {}, {"libvirtd"})
  \o Selected(packages, "virt/",
       <<"virtmanager", "libvirt", "virt_install", "virt_viewer", "vmcurator">>)
  \o Infrastructure(Libvirt, "libvirtd_enable", {"libvirtd"}, {})
  \o Infrastructure(Libvirt, "libvirt_group", {"libvirtd"}, {})

CachyOs(packages) ==
  Infrastructure({"cachyos/kernel", "toolkit/lgl_scheduler_manager"},
                 "cachyos_copr2", {"plugins"}, {"kernel-cachyos-addons"})
  \o Selected(packages, "cachyos/", <<"kernel", "kernel_devel">>)
  \o Infrastructure(Catalogue.kernel, "selinux_bool", {}, {})

UsesToolkitCopr == Catalogue.toolkit \ {"toolkit/lgl_powerprofile_manager"}

Toolkit(packages) ==
  Infrastructure(UsesToolkitCopr, "toolkit_copr", {"plugins"}, {"lgl-toolkit"})
  \o Selected(packages, "toolkit/",
       <<"lgl_scheduler_manager", "lgl_dnf_helper", "lgl_emoji_picker", "lgl_colour_picker",
         "lgl_papercutter", "lgl_keychron_helper", "lgl_powerprofile_manager">>)

OffersWith(packages) ==
  Infrastructure({Always}, "bootstrap", {}, {"curl", "plugins"})
  \o Infrastructure(FlatpakItems, "flatpak_pkg", {}, {"flatpak"})
  \o Infrastructure(FlatpakItems, "flathub_remote", {"flatpak"}, {"flathub"})
  \o Selected(packages, "repos/", <<"rpmfusion_free", "rpmfusion_nonfree">>)
  \o Essentials
  \o Selected(packages, "systools/",
       <<"fastfetch", "btop", "cmatrix", "distrobox", "timeshift", "cbonsai", "podman",
         "moonlight", "sunshine", "tailscale", "parsec", "flatseal">>)
  \o Python(packages)
  \o Infrastructure(UsesPipx, "pipx_pkg", {}, {"pipx"})
  \o Selected(packages, "systools/", <<"tldr">>)
  \o Selected(packages, "python/", <<"zed", "github_desktop">>)
  \o Selected(packages, "media/", <<"ffmpeg", "gst_bad_nonfree", "gst_bad_free_extras", "vlc">>)
  \o Selected(packages, "content/", <<"obs", "audacity", "ytdlp">>)
  \o Selected(packages, "gpu/amd/",
       <<"mesa_dri", "mesa_vulkan", "vulkan_loader", "mesa_va", "linux_fw">>)
  \o Selected(packages, "gaming/",
       <<"kernel_modules_extra", "steam", "lutris", "goverlay", "wine", "protontricks",
         "heroic", "epic", "protonplus", "protonup", "faugus">>)
  \o Virtualisation(packages)
  \o Selected(packages, "browsers/",
       <<"firefox", "chromium", "chrome", "brave", "vivaldi", "librewolf", "edge", "helium",
         "waterfox", "zen", "floorp">>)
  \o Selected(packages, "comms/",
       <<"office_calc", "office_writer", "discord", "telegram", "spotify", "lgl_cliamp",
         "artcraft">>)
  \o CachyOs(packages) \o Toolkit(packages)
  \o Selected(packages, "systools/", <<"nm_wait_online", "clean_cache">>)

Offers == [packages \in PackageSets |-> OffersWith(packages)]

(* What is asked for: a driver only where AMD is the choice.                 *)
AskedAlways(selected, choice) ==                                                \* mutant
  {Always, choice.fileManager, choice.terminal} \cup selected
AskedFor(selected, choice) ==
  {Always, choice.fileManager, choice.terminal}
    \cup (IF choice.gpu = "amd" THEN selected ELSE selected \ Amd)

(* The steps asked for, added to the plan one after the other.               *)
AddedFor(offers, asked) ==
  LET plan[n \in 0..Len(offers)] ==
        IF n = 0 THEN <<>>
        ELSE IF offers[n].for \cap asked # {} THEN Append(plan[n - 1], offers[n].step)
        ELSE plan[n - 1]
  IN  plan[Len(offers)]

BuildPlan(selected, fedora, choice) ==
  AddedFor(Offers[PackageSet(fedora)], AskedFor(selected, choice))
=============================================================================
