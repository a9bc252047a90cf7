------------------------------ MODULE LegacyPlan ------------------------------
(***************************************************************************)
(* The plan of the retired Qt program (legacy/qt/src/mainwizard.cpp) and   *)
(* the commands its helper let through (helper/helperserver.cpp).  Its     *)
(* README calls both "the reference for behaviour parity" of this program. *)
(***************************************************************************)
EXTENDS Commands

------------------------------------------------------------------------------
(* Steps *)

InstallStep(id, words) == [id |-> id, command |-> words, check |-> <<>>, tolerant |-> FALSE]
Checked(id, packages) == [InstallStep(id, DnfInstall(packages)) EXCEPT !.check = packages]
DnfStep(id, package) == InstallStep(id, DnfInstall(<<package>>))
FlatpakStep(id, app) ==
  InstallStep(id, <<"flatpak", "install", "-y", "--system", "flathub", app>>)
CoprStep(id, repo) == InstallStep(id, <<"dnf", "copr", "enable", "-y", repo>>)
PipxStep(id, user, tool) ==
  InstallStep(id, <<"sudo", "-u", user, "/usr/bin/pipx", "install", "--include-deps", tool>>)
UsermodStep(id, group, user) == InstallStep(id, <<"usermod", "-aG", group, user>>)

(* tmpPath() *)
TmpPath(file) == "/run/lgl-abc123/" \o file

(* What the rows <<key, steps>> of a table offer.                            *)
OfRows(rows) == FlattenSeq([n \in DOMAIN rows |-> Offer({rows[n][1]}, rows[n][2])])

(* Rows of a loop over <<name, package>>. *)
DnfRows(prefix, idPrefix, idSuffix, pairs) ==
  [n \in DOMAIN pairs |->
     <<prefix \o pairs[n][1], <<DnfStep(idPrefix \o pairs[n][1] \o idSuffix, pairs[n][2])>>>>]
Twice(names) == [n \in DOMAIN names |-> <<names[n], names[n]>>]

------------------------------------------------------------------------------
(* buildSteps() *)

Dnf5Plugins(packages) == IF packages = "from 44" THEN "dnf5-plugins" ELSE "python3-dnf5-plugins"

LegacyFlatpakKeys ==
  Prefixed("gaming/", {"heroic", "protonup", "protonplus"})
    \cup Prefixed("content/", {"blender", "tenacity"})
    \cup Prefixed("comms/", {"discord", "vesktop", "spotify", "thunderbird"})
    \cup Prefixed("python/", {"zed", "github_desktop"})
    \cup {"systools/flatseal", "browsers/librewolf"}

FlatpakInfrastructure == <<DnfStep("flatpak_pkg", "flatpak"),
              InstallStep("flathub_remote", <<"flatpak", "remote-add", "--if-not-exists", "--system",
                                              "flathub", FlathubUrl>>)>>

Repos ==
  <<<<"repos/rpmfusion_free",
      <<InstallStep("rpmfusion_free", DnfInstall(<<Url("rpmfusion-free-release")>>))>>>>,
    <<"repos/rpmfusion_nonfree",
      <<InstallStep("rpmfusion_nonfree", DnfInstall(<<Url("rpmfusion-nonfree-release")>>))>>>>>>

SystemTools ==
  DnfRows("systools/", "systool_", "",
          Twice(<<"fastfetch", "btop", "htop", "xrdp", "cmatrix", "distrobox", "timeshift",
                  "cbonsai", "podman">>))
  \o <<<<"systools/flatseal", <<FlatpakStep("flatpak_flatseal", "com.github.tchx84.Flatseal")>>>>>>

(* tldr and yt-dlp need pipx, chosen or not. *)
PythonTools(user) ==
  OfRows(DnfRows("python/", "", "", <<<<"pip", "python3-pip">>>>))
  \o Offer({"python/pipx", "systools/tldr", "content/ytdlp"}, <<DnfStep("pipx_pkg", "pipx")>>)
  \o OfRows(
       <<<<"systools/tldr", <<PipxStep("pipx_tldr", user, "tldr")>>>>,
         <<"python/zed", <<FlatpakStep("flatpak_zed", "dev.zed.Zed")>>>>,
         <<"python/github_desktop",
           <<FlatpakStep("flatpak_github_desktop", "io.github.shiftey.Desktop")>>>>>>)

Multimedia ==
  <<<<"media/ffmpeg",
      <<InstallStep("ffmpeg_swap", <<"dnf", "swap", "-y", "ffmpeg-free", "ffmpeg", "--allowerasing">>)>>>>,
    <<"media/gst_bad_nonfree",
      <<InstallStep("gst_bad_nonfree",
          DnfInstall(<<"--skip-unavailable", "--allowerasing", "gstreamer1-plugins-ugly">>))>>>>,
    <<"media/gst_bad_free_extras",
      <<InstallStep("gst_bad_free_extras",
          DnfInstall(<<"--skip-unavailable", "gstreamer1-plugins-bad-free-extras">>))>>>>>>
  \o DnfRows("media/", "", "", Twice(<<"vlc">>))

ContentCreation(user) ==
  DnfRows("content/", "", "",
          <<<<"obs", "obs-studio">>>> \o Twice(<<"kdenlive", "gimp", "inkscape", "audacity">>))
  \o <<<<"content/ytdlp", <<PipxStep("pipx_ytdlp", user, "yt-dlp")>>>>>>

AmdRows(packages) ==
  LET Freed(name) == IF packages = "from 44" THEN name \o "-freeworld" ELSE name
  IN  DnfRows("gpu/amd/", "amd_", "",
        <<<<"mesa_dri", "mesa-dri-drivers">>, <<"mesa_vulkan", Freed("mesa-vulkan-drivers")>>,
          <<"vulkan_loader", "vulkan-loader">>, <<"mesa_va", Freed("mesa-va-drivers")>>,
          <<"linux_fw", "linux-firmware">>>>)

Gaming ==
  DnfRows("gaming/", "gaming_", "",
          <<<<"kernel_modules_extra", "kernel-modules-extra">>>>
            \o Twice(<<"steam", "lutris", "mangohud">>) \o <<<<"vkbasalt", "vkBasalt">>>>
            \o Twice(<<"goverlay">>))
  \o <<<<"gaming/wine", <<InstallStep("gaming_wine", DnfInstall(<<"wine", "wine.i686">>))>>>>>>
  \o DnfRows("gaming/", "gaming_", "", Twice(<<"protontricks">>))
  \o <<<<"gaming/heroic", <<CoprStep("heroic_copr", "atim/heroic-games-launcher"),
                           DnfStep("heroic_install", "heroic-games-launcher-bin")>>>>,
       <<"gaming/protonplus", <<FlatpakStep("flatpak_protonplus", "com.vysp3r.ProtonPlus")>>>>,
       <<"gaming/protonup", <<FlatpakStep("flatpak_protonup", "net.davidotek.pupgui2")>>>>,
       <<"gaming/faugus", <<CoprStep("faugus_copr", "faugus/faugus-launcher"),
                           DnfStep("faugus_install", "faugus-launcher")>>>>>>

VirtualMachines(user) ==
  LET needsLibvirt == Prefixed("virt/", {"virtmanager", "libvirt", "virt_install"})
  IN  Offer(needsLibvirt, <<Checked("virt_libvirt_runtime", <<"libvirt-daemon-kvm">>)>>)
      \o OfRows(
           DnfRows("virt/", "virt_", "",
                   <<<<"virtmanager", "virt-manager">>, <<"libvirt", "libvirt">>,
                     <<"virt_install", "virt-install">>, <<"virt_viewer", "virt-viewer">>>>)
           \o <<<<"virt/vmcurator",
                  <<CoprStep("virt_vmcurator_copr", "linuxgamerlife/lgl-vm-curator"),
                    Checked("virt_vmcurator_install",
                            <<"vm-curator", "edk2-ovmf", "virt-viewer", "qemu-ui-sdl", "passt", "swtpm",
                              "dnsmasq", "iproute", "nftables">>),
                    UsermodStep("kvm_group", "kvm", user)>>>>>>)
      \o Offer(needsLibvirt,
            <<InstallStep("libvirtd_enable", <<"systemctl", "enable", "--now", "libvirtd">>),
              UsermodStep("libvirt_group", "libvirt", user)>>)

RepoFileSteps(name, file, package) ==
  <<InstallStep(name \o "_repo_dl", <<"curl", "-fsSL", "-o", TmpPath(file), Url(file)>>),
    InstallStep(name \o "_repo_add",
                <<"dnf", "config-manager", "addrepo", "--from-repofile", TmpPath(file)>>),
    DnfStep(name, package)>>

Browsers ==
  DnfRows("browsers/", "", "", Twice(<<"firefox", "chromium">>))
  \o <<<<"browsers/chrome", <<FlatpakStep("chrome", "com.google.Chrome")>>>>,
       <<"browsers/brave", RepoFileSteps("brave", "brave-browser.repo", "brave-browser")>>,
       <<"browsers/vivaldi", RepoFileSteps("vivaldi", "vivaldi.repo", "vivaldi-stable")>>,
       <<"browsers/librewolf", <<FlatpakStep("librewolf", "io.gitlab.librewolf-community")>>>>,
       <<"browsers/edge", RepoFileSteps("edge", "microsoft-edge.repo", "microsoft-edge-stable")>>,
       <<"browsers/helium", <<CoprStep("helium_copr", "imput/helium"),
                             DnfStep("helium_install", "helium-bin")>>>>>>

Communication ==
  DnfRows("comms/", "", "", <<<<"office_calc", "libreoffice-calc">>, <<"office_writer", "libreoffice-writer">>>>)
  \o <<<<"comms/thunderbird", <<FlatpakStep("flatpak_thunderbird", "org.mozilla.Thunderbird")>>>>,
       <<"comms/discord", <<FlatpakStep("flatpak_discord", "com.discordapp.Discord")>>>>,
       <<"comms/vesktop", <<FlatpakStep("flatpak_vesktop", "dev.vencord.Vesktop")>>>>,
       <<"comms/spotify", <<FlatpakStep("flatpak_spotify", "com.spotify.Client")>>>>,
       <<"content/blender", <<FlatpakStep("flatpak_blender", "org.blender.Blender")>>>>,
       <<"content/tenacity", <<FlatpakStep("flatpak_tenacity", "org.tenacityaudio.Tenacity")>>>>>>

CachyOsKernel ==
  Offer({"cachyos/kernel", "toolkit/lgl_scheduler_manager"},
     <<CoprStep("cachyos_copr2", "bieszczaders/kernel-cachyos-addons")>>)
  \o OfRows(
       <<<<"cachyos/kernel", <<CoprStep("cachyos_copr1", "bieszczaders/kernel-cachyos"),
                              DnfStep("cachyos_kernel", "kernel-cachyos")>>>>,
         <<"cachyos/kernel_devel", <<DnfStep("cachyos_devel", "kernel-cachyos-devel-matched")>>>>>>)
  \o Offer({"cachyos/kernel", "cachyos/kernel_devel"},
        <<InstallStep("selinux_bool", <<"setsebool", "-P", "domain_kernel_load_modules", "on">>)>>)

ToolkitPackages ==
  <<<<"lgl_dnf_helper", "lgl-dnf-helper">>, <<"lgl_emoji_picker", "lgl-emoji-picker">>,
    <<"lgl_colour_picker", "lgl-colour-picker">>, <<"lgl_papercutter", "lgl-papercutter">>,
    <<"lgl_keychron_helper", "lgl-keychron-helper">>>>
ToolkitKeys == {"toolkit/" \o ToolkitPackages[n][1] : n \in DOMAIN ToolkitPackages}

Scheduler ==
  LET OrOne(step) == [step EXCEPT !.tolerant = TRUE]
  IN  <<OrOne([InstallStep("toolkit_scx_scheds", DnfInstall(<<"--allowerasing", "scx-scheds">>))
                 EXCEPT !.check = <<"scx-scheds-git">>]),
        OrOne(InstallStep("toolkit_scx_tools", DnfInstall(<<"--allowerasing", "scx-tools">>))),
        DnfStep("toolkit_scheduler_install", "lgl-scheduler-manager")>>

ToolKit ==
  Offer(ToolkitKeys \cup {"toolkit/lgl_scheduler_manager"},
     <<CoprStep("toolkit_copr", "linuxgamerlife/lgl-toolkit")>>)
  \o OfRows(
       <<<<"toolkit/lgl_scheduler_manager", Scheduler>>>>
       \o DnfRows("toolkit/", "toolkit_", "_install", ToolkitPackages)
       \o <<<<"toolkit/lgl_powerprofile_manager",
              <<CoprStep("toolkit_lgl_powerprofile_manager_copr", "linuxgamerlife/lgl-powerprofile-manager"),
                DnfStep("toolkit_lgl_powerprofile_manager_install", "lgl-powerprofile-manager")>>>>>>)

Tweaks ==
  <<<<"systools/nm_wait_online",
      <<InstallStep("nm_wait_online", <<"systemctl", "disable", "--now", "NetworkManager-wait-online">>)>>>>,
    <<"systools/clean_cache", <<InstallStep("clean_all", <<"dnf", "clean", "all">>)>>>>>>

BuildSteps(packages, user) ==
  Offer({Always}, <<Checked("bootstrap", <<"curl", "wget2-wget", "git", Dnf5Plugins(packages)>>)>>)
  \o Offer(LegacyFlatpakKeys, FlatpakInfrastructure)
  \o OfRows(Repos \o SystemTools)
  \o PythonTools(user)
  \o OfRows(Multimedia \o ContentCreation(user))
  \o OfRows(AmdRows(packages))
  \o OfRows(Gaming)
  \o VirtualMachines(user)
  \o OfRows(Browsers \o Communication)
  \o CachyOsKernel \o ToolKit
  \o OfRows(Tweaks)

(* What is asked for: a driver only where AMD is the choice.                 *)
LegacyAskedFor(set, gpuChoice) ==
  {Always} \cup (IF gpuChoice = "amd" THEN set ELSE set \ Amd)

------------------------------------------------------------------------------
(* validateOperation() *)

(* validateArg(): a package may also be an option, a user may be root.       *)
ValidateArg(rule, word) ==
  CASE rule = "<package>" -> word \notin Slashes
    [] rule = "<copr>" -> word \in {CoprRepos[id] : id \in DOMAIN CoprRepos}
    [] rule = "<url>" -> word \in Urls \cup {FlathubUrl}
    [] rule = "<path>" -> word \in RunFiles
    [] rule = "<user>" -> word \in ValidNames \cup {"root"}
    [] rule = "<any>" -> TRUE
    [] OTHER -> word = rule

LegacyAllowList ==
  {<<"dnf", "-y", "install", "<url>">>,
   <<"dnf", "-y", "upgrade", "--refresh">>,
   <<"dnf", "-y", "swap", "<package>", "<package>">>,
   <<"dnf", "copr", "enable", "<copr>">>,
   <<"dnf", "copr", "enable", "-y", "<copr>">>,
   <<"dnf", "config-manager", "addrepo", "--from-repofile", "<path>">>,
   <<"dnf", "clean", "all">>,
   <<"dnf", "-y", "install", "--skip-unavailable", "<package>">>,
   <<"dnf", "-y", "install", "--skip-unavailable", "--allowerasing", "<package>">>,
   <<"dnf", "-y", "install", "--allowerasing", "<package>">>,
   <<"dnf", "swap", "-y", "<package>", "<package>", "--allowerasing">>,
   <<"flatpak", "install", "-y", "--system", "flathub", "<package>">>,
   <<"flatpak", "remote-add", "--if-not-exists", "--system", "flathub", FlathubUrl>>,
   <<"flatpak", "update", "-y", "--system">>,
   <<"curl", "-fsSL", "-o", "<path>", "<url>">>,
   <<"systemctl", "enable", "--now", "libvirtd">>,
   <<"systemctl", "disable", "--now", "NetworkManager-wait-online">>,
   <<"systemctl", "reboot">>,
   <<"usermod", "-aG", "libvirt", "<user>">>,
   <<"usermod", "-aG", "kvm", "<user>">>,
   <<"kpackagetool6", "--type", "kwin/script", "--install", "<path>">>,
   <<"kpackagetool6", "--type", "Plasma/Applet", "--install", "<path>">>,
   <<"setsebool", "-P", "domain_kernel_load_modules", "on">>}
  \cup {<<"sudo", "-u", "<user>">> \o [n \in 1..length |-> "<any>"] : length \in 3..6}

LegacyVariadic == {<<"dnf", "-y", "install", "<package>">>, <<"rpm", "-q", "--quiet", "<package>">>}

ValidateOperation(words) ==
  \/ \E op \in LegacyAllowList :
       Len(op) = Len(words) /\ \A n \in DOMAIN op : ValidateArg(op[n], words[n])
  \/ \E op \in LegacyVariadic :
       /\ Len(op) <= Len(words)
       /\ \A n \in DOMAIN words : ValidateArg(IF n <= Len(op) THEN op[n] ELSE Last(op), words[n])

------------------------------------------------------------------------------
(* What a session carries out: the steps that the helper lets through, with  *)
(* the check before them.  It lets the same ones through in every plan, so   *)
(* what it refuses is left out of the table.                                 *)

Run(for, command, tolerant, check) ==
  <<[for |-> for, step |-> [command |-> command, tolerant |-> tolerant, check |-> check]]>>

(* The account of the session, which both programs know by the same name.    *)
User == CHOOSE name \in ValidNames : TRUE

(* All that depends on the release is in the two sets of packages.           *)
ReleaseWith == [packages \in PackageSets |-> IF packages = "from 44" THEN 44 ELSE 43]
SystemWith(release) == [fedora |-> release, targetUser |-> User, targetHome |-> ""]

Carried ==
  [packages \in PackageSets |->
     LET offers == Offers[packages]
         release == ReleaseWith[packages]
         RunOf(offer, command) ==
           IF Validate(command, User)
           THEN Run(offer.for, command, offer.step.id \in Tolerant,
                    AlreadyInstalledCheck(offer.step.id, release))
           ELSE <<>>
     IN FlattenSeq([n \in DOMAIN offers |->
                      RunOf(offers[n], CommandOf(offers[n].step.id, SystemWith(release)))])]

LegacyCarried ==
  [packages \in PackageSets |->
     LET offers == BuildSteps(packages, User)
         CheckOf(step) == IF ValidateOperation(<<"rpm", "-q", "--quiet">> \o step.check)
                          THEN step.check ELSE <<>>
         RunOf(offer) ==
           IF ValidateOperation(offer.step.command)
           THEN Run(offer.for, offer.step.command, offer.step.tolerant, CheckOf(offer.step))
           ELSE <<>>
     IN FlattenSeq([n \in DOMAIN offers |-> RunOf(offers[n])])]

(* Cards that came later, and cards that install something else now.         *)
New == Catalogue.remote
       \cup Prefixed("python/", {"git"}) \cup Prefixed("gaming/", {"epic"})
       \cup Prefixed("browsers/", {"waterfox", "zen", "floorp"})
       \cup Prefixed("comms/", {"artcraft", "telegram", "lgl_cliamp"})
Changed == {"content/audacity", "gaming/goverlay"}
=============================================================================
