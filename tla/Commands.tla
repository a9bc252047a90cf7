------------------------------ MODULE Commands ------------------------------
(***************************************************************************)
(* The command of every step (core/plan.cpp), the list of commands that    *)
(* the helper runs as root (core/policy.cpp), how the page looks whether   *)
(* an item is installed (checkFor()), and the system that these depend on  *)
(* (core/system.cpp).  All four name packages, repositories and users, and *)
(* none knows of the others.                                               *)
(*                                                                         *)
(* A command is its program and its words; a URL is what tells it from the *)
(* others.                                                                 *)
(***************************************************************************)
EXTENDS Plan

CONSTANTS Names,       \* of the users there may be, "root" among them
          ValidNames   \* those that the two rules for user names accept

ASSUME NamesAssumption == ValidNames \subseteq Names \ {"root", ""}

------------------------------------------------------------------------------
(* detectSystem() *)

ReleaseNumbers == [release \in {"43", "44"} |-> IF release = "43" THEN 43 ELSE 44]

(* What rpm printed may be no number, "%fedora" on another distribution.     *)
ParseFedoraVersion(raw) == IF raw \in DOMAIN ReleaseNumbers THEN ReleaseNumbers[raw] ELSE 44

IsValidTargetUser(name) == name \in ValidNames

UserBeforeSudo(found) ==                                                 \* mutant
  IF IsValidTargetUser(found.sudoUser) THEN found.sudoUser
  ELSE IF IsValidTargetUser(found.login) THEN found.login
  ELSE IF IsValidTargetUser(found.self) THEN found.self
  ELSE "root"
(* SUDO_USER counts for root only; then the name of the login, which is not  *)
(* that of the process after su; then the process's own.                     *)
TargetUser(found) ==
  IF found.euid = "root" /\ IsValidTargetUser(found.sudoUser) THEN found.sudoUser
  ELSE IF IsValidTargetUser(found.login) THEN found.login
  ELSE IF IsValidTargetUser(found.self) THEN found.self
  ELSE "root"

DetectSystem(found) ==
  LET user == TargetUser(found)
  IN  [fedora |-> ParseFedoraVersion(found.release),
       architecture |-> IF found.machine = "" THEN found.builtFor ELSE found.machine,
       targetUser |-> user,
       targetHome |-> IF user \in found.inPasswd THEN "/home2/" \o user ELSE ""]

Applications(info) ==
  (IF info.targetHome = "" THEN "/home/" \o info.targetUser ELSE info.targetHome) \o "/Applications"

------------------------------------------------------------------------------
(* Commands of the steps *)

(* Items whose package has the name of the item. *)
Same(prefix, suffix, names) ==
  [id \in {prefix \o name \o suffix : name \in names} |->
     <<CHOOSE name \in names : prefix \o name \o suffix = id>>]

VmCuratorBundle == <<"vm-curator", "edk2-ovmf", "virt-viewer", "qemu-ui-sdl", "passt", "swtpm",
                     "dnsmasq", "iproute", "nftables">>

PackagesOfSteps ==
  Same("systool_", "", {"fastfetch", "btop", "cmatrix", "distrobox", "timeshift", "cbonsai",
                        "podman", "tailscale"})
  @@ Same("", "", {"git", "vlc", "firefox", "chromium"})
  @@ Same("gaming_", "", {"steam", "lutris", "goverlay", "protontricks"})
  @@ Same("virt_", "", {"libvirt"})
  @@ Same("essential_", "", {"dolphin", "nemo", "konsole", "kitty", "foot", "ghostty"})
  @@ "pip" :> <<"python3-pip">> @@ "pipx_pkg" :> <<"pipx">> @@ "flatpak_pkg" :> <<"flatpak">>
  @@ "obs" :> <<"obs-studio">>
  @@ "amd_mesa_dri" :> <<"mesa-dri-drivers">> @@ "amd_vulkan_loader" :> <<"vulkan-loader">>
  @@ "amd_linux_fw" :> <<"linux-firmware">>
  @@ "gaming_kernel_modules_extra" :> <<"kernel-modules-extra">>
  @@ "gaming_wine" :> <<"wine", "wine.i686">>
  @@ "heroic_install" :> <<"heroic-games-launcher-bin">> @@ "faugus_install" :> <<"faugus-launcher">>
  @@ "virt_libvirt_runtime" :> <<"libvirt-daemon-kvm">> @@ "virt_virtmanager" :> <<"virt-manager">>
  @@ "virt_virt_install" :> <<"virt-install">> @@ "virt_virt_viewer" :> <<"virt-viewer">>
  @@ "virt_vmcurator_install" :> VmCuratorBundle
  @@ "brave" :> <<"brave-browser">> @@ "vivaldi" :> <<"vivaldi-stable">>
  @@ "edge" :> <<"microsoft-edge-stable">> @@ "helium_install" :> <<"helium-bin">>
  @@ "office_calc" :> <<"libreoffice-calc">> @@ "office_writer" :> <<"libreoffice-writer">>
  @@ "cliamp_install" :> <<"lgl-cliamp">> @@ "cachyos_kernel" :> <<"kernel-cachyos">>
  @@ "cachyos_devel" :> <<"kernel-cachyos-devel-matched">>
  @@ "toolkit_scheduler_install" :> <<"lgl-scheduler-manager">>
  @@ "toolkit_lgl_dnf_helper_install" :> <<"lgl-dnf-helper">>
  @@ "toolkit_lgl_emoji_picker_install" :> <<"lgl-emoji-picker">>
  @@ "toolkit_lgl_colour_picker_install" :> <<"lgl-colour-picker">>
  @@ "toolkit_lgl_papercutter_install" :> <<"lgl-papercutter">>
  @@ "toolkit_lgl_keychron_helper_install" :> <<"lgl-keychron-helper">>
  @@ "toolkit_lgl_powerprofile_manager_install" :> <<"lgl-powerprofile-manager">>

(* The packages whose name depends on the release. *)
PluginsPackageOneLater(fedora) ==                                        \* mutant
  IF fedora > 44 THEN "dnf5-plugins" ELSE "python3-dnf5-plugins"
PluginsPackage(fedora) == IF fedora >= 44 THEN "dnf5-plugins" ELSE "python3-dnf5-plugins"
Mesa(name, fedora) == IF fedora >= 44 THEN name \o "-freeworld" ELSE name
BootstrapPackages(fedora) == <<"curl", "wget2-wget", "git", PluginsPackage(fedora)>>

PackagesFor(id, fedora) ==
  CASE id = "bootstrap" -> BootstrapPackages(fedora)
    [] id = "amd_mesa_vulkan" -> <<Mesa("mesa-vulkan-drivers", fedora)>>
    [] id = "amd_mesa_va" -> <<Mesa("mesa-va-drivers", fedora)>>
    [] OTHER -> PackagesOfSteps[id]

CoprRepos ==
  "copr_ghostty" :> "scottames/ghostty"
  @@ "goverlay_copr" :> "linuxgamerlife/lgl-essentials"
  @@ "heroic_copr" :> "atim/heroic-games-launcher" @@ "faugus_copr" :> "faugus/faugus-launcher"
  @@ "virt_vmcurator_copr" :> "linuxgamerlife/lgl-vm-curator"
  @@ "helium_copr" :> "imput/helium" @@ "cliamp_copr" :> "linuxgamerlife/lgl-cliamp"
  @@ "cachyos_copr1" :> "bieszczaders/kernel-cachyos"
  @@ "cachyos_copr2" :> "bieszczaders/kernel-cachyos-addons"
  @@ "toolkit_copr" :> "linuxgamerlife/lgl-toolkit"
  @@ "toolkit_lgl_powerprofile_manager_copr" :> "linuxgamerlife/lgl-powerprofile-manager"

FlathubApps ==
  "flatpak_moonlight" :> "com.moonlight_stream.Moonlight"
  @@ "flatpak_sunshine" :> "dev.lizardbyte.app.Sunshine"
  @@ "flatpak_parsec" :> "com.parsecgaming.parsec" @@ "flatpak_flatseal" :> "com.github.tchx84.Flatseal"
  @@ "flatpak_zed" :> "dev.zed.Zed" @@ "flatpak_github_desktop" :> "io.github.shiftey.Desktop"
  @@ "flatpak_protonplus" :> "com.vysp3r.ProtonPlus" @@ "flatpak_protonup" :> "net.davidotek.pupgui2"
  @@ "chrome" :> "com.google.Chrome" @@ "librewolf" :> "io.gitlab.librewolf-community"
  @@ "waterfox" :> "net.waterfox.waterfox" @@ "zen" :> "app.zen_browser.zen"
  @@ "floorp" :> "one.ablaze.floorp" @@ "flatpak_discord" :> "com.discordapp.Discord"
  @@ "flatpak_telegram" :> "org.telegram.desktop" @@ "flatpak_spotify" :> "com.spotify.Client"

PipxTools == [pipx_tldr |-> "tldr", pipx_ytdlp |-> "yt-dlp"]

(* A URL, and the host it is on. *)
FlathubUrl == "https://flathub.org/repo/flathub.flatpakrepo"
HostOf ==
  "rpmfusion-free-release" :> "download1.rpmfusion.org"
  @@ "rpmfusion-nonfree-release" :> "download1.rpmfusion.org"
  @@ "brave-browser.repo" :> "brave-browser-rpm-release.s3.brave.com"
  @@ "vivaldi.repo" :> "repo.vivaldi.com" @@ "microsoft-edge.repo" :> "packages.microsoft.com"
Url(file) == "https://" \o HostOf[file] \o "/" \o file
RpmFusion == "rpmfusion_free" :> "rpmfusion-free-release"
             @@ "rpmfusion_nonfree" :> "rpmfusion-nonfree-release"

RepoFiles == [brave |-> "brave-browser.repo", vivaldi |-> "vivaldi.repo", edge |-> "microsoft-edge.repo"]
RepoFile(name) == "/run/lgl-abc123/" \o RepoFiles[name]

(* Of the AppImages, the name without release and architecture. *)
AppImages == [audacity |-> "audacity.AppImage", epic |-> "EpicGamesLauncher.AppImage",
              artcraft |-> "artcraft-launcher.AppImage"]

DnfInstall(words) == <<"dnf", "-y", "install">> \o words

(* What is the same on every system. *)
CommonCommands ==
  "flathub_remote" :> <<"flatpak", "remote-add", "--if-not-exists", "--system", "flathub", FlathubUrl>>
  @@ "nm_wait_online" :> <<"systemctl", "disable", "--now", "NetworkManager-wait-online">>
  @@ "clean_all" :> <<"dnf", "clean", "all">>
  @@ "ffmpeg_swap" :> <<"dnf", "swap", "-y", "ffmpeg-free", "ffmpeg", "--allowerasing">>
  @@ "gst_bad_nonfree" :> DnfInstall(<<"--skip-unavailable", "--allowerasing", "gstreamer1-plugins-ugly">>)
  @@ "gst_bad_free_extras" :> DnfInstall(<<"--skip-unavailable", "gstreamer1-plugins-bad-free-extras">>)
  @@ "toolkit_scx_scheds" :> DnfInstall(<<"--allowerasing", "scx-scheds">>)
  @@ "toolkit_scx_tools" :> DnfInstall(<<"--allowerasing", "scx-tools">>)
  @@ "libvirtd_enable" :> <<"systemctl", "enable", "--now", "libvirtd">>
  @@ "selinux_bool" :> <<"setsebool", "-P", "domain_kernel_load_modules", "on">>
  @@ [id \in DOMAIN RpmFusion |-> DnfInstall(<<Url(RpmFusion[id])>>)]
  @@ [id \in DOMAIN CoprRepos |-> <<"dnf", "copr", "enable", "-y", CoprRepos[id]>>]
  @@ [id \in DOMAIN FlathubApps |->
        <<"flatpak", "install", "-y", "--system", "flathub", FlathubApps[id]>>]
  @@ [id \in {name \o "_repo_dl" : name \in DOMAIN RepoFiles} |->
        LET name == CHOOSE n \in DOMAIN RepoFiles : n \o "_repo_dl" = id
        IN  <<"curl", "-fsSL", "-o", RepoFile(name), Url(RepoFiles[name])>>]
  @@ [id \in {name \o "_repo_add" : name \in DOMAIN RepoFiles} |->
        LET name == CHOOSE n \in DOMAIN RepoFiles : n \o "_repo_add" = id
        IN  <<"dnf", "config-manager", "addrepo", "--from-repofile", RepoFile(name)>>]

AppImageSteps ==
  [id \in {name \o suffix : name \in DOMAIN AppImages,
                            suffix \in {"_directory", "_download", "_publish", "_executable"}} |->
     CHOOSE pair \in (DOMAIN AppImages) \X {"_directory", "_download", "_publish", "_executable"} :
       pair[1] \o pair[2] = id]
IsLocal(id) == id \in DOMAIN AppImageSteps

AppImageCommand(id, info) ==
  LET target == Applications(info) \o "/" \o AppImages[AppImageSteps[id][1]]
      kind == AppImageSteps[id][2]
  IN  CASE kind = "_directory" -> <<"mkdir", "-p", Applications(info)>>
        [] kind = "_download" -> <<"curl", "-o", target \o ".part">>
        [] kind = "_publish" -> <<"mv", "-f", target \o ".part", target>>
        [] kind = "_executable" -> <<"chmod", "+x", target>>

CommandOf(id, info) ==
  CASE id \in DOMAIN CommonCommands -> CommonCommands[id]
    [] id = "libvirt_group" -> <<"usermod", "-aG", "libvirt", info.targetUser>>
    [] id = "kvm_group" -> <<"usermod", "-aG", "kvm", info.targetUser>>
    [] id \in DOMAIN PipxTools ->
         <<"sudo", "-u", info.targetUser, "/usr/bin/pipx", "install", "--include-deps", PipxTools[id]>>
    [] IsLocal(id) -> AppImageCommand(id, info)
    [] OTHER -> DnfInstall(PackagesFor(id, info.fedora))

(* Those of them that name the user. *)
ForUser == {"kvm_group", "libvirt_group"} \cup DOMAIN PipxTools

(* alreadyInstalledCheck: rpm -q of these, if there are any.                 *)
AlreadyInstalledCheck(id, fedora) ==
  CASE id \in {"bootstrap", "git", "virt_libvirt_runtime", "virt_vmcurator_install"} ->
         PackagesFor(id, fedora)
    [] id = "toolkit_scx_scheds" -> <<"scx-scheds-git">>
    [] OTHER -> <<>>

(* allowedExitCodes: 1 counts as success. *)
Tolerant == {"toolkit_scx_scheds", "toolkit_scx_tools"}

------------------------------------------------------------------------------
(* policy::validate() *)

AllowedCoprRepos ==
  {"atim/heroic-games-launcher", "bieszczaders/kernel-cachyos",
   "bieszczaders/kernel-cachyos-addons", "faugus/faugus-launcher", "imput/helium",
   "linuxgamerlife/lgl-cliamp", "linuxgamerlife/lgl-essentials",
   "linuxgamerlife/lgl-powerprofile-manager", "linuxgamerlife/lgl-toolkit",
   "linuxgamerlife/lgl-vm-curator", "scottames/ghostty"}

AllowedDownloadHosts == {"brave-browser-rpm-release.s3.brave.com", "download1.rpmfusion.org",
                         "packages.microsoft.com", "repo.vivaldi.com"}
AllowedPipxTools == {"tldr", "yt-dlp"}

(* The words of commands that do not have the letters of a package's name.   *)
Options == {"-y", "-u", "-aG", "-P", "-o", "-q", "--quiet", "-fsSL", "--system", "--now", "--refresh",
            "--skip-unavailable", "--allowerasing", "--if-not-exists", "--include-deps",
            "--from-repofile", "-p", "-f", "+x"}
Urls == {Url(file) : file \in DOMAIN HostOf}
RunFiles == {RepoFile(name) : name \in DOMAIN RepoFiles}
Slashes == Urls \cup RunFiles \cup {FlathubUrl, "/usr/bin/pipx"}
           \cup AllowedCoprRepos \cup {CoprRepos[id] : id \in DOMAIN CoprRepos}

(* A rule says which words it matches. *)
Package(word) == word \notin Options \cup Slashes
CoprRepo(word) == word \in AllowedCoprRepos
UrlHttps(word) == word \in {Url(file) : file \in {f \in DOMAIN HostOf : HostOf[f] \in AllowedDownloadHosts}}
FilePathRun(word) == word \in RunFiles
(* User-scoped commands are for the user who started the wizard.             *)
Username(word, expected) == word \in ValidNames /\ word = expected

Matches(word, rule, expected) ==
  CASE rule = "<package>" -> Package(word)
    [] rule = "<pipx>" -> word \in AllowedPipxTools
    [] rule = "<copr>" -> CoprRepo(word)
    [] rule = "<url>" -> UrlHttps(word)
    [] rule = "<path>" -> FilePathRun(word)
    [] rule = "<user>" -> Username(word, expected)
    [] OTHER -> word = rule

AllowList ==
  {<<"dnf", "-y", "install", "<url>">>,
   <<"dnf", "-y", "upgrade", "--refresh">>,
   <<"dnf", "swap", "-y", "<package>", "<package>", "--allowerasing">>,
   <<"dnf", "copr", "enable", "<copr>">>,
   <<"dnf", "copr", "enable", "-y", "<copr>">>,
   <<"dnf", "config-manager", "addrepo", "--from-repofile", "<path>">>,
   <<"dnf", "clean", "all">>,
   <<"dnf", "-y", "install", "--skip-unavailable", "<package>">>,
   <<"dnf", "-y", "install", "--skip-unavailable", "--allowerasing", "<package>">>,
   <<"dnf", "-y", "install", "--allowerasing", "<package>">>,
   <<"flatpak", "install", "-y", "--system", "flathub", "<package>">>,
   <<"flatpak", "remote-add", "--if-not-exists", "--system", "flathub", FlathubUrl>>,
   <<"flatpak", "update", "-y", "--system">>,
   <<"curl", "-fsSL", "-o", "<path>", "<url>">>,
   <<"systemctl", "enable", "--now", "libvirtd">>,
   <<"systemctl", "disable", "--now", "NetworkManager-wait-online">>,
   <<"systemctl", "reboot">>,
   <<"usermod", "-aG", "libvirt", "<user>">>,
   <<"usermod", "-aG", "kvm", "<user>">>,
   <<"setsebool", "-P", "domain_kernel_load_modules", "on">>,
   <<"sudo", "-u", "<user>", "/usr/bin/pipx", "install", "--include-deps", "<pipx>">>}

(* With as many packages as there are. *)
Variadic == {<<"dnf", "-y", "install", "<package>">>, <<"rpm", "-q", "--quiet", "<package>">>}

Validate(command, expected) ==
  \/ \E op \in AllowList :
       /\ Len(op) = Len(command)
       /\ \A n \in DOMAIN op : Matches(command[n], op[n], expected)
  \/ \E op \in Variadic :
       /\ Len(op) <= Len(command)
       /\ \A n \in DOMAIN command :
            Matches(command[n], IF n <= Len(op) THEN op[n] ELSE Last(op), expected)

------------------------------------------------------------------------------
(* checkFor(): what an item is known by; one of these things is enough.      *)

Rpms(names) == {<<"rpm", name>> : name \in names}
Flatpaks(id) == {<<"flatpak", id>>, <<"flatpak of the user", id>>}

Own(prefix, names) ==
  [key \in Prefixed(prefix, names) |-> CHOOSE name \in names : prefix \o name = key]

RpmPackages ==
  Own("systools/", {"fastfetch", "btop", "cmatrix", "distrobox", "timeshift", "podman", "tailscale"})
  @@ Own("python/", {"pipx", "git"}) @@ Own("media/", {"ffmpeg", "vlc"})
  @@ Own("gaming/", {"steam", "lutris", "goverlay", "wine", "protontricks"})
  @@ Own("virt/", {"libvirt"}) @@ Own("browsers/", {"firefox", "chromium"})
  @@ Free :> "rpmfusion-free-release" @@ NonFree :> "rpmfusion-nonfree-release"
  @@ "python/pip" :> "python3-pip" @@ "content/obs" :> "obs-studio"
  @@ "media/gst_bad_free_extras" :> "gstreamer1-plugins-bad-free-extras"
  @@ "media/gst_bad_nonfree" :> "gstreamer1-plugins-ugly"
  @@ "gpu/amd/mesa_dri" :> "mesa-dri-drivers" @@ "gpu/amd/vulkan_loader" :> "vulkan-loader"
  @@ "gpu/amd/linux_fw" :> "linux-firmware"
  @@ "gaming/kernel_modules_extra" :> "kernel-modules-extra"
  @@ "gaming/heroic" :> "heroic-games-launcher-bin" @@ "gaming/faugus" :> "faugus-launcher"
  @@ "virt/virtmanager" :> "virt-manager" @@ "virt/virt_install" :> "virt-install"
  @@ "virt/virt_viewer" :> "virt-viewer" @@ "virt/vmcurator" :> "vm-curator"
  @@ "browsers/brave" :> "brave-browser" @@ "browsers/vivaldi" :> "vivaldi-stable"
  @@ "browsers/edge" :> "microsoft-edge-stable" @@ "browsers/helium" :> "helium-bin"
  @@ "comms/office_calc" :> "libreoffice-calc" @@ "comms/office_writer" :> "libreoffice-writer"
  @@ "cachyos/kernel" :> "kernel-cachyos" @@ "cachyos/kernel_devel" :> "kernel-cachyos-devel-matched"
  @@ "toolkit/lgl_dnf_helper" :> "lgl-dnf-helper" @@ "toolkit/lgl_emoji_picker" :> "lgl-emoji-picker"
  @@ "toolkit/lgl_colour_picker" :> "lgl-colour-picker" @@ "toolkit/lgl_papercutter" :> "lgl-papercutter"
  @@ "toolkit/lgl_keychron_helper" :> "lgl-keychron-helper"
  @@ "toolkit/lgl_powerprofile_manager" :> "lgl-powerprofile-manager" @@ "comms/lgl_cliamp" :> "lgl-cliamp"

FlatpakIds ==
  "systools/flatseal" :> "com.github.tchx84.Flatseal" @@ "python/zed" :> "dev.zed.Zed"
  @@ "python/github_desktop" :> "io.github.shiftey.Desktop"
  @@ "gaming/protonplus" :> "com.vysp3r.ProtonPlus" @@ "gaming/protonup" :> "net.davidotek.pupgui2"
  @@ "browsers/chrome" :> "com.google.Chrome" @@ "browsers/librewolf" :> "io.gitlab.librewolf-community"
  @@ "browsers/waterfox" :> "net.waterfox.waterfox" @@ "browsers/zen" :> "app.zen_browser.zen"
  @@ "browsers/floorp" :> "one.ablaze.floorp" @@ "comms/discord" :> "com.discordapp.Discord"
  @@ "systools/parsec" :> "com.parsecgaming.parsec" @@ "comms/telegram" :> "org.telegram.desktop"
  @@ "comms/spotify" :> "com.spotify.Client"

(* find -iname, for any release and architecture of the file.                *)
AppImageOf == "gaming/epic" :> "EpicGamesLauncher.AppImage"
              @@ "comms/artcraft" :> "artcraft-launcher.AppImage" @@ "content/audacity" :> "audacity.AppImage"

MesaCheck(key, fedora) ==
  Mesa(IF key = "gpu/amd/mesa_vulkan" THEN "mesa-vulkan-drivers" ELSE "mesa-va-drivers", fedora)

(* pipx list is asked by the wizard, which runs as self.                     *)
CheckFor(key, info, self) ==
  CASE key = "systools/tldr" -> {<<"pipx of", self, "tldr">>}
    [] key = "content/ytdlp" -> {<<"pipx of", self, "yt-dlp">>}
    [] key \in DOMAIN AppImageOf ->
         {<<"executable", Applications(info) \o "/" \o AppImageOf[key]>>,
          <<"binary", "/usr/bin">>, <<"binary", "/usr/local/bin">>}
    [] key = "systools/cbonsai" ->
         Rpms({"cbonsai"}) \cup
           {<<"executable", directory \o "/cbonsai">> :
              directory \in {"/usr/bin", "/usr/local/bin", "/home/" \o info.targetUser \o "/.local/bin"}}
    [] key = "systools/moonlight" -> Rpms({"moonlight"}) \cup Flatpaks("com.moonlight_stream.Moonlight")
    [] key = "systools/sunshine" -> Rpms({"sunshine"}) \cup Flatpaks("dev.lizardbyte.app.Sunshine")
    [] key = "toolkit/lgl_scheduler_manager" -> Rpms({"lgl-scheduler-manager", "lgl-scxctl-manager"})
    [] key \in {"gpu/amd/mesa_vulkan", "gpu/amd/mesa_va"} -> Rpms({MesaCheck(key, info.fedora)})
    [] key = "systools/nm_wait_online" -> {<<"unit", "NetworkManager-wait-online">>}
    [] key \in DOMAIN RpmPackages -> Rpms({RpmPackages[key]})
    [] key \in DOMAIN FlatpakIds -> Flatpaks(FlatpakIds[key])
    [] OTHER -> {}

Negated == {"systools/nm_wait_online"}

SeenIfThere(key, info, self, there) ==                                  \* mutant
  CheckFor(key, info, self) \cap there # {}
Seen(key, info, self, there) ==
  LET matched == CheckFor(key, info, self) \cap there # {}
  IN  IF key \in Negated THEN ~matched ELSE matched
=============================================================================
