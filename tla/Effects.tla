------------------------------ MODULE Effects ------------------------------
(***************************************************************************)
(* What the programs that the steps run put on the system and take from    *)
(* it, when they do what they are asked to.                                *)
(***************************************************************************)
EXTENDS Commands

(* The package in the file that a URL names. *)
RpmOf(word) == IF \E file \in DOMAIN HostOf : word = Url(file)
               THEN CHOOSE file \in DOMAIN HostOf : word = Url(file) ELSE word

AddedBy(id, words) ==
  CASE words[1] = "dnf" /\ words[2] = "-y" -> Rpms({RpmOf(w) : w \in ToSet(words) \ ({"dnf", "install"} \cup Options)})
    [] words[1] = "dnf" /\ words[2] = "swap" -> Rpms({words[5]})
    [] words[1] = "dnf" /\ words[2] \in {"copr", "config-manager"} -> {<<"repository", Last(words)>>}
    [] words[1] = "flatpak" /\ words[2] = "install" -> {<<"flatpak", Last(words)>>}
    [] words[1] = "flatpak" /\ words[2] = "remote-add" -> {<<"remote", "flathub">>}
    [] words[1] = "systemctl" /\ words[2] = "enable" -> {<<"unit", Last(words)>>}
    [] words[1] = "usermod" -> {<<"group", words[3], Last(words)>>}
    [] words[1] = "sudo" -> {<<"pipx of", words[3], Last(words)>>}
    [] words[1] = "mkdir" -> {<<"directory", Last(words)>>}
    [] words[1] = "curl" /\ IsLocal(id) -> {<<"file", Last(words)>>}
    [] words[1] = "curl" /\ ~IsLocal(id) -> {<<"file", words[4]>>}
    [] words[1] = "mv" -> {<<"file", words[4]>>}
    [] words[1] = "chmod" -> {<<"executable", Last(words)>>}
    [] OTHER -> {}

RemovedBy(words) ==
  CASE words[1] = "dnf" /\ words[2] = "swap" -> Rpms({words[4]})
    [] words[1] = "systemctl" /\ words[2] = "disable" -> {<<"unit", Last(words)>>}
    [] words[1] = "mv" -> {<<"file", words[3]>>, <<"executable", words[4]>>}
    [] OTHER -> {}
=============================================================================
