------------------------------- MODULE MCApply -------------------------------
(* Every card and every option, on systems at either side of each question   *)
(* that detectSystem() asks.                                                 *)
EXTENDS Apply, CatalogueFacts

Usual == [release |-> "44", machine |-> "x86_64", builtFor |-> "x86_64", euid |-> "user",
          self |-> "alice", login |-> "alice", sudoUser |-> "", inPasswd |-> {"alice", "bob", "root"}]

MCEnvironments ==
  {Usual,
   [Usual EXCEPT !.release = "43", !.machine = "aarch64", !.login = ""],
   [Usual EXCEPT !.release = "%fedora", !.machine = "", !.sudoUser = "bob", !.inPasswd = {}],
   [Usual EXCEPT !.login = "bob", !.sudoUser = "bob"],
   [Usual EXCEPT !.self = "j.doe", !.login = "j.doe"],
   [Usual EXCEPT !.euid = "root", !.self = "root", !.sudoUser = "alice"]}

MCNames == {"alice", "bob", "root", "j.doe", ""}
MCValidNames == {"alice", "bob"}
=============================================================================
