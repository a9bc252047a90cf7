---------------------------- MODULE MCSelection ----------------------------
(* The whole catalogue, on the systems at either side of every condition.    *)
(* A plan grows with the selection, so what is wrong with two steps of a     *)
(* plan is wrong already with the items they come from: two of them, and a   *)
(* choice.                                                                   *)
EXTENDS Parity

Usual == [fedora |-> 44, architecture |-> "x86_64"]
Older == [fedora |-> 43, architecture |-> "aarch64"]

UsualAndOlder == {Usual, Older}

MCNames == {"alice", "root"}
MCValidNames == {"alice"}
=============================================================================
