--------------------------- MODULE MCLegacySession ---------------------------
(***************************************************************************)
(* Plans of two steps, of the shapes that mainwizard.cpp builds: a         *)
(* bootstrap (checked, its failure counts), one that another exit code is  *)
(* taken for success of, an optional one, and one the helper's allow-list  *)
(* does not know.                                                          *)
(***************************************************************************)
EXTENDS LegacySession

Bootstrap == [Simple(FALSE) EXCEPT !.check = TRUE]
Lenient == [Simple(FALSE) EXCEPT !.accepted = {0, 1}]
Optional == Simple(TRUE)
Unknown == [Simple(FALSE) EXCEPT !.permitted = FALSE]

MCPlans == {<<Bootstrap, Lenient>>, <<Optional, Unknown>>}
MCCodes == {0, 1}
=============================================================================
