------------------------------ MODULE MCSession ------------------------------
(* Small plans for Session.  Each is a shape buildPlan() really produces.    *)
EXTENDS Session

CONSTANTS s1, s2, s3

Install(id) == [id |-> id, dependsOn |-> NoStep, local |-> FALSE, verify |-> FALSE,
                check |-> FALSE, command |-> TRUE, optional |-> FALSE, permitted |-> TRUE,
                allowed |-> {}]
Local(id) == [Install(id) EXCEPT !.local = TRUE]

(* python/git: installed already, or dnf install. *)
Git == [Install(s1) EXCEPT !.check = TRUE]

(* toolkit_scx_scheds: optional, a check, and exit code 1 allowed. *)
ScxScheds == [Install(s1) EXCEPT !.check = TRUE, !.optional = TRUE, !.allowed = {1}]

(* The download, publish and chmod steps of an AppImage. *)
AppImage == <<[Local(s1) EXCEPT !.verify = TRUE],
              [Local(s2) EXCEPT !.dependsOn = s1],
              [Local(s3) EXCEPT !.dependsOn = s2]>>

CheckedPlans == {<<Git, Install(s2)>>, <<ScxScheds, Install(s2)>>}
MixedPlans == {AppImage,
               <<Install(s1), [Install(s2) EXCEPT !.command = FALSE, !.check = TRUE]>>,
               <<[Install(s1) EXCEPT !.permitted = FALSE], [Install(s2) EXCEPT !.optional = TRUE]>>}
AllPlans == CheckedPlans \cup MixedPlans \cup {<<>>}
ScxPlan == {<<ScxScheds>>}
=============================================================================
