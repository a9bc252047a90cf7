----------------------------- MODULE InstallRun -----------------------------
(***************************************************************************)
(* What one installation session promises to the person watching the       *)
(* Install Now page, whatever happens between the client, the privileged   *)
(* helper and the commands: the step chips are settled one after the other *)
(* in plan order, each at most once, a dependent step is tried only after  *)
(* the step it depends on, and the summary comes once, last, with the      *)
(* number of failed steps that were not optional.                          *)
(***************************************************************************)
EXTENDS Integers, Sequences, FiniteSets

CONSTANTS StepId,   \* the identifiers of install steps
          NoStep,   \* "no step": an empty dependsOn
          Plans     \* the plans a builder may return

VARIABLES plan,     \* the plan of the session, <<>> until it is built
          chip,     \* [StepId -> Mark], the chip of each row of the page
          summary   \* Pending, then the error count given to the Done page

vars == <<plan, chip, summary>>

Pending == -1
Good == {"OK", "ALREADY INSTALLED"}
Settled == Good \cup {"FAILED", "SKIPPED"}
Mark == Settled \cup {"WAITING", "RUNNING"}

ChipOf(k) == chip[plan[k].id]

InTurn(k) == /\ summary = Pending
             /\ \A j \in 1..k-1 : ChipOf(j) \in Settled

DependencyMet(k) == \/ plan[k].dependsOn = NoStep
                    \/ chip[plan[k].dependsOn] \in Good

Errors == Cardinality({k \in DOMAIN plan : ChipOf(k) = "FAILED" /\ ~plan[k].optional})

Init == /\ plan = <<>>
        /\ chip = [id \in StepId |-> "WAITING"]
        /\ summary = Pending

Build == /\ plan = <<>> /\ summary = Pending
         /\ plan' \in Plans
         /\ UNCHANGED <<chip, summary>>

Begin(k) == /\ InTurn(k) /\ ChipOf(k) = "WAITING" /\ DependencyMet(k)
            /\ chip' = [chip EXCEPT ![plan[k].id] = "RUNNING"]
            /\ UNCHANGED <<plan, summary>>

Settle(k) == /\ InTurn(k) /\ ChipOf(k) = "RUNNING"
             /\ \E mark \in Good \cup {"FAILED"} :
                  chip' = [chip EXCEPT ![plan[k].id] = mark]
             /\ UNCHANGED <<plan, summary>>

Skip(k) == /\ InTurn(k) /\ ChipOf(k) = "WAITING" /\ ~DependencyMet(k)
           /\ chip' = [chip EXCEPT ![plan[k].id] = "SKIPPED"]
           /\ UNCHANGED <<plan, summary>>

(* The run ends between two steps: after the last, or where it was stopped. *)
Finish == /\ summary = Pending
          /\ \A k \in DOMAIN plan : ChipOf(k) # "RUNNING"
          /\ summary' = Errors
          /\ UNCHANGED <<plan, chip>>

(* No session with the helper was ever established. *)
Fail == /\ summary = Pending
        /\ \A id \in StepId : chip[id] = "WAITING"
        /\ summary' = 1
        /\ UNCHANGED <<plan, chip>>

Next == \/ Build \/ Finish \/ Fail
        \/ \E k \in DOMAIN plan : Begin(k) \/ Settle(k) \/ Skip(k)

Spec == Init /\ [][Next]_vars
=============================================================================
