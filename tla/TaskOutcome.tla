---------------------------- MODULE TaskOutcome ----------------------------
(***************************************************************************)
(* What task billing promises (service/task_billing.go): a task is charged *)
(* when it is submitted; once it has failed or succeeded that never        *)
(* changes, and its charge is adjusted at most once, to nothing after a    *)
(* failure and to the actual quota after a success.                        *)
(***************************************************************************)
EXTENDS Integers

CONSTANTS
    Tasks,       \* task identifiers
    Quota,       \* the quota a submission is charged
    Actuals      \* quotas a finished task may turn out to cost

VARIABLES
    phase,       \* phase[t]: "absent", "open", "failed" or "succeeded"
    charge,      \* charge[t]: what the user has paid for t
    adjusted     \* tasks whose charge has been adjusted

vars == <<phase, charge, adjusted>>

Init ==
    /\ phase = [t \in Tasks |-> "absent"]
    /\ charge = [t \in Tasks |-> 0]
    /\ adjusted = {}

Submit(t) ==
    /\ phase[t] = "absent"
    /\ phase' = [phase EXCEPT ![t] = "open"]
    /\ charge' = [charge EXCEPT ![t] = Quota]
    /\ UNCHANGED adjusted

Finish(t) ==
    /\ phase[t] = "open"
    /\ \E f \in {"failed", "succeeded"} : phase' = [phase EXCEPT ![t] = f]
    /\ UNCHANGED <<charge, adjusted>>

Adjust(t) ==
    /\ phase[t] \in {"failed", "succeeded"} /\ t \notin adjusted
    /\ \E actual \in IF phase[t] = "failed" THEN {0} ELSE Actuals :
        charge' = [charge EXCEPT ![t] = actual]
    /\ adjusted' = adjusted \cup {t}
    /\ UNCHANGED phase

Next == \E t \in Tasks : Submit(t) \/ Finish(t) \/ Adjust(t)

Spec == Init /\ [][Next]_vars
=============================================================================
