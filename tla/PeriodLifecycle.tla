--------------------------- MODULE PeriodLifecycle ---------------------------
(***************************************************************************)
(* What the payroll run promises about pay periods: a period is opened,    *)
(* calculated as often as needed and then finalized; finalized is final;   *)
(* opening a period drops the company's unfinished one.  PayrollRun        *)
(* implements this when its handlers do not overlap.                       *)
(***************************************************************************)
CONSTANTS Companies, PeriodIds

VARIABLES
    phase,   \* "none", "open", "calculated" or "finalized", by period id
    owner    \* the company of each period id

vars == <<phase, owner>>

Unfinished(p) == phase[p] \in {"open", "calculated"}

Init ==
    /\ phase = [p \in PeriodIds |-> "none"]
    /\ owner \in [PeriodIds -> Companies]

Open(p, c) ==
    /\ phase[p] = "none" \/ (Unfinished(p) /\ owner[p] = c)
    /\ phase' = [q \in PeriodIds |->
                    IF q = p THEN "open"
                    ELSE IF Unfinished(q) /\ owner[q] = c THEN "none"
                    ELSE phase[q]]
    /\ owner' = [owner EXCEPT ![p] = c]

Calculate(p) ==
    /\ Unfinished(p)
    /\ phase' = [phase EXCEPT ![p] = "calculated"]
    /\ UNCHANGED owner

Finalize(p) ==
    /\ phase[p] = "calculated"
    /\ phase' = [phase EXCEPT ![p] = "finalized"]
    /\ UNCHANGED owner

Next ==
    \E p \in PeriodIds :
        \/ \E c \in Companies : Open(p, c)
        \/ Calculate(p)
        \/ Finalize(p)

Spec == Init /\ [][Next]_vars

(* A company never has two periods that are still to be paid.              *)
AtMostOneUnfinished ==
    \A p, q \in PeriodIds :
        Unfinished(p) /\ Unfinished(q) /\ owner[p] = owner[q] => p = q

TypeOK ==
    /\ phase \in [PeriodIds -> {"none", "open", "calculated", "finalized"}]
    /\ owner \in [PeriodIds -> Companies]
=============================================================================
