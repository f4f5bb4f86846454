------------------------------ MODULE MCYearEnd ------------------------------
(* Values for the constants of YearEnd.                                    *)
EXTENDS YearEnd, TLC

CONSTANTS e1, e2

(* One is on leave without pay, one earns two cents a period: more than    *)
(* what the validation of a return without slips tolerates.                *)
MCAmounts == (e1 :> {0}) @@ (e2 :> {2})

(* Requests are interchangeable.                                           *)
Symmetry == Permutations(Requests)
=============================================================================
