--------------------------- MODULE SealedDocument ---------------------------
(***************************************************************************)
(* What the program promises of a government form (a T4 return, a record   *)
(* of employment): it is drafted, redrafted and edited as often as needed, *)
(* then sealed once; a sealed form never changes again.                    *)
(***************************************************************************)
VARIABLES
    phase,     \* "none", "draft" or "sealed"
    content    \* what the form says

vars == <<phase, content>>

Init == phase = "none"

Draft ==
    /\ phase # "sealed"
    /\ phase' = "draft"       \* whatever the form says then

Seal ==
    /\ phase = "draft"
    /\ phase' = "sealed"
    /\ UNCHANGED content

Next == Draft \/ Seal

Spec == Init /\ [][Next]_vars
=============================================================================
