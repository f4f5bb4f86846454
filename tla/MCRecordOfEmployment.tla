------------------------ MODULE MCRecordOfEmployment ------------------------
(* Values for the constants of RecordOfEmployment.                         *)
EXTENDS RecordOfEmployment, TLC

(* Everybody left at the end of the first period.                          *)
Left == [e \in Employees |-> 1]

(* Requests and employees are interchangeable.                             *)
Symmetry == Permutations(Requests) \cup Permutations(Employees)
=============================================================================
