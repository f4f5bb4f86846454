---------------------------- MODULE MCPayrollRun ----------------------------
(* Values for the constants of PayrollRun.                                 *)
EXTENDS PayrollRun, TLC

CONSTANTS c1, c2, e1, e2

MCEmployer == [e \in Employees |-> c1]
(* The serial run: e1 earns vacation pay in c1, e2 is a contractor of c2.  *)
MCEmployer2 == [e \in Employees |-> IF e = e2 THEN c2 ELSE c1]
(* Requests are interchangeable: no action or property names one.          *)
RequestSymmetry == Permutations(Requests)
MCStatuses == {"keep", "draft", "approved", "calculated"}
MCAllEndpoints == EndpointNames
(* What the pages under web/ call: they neither recalculate nor delete.    *)
MCWebEndpoints == EndpointNames \ {"recalculate", "delete"}
(* Of these, the ones that move periods and figures.                       *)
MCSerialEndpoints == MCWebEndpoints \ {"earnings", "override"}
=============================================================================
