------------------------ MODULE MCExecutionResources ------------------------
(***************************************************************************)
(* Small instances of ExecutionResources for TLC.                          *)
(***************************************************************************)
EXTENDS ExecutionResources, TLC

CONSTANTS c1, c2, c3, worker, light, r1, r2

\* One role only.
OneRoute == [x \in {worker} |-> r1]

\* Routes on two combinations.
SplitRoutes == worker :> r1 @@ light :> r2

Symmetry == Permutations(Controllers)

=============================================================================
