-------------------------- MODULE MCPlanLifecycle --------------------------
(***************************************************************************)
(* A small instance of PlanLifecycle.                                      *)
(***************************************************************************)
EXTENDS PlanLifecycle

CONSTANTS ready, failed, needs, x, y

=============================================================================
