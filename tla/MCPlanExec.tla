---------------------------- MODULE MCPlanExec ----------------------------
(* Small instances of PlanExec for TLC. *)
EXTENDS PlanExec
=============================================================================
