--------------------------- MODULE MCPlanApproval ---------------------------
(***************************************************************************)
(* PlanApproval on small instances. Requests are interchangeable, so the   *)
(* safety runs take them as a symmetry set.                                *)
(***************************************************************************)
EXTENDS PlanApproval, TLC

RequestSymmetry == Permutations(Req) \union Permutations(Plan)
=============================================================================
