--------------------------- MODULE MCTenantScope ---------------------------
(***************************************************************************)
(* TenantScope on a small instance: no symmetry, a property is temporal.   *)
(***************************************************************************)
EXTENDS TenantScope
=============================================================================
