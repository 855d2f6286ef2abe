--------------------------- MODULE MCProvisioning ---------------------------
(***************************************************************************)
(* Provisioning on a small instance.                                       *)
(***************************************************************************)
EXTENDS Provisioning
=============================================================================
