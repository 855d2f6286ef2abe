---------------------------- MODULE MCDdrImport ----------------------------
(***************************************************************************)
(* DdrImport on small instances. Requests, dates and bits are              *)
(* interchangeable; the seeded well is not like the others.                *)
(***************************************************************************)
EXTENDS DdrImport, TLC

RequestSymmetry == Permutations(Req) \union Permutations(Date)
=============================================================================
