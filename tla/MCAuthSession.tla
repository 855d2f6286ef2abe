--------------------------- MODULE MCAuthSession ---------------------------
(***************************************************************************)
(* AuthSession on small instances; requests and users are interchangeable. *)
(***************************************************************************)
EXTENDS AuthSession, TLC

RequestSymmetry == Permutations(Req) \union Permutations(User)
=============================================================================
