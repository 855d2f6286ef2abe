---------------------------- MODULE MCImportTab -----------------------------
(***************************************************************************)
(* The web client with two tabs, two users of different clients and two    *)
(* files.                                                                  *)
(***************************************************************************)
EXTENDS ImportTab
=============================================================================
