----------------------------- MODULE MCAnalysis -----------------------------
(***************************************************************************)
(* Analysis on bounded inputs.                                             *)
(***************************************************************************)
EXTENDS Analysis

MCThreshold == <<3, 10>>     \* founderCurve's default
MCSlopeFraction == <<1, 2>>  \* detectFounderPoint's
=============================================================================
