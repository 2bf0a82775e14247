------------------------------- MODULE MCDAQMain -------------------------------
(***************************************************************************)
(* Instances of DAQMain for TLC.                                           *)
(***************************************************************************)
EXTENDS DAQMain

CONSTANTS a1, a2, eb

OneAvant == <<a1, eb>>
TwoAvants == <<a1, a2, eb>>
================================================================================
