------------------------------ MODULE MCEventFile ------------------------------
(***************************************************************************)
(* Instances of EventFile for TLC.                                         *)
(***************************************************************************)
EXTENDS EventFile

TwoNodes == <<2, 1>>
================================================================================
