------------------------------- MODULE MCLebRun -------------------------------
(***************************************************************************)
(* Instances of LebRun for TLC.                                            *)
(***************************************************************************)
EXTENDS LebRun

CONSTANTS a1, a2

\* One avant fills its pipe, the other has a buffer at most.
Shares == [n \in Avant |-> IF n = a1 THEN 2 ELSE 1]
================================================================================
