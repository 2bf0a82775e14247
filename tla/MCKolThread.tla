------------------------------ MODULE MCKolThread ------------------------------
(***************************************************************************)
(* Instances of KolThread for TLC: c is posted by the thread of a.         *)
(***************************************************************************)
EXTENDS KolThread, TLC

CONSTANTS a, b, c

Posters == (a :> Main) @@ (b :> Main) @@ (c :> a)
================================================================================
