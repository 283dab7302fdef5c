------------------------------- MODULE MCGil -------------------------------
(***************************************************************************)
(* Instances of Gil for TLC.                                               *)
(***************************************************************************)
EXTENDS Gil

CONSTANTS main, t1, t2

Three == {main, t1, t2}
=============================================================================
