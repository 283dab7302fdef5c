--------------------------- MODULE MCThreadStart ---------------------------
(***************************************************************************)
(* Instances of ThreadStart for TLC.  A new thread gets any identifier     *)
(* that no living thread has: a fresh one, or one of a thread that ended.  *)
(***************************************************************************)
EXTENDS ThreadStart

CONSTANTS main, t1, t2, l1

Three == {main, t1, t2}
Two   == {main, t1}
One   == {l1}
=============================================================================
