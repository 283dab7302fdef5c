----------------------------- MODULE MCMiniMark -----------------------------
(* Instances of MiniMark: A and B are arrays with cards, or one of them is *)
(* a large structure, P is prebuilt, n small, w a weakref.                 *)
EXTENDS MiniMark, TLC

CONSTANTS A, B, P, n, w, r1, r2

Two == {r1, r2}
Lengths == [a \in Array |-> IF a = n THEN 0 ELSE 2]
Similar == Permutations(Two) \cup Permutations({A, B} \cap Array)
=============================================================================
