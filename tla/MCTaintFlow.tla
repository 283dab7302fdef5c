----------------------------- MODULE MCTaintFlow -----------------------------
(***************************************************************************)
(* Instances of TaintFlow for TLC.                                         *)
(***************************************************************************)
EXTENDS TaintFlow, TLC

CONSTANTS True, None, a, b

MCObj == {True, None, a, b}
MCPrebuilt == {True, None}

DictSymmetry == Permutations(Dict)
SpaceSymmetry == Permutations(Space) \cup Permutations(Dict)
ThreadSymmetry == SpaceSymmetry \cup Permutations(Thread)
=============================================================================
