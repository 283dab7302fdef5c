---------------------------- MODULE MCActionFlag ----------------------------
(***************************************************************************)
(* Instances of ActionFlag for TLC.  Signals and dying objects are both    *)
(* numbers, so that an activation's `what` is comparable.                  *)
(***************************************************************************)
EXTENDS ActionFlag

CONSTANTS main, other

Alone == {main}
Both  == {main, other}
Dying == {101}
=============================================================================
