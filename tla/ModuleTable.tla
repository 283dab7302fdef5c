---------------------------- MODULE ModuleTable ----------------------------
(***************************************************************************)
(* What importing promises when every import is one indivisible step away  *)
(* from a table: the code of a module is started by the holder of one      *)
(* lock, only while the table does not have the module, is in the table    *)
(* unfinished exactly as long as it runs, and leaves the table complete or *)
(* not there at all; the lock is given back only when nothing runs.        *)
(* ImportLock implements this.                                             *)
(***************************************************************************)
CONSTANTS Thread, Module, NoOne

VARIABLES
    holder,     \* who may run the code of modules
    running,    \* the pairs <<thread, module>> whose code is being run
    table       \* each module is "absent", "partial" or "loaded"

vars == <<holder, running, table>>

Init ==
    /\ holder = NoOne
    /\ running = {}
    /\ table = [m \in Module |-> "absent"]

Hold(t) ==
    /\ holder = NoOne /\ holder' = t
    /\ UNCHANGED <<running, table>>

LetGo(t) ==
    /\ holder = t /\ running = {}
    /\ holder' = NoOne
    /\ UNCHANGED <<running, table>>

Begin(t, m) ==
    /\ holder = t /\ table[m] = "absent"
    /\ running' = running \cup {<<t, m>>}
    /\ table' = [table EXCEPT ![m] = "partial"]
    /\ UNCHANGED holder

(* The end of the outermost module may be that of the import.              *)
End(t, m, outcome) ==
    /\ holder = t /\ <<t, m>> \in running /\ table[m] = "partial"
    /\ running' = running \ {<<t, m>>}
    /\ table' = [table EXCEPT ![m] = outcome]
    /\ UNCHANGED holder \/ (running' = {} /\ holder' = NoOne)

Next ==
    \E t \in Thread :
        \/ Hold(t) \/ LetGo(t)
        \/ \E m \in Module :
              Begin(t, m) \/ \E outcome \in {"absent", "loaded"} : End(t, m, outcome)

Spec == Init /\ [][Next]_vars
=============================================================================
