----------------------------- MODULE GlobalLock -----------------------------
(***************************************************************************)
(* What the GIL promises: at most one thread is inside, only a thread that *)
(* asked gets in, and a thread gives it up for others only if there are    *)
(* some, and remains one of those who get it again.  Gil implements this.  *)
(***************************************************************************)
CONSTANTS Thread, Main

VARIABLES
    inside,     \* the threads that may touch the interpreter's state
    wanting     \* those that want to, and wait

vars == <<inside, wanting>>

Init == inside = {Main} /\ wanting = {}

Ask(t) == /\ t \notin inside \cup wanting
          /\ wanting' = wanting \cup {t} /\ UNCHANGED inside

Take(t) == /\ inside = {} /\ t \in wanting
           /\ inside' = {t} /\ wanting' = wanting \ {t}

Leave(t) == /\ t \in inside
            /\ inside' = inside \ {t} /\ UNCHANGED wanting

(* Nobody yields to nobody.                                                *)
Yield(t) == /\ t \in inside /\ wanting # {}
            /\ inside' = inside \ {t} /\ wanting' = wanting \cup {t}

(* The one thread of a process makes a new lock, and asks for it first.    *)
Anew(t) == t \in inside /\ inside' = {} /\ wanting' = {t}

Next == \E t \in Thread : Ask(t) \/ Take(t) \/ Leave(t) \/ Yield(t) \/ Anew(t)

Spec == Init /\ [][Next]_vars
=============================================================================
