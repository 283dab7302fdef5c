------------------------------ MODULE ObjTaint ------------------------------
(***************************************************************************)
(* What the taint of an object promises a program: a set of labels held BY *)
(* VALUE, one set per object, with no trace of the dictionaries the        *)
(* interpreter keeps it in.  Every step names the one object whose labels  *)
(* it changes.  TaintFlow implements this specification.                   *)
(***************************************************************************)
EXTENDS FiniteSets

CONSTANTS Obj,       \* identities of wrapped objects
          Bools,     \* the prebuilt w_False and w_True
          Prebuilt,  \* all prebuilt objects (w_None and the bools)
          Label      \* taint labels

VARIABLES live, lab

Init == /\ live = Prebuilt
        /\ lab = [o \in Obj |-> {}]

(* __pypy__.taint.add_taint and clear_taint, on any object of the program. *)
Add(o, l) == /\ lab' = [lab EXCEPT ![o] = @ \cup {l}]
             /\ UNCHANGED live

Clear(o) == /\ lab' = [lab EXCEPT ![o] = {}]
            /\ UNCHANGED live

(* An operation leaves a new set of labels on its result, a union of the   *)
(* labels some live objects had.  Never on a prebuilt boolean.             *)
Result(r, ws) == /\ lab' = [lab EXCEPT ![r] = UNION {lab[w] : w \in ws}]
                 /\ live' = live \cup {r}

(* An object is copied onto itself: its labels are gone.                   *)
SelfCopy(r) == Clear(r)

New(o) == /\ live' = live \cup {o}
          /\ UNCHANGED lab

Drop(o) == /\ live' = live \ {o}
           /\ lab' = [lab EXCEPT ![o] = {}]

Next == \/ \E o \in live, l \in Label : Add(o, l)
        \/ \E o \in live : Clear(o)
        \/ \E r \in Obj \ Bools, ws \in SUBSET live : ws # {} /\ Result(r, ws)
        \/ \E r \in live \ Bools : SelfCopy(r)
        \/ \E o \in Obj \ live : New(o)
        \/ \E o \in live \ Prebuilt : Drop(o)

Spec == Init /\ [][Next]_<<live, lab>>

=============================================================================
