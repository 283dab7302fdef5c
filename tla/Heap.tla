-------------------------------- MODULE Heap --------------------------------
(***************************************************************************)
(* What the program is promised of its memory: objects stay where they     *)
(* are, with what was written in them, until they cannot be reached from   *)
(* the roots.  Then they may disappear, any number of them at any time;    *)
(* the weakrefs to an object that disappears are cleared in that instant.  *)
(***************************************************************************)
EXTENDS Integers

CONSTANTS Obj, NoObj, Prebuilt, Array, Weak, Root, length

VARIABLES live, root, slots, weak

vars == <<live, root, slots, weak>>

Field == -1
Slots(o) == IF o \in Array THEN 0..length[o] - 1 ELSE IF o \in Weak THEN {} ELSE {Field}
Cleared(o) == [s \in Slots(o) |-> NoObj]

Targets(o) == {slots[o][s] : s \in Slots(o)} \ {NoObj}
Held == ({root[r] : r \in Root} \ {NoObj}) \cup Prebuilt

(* What is in every set that has the roots and is closed under pointers.   *)
Closed(S) == \A o \in S : Targets(o) \subseteq S
Reachable == {o \in Obj : \A S \in SUBSET Obj : Held \subseteq S /\ Closed(S) => o \in S}

Init ==
    /\ live = Prebuilt
    /\ root = [r \in Root |-> NoObj]
    /\ slots = [o \in Obj |-> Cleared(o)]
    /\ weak = [o \in Weak |-> NoObj]

New(o, r) ==
    /\ o \notin live
    /\ live' = live \cup {o}
    /\ root' = [root EXCEPT ![r] = o]
    /\ UNCHANGED slots
    /\ IF o \in Weak THEN \E v \in Held : weak' = [weak EXCEPT ![o] = v]
       ELSE UNCHANGED weak

Set(r, v) == root' = [root EXCEPT ![r] = v] /\ UNCHANGED <<live, slots, weak>>

Get(r, o) == \/ \E s \in Slots(o) : Set(r, slots[o][s])
             \/ o \in Weak /\ Set(r, weak[o])

Put(o, s, v) ==
    /\ slots' = [slots EXCEPT ![o][s] = v]
    /\ UNCHANGED <<live, root, weak>>

Copy(a, b, i, j, n) ==
    /\ i + n <= length[a] /\ j + n <= length[b]
    /\ slots' = [slots EXCEPT ![b] = [s \in Slots(b) |->
                    IF s \in j..j + n - 1 THEN slots[a][s - j + i] ELSE @[s]]]
    /\ UNCHANGED <<live, root, weak>>

Disappear(dead) ==
    /\ live' = live \ dead
    /\ slots' = [o \in Obj |-> IF o \in dead THEN Cleared(o) ELSE slots[o]]
    /\ weak' = [o \in Weak |-> IF o \in dead \/ weak[o] \in dead THEN NoObj ELSE weak[o]]
    /\ UNCHANGED root

Next ==
    \/ \E r \in Root : Set(r, NoObj) \/ \E o \in Obj : New(o, r)
    \/ \E o \in Held :
        \/ \E r \in Root : Get(r, o)
        \/ \E s \in Slots(o), v \in Held \cup {NoObj} : Put(o, s, v)
    \/ \E a, b \in Held \cap Array : \E i \in Slots(a), j \in Slots(b), n \in 1..length[b] :
           Copy(a, b, i, j, n)
    \/ \E dead \in SUBSET (live \ Reachable) : Disappear(dead)

Spec == Init /\ [][Next]_vars
=============================================================================
