----------------------------- MODULE ThreadLife -----------------------------
(***************************************************************************)
(* What a program may rely on when it starts threads: each runs what it    *)
(* was started for, once; and a thread._local object has for each thread a *)
(* dictionary of the thread's own, which the thread makes and initialises, *)
(* which is the same one as long as the thread lives, and which ends with  *)
(* it.  Nothing another thread does makes a difference, and no identifier, *)
(* lock or cache is in sight.  ThreadStart implements this.                *)
(***************************************************************************)
CONSTANTS Thread, Main, Local, Number

VARIABLES
    life,   \* where each thread is in its life
    data    \* the dictionary each object has for each thread

vars == <<life, data>>

Lives == {"none", "asked", "running", "ended", "lost"}

Absent == [is |-> "absent"]
Raw(n) == [is |-> "raw", dict |-> n]
Ready(n) == [is |-> "ready", dict |-> n]

Init ==
    /\ life = [t \in Thread |-> IF t = Main THEN "running" ELSE "none"]
    /\ data = [l \in Local |-> [t \in Thread |-> Absent]]

Running(t) == life[t] = "running"

Becomes(t, stage) == life' = [life EXCEPT ![t] = stage]

Ask(t, u) == /\ Running(t) /\ life[u] = "none"
             /\ Becomes(u, "asked") /\ UNCHANGED data

Refuse(u) == life[u] = "asked" /\ Becomes(u, "none") /\ UNCHANGED data

Begin(u) == life[u] = "asked" /\ Becomes(u, "running") /\ UNCHANGED data

(* A thread ends outside of every __init__, with all it has.               *)
End(t) ==
    /\ Running(t) /\ t # Main
    /\ \A l \in Local : data[l][t].is # "raw"
    /\ Becomes(t, "ended")
    /\ data' = [l \in Local |-> [data[l] EXCEPT ![t] = Absent]]

Has(t, l, d) == data' = [data EXCEPT ![l][t] = d] /\ UNCHANGED life

Make(t, l) == /\ Running(t) /\ data[l][t] = Absent
              /\ \E n \in Number : Has(t, l, Raw(n))

Initialise(t, l) == /\ Running(t)
                    /\ \E n \in Number : data[l][t] = Raw(n) /\ Has(t, l, Ready(n))

Fail(t, l) == Running(t) /\ data[l][t].is = "raw" /\ Has(t, l, Absent)

(* The child has the thread that forked, and may ask again for one that    *)
(* had not been made yet.                                                  *)
Fork(t) ==
    /\ Running(t) /\ life' \in [Thread -> Lives]
    /\ \A u \in Thread \ {t} :
          \/ life[u] \in {"asked", "running"} /\ life'[u] = "lost"
          \/ life[u] = "asked" /\ life'[u] = "none"
          \/ life[u] \in {"none", "ended", "lost"} /\ life'[u] = life[u]
    /\ life'[t] = "running"
    /\ UNCHANGED data

Next ==
    \E t \in Thread :
        \/ \E u \in Thread : Ask(t, u)
        \/ Refuse(t) \/ Begin(t) \/ End(t) \/ Fork(t)
        \/ \E l \in Local : Make(t, l) \/ Initialise(t, l) \/ Fail(t, l)

Spec == Init /\ [][Next]_vars
=============================================================================
