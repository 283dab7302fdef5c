----------------------------- MODULE OwedCalls -----------------------------
(***************************************************************************)
(* The calls the interpreter owes to the program it runs: the handler of   *)
(* each signal that arrives, in the main thread, and the __del__ of each   *)
(* object that dies.  A debt is paid by the call and by nothing else:      *)
(* neither nested dispatchers nor exceptions nor switches of threads       *)
(* cancel it, and one debt is one call.  ActionFlag implements this.       *)
(***************************************************************************)
EXTENDS Integers, Sequences

CONSTANTS Thread, Main, Sig, Del

VARIABLES
    raised,    \* signals that have arrived
    aside,     \* at most one, seen by a thread that may not handle it
    dead,      \* objects that wait for their __del__
    calls      \* per thread, what its dispatchers are calling, outermost first

vars == <<raised, aside, dead, calls>>
debts == <<raised, aside, dead>>

Init == /\ raised = {} /\ aside = {} /\ dead = {}
        /\ calls = [t \in Thread |-> <<>>]

Resting == [kind |-> "none"]
Handler(s) == [kind |-> "handler", arg |-> s]
Finalizer(o) == [kind |-> "del", arg |-> o]
TraceFunction == [kind |-> "trace"]

Inner(t) == calls[t][Len(calls[t])]
Rests(t) == calls[t] # <<>> /\ Inner(t) = Resting
InCall(t) == calls[t] # <<>> /\ Inner(t) # Resting

(* The innermost dispatcher of t goes on to call something, or to rest.    *)
Becomes(t, call) == calls' = [calls EXCEPT ![t][Len(calls[t])] = call]

-----------------------------------------------------------------------------
(* Bytecode runs another dispatcher; one ends, perhaps by an exception of  *)
(* a handler or a trace function.  That of a __del__ is dropped.           *)
Enter(t) == /\ ~Rests(t)
            /\ calls' = [calls EXCEPT ![t] = Append(@, Resting)]
            /\ UNCHANGED debts

Leave(t) == /\ calls[t] # <<>> /\ Inner(t).kind # "del"
            /\ calls' = [calls EXCEPT ![t] = SubSeq(@, 1, Len(@) - 1)]
            /\ UNCHANGED debts

Return(t) == InCall(t) /\ Becomes(t, Resting) /\ UNCHANGED debts

Trace(t) == Rests(t) /\ Becomes(t, TraceFunction) /\ UNCHANGED debts

Arrive(s) == raised' = raised \cup {s} /\ UNCHANGED <<aside, dead, calls>>

SetAside(t, s) == /\ t # Main /\ Rests(t)
                  /\ s \in raised /\ aside = {}
                  /\ raised' = raised \ {s} /\ aside' = {s}
                  /\ UNCHANGED <<dead, calls>>

Handle(s) == /\ Rests(Main) /\ Becomes(Main, Handler(s))
             /\ \/ s \in aside /\ aside' = {} /\ UNCHANGED raised
                \/ s \in raised /\ raised' = raised \ {s} /\ UNCHANGED aside
             /\ UNCHANGED dead

Die(o) == o \notin dead /\ dead' = dead \cup {o} /\ UNCHANGED <<raised, aside, calls>>

Finalize(t, o) == /\ Rests(t) /\ Becomes(t, Finalizer(o))
                  /\ o \in dead /\ dead' = dead \ {o}
                  /\ UNCHANGED <<raised, aside>>

Next == \/ \E t \in Thread : Enter(t) \/ Leave(t) \/ Return(t) \/ Trace(t)
        \/ \E s \in Sig : Arrive(s) \/ Handle(s) \/ \E t \in Thread : SetAside(t, s)
        \/ \E o \in Del : Die(o) \/ \E t \in Thread : Finalize(t, o)

Spec == Init /\ [][Next]_vars
=============================================================================
