--------------------------------- MODULE Gil ---------------------------------
(***************************************************************************)
(* The global interpreter lock: a mutex, a condition variable and a count  *)
(* of the threads that want the mutex.  One step per operation on shared   *)
(* memory, so that releases, acquisitions and yields interleave as they do *)
(* on several processors.                                                  *)
(*                                                                         *)
(* pc[t] is the operation thread t executes next:                          *)
(*   "unborn"   not started            "gone"   has left                   *)
(*   "outside"  in an external call, without the GIL                       *)
(*   "acquire", "lock", "acquired"     RPyGilAcquire                       *)
(*   "run"      executes bytecode                                          *)
(*   "unlock", "signal"                RPyGilRelease                       *)
(*   "count", "wake", "sleep", "wait", "relock", "back"  RPyGilYieldThread *)
(***************************************************************************)
EXTENDS Integers, FiniteSets

CONSTANTS Thread, Main,
          Spurious    \* pthread_cond_wait may return without a signal

ASSUME GilConstants ==
    /\ Main \in Thread
    /\ IsFiniteSet(Thread)
    /\ Spurious \in BOOLEAN

NoOne == "no one"
ASSUME NoOneIsNoThread == NoOne \notin Thread

VARIABLES
    pc,
    owner,      \* of mutex_gil
    pending,    \* pending_acquires, -1 before RPyGilAllocate
    after       \* where the thread goes after RPyGilRelease

vars == <<pc, owner, pending, after>>

Init == /\ pc = [t \in Thread |-> IF t = Main THEN "run" ELSE "unborn"]
        /\ owner = NoOne
        /\ pending = -1
        /\ after = [t \in Thread |-> "outside"]

Step(t, from, to) == pc[t] = from /\ pc' = [pc EXCEPT ![t] = to]

(* t takes the free mutex.                                                 *)
LockMutex(t) == owner = NoOne /\ owner' = t

-----------------------------------------------------------------------------
(* Defect: the thread that allocates the GIL does not acquire it.          *)
allocate_Unlocked(t) ==
    /\ pending = -1 /\ pc[t] = "run"
    /\ pending' = 0
    /\ UNCHANGED <<pc, owner, after>>

(* RPyGilAllocate, before any other thread exists; it ends by acquiring.   *)
allocate(t) ==
    /\ pending = -1
    /\ Step(t, "run", "acquire")
    /\ pending' = 0
    /\ UNCHANGED <<owner, after>>

(* A new thread enters the interpreter as a callback from C: it acquires.  *)
start(t, u) ==
    /\ pc[t] = "run" /\ pending >= 0
    /\ Step(u, "unborn", "acquire")
    /\ UNCHANGED <<owner, pending, after>>

(* RPyGilAcquire                                                           *)
acquire_count(t) ==
    /\ Step(t, "acquire", "lock")
    /\ pending' = pending + 1
    /\ UNCHANGED <<owner, after>>

acquire_lock(t) ==
    /\ Step(t, "lock", "acquired")
    /\ LockMutex(t)
    /\ UNCHANGED <<pending, after>>

acquire_done(t) ==
    /\ Step(t, "acquired", "run")
    /\ pending' = pending - 1
    /\ UNCHANGED <<owner, after>>

(* Defect: where the thread is, not where it goes, is remembered.          *)
release_Stale(t, next) ==
    /\ pending >= 0
    /\ Step(t, "run", "unlock")
    /\ after' = [after EXCEPT ![t] = pc[t]]
    /\ UNCHANGED <<owner, pending>>

(* RPyGilRelease: before an external call, or when a thread ends (the end  *)
(* of the main thread is the end of the process, and not modelled).        *)
release(t, next) ==
    /\ pending >= 0
    /\ next = "gone" => t # Main
    /\ Step(t, "run", "unlock")
    /\ after' = [after EXCEPT ![t] = next]
    /\ UNCHANGED <<owner, pending>>

release_unlock(t) ==
    /\ Step(t, "unlock", "signal")
    /\ owner' = NoOne
    /\ UNCHANGED <<pending, after>>

(* pthread_cond_signal wakes one of the waiting threads, if there is one.  *)
Signal(t, from, to) ==
    /\ pc[t] = from
    /\ \/ /\ \A u \in Thread : pc[u] # "wait"
          /\ pc' = [pc EXCEPT ![t] = to]
       \/ \E u \in Thread : /\ pc[u] = "wait"
                            /\ pc' = [pc EXCEPT ![t] = to, ![u] = "relock"]

(* Defect: no signal after the unlock.                                     *)
release_signal_Silent(t) ==
    /\ Step(t, "signal", after[t])
    /\ UNCHANGED <<owner, pending, after>>

release_signal(t) ==
    /\ Signal(t, "signal", after[t])
    /\ UNCHANGED <<owner, pending, after>>

return_from_call(t) ==
    /\ Step(t, "outside", "acquire")
    /\ UNCHANGED <<owner, pending, after>>

(* Defect: the one thread that wants the GIL is overlooked.                *)
yield_test_OffByOne(t) ==
    /\ Step(t, "run", IF pending <= 1 THEN "run" ELSE "count")
    /\ UNCHANGED <<owner, pending, after>>

(* RPyGilYieldThread, from GILReleaseAction.perform.                       *)
yield_test(t) ==
    /\ Step(t, "run", IF pending <= 0 THEN "run" ELSE "count")
    /\ UNCHANGED <<owner, pending, after>>

yield_count(t) ==
    /\ Step(t, "count", "wake")
    /\ pending' = pending + 1
    /\ UNCHANGED <<owner, after>>

(* Defect: the yielding thread waits without a signal to the others.       *)
yield_wake_Silent(t) ==
    /\ Step(t, "wake", "sleep")
    /\ UNCHANGED <<owner, pending, after>>

(* Signal, and then wait: the wait releases the mutex in the same step.    *)
yield_wake(t) ==
    /\ Signal(t, "wake", "sleep")
    /\ UNCHANGED <<owner, pending, after>>

yield_sleep(t) ==
    /\ Step(t, "sleep", "wait")
    /\ owner' = NoOne
    /\ UNCHANGED <<pending, after>>

wake_up_spuriously(t) ==
    /\ Spurious
    /\ Step(t, "wait", "relock")
    /\ UNCHANGED <<owner, pending, after>>

yield_relock(t) ==
    /\ Step(t, "relock", "back")
    /\ LockMutex(t)
    /\ UNCHANGED <<pending, after>>

yield_done(t) ==
    /\ Step(t, "back", "run")
    /\ pending' = pending - 1
    /\ UNCHANGED <<owner, after>>

(* fork, and reinit_threads in the child, which the behaviour follows from *)
(* here on: of the process's threads it has only the one that forked, and  *)
(* RPyGilAllocate gives it a GIL that nobody holds or wants, to acquire.   *)
fork(t) ==
    /\ pc[t] = "run" /\ pending >= 0
    /\ pc' = [u \in Thread |-> IF u = t THEN "acquire"
                               ELSE IF pc[u] = "unborn" THEN "unborn" ELSE "gone"]
    /\ owner' = NoOne
    /\ pending' = 0
    /\ UNCHANGED after

(* The last thread has ended, and the process with it.                     *)
exited == (\A t \in Thread : pc[t] \in {"unborn", "gone"}) /\ UNCHANGED vars

-----------------------------------------------------------------------------
Acquire(t) == acquire_count(t) \/ acquire_lock(t) \/ acquire_done(t)
Release(t) == release_unlock(t) \/ release_signal(t)
Yield(t)   == \/ yield_count(t) \/ yield_wake(t) \/ yield_sleep(t)
              \/ yield_relock(t) \/ yield_done(t)

ThreadStep(t) ==
    \/ allocate(t) \/ \E u \in Thread : start(t, u)
    \/ Acquire(t) \/ Release(t) \/ Yield(t) \/ yield_test(t)
    \/ \E next \in {"outside", "gone"} : release(t, next)
    \/ return_from_call(t) \/ wake_up_spuriously(t) \/ fork(t)

Next == exited \/ \E t \in Thread : ThreadStep(t)

Spec == Init /\ [][Next]_vars

(* The C functions run to their end; a mutex is not refused for ever to a  *)
(* thread that wants it; the thread that runs yields now and then.         *)
Fairness == \A t \in Thread :
    /\ SF_vars(acquire_lock(t)) /\ SF_vars(yield_relock(t))
    /\ WF_vars(acquire_count(t) \/ acquire_done(t))
    /\ WF_vars(Release(t))
    /\ WF_vars(yield_count(t) \/ yield_wake(t) \/ yield_sleep(t) \/ yield_done(t))
    /\ SF_vars(yield_test(t) /\ pending > 0)

FairSpec == Spec /\ Fairness

-----------------------------------------------------------------------------
PC == {"unborn", "gone", "outside", "acquire", "lock", "acquired", "run", "unlock",
       "signal", "count", "wake", "sleep", "wait", "relock", "back"}

TypeOK ==
    /\ pc \in [Thread -> PC]
    /\ owner \in Thread \cup {NoOne}
    /\ pending \in Int
    /\ after \in [Thread -> {"outside", "gone"}]

(* Where a thread may touch the interpreter's state, or holds the mutex.   *)
Inside(t) == pc[t] \in {"acquired", "run", "unlock", "count", "wake", "sleep", "back"}

(* assert_has_the_gil: whoever is inside owns the mutex, so no two threads *)
(* ever execute bytecode at once, once the GIL is allocated.               *)
MutualExclusion ==
    /\ pending >= 0 => \A t \in Thread : Inside(t) => owner = t
    /\ \A t, u \in Thread : pc[t] = "run" /\ pc[u] = "run" => t = u

(* The four functions implement a lock: a thread gets in only when nobody  *)
(* is inside, and one that yields in RPyGilYieldThread does so for another *)
(* that wants the GIL at that moment, and goes on wanting it.              *)
Lock == INSTANCE GlobalLock WITH
    inside  <- {t \in Thread : Inside(t)},
    wanting <- {t \in Thread : pc[t] \in {"acquire", "lock", "wait", "relock"}}

GilAsLock == Lock!Spec

(* pending_acquires counts the threads between their two atomic_adds: the  *)
(* yielding thread's test is never misled for longer than one operation.   *)
Wanting == {t \in Thread : pc[t] \in {"lock", "acquired", "wake", "sleep", "wait", "relock", "back"}}

PendingExact == pending >= 0 => pending = Cardinality(Wanting)

(* No lost wakeup: while threads sleep on the condition variable, the      *)
(* mutex is owned, a thread is about to take it, or one is about to signal.*)
Waiting == {t \in Thread : pc[t] = "wait"}

NoLostWakeup == Waiting # {} =>
    \/ owner # NoOne
    \/ \E t \in Thread : pc[t] \in {"lock", "relock", "signal"}

(* Whoever wants the GIL gets it, and a thread that yields comes back,     *)
(* unless the process is from then on a child that does not have them.     *)
AcquireReturns == \A t \in Thread : pc[t] = "acquire" ~> pc[t] \in {"run", "gone"}

YieldReturns == \A t \in Thread : pc[t] = "wait" ~> pc[t] \in {"run", "gone"}
=============================================================================
