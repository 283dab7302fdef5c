----------------------------- MODULE GilProofs -----------------------------
(***************************************************************************)
(* Mutual exclusion and the exactness of pending_acquires, for every       *)
(* finite set of threads, with or without spurious wakeups.                *)
(***************************************************************************)
EXTENDS Gil, FiniteSetTheorems, TLAPS

(* Before RPyGilAllocate the main thread is alone and runs.                *)
NotAllocated ==
    pending < 0 => /\ pending = -1
                   /\ owner = NoOne
                   /\ \A t \in Thread : pc[t] = IF t = Main THEN "run" ELSE "unborn"

OwnerInside == pending >= 0 => \A t \in Thread : Inside(t) => owner = t

Inv == TypeOK /\ NotAllocated /\ OwnerInside

(* The main thread is alone when the program starts.                       *)
LEMMA InitInv == Init => Inv
BY GilConstants DEF Init, Inv, TypeOK, PC, NotAllocated, OwnerInside

(* Owners are inside and insiders are owners: two cannot be one.           *)
LEMMA InvMutualExclusion == Inv => MutualExclusion
BY GilConstants, NoOneIsNoThread DEF Inv, NotAllocated, OwnerInside, MutualExclusion, Inside, TypeOK

(* The threads that want the GIL can be counted.                           *)
LEMMA WantingFinite == IsFiniteSet(Wanting) /\ Cardinality(Wanting) \in Nat
BY GilConstants, FS_Subset, FS_CardinalityType DEF Wanting

(* The first atomic_add counts a thread that was not counted ...           *)
LEMMA WantingEnter ==
    ASSUME NEW t \in Thread, t \notin Wanting, Wanting' = Wanting \cup {t}
    PROVE  Cardinality(Wanting') = Cardinality(Wanting) + 1
BY WantingFinite, FS_AddElement

(* ... and the second one a thread that was.                               *)
LEMMA WantingLeave ==
    ASSUME NEW t \in Thread, t \in Wanting, Wanting' = Wanting \ {t}
    PROVE  Cardinality(Wanting') = Cardinality(Wanting) - 1
BY WantingFinite, FS_RemoveElement

(* The count and the set of threads it counts move together.               *)
LEMMA CountStep ==
    ASSUME Inv, PendingExact, [Next]_vars
    PROVE  PendingExact'
<1> USE DEF Inv
<1>1. pending \in Int /\ Cardinality(Wanting) \in Nat
  BY WantingFinite DEF TypeOK
<1>2. ASSUME pending' = pending, Wanting' = Wanting
      PROVE  PendingExact'
  BY <1>2 DEF PendingExact
<1>3. CASE UNCHANGED vars
  BY <1>2, <1>3 DEF vars, Wanting
<1>4. ASSUME NEW t \in Thread, acquire_count(t) \/ yield_count(t), pending >= 0
      PROVE  PendingExact'
  <2>1. t \notin Wanting /\ Wanting' = Wanting \cup {t}
    BY <1>4 DEF acquire_count, yield_count, Step, Wanting, TypeOK
  <2> QED
    BY <1>1, <1>4, <2>1, WantingEnter DEF acquire_count, yield_count, PendingExact
<1>5. ASSUME NEW t \in Thread, acquire_done(t) \/ yield_done(t), pending >= 0
      PROVE  PendingExact'
  <2>1. t \in Wanting /\ Wanting' = Wanting \ {t}
    BY <1>5 DEF acquire_done, yield_done, Step, Wanting, TypeOK
  <2> QED
    BY <1>1, <1>5, <2>1, WantingLeave DEF acquire_done, yield_done, PendingExact
<1>6. ASSUME NEW t \in Thread, allocate(t)
      PROVE  PendingExact'
  <2>1. pending = -1
    BY <1>6 DEF allocate
  <2>2. Wanting' = {}
    BY <1>6, <2>1, GilConstants DEF allocate, Step, NotAllocated, Wanting, TypeOK
  <2> QED
    BY <1>6, <2>2, FS_EmptySet DEF allocate, PendingExact
<1>7. ASSUME NEW t \in Thread, acquire_count(t) \/ yield_count(t) \/ acquire_done(t) \/ yield_done(t)
      PROVE  pending >= 0
  BY <1>7, GilConstants DEF acquire_count, yield_count, acquire_done, yield_done, Step, NotAllocated, TypeOK
<1>8. ASSUME NEW t \in Thread, acquire_lock(t) \/ release_unlock(t) \/ release_signal(t)
                \/ yield_wake(t) \/ yield_sleep(t) \/ yield_relock(t) \/ yield_test(t)
                \/ return_from_call(t) \/ wake_up_spuriously(t)
      PROVE  pending' = pending /\ Wanting' = Wanting
  BY <1>8 DEF acquire_lock, release_unlock, release_signal, yield_wake, yield_sleep, yield_relock,
     yield_test, return_from_call, wake_up_spuriously, Signal, Step, Wanting, TypeOK, PC
<1>9. ASSUME NEW t \in Thread, NEW u \in Thread, start(t, u)
      PROVE  pending' = pending /\ Wanting' = Wanting
  BY <1>9 DEF start, Step, Wanting, TypeOK, PC
<1>10. ASSUME NEW t \in Thread, NEW next \in {"outside", "gone"}, release(t, next)
       PROVE  pending' = pending /\ Wanting' = Wanting
  BY <1>10 DEF release, Step, Wanting, TypeOK, PC
<1>11. ASSUME NEW t \in Thread, fork(t)
       PROVE  PendingExact'
  <2>1. Wanting' = {} /\ pending' = 0
    BY <1>11 DEF fork, Wanting, TypeOK
  <2> QED
    BY <2>1, FS_EmptySet DEF PendingExact
<1>12. QED
  BY <1>2, <1>3, <1>4, <1>5, <1>6, <1>7, <1>8, <1>9, <1>10, <1>11 DEF Next, ThreadStep, exited, Acquire, Release, Yield

(* Types, the unallocated phase and ownership, action by action.           *)
LEMMA NextInv ==
    ASSUME Inv, PendingExact, [Next]_vars
    PROVE  Inv'
<1> USE GilConstants, NoOneIsNoThread DEF Inv, PC
<1>1. pending >= 0 => pending = Cardinality(Wanting) /\ Cardinality(Wanting) \in Nat
  BY WantingFinite DEF PendingExact
<1>2. ASSUME NEW t \in Thread, pc[t] \in {"acquired", "back"}
      PROVE  pending >= 1
  <2>1. t \in Wanting
    BY <1>2 DEF Wanting
  <2>2. Cardinality(Wanting) # 0
    BY <2>1, WantingFinite, FS_EmptySet
  <2>3. pending >= 0
    BY <1>2 DEF NotAllocated, TypeOK
  <2> QED
    BY <1>1, <2>2, <2>3
<1>3. TypeOK'
  <2>1. CASE UNCHANGED vars
    BY <2>1 DEF vars, TypeOK
  <2>2. ASSUME NEW t \in Thread, allocate(t) \/ \E u \in Thread : start(t, u)
        PROVE  TypeOK'
    BY <2>2 DEF allocate, start, Step, TypeOK
  <2>3. ASSUME NEW t \in Thread, acquire_count(t) \/ acquire_done(t) PROVE TypeOK'
    BY <2>3 DEF acquire_count, acquire_done, Step, TypeOK
  <2>4. ASSUME NEW t \in Thread, Release(t) PROVE TypeOK'
    BY <2>4 DEF Release, release_unlock, release_signal, Signal, Step, TypeOK
  <2>5. ASSUME NEW t \in Thread, yield_count(t) \/ yield_done(t) PROVE TypeOK'
    BY <2>5 DEF yield_count, yield_done, Step, TypeOK
  <2>7. ASSUME NEW t \in Thread, yield_wake(t) PROVE TypeOK'
    BY <2>7 DEF yield_wake, Signal, TypeOK
  <2>8. ASSUME NEW t \in Thread, yield_sleep(t) PROVE TypeOK'
    BY <2>8 DEF yield_sleep, Step, TypeOK
  <2>9. ASSUME NEW t \in Thread, acquire_lock(t) \/ yield_relock(t) PROVE TypeOK'
    <3>1. /\ pc' \in [Thread -> PC]
          /\ owner' = t /\ pending' = pending /\ after' = after
      BY <2>9 DEF acquire_lock, yield_relock, LockMutex, Step, TypeOK
    <3> QED
      BY <3>1 DEF TypeOK
  <2>6. ASSUME NEW t \in Thread,
               \/ yield_test(t) \/ return_from_call(t) \/ wake_up_spuriously(t)
               \/ \E next \in {"outside", "gone"} : release(t, next)
        PROVE  TypeOK'
    BY <2>6 DEF yield_test, return_from_call, wake_up_spuriously, release, Step, TypeOK
  <2>10. ASSUME NEW t \in Thread, fork(t) PROVE TypeOK'
    BY <2>10 DEF fork, TypeOK
  <2> QED
    BY <2>1, <2>2, <2>3, <2>4, <2>5, <2>6, <2>7, <2>8, <2>9, <2>10 DEF Next, ThreadStep, exited, Acquire, Yield
<1>4. (NotAllocated /\ OwnerInside)'
  <2>1. CASE UNCHANGED vars
    BY <2>1 DEF vars, NotAllocated, OwnerInside, Inside
  <2>2. ASSUME NEW t \in Thread, allocate(t)
        PROVE  (NotAllocated /\ OwnerInside)'
    BY <2>2 DEF allocate, Step, NotAllocated, OwnerInside, Inside, TypeOK
  <2>3. ASSUME NEW t \in Thread, NEW u \in Thread, start(t, u)
        PROVE  (NotAllocated /\ OwnerInside)'
    BY <2>3 DEF start, Step, NotAllocated, OwnerInside, Inside, TypeOK
  <2>4. ASSUME NEW t \in Thread, yield_test(t)
        PROVE  (NotAllocated /\ OwnerInside)'
    BY <2>4 DEF yield_test, Step, NotAllocated, OwnerInside, Inside, TypeOK
  <2>5. ASSUME NEW t \in Thread, acquire_count(t)
        PROVE  (NotAllocated /\ OwnerInside)'
    BY <2>5 DEF acquire_count, Step, NotAllocated, OwnerInside, Inside, TypeOK
  <2>6. ASSUME NEW t \in Thread, acquire_lock(t) \/ yield_relock(t)
        PROVE  (NotAllocated /\ OwnerInside)'
    <3>1. pending >= 0 /\ pending' = pending /\ owner = NoOne /\ owner' = t
      BY <2>6 DEF acquire_lock, yield_relock, LockMutex, Step, NotAllocated, TypeOK
    <3>2. \A u \in Thread : ~Inside(u)
      BY <3>1 DEF OwnerInside
    <3>3. \A u \in Thread \ {t} : pc'[u] = pc[u]
      BY <2>6 DEF acquire_lock, yield_relock, Step, TypeOK
    <3> QED
      BY <3>1, <3>2, <3>3 DEF NotAllocated, OwnerInside, Inside
  <2>7. ASSUME NEW t \in Thread, acquire_done(t) \/ yield_done(t)
        PROVE  (NotAllocated /\ OwnerInside)'
    <3>1. pending >= 1 /\ pending' = pending - 1 /\ owner' = owner /\ Inside(t)
      BY <1>2, <2>7 DEF acquire_done, yield_done, Step, Inside
    <3>2. \A u \in Thread : pc'[u] = IF u = t THEN "run" ELSE pc[u]
      BY <2>7 DEF acquire_done, yield_done, Step, TypeOK
    <3>3. pending' >= 0
      BY <3>1 DEF TypeOK
    <3> QED
      BY <3>1, <3>2, <3>3 DEF NotAllocated, OwnerInside, Inside, TypeOK
  <2>8. ASSUME NEW t \in Thread, \E next \in {"outside", "gone"} : release(t, next)
        PROVE  (NotAllocated /\ OwnerInside)'
    BY <2>8 DEF release, Step, NotAllocated, OwnerInside, Inside, TypeOK
  <2>9. ASSUME NEW t \in Thread, release_unlock(t) \/ yield_sleep(t)
        PROVE  (NotAllocated /\ OwnerInside)'
    <3>1. pending >= 0 /\ pending' = pending /\ Inside(t)
      BY <2>9 DEF release_unlock, yield_sleep, Step, NotAllocated, Inside, TypeOK
    <3>2. \A u \in Thread \ {t} : ~Inside(u) /\ pc'[u] = pc[u]
      BY <2>9, <3>1 DEF release_unlock, yield_sleep, Step, OwnerInside, TypeOK
    <3>3. pc'[t] \in {"signal", "wait"}
      BY <2>9 DEF release_unlock, yield_sleep, Step, TypeOK
    <3> QED
      BY <3>1, <3>2, <3>3 DEF NotAllocated, OwnerInside, Inside
  <2>10. ASSUME NEW t \in Thread, NEW from, NEW to, Signal(t, from, to),
                \/ from = "wake" /\ to = "sleep"
                \/ from = "signal" /\ to \in {"outside", "gone"},
                UNCHANGED <<owner, pending>>
         PROVE  (NotAllocated /\ OwnerInside)'
    <3>1. pending >= 0 /\ pending' = pending /\ owner' = owner
      BY <2>10 DEF Signal, NotAllocated, TypeOK
    <3>2. \A u \in Thread : Inside(u)' => Inside(u)
      BY <2>10 DEF Signal, Inside, TypeOK
    <3> QED
      BY <3>1, <3>2 DEF NotAllocated, OwnerInside
  <2>11. ASSUME NEW t \in Thread, release_signal(t) \/ yield_wake(t)
         PROVE  (NotAllocated /\ OwnerInside)'
    BY <2>10, <2>11 DEF release_signal, yield_wake, TypeOK
  <2>12. ASSUME NEW t \in Thread, return_from_call(t) \/ wake_up_spuriously(t)
         PROVE  (NotAllocated /\ OwnerInside)'
    BY <2>12 DEF return_from_call, wake_up_spuriously, Step, NotAllocated, OwnerInside, Inside, TypeOK
  <2>13. ASSUME NEW t \in Thread, yield_count(t)
         PROVE  (NotAllocated /\ OwnerInside)'
    BY <2>13 DEF yield_count, Step, NotAllocated, OwnerInside, Inside, TypeOK
  <2>14. ASSUME NEW t \in Thread, fork(t) PROVE (NotAllocated /\ OwnerInside)'
    BY <2>14 DEF fork, NotAllocated, OwnerInside, Inside, TypeOK
  <2> QED
    BY <2>1, <2>2, <2>3, <2>4, <2>5, <2>6, <2>7, <2>8, <2>9, <2>11, <2>12, <2>13, <2>14
    DEF Next, ThreadStep, exited, Acquire, Release, Yield
<1>5. QED
  BY <1>3, <1>4

(* Nothing is counted before RPyGilAllocate.                               *)
LEMMA InitExact == Init => PendingExact
BY DEF Init, PendingExact

(* The invariant and the exact count hold in every behaviour.              *)
LEMMA Invariance == Spec => [](Inv /\ PendingExact)
<1>1. Inv /\ PendingExact /\ [Next]_vars => (Inv /\ PendingExact)'
  BY NextInv, CountStep
<1>2. QED
  BY <1>1, InitInv, InitExact, PTL DEF Spec

(* Each variable of the lock has its type in every behaviour.              *)
THEOREM TypeCorrect == Spec => []TypeOK
BY Invariance, PTL DEF Inv

(* No two threads execute bytecode at once, whoever is inside owns the     *)
(* mutex: for every finite set of threads.                                 *)
THEOREM GilExcludes == Spec => []MutualExclusion
BY Invariance, InvMutualExclusion, PTL

(* pending_acquires is the number of threads that want the GIL.            *)
THEOREM PendingCounts == Spec => []PendingExact
BY Invariance, PTL

-----------------------------------------------------------------------------
(***************************************************************************)
(* No lost wakeup.  A thread yields only if another one wants the mutex,   *)
(* and while it still owns the mutex that other one cannot have had it.    *)
(***************************************************************************)
YieldWanted == \A t \in Thread :
    /\ pc[t] \in {"count", "wake"} => \E u \in Thread : pc[u] \in {"lock", "wait", "relock"}
    /\ pc[t] = "sleep" => \E u \in Thread : pc[u] \in {"lock", "relock"}

(* A thread that decides to yield has seen the count of another one.       *)
LEMMA YieldFindsOther ==
    ASSUME Inv, PendingExact, NEW t \in Thread, yield_test(t), pc'[t] = "count"
    PROVE  \E u \in Thread : pc[u] \in {"lock", "wait", "relock"}
<1>1. pending > 0 /\ pc[t] = "run"
  BY GilConstants DEF Inv, TypeOK, yield_test, Step
<1>2. PICK u \in Thread : u \in Wanting
  <2>1. Cardinality(Wanting) # 0
    BY <1>1, WantingFinite DEF Inv, TypeOK, PendingExact
  <2>2. Wanting # {}
    BY <2>1, FS_EmptySet
  <2> QED
    BY <2>2 DEF Wanting
<1>3. u # t /\ owner = t
  BY <1>1, <1>2 DEF Wanting, Inv, OwnerInside, Inside, TypeOK
<1>4. ~Inside(u)
  BY <1>1, <1>3 DEF Inv, OwnerInside, TypeOK
<1> QED
  BY <1>2, <1>4 DEF Wanting, Inside

(* That other one is still waiting for the mutex when the thread sleeps.   *)
LEMMA NextYieldWanted ==
    ASSUME Inv, PendingExact, YieldWanted, [Next]_vars
    PROVE  YieldWanted'
<1> USE NoOneIsNoThread DEF Inv
<1> DEFINE Yielding(t) == pc[t] \in {"count", "wake", "sleep"}
           Sought(u) == pc[u] \in {"lock", "wait", "relock"}
           Awake(u) == pc[u] \in {"lock", "relock"}
<1>1. ASSUME \A t \in Thread : Yielding(t)' => pc'[t] = pc[t],
             \A u \in Thread : Sought(u) => Sought(u)',
             \A u \in Thread : Awake(u) => Awake(u)'
      PROVE  YieldWanted'
  BY <1>1 DEF YieldWanted
<1>2. ASSUME NEW t \in Thread, Yielding(t) PROVE owner = t /\ owner # NoOne
  BY <1>2 DEF NotAllocated, OwnerInside, Inside, TypeOK
<1>3. CASE UNCHANGED vars
  BY <1>1, <1>3 DEF vars
<1>4. ASSUME NEW t \in Thread, acquire_lock(t) \/ yield_relock(t)
      PROVE  YieldWanted'
  <2>1. \A u \in Thread : ~Yielding(u)
    BY <1>2, <1>4 DEF acquire_lock, yield_relock, LockMutex
  <2>2. \A u \in Thread : ~Yielding(u)'
    BY <1>4, <2>1 DEF acquire_lock, yield_relock, Step, TypeOK
  <2> QED
    BY <2>2 DEF YieldWanted
<1>5. ASSUME NEW t \in Thread,
             \/ allocate(t) \/ acquire_count(t) \/ acquire_done(t) \/ release_unlock(t)
             \/ return_from_call(t) \/ wake_up_spuriously(t) \/ yield_sleep(t) \/ yield_done(t)
             \/ (\E u \in Thread : start(t, u)) \/ (\E next \in {"outside", "gone"} : release(t, next))
      PROVE  YieldWanted'
  <2>1. \E u \in Thread, from \in {"run", "acquire", "acquired", "unlock", "outside", "wait", "sleep",
                                   "back", "unborn"},
           to \in {"acquire", "lock", "run", "signal", "relock", "wait", "unlock"} :
           Step(u, from, to) /\ (from = "wait" => to = "relock")
    BY <1>5 DEF allocate, acquire_count, acquire_done, release_unlock, return_from_call,
       wake_up_spuriously, yield_sleep, yield_done, start, release
  <2> QED
    BY <1>1, <2>1 DEF Step, TypeOK
<1>6. ASSUME NEW t \in Thread, yield_test(t)
      PROVE  YieldWanted'
  <2>1. CASE pc' = pc
    BY <1>1, <2>1
  <2>2. CASE pc' = [pc EXCEPT ![t] = "count"] /\ pc[t] = "run"
    <3>1. PICK u \in Thread : Sought(u)
      BY <1>6, <2>2, YieldFindsOther DEF TypeOK
    <3>2. Sought(u)' /\ \A v \in Thread : Awake(v) => Awake(v)'
      BY <2>2, <3>1 DEF TypeOK
    <3> QED
      BY <2>2, <3>2 DEF YieldWanted, TypeOK
  <2> QED
    BY <1>6, <2>1, <2>2 DEF yield_test, Step, TypeOK
<1>7. ASSUME NEW t \in Thread, yield_count(t)
      PROVE  YieldWanted'
  <2>1. pc[t] = "count" /\ pc' = [pc EXCEPT ![t] = "wake"]
    BY <1>7 DEF yield_count, Step
  <2> QED
    BY <2>1 DEF YieldWanted, TypeOK
<1>8. ASSUME NEW t \in Thread, yield_wake(t)
      PROVE  YieldWanted'
  <2>1. \A u \in Thread : u # t => ~Yielding(u)
    BY <1>2, <1>8 DEF yield_wake, Signal
  <2>2. PICK u \in Thread : Awake(u)'
    <3>1. PICK u \in Thread : Sought(u)
      BY <1>8 DEF yield_wake, Signal, YieldWanted
    <3> QED
      BY <1>8, <3>1 DEF yield_wake, Signal, TypeOK
  <2>3. \A v \in Thread : pc'[v] \notin {"count", "wake"}
    BY <1>8, <2>1 DEF yield_wake, Signal, TypeOK
  <2> QED
    BY <2>2, <2>3 DEF YieldWanted
<1>9. ASSUME NEW t \in Thread, release_signal(t)
      PROVE  YieldWanted'
  <2>1. \A u \in Thread : Yielding(u)' => pc'[u] = pc[u]
    BY <1>9 DEF release_signal, Signal, TypeOK
  <2> QED
    BY <1>1, <1>9, <2>1 DEF release_signal, Signal, TypeOK
<1>10. ASSUME NEW t \in Thread, fork(t)
       PROVE  YieldWanted'
  BY <1>10 DEF fork, YieldWanted, TypeOK
<1> QED
  BY <1>3, <1>4, <1>5, <1>6, <1>7, <1>8, <1>9, <1>10 DEF Next, ThreadStep, exited, Acquire, Release, Yield

(* No step leaves sleepers behind with nobody to wake them.                *)
LEMMA NextNoLostWakeup ==
    ASSUME Inv, PendingExact, YieldWanted, NoLostWakeup, [Next]_vars
    PROVE  NoLostWakeup'
<1> USE NoOneIsNoThread DEF Inv
<1> DEFINE Coming(u) == pc[u] \in {"lock", "relock", "signal"}
<1>1. ASSUME NEW u \in Thread, Coming(u)' PROVE NoLostWakeup'
  BY <1>1 DEF NoLostWakeup
<1>2. ASSUME owner' # NoOne PROVE NoLostWakeup'
  BY <1>2 DEF NoLostWakeup
<1>3. ASSUME owner' = owner, \A u \in Thread : pc'[u] = "wait" => pc[u] = "wait",
             \A u \in Thread : Coming(u) => Coming(u)'
      PROVE  NoLostWakeup'
  BY <1>3 DEF NoLostWakeup, Waiting
<1>4. CASE UNCHANGED vars
  BY <1>3, <1>4 DEF vars
<1>5. ASSUME NEW t \in Thread, acquire_lock(t) \/ yield_relock(t)
      PROVE  NoLostWakeup'
  BY <1>2, <1>5 DEF acquire_lock, yield_relock, LockMutex
<1>6. ASSUME NEW t \in Thread, release_unlock(t)
      PROVE  NoLostWakeup'
  BY <1>1, <1>6 DEF release_unlock, Step, TypeOK
<1>7. ASSUME NEW t \in Thread, yield_sleep(t)
      PROVE  NoLostWakeup'
  <2>1. PICK u \in Thread : pc[u] \in {"lock", "relock"}
    BY <1>7 DEF yield_sleep, Step, YieldWanted
  <2>2. Coming(u)'
    BY <1>7, <2>1 DEF yield_sleep, Step, TypeOK
  <2> QED
    BY <1>1, <2>2
<1>8. ASSUME NEW t \in Thread, release_signal(t)
      PROVE  NoLostWakeup'
  <2>1. CASE \A u \in Thread : pc[u] # "wait"
    <3>1. \A u \in Thread : pc'[u] # "wait"
      BY <1>8, <2>1 DEF release_signal, Signal, TypeOK
    <3> QED
      BY <3>1 DEF NoLostWakeup, Waiting
  <2>2. CASE \E u \in Thread : pc[u] = "wait"
    <3>1. PICK u \in Thread : pc[u] = "wait" /\ pc' = [pc EXCEPT ![t] = after[t], ![u] = "relock"]
      BY <1>8, <2>2 DEF release_signal, Signal
    <3> QED
      BY <1>1, <3>1 DEF TypeOK
  <2> QED
    BY <2>1, <2>2
<1>9. ASSUME NEW t \in Thread, yield_wake(t)
      PROVE  NoLostWakeup'
  <2>1. owner = t /\ owner' = owner
    BY <1>9 DEF yield_wake, Signal, NotAllocated, OwnerInside, Inside, TypeOK
  <2> QED
    BY <1>2, <2>1
<1>10. ASSUME NEW t \in Thread,
              \/ allocate(t) \/ acquire_count(t) \/ acquire_done(t) \/ yield_test(t)
              \/ return_from_call(t) \/ wake_up_spuriously(t) \/ yield_count(t) \/ yield_done(t)
              \/ (\E u \in Thread : start(t, u)) \/ (\E next \in {"outside", "gone"} : release(t, next))
       PROVE  NoLostWakeup'
  <2>1. owner' = owner /\
        \E u \in Thread, from \in {"run", "acquire", "acquired", "outside", "wait", "back", "count", "unborn"},
           to \in {"acquire", "lock", "run", "relock", "unlock", "count", "wake"} :
           Step(u, from, to)
    BY <1>10 DEF allocate, acquire_count, acquire_done, yield_test, return_from_call,
       wake_up_spuriously, yield_count, yield_done, start, release
  <2> QED
    BY <1>3, <2>1 DEF Step, TypeOK
<1>11. ASSUME NEW t \in Thread, fork(t)
       PROVE  NoLostWakeup'
  BY <1>11 DEF fork, NoLostWakeup, Waiting, TypeOK
<1> QED
  BY <1>4, <1>5, <1>6, <1>7, <1>8, <1>9, <1>10, <1>11 DEF Next, ThreadStep, exited, Acquire, Release, Yield

(* Threads never sleep on the condition variable while the mutex is free   *)
(* and nobody is about to take it or to signal.                            *)
THEOREM NoWakeupLost == Spec => []NoLostWakeup
<1>1. Init => YieldWanted /\ NoLostWakeup
  BY DEF Init, YieldWanted, NoLostWakeup, Waiting
<1>2. Inv /\ PendingExact /\ YieldWanted /\ NoLostWakeup /\ [Next]_vars => YieldWanted' /\ NoLostWakeup'
  BY NextYieldWanted, NextNoLostWakeup
<1> QED
  BY <1>1, <1>2, Invariance, PTL DEF Spec

-----------------------------------------------------------------------------
(***************************************************************************)
(* Nobody waits for nobody                                                 *)
(***************************************************************************)
OwnerIsInside == owner # NoOne => Inside(owner)

LEMMA NextOwnerIsInside ==
    ASSUME Inv, OwnerIsInside, [Next]_vars
    PROVE  OwnerIsInside'
<1> USE NoOneIsNoThread DEF Inv
<1>1. ASSUME NEW t \in Thread, acquire_lock(t) \/ yield_relock(t)
      PROVE  OwnerIsInside'
  BY <1>1 DEF acquire_lock, yield_relock, LockMutex, Step, OwnerIsInside, Inside, TypeOK
<1>2. ASSUME NEW t \in Thread, release_unlock(t) \/ yield_sleep(t) \/ fork(t)
      PROVE  OwnerIsInside'
  BY <1>2 DEF release_unlock, yield_sleep, fork, OwnerIsInside
<1>3. ASSUME owner' = owner, \A t \in Thread : Inside(t) => Inside(t)'
      PROVE  OwnerIsInside'
  BY <1>3 DEF OwnerIsInside, Inside, TypeOK
<1>4. ASSUME NEW t \in Thread, allocate(t)
      PROVE  OwnerIsInside'
  BY <1>4 DEF allocate, NotAllocated, OwnerIsInside
<1>5. ASSUME NEW t \in Thread,
             \/ acquire_count(t) \/ acquire_done(t) \/ yield_count(t) \/ yield_done(t) \/ yield_test(t)
             \/ return_from_call(t) \/ wake_up_spuriously(t)
             \/ (\E u \in Thread : start(t, u)) \/ (\E next \in {"outside", "gone"} : release(t, next))
      PROVE  OwnerIsInside'
  <2>1. owner' = owner /\ \E u \in Thread, from \in PC, to \in PC :
           Step(u, from, to) /\ (from \in {"acquired", "run", "count", "back"}
                                    => to \in {"run", "unlock", "count", "wake"})
                             /\ from \notin {"unlock", "wake", "sleep"}
    BY <1>5 DEF acquire_count, acquire_done, yield_count, yield_done, yield_test, return_from_call,
       wake_up_spuriously, start, release, PC
  <2> QED
    BY <1>3, <2>1 DEF Step, Inside, TypeOK
<1>6. ASSUME NEW t \in Thread, release_signal(t) \/ yield_wake(t)
      PROVE  OwnerIsInside'
  <2>1. \A u \in Thread : Inside(u) => Inside(u)'
    BY <1>6 DEF release_signal, yield_wake, Signal, Inside, TypeOK
  <2> QED
    BY <1>3, <1>6, <2>1 DEF release_signal, yield_wake
<1>7. CASE UNCHANGED vars
  BY <1>3, <1>7 DEF vars, Inside
<1> QED
  BY <1>1, <1>2, <1>4, <1>5, <1>6, <1>7 DEF Next, ThreadStep, exited, Acquire, Release, Yield

(* The next operation of t on the shared memory does not have to wait.     *)
MayGoOn(t) ==
    \/ pc[t] \in {"lock", "relock"} /\ owner = NoOne
    \/ pc[t] \in PC \ {"unborn", "gone", "outside", "lock", "relock", "wait"}

(* As long as a thread waits for the GIL, one can go on.                   *)
NeverStuck == (\E t \in Thread : pc[t] \in {"lock", "relock", "wait"})
                 => \E t \in Thread : MayGoOn(t)

(* The GIL never deadlocks: threads that want it never all wait, not even  *)
(* when no external call returns and no wakeup is spurious.                *)
THEOREM GilNeverStuck == Spec => []NeverStuck
<1>1. Init => OwnerIsInside
  BY DEF Init, OwnerIsInside
<1>2. Inv /\ OwnerIsInside /\ [Next]_vars => OwnerIsInside'
  BY NextOwnerIsInside
<1>3. Inv /\ OwnerIsInside /\ NoLostWakeup => NeverStuck
  <2> SUFFICES ASSUME Inv, OwnerIsInside, NoLostWakeup,
                      NEW t \in Thread, pc[t] \in {"lock", "relock", "wait"}
               PROVE  \E u \in Thread : MayGoOn(u)
    BY DEF NeverStuck
  <2>1. CASE owner # NoOne
    <3>1. owner \in Thread /\ Inside(owner)
      BY <2>1 DEF OwnerIsInside, Inv, TypeOK
    <3> QED
      BY <3>1 DEF Inside, MayGoOn, PC
  <2>2. CASE owner = NoOne /\ pc[t] # "wait"
    BY <2>2 DEF MayGoOn
  <2>3. CASE owner = NoOne /\ pc[t] = "wait"
    <3>1. PICK u \in Thread : pc[u] \in {"lock", "relock", "signal"}
      BY <2>3 DEF NoLostWakeup, Waiting
    <3> QED
      BY <2>3, <3>1 DEF MayGoOn, PC
  <2> QED
    BY <2>1, <2>2, <2>3
<1> QED
  BY <1>1, <1>2, <1>3, Invariance, NoWakeupLost, PTL DEF Spec

-----------------------------------------------------------------------------
(***************************************************************************)
(* The refinement                                                          *)
(***************************************************************************)
In == {t \in Thread : Inside(t)}
Out == {t \in Thread : pc[t] \in {"acquire", "lock", "wait", "relock"}}

LEMMA LockVars ==
    /\ Lock!vars = <<In, Out>>
    /\ UNCHANGED Lock!vars <=> UNCHANGED <<In, Out>>
BY DEF Lock!vars, In, Out

(* Whoever gets the mutex finds nobody inside.                             *)
LEMMA TakeRefines ==
    ASSUME Inv, NEW t \in Thread, acquire_lock(t) \/ yield_relock(t)
    PROVE  Lock!Take(t)
<1> USE NoOneIsNoThread DEF Inv
<1>1. pending >= 0 /\ owner = NoOne /\ pc[t] \in {"lock", "relock"}
  BY DEF acquire_lock, yield_relock, LockMutex, Step, NotAllocated, TypeOK
<1>2. \A u \in Thread : ~Inside(u)
  BY <1>1 DEF OwnerInside
<1>3. \A u \in Thread : pc'[u] = IF u = t THEN pc'[t] ELSE pc[u]
  BY DEF acquire_lock, yield_relock, Step, TypeOK
<1>4. pc'[t] \in {"acquired", "back"}
  BY DEF acquire_lock, yield_relock, Step, TypeOK
<1>5. In = {} /\ In' = {t}
  BY <1>2, <1>3, <1>4 DEF In, Inside
<1>6. t \in Out /\ Out' = Out \ {t}
  BY <1>1, <1>3, <1>4 DEF Out
<1> QED
  BY <1>5, <1>6 DEF Lock!Take, In, Out

(* A thread that asks is neither inside nor waits for it.                  *)
LEMMA AskRefines ==
    ASSUME Inv, NEW t \in Thread,
           Step(t, "unborn", "acquire") \/ Step(t, "outside", "acquire")
    PROVE  Lock!Ask(t)
<1>1. pc[t] \in {"unborn", "outside"} /\ \A u \in Thread : pc'[u] = IF u = t THEN "acquire" ELSE pc[u]
  BY DEF Step, Inv, TypeOK
<1>2. t \notin In \cup Out /\ In' = In /\ Out' = Out \cup {t}
  BY <1>1 DEF In, Out, Inside
<1> QED
  BY <1>2 DEF Lock!Ask, In, Out

LEMMA LeaveRefines ==
    ASSUME Inv, NEW t \in Thread, release_unlock(t)
    PROVE  Lock!Leave(t)
<1>1. pc[t] = "unlock" /\ \A u \in Thread : pc'[u] = IF u = t THEN "signal" ELSE pc[u]
  BY DEF release_unlock, Step, Inv, TypeOK
<1>2. t \in In /\ In' = In \ {t} /\ Out' = Out
  BY <1>1 DEF In, Out, Inside
<1> QED
  BY <1>2 DEF Lock!Leave, In, Out

(* When a thread begins to wait for its turn, another one is awake.        *)
LEMMA YieldRefines ==
    ASSUME Inv, YieldWanted, NEW t \in Thread, yield_sleep(t)
    PROVE  Lock!Yield(t)
<1>1. pc[t] = "sleep" /\ \A u \in Thread : pc'[u] = IF u = t THEN "wait" ELSE pc[u]
  BY DEF yield_sleep, Step, Inv, TypeOK
<1>2. Out # {}
  BY <1>1 DEF YieldWanted, Out
<1>3. t \in In /\ In' = In \ {t} /\ Out' = Out \cup {t}
  BY <1>1 DEF In, Out, Inside
<1> QED
  BY <1>2, <1>3 DEF Lock!Yield, In, Out

LEMMA AnewRefines ==
    ASSUME Inv, NEW t \in Thread, allocate(t) \/ fork(t)
    PROVE  Lock!Anew(t)
<1>1. pc[t] = "run" /\ pc'[t] = "acquire" /\ \A u \in Thread : u # t => pc'[u] \in {"unborn", "gone"}
  BY GilConstants DEF allocate, fork, Step, Inv, NotAllocated, TypeOK
<1>2. t \in In /\ In' = {} /\ Out' = {t}
  BY <1>1 DEF In, Out, Inside
<1> QED
  BY <1>2 DEF Lock!Anew, In, Out

(* The other steps do not matter to the promise.                           *)
LEMMA StutterRefines ==
    ASSUME Inv, NEW t \in Thread,
           \/ acquire_count(t) \/ acquire_done(t) \/ yield_test(t) \/ yield_count(t) \/ yield_done(t)
           \/ wake_up_spuriously(t) \/ release_signal(t) \/ yield_wake(t)
           \/ \E next \in {"outside", "gone"} : release(t, next)
    PROVE  UNCHANGED Lock!vars
<1>1. \A u \in Thread : /\ Inside(u)' <=> Inside(u)
                        /\ pc'[u] \in {"acquire", "lock", "wait", "relock"}
                              <=> pc[u] \in {"acquire", "lock", "wait", "relock"}
  <2>1. CASE release_signal(t) \/ yield_wake(t)
    BY <2>1 DEF release_signal, yield_wake, Signal, Inside, Inv, TypeOK
  <2>2. CASE ~(release_signal(t) \/ yield_wake(t))
    BY <2>2 DEF acquire_count, acquire_done, yield_test, yield_count, yield_done, wake_up_spuriously,
       release, Step, Inside, Inv, TypeOK
  <2> QED
    BY <2>1, <2>2
<1>2. In' = In /\ Out' = Out
  BY <1>1 DEF In, Out
<1> QED
  BY <1>2, LockVars

(* The four functions are a lock: at most one thread is inside, also while *)
(* threads yield, wake up for no reason or fork, and a thread yields only  *)
(* to one that wants the GIL, and keeps wanting it.                        *)
THEOREM Refinement == Spec => GilAsLock
<1>1. Init => Lock!Init /\ YieldWanted
  <2> SUFFICES ASSUME Init PROVE Lock!Init /\ YieldWanted
    OBVIOUS
  <2>1. \A t \in Thread : pc[t] = IF t = Main THEN "run" ELSE "unborn"
    BY DEF Init
  <2>2. In = {Main} /\ Out = {}
    BY <2>1, GilConstants DEF In, Out, Inside
  <2> QED
    BY <2>1, <2>2 DEF Lock!Init, In, Out, YieldWanted
<1>2. Inv /\ PendingExact /\ YieldWanted /\ [Next]_vars => [Lock!Next]_(Lock!vars) /\ YieldWanted'
  <2> SUFFICES ASSUME Inv, PendingExact, YieldWanted, [Next]_vars
               PROVE  [Lock!Next]_(Lock!vars)
    BY NextYieldWanted
  <2>1. CASE UNCHANGED vars
    <3>1. In' = In /\ Out' = Out
      BY <2>1 DEF vars, In, Out, Inside
    <3> QED
      BY <3>1, LockVars
  <2>2. ASSUME NEW t \in Thread, ThreadStep(t)
        PROVE  [Lock!Next]_(Lock!vars)
    <3>1. CASE return_from_call(t) \/ \E u \in Thread : start(t, u)
      BY <3>1, AskRefines DEF return_from_call, start, Lock!Next
    <3> QED
      BY <2>2, <3>1, TakeRefines, LeaveRefines, YieldRefines, AnewRefines, StutterRefines
      DEF ThreadStep, Acquire, Release, Yield, Lock!Next
  <2> QED
    BY <2>1, <2>2 DEF Next, exited
<1> QED
  BY <1>1, <1>2, Invariance, PTL DEF Spec, GilAsLock, Lock!Spec
=============================================================================
