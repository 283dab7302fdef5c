-------------------------- MODULE ImportLockProofs --------------------------
(***************************************************************************)
(* Proofs about ImportLock, for every number of threads and modules.  The  *)
(* invariant says of each thread what its stack may look like at each      *)
(* program counter, who holds the lock, and that every partial module is   *)
(* being executed by somebody.                                             *)
(***************************************************************************)
EXTENDS ImportLock, SequenceTheorems, TLAPS

Shape ==
    \A t \in Thread :
        /\ pc[t] \in {"off", "releasing", "released"} => Depth(t) = 0
        /\ pc[t] \in {"acquiring", "got"} =>
              Depth(t) = 1 /\ stack[t][1].doing \notin {"reading", "executing"}
        /\ \A i \in 1..Depth(t) :
              /\ stack[t][i].doing \in {"finding", "reading", "executing"} =>
                    stack[t][i].todo # <<>>
              /\ stack[t][i].doing = "forking" => Depth(t) = 1

Holding(t) == pc[t] \in {"got", "releasing"}

Lock ==
    /\ lockowner = NoOne => lockcounter = 0
    /\ \A t, u \in Thread : Holding(t) /\ Holding(u) => t = u
    /\ \A t \in Thread : Holding(t) => lock /\ lockowner = NoOne
    /\ lockowner # NoOne => lock
    /\ lock => lockowner # NoOne \/ \E t \in Thread : Holding(t)

Partial ==
    \A m \in Module : modules[m] = "partial" => \E t \in Thread : Executes(t, m)

IInv == TypeOK /\ Shape /\ HeldWhileImporting /\ Lock /\ Partial

Frames == [doing : Doing, todo : Seq(Module)]

-----------------------------------------------------------------------------
(* What the three operations on a stack do.                                *)

LEMMA PushedStack ==
    ASSUME NEW s \in Seq(Frames), NEW f \in Frames
    PROVE  /\ Append(s, f) \in Seq(Frames)
           /\ Len(Append(s, f)) = Len(s) + 1
           /\ \A i \in 1..Len(s) : Append(s, f)[i] = s[i]
           /\ Append(s, f)[Len(s) + 1] = f
  OBVIOUS

LEMMA PoppedStack ==
    ASSUME NEW s \in Seq(Frames), Len(s) > 0
    PROVE  /\ SubSeq(s, 1, Len(s) - 1) \in Seq(Frames)
           /\ Len(SubSeq(s, 1, Len(s) - 1)) = Len(s) - 1
           /\ \A i \in 1..Len(s) - 1 : SubSeq(s, 1, Len(s) - 1)[i] = s[i]
<1>1. Len(s) \in Nat
  BY LenProperties
<1>2. \A i \in 1..Len(s) - 1 : s[i] \in Frames
  BY <1>1, ElementOfSeq
<1> DEFINE n == Len(s) - 1
           r == SubSeq(s, 1, n)
<1>3. /\ r \in Seq(Frames)
      /\ Len(r) = (IF 1 <= n THEN n - 1 + 1 ELSE 0)
      /\ \A i \in 1..n - 1 + 1 : r[i] = s[1 + i - 1]
  <2>1. 1 \in Int /\ n \in Int
    BY <1>1
  <2>2. \A i \in 1..n : s[i] \in Frames
    BY <1>2
  <2> HIDE DEF n
  <2> QED
    BY <2>1, <2>2, SubSeqProperties
<1>4. r \in Seq(Frames) /\ Len(r) = n /\ \A i \in 1..n : r[i] = s[i]
  <2>1. n \in Nat
    BY <1>1
  <2> HIDE DEF n, r
  <2> QED
    BY <2>1, <1>3
<1> QED
  BY <1>4

LEMMA ReplacedStack ==
    ASSUME NEW s \in Seq(Frames), Len(s) > 0, NEW f \in Frames,
           NEW r, r = [s EXCEPT ![Len(s)] = f]
    PROVE  /\ r \in Seq(Frames) /\ Len(r) = Len(s)
           /\ \A i \in 1..Len(s) - 1 : r[i] = s[i]
           /\ r[Len(s)] = f
  OBVIOUS

LEMMA FrameType ==
    ASSUME NEW doing \in Doing, NEW todo \in Seq(Module)
    PROVE  /\ Frame(doing, todo) \in Frames
           /\ Frame(doing, todo).doing = doing /\ Frame(doing, todo).todo = todo
  BY DEF Frame, Frames

LEMMA PathPart ==
    ASSUME NEW m \in Module
    PROVE  Path[m] \in Seq(Module) /\ Path[m] # <<>>
  BY ImportConstants DEF ImportConstants

LEMMA StackFacts ==
    ASSUME TypeOK, NEW t \in Thread
    PROVE  /\ stack[t] \in Seq(Frames) /\ Depth(t) \in Nat
           /\ DOMAIN stack[t] = 1..Depth(t)
           /\ \A i \in 1..Depth(t) : stack[t][i] \in Frames
           /\ Depth(t) > 0 => Top(t) \in Frames /\ Depth(t) \in 1..Depth(t)
<1>1. stack[t] \in Seq(Frames)
  BY DEF TypeOK, Frames
<1> QED
  BY <1>1, LenProperties, ElementOfSeq DEF Depth, Top

SysModules == modules \in [Module -> {"absent", "partial", "loaded"}]

-----------------------------------------------------------------------------
(* What holds whoever forks, in a child as well that was forked inside an  *)
(* import: the frames say more than the count, because fork_child empties  *)
(* the count and leaves the frames.                                        *)

TodoLeft ==
    \A t \in Thread : \A i \in 1..Depth(t) :
        stack[t][i].doing \in {"finding", "reading", "executing"} => stack[t][i].todo # <<>>

Counted ==
    /\ \A t \in Thread : cur = t => pc[t] = "run"
    /\ lockowner = NoOne <=> lockcounter = 0
    /\ \A t \in Thread : pc[t] \in {"acquiring", "got"} => Depth(t) > 0
    /\ \A t \in Thread : lockowner = t => lock /\ pc[t] = "run" /\ lockcounter <= Depth(t)
    /\ \A t \in Thread : Holding(t) => lock /\ lockowner = NoOne
    /\ \A t, u \in Thread : Holding(t) /\ Holding(u) => t = u
    /\ lock => lockowner # NoOne \/ \E t \in Thread : Holding(t)

LockInv == TypeOK /\ TodoLeft /\ Counted

(* The frames of a thread, and the module that the innermost is about.     *)
LEMMA TopFrame ==
    ASSUME TypeOK, TodoLeft, NEW t \in Thread, Depth(t) > 0,
           Top(t).doing \in {"finding", "reading", "executing"}
    PROVE  /\ Top(t).todo \in Seq(Module) /\ Top(t).todo # <<>>
           /\ Head(Top(t).todo) \in Module
           /\ Tail(Top(t).todo) \in Seq(Module)
<1>1. Top(t) \in Frames /\ Depth(t) \in 1..Depth(t)
  BY StackFacts
<1>2. Top(t).todo \in Seq(Module) /\ Top(t).todo # <<>>
  BY <1>1 DEF TodoLeft, Top, Frames
<1> QED
  BY <1>2, HeadTailProperties

LEMMA PushKeeps ==
    ASSUME LockInv, NEW t \in Thread, Runs(t), NEW f \in Frames,
           f.doing = "finding" => f.todo # <<>>, f.doing \notin {"reading", "executing"},
           acquire_lock(t, f)
    PROVE  LockInv'
<1> DEFINE r == Append(stack[t], f)
<1>1. TypeOK /\ TodoLeft /\ Counted /\ pc[t] = "run" /\ cur = t
  BY DEF LockInv, Runs
<1>2. stack[t] \in Seq(Frames) /\ \A u \in Thread : Depth(u) \in Nat
  BY <1>1, StackFacts
<1>3. /\ r \in Seq(Frames) /\ Len(r) = Depth(t) + 1 /\ r[Depth(t) + 1] = f
      /\ \A i \in 1..Depth(t) : r[i] = stack[t][i]
  BY <1>2, PushedStack DEF Depth
<1> HIDE DEF r
<1>4. /\ stack'[t] = r /\ \A u \in Thread \ {t} : stack'[u] = stack[u]
      /\ stack' \in [Thread -> Seq(Frames)]
  <2>1. stack' = [stack EXCEPT ![t] = r]
    BY DEF acquire_lock, Pushed, r
  <2> QED
    BY <2>1, <1>1, <1>3 DEF TypeOK, Frames
<1>5. Depth(t)' = Depth(t) + 1 /\ \A u \in Thread \ {t} : Depth(u)' = Depth(u)
  BY <1>3, <1>4 DEF Depth
<1>6. TypeOK'
  <2>1. lockcounter' \in Nat /\ cur' \in Thread \cup {NoOne}
    BY <1>1 DEF acquire_lock, TypeOK
  <2>2. pc' \in [Thread -> {"off", "run", "acquiring", "got", "releasing", "released"}]
    BY <1>1 DEF acquire_lock, TypeOK
  <2> QED
    BY <2>1, <2>2, <1>1, <1>4 DEF acquire_lock, TypeOK, Frames
<1>7. TodoLeft'
  <2>1. \A i \in 1..(Depth(t) + 1) : i \in 1..Depth(t) \/ i = Depth(t) + 1
    BY <1>2
  <2> SUFFICES ASSUME NEW u \in Thread, NEW i \in 1..Depth(u)',
                      stack'[u][i].doing \in {"finding", "reading", "executing"}
               PROVE  stack'[u][i].todo # <<>>
    BY DEF TodoLeft
  <2>2. CASE u = t
    BY <2>1, <2>2, <1>1, <1>3, <1>4, <1>5 DEF TodoLeft
  <2>3. CASE u # t
    BY <2>3, <1>1, <1>4, <1>5 DEF TodoLeft
  <2> QED
    BY <2>2, <2>3
<1>8. Counted'
  <2>1. CASE lockowner = t
    <3>1. UNCHANGED <<cur, pc, lock, lockowner>> /\ lockcounter' = lockcounter + 1
      BY <2>1 DEF acquire_lock
    <3>2. lockcounter \in Nat /\ lockowner # NoOne
      BY <1>1, <2>1, ImportConstants DEF TypeOK, ImportConstants
    <3> QED
      BY <2>1, <3>1, <3>2, <1>1, <1>2, <1>5 DEF Counted, Holding
  <2>2. CASE lockowner # t
    <3>1. pc' = [pc EXCEPT ![t] = "acquiring"] /\ UNCHANGED <<lock, lockowner, lockcounter>>
      BY <2>2 DEF acquire_lock
    <3>2. pc'[t] = "acquiring" /\ \A u \in Thread \ {t} : pc'[u] = pc[u]
      BY <1>1, <3>1 DEF TypeOK
    <3>3. \A u \in Thread : Holding(u)' <=> Holding(u)
      BY <1>1, <3>2 DEF Holding
    <3>4. \A u \in Thread : cur' # u
      BY <2>2, ImportConstants DEF acquire_lock, ImportConstants
    <3> QED
      BY <2>2, <3>1, <3>2, <3>3, <3>4, <1>1, <1>2, <1>5 DEF Counted
  <2> QED
    BY <2>1, <2>2
<1> QED
  BY <1>6, <1>7, <1>8 DEF LockInv

LEMMA PopKeeps ==
    ASSUME LockInv, SysModules', NEW t \in Thread, Runs(t), Depth(t) > 0, release_lock(t)
    PROVE  LockInv'
<1> DEFINE r == SubSeq(stack[t], 1, Depth(t) - 1)
<1>1. TypeOK /\ TodoLeft /\ Counted /\ pc[t] = "run" /\ cur = t
  BY DEF LockInv, Runs
<1>2. stack[t] \in Seq(Frames) /\ \A u \in Thread : Depth(u) \in Nat
  BY <1>1, StackFacts
<1>3. /\ r \in Seq(Frames) /\ Len(r) = Depth(t) - 1
      /\ \A i \in 1..Depth(t) - 1 : r[i] = stack[t][i]
  BY <1>2, PoppedStack DEF Depth
<1> HIDE DEF r
<1>4. /\ stack'[t] = r /\ \A u \in Thread \ {t} : stack'[u] = stack[u]
      /\ stack' \in [Thread -> Seq(Frames)]
  <2>1. stack' = [stack EXCEPT ![t] = r]
    BY DEF release_lock, Popped, r, Depth
  <2> QED
    BY <2>1, <1>1, <1>3 DEF TypeOK, Frames
<1>5. Depth(t)' = Depth(t) - 1 /\ \A u \in Thread \ {t} : Depth(u)' = Depth(u)
  BY <1>3, <1>4 DEF Depth
<1>6. TodoLeft'
  <2>1. \A i \in 1..(Depth(t) - 1) : i \in 1..Depth(t)
    BY <1>2
  <2> SUFFICES ASSUME NEW u \in Thread, NEW i \in 1..Depth(u)',
                      stack'[u][i].doing \in {"finding", "reading", "executing"}
               PROVE  stack'[u][i].todo # <<>>
    BY DEF TodoLeft
  <2>2. CASE u = t
    BY <2>1, <2>2, <1>1, <1>3, <1>4, <1>5 DEF TodoLeft
  <2>3. CASE u # t
    BY <2>3, <1>1, <1>4, <1>5 DEF TodoLeft
  <2> QED
    BY <2>2, <2>3
<1>7. UNCHANGED lock /\ lockcounter \in Nat
  BY <1>1 DEF release_lock, TypeOK
<1>8. ASSUME cur' \in Thread \cup {NoOne}, lockowner' \in Thread \cup {NoOne},
             lockcounter' \in Nat,
             pc' \in [Thread -> {"off", "run", "acquiring", "got", "releasing", "released"}]
      PROVE  TypeOK'
  BY <1>1, <1>4, <1>7, <1>8 DEF SysModules, TypeOK, Frames
<1>9. CASE lockowner # t
  <2>1. UNCHANGED <<cur, pc, lockowner, lockcounter>>
    BY <1>9 DEF release_lock
  <2>2. Counted'
    BY <1>1, <1>2, <1>5, <1>7, <1>9, <2>1 DEF Counted, Holding
  <2>3. TypeOK'
    BY <1>1, <1>8, <2>1 DEF TypeOK
  <2> QED
    BY <1>6, <2>2, <2>3 DEF LockInv
<1>10. CASE lockowner = t /\ lockcounter # 1
  <2>1. UNCHANGED <<cur, pc, lockowner>> /\ lockcounter' = lockcounter - 1
    BY <1>10 DEF release_lock
  <2>2. lockcounter # 0 /\ lockowner # NoOne
    BY <1>1, <1>10, ImportConstants DEF Counted, ImportConstants
  <2>3. Counted'
    BY <1>1, <1>2, <1>5, <1>7, <1>10, <2>1, <2>2 DEF Counted, Holding
  <2>4. lockcounter' \in Nat
    BY <1>7, <2>1, <2>2
  <2>5. TypeOK'
    BY <1>1, <1>8, <2>1, <2>4 DEF TypeOK
  <2> QED
    BY <1>6, <2>3, <2>5 DEF LockInv
<1>11. CASE lockowner = t /\ lockcounter = 1
  <2>1. /\ lockcounter' = 0 /\ lockowner' = NoOne
        /\ cur' = NoOne /\ pc' = [pc EXCEPT ![t] = "releasing"]
    BY <1>11 DEF release_lock, FreeLock
  <2>2. pc'[t] = "releasing" /\ \A u \in Thread \ {t} : pc'[u] = pc[u]
    BY <1>1, <2>1 DEF TypeOK
  <2>3. lock /\ \A u \in Thread : ~Holding(u)
    BY <1>1, <1>11, ImportConstants DEF Counted, ImportConstants
  <2>4. Holding(t)' /\ \A u \in Thread : Holding(u)' => u = t
    BY <2>2, <2>3 DEF Holding
  <2>5. Counted'
    BY <1>1, <1>5, <1>7, <2>1, <2>2, <2>3, <2>4, ImportConstants DEF Counted, ImportConstants
  <2>6. pc' \in [Thread -> {"off", "run", "acquiring", "got", "releasing", "released"}]
    BY <1>1, <2>1 DEF TypeOK
  <2>7. TypeOK'
    BY <1>8, <2>1, <2>6
  <2> QED
    BY <1>6, <2>5, <2>7 DEF LockInv
<1> QED
  BY <1>9, <1>10, <1>11

LEMMA ReplaceKeeps ==
    ASSUME LockInv, SysModules', NEW t \in Thread, Depth(t) > 0,
           NEW f \in Frames, f.todo # <<>>,
           Replaced(t, f), UNCHANGED <<cur, pc, counts>>
    PROVE  LockInv'
<1> DEFINE r == [stack[t] EXCEPT ![Depth(t)] = f]
<1>1. /\ TypeOK /\ TodoLeft /\ Counted
      /\ UNCHANGED <<cur, pc, lock, lockowner, lockcounter>>
  BY DEF LockInv, counts
<1>2. stack[t] \in Seq(Frames) /\ Depth(t) \in Nat
  BY <1>1, StackFacts
<1>3. /\ r \in Seq(Frames) /\ Len(r) = Depth(t) /\ r[Depth(t)] = f
      /\ \A i \in 1..Depth(t) - 1 : r[i] = stack[t][i]
  BY <1>2, ReplacedStack DEF Depth
<1> HIDE DEF r
<1>4. /\ stack'[t] = r /\ \A u \in Thread \ {t} : stack'[u] = stack[u]
      /\ stack' \in [Thread -> Seq(Frames)]
  <2>1. stack' = [stack EXCEPT ![t] = r]
    BY DEF Replaced, r
  <2> QED
    BY <2>1, <1>1, <1>3 DEF TypeOK, Frames
<1>5. \A u \in Thread : Depth(u)' = Depth(u)
  BY <1>3, <1>4 DEF Depth
<1>6. TypeOK'
  BY <1>1, <1>4 DEF SysModules, TypeOK, Frames
<1>7. TodoLeft'
  <2>1. \A i \in 1..Depth(t) : i \in 1..Depth(t) - 1 \/ i = Depth(t)
    BY <1>2
  <2> SUFFICES ASSUME NEW u \in Thread, NEW i \in 1..Depth(u)',
                      stack'[u][i].doing \in {"finding", "reading", "executing"}
               PROVE  stack'[u][i].todo # <<>>
    BY DEF TodoLeft
  <2>2. CASE u = t
    BY <2>1, <2>2, <1>1, <1>2, <1>3, <1>4, <1>5 DEF TodoLeft
  <2>3. CASE u # t
    BY <2>3, <1>1, <1>4, <1>5 DEF TodoLeft
  <2> QED
    BY <2>2, <2>3
<1>8. Counted'
  BY <1>1, <1>5 DEF Counted, Holding
<1> QED
  BY <1>6, <1>7, <1>8 DEF LockInv

LEMMA NextPartKeeps ==
    ASSUME LockInv, SysModules', NEW t \in Thread, Runs(t), Depth(t) > 0,
           Top(t).doing \in {"finding", "executing"}, NextPart(t)
    PROVE  LockInv'
<1> DEFINE rest == Tail(Top(t).todo)
<1>1. CASE rest = <<>>
  BY <1>1, PopKeeps DEF NextPart
<1>2. CASE rest # <<>>
  <2>1. rest \in Seq(Module)
    BY TopFrame DEF LockInv
  <2>2. Replaced(t, Frame("finding", rest)) /\ UNCHANGED <<cur, pc, counts>>
    BY <1>2 DEF NextPart
  <2>3. Frame("finding", rest) \in Frames /\ Frame("finding", rest).todo = rest
    BY <2>1, FrameType DEF Doing
  <2>4. Frame("finding", rest).todo # <<>>
    BY <1>2, <2>3
  <2> HIDE DEF rest
  <2> QED
    BY <2>2, <2>3, <2>4, ReplaceKeeps
<1> QED
  BY <1>1, <1>2

LEMMA InitLockInv == Init => LockInv
<1> SUFFICES ASSUME Init PROVE LockInv
  OBVIOUS
<1>1. \A t \in Thread : stack[t] = <<>> /\ Depth(t) = 0
  BY EmptySeq DEF Init, Depth
<1>2. TypeOK
  <2>1. stack \in [Thread -> Seq([doing : Doing, todo : Seq(Module)])]
    BY DEF Init
  <2> QED
    BY <2>1, ImportConstants DEF Init, TypeOK, ImportConstants
<1>3. TodoLeft
  <2> SUFFICES ASSUME NEW t \in Thread PROVE \A i \in 1..Depth(t) : FALSE
    BY DEF TodoLeft
  <2> QED
    BY <1>1
<1>4. Counted
  BY <1>1, ImportConstants DEF Init, Counted, Holding, ImportConstants
<1> QED
  BY <1>2, <1>3, <1>4 DEF LockInv

LEMMA ThreadsKeep ==
    ASSUME LockInv, NEW t \in Thread,
           \/ GilStep(t) \/ LockStep(t) \/ end(t)
           \/ \E u \in Thread : start(t, u)
    PROVE  LockInv'
<1>1. TypeOK /\ TodoLeft /\ Counted
  BY DEF LockInv
<1>2. UNCHANGED <<stack, modules>>
  BY DEF GilStep, LeaveGil, EnterGil, LockStep, c_thread_acquirelock, acquired,
         c_thread_releaselock, end, start
<1>3. \A u \in Thread : Depth(u) \in Nat /\ Depth(u)' = Depth(u)
  BY <1>1, <1>2, StackFacts DEF Depth
<1>4. TodoLeft'
  BY <1>1, <1>2, <1>3 DEF TodoLeft
<1>5. CASE LeaveGil(t)
  BY <1>1, <1>2, <1>3, <1>4, <1>5, ImportConstants
     DEF LeaveGil, LockInv, TypeOK, Counted, Holding, ImportConstants
<1>6. ASSUME NEW v \in Thread, NEW now \in {"off", "run"},
             pc' = [pc EXCEPT ![v] = now], pc[v] \in {"off", "run", "released"},
             now = "run" \/ lockowner # v,
             cur' \in Thread \cup {NoOne}, cur' = v => now = "run",
             cur' \in {cur, NoOne, v},
             UNCHANGED <<lock, lockowner, lockcounter>>
      PROVE  LockInv'
  <2>1. pc'[v] = now /\ \A u \in Thread \ {v} : pc'[u] = pc[u]
    BY <1>1, <1>6 DEF TypeOK
  <2>2. TypeOK'
    BY <1>1, <1>2, <1>6 DEF TypeOK
  <2>3. \A u \in Thread : Holding(u)' <=> Holding(u)
    BY <1>6, <2>1 DEF Holding
  <2>4. Counted'
    <3>1. \A u \in Thread : cur' = u => pc'[u] = "run"
      BY <1>1, <1>6, <2>1, ImportConstants DEF Counted, ImportConstants
    <3> QED
      BY <1>1, <1>3, <1>6, <2>1, <2>3, <3>1 DEF Counted
  <2> QED
    BY <1>4, <2>2, <2>4 DEF LockInv
<1>7. CASE EnterGil(t)
  BY <1>6, <1>7 DEF EnterGil
<1>8. CASE end(t)
  <2>1. Depth(t) = 0
    BY <1>8, EmptySeq DEF end, Depth
  <2>2. lockowner # t
    BY <1>1, <2>1, ImportConstants DEF Counted, TypeOK, ImportConstants
  <2>3. cur' = NoOne /\ NoOne # t
    BY <1>8, ImportConstants DEF end, ImportConstants
  <2> QED
    BY <1>6, <1>8, <2>2, <2>3 DEF end, Runs
<1>9. ASSUME NEW u \in Thread, start(t, u) PROVE LockInv'
  BY <1>1, <1>6, <1>9 DEF start, TypeOK
<1>10. CASE c_thread_acquirelock(t)
  <2>1. pc[t] = "acquiring" /\ ~lock /\ lock' = TRUE
    BY <1>10 DEF c_thread_acquirelock
  <2>2. pc'[t] = "got" /\ \A u \in Thread \ {t} : pc'[u] = pc[u]
    BY <1>1, <1>10 DEF c_thread_acquirelock, TypeOK
  <2>3. /\ UNCHANGED <<cur, lockowner, lockcounter>>
        /\ lockowner = NoOne /\ \A u \in Thread : ~Holding(u)
    BY <1>1, <2>1, <1>10 DEF c_thread_acquirelock, Counted, TypeOK
  <2>4. TypeOK'
    BY <1>1, <1>10 DEF c_thread_acquirelock, TypeOK
  <2>5. Holding(t)' /\ \A u \in Thread : Holding(u)' => u = t
    BY <2>2, <2>3 DEF Holding
  <2>6. Counted'
    BY <1>1, <1>3, <2>1, <2>2, <2>3, <2>5, ImportConstants DEF Counted, ImportConstants
  <2> QED
    BY <1>4, <2>4, <2>6 DEF LockInv
<1>11. CASE acquired(t)
  <2>1. pc[t] = "got" /\ lockowner' = t /\ lockcounter' = lockcounter + 1 /\ UNCHANGED lock /\ cur' = t
    BY <1>11 DEF acquired
  <2>2. pc'[t] = "run" /\ \A u \in Thread \ {t} : pc'[u] = pc[u]
    BY <1>1, <1>11 DEF acquired, TypeOK
  <2>3. /\ lock /\ lockowner = NoOne /\ lockcounter = 0 /\ Depth(t) > 0
        /\ \A u \in Thread : Holding(u) => u = t
    BY <1>1, <2>1 DEF Counted, Holding
  <2>4. TypeOK'
    <3>1. lockcounter' \in Nat /\ lockowner' \in Thread /\ cur' \in Thread
      BY <1>1, <1>11 DEF acquired, TypeOK
    <3>2. pc' \in [Thread -> {"off", "run", "acquiring", "got", "releasing", "released"}]
      BY <1>1, <1>11 DEF acquired, TypeOK
    <3> QED
      BY <1>1, <1>11, <3>1, <3>2 DEF acquired, TypeOK
  <2>5. \A u \in Thread : ~Holding(u)'
    BY <2>2, <2>3 DEF Holding
  <2>6. Counted'
    BY <1>1, <1>3, <2>1, <2>2, <2>3, <2>5, ImportConstants DEF Counted, ImportConstants
  <2> QED
    BY <1>4, <2>4, <2>6 DEF LockInv
<1>12. CASE c_thread_releaselock(t)
  <2>1. pc[t] = "releasing" /\ lock' = FALSE /\ UNCHANGED <<cur, lockowner, lockcounter>>
    BY <1>12 DEF c_thread_releaselock
  <2>2. pc'[t] = "released" /\ \A u \in Thread \ {t} : pc'[u] = pc[u]
    BY <1>1, <1>12 DEF c_thread_releaselock, TypeOK
  <2>3. TypeOK'
    BY <1>1, <1>12 DEF c_thread_releaselock, TypeOK
  <2>4. lockowner = NoOne /\ \A u \in Thread : ~Holding(u)'
    BY <1>1, <2>1, <2>2 DEF Counted, Holding
  <2>5. Counted'
    BY <1>1, <1>3, <2>1, <2>2, <2>4, ImportConstants DEF Counted, ImportConstants
  <2> QED
    BY <1>4, <2>3, <2>5 DEF LockInv
<1> QED
  BY <1>5, <1>7, <1>8, <1>9, <1>10, <1>11, <1>12 DEF GilStep, LockStep

LEMMA EntersKeeps ==
    ASSUME LockInv, NEW t \in Thread, Enters(t)
    PROVE  LockInv'
<1>1. ASSUME NEW m \in Module, absolute_import(t, m) PROVE LockInv'
  BY <1>1, PathPart, FrameType, PushKeeps DEF absolute_import, InCode, Doing
<1>2. <<>> \in Seq(Module)
  BY EmptySeq
<1>3. CASE imp_acquire_lock(t)
  BY <1>2, <1>3, FrameType, PushKeeps DEF imp_acquire_lock, InCode, Doing
<1>4. CASE fork(t)
  BY <1>2, <1>4, FrameType, PushKeeps DEF fork, InCode, Doing
<1> QED
  BY <1>1, <1>3, <1>4 DEF Enters

LEMMA AdvancesKeeps ==
    ASSUME LockInv, NEW t \in Thread, Advances(t)
    PROVE  LockInv'
<1> DEFINE h == Head(Top(t).todo)
<1>1. TypeOK /\ TodoLeft /\ Counted /\ SysModules
  BY DEF LockInv, TypeOK, SysModules
<1>2. ASSUME NEW doing \in {"reading", "executing"}, SysModules',
             Depth(t) > 0, Top(t).doing \in {"finding", "reading"},
             Replaced(t, Frame(doing, Top(t).todo)), UNCHANGED <<cur, pc, counts>>
      PROVE  LockInv'
  <2> DEFINE f == Frame(doing, Top(t).todo)
  <2>1. f \in Frames /\ f.todo # <<>>
    BY <1>1, <1>2, TopFrame, FrameType DEF Doing
  <2>2. Replaced(t, f)
    BY <1>2
  <2> HIDE DEF f
  <2> QED
    BY <1>2, <2>1, <2>2, ReplaceKeeps
<1>3. CASE load_part(t)
  <2>1. Runs(t) /\ Depth(t) > 0 /\ Top(t).doing = "finding" /\ SysModules'
    BY <1>1, <1>3 DEF load_part, Does, SysModules
  <2> QED
    BY <1>2, <1>3, <2>1, NextPartKeeps DEF load_part
<1>4. CASE ImportError(t) \/ imp_release_lock(t) \/ fork_parent(t)
  <2>1. Runs(t) /\ Depth(t) > 0 /\ release_lock(t) /\ SysModules'
    BY <1>1, <1>4 DEF ImportError, imp_release_lock, fork_parent, Does, SysModules
  <2> QED
    BY <2>1, PopKeeps
<1>5. CASE load_module(t)
  <2>1. Depth(t) > 0 /\ Top(t).doing = "reading"
    BY <1>5 DEF load_module, Does
  <2>2. SysModules'
    BY <1>1, <1>5 DEF load_module, SysModules
  <2> QED
    BY <1>2, <1>5, <2>1, <2>2 DEF load_module
<1>6. CASE executed(t) \/ raised(t)
  <2>1. Runs(t) /\ Depth(t) > 0 /\ Top(t).doing = "executing"
    BY <1>6 DEF executed, raised, Does
  <2>2. SysModules'
    BY <1>1, <1>6 DEF executed, raised, SysModules
  <2> QED
    BY <1>6, <2>1, <2>2, PopKeeps, NextPartKeeps DEF executed, raised
<1>7. CASE fork_child(t)
  <2> DEFINE r == SubSeq(stack[t], 1, Depth(t) - 1)
  <2>1. Depth(t) > 0 /\ stack[t] \in Seq(Frames) /\ Depth(t) \in Nat
    BY <1>1, <1>7, StackFacts DEF fork_child, Does
  <2>2. /\ r \in Seq(Frames) /\ Len(r) = Depth(t) - 1
        /\ \A i \in 1..Depth(t) - 1 : r[i] = stack[t][i]
    BY <2>1, PoppedStack DEF Depth
  <2>3. stack' = [u \in Thread |-> IF u = t THEN r ELSE <<>>]
    BY <1>7 DEF fork_child
  <2> HIDE DEF r
  <2>4. stack' \in [Thread -> Seq([doing : Doing, todo : Seq(Module)])]
    BY <2>2, <2>3 DEF Frames
  <2>5. /\ lock' = FALSE /\ lockowner' = NoOne /\ lockcounter' = 0 /\ UNCHANGED <<cur, modules>> /\ cur = t
        /\ pc' = [u \in Thread |-> IF u = t THEN "run" ELSE "off"]
    BY <1>7 DEF fork_child, Does, Runs
  <2>6. TypeOK'
    BY <1>1, <2>4, <2>5 DEF TypeOK
  <2>7. TodoLeft'
    <3> SUFFICES ASSUME NEW u \in Thread, NEW i \in 1..Depth(u)',
                        stack'[u][i].doing \in {"finding", "reading", "executing"}
                 PROVE  stack'[u][i].todo # <<>>
      BY DEF TodoLeft
    <3>1. CASE u = t
      <4>1. i \in 1..Depth(t) - 1 /\ i \in 1..Depth(t)
        BY <3>1, <2>1, <2>2, <2>3 DEF Depth
      <4> QED
        BY <3>1, <4>1, <1>1, <2>2, <2>3 DEF TodoLeft
    <3>2. CASE u # t
      <4>1. Depth(u)' = 0
        BY <3>2, <2>3, EmptySeq DEF Depth
      <4> QED
        BY <4>1
    <3> QED
      BY <3>1, <3>2
  <2>8. Counted'
    BY <2>5, ImportConstants DEF Counted, Holding, ImportConstants
  <2> QED
    BY <2>6, <2>7, <2>8 DEF LockInv
<1> QED
  BY <1>3, <1>4, <1>5, <1>6, <1>7 DEF Advances

LEMMA LockInductive == Spec => []LockInv
<1>1. ASSUME LockInv, NEW t \in Thread, ThreadStep(t) PROVE LockInv'
  BY <1>1, ThreadsKeep, EntersKeeps, AdvancesKeeps DEF ThreadStep
<1>2. ASSUME LockInv, UNCHANGED vars PROVE LockInv'
  BY <1>2 DEF vars, LockInv, TypeOK, TodoLeft, Counted, Holding, Depth
<1>3. LockInv /\ [Next]_vars => LockInv'
  BY <1>1, <1>2 DEF Next, exited
<1> QED
  BY <1>3, InitLockInv, PTL DEF Spec

(* The types, in every process.                                            *)
THEOREM ImportTypeCorrect == Spec => []TypeOK
<1>1. LockInv => TypeOK
  BY DEF LockInv
<1> QED
  BY <1>1, LockInductive, PTL

(* The assertions of acquire_lock and of Lock.release never fail, although *)
(* the owner and the system's lock change with the GIL let go in between,  *)
(* and although a child may have been forked inside an import.             *)
THEOREM AssertionsHold == Spec => []AcquiredFree
<1>1. LockInv => AcquiredFree
  BY DEF LockInv, Counted, Holding, AcquiredFree
<1> QED
  BY <1>1, LockInductive, PTL

(* Whoever has the system's lock is alive and does not wait for it: a      *)
(* thread in the C function that takes or releases it, or the owner, with  *)
(* the frames whose ends will release it.  Nobody waits for it with the    *)
(* GIL, which the owner needs.                                             *)
LockKept ==
    /\ lock => \E t \in Thread :
                  \/ Holding(t)
                  \/ /\ lockowner = t /\ pc[t] = "run"
                     /\ lockcounter \in 1..Depth(t)
    /\ \A t \in Thread : cur = t => pc[t] = "run"

(* So no process is stuck on its import lock, not even one that was forked *)
(* while another thread of its parent held it.                             *)
THEOREM ImportLockKept == Spec => []LockKept
<1> SUFFICES ASSUME LockInv PROVE LockKept
  BY LockInductive, PTL
<1> SUFFICES ASSUME lock, \A t \in Thread : ~Holding(t)
             PROVE  \E t \in Thread : /\ lockowner = t /\ pc[t] = "run"
                                      /\ lockcounter \in 1..Depth(t)
  BY DEF LockKept, LockInv, Counted
<1>1. lockowner \in Thread /\ lockcounter \in Nat
  BY DEF LockInv, Counted, TypeOK
<1>2. Depth(lockowner) \in Nat
  BY <1>1, StackFacts DEF LockInv
<1> QED
  BY <1>1, <1>2, ImportConstants DEF LockInv, Counted, ImportConstants

-----------------------------------------------------------------------------
(* The three ways in which a step changes a stack and the lock.            *)

Before == TypeOK /\ Shape /\ HeldWhileImporting /\ Lock
LEMMA PushStep ==
    ASSUME Before, NEW t \in Thread, InCode(t), NEW f \in Frames,
           f.doing \in {"finding", "holding", "forking"},
           f.doing = "finding" => f.todo # <<>>,
           f.doing = "forking" => stack[t] = <<>>,
           acquire_lock(t, f)
    PROVE  /\ Before'
           /\ \A u \in Thread, m \in Module : Executes(u, m) => Executes(u, m)'
<1> DEFINE r == Append(stack[t], f)
<1>1. /\ TypeOK /\ Shape /\ HeldWhileImporting /\ Lock
      /\ pc[t] = "run" /\ cur = t
  BY DEF Before, InCode, Runs
<1>2. /\ r \in Seq(Frames) /\ Len(r) = Depth(t) + 1 /\ r[Depth(t) + 1] = f
      /\ \A i \in 1..Depth(t) : r[i] = stack[t][i]
      /\ DOMAIN r = 1..(Depth(t) + 1)
  <2>1. stack[t] \in Seq(Frames) /\ Depth(t) \in Nat
    BY <1>1, StackFacts
  <2>2. DOMAIN r = 1..Len(r)
    BY <2>1, PushedStack, LenProperties
  <2> QED
    BY <2>1, <2>2, PushedStack DEF Depth
<1>3. /\ stack' = [stack EXCEPT ![t] = r]
      /\ stack'[t] = r /\ \A u \in Thread \ {t} : stack'[u] = stack[u]
      /\ stack' \in [Thread -> Seq(Frames)]
  BY <1>1, <1>2 DEF acquire_lock, Pushed, TypeOK, Frames
<1>4. TypeOK'
  <2>1. lockcounter' \in Nat /\ cur' \in Thread \cup {NoOne}
    BY <1>1 DEF acquire_lock, TypeOK
  <2>2. pc' \in [Thread -> {"off", "run", "acquiring", "got", "releasing", "released"}]
    BY <1>1 DEF acquire_lock, TypeOK
  <2> QED
    BY <2>1, <2>2, <1>1, <1>3 DEF acquire_lock, TypeOK, Frames
<1>5. Depth(t)' = Depth(t) + 1 /\ \A u \in Thread \ {t} : Depth(u)' = Depth(u)
  BY <1>2, <1>3 DEF Depth
<1>6. Depth(t) \in Nat /\ \A u \in Thread : DOMAIN stack[u] = 1..Depth(u)
  BY <1>1, StackFacts
<1>7. CASE lockowner = t
  <2>1. UNCHANGED <<cur, pc, lock, lockowner>> /\ lockcounter' = lockcounter + 1
    BY <1>7 DEF acquire_lock
  <2>2. Depth(t) > 0
    BY <1>1, <1>7 DEF HeldWhileImporting
  <2>3. Top(t).doing # "forking" /\ f.doing # "forking"
    BY <2>2 DEF InCode, Depth
  <2>4. \A i \in 1..Depth(t) : stack[t][i].doing # "forking"
    BY <1>1, <1>6, <2>2, <2>3 DEF Shape, Top
  <2>5. Shape'
    <3> SUFFICES ASSUME NEW u \in Thread
                 PROVE  (/\ pc[u] \in {"off", "releasing", "released"} => Depth(u) = 0
                         /\ pc[u] \in {"acquiring", "got"} =>
                              Depth(u) = 1 /\ stack[u][1].doing \notin {"reading", "executing"}
                         /\ \A i \in 1..Depth(u) :
                              /\ stack[u][i].doing \in {"finding", "reading", "executing"} =>
                                   stack[u][i].todo # <<>>
                              /\ stack[u][i].doing = "forking" => Depth(u) = 1)'
      BY DEF Shape
    <3>1. CASE u = t
      <4>1. \A i \in 1..(Depth(t) + 1) : i \in 1..Depth(t) \/ i = Depth(t) + 1
        BY <1>6
      <4> QED
        BY <3>1, <4>1, <1>1, <1>2, <1>3, <1>5, <2>1, <2>3, <2>4 DEF Shape
    <3>2. CASE u # t
      BY <3>2, <1>1, <1>3, <1>5, <2>1 DEF Shape
    <3> QED
      BY <3>1, <3>2
  <2>6. HeldWhileImporting'
    BY <1>1, <1>5, <1>6, <1>7, <2>1, <2>2 DEF HeldWhileImporting
  <2>7. Lock'
    BY <1>1, <1>7, <2>1, ImportConstants DEF Lock, Holding, ImportConstants
  <2> QED
    BY <1>4, <2>5, <2>6, <2>7, <1>2, <1>3, <1>6 DEF Before, Executes
<1>8. CASE lockowner # t
  <2>1. /\ pc' = [pc EXCEPT ![t] = "acquiring"]
        /\ UNCHANGED <<lock, lockowner, lockcounter>>
    BY <1>8 DEF acquire_lock
  <2>2. pc'[t] = "acquiring" /\ \A u \in Thread \ {t} : pc'[u] = pc[u]
    BY <1>1, <2>1 DEF TypeOK
  <2>3. Depth(t) = 0
    BY <1>1, <1>6, <1>8 DEF HeldWhileImporting
  <2>4. Shape'
    <3> SUFFICES ASSUME NEW u \in Thread
                 PROVE  (/\ pc[u] \in {"off", "releasing", "released"} => Depth(u) = 0
                         /\ pc[u] \in {"acquiring", "got"} =>
                              Depth(u) = 1 /\ stack[u][1].doing \notin {"reading", "executing"}
                         /\ \A i \in 1..Depth(u) :
                              /\ stack[u][i].doing \in {"finding", "reading", "executing"} =>
                                   stack[u][i].todo # <<>>
                              /\ stack[u][i].doing = "forking" => Depth(u) = 1)'
      BY DEF Shape
    <3>1. CASE u = t
      BY <3>1, <1>2, <1>3, <1>5, <2>2, <2>3
    <3>2. CASE u # t
      BY <3>2, <1>1, <1>3, <1>5, <2>2 DEF Shape
    <3> QED
      BY <3>1, <3>2
  <2>5. HeldWhileImporting'
    BY <1>1, <1>5, <1>6, <1>8, <2>1, <2>2 DEF HeldWhileImporting
  <2>6. Lock'
    BY <1>1, <1>8, <2>1, <2>2 DEF Lock, Holding
  <2> QED
    BY <1>4, <2>4, <2>5, <2>6, <2>3, <1>2, <1>3, <1>6 DEF Before, Executes
<1> QED
  BY <1>7, <1>8

LEMMA PopStep ==
    ASSUME Before, SysModules', NEW t \in Thread, Runs(t), Depth(t) > 0, release_lock(t)
    PROVE  /\ Before'
           /\ \A u \in Thread, m \in Module :
                 Executes(u, m) => \/ Executes(u, m)'
                                   \/ u = t /\ Top(t).doing = "executing"
                                            /\ Head(Top(t).todo) = m
<1> DEFINE r == SubSeq(stack[t], 1, Depth(t) - 1)
<1>1. /\ TypeOK /\ Shape /\ HeldWhileImporting /\ Lock
      /\ pc[t] = "run" /\ cur = t
  BY DEF Before, Runs
<1>2. /\ r \in Seq(Frames) /\ Len(r) = Depth(t) - 1
      /\ \A i \in 1..Depth(t) - 1 : r[i] = stack[t][i]
      /\ DOMAIN r = 1..(Depth(t) - 1)
  <2>1. stack[t] \in Seq(Frames) /\ Depth(t) \in Nat /\ Len(stack[t]) > 0
    BY <1>1, StackFacts DEF Depth
  <2>2. /\ r \in Seq(Frames) /\ Len(r) = Depth(t) - 1
        /\ \A i \in 1..Depth(t) - 1 : r[i] = stack[t][i]
    BY <2>1, PoppedStack DEF Depth
  <2>3. DOMAIN r = 1..Len(r)
    BY <2>2, LenProperties
  <2> QED
    BY <2>2, <2>3
<1> HIDE DEF r
<1>3. /\ stack'[t] = r /\ \A u \in Thread \ {t} : stack'[u] = stack[u]
      /\ stack' \in [Thread -> Seq(Frames)]
  <2>1. stack' = [stack EXCEPT ![t] = r]
    BY DEF release_lock, Popped, r, Depth
  <2> QED
    BY <2>1, <1>1, <1>2 DEF TypeOK, Frames
<1>4. /\ Depth(t)' = Depth(t) - 1 /\ \A u \in Thread \ {t} : Depth(u)' = Depth(u)
      /\ \A u \in Thread : DOMAIN stack'[u] = 1..Depth(u)'
  <2>1. \A u \in Thread : DOMAIN stack'[u] = 1..Depth(u)'
    BY <1>3, LenProperties DEF Depth
  <2> QED
    BY <2>1, <1>2, <1>3 DEF Depth
<1>5. Depth(t) \in Nat /\ \A u \in Thread : DOMAIN stack[u] = 1..Depth(u)
  BY <1>1, StackFacts
<1>6. lockowner = t /\ lockcounter = Depth(t) /\ UNCHANGED lock
  BY <1>1 DEF HeldWhileImporting, release_lock
<1>7. /\ lockcounter' = Depth(t) - 1
      /\ IF Depth(t) = 1
           THEN /\ lockowner' = NoOne
                /\ cur' = NoOne /\ pc' = [pc EXCEPT ![t] = "releasing"]
           ELSE UNCHANGED <<cur, pc, lockowner>>
  BY <1>6 DEF release_lock, FreeLock
<1>8. TypeOK'
  <2>1. lockcounter' \in Nat /\ cur' \in Thread \cup {NoOne} /\ lockowner' \in Thread \cup {NoOne}
    BY <1>1, <1>5, <1>7 DEF TypeOK
  <2>2. pc' \in [Thread -> {"off", "run", "acquiring", "got", "releasing", "released"}]
    BY <1>1, <1>7 DEF TypeOK
  <2> QED
    BY <2>1, <2>2, <1>1, <1>3, <1>6 DEF SysModules, TypeOK, Frames
<1>9. /\ \A u \in Thread \ {t} : pc'[u] = pc[u]
      /\ pc'[t] = IF Depth(t) = 1 THEN "releasing" ELSE "run"
  BY <1>1, <1>7 DEF TypeOK
<1>10. Shape'
  <2> SUFFICES ASSUME NEW u \in Thread
               PROVE  (/\ pc[u] \in {"off", "releasing", "released"} => Depth(u) = 0
                       /\ pc[u] \in {"acquiring", "got"} =>
                            Depth(u) = 1 /\ stack[u][1].doing \notin {"reading", "executing"}
                       /\ \A i \in 1..Depth(u) :
                            /\ stack[u][i].doing \in {"finding", "reading", "executing"} =>
                                 stack[u][i].todo # <<>>
                            /\ stack[u][i].doing = "forking" => Depth(u) = 1)'
    BY DEF Shape
  <2>1. CASE u = t
    <3>1. \A i \in 1..(Depth(t) - 1) : i \in 1..Depth(t) /\ Depth(t) # 1
      BY <1>5
    <3>2. \A i \in 1..(Depth(t) - 1) :
             /\ stack[t][i].doing \in {"finding", "reading", "executing"} => stack[t][i].todo # <<>>
             /\ stack[t][i].doing # "forking"
      BY <1>1, <3>1 DEF Shape
    <3>3. \A i \in 1..(Depth(t) - 1) : stack'[t][i] = stack[t][i]
      BY <1>2, <1>3
    <3> QED
      BY <2>1, <3>2, <3>3, <1>4, <1>9
  <2>2. CASE u # t
    BY <2>2, <1>1, <1>3, <1>4, <1>9 DEF Shape
  <2> QED
    BY <2>1, <2>2
<1>11. HeldWhileImporting'
  BY <1>1, <1>4, <1>5, <1>6, <1>7, <1>9, ImportConstants DEF HeldWhileImporting, ImportConstants
<1>12. Lock'
  <2>1. \A u \in Thread : ~Holding(u)
    BY <1>1, <1>6, ImportConstants DEF Lock, ImportConstants
  <2>2. \A u \in Thread : Holding(u)' => u = t /\ Depth(t) = 1
    BY <2>1, <1>9 DEF Holding
  <2>3. lock'
    BY <1>1, <1>6, ImportConstants DEF Lock, ImportConstants
  <2>4. Depth(t) = 1 => Holding(t)'
    BY <1>9 DEF Holding
  <2> QED
    BY <2>2, <2>3, <2>4, <1>5, <1>6, <1>7, ImportConstants DEF Lock, ImportConstants
<1>13. ASSUME NEW u \in Thread, NEW m \in Module, Executes(u, m),
              ~(u = t /\ Top(t).doing = "executing" /\ Head(Top(t).todo) = m)
       PROVE  Executes(u, m)'
  <2>1. CASE u = t
    <3>1. PICK i \in 1..Depth(t) : stack[t][i].doing = "executing" /\ Head(stack[t][i].todo) = m
      BY <1>13, <1>5, <2>1 DEF Executes
    <3>2. i \in 1..Depth(t) - 1
      BY <1>13, <1>5, <2>1, <3>1 DEF Top
    <3> QED
      BY <2>1, <3>1, <3>2, <1>2, <1>3, <1>4 DEF Executes
  <2>2. CASE u # t
    BY <1>13, <1>3, <2>2 DEF Executes
  <2> QED
    BY <2>1, <2>2
<1> QED
  BY <1>8, <1>10, <1>11, <1>12, <1>13 DEF Before

LEMMA ReplaceStep ==
    ASSUME Before, SysModules', NEW t \in Thread, Runs(t), Depth(t) > 0,
           NEW f \in Frames,
           f.doing \in {"finding", "reading", "executing"}, f.todo # <<>>,
           Top(t).doing # "forking",
           Replaced(t, f), UNCHANGED <<cur, pc, counts>>
    PROVE  /\ Before'
           /\ \A m \in Module :
                 f.doing = "executing" /\ Head(f.todo) = m => Executes(t, m)'
           /\ \A u \in Thread, m \in Module :
                 Executes(u, m) => \/ Executes(u, m)'
                                   \/ u = t /\ Top(t).doing = "executing"
                                            /\ Head(Top(t).todo) = m
<1> DEFINE r == [stack[t] EXCEPT ![Depth(t)] = f]
<1>1. /\ TypeOK /\ Shape /\ HeldWhileImporting /\ Lock
      /\ pc[t] = "run" /\ cur = t
      /\ UNCHANGED <<cur, pc, lock, lockowner, lockcounter>>
  BY DEF Before, Runs, counts
<1>2. Depth(t) \in Nat /\ \A u \in Thread : DOMAIN stack[u] = 1..Depth(u)
  BY <1>1, StackFacts
<1>3. /\ r \in Seq(Frames) /\ Len(r) = Depth(t) /\ r[Depth(t)] = f
      /\ \A i \in 1..Depth(t) - 1 : r[i] = stack[t][i]
      /\ DOMAIN r = 1..Depth(t)
  <2>1. stack[t] \in Seq(Frames) /\ Len(stack[t]) > 0
    BY <1>1, StackFacts DEF Depth
  <2>2. /\ r \in Seq(Frames) /\ Len(r) = Depth(t) /\ r[Depth(t)] = f
        /\ \A i \in 1..Depth(t) - 1 : r[i] = stack[t][i]
    BY <2>1, ReplacedStack DEF Depth
  <2>3. DOMAIN r = 1..Len(r)
    BY <2>2, LenProperties
  <2> QED
    BY <2>2, <2>3
<1> HIDE DEF r
<1>4. /\ stack'[t] = r /\ \A u \in Thread \ {t} : stack'[u] = stack[u]
      /\ stack' \in [Thread -> Seq(Frames)]
  <2>1. stack' = [stack EXCEPT ![t] = r]
    BY DEF Replaced, r
  <2> QED
    BY <2>1, <1>1, <1>3 DEF TypeOK, Frames
<1>5. \A u \in Thread : Depth(u)' = Depth(u)
  BY <1>3, <1>4 DEF Depth
<1>6. TypeOK'
  BY <1>1, <1>4 DEF SysModules, TypeOK, Frames
<1>7. \A i \in 1..Depth(t) : i \in 1..Depth(t) - 1 \/ i = Depth(t)
  BY <1>2
<1>8. \A i \in 1..Depth(t) : stack[t][i].doing # "forking"
  <2>1. Depth(t) \in 1..Depth(t)
    BY <1>2
  <2> QED
    BY <2>1, <1>1, <1>2 DEF Shape, Top
<1>9. Shape'
  <2> SUFFICES ASSUME NEW u \in Thread
               PROVE  (/\ pc[u] \in {"off", "releasing", "released"} => Depth(u) = 0
                       /\ pc[u] \in {"acquiring", "got"} =>
                            Depth(u) = 1 /\ stack[u][1].doing \notin {"reading", "executing"}
                       /\ \A i \in 1..Depth(u) :
                            /\ stack[u][i].doing \in {"finding", "reading", "executing"} =>
                                 stack[u][i].todo # <<>>
                            /\ stack[u][i].doing = "forking" => Depth(u) = 1)'
    BY DEF Shape
  <2>1. CASE u = t
    BY <2>1, <1>1, <1>3, <1>4, <1>5, <1>7, <1>8 DEF Shape
  <2>2. CASE u # t
    BY <2>2, <1>1, <1>4, <1>5 DEF Shape
  <2> QED
    BY <2>1, <2>2
<1>10. HeldWhileImporting'
  BY <1>1, <1>5 DEF HeldWhileImporting
<1>11. Lock'
  BY <1>1 DEF Lock, Holding
<1>12. \A m \in Module :
          f.doing = "executing" /\ Head(f.todo) = m => Executes(t, m)'
  BY <1>2, <1>3, <1>4 DEF Executes
<1>13. ASSUME NEW u \in Thread, NEW m \in Module, Executes(u, m),
              ~(u = t /\ Top(t).doing = "executing" /\ Head(Top(t).todo) = m)
       PROVE  Executes(u, m)'
  <2>1. CASE u = t
    <3>1. PICK i \in 1..Depth(t) : stack[t][i].doing = "executing" /\ Head(stack[t][i].todo) = m
      BY <1>13, <1>2, <2>1 DEF Executes
    <3>2. i \in 1..Depth(t) - 1
      BY <1>13, <1>7, <2>1, <3>1 DEF Top
    <3> QED
      BY <2>1, <3>1, <3>2, <1>3, <1>4 DEF Executes
  <2>2. CASE u # t
    BY <1>13, <1>4, <2>2 DEF Executes
  <2> QED
    BY <2>1, <2>2
<1> QED
  BY <1>6, <1>9, <1>10, <1>11, <1>12, <1>13 DEF Before

LEMMA NextPartStep ==
    ASSUME Before, SysModules', NEW t \in Thread, Runs(t), Depth(t) > 0,
           Top(t).doing \in {"finding", "executing"}, NextPart(t)
    PROVE  /\ Before'
           /\ \A u \in Thread, m \in Module :
                 Executes(u, m) => \/ Executes(u, m)'
                                   \/ u = t /\ Top(t).doing = "executing"
                                            /\ Head(Top(t).todo) = m
<1> DEFINE rest == Tail(Top(t).todo)
<1>1. CASE rest = <<>>
  BY <1>1, PopStep DEF NextPart
<1>2. CASE rest # <<>>
  <2>1. Top(t) \in Frames /\ Depth(t) \in 1..Depth(t)
    BY StackFacts DEF Before
  <2>2. Top(t).todo \in Seq(Module) /\ Top(t).todo # <<>>
    BY <2>1 DEF Before, Shape, Top, Frames
  <2>3. rest \in Seq(Module)
    BY <2>2, HeadTailProperties
  <2>4. /\ Frame("finding", rest) \in Frames /\ Frame("finding", rest).doing = "finding"
        /\ Frame("finding", rest).todo = rest
    BY <2>3, FrameType DEF Doing
  <2>5. Replaced(t, Frame("finding", rest)) /\ UNCHANGED <<cur, pc, counts>>
    BY <1>2 DEF NextPart
  <2>6. /\ Frame("finding", rest).doing \in {"finding", "reading", "executing"}
        /\ Frame("finding", rest).todo # <<>> /\ Top(t).doing # "forking"
    BY <1>2, <2>4
  <2> HIDE DEF rest
  <2> QED
    BY <2>4, <2>5, <2>6, ReplaceStep
<1> QED
  BY <1>1, <1>2

-----------------------------------------------------------------------------
(* The invariant is inductive, as long as no thread forks while it holds   *)
(* the lock.                                                               *)

(* The module that the innermost frame is about.                           *)
LEMMA TopModule ==
    ASSUME Before, NEW t \in Thread, Depth(t) > 0,
           Top(t).doing \in {"finding", "reading", "executing"}
    PROVE  /\ Top(t).todo \in Seq(Module) /\ Top(t).todo # <<>>
           /\ Head(Top(t).todo) \in Module
<1>1. Top(t) \in Frames /\ Depth(t) \in 1..Depth(t)
  BY StackFacts DEF Before
<1>2. Top(t).todo \in Seq(Module) /\ Top(t).todo # <<>>
  BY <1>1 DEF Before, Shape, Top, Frames
<1> QED
  BY <1>2, HeadTailProperties

LEMMA InitIInv == Init => IInv
<1> SUFFICES ASSUME Init PROVE IInv
  OBVIOUS
<1>1. \A t \in Thread : stack[t] = <<>> /\ Depth(t) = 0
  BY EmptySeq DEF Init, Depth
<1>2. TypeOK
  <2>1. stack \in [Thread -> Seq([doing : Doing, todo : Seq(Module)])]
    BY DEF Init
  <2> QED
    BY <2>1, ImportConstants DEF Init, TypeOK, ImportConstants
<1>3. Shape
  <2> SUFFICES ASSUME NEW t \in Thread
               PROVE  /\ pc[t] \notin {"acquiring", "got"} /\ Depth(t) = 0
                      /\ \A i \in 1..Depth(t) : FALSE
    BY DEF Shape
  <2> QED
    BY <1>1 DEF Init
<1>4. HeldWhileImporting
  <2> SUFFICES ASSUME NEW t \in Thread PROVE ~(Depth(t) > 0) /\ lockowner # t
    BY DEF HeldWhileImporting
  <2> QED
    BY <1>1, ImportConstants DEF Init, ImportConstants
<1>5. Lock
  BY DEF Init, Lock, Holding
<1>6. Partial
  BY DEF Init, Partial
<1> QED
  BY <1>2, <1>3, <1>4, <1>5, <1>6 DEF IInv

(* Steps that leave the stacks and sys.modules alone.                      *)
LEMMA ThreadsStep ==
    ASSUME IInv, NEW t \in Thread, UNCHANGED <<stack, modules>>,
           \/ GilStep(t) \/ LockStep(t) \/ end(t)
           \/ \E u \in Thread : start(t, u)
    PROVE  IInv'
<1>1. /\ TypeOK /\ Shape /\ HeldWhileImporting /\ Lock /\ Partial
  BY DEF IInv
<1>2. \A u \in Thread : Depth(u) \in Nat /\ Depth(u)' = Depth(u)
  BY <1>1, StackFacts DEF Depth
<1>3. Partial'
  BY <1>1 DEF Partial, Executes
<1>4. CASE LeaveGil(t)
  BY <1>1, <1>2, <1>3, <1>4 DEF LeaveGil, IInv, TypeOK, Shape, HeldWhileImporting, Lock, Holding
<1>5. ASSUME NEW v \in Thread, NEW now \in {"off", "run"},
             pc' = [pc EXCEPT ![v] = now], pc[v] \in {"off", "run", "released"},
             Depth(v) = 0 \/ (pc[v] = "run" /\ now = "run"),
             cur' \in Thread \cup {NoOne},
             UNCHANGED <<lock, lockowner, lockcounter>>
      PROVE  IInv'
  <2>1. pc'[v] = now /\ \A u \in Thread \ {v} : pc'[u] = pc[u]
    BY <1>1, <1>5 DEF TypeOK
  <2>2. TypeOK'
    BY <1>1, <1>5 DEF TypeOK
  <2>3. Shape'
    BY <1>1, <1>2, <1>5, <2>1 DEF Shape
  <2>4. HeldWhileImporting'
    BY <1>1, <1>2, <1>5, <2>1 DEF HeldWhileImporting
  <2>5. Lock'
    BY <1>1, <1>5, <2>1 DEF Lock, Holding
  <2> QED
    BY <1>3, <2>2, <2>3, <2>4, <2>5 DEF IInv
<1>6. CASE EnterGil(t)
  <2>1. Depth(t) = 0 \/ pc[t] = "run"
    BY <1>1, <1>6 DEF EnterGil, Shape
  <2> QED
    BY <1>5, <1>6, <2>1 DEF EnterGil
<1>7. CASE end(t)
  BY <1>5, <1>7 DEF end, Runs, Depth
<1>8. ASSUME NEW u \in Thread, start(t, u) PROVE IInv'
  <2>1. Depth(u) = 0
    BY <1>1, <1>8 DEF start, Shape
  <2> QED
    BY <1>1, <1>5, <1>8, <2>1 DEF start, TypeOK
<1>9. CASE c_thread_acquirelock(t)
  <2>1. pc[t] = "acquiring" /\ ~lock /\ lock' = TRUE
    BY <1>9 DEF c_thread_acquirelock
  <2>2. pc'[t] = "got" /\ \A u \in Thread \ {t} : pc'[u] = pc[u]
    BY <1>1, <1>9 DEF c_thread_acquirelock, TypeOK
  <2>3. UNCHANGED <<cur, lockowner, lockcounter>> /\ lockowner = NoOne
    BY <1>1, <2>1, <1>9 DEF c_thread_acquirelock, Lock
  <2>4. TypeOK'
    BY <1>1, <1>9 DEF c_thread_acquirelock, TypeOK
  <2>5. Shape'
    BY <1>1, <1>2, <2>1, <2>2 DEF Shape
  <2>6. HeldWhileImporting'
    BY <1>1, <1>2, <2>1, <2>2, <2>3, ImportConstants DEF HeldWhileImporting, ImportConstants
  <2>7. Lock'
    BY <1>1, <2>1, <2>2, <2>3 DEF Lock, Holding
  <2> QED
    BY <1>3, <2>4, <2>5, <2>6, <2>7 DEF IInv
<1>10. CASE acquired(t)
  <2>1. pc[t] = "got" /\ lockowner' = t /\ lockcounter' = lockcounter + 1 /\ UNCHANGED lock
    BY <1>10 DEF acquired
  <2>2. pc'[t] = "run" /\ \A u \in Thread \ {t} : pc'[u] = pc[u]
    BY <1>1, <1>10 DEF acquired, TypeOK
  <2>3. lock /\ lockowner = NoOne /\ lockcounter = 0 /\ Depth(t) = 1
    BY <1>1, <2>1 DEF Lock, Holding, Shape
  <2>4. TypeOK'
    <3>1. lockcounter' \in Nat /\ lockowner' \in Thread /\ cur' \in Thread
      BY <1>1, <1>10 DEF acquired, TypeOK
    <3>2. pc' \in [Thread -> {"off", "run", "acquiring", "got", "releasing", "released"}]
      BY <1>1, <1>10 DEF acquired, TypeOK
    <3> QED
      BY <1>1, <1>10, <3>1, <3>2 DEF acquired, TypeOK
  <2>5. Shape'
    BY <1>1, <1>2, <2>1, <2>2 DEF Shape
  <2>6. HeldWhileImporting'
    BY <1>1, <1>2, <2>1, <2>2, <2>3 DEF HeldWhileImporting
  <2>7. Lock'
    BY <1>1, <2>1, <2>2, <2>3, ImportConstants DEF Lock, Holding, ImportConstants
  <2> QED
    BY <1>3, <2>4, <2>5, <2>6, <2>7 DEF IInv
<1>11. CASE c_thread_releaselock(t)
  <2>1. pc[t] = "releasing" /\ lock' = FALSE /\ UNCHANGED <<cur, lockowner, lockcounter>>
    BY <1>11 DEF c_thread_releaselock
  <2>2. pc'[t] = "released" /\ \A u \in Thread \ {t} : pc'[u] = pc[u]
    BY <1>1, <1>11 DEF c_thread_releaselock, TypeOK
  <2>3. TypeOK'
    BY <1>1, <1>11 DEF c_thread_releaselock, TypeOK
  <2>4. Shape'
    BY <1>1, <1>2, <2>1, <2>2 DEF Shape
  <2>5. HeldWhileImporting'
    BY <1>1, <1>2, <2>1, <2>2 DEF HeldWhileImporting
  <2>6. Lock'
    BY <1>1, <2>1, <2>2 DEF Lock, Holding
  <2> QED
    BY <1>3, <2>3, <2>4, <2>5, <2>6 DEF IInv
<1> QED
  BY <1>4, <1>6, <1>7, <1>8, <1>9, <1>10, <1>11 DEF GilStep, LockStep

LEMMA EntersStep ==
    ASSUME ~ForkWithLock, IInv, NEW t \in Thread, Enters(t)
    PROVE  IInv'
<1>1. Before /\ Partial
  BY DEF IInv, Before
<1>2. ASSUME NEW f \in Frames, f.doing \in {"finding", "holding", "forking"},
             f.doing = "finding" => f.todo # <<>>,
             f.doing = "forking" => stack[t] = <<>>,
             InCode(t), acquire_lock(t, f)
      PROVE  IInv'
  <2>1. Before' /\ \A u \in Thread, m \in Module : Executes(u, m) => Executes(u, m)'
    BY <1>1, <1>2, PushStep
  <2>2. UNCHANGED modules
    BY <1>2 DEF acquire_lock
  <2> QED
    BY <1>1, <2>1, <2>2 DEF IInv, Before, Partial
<1>3. ASSUME NEW m \in Module, absolute_import(t, m) PROVE IInv'
  BY <1>2, <1>3, PathPart, FrameType DEF absolute_import, Doing
<1>4. <<>> \in Seq(Module)
  BY EmptySeq
<1>5. CASE imp_acquire_lock(t)
  BY <1>2, <1>4, <1>5, FrameType DEF imp_acquire_lock, Doing
<1>6. CASE fork(t)
  BY <1>2, <1>4, <1>6, FrameType DEF fork, Doing
<1> QED
  BY <1>3, <1>5, <1>6 DEF Enters

LEMMA AdvancesStep ==
    ASSUME ~ForkWithLock, IInv, NEW t \in Thread, Advances(t)
    PROVE  IInv'
<1> DEFINE h == Head(Top(t).todo)
<1>1. Before /\ Partial /\ TypeOK
  BY DEF IInv, Before
<1>2. SysModules
  BY <1>1 DEF TypeOK, SysModules
<1>3. CASE load_part(t)
  <2>1. /\ Runs(t) /\ Depth(t) > 0 /\ Top(t).doing = "finding" /\ UNCHANGED modules
    BY <1>3 DEF load_part, Does
  <2>2. SysModules'
    BY <1>2, <2>1 DEF SysModules
  <2>3. CASE modules[h] # "absent"
    <3>1. NextPart(t)
      BY <1>3, <2>3 DEF load_part
    <3>2. Before' /\ \A u \in Thread, m \in Module : Executes(u, m) => Executes(u, m)'
      BY <1>1, <2>1, <2>2, <3>1, NextPartStep
    <3> QED
      BY <1>1, <2>1, <3>2 DEF IInv, Before, Partial
  <2>4. CASE modules[h] = "absent"
    <3>1. Replaced(t, Frame("reading", Top(t).todo)) /\ UNCHANGED <<cur, pc, counts>>
      BY <1>3, <2>4 DEF load_part
    <3>2. Top(t).todo \in Seq(Module) /\ Top(t).todo # <<>>
      BY <1>1, <2>1, TopModule
    <3> DEFINE f == Frame("reading", Top(t).todo)
    <3>3. f \in Frames /\ f.doing = "reading" /\ f.todo # <<>>
      BY <3>2, FrameType DEF Doing
    <3>4. Replaced(t, f)
      BY <3>1
    <3> HIDE DEF f
    <3>5. Before' /\ \A u \in Thread, m \in Module : Executes(u, m) => Executes(u, m)'
      BY <1>1, <2>1, <2>2, <3>1, <3>3, <3>4, ReplaceStep
    <3> QED
      BY <1>1, <2>1, <3>5 DEF IInv, Before, Partial
  <2> QED
    BY <2>3, <2>4
<1>4. ASSUME Runs(t), Depth(t) > 0, Top(t).doing # "executing", UNCHANGED modules, release_lock(t)
      PROVE  IInv'
  <2>1. SysModules'
    BY <1>2, <1>4 DEF SysModules
  <2>2. Before' /\ \A u \in Thread, m \in Module : Executes(u, m) => Executes(u, m)'
    BY <1>1, <1>4, <2>1, PopStep
  <2> QED
    BY <1>1, <1>4, <2>2 DEF IInv, Before, Partial
<1>5. CASE ImportError(t)
  BY <1>4, <1>5 DEF ImportError, Does
<1>6. CASE imp_release_lock(t)
  BY <1>4, <1>6 DEF imp_release_lock, Does
<1>7. CASE fork_parent(t)
  BY <1>4, <1>7 DEF fork_parent, Does
<1>8. CASE load_module(t)
  <2>1. Runs(t) /\ Depth(t) > 0 /\ Top(t).doing = "reading"
    BY <1>8 DEF load_module, Does
  <2>2. Top(t).todo \in Seq(Module) /\ Top(t).todo # <<>> /\ h \in Module
    BY <1>1, <2>1, TopModule
  <2>3. SysModules' /\ \A m \in Module \ {h} : modules'[m] = modules[m]
    BY <1>2, <1>8, <2>2 DEF load_module, SysModules
  <2>4. PICK f \in Frames : f = Frame("executing", Top(t).todo)
    BY <2>2, FrameType DEF Doing
  <2>5. f.doing = "executing" /\ f.todo = Top(t).todo
    BY <2>2, <2>4, FrameType DEF Doing
  <2>6. Replaced(t, f) /\ UNCHANGED <<cur, pc, counts>>
    BY <1>8, <2>4 DEF load_module
  <2>7. PICK m \in Module : m = h
    BY <2>2
  <2>8. /\ Before' /\ Executes(t, m)'
        /\ \A u \in Thread, n \in Module : Executes(u, n) => Executes(u, n)'
    BY <1>1, <2>1, <2>2, <2>3, <2>5, <2>6, <2>7, ReplaceStep
  <2>9. \A n \in Module \ {m} : modules'[n] = modules[n]
    BY <2>3, <2>7
  <2> QED
    BY <1>1, <2>8, <2>9 DEF IInv, Before, Partial
<1>9. ASSUME Runs(t), Depth(t) > 0, Top(t).doing = "executing",
             NEW now \in {"loaded", "absent"},
             modules' = [modules EXCEPT ![h] = now],
             release_lock(t) \/ NextPart(t)
      PROVE  IInv'
  <2>1. h \in Module
    BY <1>1, <1>9, TopModule
  <2>2. /\ SysModules' /\ \A m \in Module \ {h} : modules'[m] = modules[m]
        /\ modules'[h] # "partial"
    BY <1>2, <1>9, <2>1 DEF SysModules
  <2>3. /\ Before'
        /\ \A u \in Thread, m \in Module : m # h /\ Executes(u, m) => Executes(u, m)'
    BY <1>1, <1>9, <2>2, PopStep, NextPartStep
  <2> QED
    BY <1>1, <2>2, <2>3 DEF IInv, Before, Partial
<1>10. CASE executed(t)
  BY <1>9, <1>10 DEF executed, Does
<1>11. CASE raised(t)
  BY <1>9, <1>11 DEF raised, Does
<1>12. CASE fork_child(t)
  <2>1. Runs(t) /\ Depth(t) > 0 /\ Top(t).doing = "forking" /\ pc[t] = "run"
    BY <1>12 DEF fork_child, Does, Runs
  <2>2. Depth(t) = 1 /\ stack[t][1].doing = "forking" /\ stack[t] \in Seq(Frames)
    BY <1>1, <2>1, StackFacts DEF Before, Shape, Top
  <2>3. SubSeq(stack[t], 1, Depth(t) - 1) = <<>>
    <3>1. SubSeq(stack[t], 1, 0) = <<>>
      BY SubSeqEmpty
    <3> QED
      BY <2>2, <3>1
  <2>4. stack' = [u \in Thread |-> <<>>]
    BY <1>12, <2>3 DEF fork_child
  <2>5. \A u \in Thread : stack'[u] = <<>> /\ Depth(u)' = 0
    BY <2>4, EmptySeq DEF Depth
  <2>6. pc' = [u \in Thread |-> IF u = t THEN "run" ELSE "off"]
    BY <1>12 DEF fork_child
  <2>7. lock' = FALSE /\ lockowner' = NoOne /\ lockcounter' = 0 /\ UNCHANGED <<cur, modules>>
    BY <1>12 DEF fork_child
  <2>8. TypeOK'
    <3>1. stack' \in [Thread -> Seq([doing : Doing, todo : Seq(Module)])]
      BY <2>4
    <3>2. pc' \in [Thread -> {"off", "run", "acquiring", "got", "releasing", "released"}]
      BY <2>6
    <3> QED
      BY <1>1, <2>7, <3>1, <3>2 DEF TypeOK
  <2>9. Shape'
    <3> SUFFICES ASSUME NEW u \in Thread
                 PROVE  (/\ pc[u] \notin {"acquiring", "got"} /\ Depth(u) = 0
                         /\ \A i \in 1..Depth(u) : FALSE)'
      BY DEF Shape
    <3> QED
      BY <2>5, <2>6
  <2>10. HeldWhileImporting'
    <3> SUFFICES ASSUME NEW u \in Thread PROVE (~(Depth(u) > 0) /\ lockowner # u)'
      BY DEF HeldWhileImporting
    <3> QED
      BY <2>5, <2>7, ImportConstants DEF ImportConstants
  <2>11. Lock'
    BY <2>6, <2>7 DEF Lock, Holding
  <2>12. Partial'
    <3> SUFFICES ASSUME NEW m \in Module, modules[m] = "partial" PROVE FALSE
      BY <2>7 DEF Partial
    <3>1. PICK u \in Thread : Executes(u, m)
      BY <1>1 DEF Partial
    <3>2. PICK i \in 1..Depth(u) : stack[u][i].doing = "executing"
      BY <1>1, <3>1, StackFacts DEF Executes
    <3>3. u # t
      BY <2>2, <3>2
    <3>4. lockowner = t
      BY <1>1, <2>1 DEF Before, HeldWhileImporting
    <3>5. ~(pc[u] = "run" /\ Depth(u) > 0)
      BY <1>1, <3>3, <3>4 DEF Before, HeldWhileImporting
    <3>6. Depth(u) \in Nat
      BY <1>1, StackFacts
    <3>7. pc[u] \in {"off", "run", "acquiring", "got", "releasing", "released"}
      BY <1>1 DEF TypeOK
    <3> QED
      BY <1>1, <3>2, <3>5, <3>6, <3>7 DEF Before, Shape
  <2> QED
    BY <2>8, <2>9, <2>10, <2>11, <2>12 DEF IInv
<1> QED
  BY <1>3, <1>5, <1>6, <1>7, <1>8, <1>10, <1>11, <1>12 DEF Advances

LEMMA NextIInv ==
    ASSUME ~ForkWithLock
    PROVE  IInv /\ [Next]_vars => IInv'
<1> SUFFICES ASSUME IInv, [Next]_vars PROVE IInv'
  OBVIOUS
<1>1. ASSUME NEW t \in Thread, ThreadStep(t) PROVE IInv'
  <2>1. CASE GilStep(t) \/ LockStep(t) \/ end(t) \/ \E u \in Thread : start(t, u)
    <3>1. UNCHANGED <<stack, modules>>
      BY <2>1 DEF GilStep, LeaveGil, EnterGil, LockStep, c_thread_acquirelock, acquired,
                  c_thread_releaselock, end, start
    <3> QED
      BY <2>1, <3>1, ThreadsStep
  <2>2. CASE Enters(t)
    BY <2>2, EntersStep
  <2>3. CASE Advances(t)
    BY <2>3, AdvancesStep
  <2> QED
    BY <1>1, <2>1, <2>2, <2>3 DEF ThreadStep
<1>2. CASE UNCHANGED vars
  <2>1. UNCHANGED <<cur, pc, stack, lock, lockowner, lockcounter, modules>>
    BY <1>2 DEF vars
  <2> QED
    BY <2>1 DEF IInv, TypeOK, Shape, HeldWhileImporting, Lock, Partial, Holding, Executes,
                Depth
<1> QED
  BY <1>1, <1>2 DEF Next, exited

LEMMA Inductive == ~ForkWithLock /\ Spec => []IInv
<1>1. ASSUME ~ForkWithLock PROVE IInv /\ [Next]_vars => IInv'
  BY <1>1, NextIInv
<1>2. CASE ForkWithLock
  BY <1>2
<1>3. CASE ~ForkWithLock
  <2>1. IInv /\ [Next]_vars => IInv'
    BY <1>1, <1>3
  <2> QED
    BY <2>1, InitIInv, PTL DEF Spec
<1> QED
  BY <1>2, <1>3

-----------------------------------------------------------------------------
(* No release_lock raises: the releasing thread is the owner, as often as  *)
(* it has frames.                                                          *)
THEOREM ReleasesMatch == ~ForkWithLock /\ Spec => []HeldWhileImporting
<1>1. IInv => HeldWhileImporting
  BY DEF IInv
<1> QED
  BY <1>1, Inductive, PTL

(* Whoever runs the code of a module owns the lock.                        *)
LEMMA ImporterOwns ==
    ASSUME IInv, NEW t \in Thread, NEW m \in Module, Executes(t, m)
    PROVE  lockowner = t
<1>1. TypeOK /\ Shape /\ HeldWhileImporting
  BY DEF IInv
<1>2. PICK i \in 1..Depth(t) : stack[t][i].doing = "executing"
  BY <1>1, StackFacts DEF Executes
<1>3. Depth(t) \in Nat /\ Depth(t) > 0
  BY <1>1, <1>2, StackFacts
<1>4. pc[t] \in {"off", "run", "acquiring", "got", "releasing", "released"}
  BY <1>1 DEF TypeOK
<1>5. pc[t] = "run"
  BY <1>1, <1>2, <1>3, <1>4 DEF Shape
<1> QED
  BY <1>1, <1>3, <1>5 DEF HeldWhileImporting

(* One thread at a time runs the code of modules.                          *)
THEOREM ImportsSerial == ~ForkWithLock /\ Spec => []OneImporter
<1>1. IInv => OneImporter
  BY ImporterOwns DEF OneImporter, Importing
<1> QED
  BY <1>1, Inductive, PTL

(* An import returns no module that another thread is still running.       *)
THEOREM ImportsComplete == ~ForkWithLock /\ Spec => []NoPartialSeen
<1>1. ASSUME IInv, NEW t \in Thread, NEW p \in Module,
             lockowner \in {NoOne, t}
      PROVE  Finished(t, p)
  <2> SUFFICES ASSUME modules[p] = "partial" PROVE Executes(t, p)
    BY DEF Finished
  <2>1. PICK u \in Thread : Executes(u, p)
    BY <1>1 DEF IInv, Partial
  <2>2. lockowner = u
    BY <1>1, <2>1, ImporterOwns
  <2> QED
    BY <1>1, <2>1, <2>2, ImportConstants DEF ImportConstants
<1>2. ASSUME IInv PROVE NoPartialSeen
  <2> SUFFICES ASSUME NEW t \in Thread
               PROVE  /\ InCode(t) => \A m \in Module :
                            FastPath(t, m) => \A p \in Range(Path[m]) : Finished(t, p)
                      /\ Does(t, "finding") => Finished(t, Head(Top(t).todo))
    BY DEF NoPartialSeen
  <2>1. ASSUME NEW m \in Module, FastPath(t, m), NEW p \in Range(Path[m])
        PROVE  Finished(t, p)
    <3>1. p \in Module
      BY <2>1, PathPart, ElementOfSeq, LenProperties DEF Range
    <3> QED
      BY <1>1, <1>2, <2>1, <3>1 DEF FastPath, lock_held_by_someone_else
  <2>2. ASSUME Does(t, "finding") PROVE Finished(t, Head(Top(t).todo))
    <3>1. Head(Top(t).todo) \in Module
      BY <1>2, <2>2, TopModule DEF Does, IInv, Before
    <3>2. lockowner = t
      BY <1>2, <2>2 DEF Does, Runs, IInv, HeldWhileImporting
    <3> QED
      BY <1>1, <1>2, <3>1, <3>2
  <2> QED
    BY <2>1, <2>2
<1> QED
  BY <1>2, Inductive, PTL
=============================================================================
