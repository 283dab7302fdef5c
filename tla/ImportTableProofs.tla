------------------------- MODULE ImportTableProofs -------------------------
(***************************************************************************)
(* ImportLock implements ModuleTable, for every number of threads and      *)
(* modules and every depth of nested imports, as long as no thread forks   *)
(* while it holds the lock.  What has to be added to the invariant of      *)
(* ImportLockProofs is how the frames of the stacks agree with             *)
(* sys.modules.                                                            *)
(***************************************************************************)
EXTENDS ImportLockProofs

Subject(t, i) == Head(stack[t][i].todo)

Frameworthy ==
    \A t \in Thread : \A i \in 1..Depth(t) :
        /\ stack[t][i].doing = "executing" => modules[Subject(t, i)] = "partial"
        /\ stack[t][i].doing = "reading" =>
              i = Depth(t) /\ modules[Subject(t, i)] = "absent"

(* A module is not executed again inside its own execution.                *)
Once ==
    \A t \in Thread : \A i, j \in 1..Depth(t) :
        /\ stack[t][i].doing = "executing" /\ stack[t][j].doing = "executing"
        /\ Subject(t, i) = Subject(t, j)
        => i = j

TableInv == IInv /\ Frameworthy /\ Once

Running == {p \in Thread \X Module : Executes(p[1], p[2])}

-----------------------------------------------------------------------------
(* Who has a frame that found, reads or executes a module is the owner.    *)
LEMMA WorkerOwns ==
    ASSUME IInv, NEW t \in Thread, NEW i \in 1..Depth(t),
           stack[t][i].doing \in {"reading", "executing"}
    PROVE  lockowner = t
<1>1. TypeOK /\ Shape /\ HeldWhileImporting
  BY DEF IInv
<1>2. Depth(t) \in Nat /\ Depth(t) > 0
  BY <1>1, StackFacts
<1>3. pc[t] \in {"off", "run", "acquiring", "got", "releasing", "released"}
  BY <1>1 DEF TypeOK
<1>4. pc[t] = "run"
  BY <1>1, <1>2, <1>3 DEF Shape
<1> QED
  BY <1>1, <1>2, <1>4 DEF HeldWhileImporting

LEMMA FrameSubject ==
    ASSUME IInv, NEW t \in Thread, NEW i \in 1..Depth(t),
           stack[t][i].doing \in {"reading", "executing"}
    PROVE  Subject(t, i) \in Module
<1>1. stack[t][i] \in Frames
  BY StackFacts DEF IInv
<1>2. stack[t][i].todo \in Seq(Module) /\ stack[t][i].todo # <<>>
  BY <1>1 DEF IInv, Shape, Frames
<1> QED
  BY <1>2, HeadTailProperties DEF Subject

LEMMA ExecutesFrame ==
    ASSUME TypeOK, NEW t \in Thread, NEW m \in Module
    PROVE  Executes(t, m) <=> \E i \in 1..Depth(t) :
                                 stack[t][i].doing = "executing" /\ Subject(t, i) = m
  BY StackFacts DEF Executes, Subject

(* What an ended execution has to do with the innermost frame.             *)
TopRuns(t, m) == Top(t).doing = "executing" /\ Head(Top(t).todo) = m

LEMMA RunningIs ==
    ASSUME NEW R, R \subseteq Thread \X Module,
           \A u \in Thread, m \in Module : Executes(u, m) <=> <<u, m>> \in R
    PROVE  Running = R
<1>1. \A p \in Thread \X Module : p = <<p[1], p[2]>> /\ p[1] \in Thread /\ p[2] \in Module
  OBVIOUS
<1> QED
  BY <1>1 DEF Running

-----------------------------------------------------------------------------
(* The innermost frame of t goes, or is replaced by f.                     *)
LEMMA TopGoes ==
    ASSUME TableInv, TypeOK', NEW t \in Thread, Depth(t) > 0,
           NEW r \in Seq(Frames), stack'[t] = r,
           \A u \in Thread \ {t} : stack'[u] = stack[u],
           Len(r) \in {Depth(t) - 1, Depth(t)},
           \A i \in 1..Depth(t) - 1 : r[i] = stack[t][i]
    PROVE  /\ Depth(t)' = Len(r) /\ \A u \in Thread \ {t} : Depth(u)' = Depth(u)
           /\ \A i \in 1..Depth(t) - 1 : Subject(t, i)' = Subject(t, i)
           /\ \A u \in Thread \ {t} : \A i \in 1..Depth(u) : Subject(u, i)' = Subject(u, i)
           /\ \A u \in Thread, m \in Module :
                 Executes(u, m)' <=>
                    \/ Executes(u, m) /\ ~(u = t /\ TopRuns(t, m))
                    \/ /\ u = t /\ Len(r) = Depth(t)
                       /\ r[Depth(t)].doing = "executing" /\ Head(r[Depth(t)].todo) = m
<1>1. TypeOK /\ Once /\ Depth(t) \in Nat
  BY StackFacts DEF TableInv, IInv
<1>2. Depth(t)' = Len(r) /\ \A u \in Thread \ {t} : Depth(u)' = Depth(u)
  BY DEF Depth
<1>3. \A i \in 1..Depth(t) - 1 : Subject(t, i)' = Subject(t, i) /\ stack'[t][i] = stack[t][i]
  BY DEF Subject
<1>4. \A u \in Thread \ {t} : \A i \in 1..Depth(u) : Subject(u, i)' = Subject(u, i)
  BY DEF Subject
<1>5. ASSUME NEW u \in Thread \ {t}, NEW m \in Module
      PROVE  Executes(u, m)' <=> Executes(u, m)
  BY <1>5 DEF Executes
<1>6. ASSUME NEW m \in Module
      PROVE  Executes(t, m)' <=>
                \/ Executes(t, m) /\ ~TopRuns(t, m)
                \/ /\ Len(r) = Depth(t)
                   /\ r[Depth(t)].doing = "executing" /\ Head(r[Depth(t)].todo) = m
  <2>1. Executes(t, m) <=> \E i \in 1..Depth(t) :
                              stack[t][i].doing = "executing" /\ Subject(t, i) = m
    BY <1>1, <1>6, ExecutesFrame
  <2>2. Executes(t, m)' <=> \E i \in 1..Len(r) :
                               r[i].doing = "executing" /\ Head(r[i].todo) = m
    <3>1. DOMAIN r = 1..Len(r)
      BY LenProperties
    <3> QED
      BY <3>1 DEF Executes
  <2>3. TopRuns(t, m) <=>
           stack[t][Depth(t)].doing = "executing" /\ Subject(t, Depth(t)) = m
    BY DEF TopRuns, Top, Subject
  <2>4. \A i \in 1..Depth(t) : i \in 1..Depth(t) - 1 \/ i = Depth(t)
    BY <1>1
  <2>5. Depth(t) \in 1..Depth(t) /\ 1..Depth(t) - 1 \subseteq 1..Depth(t)
        /\ \A i \in 1..Depth(t) - 1 : i # Depth(t)
    BY <1>1
  <2>6. \A i \in 1..Depth(t) - 1 : Subject(t, i) = Head(r[i].todo)
    BY DEF Subject
  <2>7. ASSUME Executes(t, m)'
        PROVE  \/ Executes(t, m) /\ ~TopRuns(t, m)
               \/ /\ Len(r) = Depth(t)
                  /\ r[Depth(t)].doing = "executing" /\ Head(r[Depth(t)].todo) = m
    <3>1. PICK i \in 1..Len(r) : r[i].doing = "executing" /\ Head(r[i].todo) = m
      BY <2>2, <2>7
    <3>2. CASE i \in 1..Depth(t) - 1
      <4>1. stack[t][i].doing = "executing" /\ Subject(t, i) = m
        BY <3>1, <3>2, <2>6
      <4>2. Executes(t, m) /\ i \in 1..Depth(t)
        BY <2>1, <2>5, <3>2, <4>1
      <4>3. ~TopRuns(t, m)
        BY <1>1, <2>3, <2>5, <3>2, <4>1, <4>2 DEF Once
      <4> QED
        BY <4>2, <4>3
    <3>3. CASE i \notin 1..Depth(t) - 1
      <4>1. i = Depth(t) /\ Len(r) = Depth(t)
        BY <1>1, <3>1, <3>3
      <4> QED
        BY <3>1, <4>1
    <3> QED
      BY <3>2, <3>3
  <2>8. ASSUME Executes(t, m), ~TopRuns(t, m)
        PROVE  Executes(t, m)'
    <3>1. PICK i \in 1..Depth(t) : stack[t][i].doing = "executing" /\ Subject(t, i) = m
      BY <2>1, <2>8
    <3>2. i \in 1..Depth(t) - 1
      BY <2>3, <2>4, <2>8, <3>1
    <3>3. i \in 1..Len(r)
      BY <1>1, <3>2
    <3> QED
      BY <2>2, <2>6, <3>1, <3>2, <3>3
  <2>9. ASSUME Len(r) = Depth(t), r[Depth(t)].doing = "executing", Head(r[Depth(t)].todo) = m
        PROVE  Executes(t, m)'
    BY <2>2, <2>5, <2>9
  <2> QED
    BY <2>7, <2>8, <2>9
<1> QED
  BY <1>2, <1>3, <1>4, <1>5, <1>6

(* The frames agree with sys.modules afterwards, if what was written to    *)
(* sys.modules is about the innermost frame and no other.                  *)
LEMMA TopKeeps ==
    ASSUME TableInv, NEW t \in Thread, Depth(t) > 0, Depth(t) \in Nat,
           NEW r \in Seq(Frames), stack'[t] = r,
           \A u \in Thread \ {t} : stack'[u] = stack[u],
           Len(r) \in {Depth(t) - 1, Depth(t)},
           \A i \in 1..Depth(t) - 1 : r[i] = stack[t][i],
           \A u \in Thread : \A i \in 1..Depth(u) :
              (u # t \/ i # Depth(t)) /\ stack[u][i].doing \in {"reading", "executing"} =>
                 modules'[Subject(u, i)] = modules[Subject(u, i)],
           Len(r) = Depth(t) /\ r[Depth(t)].doing = "reading" =>
              modules'[Head(r[Depth(t)].todo)] = "absent",
           Len(r) = Depth(t) /\ r[Depth(t)].doing = "executing" =>
              /\ modules'[Head(r[Depth(t)].todo)] = "partial"
              /\ \A i \in 1..Depth(t) - 1 :
                    stack[t][i].doing = "executing" => Subject(t, i) # Head(r[Depth(t)].todo)
    PROVE  Frameworthy' /\ Once'
<1>1. Frameworthy /\ Once
  BY DEF TableInv
<1>2. Depth(t)' = Len(r) /\ \A u \in Thread \ {t} : Depth(u)' = Depth(u)
  BY DEF Depth
<1>3. \A i \in 1..Depth(t) - 1 : /\ Subject(t, i)' = Subject(t, i)
                                 /\ stack'[t][i] = stack[t][i]
                                 /\ stack[t][i].doing # "reading"
                                 /\ i \in 1..Depth(t)
  BY <1>1 DEF Subject, Frameworthy
<1>4. \A u \in Thread \ {t} : \A i \in 1..Depth(u) : Subject(u, i)' = Subject(u, i)
  BY DEF Subject
<1>5. \A i \in 1..Len(r) : i \in 1..Depth(t) - 1 \/ (i = Depth(t) /\ Len(r) = Depth(t))
  OBVIOUS
<1>6. ASSUME NEW j, j = Depth(t), Len(r) = Depth(t)
      PROVE  stack'[t][j] = r[Depth(t)] /\ Subject(t, j)' = Head(r[Depth(t)].todo)
  BY <1>6 DEF Subject
<1>7. Frameworthy'
  <2> SUFFICES ASSUME NEW u \in Thread, NEW i \in 1..Depth(u)'
               PROVE  /\ stack'[u][i].doing = "executing" => modules'[Subject(u, i)'] = "partial"
                      /\ stack'[u][i].doing = "reading" =>
                            i = Depth(u)' /\ modules'[Subject(u, i)'] = "absent"
    BY DEF Frameworthy, Subject
  <2>1. CASE u # t
    <3>1. stack'[u] = stack[u] /\ Depth(u)' = Depth(u) /\ i \in 1..Depth(u)
          /\ Subject(u, i)' = Subject(u, i)
      BY <2>1, <1>2, <1>4
    <3>2. stack[u][i].doing \in {"reading", "executing"} =>
             modules'[Subject(u, i)] = modules[Subject(u, i)]
      BY <2>1, <3>1
    <3> QED
      BY <1>1, <3>1, <3>2 DEF Frameworthy
  <2>2. CASE u = t /\ i \in 1..Depth(t) - 1
    <3>1. i # Depth(t)
      BY <2>2
    <3>2. stack[t][i].doing = "executing" => modules'[Subject(t, i)] = modules[Subject(t, i)]
      BY <2>2, <3>1, <1>3
    <3> QED
      BY <2>2, <3>2, <1>1, <1>3 DEF Frameworthy
  <2>3. CASE u = t /\ i = Depth(t) /\ Len(r) = Depth(t)
    BY <2>3, <1>2, <1>6
  <2> QED
    BY <2>1, <2>2, <2>3, <1>2, <1>5
<1>8. Once'
  <2> SUFFICES ASSUME NEW u \in Thread, NEW i \in 1..Depth(u)', NEW j \in 1..Depth(u)',
                      stack'[u][i].doing = "executing", stack'[u][j].doing = "executing",
                      Subject(u, i)' = Subject(u, j)'
               PROVE  i = j
    BY DEF Once, Subject
  <2>1. CASE u # t
    BY <2>1, <1>1, <1>2, <1>4 DEF Once
  <2>2. CASE u = t
    <3>1. CASE i \in 1..Depth(t) - 1 /\ j \in 1..Depth(t) - 1
      BY <2>2, <3>1, <1>1, <1>3 DEF Once
    <3>2. CASE i \in 1..Depth(t) - 1 /\ j = Depth(t) /\ Len(r) = Depth(t)
      BY <2>2, <3>2, <1>3, <1>6
    <3>3. CASE j \in 1..Depth(t) - 1 /\ i = Depth(t) /\ Len(r) = Depth(t)
      BY <2>2, <3>3, <1>3, <1>6
    <3> QED
      BY <2>2, <3>1, <3>2, <3>3, <1>2, <1>5
  <2> QED
    BY <2>1, <2>2
<1> QED
  BY <1>7, <1>8

(* What is known of the thread whose innermost frame a step is about.      *)
LEMMA AtTop ==
    ASSUME TableInv, NEW t \in Thread, Runs(t), Depth(t) > 0
    PROVE  /\ lockowner = t /\ lockcounter = Depth(t) /\ Depth(t) \in Nat
           /\ \A u \in Thread \ {t} : \A i \in 1..Depth(u) :
                 stack[u][i].doing \notin {"reading", "executing"}
           /\ Top(t).doing \in {"reading", "executing"} =>
                 /\ Head(Top(t).todo) \in Module
                 /\ \A i \in 1..Depth(t) - 1 :
                       /\ stack[t][i].doing # "reading"
                       /\ stack[t][i].doing = "executing" => Subject(t, i) # Head(Top(t).todo)
           /\ Top(t).doing = "reading" => modules[Head(Top(t).todo)] = "absent"
           /\ Top(t).doing = "executing" => modules[Head(Top(t).todo)] = "partial"
<1>1. IInv /\ Frameworthy /\ Once /\ TypeOK /\ HeldWhileImporting
  BY DEF TableInv, IInv
<1>2. Depth(t) \in Nat /\ Depth(t) \in 1..Depth(t)
  BY <1>1, StackFacts
<1>3. lockowner = t /\ lockcounter = Depth(t)
  BY <1>1 DEF Runs, HeldWhileImporting
<1>4. \A u \in Thread \ {t} : \A i \in 1..Depth(u) :
         stack[u][i].doing \notin {"reading", "executing"}
  BY <1>1, <1>3, WorkerOwns
<1>5. Top(t) = stack[t][Depth(t)] /\ Head(Top(t).todo) = Subject(t, Depth(t))
  BY DEF Top, Subject
<1>6. /\ Top(t).doing = "reading" => modules[Head(Top(t).todo)] = "absent"
      /\ Top(t).doing = "executing" => modules[Head(Top(t).todo)] = "partial"
  BY <1>1, <1>2, <1>5 DEF Frameworthy
<1>7. ASSUME Top(t).doing \in {"reading", "executing"}
      PROVE  /\ Head(Top(t).todo) \in Module
             /\ \A i \in 1..Depth(t) - 1 :
                   /\ stack[t][i].doing # "reading"
                   /\ stack[t][i].doing = "executing" => Subject(t, i) # Head(Top(t).todo)
  <2>1. Head(Top(t).todo) \in Module
    BY <1>1, <1>2, <1>5, <1>7, FrameSubject
  <2>2. ASSUME NEW i \in 1..Depth(t) - 1
        PROVE  /\ stack[t][i].doing # "reading"
               /\ stack[t][i].doing = "executing" => Subject(t, i) # Head(Top(t).todo)
    <3>1. i \in 1..Depth(t) /\ i # Depth(t)
      BY <1>2
    <3>2. stack[t][i].doing # "reading"
      BY <1>1, <3>1 DEF Frameworthy
    <3>3. ASSUME stack[t][i].doing = "executing", Subject(t, i) = Head(Top(t).todo)
          PROVE  FALSE
      <4>1. modules[Subject(t, i)] = "partial"
        BY <1>1, <3>1, <3>3 DEF Frameworthy
      <4>2. Top(t).doing = "executing"
        BY <1>6, <1>7, <3>3, <4>1
      <4> QED
        BY <1>1, <1>2, <1>5, <3>1, <3>3, <4>2 DEF Once
    <3> QED
      BY <3>2, <3>3
  <2> QED
    BY <2>1, <2>2
<1> QED
  BY <1>2, <1>3, <1>4, <1>6, <1>7

-----------------------------------------------------------------------------
(* Each step of ImportLock keeps the frames and is a step of ModuleTable,  *)
(* or none.                                                                *)

Mapped == Table!Next \/ UNCHANGED <<lockowner, Running, modules>>

LEMMA SameStacks ==
    ASSUME TableInv, UNCHANGED <<stack, modules>>
    PROVE  Frameworthy' /\ Once' /\ Running' = Running
  BY DEF TableInv, Frameworthy, Once, Subject, Running, Executes, Depth

LEMMA PushMapped ==
    ASSUME TableInv, TypeOK', NEW t \in Thread, InCode(t), NEW f \in Frames,
           f.doing \in {"finding", "holding", "forking"}, acquire_lock(t, f)
    PROVE  Frameworthy' /\ Once' /\ Mapped
<1> DEFINE r == Append(stack[t], f)
<1>1. TypeOK /\ Frameworthy /\ Once /\ UNCHANGED <<lockowner, modules>>
  BY DEF TableInv, IInv, acquire_lock
<1>2. /\ r \in Seq(Frames) /\ Len(r) = Depth(t) + 1 /\ r[Depth(t) + 1] = f
      /\ \A i \in 1..Depth(t) : r[i] = stack[t][i]
      /\ Depth(t) \in Nat
  BY <1>1, StackFacts, PushedStack DEF Depth
<1> HIDE DEF r
<1>3. stack'[t] = r /\ \A u \in Thread \ {t} : stack'[u] = stack[u]
  <2>1. stack' = [stack EXCEPT ![t] = r]
    BY DEF acquire_lock, Pushed, r
  <2> QED
    BY <2>1, <1>1 DEF TypeOK
<1>4. Depth(t)' = Depth(t) + 1 /\ \A u \in Thread \ {t} : Depth(u)' = Depth(u)
  BY <1>2, <1>3 DEF Depth
<1>5. \A i \in 1..Depth(t) + 1 : i \in 1..Depth(t) \/ i = Depth(t) + 1
  BY <1>2
<1>6. \A i \in 1..Depth(t) : stack[t][i].doing # "reading"
  BY <1>1 DEF Frameworthy, InCode, Top
<1>7. /\ \A u \in Thread \ {t} : \A i \in 1..Depth(u) : Subject(u, i)' = Subject(u, i)
      /\ \A i \in 1..Depth(t) : Subject(t, i)' = Subject(t, i)
  BY <1>2, <1>3 DEF Subject
<1>8. Frameworthy'
  <2> SUFFICES ASSUME NEW u \in Thread, NEW i \in 1..Depth(u)'
               PROVE  /\ stack'[u][i].doing = "executing" => modules'[Subject(u, i)'] = "partial"
                      /\ stack'[u][i].doing = "reading" =>
                            i = Depth(u)' /\ modules'[Subject(u, i)'] = "absent"
    BY DEF Frameworthy, Subject
  <2>1. CASE u # t
    BY <2>1, <1>1, <1>3, <1>4, <1>7 DEF Frameworthy
  <2>2. CASE u = t
    BY <2>2, <1>1, <1>2, <1>3, <1>4, <1>5, <1>6, <1>7 DEF Frameworthy
  <2> QED
    BY <2>1, <2>2
<1>9. Once'
  <2> SUFFICES ASSUME NEW u \in Thread, NEW i \in 1..Depth(u)', NEW j \in 1..Depth(u)',
                      stack'[u][i].doing = "executing", stack'[u][j].doing = "executing",
                      Subject(u, i)' = Subject(u, j)'
               PROVE  i = j
    BY DEF Once, Subject
  <2>1. CASE u # t
    BY <2>1, <1>1, <1>3, <1>4, <1>7 DEF Once
  <2>2. CASE u = t
    BY <2>2, <1>1, <1>2, <1>3, <1>4, <1>5, <1>7 DEF Once
  <2> QED
    BY <2>1, <2>2
<1>10. Running' = Running
  <2>1. ASSUME NEW u \in Thread, NEW m \in Module
        PROVE  Executes(u, m)' <=> Executes(u, m)
    <3>1. CASE u # t
      BY <3>1, <1>3 DEF Executes
    <3>2. CASE u = t
      <4>1. Executes(t, m) <=> \E i \in 1..Depth(t) :
                                  stack[t][i].doing = "executing" /\ Subject(t, i) = m
        BY <1>1, ExecutesFrame
      <4>2. Executes(t, m)' <=> \E i \in 1..Depth(t) + 1 :
                                   r[i].doing = "executing" /\ Head(r[i].todo) = m
        <5>1. DOMAIN r = 1..Len(r)
          BY <1>2, LenProperties
        <5> QED
          BY <1>2, <1>3, <5>1 DEF Executes
      <4>3. \A i \in 1..Depth(t) : i \in 1..Depth(t) + 1
        BY <1>2
      <4> QED
        BY <3>2, <4>1, <4>2, <4>3, <1>2, <1>5 DEF Subject
    <3> QED
      BY <3>1, <3>2
  <2> QED
    BY <2>1 DEF Running
<1> QED
  BY <1>1, <1>8, <1>9, <1>10 DEF Mapped

(* The end of a module's code, of an import or of a hold: the innermost    *)
(* frame goes, or looks for the next part of the name.                     *)
LEMMA EndMapped ==
    ASSUME TableInv, TypeOK', NEW t \in Thread, Runs(t), Depth(t) > 0,
           NEW r \in Seq(Frames), stack'[t] = r,
           \A u \in Thread \ {t} : stack'[u] = stack[u],
           Len(r) \in {Depth(t) - 1, Depth(t)},
           \A i \in 1..Depth(t) - 1 : r[i] = stack[t][i],
           Len(r) = Depth(t) => r[Depth(t)].doing = "finding",
           UNCHANGED lockowner \/ (lockowner' = NoOne /\ Len(r) = 0),
           NEW outcome \in {"absent", "loaded"},
           IF Top(t).doing = "executing"
             THEN modules' = [modules EXCEPT ![Head(Top(t).todo)] = outcome]
             ELSE UNCHANGED modules
    PROVE  Frameworthy' /\ Once' /\ Mapped
<1> DEFINE h == Head(Top(t).todo)
<1>1. /\ TypeOK /\ lockowner = t /\ Depth(t) \in Nat
      /\ \A u \in Thread \ {t} : \A i \in 1..Depth(u) :
            stack[u][i].doing \notin {"reading", "executing"}
      /\ Top(t).doing = "executing" => h \in Module /\ modules[h] = "partial"
      /\ Top(t).doing = "executing" =>
            \A i \in 1..Depth(t) - 1 :
               /\ stack[t][i].doing # "reading"
               /\ stack[t][i].doing = "executing" => Subject(t, i) # h
  BY AtTop DEF TableInv, IInv
<1>2. Top(t).doing = "executing" =>
         modules'[h] = outcome /\ \A m \in Module : m # h => modules'[m] = modules[m]
  BY <1>1 DEF TypeOK
<1>3. ASSUME NEW u \in Thread, NEW i \in 1..Depth(u), u # t \/ i # Depth(t),
             stack[u][i].doing \in {"reading", "executing"}
      PROVE  modules'[Subject(u, i)] = modules[Subject(u, i)]
  <2>1. u = t
    BY <1>1, <1>3
  <2>2. i \in 1..Depth(t) - 1
    BY <1>1, <1>3, <2>1
  <2>3. CASE Top(t).doing = "executing"
    <3>1. Subject(u, i) \in Module
      BY <1>3, FrameSubject DEF TableInv
    <3> QED
      BY <1>1, <1>2, <1>3, <2>1, <2>2, <2>3, <3>1
  <2> QED
    BY <2>3
<1> HIDE DEF h
<1>4. Frameworthy' /\ Once'
  <2>1. Len(r) = Depth(t) => r[Depth(t)].doing \notin {"reading", "executing"}
    OBVIOUS
  <2> QED
    BY <1>1, <1>3, <2>1, TopKeeps
<1>5. \A u \in Thread, m \in Module :
         Executes(u, m)' <=> Executes(u, m) /\ ~(u = t /\ TopRuns(t, m))
  BY TopGoes
<1>6. Len(r) = 0 => Running' = {}
  <2> SUFFICES ASSUME Len(r) = 0, NEW u \in Thread, NEW m \in Module, Executes(u, m)'
               PROVE  FALSE
    BY DEF Running
  <2>1. CASE u = t
    <3>1. DOMAIN r = 1..0
      BY LenProperties
    <3> QED
      BY <2>1, <3>1 DEF Executes
  <2>2. CASE u # t
    <3>1. Executes(u, m)
      BY <1>5, <2>2
    <3>2. PICK i \in 1..Depth(u) : stack[u][i].doing = "executing"
      BY <1>1, <3>1, ExecutesFrame
    <3> QED
      BY <1>1, <2>2, <3>2
  <2> QED
    BY <2>1, <2>2
<1>7. CASE Top(t).doing # "executing"
  <2>1. Running' = Running
    BY <1>5, <1>7 DEF TopRuns, Running
  <2>2. UNCHANGED modules
    BY <1>7
  <2>3. ASSUME lockowner' = NoOne, Len(r) = 0
        PROVE  Table!LetGo(t)
    BY <1>1, <1>6, <2>1, <2>2, <2>3 DEF Table!LetGo, Running
  <2> QED
    BY <1>4, <2>1, <2>2, <2>3 DEF Mapped, Table!Next
<1>8. CASE Top(t).doing = "executing"
  <2>1. \A m \in Module : TopRuns(t, m) <=> m = h
    BY <1>8 DEF TopRuns, h
  <2>2. Executes(t, h)
    <3>1. Depth(t) \in 1..Depth(t) /\ Top(t) = stack[t][Depth(t)]
      BY <1>1 DEF Top
    <3>2. Subject(t, Depth(t)) = h
      BY DEF Subject, Top, h
    <3> QED
      BY <1>1, <1>8, <3>1, <3>2, ExecutesFrame
  <2>3. <<t, h>> \in Running
    BY <1>1, <1>8, <2>2 DEF Running
  <2>4. Running' = Running \ {<<t, h>>}
    <3>1. \A p \in Thread \X Module :
             p = <<p[1], p[2]>> /\ p[1] \in Thread /\ p[2] \in Module
      OBVIOUS
    <3>2. \A p \in Thread \X Module : p = <<t, h>> <=> p[1] = t /\ p[2] = h
      BY <3>1
    <3> QED
      BY <1>5, <2>1, <3>1, <3>2 DEF Running
  <2>5. modules' = [modules EXCEPT ![h] = outcome]
    BY <1>8 DEF h
  <2>6. UNCHANGED lockowner \/ (Running' = {} /\ lockowner' = NoOne)
    BY <1>6
  <2>7. Table!End(t, h, outcome)
    BY <1>1, <1>8, <2>3, <2>4, <2>5, <2>6 DEF Table!End, Running
  <2> QED
    BY <1>1, <1>4, <1>8, <2>7 DEF Mapped, Table!Next
<1> QED
  BY <1>7, <1>8

LEMMA PopMapped ==
    ASSUME TableInv, TypeOK', NEW t \in Thread, Runs(t), Depth(t) > 0, release_lock(t),
           NEW outcome \in {"absent", "loaded"},
           IF Top(t).doing = "executing"
             THEN modules' = [modules EXCEPT ![Head(Top(t).todo)] = outcome]
             ELSE UNCHANGED modules
    PROVE  Frameworthy' /\ Once' /\ Mapped
<1> DEFINE r == SubSeq(stack[t], 1, Depth(t) - 1)
<1>1. TypeOK /\ lockowner = t /\ lockcounter = Depth(t) /\ Depth(t) \in Nat
  BY AtTop DEF TableInv, IInv
<1>2. /\ r \in Seq(Frames) /\ Len(r) = Depth(t) - 1
      /\ \A i \in 1..Depth(t) - 1 : r[i] = stack[t][i]
  BY <1>1, StackFacts, PoppedStack DEF Depth
<1> HIDE DEF r
<1>3. stack'[t] = r /\ \A u \in Thread \ {t} : stack'[u] = stack[u]
  <2>1. stack' = [stack EXCEPT ![t] = r]
    BY DEF release_lock, Popped, r, Depth
  <2> QED
    BY <2>1, <1>1 DEF TypeOK
<1>4. UNCHANGED lockowner \/ (lockowner' = NoOne /\ Len(r) = 0)
  BY <1>1, <1>2 DEF release_lock, FreeLock
<1>5. Len(r) # Depth(t) /\ Len(r) \in {Depth(t) - 1, Depth(t)}
  BY <1>1, <1>2
<1> QED
  BY <1>2, <1>3, <1>4, <1>5, EndMapped

(* The frame that takes the innermost one's place.                         *)
LEMMA ReplacedIs ==
    ASSUME TypeOK, NEW t \in Thread, Depth(t) > 0, NEW f \in Frames, Replaced(t, f)
    PROVE  \E r \in Seq(Frames) :
              /\ stack'[t] = r /\ \A u \in Thread \ {t} : stack'[u] = stack[u]
              /\ Len(r) = Depth(t) /\ r[Depth(t)] = f
              /\ \A i \in 1..Depth(t) - 1 : r[i] = stack[t][i]
<1> DEFINE r == [stack[t] EXCEPT ![Depth(t)] = f]
<1>1. /\ r \in Seq(Frames) /\ Len(r) = Depth(t) /\ r[Depth(t)] = f
      /\ \A i \in 1..Depth(t) - 1 : r[i] = stack[t][i]
  BY StackFacts, ReplacedStack DEF Depth
<1> HIDE DEF r
<1>2. stack' = [stack EXCEPT ![t] = r]
  BY DEF Replaced, r
<1>3. stack'[t] = r /\ \A u \in Thread \ {t} : stack'[u] = stack[u]
  BY <1>2 DEF TypeOK
<1> QED
  BY <1>1, <1>3

LEMMA NextPartMapped ==
    ASSUME TableInv, TypeOK', NEW t \in Thread, Runs(t), Depth(t) > 0,
           Top(t).doing \in {"finding", "executing"}, NextPart(t),
           NEW outcome \in {"absent", "loaded"},
           IF Top(t).doing = "executing"
             THEN modules' = [modules EXCEPT ![Head(Top(t).todo)] = outcome]
             ELSE UNCHANGED modules
    PROVE  Frameworthy' /\ Once' /\ Mapped
<1> DEFINE rest == Tail(Top(t).todo)
<1>1. TypeOK /\ Before
  BY DEF TableInv, IInv, Before
<1>2. CASE rest = <<>>
  BY <1>2, PopMapped DEF NextPart
<1>3. CASE rest # <<>>
  <2>1. rest \in Seq(Module)
    BY <1>1, TopModule, HeadTailProperties
  <2>2. PICK f \in Frames : f = Frame("finding", rest)
    BY <2>1, FrameType DEF Doing
  <2>3. f.doing = "finding" /\ Replaced(t, f) /\ UNCHANGED lockowner
    BY <1>3, <2>1, <2>2, FrameType DEF NextPart, Doing, counts
  <2>4. PICK r \in Seq(Frames) :
              /\ stack'[t] = r /\ \A u \in Thread \ {t} : stack'[u] = stack[u]
              /\ Len(r) = Depth(t) /\ r[Depth(t)] = f
              /\ \A i \in 1..Depth(t) - 1 : r[i] = stack[t][i]
    BY <1>1, <2>3, ReplacedIs
  <2> QED
    BY <2>3, <2>4, EndMapped
<1> QED
  BY <1>2, <1>3

(* A part of the name is not there: its code is looked for.                *)
LEMMA LookMapped ==
    ASSUME TableInv, TypeOK', NEW t \in Thread, Runs(t), Depth(t) > 0,
           Top(t).doing = "finding", modules[Head(Top(t).todo)] = "absent",
           Replaced(t, Frame("reading", Top(t).todo)), UNCHANGED <<cur, pc, counts, modules>>
    PROVE  Frameworthy' /\ Once' /\ Mapped
<1>1. TypeOK /\ Before /\ UNCHANGED lockowner /\ Depth(t) \in Nat
  BY StackFacts DEF TableInv, IInv, Before, counts
<1>2. Top(t).todo \in Seq(Module)
  BY <1>1, TopModule
<1>3. PICK f \in Frames : f = Frame("reading", Top(t).todo)
  BY <1>2, FrameType DEF Doing
<1>4. f.doing = "reading" /\ f.todo = Top(t).todo
  BY <1>2, <1>3, FrameType DEF Doing
<1>5. PICK r \in Seq(Frames) :
            /\ stack'[t] = r /\ \A u \in Thread \ {t} : stack'[u] = stack[u]
            /\ Len(r) = Depth(t) /\ r[Depth(t)] = f
            /\ \A i \in 1..Depth(t) - 1 : r[i] = stack[t][i]
  BY <1>1, <1>3, ReplacedIs
<1>6. Frameworthy' /\ Once'
  BY <1>1, <1>4, <1>5, TopKeeps
<1>7. Running' = Running
  <2>1. \A u \in Thread, m \in Module : Executes(u, m)' <=> Executes(u, m)
    BY <1>4, <1>5, TopGoes DEF TopRuns
  <2> QED
    BY <2>1 DEF Running
<1> QED
  BY <1>1, <1>6, <1>7 DEF Mapped

(* The module is entered in sys.modules and its code begins.               *)
LEMMA BeginMapped ==
    ASSUME TableInv, TypeOK', NEW t \in Thread, load_module(t)
    PROVE  Frameworthy' /\ Once' /\ Mapped
<1> DEFINE h == Head(Top(t).todo)
<1>1. /\ TypeOK /\ Before /\ UNCHANGED lockowner
      /\ Runs(t) /\ Depth(t) > 0 /\ Top(t).doing = "reading"
  BY DEF TableInv, IInv, Before, counts, load_module, Does
<1>2. Top(t).todo \in Seq(Module)
  BY <1>1, TopModule
<1>3. /\ lockowner = t /\ Depth(t) \in Nat /\ h \in Module /\ modules[h] = "absent"
      /\ \A u \in Thread \ {t} : \A i \in 1..Depth(u) :
            stack[u][i].doing \notin {"reading", "executing"}
      /\ \A i \in 1..Depth(t) - 1 :
            /\ stack[t][i].doing # "reading"
            /\ stack[t][i].doing = "executing" => Subject(t, i) # h
  BY <1>1, AtTop
<1>4. PICK f \in Frames : f = Frame("executing", Top(t).todo)
  BY <1>2, FrameType DEF Doing
<1>5. f.doing = "executing" /\ Head(f.todo) = h
  BY <1>2, <1>4, FrameType DEF Doing
<1>6. PICK r \in Seq(Frames) :
            /\ stack'[t] = r /\ \A u \in Thread \ {t} : stack'[u] = stack[u]
            /\ Len(r) = Depth(t) /\ r[Depth(t)] = f
            /\ \A i \in 1..Depth(t) - 1 : r[i] = stack[t][i]
  BY <1>1, <1>4, ReplacedIs DEF load_module
<1>7. /\ modules' = [modules EXCEPT ![h] = "partial"] /\ modules'[h] = "partial"
      /\ \A m \in Module : m # h => modules'[m] = modules[m]
  BY <1>1, <1>3 DEF load_module, TypeOK
<1> HIDE DEF h
<1>8. ASSUME NEW u \in Thread, NEW i \in 1..Depth(u), u # t \/ i # Depth(t),
             stack[u][i].doing \in {"reading", "executing"}
      PROVE  modules'[Subject(u, i)] = modules[Subject(u, i)]
  <2>1. u = t
    BY <1>3, <1>8
  <2>2. i \in 1..Depth(t) - 1
    BY <1>3, <1>8, <2>1
  <2>3. Subject(u, i) \in Module
    BY <1>8, FrameSubject DEF TableInv
  <2> QED
    BY <1>3, <1>7, <1>8, <2>1, <2>2, <2>3
<1>9. Frameworthy' /\ Once'
  BY <1>1, <1>3, <1>5, <1>6, <1>7, <1>8, TopKeeps
<1>10. \A u \in Thread, m \in Module :
          Executes(u, m)' <=> Executes(u, m) \/ (u = t /\ h = m)
  BY <1>1, <1>5, <1>6, TopGoes DEF TopRuns
<1>11. Running' = Running \cup {<<t, h>>}
  <2>1. \A p \in Thread \X Module :
           p = <<p[1], p[2]>> /\ p[1] \in Thread /\ p[2] \in Module
    OBVIOUS
  <2>2. \A p \in Thread \X Module : p = <<t, h>> <=> p[1] = t /\ p[2] = h
    BY <2>1
  <2>3. <<t, h>> \in Thread \X Module
    BY <1>3
  <2> QED
    BY <1>10, <2>1, <2>2, <2>3 DEF Running
<1>12. Table!Begin(t, h)
  BY <1>1, <1>3, <1>7, <1>11 DEF Table!Begin, Running
<1> QED
  BY <1>3, <1>9, <1>12 DEF Mapped, Table!Next

LEMMA AdvancesMapped ==
    ASSUME ~ForkWithLock, TableInv, TypeOK', NEW t \in Thread, Advances(t)
    PROVE  Frameworthy' /\ Once' /\ Mapped
<1> DEFINE h == Head(Top(t).todo)
<1>1. CASE load_part(t)
  <2>1. Runs(t) /\ Depth(t) > 0 /\ Top(t).doing = "finding" /\ UNCHANGED modules
    BY <1>1 DEF load_part, Does
  <2>2. CASE modules[h] # "absent"
    BY <1>1, <2>1, <2>2, NextPartMapped DEF load_part
  <2>3. CASE modules[h] = "absent"
    BY <1>1, <2>1, <2>3, LookMapped DEF load_part
  <2> QED
    BY <2>2, <2>3
<1>2. CASE ImportError(t) \/ imp_release_lock(t) \/ fork_parent(t)
  <2>1. /\ Runs(t) /\ Depth(t) > 0 /\ Top(t).doing # "executing"
        /\ UNCHANGED modules /\ release_lock(t)
    BY <1>2 DEF ImportError, imp_release_lock, fork_parent, Does
  <2> QED
    BY <2>1, PopMapped
<1>3. CASE load_module(t)
  BY <1>3, BeginMapped
<1>4. CASE executed(t)
  BY <1>4, NextPartMapped DEF executed, Does
<1>5. CASE raised(t)
  BY <1>5, PopMapped DEF raised, Does
<1>6. CASE fork_child(t)
  <2>1. /\ TypeOK /\ Shape /\ Runs(t) /\ Depth(t) > 0 /\ Top(t).doing = "forking"
        /\ lockowner = t /\ Depth(t) \in Nat
        /\ \A u \in Thread \ {t} : \A i \in 1..Depth(u) :
              stack[u][i].doing \notin {"reading", "executing"}
    BY <1>6, AtTop DEF fork_child, Does, TableInv, IInv
  <2>2. Depth(t) = 1 /\ stack[t][1].doing = "forking" /\ stack[t] \in Seq(Frames)
    BY <2>1, StackFacts DEF Shape, Top
  <2>3. SubSeq(stack[t], 1, Depth(t) - 1) = <<>>
    <3>1. SubSeq(stack[t], 1, 0) = <<>>
      BY SubSeqEmpty
    <3> QED
      BY <2>2, <3>1
  <2>4. stack' = [u \in Thread |-> <<>>]
    BY <1>6, <2>3 DEF fork_child
  <2>5. \A u \in Thread : Depth(u)' = 0 /\ stack'[u] = <<>> /\ DOMAIN stack'[u] = {}
    BY <2>4, EmptySeq DEF Depth
  <2>6. Frameworthy' /\ Once'
    BY <2>5 DEF Frameworthy, Once
  <2>7. Running = {} /\ Running' = {}
    <3>1. \A u \in Thread, m \in Module : ~Executes(u, m)'
      BY <2>5 DEF Executes
    <3>2. ASSUME NEW u \in Thread, NEW m \in Module, Executes(u, m) PROVE FALSE
      <4>1. PICK i \in 1..Depth(u) : stack[u][i].doing = "executing"
        BY <2>1, <3>2, ExecutesFrame
      <4> QED
        BY <2>1, <2>2, <4>1
    <3> QED
      BY <3>1, <3>2 DEF Running
  <2>8. Table!LetGo(t)
    BY <1>6, <2>1, <2>7 DEF fork_child, Table!LetGo, Running
  <2> QED
    BY <2>6, <2>8 DEF Mapped, Table!Next
<1> QED
  BY <1>1, <1>2, <1>3, <1>4, <1>5, <1>6 DEF Advances

LEMMA EntersMapped ==
    ASSUME TableInv, TypeOK', NEW t \in Thread, Enters(t)
    PROVE  Frameworthy' /\ Once' /\ Mapped
<1>1. ASSUME NEW m \in Module, absolute_import(t, m)
      PROVE  Frameworthy' /\ Once' /\ Mapped
  BY <1>1, PathPart, FrameType, PushMapped DEF absolute_import, Doing
<1>2. <<>> \in Seq(Module)
  BY EmptySeq
<1>3. CASE imp_acquire_lock(t)
  BY <1>2, <1>3, FrameType, PushMapped DEF imp_acquire_lock, Doing
<1>4. CASE fork(t)
  BY <1>2, <1>4, FrameType, PushMapped DEF fork, Doing
<1> QED
  BY <1>1, <1>3, <1>4 DEF Enters

(* Of the other steps, the one that makes a thread the owner counts.       *)
LEMMA ThreadsMapped ==
    ASSUME TableInv, NEW t \in Thread,
           \/ GilStep(t) \/ LockStep(t) \/ end(t)
           \/ \E u \in Thread : start(t, u)
    PROVE  Frameworthy' /\ Once' /\ Mapped
<1>1. UNCHANGED <<stack, modules>>
  BY DEF GilStep, LeaveGil, EnterGil, LockStep, c_thread_acquirelock, acquired,
         c_thread_releaselock, end, start
<1>2. Frameworthy' /\ Once' /\ Running' = Running
  BY <1>1, SameStacks
<1>3. CASE acquired(t)
  <2>1. lockowner = NoOne
    BY <1>3 DEF TableInv, IInv, Lock, Holding, acquired
  <2>2. Table!Hold(t)
    BY <1>1, <1>2, <1>3, <2>1 DEF acquired, Table!Hold, Running
  <2> QED
    BY <1>2, <2>2 DEF Mapped, Table!Next
<1>4. CASE ~acquired(t)
  <2>1. UNCHANGED lockowner
    BY <1>4 DEF GilStep, LeaveGil, EnterGil, LockStep, c_thread_acquirelock,
                c_thread_releaselock, end, start
  <2> QED
    BY <1>1, <1>2, <2>1 DEF Mapped
<1> QED
  BY <1>3, <1>4

-----------------------------------------------------------------------------
LEMMA NextTable ==
    ASSUME ~ForkWithLock, TableInv, [Next]_vars
    PROVE  TableInv' /\ Mapped
<1>1. IInv' /\ TypeOK'
  BY NextIInv DEF TableInv, IInv
<1>2. ASSUME NEW t \in Thread, ThreadStep(t) PROVE Frameworthy' /\ Once' /\ Mapped
  BY <1>1, <1>2, AdvancesMapped, EntersMapped, ThreadsMapped DEF ThreadStep
<1>3. ASSUME UNCHANGED vars PROVE Frameworthy' /\ Once' /\ Mapped
  <2>1. UNCHANGED <<stack, modules, lockowner>>
    BY <1>3 DEF vars
  <2> QED
    BY <2>1, SameStacks DEF Mapped
<1>4. Frameworthy' /\ Once' /\ Mapped
  BY <1>2, <1>3 DEF Next, exited
<1> QED
  BY <1>1, <1>4 DEF TableInv

LEMMA InitTable == Init => TableInv /\ Table!Init
<1> SUFFICES ASSUME Init PROVE TableInv /\ Table!Init
  OBVIOUS
<1>1. IInv
  BY InitIInv
<1>2. \A t \in Thread : Depth(t) = 0 /\ DOMAIN stack[t] = {}
  BY EmptySeq DEF Init, Depth
<1>3. Frameworthy /\ Once
  BY <1>2 DEF Frameworthy, Once
<1>4. Table!Init
  BY <1>2 DEF Table!Init, Init, Executes
<1> QED
  BY <1>1, <1>3, <1>4 DEF TableInv

(* Frames and sys.modules agree: what a thread executes is there as        *)
(* "partial", it is executed once, and what a thread is about to execute   *)
(* is not there.                                                           *)
THEOREM FramesTrue == ~ForkWithLock /\ Spec => [](Frameworthy /\ Once)
<1>1. CASE ForkWithLock
  BY <1>1
<1>2. CASE ~ForkWithLock
  <2>1. TableInv /\ [Next]_vars => TableInv'
    BY <1>2, NextTable
  <2>2. Spec => []TableInv
    BY <2>1, InitTable, PTL DEF Spec
  <2>3. TableInv => Frameworthy /\ Once
    BY DEF TableInv
  <2> QED
    BY <2>2, <2>3, PTL
<1> QED
  BY <1>1, <1>2

(* Imports are steps on a table of modules under one lock.                 *)
THEOREM ImportsImplementTable == ~ForkWithLock /\ Spec => ImportsAsTable
<1>1. CASE ForkWithLock
  BY <1>1
<1>2. CASE ~ForkWithLock
  <2>1. TableInv /\ [Next]_vars => TableInv'
    BY <1>2, NextTable
  <2>2. TableInv /\ [Next]_vars => [Table!Next]_(Table!vars)
    BY <1>2, NextTable DEF Mapped, Table!vars, Running
  <2>3. Init => TableInv /\ Table!Init
    BY InitTable
  <2> QED
    BY <2>1, <2>2, <2>3, PTL DEF Spec, ImportsAsTable, Table!Spec
<1> QED
  BY <1>1, <1>2
=============================================================================
