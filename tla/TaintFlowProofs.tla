--------------------------- MODULE TaintFlowProofs ---------------------------
(***************************************************************************)
(* Theorems about TaintFlow for every set of objects, labels, frames and   *)
(* threads: types, that no dictionary is shared, and that the labels of    *)
(* objects behave as if held by value.                                     *)
(***************************************************************************)
EXTENDS TaintFlow, FiniteSetTheorems, TLAPS

Inv == TypeOK /\ NoDictShared

(* What one in-place or fresh write of labels does, whatever the slot held *)
(* before: the labels of o become S and those of every other object stay.  *)
LEMMA RewriteByValue ==
    ASSUME Inv, NEW o \in Obj, NEW S \in SUBSET Label, Rewrite(o, S)
    PROVE  /\ taints' \in [Obj -> Dict \cup {NoDict}]
           /\ dict' \in [Dict -> SUBSET Label]
           /\ gettaint(o)' = S
           /\ \A p \in Obj \ {o} : gettaint(p)' = gettaint(p) /\ taints'[p] = taints[p]
           /\ \A p \in Obj \ {o} : taints'[p] # NoDict => taints'[p] # taints'[o]
<1>1. NoDict \notin Dict
  BY TaintConstants
<1>2. CASE /\ gettaint(o) = {}
           /\ \E d \in FreeDict : /\ taints' = [taints EXCEPT ![o] = d]
                                  /\ dict' = [dict EXCEPT ![d] = S]
  BY <1>1, <1>2 DEF Inv, TypeOK, NoDictShared, gettaint, FreeDict
<1>3. CASE /\ gettaint(o) # {}
           /\ dict' = [dict EXCEPT ![taints[o]] = S]
           /\ UNCHANGED taints
  BY <1>1, <1>3 DEF Inv, TypeOK, NoDictShared, gettaint
<1>4. QED
  BY <1>2, <1>3 DEF Rewrite

(* Collecting dictionaries nobody refers to changes no object's labels.    *)
LEMMA CollectedByValue ==
    ASSUME TypeOK, NEW own \in [Obj -> Dict \cup {NoDict}],
           NEW maps
    PROVE  /\ Collected(own, maps, dict) \in [Dict -> SUBSET Label]
           /\ \A o \in Obj : own[o] # NoDict =>
                 Collected(own, maps, dict)[own[o]] = dict[own[o]]
BY DEF TypeOK, Collected

(* What gettaint returns is a set of labels.                               *)
LEMMA gettaintType == ASSUME TypeOK, NEW o \in Obj PROVE gettaint(o) \in SUBSET Label
BY DEF TypeOK, gettaint

(* So is what merge_taints returns.                                        *)
LEMMA mergeType == ASSUME TypeOK, NEW ws \in SUBSET Obj PROVE merge_taints(ws) \in SUBSET Label
BY gettaintType DEF merge_taints

(* Every slot is empty when the interpreter starts.                        *)
LEMMA InitInv == Init => Inv
BY TaintConstants DEF Init, Inv, TypeOK, NoDictShared, NoJumps

(* Every write of a result's labels.                                       *)
LEMMA SettaintByValue ==
    ASSUME Inv, NEW x \in Obj, NEW S \in SUBSET Label, settaint(x, S)
    PROVE  /\ Inv'
           /\ live' = live \cup {x}
           /\ gettaint(x)' = S
           /\ \A p \in Obj \ {x} : gettaint(p)' = gettaint(p)
<1>1. /\ taints' \in [Obj -> Dict \cup {NoDict}]
      /\ dict' \in [Dict -> SUBSET Label]
      /\ gettaint(x)' = S
      /\ \A p \in Obj \ {x} : gettaint(p)' = gettaint(p) /\ taints'[p] = taints[p]
      /\ \A p \in Obj \ {x} : taints'[p] # NoDict => taints'[p] # taints'[x]
  BY RewriteByValue DEF settaint
<1>2. TypeOK'
  BY <1>1 DEF settaint, framevars, Inv, TypeOK
<1>3. NoDictShared'
  BY <1>1 DEF settaint, Inv, NoDictShared
<1>4. QED
  BY <1>1, <1>2, <1>3 DEF settaint, Inv

(* checked_settaint never writes to a boolean the program has.             *)
LEMMA ResultObjectType ==
    ASSUME TypeOK, NEW r \in Obj, NEW x \in ResultObject(r)
    PROVE  /\ x \in Obj
           /\ x \notin Bools \/ x \notin live
           /\ r \notin Bools => x = r
BY DEF ResultObject, TypeOK

(* The steps of FrameStep leave objects and their labels alone.            *)
LEMMA FrameStepObjects ==
    ASSUME Inv, FrameStep
    PROVE  /\ UNCHANGED <<live, taints>>
           /\ dict' \in [Dict -> SUBSET Label]
           /\ \A o \in Obj : gettaint(o)' = gettaint(o)
<1>1. ASSUME NEW maps, dict' = Collected(taints, maps, dict), UNCHANGED <<live, taints>>
      PROVE  /\ dict' \in [Dict -> SUBSET Label]
             /\ \A o \in Obj : gettaint(o)' = gettaint(o)
  BY <1>1, CollectedByValue DEF Inv, TypeOK, gettaint
<1>2. CASE \E t \in Thread, i \in Instr, w \in live : conditional_jump(t, i, w)
  BY <1>1, <1>2 DEF conditional_jump, objvars
<1>3. CASE \E t \in Thread : leave(t)
  BY <1>1, <1>3 DEF leave, Forget, objvars
<1>4. CASE \E g \in gens : drop_generator(g)
  BY <1>1, <1>4 DEF drop_generator, Forget, objvars
<1>5. CASE UNCHANGED <<live, taints, dict>>
  BY <1>5 DEF Inv, TypeOK, gettaint
<1>6. QED
  BY <1>2, <1>3, <1>4, <1>5
  DEF FrameStep, run, run_generator, resume, yield_value, objvars

(* A stack without its innermost frame is a stack.                         *)
LEMMA PopFrameType ==
    ASSUME TypeOK, NEW t \in Thread, frames[t] # <<>>
    PROVE  PopFrame(t) \in [Thread -> Seq(Space)] /\ Top(t) \in Space
BY DEF TypeOK, PopFrame, Top

(* Calls, jumps, yields and returns keep the types of the frames' state.   *)
LEMMA FrameStepTypes ==
    ASSUME Inv, FrameStep
    PROVE  /\ tmap' \in [Space -> [Instr -> Dict \cup {NoDict}]]
           /\ parent' \in [Space -> Space \cup {NoSpace}]
           /\ frames' \in [Thread -> Seq(Space)]
           /\ gens' \subseteq Space
<1> USE DEF Inv
<1>1. ASSUME NEW t \in Thread, NEW i \in Instr, NEW w \in live, conditional_jump(t, i, w)
      PROVE  /\ tmap' \in [Space -> [Instr -> Dict \cup {NoDict}]]
             /\ UNCHANGED framevars
  <2>1. taints[w] \in Dict \cup {NoDict} /\ Top(t) \in Space
    BY <1>1, PopFrameType DEF TypeOK, conditional_jump
  <2>2. tmap[Top(t)] \in [Instr -> Dict \cup {NoDict}]
    BY <2>1 DEF TypeOK
  <2> QED
    BY <1>1, <2>1, <2>2 DEF TypeOK, conditional_jump
<1>2. ASSUME NEW stacks, NEW gs, Forget(stacks, gs)
      PROVE  /\ tmap' \in [Space -> [Instr -> Dict \cup {NoDict}]]
             /\ parent' \in [Space -> Space \cup {NoSpace}]
  BY <1>2 DEF Forget, TypeOK, NoJumps
<1>3. ASSUME NEW t \in Thread, NEW s \in Space, NewSpace(t, s)
      PROVE  parent' \in [Space -> Space \cup {NoSpace}]
  <2>1. frames[t] = <<>> \/ Top(t) \in Space
    BY PopFrameType
  <2> QED
    BY <1>3, <2>1 DEF NewSpace, TypeOK
<1>4. ASSUME NEW t \in Thread, NEW s \in Space
      PROVE  [frames EXCEPT ![t] = Append(@, s)] \in [Thread -> Seq(Space)]
  BY DEF TypeOK
<1>5. CASE \E t \in Thread, i \in Instr, w \in live : conditional_jump(t, i, w)
  BY <1>1, <1>5 DEF framevars, TypeOK
<1>6. CASE \E t \in Thread, s \in Space : run(t, s)
  BY <1>3, <1>4, <1>6 DEF run, TypeOK
<1>7. CASE \E t \in Thread, s \in Space : run_generator(t, s)
  BY <1>3, <1>7 DEF run_generator, TypeOK
<1>8. CASE \E t \in Thread, g \in gens : resume(t, g)
  BY <1>4, <1>8 DEF resume, TypeOK
<1>9. CASE \E t \in Thread : yield_value(t)
  BY <1>9, PopFrameType DEF yield_value, TypeOK
<1>10. CASE \E t \in Thread : leave(t)
  BY <1>2, <1>10, PopFrameType DEF leave, TypeOK
<1>11. CASE \E g \in gens : drop_generator(g)
  BY <1>2, <1>11 DEF drop_generator, TypeOK
<1>12. QED
  BY <1>5, <1>6, <1>7, <1>8, <1>9, <1>10, <1>11 DEF FrameStep

(* ... and the invariant, since they store references in maps only.        *)
LEMMA FrameStepInv == ASSUME Inv, FrameStep PROVE Inv'
BY FrameStepObjects, FrameStepTypes DEF Inv, TypeOK, NoDictShared

(* The operations on objects keep the invariant: every write goes through  *)
(* a dictionary that is fresh or the object's own.                         *)
LEMMA ObjStepInv == ASSUME Inv, ObjStep PROVE Inv'
<1> USE DEF Inv
<1>1. live \subseteq Obj
  BY DEF TypeOK
<1>2. ASSUME NEW ws \in SUBSET Obj, NEW r \in Obj, checked_settaint(r, merge_taints(ws))
      PROVE  Inv'
  BY <1>2, mergeType, ResultObjectType, SettaintByValue DEF checked_settaint
<1>3. CASE \E o \in live, l \in Label : add_taint(o, l)
  <2>1. PICK o \in live, l \in Label : add_taint(o, l)
    BY <1>3
  <2>2. gettaint(o) \cup {l} \in SUBSET Label
    BY <1>1, gettaintType
  <2>3. settaint(o, gettaint(o) \cup {l})
    BY <2>1, <1>1 DEF add_taint, settaint
  <2> QED
    BY <1>1, <2>2, <2>3, SettaintByValue
<1>4. CASE \E o \in live : clear_taint(o)
  BY <1>4, <1>1, TaintConstants DEF clear_taint, objvars, framevars, TypeOK, NoDictShared
<1>5. CASE \E w1 \in live, r \in Obj : unaryoperation(w1, r)
  BY <1>1, <1>2, <1>5 DEF unaryoperation
<1>6. CASE \E w1, w2 \in live, r \in Obj : binaryoperation(w1, w2, r)
  BY <1>1, <1>2, <1>6 DEF binaryoperation
<1>7. CASE \E ws \in SUBSET live, r \in Obj : Cardinality(ws) \in 1..3 /\ slice(ws, r)
  BY <1>1, <1>2, <1>7 DEF slice
<1>8. CASE \E w \in live, r \in Obj : settaint_from(w, r)
  <2>0. PICK w \in live, r \in Obj : settaint_from(w, r)
    BY <1>8
  <2>1. PICK x \in ResultObject(r) : settaint(x, AfterClear(x, w))
    BY <2>0 DEF settaint_from
  <2>2. AfterClear(x, w) \in SUBSET Label
    BY <1>1, gettaintType DEF AfterClear
  <2> QED
    BY <2>1, <2>2, ResultObjectType, SettaintByValue
<1>9. CASE \E o \in Obj \ live : untainted_result(o)
  BY <1>9 DEF untainted_result, framevars, TypeOK, NoDictShared
<1>10. CASE \E o \in live : Drop(o)
  <2>1. PICK o \in live : Drop(o)
    BY <1>10
  <2>2. taints' \in [Obj -> Dict \cup {NoDict}]
    BY <2>1 DEF Drop, TypeOK
  <2>3. dict' \in [Dict -> SUBSET Label]
    BY <2>1, <2>2, CollectedByValue DEF Drop
  <2> QED
    BY <2>1, <2>2, <2>3 DEF Drop, framevars, TypeOK, NoDictShared
<1>11. QED
  BY <1>3, <1>4, <1>5, <1>6, <1>7, <1>8, <1>9, <1>10 DEF ObjStep

(* The invariant is inductive.                                             *)
LEMMA NextInv == Inv /\ [Next]_vars => Inv'
<1> SUFFICES ASSUME Inv, [Next]_vars PROVE Inv'
  OBVIOUS
<1>1. CASE UNCHANGED vars
  BY <1>1 DEF vars, Inv, TypeOK, NoDictShared
<1>2. QED
  BY <1>1, ObjStepInv, FrameStepInv DEF Next

(* In every behaviour every slot and map has its type, no two objects      *)
(* refer to one dictionary and an object that is gone refers to none.      *)
THEOREM Invariance == Spec => [](TypeOK /\ NoDictShared)
BY InitInv, NextInv, PTL DEF Spec, Inv

(* Each variable has its type in every behaviour, and no prebuilt object   *)
(* is ever lost.                                                           *)
THEOREM TypeCorrect == Spec => []TypeOK
BY Invariance, PTL

(* Clearing or tainting one object in place is invisible to all others.    *)
THEOREM NeverShared == Spec => []NoDictShared
BY Invariance, PTL
-----------------------------------------------------------------------------
(* The refinement: each step of the interpreter is a step of ObjTaint on   *)
(* at most one object, or leaves all labels alone.                         *)

labels == [o \in Obj |-> gettaint(o)]

(* One object's new labels, as an update of the abstract variable.         *)
LEMMA LabelsUpdate ==
    ASSUME NEW x \in Obj, NEW S, gettaint(x)' = S,
           \A p \in Obj \ {x} : gettaint(p)' = gettaint(p)
    PROVE  labels' = [labels EXCEPT ![x] = S]
BY DEF labels

(* A result that is a new object brings no labels of its own.              *)
LEMMA MergeDead ==
    ASSUME Inv, NEW ws \in SUBSET live, NEW r \in Obj \ live
    PROVE  merge_taints(ws \cup {r}) = merge_taints(ws)
BY DEF merge_taints, gettaint, Inv, NoDictShared

(* settaint is one update of the abstract variable, never on a boolean.    *)
LEMMA SettaintLabels ==
    ASSUME Inv, NEW r \in Obj, NEW x \in ResultObject(r),
           NEW S \in SUBSET Label, settaint(x, S)
    PROVE  /\ x \in Obj \ Bools
           /\ live' = live \cup {x}
           /\ labels' = [labels EXCEPT ![x] = S]
<1>1. Bools \subseteq live
  BY TaintConstants DEF Inv, TypeOK
<1>2. x \in Obj \ Bools
  BY <1>1, ResultObjectType DEF Inv
<1>3. /\ live' = live \cup {x}
      /\ gettaint(x)' = S
      /\ \A p \in Obj \ {x} : gettaint(p)' = gettaint(p)
  BY <1>2, SettaintByValue
<1>4. labels' = [labels EXCEPT ![x] = S]
  BY <1>2, <1>3, LabelsUpdate
<1>5. QED
  BY <1>2, <1>3, <1>4

(* Storing the union of some operands' labels is a step of ObjTaint.       *)
LEMMA MergeStep ==
    ASSUME Inv, NEW ws \in SUBSET live, ws # {}, NEW r \in Obj,
           checked_settaint(r, merge_taints(ws))
    PROVE  Abs!Next
<1>1. PICK x \in ResultObject(r) : settaint(x, merge_taints(ws))
  BY DEF checked_settaint
<1>2. live \subseteq Obj
  BY DEF Inv, TypeOK
<1>3. merge_taints(ws) \in SUBSET Label
  BY <1>2, mergeType DEF Inv
<1>4. /\ x \in Obj \ Bools
      /\ live' = live \cup {x}
      /\ labels' = [labels EXCEPT ![x] = merge_taints(ws)]
  BY <1>1, <1>3, SettaintLabels
<1>5. merge_taints(ws) = UNION {labels[w] : w \in ws}
  BY <1>2 DEF merge_taints, labels
<1>6. Abs!Result(x, ws)
  BY <1>4, <1>5 DEF Abs!Result, labels
<1>7. QED
  BY <1>4, <1>6 DEF Abs!Next

(* The result may be one of the operands, another live object or new.      *)
LEMMA MergeWithResult ==
    ASSUME Inv, NEW ws \in SUBSET live, ws # {}, NEW r \in Obj,
           checked_settaint(r, merge_taints(ws \cup {r}))
    PROVE  Abs!Next
<1>1. CASE r \in live
  BY <1>1, MergeStep
<1>2. CASE r \notin live
  BY <1>2, MergeDead, MergeStep
<1>3. QED
  BY <1>1, <1>2

(* Every operation on objects is a step of ObjTaint.                       *)
LEMMA ObjStepRefines == ASSUME Inv, ObjStep PROVE Abs!Next \/ UNCHANGED <<live, labels>>
<1> USE DEF Inv
<1>1. live \subseteq Obj
  BY DEF TypeOK
<1>2. CASE \E o \in live, l \in Label : add_taint(o, l)
  <2>1. PICK o \in live, l \in Label : add_taint(o, l)
    BY <1>2
  <2>2. gettaint(o) \cup {l} \in SUBSET Label
    BY <1>1, gettaintType
  <2>3. /\ gettaint(o)' = gettaint(o) \cup {l}
        /\ \A p \in Obj \ {o} : gettaint(p)' = gettaint(p)
    BY <1>1, <2>1, <2>2, RewriteByValue DEF add_taint
  <2>4. labels' = [labels EXCEPT ![o] = gettaint(o) \cup {l}]
    BY <1>1, <2>3, LabelsUpdate
  <2>5. gettaint(o) = labels[o]
    BY <1>1 DEF labels
  <2>6. Abs!Add(o, l)
    BY <2>1, <2>4, <2>5 DEF Abs!Add, add_taint, labels
  <2> QED
    BY <2>6 DEF Abs!Next
<1>3. CASE \E o \in live : clear_taint(o)
  <2>1. PICK o \in live : clear_taint(o)
    BY <1>3
  <2>2. labels' = [labels EXCEPT ![o] = {}]
    BY <1>1, <2>1, TaintConstants DEF clear_taint, objvars, gettaint, TypeOK, NoDictShared, labels
  <2>3. Abs!Clear(o)
    BY <2>1, <2>2 DEF Abs!Clear, clear_taint, objvars, labels
  <2> QED
    BY <2>3 DEF Abs!Next
<1>4. CASE \E w1 \in live, r \in Obj : unaryoperation(w1, r)
  <2>1. PICK w1 \in live, r \in Obj : unaryoperation(w1, r)
    BY <1>4
  <2>2. checked_settaint(r, merge_taints({w1} \cup {r}))
    <3>1. {r, w1} = {w1} \cup {r}
      OBVIOUS
    <3> QED
      BY <2>1, <3>1 DEF unaryoperation
  <2> QED
    BY <2>2, MergeWithResult
<1>5. CASE \E w1, w2 \in live, r \in Obj : binaryoperation(w1, w2, r)
  <2>1. PICK w1, w2 \in live, r \in Obj : binaryoperation(w1, w2, r)
    BY <1>5
  <2>2. checked_settaint(r, merge_taints({w1, w2} \cup {r}))
    <3>1. {r, w1, w2} = {w1, w2} \cup {r}
      OBVIOUS
    <3> QED
      BY <2>1, <3>1 DEF binaryoperation
  <2> QED
    BY <2>2, MergeWithResult
<1>6. CASE \E ws \in SUBSET live, r \in Obj : Cardinality(ws) \in 1..3 /\ slice(ws, r)
  <2>1. PICK ws \in SUBSET live, r \in Obj : Cardinality(ws) \in 1..3 /\ slice(ws, r)
    BY <1>6
  <2>2. ws # {}
    BY <2>1, FS_EmptySet
  <2> QED
    BY <2>1, <2>2, MergeStep DEF slice
<1>7. CASE \E w \in live, r \in Obj : settaint_from(w, r)
  <2>0. PICK w \in live, r \in Obj : settaint_from(w, r)
    BY <1>7
  <2>1. PICK x \in ResultObject(r) : settaint(x, AfterClear(x, w))
    BY <2>0 DEF settaint_from
  <2>2. AfterClear(x, w) \in SUBSET Label
    BY <1>1, gettaintType DEF AfterClear
  <2>3. /\ x \in Obj \ Bools
        /\ live' = live \cup {x}
        /\ labels' = [labels EXCEPT ![x] = AfterClear(x, w)]
    BY <2>1, <2>2, SettaintLabels
  <2>4. CASE gettaint(x) # {} /\ taints[w] = taints[x]
    <3>1. x \in live
      BY <1>1, <2>3, <2>4 DEF gettaint, NoDictShared
    <3>2. Abs!SelfCopy(x)
      BY <2>3, <2>4, <3>1 DEF Abs!SelfCopy, Abs!Clear, AfterClear, labels
    <3> QED
      BY <2>3, <3>1, <3>2 DEF Abs!Next
  <2>5. CASE ~(gettaint(x) # {} /\ taints[w] = taints[x])
    <3>1. AfterClear(x, w) = UNION {labels[v] : v \in {w}}
      BY <1>1, <2>5 DEF AfterClear, labels
    <3>2. Abs!Result(x, {w})
      BY <2>3, <3>1 DEF Abs!Result, labels
    <3>3. {w} \in SUBSET live /\ {w} # {}
      OBVIOUS
    <3> QED
      BY <2>3, <3>2, <3>3 DEF Abs!Next
  <2> QED
    BY <2>4, <2>5
<1>8. CASE \E o \in Obj \ live : untainted_result(o)
  BY <1>8 DEF untainted_result, Abs!Next, Abs!New, gettaint
<1>9. CASE \E o \in live : Drop(o)
  <2>1. PICK o \in live : Drop(o)
    BY <1>9
  <2>2. taints' \in [Obj -> Dict \cup {NoDict}]
    BY <2>1 DEF Drop, TypeOK
  <2>3. labels' = [labels EXCEPT ![o] = {}]
    BY <1>1, <2>1, <2>2, CollectedByValue DEF Drop, gettaint, TypeOK, labels
  <2>4. Abs!Drop(o)
    BY <2>1, <2>3 DEF Abs!Drop, Drop, labels
  <2> QED
    BY <2>1, <2>4 DEF Abs!Next, Drop
<1>10. QED
  BY <1>2, <1>3, <1>4, <1>5, <1>6, <1>7, <1>8, <1>9 DEF ObjStep

(* Seen from any object, labels are held by value: the specification of    *)
(* the interpreter's dictionaries implements ObjTaint.                     *)
THEOREM Refinement == Spec => ByValue
<1>1. Init => Abs!Init
  BY DEF Init, Abs!Init, gettaint
<1>2. Inv /\ [Next]_vars => [Abs!Next]_<<live, labels>>
  <2> SUFFICES ASSUME Inv, [Next]_vars PROVE [Abs!Next]_<<live, labels>>
    OBVIOUS
  <2>1. CASE ObjStep
    BY <2>1, ObjStepRefines
  <2>2. CASE FrameStep
    BY <2>2, FrameStepObjects DEF labels
  <2>3. CASE UNCHANGED vars
    BY <2>3 DEF vars, labels, gettaint
  <2> QED
    BY <2>1, <2>2, <2>3 DEF Next
<1>3. Inv /\ [Next]_vars => [Abs!Next]_<<live, [o \in Obj |-> gettaint(o)]>>
  BY <1>2 DEF labels
<1>4. QED
  BY <1>1, <1>3, InitInv, NextInv, PTL DEF Spec, ByValue, Abs!Spec
-----------------------------------------------------------------------------
(* The shared booleans: no operation that computes a value taints them.    *)
LEMMA ResultSparesBools ==
    ASSUME Inv, NEW r \in Obj, NEW x \in ResultObject(r),
           NEW S \in SUBSET Label, settaint(x, S), NEW b \in Bools
    PROVE  gettaint(b)' = gettaint(b)
<1>1. x \in Obj \ Bools /\ b \in Obj
  BY SettaintLabels, TaintConstants
<1>2. QED
  BY <1>1, SettaintByValue

(* Whatever changes the labels of a boolean is add_taint or clear_taint.   *)
LEMMA ObjStepBools ==
    ASSUME Inv, ObjStep, NEW b \in Bools, gettaint(b)' # gettaint(b)
    PROVE  \E l \in Label : add_taint(b, l) \/ clear_taint(b)
<1> USE DEF Inv
<1>1. live \subseteq Obj /\ b \in live /\ b \in Obj /\ b \in Prebuilt
  BY TaintConstants DEF TypeOK
<1>2. ASSUME NEW ws \in SUBSET live, NEW r \in Obj, checked_settaint(r, merge_taints(ws \cup {r}))
      PROVE  FALSE
  BY <1>1, <1>2, mergeType, ResultSparesBools DEF checked_settaint
<1>3. ASSUME NEW ws \in SUBSET live, NEW r \in Obj, checked_settaint(r, merge_taints(ws))
      PROVE  FALSE
  BY <1>1, <1>3, mergeType, ResultSparesBools DEF checked_settaint
<1>4. CASE \E o \in live, l \in Label : add_taint(o, l)
  <2>1. PICK o \in live, l \in Label : add_taint(o, l)
    BY <1>4
  <2>2. \A p \in Obj \ {o} : gettaint(p)' = gettaint(p)
    BY <1>1, <2>1, gettaintType, RewriteByValue DEF add_taint
  <2> QED
    BY <1>1, <2>1, <2>2
<1>5. CASE \E o \in live : clear_taint(o)
  <2>1. PICK o \in live : clear_taint(o)
    BY <1>5
  <2>2. o = b
    BY <1>1, <2>1, TaintConstants DEF clear_taint, objvars, gettaint, TypeOK, NoDictShared
  <2>3. Label # {}
    BY <1>1, <2>1, <2>2, gettaintType DEF clear_taint
  <2> QED
    BY <2>1, <2>2, <2>3
<1>6. CASE \E w1 \in live, r \in Obj : unaryoperation(w1, r)
  <2>1. PICK w1 \in live, r \in Obj : unaryoperation(w1, r)
    BY <1>6
  <2>2. {r, w1} = {w1} \cup {r}
    OBVIOUS
  <2>3. checked_settaint(r, merge_taints({w1} \cup {r}))
    BY <2>1, <2>2 DEF unaryoperation
  <2> QED
    BY <2>3, <1>2
<1>7. CASE \E w1, w2 \in live, r \in Obj : binaryoperation(w1, w2, r)
  <2>1. PICK w1, w2 \in live, r \in Obj : binaryoperation(w1, w2, r)
    BY <1>7
  <2>2. {r, w1, w2} = {w1, w2} \cup {r}
    OBVIOUS
  <2>3. checked_settaint(r, merge_taints({w1, w2} \cup {r}))
    BY <2>1, <2>2 DEF binaryoperation
  <2> QED
    BY <2>3, <1>2
<1>8. CASE \E ws \in SUBSET live, r \in Obj : Cardinality(ws) \in 1..3 /\ slice(ws, r)
  BY <1>3, <1>8 DEF slice
<1>9. CASE \E w \in live, r \in Obj : settaint_from(w, r)
  <2>1. PICK w \in live, r \in Obj : settaint_from(w, r)
    BY <1>9
  <2>2. PICK x \in ResultObject(r) : settaint(x, AfterClear(x, w))
    BY <2>1 DEF settaint_from
  <2>3. AfterClear(x, w) \in SUBSET Label
    BY <1>1, gettaintType DEF AfterClear
  <2> QED
    BY <2>2, <2>3, ResultSparesBools
<1>10. CASE \E o \in Obj \ live : untainted_result(o)
  BY <1>10 DEF untainted_result, gettaint
<1>11. CASE \E o \in live : Drop(o)
  <2>1. PICK o \in live : Drop(o) /\ o # b
    BY <1>1, <1>11 DEF Drop
  <2>2. taints' \in [Obj -> Dict \cup {NoDict}] /\ taints'[b] = taints[b]
    BY <1>1, <2>1 DEF Drop, TypeOK
  <2> QED
    BY <1>1, <2>1, <2>2, CollectedByValue DEF Drop, gettaint
<1>12. QED
  BY <1>4, <1>5, <1>6, <1>7, <1>8, <1>9, <1>10, <1>11 DEF ObjStep

(* Only add_taint and clear_taint on the object itself change the labels   *)
(* of the interpreter's shared True and False.                             *)
THEOREM SharedBools == Spec => BoolsKept
<1>1. Inv /\ [Next]_vars => [BoolsOnlyByApi]_vars
  <2> SUFFICES ASSUME Inv, Next, NEW b \in Bools, gettaint(b)' # gettaint(b)
               PROVE  \E l \in Label : add_taint(b, l) \/ clear_taint(b)
    BY DEF BoolsOnlyByApi
  <2>1. b \in Obj
    BY TaintConstants
  <2>2. ~FrameStep
    BY <2>1, FrameStepObjects
  <2> QED
    BY <2>2, ObjStepBools DEF Next
<1>2. QED
  BY <1>1, InitInv, NextInv, PTL DEF Spec, BoolsKept
-----------------------------------------------------------------------------
(***************************************************************************)
(* Control taint.  Chains of spaces: a chain contains the space it starts  *)
(* from and the parents of its members, and nothing else needs to be in it.*)
(***************************************************************************)
Parents == [Space -> Space \cup {NoSpace}]

LEMMA ChainSelf == ASSUME NEW par, NEW s \in Space PROVE s \in Chain(s, par)
BY DEF Chain

LEMMA ChainClosed ==
    ASSUME NEW par \in Parents, NEW s \in Space, NEW x \in Chain(s, par), par[x] # NoSpace
    PROVE  par[x] \in Chain(s, par)
BY DEF Chain, Parents

LEMMA ChainLeast ==
    ASSUME NEW par, NEW s \in Space, NEW S \in SUBSET Space, s \in S,
           \A y \in S : par[y] # NoSpace => par[y] \in S
    PROVE  Chain(s, par) \subseteq S
BY DEF Chain

(* The space of every frame and of every generator is reachable.           *)
LEMMA RootsReached ==
    ASSUME NEW stacks \in [Thread -> Seq(Space)], NEW gs \in SUBSET Space, NEW par
    PROVE  /\ \A t \in Thread : \A k \in 1..Len(stacks[t]) : stacks[t][k] \in Reachable(stacks, gs, par)
           /\ gs \subseteq Reachable(stacks, gs, par)
<1> DEFINE roots == gs \cup UNION {{stacks[t][k] : k \in 1..Len(stacks[t])} : t \in Thread}
<1>1. roots \subseteq Space
  OBVIOUS
<1>2. \A s \in roots : s \in Reachable(stacks, gs, par)
  BY <1>1, ChainSelf DEF Reachable
<1> QED
  BY <1>2

(* Forgetting the spaces that cannot be reached makes no other one so.     *)
LEMMA ForgetKeeps ==
    ASSUME TypeOK, NEW stacks \in [Thread -> Seq(Space)], NEW gs \in SUBSET Space,
           Forget(stacks, gs)
    PROVE  \A s \in Space : /\ s \in Reachable(stacks, gs, parent) =>
                                  tmap'[s] = tmap[s] /\ parent'[s] = parent[s]
                            /\ s \in Reachable(stacks, gs, parent') =>
                                  s \in Reachable(stacks, gs, parent)
<1> DEFINE roots == gs \cup UNION {{stacks[t][k] : k \in 1..Len(stacks[t])} : t \in Thread}
           K == Reachable(stacks, gs, parent)
<1>1. roots \subseteq Space
  OBVIOUS
<1>2. K = UNION {Chain(r, parent) : r \in roots}
  BY DEF Reachable
<1>3. /\ tmap' = [s \in Space |-> IF s \in K THEN tmap[s] ELSE NoJumps]
      /\ parent' = [s \in Space |-> IF s \in K THEN parent[s] ELSE NoSpace]
  BY DEF Forget
<1>4. K \subseteq Space
  BY <1>2 DEF Chain
<1>5. ASSUME NEW y \in K, parent'[y] # NoSpace
      PROVE  parent'[y] \in K
  <2>1. PICK r \in roots : y \in Chain(r, parent)
    BY <1>2
  <2>2. parent'[y] = parent[y] /\ parent[y] # NoSpace
    BY <1>3, <1>4, <1>5
  <2>3. parent[y] \in Chain(r, parent)
    BY <1>1, <2>1, <2>2, ChainClosed DEF TypeOK, Parents
  <2> QED
    BY <1>2, <2>2, <2>3
<1>6. ASSUME NEW r \in roots
      PROVE  Chain(r, parent') \subseteq K
  <2>1. r \in K
    BY <1>1, <1>2, ChainSelf
  <2> QED
    BY <1>1, <1>4, <1>5, <2>1, ChainLeast
<1>7. Reachable(stacks, gs, parent') \subseteq K
  BY <1>6 DEF Reachable
<1> QED
  BY <1>3, <1>7

(* A space is on at most one stack, and there once.                        *)
OnceOnStack ==
    \A t, u \in Thread : \A k \in 1..Len(frames[t]), j \in 1..Len(frames[u]) :
        frames[t][k] = frames[u][j] => t = u /\ k = j

(* What a stack is after a call and after the end of a frame.              *)
LEMMA PushFrameFacts ==
    ASSUME TypeOK, NEW t \in Thread, NEW s \in Space,
           frames' = [frames EXCEPT ![t] = Append(@, s)]
    PROVE  /\ \A u \in Thread : Len(frames'[u]) = IF u = t THEN Len(frames[t]) + 1 ELSE Len(frames[u])
           /\ \A u \in Thread : \A k \in 1..Len(frames[u]) : frames'[u][k] = frames[u][k]
           /\ frames'[t][Len(frames[t]) + 1] = s
<1>1. frames[t] \in Seq(Space)
  BY DEF TypeOK
<1>2. /\ Len(Append(frames[t], s)) = Len(frames[t]) + 1
      /\ \A k \in 1..Len(frames[t]) : Append(frames[t], s)[k] = frames[t][k]
      /\ Append(frames[t], s)[Len(frames[t]) + 1] = s
  BY <1>1
<1>3. /\ frames'[t] = Append(frames[t], s)
      /\ \A u \in Thread \ {t} : frames'[u] = frames[u]
  BY DEF TypeOK
<1>4. Len(frames'[t]) = Len(frames[t]) + 1
  BY <1>2, <1>3
<1>5. \A k \in 1..Len(frames[t]) : frames'[t][k] = frames[t][k]
  BY <1>2, <1>3
<1>6. frames'[t][Len(frames[t]) + 1] = s
  BY <1>2, <1>3
<1> QED
  BY <1>3, <1>4, <1>5, <1>6

LEMMA PopFrameFacts ==
    ASSUME TypeOK, NEW t \in Thread, frames[t] # <<>>, frames' = PopFrame(t)
    PROVE  /\ \A u \in Thread : Len(frames'[u]) = IF u = t THEN Len(frames[t]) - 1 ELSE Len(frames[u])
           /\ \A u \in Thread : \A k \in 1..Len(frames'[u]) : /\ k \in 1..Len(frames[u])
                                                             /\ frames'[u][k] = frames[u][k]
           /\ Len(frames[t]) \in 1..Len(frames[t])
<1>1. frames[t] \in Seq(Space) /\ Len(frames[t]) \in Nat \ {0}
  BY DEF TypeOK
<1> DEFINE rest == SubSeq(frames[t], 1, Len(frames[t]) - 1)
<1>2. /\ Len(rest) = Len(frames[t]) - 1
      /\ \A k \in 1..Len(rest) : rest[k] = frames[t][k]
  BY <1>1
<1>3. /\ frames'[t] = rest
      /\ \A u \in Thread \ {t} : frames'[u] = frames[u]
  BY DEF TypeOK, PopFrame
<1>4. Len(frames'[t]) = Len(frames[t]) - 1
  BY <1>2, <1>3
<1>5. \A k \in 1..Len(frames'[t]) : k \in 1..Len(frames[t]) /\ frames'[t][k] = frames[t][k]
  BY <1>1, <1>2, <1>3
<1>6. ASSUME NEW u \in Thread
      PROVE  /\ Len(frames'[u]) = IF u = t THEN Len(frames[t]) - 1 ELSE Len(frames[u])
             /\ \A k \in 1..Len(frames'[u]) : k \in 1..Len(frames[u]) /\ frames'[u][k] = frames[u][k]
  <2>1. CASE u = t
    BY <1>4, <1>5, <2>1
  <2>2. CASE u # t
    BY <1>3, <2>2
  <2> QED
    BY <2>1, <2>2
<1> QED
  BY <1>1, <1>6

(* Every step keeps spaces apart and the parents of plain frames right: a  *)
(* new frame gets a space that nothing refers to, and a frame that ends    *)
(* leaves the spaces of those below it alone.                              *)
LEMMA NextInherits ==
    ASSUME Inv, OnceOnStack, CallInherits, [Next]_vars
    PROVE  OnceOnStack' /\ CallInherits'
<1> USE DEF Inv
<1>0. /\ frames \in [Thread -> Seq(Space)] /\ gens \in SUBSET Space
      /\ parent \in Parents
      /\ \A t \in Thread : Len(frames[t]) \in Nat
  BY DEF TypeOK, Parents
<1>1. CASE UNCHANGED framevars
  BY <1>1 DEF framevars, OnceOnStack, CallInherits
<1>2. ASSUME NEW t \in Thread, NEW s \in Space, NewSpace(t, s)
      PROVE  /\ \A u \in Thread : \A k \in 1..Len(frames[u]) : frames[u][k] # s
             /\ s \notin gens
             /\ \A x \in Space \ {s} : parent'[x] = parent[x]
             /\ parent'[s] = IF frames[t] = <<>> THEN NoSpace ELSE frames[t][Len(frames[t])]
  BY <1>0, <1>2, RootsReached DEF NewSpace, Top, Parents
<1>3. ASSUME NEW t \in Thread, NEW s \in Space,
             frames' = [frames EXCEPT ![t] = Append(@, s)],
             \A u \in Thread : \A k \in 1..Len(frames[u]) : frames[u][k] # s
      PROVE  OnceOnStack'
  <2>1. /\ \A u \in Thread : Len(frames'[u]) = IF u = t THEN Len(frames[t]) + 1 ELSE Len(frames[u])
        /\ \A u \in Thread : \A k \in 1..Len(frames[u]) : frames'[u][k] = frames[u][k]
        /\ frames'[t][Len(frames[t]) + 1] = s
    BY <1>3, PushFrameFacts
  <2>2. \A u \in Thread : \A k \in 1..Len(frames'[u]) :
           \/ k \in 1..Len(frames[u]) /\ frames'[u][k] # s
           \/ u = t /\ k = Len(frames[t]) + 1 /\ frames'[u][k] = s
    BY <1>0, <1>3, <2>1
  <2> QED
    BY <2>1, <2>2 DEF OnceOnStack
<1>4. ASSUME NEW t \in Thread, NEW s \in Space, run(t, s)
      PROVE  OnceOnStack' /\ CallInherits'
  <2>1. /\ \A u \in Thread : Len(frames'[u]) = IF u = t THEN Len(frames[t]) + 1 ELSE Len(frames[u])
        /\ \A u \in Thread : \A k \in 1..Len(frames[u]) : frames'[u][k] = frames[u][k]
        /\ frames'[t][Len(frames[t]) + 1] = s
    BY <1>4, PushFrameFacts DEF run
  <2>2. /\ \A u \in Thread : \A k \in 1..Len(frames[u]) : frames[u][k] # s
        /\ \A x \in Space \ {s} : parent'[x] = parent[x]
        /\ parent'[s] = IF frames[t] = <<>> THEN NoSpace ELSE frames[t][Len(frames[t])]
        /\ gens' = gens
    BY <1>2, <1>4 DEF run
  <2>3. ASSUME NEW u \in Thread, NEW k \in 1..Len(frames[u]), frames[u][k] \notin gens
        PROVE  parent'[frames'[u][k]] = IF k = 1 THEN NoSpace ELSE frames'[u][k - 1]
    <3>1. frames[u][k] \in Space \ {s}
      BY <1>0, <2>2
    <3>2. k # 1 => k - 1 \in 1..Len(frames[u])
      BY <1>0
    <3> QED
      BY <2>1, <2>2, <2>3, <3>1, <3>2 DEF CallInherits
  <2>4. parent'[frames'[t][Len(frames[t]) + 1]] =
           IF Len(frames[t]) + 1 = 1 THEN NoSpace ELSE frames'[t][Len(frames[t]) + 1 - 1]
    <3>1. frames[t] = <<>> <=> Len(frames[t]) = 0
      BY <1>0
    <3>2. Len(frames[t]) # 0 => frames'[t][Len(frames[t])] = frames[t][Len(frames[t])]
      BY <1>0, <2>1
    <3> QED
      BY <1>0, <2>1, <2>2, <3>1, <3>2
  <2>5. \A u \in Thread : \A k \in 1..Len(frames'[u]) :
           k \in 1..Len(frames[u]) \/ (u = t /\ k = Len(frames[t]) + 1)
    BY <1>0, <2>1
  <2>6. CallInherits'
    <3> SUFFICES ASSUME NEW u \in Thread, NEW k \in 1..Len(frames'[u]), frames'[u][k] \notin gens'
                 PROVE  parent'[frames'[u][k]] = IF k = 1 THEN NoSpace ELSE frames'[u][k - 1]
      BY DEF CallInherits
    <3>1. CASE k \in 1..Len(frames[u])
      BY <2>1, <2>2, <2>3, <3>1
    <3>2. CASE u = t /\ k = Len(frames[t]) + 1
      BY <2>4, <3>2
    <3> QED
      BY <2>5, <3>1, <3>2
  <2> QED
    BY <1>3, <1>4, <2>2, <2>6 DEF run
<1>5. ASSUME NEW t \in Thread, NEW s \in Space, run_generator(t, s)
      PROVE  OnceOnStack' /\ CallInherits'
  <2>1. /\ \A u \in Thread : \A k \in 1..Len(frames[u]) : frames[u][k] \in Space \ {s}
        /\ \A x \in Space \ {s} : parent'[x] = parent[x]
        /\ frames' = frames /\ gens' = gens \cup {s}
    BY <1>0, <1>2, <1>5 DEF run_generator
  <2> QED
    BY <2>1 DEF OnceOnStack, CallInherits
<1>6. ASSUME NEW t \in Thread, NEW g \in gens, resume(t, g)
      PROVE  OnceOnStack' /\ CallInherits'
  <2>1. /\ \A u \in Thread : Len(frames'[u]) = IF u = t THEN Len(frames[t]) + 1 ELSE Len(frames[u])
        /\ \A u \in Thread : \A k \in 1..Len(frames[u]) : frames'[u][k] = frames[u][k]
        /\ frames'[t][Len(frames[t]) + 1] = g
    BY <1>0, <1>6, PushFrameFacts DEF resume
  <2>2. \A u \in Thread : \A k \in 1..Len(frames[u]) : frames[u][k] # g
    BY <1>6 DEF resume, OnStack
  <2>3. gens' = gens /\ parent' = parent
    BY <1>6 DEF resume
  <2>4. \A u \in Thread : \A k \in 1..Len(frames'[u]) : frames'[u][k] \notin gens =>
           k \in 1..Len(frames[u]) /\ (k # 1 => k - 1 \in 1..Len(frames[u]))
    BY <1>0, <2>1
  <2>5. CallInherits'
    BY <2>1, <2>3, <2>4 DEF CallInherits
  <2> QED
    BY <1>0, <1>3, <1>6, <2>2, <2>5 DEF resume
<1>7. ASSUME NEW t \in Thread, frames[t] # <<>>, frames' = PopFrame(t),
             gens' = gens \/ gens' = gens \ {Top(t)},
             \A u \in Thread : \A k \in 1..Len(frames'[u]) : parent'[frames'[u][k]] = parent[frames'[u][k]]
      PROVE  OnceOnStack' /\ CallInherits'
  <2>1. /\ \A u \in Thread : Len(frames'[u]) = IF u = t THEN Len(frames[t]) - 1 ELSE Len(frames[u])
        /\ \A u \in Thread : \A k \in 1..Len(frames'[u]) : /\ k \in 1..Len(frames[u])
                                                          /\ frames'[u][k] = frames[u][k]
        /\ Len(frames[t]) \in 1..Len(frames[t])
    BY <1>7, PopFrameFacts
  <2>2. OnceOnStack'
    BY <2>1 DEF OnceOnStack
  <2>3. \A u \in Thread : \A k \in 1..Len(frames'[u]) : frames'[u][k] # Top(t)
    <3> SUFFICES ASSUME NEW u \in Thread, NEW k \in 1..Len(frames'[u]), frames[u][k] = frames[t][Len(frames[t])]
                 PROVE  FALSE
      BY <2>1 DEF Top
    <3>1. u = t /\ k = Len(frames[t])
      BY <2>1 DEF OnceOnStack
    <3> QED
      BY <1>0, <2>1, <3>1
  <2>4. \A u \in Thread : \A k \in 1..Len(frames'[u]) : k # 1 => k - 1 \in 1..Len(frames'[u])
    BY <1>0, <2>1
  <2>5. CallInherits'
    <3> SUFFICES ASSUME NEW u \in Thread, NEW k \in 1..Len(frames'[u]), frames'[u][k] \notin gens'
                 PROVE  parent'[frames'[u][k]] = IF k = 1 THEN NoSpace ELSE frames'[u][k - 1]
      BY DEF CallInherits
    <3>1. k \in 1..Len(frames[u]) /\ frames[u][k] \notin gens
      BY <1>7, <2>1, <2>3
    <3>2. parent[frames[u][k]] = IF k = 1 THEN NoSpace ELSE frames[u][k - 1]
      BY <3>1 DEF CallInherits
    <3>3. k # 1 => frames'[u][k - 1] = frames[u][k - 1]
      BY <2>1, <2>4
    <3> QED
      BY <1>7, <2>1, <3>2, <3>3
  <2> QED
    BY <2>2, <2>5
<1>8. ASSUME NEW t \in Thread, yield_value(t)
      PROVE  OnceOnStack' /\ CallInherits'
  BY <1>7, <1>8 DEF yield_value
<1>9. ASSUME NEW t \in Thread, leave(t)
      PROVE  OnceOnStack' /\ CallInherits'
  <2>1. frames' \in [Thread -> Seq(Space)] /\ gens' \in SUBSET Space
    BY <1>0, <1>9, PopFrameType DEF leave
  <2>2. \A s \in Space : s \in Reachable(frames', gens', parent) => parent'[s] = parent[s]
    BY <1>9, <2>1, ForgetKeeps DEF leave
  <2>3. \A u \in Thread : \A k \in 1..Len(frames'[u]) : frames'[u][k] \in Space
    BY <2>1
  <2>4. \A u \in Thread : \A k \in 1..Len(frames'[u]) : parent'[frames'[u][k]] = parent[frames'[u][k]]
    BY <2>1, <2>2, <2>3, RootsReached
  <2> QED
    BY <1>7, <1>9, <2>4 DEF leave
<1>10. ASSUME NEW g \in gens, drop_generator(g)
       PROVE  OnceOnStack' /\ CallInherits'
  <2>1. frames' = frames /\ gens' = gens \ {g}
    BY <1>10 DEF drop_generator
  <2>2. \A s \in Space : s \in Reachable(frames, gens', parent) => parent'[s] = parent[s]
    BY <1>0, <1>10, <2>1, ForgetKeeps DEF drop_generator
  <2>3. \A u \in Thread : \A k \in 1..Len(frames[u]) : frames[u][k] \in Space /\ frames[u][k] # g
    BY <1>0, <1>10 DEF drop_generator, OnStack
  <2>4. \A u \in Thread : \A k \in 1..Len(frames[u]) : parent'[frames[u][k]] = parent[frames[u][k]]
    BY <1>0, <2>1, <2>2, <2>3, RootsReached
  <2> QED
    BY <2>1, <2>3, <2>4 DEF OnceOnStack, CallInherits
<1>11. CASE UNCHANGED vars
  BY <1>1, <1>11 DEF vars, framevars
<1>12. CASE ObjStep
  BY <1>1, <1>12 DEF ObjStep, add_taint, clear_taint, unaryoperation, binaryoperation, slice,
     settaint_from, checked_settaint, settaint, untainted_result, Drop
<1>13. CASE \E t \in Thread, i \in Instr, w \in live : conditional_jump(t, i, w)
  BY <1>1, <1>13 DEF conditional_jump
<1> QED
  BY <1>0, <1>4, <1>5, <1>6, <1>8, <1>9, <1>10, <1>11, <1>12, <1>13 DEF Next, FrameStep

(* A call inherits the control taint of its caller, on every thread and    *)
(* however generators are suspended and resumed in between.                *)
THEOREM CallsInherit == Spec => []CallInherits
<1>1. Init => OnceOnStack /\ CallInherits
  BY DEF Init, OnceOnStack, CallInherits
<1>2. Inv /\ OnceOnStack /\ CallInherits /\ [Next]_vars => OnceOnStack' /\ CallInherits'
  BY NextInherits
<1> QED
  BY <1>1, <1>2, InitInv, NextInv, PTL DEF Spec

-----------------------------------------------------------------------------
(***************************************************************************)
(* What happens to a dictionary that a TaintSpace refers to.               *)
(***************************************************************************)

(* A write of labels leaves every dictionary alone but the object's own    *)
(* and one that nothing refers to.                                         *)
LEMMA RewriteSpares ==
    ASSUME Inv, NEW o \in Obj, NEW S, Rewrite(o, S),
           NEW s \in Space, NEW i \in Instr, tmap[s][i] # NoDict
    PROVE  /\ taints[o] = tmap[s][i] /\ UNCHANGED taints /\ o \in live
           \/ /\ dict'[tmap[s][i]] = dict[tmap[s][i]]
              /\ \A p \in Obj : taints'[p] = tmap[s][i] => taints[p] = tmap[s][i]
<1>1. tmap[s][i] \in Dict
  BY DEF Inv, TypeOK
<1>2. ASSUME NEW d \in FreeDict, taints' = [taints EXCEPT ![o] = d], dict' = [dict EXCEPT ![d] = S]
      PROVE  /\ dict'[tmap[s][i]] = dict[tmap[s][i]]
             /\ \A p \in Obj : taints'[p] = tmap[s][i] => taints[p] = tmap[s][i]
  BY <1>1, <1>2 DEF FreeDict, Inv, TypeOK
<1>3. CASE gettaint(o) # {} /\ dict' = [dict EXCEPT ![taints[o]] = S] /\ UNCHANGED taints
  <2>1. o \in live
    BY <1>3 DEF gettaint, Inv, NoDictShared
  <2>2. taints[o] # tmap[s][i] => dict'[tmap[s][i]] = dict[tmap[s][i]]
    BY <1>1, <1>3 DEF Inv, TypeOK
  <2> QED
    BY <1>3, <2>1, <2>2
<1> QED
  BY <1>2, <1>3 DEF Rewrite

(* A step on objects either leaves a dictionary that a TaintSpace refers   *)
(* to alone, or it changes it in place, as that of a living object.        *)
LEMMA ObjStepSpares ==
    ASSUME Inv, ObjStep, NEW s \in Space, NEW i \in Instr, tmap[s][i] # NoDict
    PROVE  /\ UNCHANGED <<tmap, framevars>>
           /\ \/ \E o \in live : taints[o] = tmap[s][i] /\ o \in live'
              \/ /\ dict'[tmap[s][i]] = dict[tmap[s][i]]
                 /\ \A p \in Obj : taints'[p] = tmap[s][i] => taints[p] = tmap[s][i]
<1> DEFINE d == tmap[s][i]
           Goal == /\ UNCHANGED <<tmap, framevars>>
                   /\ \/ \E o \in live : taints[o] = d /\ o \in live'
                      \/ /\ dict'[d] = dict[d]
                         /\ \A p \in Obj : taints'[p] = d => taints[p] = d
<1>0. d \in Dict /\ live \subseteq Obj
  BY DEF Inv, TypeOK
<1>1. ASSUME NEW o \in Obj, NEW S, Rewrite(o, S), UNCHANGED <<tmap, framevars>>, live \subseteq live'
      PROVE  Goal
  <2>1. CASE taints[o] = d /\ o \in live
    BY <1>1, <2>1
  <2>2. CASE dict'[d] = dict[d] /\ \A p \in Obj : taints'[p] = d => taints[p] = d
    BY <1>1, <2>2
  <2> QED
    BY <1>1, <2>1, <2>2, RewriteSpares
<1>2. ASSUME NEW o \in Obj, NEW S, settaint(o, S)
      PROVE  Goal
  BY <1>1, <1>2 DEF settaint
<1>3. ASSUME NEW r \in Obj, NEW S, checked_settaint(r, S)
      PROVE  Goal
  BY <1>2, <1>3, ResultObjectType DEF checked_settaint, Inv
<1>4. CASE \E o \in live, l \in Label : add_taint(o, l)
  BY <1>0, <1>1, <1>4 DEF add_taint
<1>5. CASE \E o \in live : clear_taint(o)
  <2>1. PICK o \in live : clear_taint(o)
    BY <1>5
  <2>2. UNCHANGED <<live, taints, tmap, framevars>> /\ dict' = [dict EXCEPT ![taints[o]] = {}]
    BY <2>1 DEF clear_taint, objvars
  <2>3. taints[o] # d => dict'[d] = dict[d]
    BY <1>0, <2>2 DEF Inv, TypeOK
  <2> QED
    BY <2>2, <2>3
<1>6. CASE \E w1 \in live, r \in Obj : unaryoperation(w1, r)
  BY <1>3, <1>6 DEF unaryoperation
<1>7. CASE \E w1, w2 \in live, r \in Obj : binaryoperation(w1, w2, r)
  BY <1>3, <1>7 DEF binaryoperation
<1>8. CASE \E ws \in SUBSET live, r \in Obj : Cardinality(ws) \in 1..3 /\ slice(ws, r)
  BY <1>3, <1>8 DEF slice
<1>9. CASE \E w \in live, r \in Obj : settaint_from(w, r)
  BY <1>2, <1>9, ResultObjectType DEF settaint_from, Inv
<1>10. CASE \E o \in Obj \ live : untainted_result(o)
  BY <1>10 DEF untainted_result
<1>11. CASE \E o \in live : Drop(o)
  <2>1. PICK o \in live : Drop(o)
    BY <1>11
  <2>2. dict'[d] = dict[d]
    BY <1>0, <2>1 DEF Drop, Collected
  <2>3. \A p \in Obj : taints'[p] = d => taints[p] = d
    BY <1>0, <2>1, TaintConstants DEF Drop, Inv, TypeOK
  <2> QED
    BY <2>1, <2>2, <2>3 DEF Drop
<1> QED
  BY <1>4, <1>5, <1>6, <1>7, <1>8, <1>9, <1>10, <1>11 DEF ObjStep

(* A step of frames keeps what a map goes on referring to.                 *)
LEMMA FrameStepSpares ==
    ASSUME Inv, FrameStep, NEW s \in Space, NEW i \in Instr, tmap[s][i] # NoDict
    PROVE  tmap'[s][i] = tmap[s][i] => dict'[tmap[s][i]] = dict[tmap[s][i]]
<1>1. tmap[s][i] \in Dict
  BY DEF Inv, TypeOK
<1>2. dict' = dict \/ dict' = Collected(taints, tmap', dict)
  BY DEF FrameStep, conditional_jump, run, run_generator, resume, yield_value, leave,
         drop_generator, Forget
<1> QED
  BY <1>1, <1>2 DEF Collected

(* A dictionary only a TaintSpace refers to never changes again and never  *)
(* becomes an object's.                                                    *)
THEOREM DetachedFinal == Spec => DetachedFrozen
<1> DEFINE Frozen == \A s \in Space, i \in Instr :
                       LET d == tmap[s][i] IN
                       (d # NoDict /\ tmap'[s][i] = d /\ \A o \in Obj : taints[o] # d)
                       => dict'[d] = dict[d] /\ \A o \in Obj : taints'[o] # d
<1>1. Inv /\ [Next]_vars => [Frozen]_vars
  <2> SUFFICES ASSUME Inv, Next, NEW s \in Space, NEW i \in Instr,
                      tmap[s][i] # NoDict, tmap'[s][i] = tmap[s][i],
                      \A o \in Obj : taints[o] # tmap[s][i]
               PROVE  dict'[tmap[s][i]] = dict[tmap[s][i]] /\ \A o \in Obj : taints'[o] # tmap[s][i]
    OBVIOUS
  <2>1. CASE ObjStep
    <3>1. live \subseteq Obj
      BY DEF Inv, TypeOK
    <3> QED
      BY <2>1, <3>1, ObjStepSpares
  <2>2. CASE FrameStep
    BY <2>2, FrameStepSpares, FrameStepObjects
  <2> QED
    BY <2>1, <2>2 DEF Next
<1>2. Spec => [][Frozen]_vars
  BY <1>1, InitInv, NextInv, PTL DEF Spec
<1> QED
  BY <1>2 DEF DetachedFrozen

(* The maps of spaces that stay reachable change by their own jumps only.  *)
LEMMA FrameStepKeeps ==
    ASSUME Inv, FrameStep, NEW s \in Space, NEW i \in Instr,
           s \in Reachable(frames, gens, parent)',
           \A t \in Thread, w \in live :
              frames[t] # <<>> /\ s = Top(t) => ~conditional_jump(t, i, w)
    PROVE  tmap'[s][i] = tmap[s][i]
<1> USE DEF Inv
<1>1. CASE \E t \in Thread, j \in Instr, w \in live : conditional_jump(t, j, w)
  <2>1. PICK t \in Thread, j \in Instr, w \in live : conditional_jump(t, j, w)
    BY <1>1
  <2>2. frames[t] # <<>> /\ tmap' = [tmap EXCEPT ![Top(t)][j] = taints[w]]
    BY <2>1 DEF conditional_jump
  <2>3. ~(s = Top(t) /\ i = j)
    BY <2>1, <2>2
  <2>4. tmap \in [Space -> [Instr -> Dict \cup {NoDict}]]
    BY DEF TypeOK
  <2> QED
    BY <2>2, <2>3, <2>4
<1>2. ASSUME NEW stacks, stacks = frames', NEW gs, gs = gens', Forget(stacks, gs),
             stacks \in [Thread -> Seq(Space)], gs \in SUBSET Space
      PROVE  tmap'[s][i] = tmap[s][i]
  <2>1. s \in Reachable(stacks, gs, parent')
    BY <1>2 DEF Reachable
  <2> QED
    BY <1>2, <2>1, ForgetKeeps
<1>3. CASE \E t \in Thread : leave(t)
  <2>1. PICK t \in Thread : leave(t)
    BY <1>3
  <2>2. frames' \in [Thread -> Seq(Space)] /\ gens' \in SUBSET Space /\ Forget(frames', gens')
    BY <2>1, PopFrameType DEF leave, TypeOK
  <2> QED
    BY <1>2, <2>2
<1>4. CASE \E g \in gens : drop_generator(g)
  <2>1. frames' = frames /\ gens' \in SUBSET Space /\ Forget(frames, gens')
    BY <1>4 DEF drop_generator, TypeOK
  <2>2. frames' \in [Thread -> Seq(Space)]
    BY <2>1 DEF TypeOK
  <2> QED
    BY <1>2, <2>1, <2>2
<1>5. CASE UNCHANGED tmap
  BY <1>5
<1> QED
  BY <1>1, <1>3, <1>4, <1>5 DEF FrameStep, run, run_generator, resume, yield_value

(* Control taint a frame can see is never lost: a recorded label stays     *)
(* until the jump that recorded it does so again, or the object it came    *)
(* from, still alive, is changed.                                          *)
THEOREM ControlTaintKept == Spec => ControlKept
<1> DEFINE Kept ==
      \A s \in Reachable(frames, gens, parent), i \in Instr :
         (/\ tmap[s][i] # NoDict
          /\ s \in Reachable(frames, gens, parent)'
          /\ \A t \in Thread, w \in live :
                frames[t] # <<>> /\ s = Top(t) => ~conditional_jump(t, i, w))
         => /\ tmap'[s][i] = tmap[s][i]
            /\ \/ dict[tmap[s][i]] \subseteq dict'[tmap[s][i]]
               \/ \E o \in live : taints[o] = tmap[s][i] /\ o \in live'
<1>1. Reachable(frames, gens, parent) \subseteq Space
  BY DEF Reachable, Chain
<1>2. Inv /\ [Next]_vars => [Kept]_vars
  <2> SUFFICES ASSUME Inv, Next,
                      NEW s \in Reachable(frames, gens, parent), NEW i \in Instr,
                      tmap[s][i] # NoDict,
                      s \in Reachable(frames, gens, parent)',
                      \A t \in Thread, w \in live :
                         frames[t] # <<>> /\ s = Top(t) => ~conditional_jump(t, i, w)
               PROVE  /\ tmap'[s][i] = tmap[s][i]
                      /\ \/ dict[tmap[s][i]] \subseteq dict'[tmap[s][i]]
                         \/ \E o \in live : taints[o] = tmap[s][i] /\ o \in live'
    OBVIOUS
  <2>0. s \in Space
    BY <1>1
  <2>1. CASE ObjStep
    BY <2>0, <2>1, ObjStepSpares
  <2>2. CASE FrameStep
    BY <2>0, <2>2, FrameStepSpares, FrameStepKeeps
  <2> QED
    BY <2>1, <2>2 DEF Next
<1>3. Spec => [][Kept]_vars
  BY <1>2, InitInv, NextInv, PTL DEF Spec
<1> QED
  BY <1>3 DEF ControlKept
=============================================================================
