------------------------------ MODULE TaintFlow ------------------------------
(***************************************************************************)
(* Taint tracking in the interpreter.  Each wrapped object has a slot      *)
(* `taints` that is empty or refers to a dictionary of labels; each frame  *)
(* has a TaintSpace that maps the offset of a conditional jump to the      *)
(* dictionary OF THE TESTED OBJECT, by reference, and points to the space  *)
(* of the frame that created it.  The identity of the dictionaries is what *)
(* the module is about: `dict` is the heap of them.                        *)
(*                                                                         *)
(* Operands are arbitrary live objects: which of them are on a value stack *)
(* or in a variable does not matter to where labels flow.                  *)
(***************************************************************************)
EXTENDS Naturals, Sequences, FiniteSets

CONSTANTS Obj,       \* identities of wrapped objects
          Bools,     \* the prebuilt w_False and w_True
          Prebuilt,  \* all prebuilt objects
          Label,     \* the integers given to add_taint
          Dict,      \* identities of label dictionaries
          NoDict,    \* an empty `taints` slot
          Space,     \* identities of TaintSpace objects
          NoSpace,   \* parent is None
          Instr,     \* offsets of conditional jumps
          Thread,    \* execution contexts
          MaxDepth   \* bound on the depth of a thread's frame stack

ASSUME TaintConstants ==
    /\ Bools \subseteq Prebuilt
    /\ Prebuilt \subseteq Obj
    /\ NoDict \notin Dict
    /\ NoSpace \notin Space
    /\ MaxDepth \in Nat

VARIABLES
    live,     \* objects the program can reach
    taints,   \* W_Root.taints: the dictionary of each object
    dict,     \* contents of the dictionaries
    tmap,     \* TaintSpace.taints_map
    parent,   \* TaintSpace.parent
    frames,   \* per thread, the spaces of its frames, innermost last
    gens      \* spaces of the frames of unfinished generators

objvars   == <<live, taints>>
framevars == <<parent, frames, gens>>
vars      == <<live, taints, dict, tmap, parent, frames, gens>>

NoJumps == [i \in Instr |-> NoDict]

Init == /\ live = Prebuilt
        /\ taints = [o \in Obj |-> NoDict]
        /\ dict = [d \in Dict |-> {}]
        /\ tmap = [s \in Space |-> NoJumps]
        /\ parent = [s \in Space |-> NoSpace]
        /\ frames = [t \in Thread |-> <<>>]
        /\ gens = {}

-----------------------------------------------------------------------------
(* The labels of an object, and those of every object of a set together.   *)
gettaint(o) == IF taints[o] = NoDict THEN {} ELSE dict[taints[o]]

merge_taints(ws) == UNION {gettaint(w) : w \in ws}

(* A dictionary nobody refers to: what `{}` can return.                    *)
FreeDict == {d \in Dict : /\ \A o \in Obj : taints[o] # d
                          /\ \A s \in Space, i \in Instr : tmap[s][i] # d}

(* Replace the labels of o by S: a new dictionary when the one it has is   *)
(* empty, the same dictionary, in place, when it is not.                   *)
Rewrite(o, S) ==
    \/ /\ gettaint(o) = {}
       /\ \E d \in FreeDict : /\ taints' = [taints EXCEPT ![o] = d]
                              /\ dict' = [dict EXCEPT ![d] = S]
    \/ /\ gettaint(o) # {}
       /\ dict' = [dict EXCEPT ![taints[o]] = S]
       /\ UNCHANGED taints

(* The dictionary settaint is given: `clear` comes before `update`, so a   *)
(* dictionary that is the object's own arrives empty.                      *)
AfterClear(o, w) == IF gettaint(o) # {} /\ taints[w] = taints[o]
                    THEN {} ELSE gettaint(w)

Running == \E t \in Thread : frames[t] # <<>>

Top(t) == frames[t][Len(frames[t])]

OnStack == UNION {{frames[t][k] : k \in 1..Len(frames[t])} : t \in Thread}

(* Defect: the labels go to the shared boolean itself.                     *)
ResultObject_Shared(r) == {r}

(* A conditional result is never tainted on the shared boolean: a fresh    *)
(* bool stands in for it.                                                  *)
ResultObject(r) == IF r \in Bools THEN Obj \ live ELSE {r}

-----------------------------------------------------------------------------
(* __pypy__.taint                                                          *)

add_taint(o, l) ==
    /\ Running /\ o \in live
    /\ Rewrite(o, gettaint(o) \cup {l})
    /\ UNCHANGED <<live, tmap>> /\ UNCHANGED framevars

clear_taint(o) ==
    /\ Running /\ o \in live
    /\ gettaint(o) # {}
    /\ dict' = [dict EXCEPT ![taints[o]] = {}]
    /\ UNCHANGED <<objvars, tmap>> /\ UNCHANGED framevars

(* x.settaint(S): x is the object an operation leaves on the stack.        *)
settaint(x, S) ==
    /\ Running
    /\ Rewrite(x, S)
    /\ live' = live \cup {x}
    /\ UNCHANGED tmap /\ UNCHANGED framevars

(* checked_settaint(r, space, S) with S a fresh dictionary of merge_taints *)
checked_settaint(r, S) == \E x \in ResultObject(r) : settaint(x, S)

(* Opcodes made by unaryoperation and binaryoperation, and COMPARE_OP.  r  *)
(* is what the operation returned: a new object or any live one.           *)
unaryoperation(w1, r) ==
    /\ w1 \in live
    /\ checked_settaint(r, merge_taints({r, w1}))

(* Defect: the union is computed in the dictionary of the first operand.   *)
binaryoperation_InPlace(w1, w2, r) ==
    /\ {w1, w2} \subseteq live /\ Running
    /\ gettaint(w1) # {} /\ gettaint(r) = {}
    /\ \E d \in FreeDict :
         /\ taints' = [taints EXCEPT ![r] = d]
         /\ dict' = [dict EXCEPT ![d] = merge_taints({w1, w2}),
                                ![taints[w1]] = merge_taints({w1, w2})]
    /\ live' = live \cup {r}
    /\ UNCHANGED tmap /\ UNCHANGED framevars

binaryoperation(w1, w2, r) ==
    /\ {w1, w2} \subseteq live
    /\ checked_settaint(r, merge_taints({r, w1, w2}))

(* SLICE_0 to SLICE_3: the result's own labels are not merged.             *)
slice(ws, r) ==
    /\ ws \subseteq live
    /\ checked_settaint(r, merge_taints(ws))

(* Defect: the dictionary is stored, not copied.                           *)
settaint_from_Stores(w, r) ==
    /\ Running /\ w \in live
    /\ \E x \in ResultObject(r) : /\ taints' = [taints EXCEPT ![x] = taints[w]]
                                 /\ live' = live \cup {x}
    /\ UNCHANGED <<dict, tmap>> /\ UNCHANGED framevars

(* String, unicode and int methods and codecs that hand the dictionary of  *)
(* their argument itself to checked_settaint.                              *)
settaint_from(w, r) ==
    /\ w \in live
    /\ \E x \in ResultObject(r) : settaint(x, AfterClear(x, w))

(* Objects made without taint (BUILD_*, LOAD_CONST, BINARY_POWER, ...).    *)
untainted_result(o) ==
    /\ Running /\ o \notin live
    /\ live' = live \cup {o}
    /\ UNCHANGED <<taints, dict, tmap>> /\ UNCHANGED framevars

(* Dictionaries without a reference read as empty again.                   *)
Collected(own, maps, contents) ==
    [d \in Dict |-> IF \/ \E o \in Obj : own[o] = d
                       \/ \E s \in Space, i \in Instr : maps[s][i] = d
                    THEN contents[d] ELSE {}]

(* Defect: a reference too many to a prebuilt object is given back.        *)
Drop_Prebuilt(o) ==
    /\ Running /\ o \in live
    /\ live' = live \ {o}
    /\ UNCHANGED <<taints, dict, tmap>> /\ UNCHANGED framevars

(* The last reference to an object goes away.  Its dictionary stays if a   *)
(* TaintSpace still refers to it.                                          *)
Drop(o) ==
    /\ Running /\ o \in live \ Prebuilt
    /\ live' = live \ {o}
    /\ taints' = [taints EXCEPT ![o] = NoDict]
    /\ dict' = Collected(taints', tmap, dict)
    /\ UNCHANGED tmap /\ UNCHANGED framevars

-----------------------------------------------------------------------------
(* Control taint                                                           *)

(* Defect: a second jump at the same offset adds its labels to the         *)
(* dictionary recorded by the first.                                       *)
conditional_jump_Updates(t, i, w) ==
    /\ frames[t] # <<>> /\ w \in live
    /\ gettaint(w) # {}
    /\ LET d == tmap[Top(t)][i] IN
       \/ d = NoDict /\ tmap' = [tmap EXCEPT ![Top(t)][i] = taints[w]] /\ UNCHANGED dict
       \/ d # NoDict /\ dict' = [dict EXCEPT ![d] = @ \cup gettaint(w)] /\ UNCHANGED tmap
    /\ UNCHANGED objvars /\ UNCHANGED framevars

(* POP_JUMP_IF_*, JUMP_IF_*_OR_POP, JUMP_IF_*: the reference is stored     *)
(* before is_true runs, whichever way the jump then goes.                  *)
conditional_jump(t, i, w) ==
    /\ frames[t] # <<>> /\ w \in live
    /\ gettaint(w) # {}
    /\ tmap' = [tmap EXCEPT ![Top(t)][i] = taints[w]]
    /\ dict' = Collected(taints, tmap', dict)
    /\ UNCHANGED objvars /\ UNCHANGED framevars

(* A space, the space that created it, and so on: the least set with s and *)
(* the parent of each of its members.                                      *)
Chain(s, par) ==
    {x \in Space : \A S \in SUBSET Space :
        s \in S /\ (\A y \in S : par[y] # NoSpace => par[y] \in S) => x \in S}

Reachable(stacks, gs, par) ==
    LET roots == gs \cup UNION {{stacks[t][k] : k \in 1..Len(stacks[t])} : t \in Thread}
    IN  UNION {Chain(s, par) : s \in roots}

(* Defect: a call from a generator starts a chain of its own.              *)
NewSpace_Cut(t, s) ==
    /\ s \in Space \ Reachable(frames, gens, parent)
    /\ parent' = [parent EXCEPT ![s] = IF frames[t] = <<>> \/ Top(t) \in gens
                                      THEN NoSpace ELSE Top(t)]

(* PyFrame.run: the new space points to that of the frame on top of the    *)
(* thread's stack, if there is one.                                        *)
NewSpace(t, s) ==
    /\ s \in Space \ Reachable(frames, gens, parent)
    /\ parent' = [parent EXCEPT ![s] = IF frames[t] = <<>> THEN NoSpace ELSE Top(t)]

run(t, s) ==
    /\ Len(frames[t]) < MaxDepth
    /\ NewSpace(t, s)
    /\ frames' = [frames EXCEPT ![t] = Append(@, s)]
    /\ UNCHANGED gens /\ UNCHANGED <<objvars, dict, tmap>>

run_generator(t, s) ==
    /\ frames[t] # <<>>
    /\ NewSpace(t, s)
    /\ gens' = gens \cup {s}
    /\ UNCHANGED frames /\ UNCHANGED <<objvars, dict, tmap>>

(* Defect: a resumed generator gets a fresh map.                           *)
resume_Anew(t, g) ==
    /\ frames[t] # <<>> /\ Len(frames[t]) < MaxDepth
    /\ g \in gens \ OnStack
    /\ frames' = [frames EXCEPT ![t] = Append(@, g)]
    /\ tmap' = [tmap EXCEPT ![g] = NoJumps]
    /\ UNCHANGED <<gens, parent, dict>> /\ UNCHANGED objvars

(* GeneratorIterator.send_ex executes the frame it was created with: its   *)
(* space keeps the parent it has.                                          *)
resume(t, g) ==
    /\ frames[t] # <<>> /\ Len(frames[t]) < MaxDepth
    /\ g \in gens \ OnStack
    /\ frames' = [frames EXCEPT ![t] = Append(@, g)]
    /\ UNCHANGED <<gens, parent>> /\ UNCHANGED <<objvars, dict, tmap>>

PopFrame(t) == [frames EXCEPT ![t] = SubSeq(@, 1, Len(@) - 1)]

yield_value(t) ==
    /\ frames[t] # <<>> /\ Top(t) \in gens
    /\ frames' = PopFrame(t)
    /\ UNCHANGED <<gens, parent>> /\ UNCHANGED <<objvars, dict, tmap>>

(* Spaces nobody can reach any more are gone with their maps.              *)
Forget(stacks, gs) ==
    LET kept == Reachable(stacks, gs, parent)
    IN  /\ tmap' = [s \in Space |-> IF s \in kept THEN tmap[s] ELSE NoJumps]
        /\ parent' = [s \in Space |-> IF s \in kept THEN parent[s] ELSE NoSpace]
        /\ dict' = Collected(taints, tmap', dict)

(* A frame ends, by RETURN_VALUE or an exception.                          *)
leave(t) ==
    /\ frames[t] # <<>>
    /\ frames' = PopFrame(t)
    /\ gens' = gens \ {Top(t)}
    /\ Forget(frames', gens')
    /\ UNCHANGED objvars

(* A suspended generator is collected without being resumed.               *)
drop_generator(g) ==
    /\ g \in gens \ OnStack
    /\ gens' = gens \ {g}
    /\ Forget(frames, gens')
    /\ UNCHANGED frames /\ UNCHANGED objvars

-----------------------------------------------------------------------------
ObjStep ==
    \/ \E o \in live, l \in Label : add_taint(o, l)
    \/ \E o \in live : clear_taint(o)
    \/ \E w1 \in live, r \in Obj : unaryoperation(w1, r)
    \/ \E w1, w2 \in live, r \in Obj : binaryoperation(w1, w2, r)
    \/ \E ws \in SUBSET live, r \in Obj : Cardinality(ws) \in 1..3 /\ slice(ws, r)
    \/ \E w \in live, r \in Obj : settaint_from(w, r)
    \/ \E o \in Obj \ live : untainted_result(o)
    \/ \E o \in live : Drop(o)

FrameStep ==
    \/ \E t \in Thread, i \in Instr, w \in live : conditional_jump(t, i, w)
    \/ \E t \in Thread, s \in Space : run(t, s)
    \/ \E t \in Thread, s \in Space : run_generator(t, s)
    \/ \E t \in Thread, g \in gens : resume(t, g)
    \/ \E t \in Thread : yield_value(t)
    \/ \E t \in Thread : leave(t)
    \/ \E g \in gens : drop_generator(g)

Next == ObjStep \/ FrameStep

Spec == Init /\ [][Next]_vars

-----------------------------------------------------------------------------
TypeOK ==
    /\ Prebuilt \subseteq live /\ live \subseteq Obj
    /\ taints \in [Obj -> Dict \cup {NoDict}]
    /\ dict \in [Dict -> SUBSET Label]
    /\ tmap \in [Space -> [Instr -> Dict \cup {NoDict}]]
    /\ parent \in [Space -> Space \cup {NoSpace}]
    /\ frames \in [Thread -> Seq(Space)]
    /\ gens \subseteq Space

(* settaint copies, so two objects never refer to one dictionary (clearing *)
(* or tainting one in place is invisible to every other), and an object    *)
(* that is gone refers to none.                                            *)
NoDictShared ==
    /\ \A o1, o2 \in Obj : taints[o1] = taints[o2] /\ taints[o1] # NoDict => o1 = o2
    /\ \A o \in Obj \ live : taints[o] = NoDict

(* What the interpreter does by reference is, seen from any object, what   *)
(* ObjTaint does by value.                                                 *)
Abs == INSTANCE ObjTaint WITH lab <- [o \in Obj |-> gettaint(o)]

ByValue == Abs!Spec

(* The shared True and False get labels only from add_taint itself: no     *)
(* operation that computes a boolean can taint every later comparison.     *)
BoolsOnlyByApi == \A x \in Bools :
    gettaint(x)' # gettaint(x) => \E l \in Label : add_taint(x, l) \/ clear_taint(x)

BoolsKept == [][BoolsOnlyByApi]_vars

(* Labels a frame's own jumps have recorded, and the control taint a frame *)
(* sees: those of the whole chain of spaces (TaintSpace.get_taints).       *)
atomic_get_taints(s) == UNION {dict[d] : d \in {tmap[s][i] : i \in Instr} \ {NoDict}}

get_taints(s) == UNION {atomic_get_taints(x) : x \in Chain(s, parent)}

(* Nothing pops control taint: while a frame is there, a label recorded at *)
(* a jump stays until the same jump records another dictionary, or the     *)
(* tested object, still alive, has its labels changed in place.            *)
ControlKept ==
    [][\A s \in Reachable(frames, gens, parent), i \in Instr :
         (/\ tmap[s][i] # NoDict
          /\ s \in Reachable(frames, gens, parent)'
          /\ \A t \in Thread, w \in live :
                frames[t] # <<>> /\ s = Top(t) => ~conditional_jump(t, i, w))
         => /\ tmap'[s][i] = tmap[s][i]
            /\ \/ dict[tmap[s][i]] \subseteq dict'[tmap[s][i]]
               \/ \E o \in live : taints[o] = tmap[s][i] /\ o \in live']_vars

(* A dictionary only a TaintSpace refers to never changes again and never  *)
(* becomes an object's: what a dead or re-tainted condition contributed to *)
(* the control taint is final.                                             *)
DetachedFrozen ==
    [][\A s \in Space, i \in Instr :
         LET d == tmap[s][i] IN
         (d # NoDict /\ tmap'[s][i] = d /\ \A o \in Obj : taints[o] # d)
         => dict'[d] = dict[d] /\ \A o \in Obj : taints'[o] # d]_vars

(* A call inherits the control taint of its caller, whoever that is, and a *)
(* thread starts with none: the space of a plain frame always points to    *)
(* the frame below it.  Only a generator's frame may point elsewhere.      *)
CallInherits ==
    \A t \in Thread : \A k \in 1..Len(frames[t]) :
        frames[t][k] \notin gens =>
            parent[frames[t][k]] = IF k = 1 THEN NoSpace ELSE frames[t][k - 1]

=============================================================================
