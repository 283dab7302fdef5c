------------------------------ MODULE MiniMark ------------------------------
(***************************************************************************)
(* The generational collector: objects are allocated in the nursery, or    *)
(* outside of it but young, minor collections move or keep what survives,  *)
(* and major collections mark and sweep the old objects.  Old objects that *)
(* may point to young ones are found again through the write barrier: a    *)
(* list of whole objects, and card marks in large arrays.  The program     *)
(* runs while phase = "run"; a collection is one step for each object it   *)
(* takes from one of its lists, in any order.                              *)
(*                                                                         *)
(* A pointer is [to, in]: the object, and whether the address is in the    *)
(* nursery or outside.  An object keeps its name when it moves, so that a  *)
(* pointer to its old place is seen to dangle.                             *)
(***************************************************************************)
EXTENDS Integers, FiniteSets

CONSTANTS Obj, NoObj,
          Prebuilt,      \* objects that are part of the executable
          Large,         \* allocated outside of the nursery, but young
          Array,         \* arrays of pointers; those in Large have cards
          Weak,          \* weakref objects
          Root,          \* stack roots
          length,        \* the number of items of an array
          card_page_indices, CardBits,   \* items per card, cards per byte
          CopyToPrebuilt,   \* ll_arraycopy: from an array whose flag is clear
          JitFreshLarge     \* compiled code stores in a large array just allocated

Cards == Array \cap Large
Field == -1
Slots(o) == IF o \in Array THEN 0..length[o] - 1 ELSE IF o \in Weak THEN {} ELSE {Field}

ASSUME HeapConstants ==
    /\ Prebuilt \subseteq Obj /\ Large \subseteq Obj /\ Array \subseteq Obj
    /\ Weak \subseteq Obj \ (Prebuilt \cup Large \cup Array)
    /\ Prebuilt \cap Large = {} /\ NoObj \notin Obj
    /\ length \in [Array -> Nat]
    /\ card_page_indices \in Nat \ {0} /\ CardBits \in Nat \ {0}
    /\ CopyToPrebuilt \in BOOLEAN /\ JitFreshLarge \in BOOLEAN

VARIABLES
    phase,       \* "run", "cards" and "oldrefs" (minor), "major", "mark"
    root, slots, weak,              \* pointers
    where,       \* "free", "nursery", "young", "old" or "prebuilt"
    track, noheap, visited, cardsset,   \* the objects that have a GCFLAG
    cards,       \* card marks: <<array, card>>
    old_objects_pointing_to_young, old_objects_with_cards_set,
    prebuilt_root_objects, objects_to_trace,
    young_objects_with_weakrefs, old_objects_with_weakrefs,
    recent_mallocs   \* arrays to which compiled code stores without a barrier

pointers == <<root, slots, weak>>
remembered == <<old_objects_pointing_to_young, old_objects_with_cards_set, track,
                cardsset, cards>>
prebuilts == <<noheap, prebuilt_root_objects>>
weakrefs == <<young_objects_with_weakrefs, old_objects_with_weakrefs>>
marking == <<visited, objects_to_trace>>
vars == <<phase, root, slots, weak, where, track, noheap, visited, cardsset, cards,
          old_objects_pointing_to_young, old_objects_with_cards_set,
          prebuilt_root_objects, objects_to_trace, young_objects_with_weakrefs,
          old_objects_with_weakrefs, recent_mallocs>>

Nursery(o) == [to |-> o, in |-> "nursery"]
Outside(o) == [to |-> o, in |-> "outside"]
NULL == Outside(NoObj)

Cleared(o) == [s \in Slots(o) |-> NULL]

Init ==
    /\ phase = "run"
    /\ root = [r \in Root |-> NULL]
    /\ slots = [o \in Obj |-> Cleared(o)]
    /\ weak = [o \in Weak |-> NULL]
    /\ where = [o \in Obj |-> IF o \in Prebuilt THEN "prebuilt" ELSE "free"]
    /\ track = Prebuilt /\ noheap = Prebuilt
    /\ visited = {} /\ cardsset = {} /\ cards = {}
    /\ old_objects_pointing_to_young = {} /\ old_objects_with_cards_set = {}
    /\ prebuilt_root_objects = {} /\ objects_to_trace = {}
    /\ young_objects_with_weakrefs = {} /\ old_objects_with_weakrefs = {}
    /\ recent_mallocs = {}

RootPtrs == {root[r] : r \in Root}
Ptrs(o) == {slots[o][s] : s \in Slots(o)}
Young(o) == where[o] \in {"nursery", "young"}
appears_to_be_young(p) == p.to # NoObj /\ Young(p.to)

(* What the program can get at without reading memory.                     *)
Held == (RootPtrs \ {NULL}) \cup {Outside(o) : o \in Prebuilt}

-----------------------------------------------------------------------------
(* Allocation                                                              *)

malloc_fixedsize_clear(o, r) ==
    /\ phase = "run" /\ where[o] = "free" /\ o \notin Large \cup Weak
    /\ where' = [where EXCEPT ![o] = "nursery"]
    /\ root' = [root EXCEPT ![r] = Nursery(o)] /\ recent_mallocs' = {}
    /\ UNCHANGED <<phase, slots, weak, remembered, prebuilts, marking, weakrefs>>

malloc_weakref(o, r, p) ==
    /\ phase = "run" /\ where[o] = "free" /\ o \in Weak
    /\ where' = [where EXCEPT ![o] = "nursery"]
    /\ root' = [root EXCEPT ![r] = Nursery(o)] /\ recent_mallocs' = {}
    /\ weak' = [weak EXCEPT ![o] = p]
    /\ young_objects_with_weakrefs' = young_objects_with_weakrefs \cup {o}
    /\ UNCHANGED <<phase, slots, remembered, prebuilts, marking, old_objects_with_weakrefs>>

(* Defect: cards for any large object, not only for arrays of pointers.    *)
external_malloc_AllCards(o, r) ==
    /\ phase = "run" /\ where[o] = "free" /\ o \in Large
    /\ where' = [where EXCEPT ![o] = "young"]
    /\ track' = track \cup {o} /\ cardsset' = cardsset \cup {o}
    /\ root' = [root EXCEPT ![r] = Outside(o)]
    /\ recent_mallocs' = IF JitFreshLarge THEN {o} \cap Cards ELSE {}
    /\ UNCHANGED <<phase, slots, weak, old_objects_pointing_to_young,
                   old_objects_with_cards_set, cards, prebuilts, marking, weakrefs>>

(* A young array with cards has GCFLAG_CARDS_SET from the start, and is    *)
(* not in old_objects_with_cards_set.                                      *)
external_malloc(o, r) ==
    /\ phase = "run" /\ where[o] = "free" /\ o \in Large
    /\ where' = [where EXCEPT ![o] = "young"]
    /\ track' = track \cup ({o} \cap Cards)
    /\ cardsset' = cardsset \cup ({o} \cap Cards)
    /\ root' = [root EXCEPT ![r] = Outside(o)]
    /\ recent_mallocs' = IF JitFreshLarge THEN {o} \cap Cards ELSE {}
    /\ UNCHANGED <<phase, slots, weak, old_objects_pointing_to_young,
                   old_objects_with_cards_set, cards, prebuilts, marking, weakrefs>>

(* A small object that may not move is old from the start.                 *)
malloc_nonmovable(o, r) ==
    /\ phase = "run" /\ where[o] = "free" /\ o \notin Large \cup Weak
    /\ where' = [where EXCEPT ![o] = "old"]
    /\ track' = track \cup {o}
    /\ root' = [root EXCEPT ![r] = Outside(o)] /\ recent_mallocs' = {}
    /\ UNCHANGED <<phase, slots, weak, old_objects_pointing_to_young,
                   old_objects_with_cards_set, cardsset, cards, prebuilts, marking,
                   weakrefs>>

-----------------------------------------------------------------------------
(* The write barrier                                                       *)

Remembered(o) ==
    /\ old_objects_pointing_to_young' = old_objects_pointing_to_young \cup {o}
    /\ track' = track \ {o}

Rooted(o) ==
    /\ noheap' = noheap \ {o}
    /\ prebuilt_root_objects' = prebuilt_root_objects \cup ({o} \cap noheap)

(* Defect: a prebuilt object becomes a root only when it points to a young *)
(* object.                                                                 *)
remember_young_pointer_YoungOnly(o, p) ==
    /\ IF appears_to_be_young(p) THEN Remembered(o) /\ Rooted(o)
       ELSE UNCHANGED <<old_objects_pointing_to_young, track, prebuilts>>
    /\ UNCHANGED <<old_objects_with_cards_set, cardsset, cards>>

remember_young_pointer(o, p) ==
    /\ IF appears_to_be_young(p) THEN Remembered(o)
       ELSE UNCHANGED <<old_objects_pointing_to_young, track>>
    /\ Rooted(o)
    /\ UNCHANGED <<old_objects_with_cards_set, cardsset, cards>>

(* Also assume_young_pointers, which is called without a write.            *)
jit_remember_young_pointer(o) ==
    /\ Remembered(o) /\ Rooted(o)
    /\ UNCHANGED <<old_objects_with_cards_set, cardsset, cards>>

NoBarrier == UNCHANGED <<remembered, prebuilts>>

write_barrier(o, p) ==
    IF o \in track THEN remember_young_pointer(o, p) \/ jit_remember_young_pointer(o)
    ELSE NoBarrier

Card(i) == i \div card_page_indices

MarkCards(o, C) ==
    /\ cards' = cards \cup {<<o, c>> : c \in C}
    /\ cardsset' = cardsset \cup {o}
    /\ old_objects_with_cards_set' =
          old_objects_with_cards_set \cup ({o} \ cardsset)
    /\ UNCHANGED <<old_objects_pointing_to_young, track, prebuilts>>

remember_young_pointer_from_array2(o, I) ==
    IF o \notin Cards THEN jit_remember_young_pointer(o)
    ELSE LET new == {c \in {Card(i) : i \in I} : <<o, c>> \notin cards}
         IN  IF new = {} THEN NoBarrier ELSE MarkCards(o, new)

write_barrier_from_array(o, I) ==
    IF o \in track THEN remember_young_pointer_from_array2(o, I) ELSE NoBarrier

(* The code that the JIT compiler emits marks the card itself, when the    *)
(* flag is set, or was set by jit_remember_young_pointer_from_array.       *)
jit_write_barrier_from_array(o, i) ==
    IF o \in Cards /\ o \in track \cup cardsset THEN MarkCards(o, {Card(i)})
    ELSE IF o \in track THEN jit_remember_young_pointer(o)
    ELSE NoBarrier

-----------------------------------------------------------------------------
(* What the program does.  Compiled code has no barrier where it stores     *)
(* NULL, nor for an object that it allocated after the last operation that *)
(* can collect; of these, only the arrays with cards have a barrier that   *)
(* would do anything.                                                      *)

JitBarrierFree(o, v) == v = NULL \/ o \in recent_mallocs

Unmoved == UNCHANGED <<phase, weak, where, marking, weakrefs>>

getslot(r, p, s) ==
    /\ phase = "run" /\ s \in Slots(p.to)
    /\ root' = [root EXCEPT ![r] = slots[p.to][s]]
    /\ UNCHANGED <<slots, remembered, prebuilts, recent_mallocs>> /\ Unmoved

deref(r, p) ==
    /\ phase = "run" /\ p.to \in Weak
    /\ root' = [root EXCEPT ![r] = weak[p.to]]
    /\ UNCHANGED <<slots, remembered, prebuilts, recent_mallocs>> /\ Unmoved

drop(r) ==
    /\ phase = "run" /\ root[r] # NULL
    /\ root' = [root EXCEPT ![r] = NULL]
    /\ UNCHANGED <<slots, remembered, prebuilts, recent_mallocs>> /\ Unmoved

setfield(p, v) ==
    /\ phase = "run" /\ Field \in Slots(p.to)
    /\ slots' = [slots EXCEPT ![p.to][Field] = v]
    /\ write_barrier(p.to, v) \/ (JitBarrierFree(p.to, v) /\ NoBarrier)
    /\ UNCHANGED <<root, recent_mallocs>> /\ Unmoved

setarrayitem(p, i, v) ==
    /\ phase = "run" /\ p.to \in Array /\ i \in Slots(p.to)
    /\ slots' = [slots EXCEPT ![p.to][i] = v]
    /\ \/ write_barrier_from_array(p.to, {i}) \/ jit_write_barrier_from_array(p.to, i)
       \/ JitBarrierFree(p.to, v) /\ NoBarrier
    /\ UNCHANGED <<root, recent_mallocs>> /\ Unmoved

assume_young_pointers(p) ==
    /\ phase = "run" /\ p.to \in track
    /\ jit_remember_young_pointer(p.to)
    /\ UNCHANGED <<root, slots, recent_mallocs>> /\ Unmoved

(* The flags and cards that are copied before the items of an array are;   *)
(* or the items are copied one by one, with a barrier for each.  Cards are *)
(* copied in whole bytes.                                                  *)
CeilDiv(a, b) == (a + b - 1) \div b

(* Defect: the last byte is left out.                                      *)
CardsCopied_Floor(n) == CardBits * (CeilDiv(n, card_page_indices) \div CardBits)

CardsCopied(n) == CardBits * CeilDiv(CeilDiv(n, card_page_indices), CardBits)

manually_copy_card_bits(a, b, n) ==
    LET C == {c \in 0..CardsCopied(n) - 1 : <<a, c>> \in cards}
    IN  IF C = {} THEN NoBarrier ELSE MarkCards(b, C)

writebarrier_before_copy(a, b, i, j, n) ==
    LET byhand == write_barrier_from_array(b, j..j + n - 1)
    IN
    IF b \notin track THEN NoBarrier
    ELSE IF a \in Cards
           THEN IF a \notin track THEN byhand
                ELSE IF a \notin cardsset THEN NoBarrier
                ELSE IF b \notin Cards \/ i # 0 \/ j # 0 THEN byhand
                ELSE manually_copy_card_bits(a, b, n)
    ELSE /\ IF a \notin track THEN Remembered(b)
            ELSE UNCHANGED <<old_objects_pointing_to_young, track>>
         /\ IF a \notin noheap THEN Rooted(b) ELSE UNCHANGED prebuilts
         /\ UNCHANGED <<old_objects_with_cards_set, cardsset, cards>>

ll_arraycopy(p, q, i, j, n) ==
    LET a == p.to b == q.to
    IN
    /\ phase = "run" /\ a \in Array /\ b \in Array
    /\ n > 1 /\ i + n <= length[a] /\ j + n <= length[b]
    /\ a = b => i + n <= j \/ j + n <= i
    /\ b \in noheap /\ a \in (Cards \cap track) \ cardsset => CopyToPrebuilt
    /\ slots' = [slots EXCEPT ![b] =
                    [s \in Slots(b) |->
                        IF s \in j..j + n - 1 THEN slots[a][s - j + i] ELSE @[s]]]
    /\ writebarrier_before_copy(a, b, i, j, n)
    /\ recent_mallocs' = {}
    /\ UNCHANGED root /\ Unmoved

-----------------------------------------------------------------------------
(* Minor collections                                                       *)

(* _trace_drag_out of the pointers P: nursery objects are moved, young     *)
(* ones outside of the nursery are flagged, and each of them is put in the *)
(* lists of objects that are traced next.                                  *)
Moved(P) == {o \in Obj : Nursery(o) \in P /\ where[o] = "nursery"}
Seen(P) == {o \in Obj : Outside(o) \in P /\ where[o] = "young" /\ o \notin visited}
Forwarded(p) == IF p.in = "nursery" THEN Outside(p.to) ELSE p

(* Defect: the cards of a surviving young array are not looked at.         *)
DragOut_NoCards(P, pointing, withcards) ==
    /\ where' = [o \in Obj |-> IF o \in Moved(P) THEN "old" ELSE where[o]]
    /\ visited' = visited \cup Seen(P)
    /\ old_objects_pointing_to_young' = pointing \cup Moved(P) \cup (Seen(P) \ track)
    /\ old_objects_with_cards_set' = withcards

DragOut(P, pointing, withcards) ==
    /\ where' = [o \in Obj |-> IF o \in Moved(P) THEN "old" ELSE where[o]]
    /\ visited' = visited \cup Seen(P)
    /\ old_objects_pointing_to_young' = pointing \cup Moved(P) \cup (Seen(P) \ track)
    /\ old_objects_with_cards_set' = withcards \cup (Seen(P) \cap Cards)

minor_collection ==
    /\ phase = "run" /\ phase' = "cards"
    /\ DragOut(RootPtrs,
               {o \in old_objects_pointing_to_young : where[o] # "young"},
               old_objects_with_cards_set)
    /\ root' = [r \in Root |-> Forwarded(root[r])] /\ recent_mallocs' = {}
    /\ UNCHANGED <<slots, weak, track, cardsset, cards, prebuilts, objects_to_trace,
                   weakrefs>>

(* The slots S of the object are traced.                                   *)
TraceAndDragOut(o, S, pointing, withcards) ==
    /\ DragOut({slots[o][s] : s \in S}, pointing, withcards)
    /\ slots' = [slots EXCEPT ![o] =
                    [s \in Slots(o) |-> IF s \in S THEN Forwarded(@[s]) ELSE @[s]]]

collect_cardrefs_to_nursery(o) ==
    /\ phase = "cards" /\ o \in old_objects_with_cards_set
    /\ cardsset' = cardsset \ {o}
    /\ cards' = {c \in cards : c[1] # o}
    /\ TraceAndDragOut(o, IF o \in track THEN {s \in Slots(o) : <<o, Card(s)>> \in cards}
                          ELSE {},
                       old_objects_pointing_to_young, old_objects_with_cards_set \ {o})
    /\ UNCHANGED <<phase, root, weak, track, prebuilts, objects_to_trace, weakrefs,
                   recent_mallocs>>

collect_oldrefs_to_nursery(o) ==
    /\ phase = "oldrefs" /\ o \in old_objects_pointing_to_young
    /\ track' = track \cup {o}
    /\ TraceAndDragOut(o, Slots(o), old_objects_pointing_to_young \ {o},
                       old_objects_with_cards_set)
    /\ UNCHANGED <<phase, root, weak, cardsset, cards, prebuilts, objects_to_trace, weakrefs,
                   recent_mallocs>>

(* Defect: never back.                                                     *)
Finished_Once == old_objects_pointing_to_young = {}

Finished == old_objects_pointing_to_young = {} /\ old_objects_with_cards_set = {}

(* From one inner loop to the other and back, as long as there are arrays. *)
minor_loop ==
    /\ \/ phase = "cards" /\ old_objects_with_cards_set = {} /\ phase' = "oldrefs"
       \/ /\ phase = "oldrefs" /\ old_objects_pointing_to_young = {}
          /\ old_objects_with_cards_set # {} /\ phase' = "cards"
    /\ UNCHANGED <<pointers, where, remembered, prebuilts, marking, weakrefs, recent_mallocs>>

(* invalidate_young_weakrefs: the new content of a weakref that survives,  *)
(* and whether it has to be looked at by the next major collection.        *)
WeakKept(p) ==
    /\ p # NULL
    /\ p.in = "nursery" => where[p.to] = "old"
    /\ where[p.to] = "young" => p.to \in visited

(* Defect: also for a prebuilt target that is never marked.                *)
WeakRegistered_Prebuilt(p) == WeakKept(p)

WeakRegistered(p) == WeakKept(p) /\ p.to \notin noheap

(* Memory that is given back: its name is free for another object.         *)
Freed(dead) ==
    /\ slots' = [o \in Obj |-> IF o \in dead THEN Cleared(o) ELSE slots[o]]
    /\ cards' = {c \in cards : c[1] \notin dead}
    /\ cardsset' = cardsset \ dead

(* Whether a major collection follows at once is a matter of the memory    *)
(* used.                                                                   *)
minor_end ==
    LET alive == {o \in young_objects_with_weakrefs : where[o] = "old"}
        kept == {o \in alive : WeakKept(weak[o])}
        dead == {o \in Obj : where[o] = "nursery" \/ (where[o] = "young" /\ o \notin visited)}
    IN
    /\ phase = "oldrefs" /\ Finished
    /\ phase' \in {"run", "major"}
    /\ weak' = [o \in Weak |-> IF o \in kept THEN Forwarded(weak[o])
                               ELSE IF o \in alive \cup dead THEN NULL ELSE weak[o]]
    /\ young_objects_with_weakrefs' = {}
    /\ old_objects_with_weakrefs' =
          old_objects_with_weakrefs \cup {o \in alive : WeakRegistered(weak[o])}
    /\ where' = [o \in Obj |-> IF o \in dead THEN "free"
                               ELSE IF where[o] = "young" THEN "old" ELSE where[o]]
    /\ visited' = {o \in visited : where[o] # "young"}
    /\ track' = track \ dead
    /\ Freed(dead)
    /\ UNCHANGED <<root, prebuilts, old_objects_pointing_to_young,
                   old_objects_with_cards_set, objects_to_trace, recent_mallocs>>

-----------------------------------------------------------------------------
(* Major collections                                                       *)

Targets(P) == {p.to : p \in P} \ {NoObj}

major_collection ==
    /\ phase = "major" /\ phase' = "mark"
    /\ objects_to_trace' = prebuilt_root_objects \cup Targets(RootPtrs)
    /\ UNCHANGED <<pointers, where, remembered, prebuilts, visited, weakrefs, recent_mallocs>>

visit(o) ==
    /\ phase = "mark" /\ o \in objects_to_trace
    /\ IF o \in visited \cup noheap
         THEN objects_to_trace' = objects_to_trace \ {o} /\ UNCHANGED visited
         ELSE /\ visited' = visited \cup {o}
              /\ objects_to_trace' = (objects_to_trace \ {o}) \cup Targets(Ptrs(o))
    /\ UNCHANGED <<phase, pointers, where, remembered, prebuilts, weakrefs, recent_mallocs>>

(* Defect: the flag of prebuilt objects stays.                             *)
Unvisited_HeapOnly == {o \in visited : where[o] # "old"}

Unvisited == {o \in visited : where[o] # "old"} \ prebuilt_root_objects

(* The weakrefs, then the sweep.                                           *)
major_end ==
    LET alive == old_objects_with_weakrefs \cap visited
        kept == {o \in alive : weak[o].to \in visited}
        dead == {o \in Obj : where[o] = "old" /\ o \notin visited}
    IN
    /\ phase = "mark" /\ objects_to_trace = {} /\ phase' = "run"
    /\ weak' = [o \in Weak |-> IF o \in (alive \ kept) \cup dead THEN NULL ELSE weak[o]]
    /\ old_objects_with_weakrefs' = kept
    /\ where' = [o \in Obj |-> IF o \in dead THEN "free" ELSE where[o]]
    /\ visited' = Unvisited
    /\ track' = track \ dead
    /\ Freed(dead)
    /\ UNCHANGED <<root, prebuilts, old_objects_pointing_to_young,
                   old_objects_with_cards_set, objects_to_trace, young_objects_with_weakrefs,
                   recent_mallocs>>

-----------------------------------------------------------------------------
(* The specification                                                       *)

Allocate ==
    \E r \in Root, o \in Obj :
        \/ malloc_fixedsize_clear(o, r) \/ external_malloc(o, r) \/ malloc_nonmovable(o, r)
        \/ \E p \in Held : malloc_weakref(o, r, p)

Mutate ==
    \E p \in Held :
        \/ \E r \in Root : deref(r, p) \/ \E s \in Slots(p.to) : getslot(r, p, s)
        \/ \E v \in Held \cup {NULL} :
               setfield(p, v) \/ \E i \in Slots(p.to) : setarrayitem(p, i, v)
        \/ assume_young_pointers(p)
        \/ \E q \in Held : p.to \in Array /\ q.to \in Array /\
               \E i \in Slots(p.to), j \in Slots(q.to), n \in 2..length[q.to] :
                   ll_arraycopy(p, q, i, j, n)

Collect ==
    \/ minor_collection \/ minor_loop \/ minor_end \/ major_collection \/ major_end
    \/ \E o \in Obj : \/ collect_cardrefs_to_nursery(o) \/ collect_oldrefs_to_nursery(o)
                      \/ visit(o)

Next == Allocate \/ Mutate \/ (\E r \in Root : drop(r)) \/ Collect

Spec == Init /\ [][Next]_vars

-----------------------------------------------------------------------------
(* Properties                                                              *)

(* The program cannot tell the collector from a memory in which objects    *)
(* stay in place and disappear when they cannot be reached.                *)
To(f) == [x \in DOMAIN f |-> f[x].to]
H == INSTANCE Heap WITH
        live <- {o \in Obj : where[o] # "free"},
        root <- To(root),
        slots <- [o \in Obj |-> To(slots[o])],
        weak <- To(weak)
ImplementsHeap == H!Spec

Ptr == [to : Obj, in : {"nursery", "outside"}] \cup {NULL}

TypeOK ==
    /\ phase \in {"run", "cards", "oldrefs", "major", "mark"}
    /\ root \in [Root -> Ptr]
    /\ DOMAIN slots = Obj /\ \A o \in Obj : slots[o] \in [Slots(o) -> Ptr]
    /\ weak \in [Weak -> Ptr]
    /\ where \in [Obj -> {"free", "nursery", "young", "old", "prebuilt"}]
    /\ track \subseteq Obj /\ noheap \subseteq Prebuilt /\ visited \subseteq Obj
    /\ cardsset \subseteq Cards
    /\ cards \subseteq Cards \X Nat
    /\ old_objects_pointing_to_young \subseteq Obj
    /\ old_objects_with_cards_set \subseteq Cards
    /\ prebuilt_root_objects \subseteq Prebuilt /\ objects_to_trace \subseteq Obj
    /\ young_objects_with_weakrefs \subseteq Weak
    /\ old_objects_with_weakrefs \subseteq Weak /\ recent_mallocs \subseteq Cards

(* No pointer dangles: while the program runs, every pointer of a root, of  *)
(* an object and of a weakref is NULL or the address where its object is   *)
(* (no object is freed, or moved, under a pointer that remains).           *)
Valid(p) == p # NULL => /\ where[p.to] # "free"
                        /\ p.in = "nursery" <=> where[p.to] = "nursery"

NoDangling ==
    phase = "run" =>
        /\ \A p \in RootPtrs : Valid(p)
        /\ \A o \in Obj : where[o] # "free" =>
              /\ \A p \in Ptrs(o) : Valid(p)
              /\ o \in Weak => Valid(weak[o])

(* The write barrier: an old object that points to a young one will be     *)
(* found by the next minor collection, as a whole or by the card of the    *)
(* slot.                                                                   *)
SlotRemembered(o, s) ==
    \/ o \in old_objects_pointing_to_young
    \/ /\ o \in old_objects_with_cards_set \cap track
       /\ <<o, Card(s)>> \in cards

BarrierKept ==
    phase = "run" =>
        \A o \in Obj : where[o] \in {"old", "prebuilt"} =>
            \A s \in Slots(o) : appears_to_be_young(slots[o][s]) => SlotRemembered(o, s)

(* GCFLAG_NO_HEAP_PTRS, as visit() reads it: "If they have this flag set,  *)
(* then they cannot point to heap objects, so ignoring them is fine.  If   *)
(* they don't have this flag set, then the object should be in             *)
(* 'prebuilt_root_objects'".                                               *)
NoHeapPtrs ==
    /\ \A o \in noheap : Targets(Ptrs(o)) \subseteq Prebuilt
    /\ Prebuilt \ noheap = prebuilt_root_objects

(* debug_check_object.                                                     *)
Consistent ==
    phase = "major" =>
        /\ \A o \in Obj : where[o] \in {"free", "old", "prebuilt"}
        /\ {o \in Obj : where[o] # "free"} \subseteq track
        /\ visited = {} /\ cardsset = {} /\ cards = {}

(* A major collection keeps what can be reached and nothing else.          *)
MajorExact ==
    [][major_end => \A o \in Obj : where'[o] # "free" <=> o \in H!Reachable]_vars
=============================================================================
