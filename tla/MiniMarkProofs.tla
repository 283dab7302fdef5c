--------------------------- MODULE MiniMarkProofs ---------------------------
(***************************************************************************)
(* Theorems about MiniMark: what the write barrier and the collections     *)
(* maintain between them, for any objects, and that the collector          *)
(* implements the memory of Heap.                                          *)
(***************************************************************************)
EXTENDS MiniMark, TLAPS

(* The condition of the theorems: neither of the two omissions that the    *)
(* constants stand for.                                                    *)
Sound == ~CopyToPrebuilt /\ ~JitFreshLarge

-----------------------------------------------------------------------------
(* The inductive invariant                                                 *)

(* Objects that the current minor collection, if any, leaves in place.     *)
Stays(o) == where[o] \in {"old", "prebuilt"} \/ (where[o] = "young" /\ o \in visited)

(* A pointer with which the current minor collection is done.              *)
Done(p) == p = NULL \/ (p.in = "outside" /\ Stays(p.to))

(* A pointer whose object exists, and that can be told from its address.   *)
Whole(p) ==
    p # NULL =>
        /\ where[p.to] # "free"
        /\ p.in = "outside" => where[p.to] # "nursery"
        /\ p.in = "nursery" =>
              where[p.to] = "nursery" \/ (phase # "run" /\ where[p.to] = "old")

(* Where an object can be.                                                 *)
Places ==
    \A o \in Obj :
        /\ where[o] = "prebuilt" <=> o \in Prebuilt
        /\ where[o] = "young" => o \in Large
        /\ o \in Large => where[o] \in {"free", "young", "old"}
        /\ phase \in {"major", "mark"} => where[o] \in {"free", "old", "prebuilt"}

(* GCFLAG_TRACK_YOUNG_PTRS is missing exactly where the whole object is    *)
(* remembered; a young array has it before anyone looks at its slots.      *)
Tracked ==
    /\ \A o \in Obj :
        /\ o \in old_objects_pointing_to_young =>
              /\ o \notin track /\ where[o] \in {"young", "old", "prebuilt"}
              /\ phase # "run" => Stays(o)
        /\ Stays(o) => o \in track \cup old_objects_pointing_to_young
        /\ o \in track => /\ where[o] \in {"young", "old", "prebuilt"}
                          /\ where[o] = "young" => o \in Cards \cup visited
    /\ phase \in {"major", "mark"} =>
          old_objects_pointing_to_young = {} /\ old_objects_with_cards_set = {}

(* GCFLAG_CARDS_SET tells which arrays are listed, once they are not young *)
(* and unseen any more; only arrays that have it have marked cards.        *)
CardFlags ==
    /\ \A o \in Obj :
        /\ o \in old_objects_with_cards_set => Stays(o) /\ o \in cardsset
        /\ o \in cardsset => /\ where[o] \in {"young", "old"}
                             /\ Stays(o) => o \in old_objects_with_cards_set
        /\ where[o] = "young" /\ o \in Cards /\ o \notin visited => o \in cardsset
    /\ \A c \in cards : c[1] \in cardsset

Prebuilts == noheap \subseteq track /\ NoHeapPtrs

Pointers ==
    /\ \A r \in Root : Whole(root[r]) /\ (phase # "run" => Done(root[r]))
    /\ \A o \in Obj : \A s \in Slots(o) :
           Whole(slots[o][s]) /\ (where[o] = "free" => slots[o][s] = NULL)

(* What a slot of an object refers to is done, or the slot will be found:  *)
(* now, or when the young array is seen.                                   *)
Barrier ==
    \A o \in Obj : \A s \in Slots(o) :
        \/ Done(slots[o][s])
        \/ /\ Stays(o) => SlotRemembered(o, s)
           /\ where[o] = "young" /\ o \notin visited /\ o \in track => <<o, Card(s)>> \in cards

(* Weakrefs are listed as long as their content may have to change.        *)
Weakrefs ==
    \A o \in Weak :
        /\ where[o] = "free" => weak[o] = NULL
        /\ where[o] = "nursery" => o \in young_objects_with_weakrefs
        /\ o \in young_objects_with_weakrefs =>
              /\ where[o] = "nursery" \/ (phase # "run" /\ where[o] = "old")
              /\ weak[o] # NULL /\ Whole(weak[o])
              /\ phase \notin {"major", "mark"}
              /\ o \notin old_objects_with_weakrefs
        /\ where[o] = "old" /\ o \notin young_objects_with_weakrefs =>
              \/ weak[o] = NULL
              \/ /\ weak[o].in = "outside"
                 /\ \/ where[weak[o].to] = "prebuilt"
                    \/ where[weak[o].to] = "old" /\ o \in old_objects_with_weakrefs
        /\ o \in old_objects_with_weakrefs =>
              where[o] = "old" /\ weak[o] # NULL /\ weak[o].to \notin noheap

(* GCFLAG_VISITED belongs to young objects in a minor collection and to    *)
(* the others in a major one, in which what a visited object points to is  *)
(* visited, waits to be visited, or need not be.                           *)
Marking ==
    /\ phase \in {"run", "major"} => visited = {}
    /\ phase \in {"cards", "oldrefs"} => \A o \in visited : where[o] = "young"
    /\ phase # "mark" => objects_to_trace = {}
    /\ phase = "mark" =>
          /\ \A o \in visited : where[o] # "free" /\ o \notin noheap
          /\ \A o \in objects_to_trace : where[o] # "free"
          /\ prebuilt_root_objects \subseteq visited \cup objects_to_trace
          /\ Targets(RootPtrs) \subseteq visited \cup objects_to_trace \cup noheap
          /\ \A o \in visited :
                Targets(Ptrs(o)) \subseteq visited \cup objects_to_trace \cup noheap
          /\ visited \cup objects_to_trace \subseteq H!Reachable

Fresh == recent_mallocs = {}

IInv == /\ TypeOK /\ Places /\ Tracked /\ CardFlags /\ Prebuilts /\ Pointers
        /\ Barrier /\ Weakrefs /\ Marking /\ Fresh

-----------------------------------------------------------------------------
(* Pointers                                                                *)

(* The fields of the pointers that the collector makes.                    *)
LEMMA MadePtrs ==
    /\ NULL \in Ptr /\ NULL.to = NoObj /\ NULL.in = "outside"
    /\ \A o \in Obj :
          /\ Nursery(o) \in Ptr /\ Nursery(o) # NULL
          /\ Nursery(o).to = o /\ Nursery(o).in = "nursery"
          /\ Outside(o) \in Ptr /\ Outside(o) # NULL
          /\ Outside(o).to = o /\ Outside(o).in = "outside"
  BY HeapConstants DEF Ptr, NULL, Nursery, Outside

(* A pointer is NULL or an address of an object, and moving the object     *)
(* changes only where the address is.                                      *)
LEMMA PtrForms ==
    ASSUME NEW p \in Ptr
    PROVE  /\ p = NULL <=> p.to = NoObj
           /\ p # NULL => p.to \in Obj
           /\ p.in \in {"nursery", "outside"}
           /\ p.in = "nursery" => p = Nursery(p.to) /\ p # NULL
           /\ p.in = "outside" => p = Outside(p.to)
           /\ Forwarded(p) \in Ptr /\ Forwarded(p).to = p.to
           /\ Forwarded(p).in = "outside" /\ (Forwarded(p) = NULL <=> p = NULL)
  BY HeapConstants DEF Ptr, NULL, Nursery, Outside, Forwarded

(* The number of a card.                                                   *)
LEMMA CardNat == ASSUME NEW o \in Array, NEW s \in Slots(o) PROVE Card(s) \in Nat
  <1>1. s \in Nat /\ card_page_indices \in Nat /\ card_page_indices > 0
    BY HeapConstants DEF Slots
  <1>2. s \div card_page_indices \in Nat
    BY <1>1
  <1> QED BY <1>2 DEF Card

(* What the program holds is an object.                                    *)
LEMMA HeldPtr ==
    ASSUME TypeOK, NEW p \in Held PROVE p \in Ptr /\ p # NULL /\ p.to \in Obj
  <1>1. CASE p \in RootPtrs \ {NULL}
    BY <1>1, PtrForms DEF TypeOK, RootPtrs
  <1>2. CASE \E o \in Prebuilt : p = Outside(o)
    BY <1>2, MadePtrs, HeapConstants
  <1> QED BY <1>1, <1>2 DEF Held

-----------------------------------------------------------------------------
(* The write barriers                                                      *)

(* What any barrier for the object b can do.                               *)
Marked(b, C) ==
    /\ cards' = cards \cup {<<b, c>> : c \in C}
    /\ cardsset' = cardsset \cup {b}
    /\ old_objects_with_cards_set' = old_objects_with_cards_set \cup ({b} \ cardsset)

BarrierStep(b) ==
    /\ \/ b \in track /\ Remembered(b)
       \/ UNCHANGED <<old_objects_pointing_to_young, track>>
    /\ \/ b \in Cards \cap (track \cup cardsset) /\ \E C \in SUBSET Nat : Marked(b, C)
       \/ UNCHANGED <<old_objects_with_cards_set, cardsset, cards>>
    /\ Rooted(b) \/ UNCHANGED prebuilts

(* No barrier is one that does nothing.                                    *)
LEMMA NoBarrierStep == ASSUME NEW b, NoBarrier PROVE BarrierStep(b)
  BY DEF NoBarrier, BarrierStep, remembered, prebuilts

(* The barrier of whole objects is a barrier step.                         *)
LEMMA RememberStep ==
    ASSUME NEW b \in track, jit_remember_young_pointer(b) PROVE BarrierStep(b)
  BY DEF jit_remember_young_pointer, BarrierStep

LEMMA WholeStep == ASSUME NEW b, NEW p, write_barrier(b, p) PROVE BarrierStep(b)
  <1>1. CASE b \in track /\ remember_young_pointer(b, p)
    BY <1>1 DEF remember_young_pointer, BarrierStep
  <1>2. CASE b \in track /\ jit_remember_young_pointer(b)
    BY <1>2, RememberStep
  <1>3. CASE NoBarrier
    BY <1>3, NoBarrierStep
  <1> QED BY <1>1, <1>2, <1>3 DEF write_barrier

(* So are those that mark cards.                                           *)
LEMMA MarkStep ==
    ASSUME NEW b \in Cards, b \in track \cup cardsset, NEW C \in SUBSET Nat, MarkCards(b, C)
    PROVE  BarrierStep(b)
  BY DEF MarkCards, BarrierStep, Marked

LEMMA ArrayStep ==
    ASSUME NEW b \in Array, NEW I \in SUBSET Slots(b), write_barrier_from_array(b, I)
    PROVE  BarrierStep(b)
  <1>1. CASE b \in track \cap Cards
    <2> DEFINE new == {c \in {Card(i) : i \in I} : <<b, c>> \notin cards}
    <2>1. new \in SUBSET Nat
      BY CardNat
    <2>2. NoBarrier \/ MarkCards(b, new)
      BY <1>1 DEF write_barrier_from_array, remember_young_pointer_from_array2
    <2> QED BY <1>1, <2>1, <2>2, NoBarrierStep, MarkStep
  <1>2. CASE b \in track \ Cards
    BY <1>2, RememberStep DEF write_barrier_from_array, remember_young_pointer_from_array2
  <1>3. CASE b \notin track
    BY <1>3, NoBarrierStep DEF write_barrier_from_array
  <1> QED BY <1>1, <1>2, <1>3

LEMMA JitArrayStep ==
    ASSUME NEW b \in Array, NEW i \in Slots(b), jit_write_barrier_from_array(b, i)
    PROVE  BarrierStep(b)
  <1>1. CASE b \in Cards /\ b \in track \cup cardsset
    <2>1. MarkCards(b, {Card(i)}) /\ {Card(i)} \in SUBSET Nat
      BY <1>1, CardNat DEF jit_write_barrier_from_array
    <2> QED BY <1>1, <2>1, MarkStep
  <1>2. CASE ~(b \in Cards /\ b \in track \cup cardsset) /\ b \in track
    BY <1>2, RememberStep DEF jit_write_barrier_from_array
  <1>3. CASE ~(b \in Cards /\ b \in track \cup cardsset) /\ b \notin track
    BY <1>3, NoBarrierStep DEF jit_write_barrier_from_array
  <1> QED BY <1>1, <1>2, <1>3

(* The items that a copy writes.                                           *)
LEMMA CopySlots ==
    ASSUME NEW b \in Array, NEW j \in Slots(b), NEW n \in Nat, j + n <= length[b]
    PROVE  j..j + n - 1 \in SUBSET Slots(b)
  BY HeapConstants DEF Slots

(* And the barrier before a copy.                                          *)
LEMMA CopyStep ==
    ASSUME TypeOK, NEW a \in Array, NEW b \in Array, NEW i \in Slots(a), NEW j \in Slots(b),
           NEW n \in Nat, j + n <= length[b],
           writebarrier_before_copy(a, b, i, j, n)
    PROVE  BarrierStep(b)
  <1> DEFINE byhand == write_barrier_from_array(b, j..j + n - 1)
  <1>1. CASE byhand
    BY <1>1, CopySlots, ArrayStep
  <1>2. CASE NoBarrier
    BY <1>2, NoBarrierStep
  <1>3. CASE b \in track \cap Cards /\ manually_copy_card_bits(a, b, n)
    <2> DEFINE C == {c \in 0..CardsCopied(n) - 1 : <<a, c>> \in cards}
    <2>1. C \in SUBSET Nat
      BY DEF TypeOK
    <2>2. NoBarrier \/ MarkCards(b, C)
      BY <1>3 DEF manually_copy_card_bits
    <2> QED BY <1>3, <2>1, <2>2, NoBarrierStep, MarkStep
  <1>4. CASE b \in track /\ a \notin Cards
    <2>1. /\ IF a \notin track THEN Remembered(b)
             ELSE UNCHANGED <<old_objects_pointing_to_young, track>>
          /\ IF a \notin noheap THEN Rooted(b) ELSE UNCHANGED prebuilts
          /\ UNCHANGED <<old_objects_with_cards_set, cardsset, cards>>
      BY <1>4 DEF writebarrier_before_copy
    <2> QED BY <1>4, <2>1 DEF BarrierStep
  <1> HIDE DEF byhand
  <1>5. byhand \/ NoBarrier \/ (b \in track \cap Cards /\ manually_copy_card_bits(a, b, n))
        \/ (b \in track /\ a \notin Cards)
    BY DEF writebarrier_before_copy, byhand
  <1> QED BY <1>1, <1>2, <1>3, <1>4, <1>5

(* Barriers keep the types of what they change.                            *)
BarrierTypes ==
    /\ track \subseteq Obj /\ noheap \subseteq Prebuilt
    /\ cardsset \subseteq Cards /\ cards \subseteq Cards \X Nat
    /\ old_objects_pointing_to_young \subseteq Obj
    /\ old_objects_with_cards_set \subseteq Cards
    /\ prebuilt_root_objects \subseteq Prebuilt

LEMMA BarrierTyped ==
    ASSUME TypeOK, NEW b \in Obj, BarrierStep(b) PROVE BarrierTypes'
  <1>1. track' \subseteq Obj /\ old_objects_pointing_to_young' \subseteq Obj
    BY DEF TypeOK, BarrierStep, Remembered
  <1>2. noheap' \subseteq Prebuilt /\ prebuilt_root_objects' \subseteq Prebuilt
    BY DEF TypeOK, BarrierStep, Rooted, prebuilts
  <1>3. ASSUME NEW C \in SUBSET Nat, b \in Cards, Marked(b, C)
        PROVE  /\ cardsset' \subseteq Cards /\ cards' \subseteq Cards \X Nat
               /\ old_objects_with_cards_set' \subseteq Cards
    BY <1>3 DEF TypeOK, Marked
  <1>4. CASE UNCHANGED <<old_objects_with_cards_set, cardsset, cards>>
    BY <1>1, <1>2, <1>4 DEF TypeOK, BarrierTypes
  <1> QED BY <1>1, <1>2, <1>3, <1>4 DEF BarrierStep, BarrierTypes

-----------------------------------------------------------------------------
(* The steps of the program, by what they change                           *)

(* A root that changes, and nothing else.                                  *)
RootStep(r, v) ==
    /\ phase = "run" /\ root' = [root EXCEPT ![r] = v]
    /\ UNCHANGED <<slots, remembered, prebuilts, recent_mallocs>> /\ Unmoved

(* The slots S of the object b that are written, or none, and the barrier. *)
WriteStep(b, S) ==
    /\ phase = "run" /\ b \in Obj /\ S \subseteq Slots(b)
    /\ DOMAIN slots' = Obj /\ DOMAIN slots'[b] = Slots(b)
    /\ \A o \in Obj \ {b} : slots'[o] = slots[o]
    /\ \A s \in Slots(b) \ S : slots'[b][s] = slots[b][s]
    /\ slots'[b] = [s \in Slots(b) |-> slots'[b][s]]
    /\ BarrierStep(b)
    /\ recent_mallocs' \subseteq recent_mallocs
    /\ UNCHANGED root /\ Unmoved

(* A loaded pointer is one.                                                *)
LEMMA LoadedPtr ==
    ASSUME TypeOK, NEW p \in Held
    PROVE  /\ \A s \in Slots(p.to) : slots[p.to][s] \in Ptr
           /\ p.to \in Weak => weak[p.to] \in Ptr
  BY HeldPtr DEF TypeOK

LEMMA RootTyped ==
    ASSUME TypeOK, NEW r \in Root, NEW v \in Ptr, RootStep(r, v) PROVE TypeOK'
  BY DEF TypeOK, RootStep, remembered, prebuilts, Unmoved, marking, weakrefs

LEMMA WriteTyped ==
    ASSUME TypeOK, NEW b, NEW S, WriteStep(b, S), \A s \in S : slots'[b][s] \in Ptr
    PROVE  TypeOK'
  <1>1. BarrierTypes'
    BY BarrierTyped DEF WriteStep
  <1>2. DOMAIN slots' = Obj /\ \A o \in Obj : slots'[o] \in [Slots(o) -> Ptr]
    <2>1. \A s \in Slots(b) : slots'[b][s] \in Ptr
      BY DEF WriteStep, TypeOK
    <2>2. slots'[b] \in [Slots(b) -> Ptr]
      BY <2>1 DEF WriteStep
    <2> QED BY <2>2 DEF WriteStep, TypeOK
  <1>3. /\ phase' \in {"run", "cards", "oldrefs", "major", "mark"}
        /\ root' \in [Root -> Ptr] /\ weak' \in [Weak -> Ptr]
        /\ where' \in [Obj -> {"free", "nursery", "young", "old", "prebuilt"}]
        /\ visited' \subseteq Obj /\ objects_to_trace' \subseteq Obj
        /\ young_objects_with_weakrefs' \subseteq Weak
        /\ old_objects_with_weakrefs' \subseteq Weak
        /\ recent_mallocs' \subseteq Cards
    BY DEF WriteStep, Unmoved, marking, weakrefs, TypeOK
  <1> QED BY <1>1, <1>2, <1>3 DEF TypeOK, BarrierTypes

(* Every step of the program is an allocation or one of these.             *)
LEMMA SetFieldStep ==
    ASSUME TypeOK, NEW p \in Held, NEW v \in Ptr, setfield(p, v)
    PROVE  WriteStep(p.to, {Field}) /\ slots'[p.to][Field] = v
  <1>1. p.to \in Obj /\ Field \in Slots(p.to)
    BY HeldPtr DEF setfield
  <1>2. BarrierStep(p.to)
    BY WholeStep, NoBarrierStep DEF setfield
  <1> QED BY <1>1, <1>2 DEF setfield, WriteStep, TypeOK

LEMMA SetItemStep ==
    ASSUME TypeOK, NEW p \in Held, NEW v \in Ptr, NEW i, setarrayitem(p, i, v)
    PROVE  WriteStep(p.to, {i}) /\ slots'[p.to][i] = v
  <1>1. p.to \in Obj /\ p.to \in Array /\ i \in Slots(p.to)
    BY HeldPtr DEF setarrayitem
  <1>2. BarrierStep(p.to)
    BY <1>1, ArrayStep, JitArrayStep, NoBarrierStep DEF setarrayitem
  <1> QED BY <1>1, <1>2 DEF setarrayitem, WriteStep, TypeOK

LEMMA AssumeStep ==
    ASSUME TypeOK, NEW p \in Held, assume_young_pointers(p)
    PROVE  WriteStep(p.to, {})
  <1>1. p.to \in Obj
    BY HeldPtr
  <1>2. BarrierStep(p.to)
    BY RememberStep DEF assume_young_pointers
  <1> QED BY <1>1, <1>2 DEF assume_young_pointers, WriteStep, TypeOK

LEMMA ArrayCopyStep ==
    ASSUME TypeOK, NEW p \in Held, NEW q \in Held, NEW i, NEW j, NEW n \in Nat,
           p.to \in Array, q.to \in Array, i \in Slots(p.to), j \in Slots(q.to),
           ll_arraycopy(p, q, i, j, n)
    PROVE  /\ WriteStep(q.to, j..j + n - 1)
           /\ \A s \in j..j + n - 1 : /\ s - j + i \in Slots(p.to)
                                      /\ slots'[q.to][s] = slots[p.to][s - j + i]
  <1>1. q.to \in Obj /\ p.to \in Obj
    BY HeldPtr
  <1>2. i + n <= length[p.to] /\ j + n <= length[q.to]
        /\ writebarrier_before_copy(p.to, q.to, i, j, n)
    BY DEF ll_arraycopy
  <1>3. BarrierStep(q.to) /\ j..j + n - 1 \in SUBSET Slots(q.to)
    BY <1>2, CopyStep, CopySlots
  <1>4. \A s \in j..j + n - 1 : s - j + i \in Slots(p.to)
    BY <1>2, HeapConstants DEF Slots
  <1>5. slots' = [slots EXCEPT ![q.to] =
                    [s \in Slots(q.to) |->
                        IF s \in j..j + n - 1 THEN slots[p.to][s - j + i] ELSE @[s]]]
    BY DEF ll_arraycopy
  <1>6. slots'[q.to] = [s \in Slots(q.to) |->
                         IF s \in j..j + n - 1 THEN slots[p.to][s - j + i] ELSE slots[q.to][s]]
    BY <1>1, <1>5 DEF TypeOK
  <1>7. DOMAIN slots' = Obj /\ \A o \in Obj \ {q.to} : slots'[o] = slots[o]
    BY <1>1, <1>5 DEF TypeOK
  <1> QED BY <1>1, <1>3, <1>4, <1>6, <1>7 DEF ll_arraycopy, WriteStep

-----------------------------------------------------------------------------
(* Types                                                                   *)

LEMMA AllocateTyped ==
    ASSUME TypeOK, NEW r \in Root, NEW o \in Obj,
           \/ malloc_fixedsize_clear(o, r) \/ external_malloc(o, r) \/ malloc_nonmovable(o, r)
           \/ \E p \in Held : malloc_weakref(o, r, p)
    PROVE  TypeOK'
  <1> USE MadePtrs DEF TypeOK, remembered, prebuilts, marking, weakrefs
  <1>1. CASE malloc_fixedsize_clear(o, r)
    BY <1>1 DEF malloc_fixedsize_clear
  <1>2. CASE external_malloc(o, r)
    BY <1>2 DEF external_malloc
  <1>3. CASE malloc_nonmovable(o, r)
    BY <1>3 DEF malloc_nonmovable
  <1>4. ASSUME NEW p \in Held, malloc_weakref(o, r, p) PROVE TypeOK'
    <2>1. p \in Ptr
      BY HeldPtr
    <2> QED BY <1>4, <2>1 DEF malloc_weakref
  <1> QED BY <1>1, <1>2, <1>3, <1>4

LEMMA MutateTyped == ASSUME TypeOK, Mutate PROVE TypeOK'
  <1>1. ASSUME NEW p \in Held, NEW r \in Root, deref(r, p) PROVE TypeOK'
    <2>1. RootStep(r, weak[p.to]) /\ weak[p.to] \in Ptr
      BY <1>1, LoadedPtr DEF deref, RootStep
    <2> QED BY <2>1, RootTyped
  <1>2. ASSUME NEW p \in Held, NEW r \in Root, NEW s \in Slots(p.to), getslot(r, p, s)
        PROVE  TypeOK'
    <2>1. RootStep(r, slots[p.to][s]) /\ slots[p.to][s] \in Ptr
      BY <1>2, LoadedPtr DEF getslot, RootStep
    <2> QED BY <2>1, RootTyped
  <1>3. ASSUME NEW p \in Held, NEW v \in Held \cup {NULL},
               \/ setfield(p, v) \/ \E i \in Slots(p.to) : setarrayitem(p, i, v)
        PROVE  TypeOK'
    <2>1. v \in Ptr
      BY HeldPtr, MadePtrs
    <2>2. CASE setfield(p, v)
      <3>1. WriteStep(p.to, {Field}) /\ slots'[p.to][Field] = v
        BY <2>1, <2>2, SetFieldStep
      <3> QED BY <2>1, <3>1, WriteTyped
    <2>3. ASSUME NEW i \in Slots(p.to), setarrayitem(p, i, v) PROVE TypeOK'
      <3>1. WriteStep(p.to, {i}) /\ slots'[p.to][i] = v
        BY <2>1, <2>3, SetItemStep
      <3> QED BY <2>1, <3>1, WriteTyped
    <2> QED BY <1>3, <2>2, <2>3
  <1>4. ASSUME NEW p \in Held, assume_young_pointers(p) PROVE TypeOK'
    BY <1>4, AssumeStep, WriteTyped
  <1>5. ASSUME NEW p \in Held, NEW q \in Held, p.to \in Array, q.to \in Array,
               NEW i \in Slots(p.to), NEW j \in Slots(q.to), NEW n \in 2..length[q.to],
               ll_arraycopy(p, q, i, j, n)
        PROVE  TypeOK'
    <2>1. n \in Nat
      BY <1>5, HeapConstants
    <2>2. /\ WriteStep(q.to, j..j + n - 1)
          /\ \A s \in j..j + n - 1 : /\ s - j + i \in Slots(p.to)
                                     /\ slots'[q.to][s] = slots[p.to][s - j + i]
      BY <1>5, <2>1, ArrayCopyStep
    <2>3. \A s \in j..j + n - 1 : slots'[q.to][s] \in Ptr
      BY <2>2, LoadedPtr
    <2> QED BY <2>2, <2>3, WriteTyped
  <1> QED BY <1>1, <1>2, <1>3, <1>4, <1>5 DEF Mutate

LEMMA DropTyped == ASSUME TypeOK, NEW r \in Root, drop(r) PROVE TypeOK'
  <1>1. RootStep(r, NULL)
    BY DEF drop, RootStep
  <1> QED BY <1>1, MadePtrs, RootTyped

(* Dragging objects out of the nursery.                                    *)
LEMMA DragTyped ==
    ASSUME TypeOK, NEW P, NEW pointing \in SUBSET Obj, NEW withcards \in SUBSET Cards,
           DragOut(P, pointing, withcards)
    PROVE  /\ where' \in [Obj -> {"free", "nursery", "young", "old", "prebuilt"}]
           /\ visited' \subseteq Obj
           /\ old_objects_pointing_to_young' \subseteq Obj
           /\ old_objects_with_cards_set' \subseteq Cards
  BY DEF TypeOK, DragOut, Moved, Seen

LEMMA TraceTyped ==
    ASSUME TypeOK, NEW o \in Obj, NEW S, NEW pointing, NEW withcards,
           TraceAndDragOut(o, S, pointing, withcards)
    PROVE  /\ DOMAIN slots' = Obj /\ \A u \in Obj : slots'[u] \in [Slots(u) -> Ptr]
           /\ \A u \in Obj \ {o} : slots'[u] = slots[u]
           /\ \A s \in Slots(o) :
                 slots'[o][s] = IF s \in S THEN Forwarded(slots[o][s]) ELSE slots[o][s]
  <1>1. slots' = [slots EXCEPT ![o] =
                    [s \in Slots(o) |-> IF s \in S THEN Forwarded(@[s]) ELSE @[s]]]
    BY DEF TraceAndDragOut
  <1>2. \A u \in Obj \ {o} : slots'[u] = slots[u]
    BY <1>1 DEF TypeOK
  <1>3. DOMAIN slots' = Obj
    BY <1>1 DEF TypeOK
  <1>4. slots'[o] = [s \in Slots(o) |->
                        IF s \in S THEN Forwarded(slots[o][s]) ELSE slots[o][s]]
    BY <1>1 DEF TypeOK
  <1>5. \A s \in Slots(o) : slots[o][s] \in Ptr /\ Forwarded(slots[o][s]) \in Ptr
    BY PtrForms DEF TypeOK
  <1>6. slots'[o] \in [Slots(o) -> Ptr]
    BY <1>4, <1>5
  <1> QED BY <1>2, <1>3, <1>4, <1>6 DEF TypeOK

LEMMA FreedTyped ==
    ASSUME TypeOK, NEW dead, Freed(dead)
    PROVE  /\ DOMAIN slots' = Obj /\ \A o \in Obj : slots'[o] \in [Slots(o) -> Ptr]
           /\ cards' \subseteq Cards \X Nat /\ cardsset' \subseteq Cards
  BY MadePtrs DEF TypeOK, Freed, Cleared

LEMMA CollectTyped == ASSUME TypeOK, Collect PROVE TypeOK'
  <1>1. CASE minor_collection
    <2>1. {o \in old_objects_pointing_to_young : where[o] # "young"} \in SUBSET Obj
          /\ old_objects_with_cards_set \in SUBSET Cards
      BY DEF TypeOK
    <2>2. \A r \in Root : Forwarded(root[r]) \in Ptr
      BY PtrForms DEF TypeOK
    <2> HIDE DEF Ptr
    <2> QED BY <1>1, <2>1, <2>2, DragTyped DEF minor_collection, TypeOK, prebuilts, weakrefs
  <1>2. ASSUME NEW o \in Obj, collect_cardrefs_to_nursery(o) PROVE TypeOK'
    <2> DEFINE S == IF o \in track THEN {s \in Slots(o) : <<o, Card(s)>> \in cards} ELSE {}
    <2>1. TraceAndDragOut(o, S, old_objects_pointing_to_young,
                          old_objects_with_cards_set \ {o})
      BY <1>2 DEF collect_cardrefs_to_nursery
    <2>2. old_objects_pointing_to_young \in SUBSET Obj
          /\ old_objects_with_cards_set \ {o} \in SUBSET Cards
      BY DEF TypeOK
    <2> HIDE DEF S
    <2>3. DragOut({slots[o][s] : s \in S}, old_objects_pointing_to_young,
                  old_objects_with_cards_set \ {o})
      BY <2>1 DEF TraceAndDragOut
    <2>4. /\ where' \in [Obj -> {"free", "nursery", "young", "old", "prebuilt"}]
          /\ visited' \subseteq Obj /\ old_objects_pointing_to_young' \subseteq Obj
          /\ old_objects_with_cards_set' \subseteq Cards
      BY <2>2, <2>3, DragTyped
    <2>5. DOMAIN slots' = Obj /\ \A u \in Obj : slots'[u] \in [Slots(u) -> Ptr]
      BY <2>1, TraceTyped
    <2> QED BY <1>2, <2>4, <2>5 DEF collect_cardrefs_to_nursery, TypeOK, prebuilts, weakrefs
  <1>3. ASSUME NEW o \in Obj, collect_oldrefs_to_nursery(o) PROVE TypeOK'
    <2>1. TraceAndDragOut(o, Slots(o), old_objects_pointing_to_young \ {o},
                          old_objects_with_cards_set)
      BY <1>3 DEF collect_oldrefs_to_nursery
    <2>2. old_objects_pointing_to_young \ {o} \in SUBSET Obj
          /\ old_objects_with_cards_set \in SUBSET Cards
      BY DEF TypeOK
    <2>3. DragOut({slots[o][s] : s \in Slots(o)}, old_objects_pointing_to_young \ {o},
                  old_objects_with_cards_set)
      BY <2>1 DEF TraceAndDragOut
    <2>4. /\ where' \in [Obj -> {"free", "nursery", "young", "old", "prebuilt"}]
          /\ visited' \subseteq Obj /\ old_objects_pointing_to_young' \subseteq Obj
          /\ old_objects_with_cards_set' \subseteq Cards
      BY <2>2, <2>3, DragTyped
    <2>5. DOMAIN slots' = Obj /\ \A u \in Obj : slots'[u] \in [Slots(u) -> Ptr]
      BY <2>1, TraceTyped
    <2> QED BY <1>3, <2>4, <2>5 DEF collect_oldrefs_to_nursery, TypeOK, prebuilts, weakrefs
  <1>4. CASE minor_loop
    BY <1>4 DEF minor_loop, TypeOK, pointers, remembered, prebuilts, marking, weakrefs
  <1>5. CASE minor_end
    <2>1. \A o \in Weak : Forwarded(weak[o]) \in Ptr /\ NULL \in Ptr
      BY PtrForms, MadePtrs DEF TypeOK
    <2>2. PICK dead : Freed(dead)
      BY <1>5 DEF minor_end
    <2>3. /\ DOMAIN slots' = Obj /\ \A o \in Obj : slots'[o] \in [Slots(o) -> Ptr]
          /\ cards' \subseteq Cards \X Nat /\ cardsset' \subseteq Cards
      BY <2>2, FreedTyped
    <2>4. weak' \in [Weak -> Ptr]
      BY <1>5, <2>1 DEF minor_end, TypeOK
    <2>5. where' \in [Obj -> {"free", "nursery", "young", "old", "prebuilt"}]
      BY <1>5 DEF minor_end, TypeOK
    <2> QED BY <1>5, <2>3, <2>4, <2>5 DEF minor_end, TypeOK, prebuilts
  <1>6. CASE major_collection
    <2>1. Targets(RootPtrs) \subseteq Obj
      BY PtrForms DEF TypeOK, Targets, RootPtrs
    <2> QED BY <1>6, <2>1, HeapConstants
            DEF major_collection, TypeOK, pointers, remembered, prebuilts, weakrefs
  <1>7. ASSUME NEW o \in Obj, visit(o) PROVE TypeOK'
    <2>1. Targets(Ptrs(o)) \subseteq Obj
      BY PtrForms DEF TypeOK, Targets, Ptrs
    <2> QED BY <1>7, <2>1 DEF visit, TypeOK, pointers, remembered, prebuilts, weakrefs
  <1>8. CASE major_end
    <2>1. PICK dead : Freed(dead)
      BY <1>8 DEF major_end
    <2>2. /\ DOMAIN slots' = Obj /\ \A o \in Obj : slots'[o] \in [Slots(o) -> Ptr]
          /\ cards' \subseteq Cards \X Nat /\ cardsset' \subseteq Cards
      BY <2>1, FreedTyped
    <2>3. weak' \in [Weak -> Ptr]
      BY <1>8, MadePtrs DEF major_end, TypeOK
    <2>4. where' \in [Obj -> {"free", "nursery", "young", "old", "prebuilt"}]
          /\ visited' \subseteq Obj
      BY <1>8 DEF major_end, TypeOK, Unvisited
    <2> QED BY <1>8, <2>2, <2>3, <2>4 DEF major_end, TypeOK, prebuilts
  <1> QED BY <1>1, <1>2, <1>3, <1>4, <1>5, <1>6, <1>7, <1>8 DEF Collect

LEMMA TypeInit == ASSUME Init PROVE TypeOK
  BY MadePtrs, HeapConstants DEF Init, TypeOK, Cleared

LEMMA TypeStep == ASSUME TypeOK, [Next]_vars PROVE TypeOK'
  <1>1. CASE UNCHANGED vars
    BY <1>1 DEF vars, TypeOK
  <1> QED BY <1>1, AllocateTyped, MutateTyped, DropTyped, CollectTyped DEF Next, Allocate

(* Every pointer, flag and list has its type.                              *)
THEOREM TypeCorrect == Spec => []TypeOK
  BY TypeInit, TypeStep, PTL DEF Spec

-----------------------------------------------------------------------------
(* The program keeps the invariant                                         *)

(* While the program runs, nothing is visited.                             *)
LEMMA RunFacts ==
    ASSUME IInv, phase = "run"
    PROVE  /\ visited = {} /\ objects_to_trace = {} /\ recent_mallocs = {}
           /\ \A o \in Obj : Stays(o) <=> where[o] \in {"old", "prebuilt"}
  BY DEF IInv, Marking, Fresh, Stays

(* What the program can hold, load or store is whole.                      *)
LEMMA HeldWhole ==
    ASSUME IInv, phase = "run", NEW p \in Held PROVE Whole(p) /\ where[p.to] # "free"
  <1> USE DEF IInv
  <1>1. CASE p \in RootPtrs \ {NULL}
    BY <1>1 DEF RootPtrs, Pointers, Whole
  <1>2. CASE \E o \in Prebuilt : p = Outside(o)
    BY <1>2, MadePtrs, HeapConstants DEF Places, Whole
  <1> QED BY <1>1, <1>2 DEF Held

LEMMA LoadedWhole ==
    ASSUME IInv, phase = "run", NEW p \in Held
    PROVE  /\ \A s \in Slots(p.to) : Whole(slots[p.to][s])
           /\ p.to \in Weak => Whole(weak[p.to])
  <1> USE DEF IInv
  <1>1. p.to \in Obj /\ where[p.to] # "free"
    BY HeldPtr, HeldWhole
  <1>2. \A s \in Slots(p.to) : Whole(slots[p.to][s])
    BY <1>1 DEF Pointers
  <1>3. ASSUME p.to \in Weak PROVE Whole(weak[p.to])
    <2>1. where[p.to] \in {"nursery", "old"}
      BY <1>1, <1>3, HeapConstants DEF Places, TypeOK
    <2> QED BY <1>3, <2>1 DEF Weakrefs, Whole
  <1> QED BY <1>2, <1>3

LEMMA RootInv ==
    ASSUME IInv, NEW r \in Root, NEW v \in Ptr, Whole(v), RootStep(r, v) PROVE IInv'
  <1> USE DEF IInv, RootStep, remembered, prebuilts, Unmoved, marking, weakrefs
  <1>1. TypeOK'
    BY RootTyped
  <1>2. Places' /\ Tracked' /\ CardFlags' /\ Fresh'
    BY DEF Places, Tracked, CardFlags, Stays, Fresh
  <1>3. Prebuilts'
    BY DEF Prebuilts, NoHeapPtrs, Ptrs, Targets
  <1>4. Pointers'
    BY DEF Pointers, Whole, TypeOK
  <1>5. Barrier'
    BY DEF Barrier, Done, Stays, SlotRemembered
  <1>6. Weakrefs' /\ Marking'
    BY DEF Weakrefs, Marking, Whole
  <1> QED BY <1>1, <1>2, <1>3, <1>4, <1>5, <1>6

(* The barrier has taken care of the slot s of the object b.               *)
Covered(b, s) ==
    /\ Stays(b) => SlotRemembered(b, s)'
    /\ where[b] = "young" /\ b \in track' => <<b, Card(s)>> \in cards'

(* A prebuilt object whose barrier remembered it is a root.                *)
RootedToo(b) == track' # track => b \notin noheap'

LEMMA WriteInv ==
    ASSUME IInv, NEW b, NEW S, WriteStep(b, S), RootedToo(b), where[b] # "free",
           \A s \in S : slots'[b][s] \in Ptr /\ Whole(slots'[b][s]),
           \A s \in S : Done(slots'[b][s]) \/ Covered(b, s),
           b \in noheap' => \A s \in S : slots'[b][s].to \in Prebuilt \cup {NoObj}
    PROVE  IInv'
  <1> USE DEF IInv
  <1>r. phase = "run" /\ b \in Obj
    BY DEF WriteStep
  <1>u. UNCHANGED <<phase, root, weak, where, visited, objects_to_trace,
                    young_objects_with_weakrefs, old_objects_with_weakrefs>>
    BY DEF WriteStep, Unmoved, marking, weakrefs
  <1>b. BarrierStep(b)
    BY DEF WriteStep
  <1>v. visited = {}
    BY <1>r, RunFacts
  <1>m. /\ old_objects_pointing_to_young \subseteq old_objects_pointing_to_young'
        /\ old_objects_with_cards_set \subseteq old_objects_with_cards_set'
        /\ cards \subseteq cards' /\ noheap' \subseteq noheap
        /\ track' \subseteq track /\ track \ {b} \subseteq track'
        /\ b \in track' \/ b \notin track \/ b \in old_objects_pointing_to_young'
    BY <1>b DEF BarrierStep, Remembered, Marked, Rooted, prebuilts
  <1>1. TypeOK'
    BY WriteTyped
  <1>2. Places' /\ Fresh'
    BY <1>u DEF Places, Fresh, WriteStep
  <1>3. Tracked'
    <2>1. CASE b \in track /\ Remembered(b)
      BY <2>1, <1>u, <1>r, <1>v DEF Tracked, Remembered, Stays, TypeOK
    <2>2. CASE UNCHANGED <<old_objects_pointing_to_young, track>>
      BY <2>2, <1>u, <1>r, <1>v DEF Tracked, Stays
    <2> QED BY <2>1, <2>2, <1>b DEF BarrierStep
  <1>4. CardFlags'
    <2>1. ASSUME b \in Cards \cap (track \cup cardsset), NEW C \in SUBSET Nat, Marked(b, C)
          PROVE  CardFlags'
      <3>1. where[b] \in {"young", "old"} /\ (where[b] = "young" => b \in cardsset)
        BY <2>1, <1>v, HeapConstants DEF Tracked, CardFlags, Places, Cards
      <3>2. \A c \in cards' : c[1] \in cardsset'
        BY <2>1 DEF CardFlags, Marked
      <3>3. \A o \in Obj : Stays(o)' <=> Stays(o)
        BY <1>u DEF Stays
      <3>4. Stays(b) <=> where[b] = "old"
        BY <3>1, <1>v DEF Stays
      <3>5. \A o \in Obj :
              /\ o \in old_objects_with_cards_set' => Stays(o) /\ o \in cardsset'
              /\ o \in cardsset' => /\ where[o] \in {"young", "old"}
                                    /\ Stays(o) => o \in old_objects_with_cards_set'
              /\ where[o] = "young" /\ o \in Cards /\ o \notin visited => o \in cardsset'
        BY <2>1, <3>1, <3>4 DEF CardFlags, Marked
      <3> QED BY <3>2, <3>3, <3>5, <1>u DEF CardFlags
    <2>2. CASE UNCHANGED <<old_objects_with_cards_set, cardsset, cards>>
      BY <2>2, <1>u DEF CardFlags, Stays
    <2> QED BY <2>1, <2>2, <1>b DEF BarrierStep
  <1>5. Prebuilts'
    <2>1. noheap' \subseteq track'
      BY <1>m DEF Prebuilts, RootedToo
    <2>2. Prebuilt \ noheap' = prebuilt_root_objects'
      BY <1>b DEF BarrierStep, Rooted, prebuilts, Prebuilts, NoHeapPtrs, TypeOK
    <2>3. ASSUME NEW o \in noheap', NEW s \in Slots(o)
          PROVE  slots'[o][s].to \in Prebuilt \cup {NoObj}
      <3>1. o \in noheap /\ o \in Obj
        BY <2>3, <1>m, HeapConstants DEF TypeOK
      <3>2. slots[o][s].to \in Prebuilt \cup {NoObj}
        BY <3>1 DEF Prebuilts, NoHeapPtrs, Targets, Ptrs
      <3> QED BY <3>1, <3>2 DEF WriteStep
    <2> QED BY <2>1, <2>2, <2>3 DEF Prebuilts, NoHeapPtrs, Targets, Ptrs
  <1>6. Pointers'
    <2>1. ASSUME NEW o \in Obj, NEW s \in Slots(o)
          PROVE  Whole(slots'[o][s]) /\ (where[o] = "free" => slots'[o][s] = NULL)
      <3>1. CASE o = b /\ s \in S
        BY <3>1
      <3>2. CASE ~(o = b /\ s \in S)
        <4>1. slots'[o][s] = slots[o][s]
          BY <3>2 DEF WriteStep
        <4> QED BY <4>1 DEF Pointers
      <3> QED BY <3>1, <3>2
    <2>2. ASSUME NEW o \in Obj, NEW s \in Slots(o) PROVE Whole(slots[o][s])'
      <3> DEFINE p == slots'[o][s]
      <3>1. Whole(p)
        BY <2>1
      <3> HIDE DEF p
      <3>2. p # NULL =>
               /\ where'[p.to] # "free"
               /\ p.in = "outside" => where'[p.to] # "nursery"
               /\ p.in = "nursery" =>
                     where'[p.to] = "nursery" \/ (phase' # "run" /\ where'[p.to] = "old")
        BY <3>1, <1>u DEF Whole
      <3> QED BY <3>2 DEF Whole, p
    <2>3. \A r \in Root : Whole(root[r])'
      BY <1>u DEF Pointers, Whole
    <2> QED BY <2>1, <2>2, <2>3, <1>u, <1>r DEF Pointers
  <1>7. Barrier'
    <2> SUFFICES ASSUME NEW o \in Obj, NEW s \in Slots(o)
                 PROVE  \/ Done(slots'[o][s])
                        \/ /\ Stays(o) => SlotRemembered(o, s)'
                           /\ where[o] = "young" /\ o \notin visited /\ o \in track'
                                => <<o, Card(s)>> \in cards'
      BY <1>u DEF Barrier, Done, Stays
    <2>1. CASE o = b /\ s \in S
      BY <2>1 DEF Covered
    <2>2. CASE ~(o = b /\ s \in S)
      <3>1. slots'[o][s] = slots[o][s]
        BY <2>2 DEF WriteStep
      <3>2. SlotRemembered(o, s) => SlotRemembered(o, s)'
        BY <1>m DEF SlotRemembered
      <3> QED BY <3>1, <3>2, <1>m DEF Barrier
    <2> QED BY <2>1, <2>2
  <1>8. Weakrefs' /\ Marking'
    BY <1>u, <1>r, <1>m DEF Weakrefs, Marking, Whole
  <1> QED BY <1>1, <1>2, <1>3, <1>4, <1>5, <1>6, <1>7, <1>8

(* What the barriers cover, and that they make roots of prebuilt objects.  *)
LEMMA UnchangedCover ==
    ASSUME IInv, phase = "run", NEW b \in Obj \ track, NoBarrier
    PROVE  RootedToo(b) /\ b \notin noheap' /\ \A s \in Slots(b) : Covered(b, s)
  <1>1. Stays(b) => b \in old_objects_pointing_to_young
    BY DEF IInv, Tracked
  <1>2. b \notin noheap
    BY DEF IInv, Prebuilts
  <1> QED BY <1>1, <1>2
          DEF NoBarrier, RootedToo, Covered, SlotRemembered, remembered, prebuilts

LEMMA RememberCover ==
    ASSUME NEW b, jit_remember_young_pointer(b)
    PROVE  RootedToo(b) /\ b \notin noheap' /\ \A s \in Slots(b) : Covered(b, s)
  BY DEF jit_remember_young_pointer, Remembered, Rooted, RootedToo, Covered, SlotRemembered

LEMMA WholeCover ==
    ASSUME IInv, phase = "run", NEW b \in Obj, NEW p \in Ptr, Whole(p), write_barrier(b, p),
           NEW s \in Slots(b)
    PROVE  RootedToo(b) /\ b \notin noheap' /\ (Done(p) \/ Covered(b, s))
  <1>1. CASE b \notin track
    BY <1>1, UnchangedCover DEF write_barrier
  <1>2. CASE jit_remember_young_pointer(b)
    BY <1>2, RememberCover
  <1>3. CASE remember_young_pointer(b, p) /\ appears_to_be_young(p)
    BY <1>3 DEF remember_young_pointer, Remembered, Rooted, RootedToo, Covered, SlotRemembered
  <1>4. CASE remember_young_pointer(b, p) /\ ~appears_to_be_young(p)
    <2>1. Done(p)
      <3>1. CASE p = NULL
        BY <3>1 DEF Done
      <3>2. CASE p # NULL
        <4>1. p.to \in Obj /\ p.to # NoObj /\ p.in \in {"nursery", "outside"}
          BY <3>2, PtrForms
        <4>2. where[p.to] \in {"old", "prebuilt"}
          BY <1>4, <3>2, <4>1 DEF appears_to_be_young, Young, Whole, IInv, TypeOK
        <4> QED BY <3>2, <4>1, <4>2 DEF Whole, Done, Stays
      <3> QED BY <3>1, <3>2
    <2> QED BY <1>4, <2>1 DEF remember_young_pointer, Rooted, RootedToo
  <1> QED BY <1>1, <1>2, <1>3, <1>4 DEF write_barrier

(* An array that has marked cards and a clean flag is listed.              *)
LEMMA CardsListed ==
    ASSUME IInv, NEW b \in Obj, NEW c, <<b, c>> \in cards, Stays(b)
    PROVE  b \in old_objects_with_cards_set
  <1>1. b \in cardsset
    BY DEF IInv, CardFlags
  <1> QED BY <1>1 DEF IInv, CardFlags

LEMMA MarkCover ==
    ASSUME IInv, phase = "run", NEW b \in Cards, NEW C, MarkCards(b, C),
           NEW s \in Slots(b), Card(s) \in C
    PROVE  RootedToo(b) /\ b \notin noheap' /\ Covered(b, s)
  <1>1. b \in Obj /\ b \notin Prebuilt
    BY HeapConstants DEF Cards
  <1>2. b \notin noheap'
    BY <1>1 DEF MarkCards, IInv, TypeOK, prebuilts
  <1>3. Stays(b) => b \in old_objects_with_cards_set'
    BY <1>1 DEF MarkCards, IInv, CardFlags
  <1>4. <<b, Card(s)>> \in cards' /\ track' = track
    BY DEF MarkCards
  <1>5. Stays(b) /\ b \notin track => b \in old_objects_pointing_to_young'
    BY <1>1 DEF IInv, Tracked, MarkCards
  <1> QED BY <1>2, <1>3, <1>4, <1>5 DEF RootedToo, Covered, SlotRemembered

LEMMA ArrayCover ==
    ASSUME IInv, phase = "run", NEW b \in Array, NEW I \in SUBSET Slots(b),
           write_barrier_from_array(b, I)
    PROVE  RootedToo(b) /\ b \notin noheap' /\ \A s \in I : Covered(b, s)
  <1>1. b \in Obj
    BY HeapConstants
  <1>2. CASE b \notin track
    BY <1>1, <1>2, UnchangedCover DEF write_barrier_from_array
  <1>3. CASE b \in track \ Cards
    BY <1>3, RememberCover DEF write_barrier_from_array, remember_young_pointer_from_array2
  <1>4. CASE b \in track \cap Cards
    <2> DEFINE new == {c \in {Card(i) : i \in I} : <<b, c>> \notin cards}
    <2>1. b \notin noheap
      BY <1>4, HeapConstants DEF Cards, IInv, TypeOK
    <2>2. CASE NoBarrier /\ new = {}
      <3>1. ASSUME NEW s \in I PROVE Covered(b, s)
        <4>1. <<b, Card(s)>> \in cards
          BY <2>2
        <4>2. Stays(b) => b \in old_objects_with_cards_set
          BY <1>1, <4>1, CardsListed
        <4> QED BY <1>4, <2>2, <4>1, <4>2
                DEF NoBarrier, Covered, SlotRemembered, remembered
      <3> QED BY <2>1, <2>2, <3>1 DEF NoBarrier, RootedToo, remembered, prebuilts
    <2>3. CASE MarkCards(b, new)
      <3>1. b \notin noheap' /\ RootedToo(b)
        BY <2>1, <2>3 DEF MarkCards, RootedToo, prebuilts
      <3>2. ASSUME NEW s \in I PROVE Covered(b, s)
        <4>1. <<b, Card(s)>> \in cards' /\ track' = track
          BY <2>3 DEF MarkCards
        <4>2. Stays(b) => b \in old_objects_with_cards_set'
          BY <1>1, <2>3 DEF MarkCards, IInv, CardFlags
        <4> QED BY <1>4, <4>1, <4>2 DEF Covered, SlotRemembered
      <3> QED BY <3>1, <3>2
    <2> QED BY <1>4, <2>2, <2>3 DEF write_barrier_from_array, remember_young_pointer_from_array2
  <1> QED BY <1>2, <1>3, <1>4

LEMMA JitArrayCover ==
    ASSUME IInv, phase = "run", NEW b \in Array, NEW i \in Slots(b),
           jit_write_barrier_from_array(b, i)
    PROVE  RootedToo(b) /\ b \notin noheap' /\ Covered(b, i)
  <1>1. b \in Obj
    BY HeapConstants
  <1>2. CASE b \in Cards /\ b \in track \cup cardsset
    BY <1>2, MarkCover DEF jit_write_barrier_from_array
  <1>3. CASE ~(b \in Cards /\ b \in track \cup cardsset) /\ b \in track
    BY <1>3, RememberCover DEF jit_write_barrier_from_array
  <1>4. CASE ~(b \in Cards /\ b \in track \cup cardsset) /\ b \notin track
    BY <1>1, <1>4, UnchangedCover DEF jit_write_barrier_from_array
  <1> QED BY <1>2, <1>3, <1>4

(* Storing NULL needs no barrier.                                          *)
LEMMA NullCover ==
    ASSUME IInv, Sound, phase = "run", NEW b, NEW v, JitBarrierFree(b, v), NoBarrier
    PROVE  RootedToo(b) /\ v = NULL
  BY RunFacts DEF JitBarrierFree, NoBarrier, RootedToo, remembered

(* The cards of the first n items are among those that are copied.         *)
LEMMA Division ==
    ASSUME NEW a \in Nat, NEW k \in Nat, k > 0
    PROVE  /\ a \div k \in Nat
           /\ k * (a \div k) <= a /\ a < k * (a \div k) + k
  BY Z3

LEMMA Cancel ==
    ASSUME NEW x \in Nat, NEW y \in Nat, NEW k \in Nat, k > 0, k * x < k * y PROVE x < y
  <1>1. SUFFICES ASSUME y <= x PROVE FALSE
    OBVIOUS
  <1>2. PICK d \in Nat : x = y + d
    BY <1>1
  <1>3. k * x = k * y + k * d /\ k * d \in Nat /\ k * y \in Nat
    BY <1>2
  <1> QED BY <1>3

LEMMA CeilAbove ==
    ASSUME NEW a \in Nat, NEW k \in Nat, k > 0
    PROVE  CeilDiv(a, k) \in Nat /\ a <= k * CeilDiv(a, k)
  <1>1. CeilDiv(a, k) = (a + k - 1) \div k /\ a + k - 1 \in Nat
    BY DEF CeilDiv
  <1>2. /\ CeilDiv(a, k) \in Nat
        /\ a + k - 1 < k * CeilDiv(a, k) + k
    BY <1>1, Division
  <1>3. k * CeilDiv(a, k) \in Nat
    BY <1>2
  <1> QED BY <1>2, <1>3

LEMMA CopiedCards ==
    ASSUME NEW n \in Nat, NEW s \in 0..n - 1
    PROVE  Card(s) \in 0..CardsCopied(n) - 1
  <1> DEFINE k == card_page_indices
             m == CeilDiv(n, k)
  <1>1. k \in Nat /\ k > 0 /\ CardBits \in Nat /\ CardBits > 0 /\ s \in Nat /\ s < n
    BY HeapConstants
  <1>2. Card(s) \in Nat /\ k * Card(s) <= s
    BY <1>1, Division DEF Card
  <1>3. m \in Nat /\ n <= k * m
    BY <1>1, CeilAbove
  <1> HIDE DEF m, k
  <1>4. k * Card(s) \in Nat /\ k * m \in Nat /\ k * Card(s) < k * m
    BY <1>1, <1>2, <1>3
  <1>5. Card(s) < m
    BY <1>1, <1>2, <1>3, <1>4, Cancel
  <1>6. CeilDiv(m, CardBits) \in Nat /\ m <= CardBits * CeilDiv(m, CardBits)
    BY <1>1, <1>3, CeilAbove
  <1>7. CardsCopied(n) = CardBits * CeilDiv(m, CardBits)
    BY DEF CardsCopied, m, k
  <1>8. CardsCopied(n) \in Nat /\ m <= CardsCopied(n)
    BY <1>1, <1>6, <1>7
  <1> QED BY <1>2, <1>3, <1>5, <1>8

(* A copy is covered: the items are done, or b is remembered as a was.     *)
LEMMA CopyCover ==
    ASSUME IInv, Sound, phase = "run", NEW a \in Array, NEW b \in Array,
           NEW i \in Slots(a), NEW j \in Slots(b), NEW n \in Nat, j + n <= length[b],
           \A s \in j..j + n - 1 : s - j + i \in Slots(a),
           writebarrier_before_copy(a, b, i, j, n),
           b \in noheap /\ a \in (Cards \cap track) \ cardsset => CopyToPrebuilt
    PROVE  /\ RootedToo(b)
           /\ \A s \in j..j + n - 1 : Done(slots[a][s - j + i]) \/ Covered(b, s)
           /\ b \in noheap' =>
                 \A s \in j..j + n - 1 : slots[a][s - j + i].to \in Prebuilt \cup {NoObj}
  <1> DEFINE byhand == write_barrier_from_array(b, j..j + n - 1)
  <1> USE DEF IInv
  <1>o. a \in Obj /\ b \in Obj /\ j..j + n - 1 \in SUBSET Slots(b)
    BY HeapConstants, CopySlots
  <1>1. CASE b \notin track
    BY <1>o, <1>1, UnchangedCover DEF writebarrier_before_copy
  <1>2. CASE byhand
    BY <1>o, <1>2, ArrayCover
  <1>3. CASE a \in Cards /\ a \in track \ cardsset /\ b \in track /\ NoBarrier
    <2>1. where[a] \in {"young", "old"} /\ (where[a] = "young" => a \in cardsset)
      BY <1>o, <1>3, RunFacts, HeapConstants DEF Tracked, CardFlags, Places, Cards
    <2>2. Stays(a) /\ a \notin old_objects_pointing_to_young
          /\ a \notin old_objects_with_cards_set
      BY <1>o, <1>3, <2>1 DEF Stays, Tracked, CardFlags
    <2>3. \A s \in Slots(a) : Done(slots[a][s])
      BY <1>o, <2>2 DEF Barrier, SlotRemembered
    <2>4. b \notin noheap
      BY <1>3 DEF Sound
    <2> QED BY <1>3, <2>3, <2>4 DEF NoBarrier, RootedToo, remembered, prebuilts
  <1>4. CASE /\ a \in Cards \cap track /\ b \in Cards \cap track /\ i = 0 /\ j = 0
             /\ manually_copy_card_bits(a, b, n)
    <2> DEFINE C == {c \in 0..CardsCopied(n) - 1 : <<a, c>> \in cards}
    <2>1. b \notin noheap /\ a \notin old_objects_pointing_to_young
      BY <1>o, <1>4, HeapConstants DEF Cards, TypeOK, Tracked
    <2>2. ASSUME NEW s \in 0..n - 1, ~Done(slots[a][s]) PROVE Card(s) \in C
      <3>1. s \in Slots(a)
        BY <1>4
      <3>2. <<a, Card(s)>> \in cards
        <4>1. Stays(a) => SlotRemembered(a, s)
          BY <1>o, <2>2, <3>1 DEF Barrier
        <4>2. where[a] = "young" /\ a \notin visited => <<a, Card(s)>> \in cards
          BY <1>o, <1>4, <2>2, <3>1 DEF Barrier
        <4>3. Stays(a) \/ where[a] = "young"
          BY <1>o, <1>4 DEF Tracked, Stays
        <4> QED BY <2>1, <4>1, <4>2, <4>3, RunFacts DEF SlotRemembered
      <3> QED BY <3>2, CopiedCards
    <2>3. CASE C = {} /\ NoBarrier
      <3>1. b \notin noheap' /\ RootedToo(b)
        BY <2>1, <2>3 DEF NoBarrier, RootedToo, remembered, prebuilts
      <3>2. \A s \in 0..n - 1 : Done(slots[a][s])
        BY <2>2, <2>3
      <3>3. \A s \in j..j + n - 1 : s \in 0..n - 1 /\ s - j + i = s
        BY <1>4
      <3> QED BY <3>1, <3>2, <3>3
    <2>4. CASE MarkCards(b, C)
      <3>1. b \notin noheap' /\ RootedToo(b)
        BY <2>1, <2>4 DEF MarkCards, RootedToo, prebuilts
      <3>2. ASSUME NEW s \in 0..n - 1, Card(s) \in C PROVE Covered(b, s)
        <4>1. s \in Slots(b)
          BY <1>o, <1>4
        <4> HIDE DEF C
        <4> QED BY <1>4, <2>4, <3>2, <4>1, MarkCover
      <3>3. \A s \in 0..n - 1 : Done(slots[a][s]) \/ Covered(b, s)
        BY <2>2, <3>2
      <3>4. \A s \in j..j + n - 1 : s \in 0..n - 1 /\ s - j + i = s
        BY <1>4
      <3> HIDE DEF C
      <3> QED BY <3>1, <3>3, <3>4
    <2> QED BY <1>4, <2>3, <2>4 DEF manually_copy_card_bits
  <1>5. CASE b \in track /\ a \notin Cards
    <2>1. /\ IF a \notin track THEN Remembered(b)
             ELSE UNCHANGED <<old_objects_pointing_to_young, track>>
          /\ IF a \notin noheap THEN Rooted(b) ELSE UNCHANGED prebuilts
      BY <1>5 DEF writebarrier_before_copy
    <2>2. CASE a \notin track
      <3>1. Remembered(b) /\ Rooted(b)
        BY <2>1, <2>2 DEF Prebuilts
      <3> QED BY <3>1 DEF Remembered, Rooted, RootedToo, Covered, SlotRemembered
    <2>3. CASE a \in track
      <3>1. track' = track
        BY <2>1, <2>3
      <3>2. Stays(a) /\ a \notin old_objects_pointing_to_young
            /\ a \notin old_objects_with_cards_set
        BY <1>o, <1>5, <2>3, RunFacts DEF Tracked, Stays, TypeOK
      <3>3. \A s \in Slots(a) : Done(slots[a][s])
        BY <1>o, <3>2 DEF Barrier, SlotRemembered
      <3>4. b \in noheap' => a \in noheap
        BY <2>1 DEF Rooted
      <3>5. a \in noheap => \A s \in Slots(a) : slots[a][s].to \in Prebuilt \cup {NoObj}
        BY DEF Prebuilts, NoHeapPtrs, Targets, Ptrs
      <3> QED BY <3>1, <3>3, <3>4, <3>5 DEF RootedToo
    <2> QED BY <2>2, <2>3
  <1> HIDE DEF byhand
  <1>6. \/ b \notin track \/ byhand
        \/ a \in Cards /\ a \in track \ cardsset /\ b \in track /\ NoBarrier
        \/ /\ a \in Cards \cap track /\ b \in Cards \cap track /\ i = 0 /\ j = 0
           /\ manually_copy_card_bits(a, b, n)
        \/ b \in track /\ a \notin Cards
    BY DEF writebarrier_before_copy, byhand
  <1> QED BY <1>1, <1>2, <1>3, <1>4, <1>5, <1>6

(* The steps of the program.                                               *)
LEMMA SetFieldInv ==
    ASSUME IInv, Sound, NEW p \in Held, NEW v \in Held \cup {NULL}, setfield(p, v)
    PROVE  IInv'
  <1>1. phase = "run" /\ TypeOK
    BY DEF setfield, IInv
  <1>2. v \in Ptr /\ Whole(v) /\ p.to \in Obj /\ where[p.to] # "free"
    BY <1>1, HeldPtr, HeldWhole, MadePtrs DEF Whole
  <1>3. WriteStep(p.to, {Field}) /\ slots'[p.to][Field] = v /\ Field \in Slots(p.to)
    BY <1>1, <1>2, SetFieldStep DEF setfield
  <1>4. CASE write_barrier(p.to, v)
    <2>1. RootedToo(p.to) /\ p.to \notin noheap' /\ (Done(v) \/ Covered(p.to, Field))
      BY <1>1, <1>2, <1>3, <1>4, WholeCover
    <2> QED BY <1>2, <1>3, <2>1, WriteInv
  <1>5. CASE JitBarrierFree(p.to, v) /\ NoBarrier
    <2>1. RootedToo(p.to) /\ Done(v) /\ v.to = NoObj
      BY <1>1, <1>5, NullCover, MadePtrs DEF Done
    <2> QED BY <1>2, <1>3, <2>1, WriteInv
  <1> QED BY <1>4, <1>5 DEF setfield

LEMMA SetItemInv ==
    ASSUME IInv, Sound, NEW p \in Held, NEW v \in Held \cup {NULL}, NEW i \in Slots(p.to),
           setarrayitem(p, i, v)
    PROVE  IInv'
  <1>1. phase = "run" /\ TypeOK /\ p.to \in Array
    BY DEF setarrayitem, IInv
  <1>2. v \in Ptr /\ Whole(v) /\ p.to \in Obj /\ where[p.to] # "free"
    BY <1>1, HeldPtr, HeldWhole, MadePtrs DEF Whole
  <1>3. WriteStep(p.to, {i}) /\ slots'[p.to][i] = v
    BY <1>1, <1>2, SetItemStep
  <1>4. CASE write_barrier_from_array(p.to, {i}) \/ jit_write_barrier_from_array(p.to, i)
    <2>1. RootedToo(p.to) /\ p.to \notin noheap' /\ Covered(p.to, i)
      BY <1>1, <1>4, ArrayCover, JitArrayCover
    <2> QED BY <1>2, <1>3, <2>1, WriteInv
  <1>5. CASE JitBarrierFree(p.to, v) /\ NoBarrier
    <2>1. RootedToo(p.to) /\ Done(v) /\ v.to = NoObj
      BY <1>1, <1>5, NullCover, MadePtrs DEF Done
    <2> QED BY <1>2, <1>3, <2>1, WriteInv
  <1> QED BY <1>4, <1>5 DEF setarrayitem

LEMMA ArrayCopyInv ==
    ASSUME IInv, Sound, NEW p \in Held, NEW q \in Held, p.to \in Array, q.to \in Array,
           NEW i \in Slots(p.to), NEW j \in Slots(q.to), NEW n \in Nat,
           ll_arraycopy(p, q, i, j, n)
    PROVE  IInv'
  <1> DEFINE a == p.to
             b == q.to
  <1>1. phase = "run" /\ TypeOK
    BY DEF ll_arraycopy, IInv
  <1>2. /\ WriteStep(b, j..j + n - 1)
        /\ \A s \in j..j + n - 1 : /\ s - j + i \in Slots(a)
                                   /\ slots'[b][s] = slots[a][s - j + i]
    BY <1>1, ArrayCopyStep
  <1>3. /\ j + n <= length[b] /\ writebarrier_before_copy(a, b, i, j, n)
        /\ (b \in noheap /\ a \in (Cards \cap track) \ cardsset => CopyToPrebuilt)
    BY DEF ll_arraycopy
  <1>4. where[b] # "free"
    BY <1>1, HeldWhole
  <1>5. \A s \in Slots(a) : slots[a][s] \in Ptr /\ Whole(slots[a][s])
    BY <1>1, LoadedPtr, LoadedWhole
  <1> HIDE DEF a, b
  <1>6. /\ RootedToo(b)
        /\ \A s \in j..j + n - 1 : Done(slots[a][s - j + i]) \/ Covered(b, s)
        /\ b \in noheap' =>
              \A s \in j..j + n - 1 : slots[a][s - j + i].to \in Prebuilt \cup {NoObj}
    BY <1>1, <1>2, <1>3, CopyCover DEF a, b
  <1> QED BY <1>2, <1>4, <1>5, <1>6, WriteInv

LEMMA MutateInv == ASSUME IInv, Sound, Mutate PROVE IInv'
  <1>t. TypeOK
    BY DEF IInv
  <1>1. ASSUME NEW p \in Held, NEW r \in Root, deref(r, p) PROVE IInv'
    <2>1. RootStep(r, weak[p.to]) /\ phase = "run" /\ p.to \in Weak
      BY <1>1 DEF deref, RootStep
    <2>2. weak[p.to] \in Ptr /\ Whole(weak[p.to])
      BY <1>t, <2>1, LoadedPtr, LoadedWhole
    <2> QED BY <2>1, <2>2, RootInv
  <1>2. ASSUME NEW p \in Held, NEW r \in Root, NEW s \in Slots(p.to), getslot(r, p, s)
        PROVE  IInv'
    <2>1. RootStep(r, slots[p.to][s]) /\ phase = "run"
      BY <1>2 DEF getslot, RootStep
    <2>2. slots[p.to][s] \in Ptr /\ Whole(slots[p.to][s])
      BY <1>t, <2>1, LoadedPtr, LoadedWhole
    <2> QED BY <2>1, <2>2, RootInv
  <1>3. ASSUME NEW p \in Held, assume_young_pointers(p) PROVE IInv'
    <2>1. WriteStep(p.to, {}) /\ phase = "run" /\ where[p.to] # "free"
      BY <1>t, <1>3, AssumeStep, HeldWhole DEF assume_young_pointers
    <2>2. RootedToo(p.to)
      BY <1>3, RememberCover DEF assume_young_pointers
    <2> QED BY <2>1, <2>2, WriteInv
  <1>4. ASSUME NEW p \in Held, NEW q \in Held, p.to \in Array, q.to \in Array,
               NEW i \in Slots(p.to), NEW j \in Slots(q.to), NEW n \in 2..length[q.to],
               ll_arraycopy(p, q, i, j, n)
        PROVE  IInv'
    <2>1. n \in Nat
      BY <1>4, HeapConstants
    <2> QED BY <1>4, <2>1, ArrayCopyInv
  <1> QED BY <1>1, <1>2, <1>3, <1>4, SetFieldInv, SetItemInv DEF Mutate

LEMMA DropInv == ASSUME IInv, NEW r \in Root, drop(r) PROVE IInv'
  <1>1. RootStep(r, NULL)
    BY DEF drop, RootStep
  <1> QED BY <1>1, MadePtrs, RootInv DEF Whole

-----------------------------------------------------------------------------
(* Allocation keeps the invariant                                          *)

(* An object that is allocated in some place, and what is new about it.    *)
AllocStep(o, v, r, place) ==
    /\ phase = "run" /\ where[o] = "free"
    /\ where' = [where EXCEPT ![o] = place] /\ root' = [root EXCEPT ![r] = v]
    /\ CASE place = "nursery" -> /\ o \notin Large /\ v = Nursery(o)
                                 /\ UNCHANGED <<track, cardsset>>
         [] place = "young" -> /\ o \in Large /\ v = Outside(o)
                               /\ track' = track \cup ({o} \cap Cards)
                               /\ cardsset' = cardsset \cup ({o} \cap Cards)
         [] place = "old" -> /\ o \notin Large \cup Weak /\ v = Outside(o)
                             /\ track' = track \cup {o} /\ UNCHANGED cardsset
    /\ \/ o \notin Weak /\ UNCHANGED <<weak, young_objects_with_weakrefs>>
       \/ /\ o \in Weak /\ place = "nursery"
          /\ \E p \in Held : weak' = [weak EXCEPT ![o] = p]
          /\ young_objects_with_weakrefs' = young_objects_with_weakrefs \cup {o}
    /\ recent_mallocs' = {}
    /\ UNCHANGED <<phase, slots, old_objects_pointing_to_young, old_objects_with_cards_set,
                   cards, prebuilts, marking, old_objects_with_weakrefs>>

LEMMA AllocateInv ==
    ASSUME IInv, TypeOK', NEW o \in Obj, NEW v, NEW r \in Root,
           NEW place \in {"nursery", "young", "old"}, AllocStep(o, v, r, place)
    PROVE  IInv'
  <1> USE DEF IInv
  <1>u. /\ phase = "run" /\ phase' = "run" /\ where[o] = "free"
        /\ where' = [where EXCEPT ![o] = place] /\ root' = [root EXCEPT ![r] = v]
        /\ UNCHANGED <<slots, old_objects_pointing_to_young, old_objects_with_cards_set,
                       cards, noheap, prebuilt_root_objects, visited, objects_to_trace,
                       old_objects_with_weakrefs>>
        /\ recent_mallocs' = {}
    BY DEF AllocStep, prebuilts, marking
  <1>v. visited = {}
    BY <1>u, RunFacts
  <1>w. where \in [Obj -> {"free", "nursery", "young", "old", "prebuilt"}]
    BY DEF TypeOK
  <1>c. CASE \/ /\ place = "nursery" /\ o \notin Large /\ v = Nursery(o)
                /\ UNCHANGED <<track, cardsset>>
             \/ /\ place = "young" /\ o \in Large /\ v = Outside(o)
                /\ track' = track \cup ({o} \cap Cards)
                /\ cardsset' = cardsset \cup ({o} \cap Cards)
             \/ /\ place = "old" /\ o \notin Large \cup Weak /\ v = Outside(o)
                /\ track' = track \cup {o} /\ UNCHANGED cardsset
    <2>n. /\ o \notin track /\ o \notin old_objects_pointing_to_young /\ o \notin cardsset
          /\ o \notin old_objects_with_cards_set /\ o \notin Prebuilt /\ o \notin noheap
      BY <1>u DEF Tracked, CardFlags, Places, Prebuilts
    <2>s. \A u \in Obj : /\ Stays(u) => Stays(u)'
                         /\ u # o => (Stays(u)' => Stays(u))
                         /\ Stays(o)' <=> place = "old"
      BY <1>u, <1>v, <1>w DEF Stays
    <2>p. \A p \in Ptr : /\ Whole(p) => Whole(p)'
                         /\ Done(p) => Done(p)'
      <3> SUFFICES ASSUME NEW p \in Ptr, p # NULL
                   PROVE  (Whole(p) => Whole(p)') /\ (Done(p) => Done(p)')
        BY DEF Whole, Done
      <3>1. p.to \in Obj /\ p.in \in {"nursery", "outside"}
        BY PtrForms
      <3>2. Whole(p) => p.to # o
        BY <1>u DEF Whole
      <3> QED BY <3>1, <3>2, <1>u, <1>w, <2>s DEF Whole, Done
    <2>1. Places' /\ Fresh'
      BY <1>u, <1>w, <1>c, <2>n DEF Places, Fresh
    <2>2. Tracked'
      BY <1>u, <1>v, <1>w, <1>c, <2>n, <2>s DEF Tracked
    <2>3. CardFlags'
      <3>1. \A u \in Obj \ {o} : /\ where'[u] = where[u] /\ (Stays(u)' <=> Stays(u))
                                 /\ u \in cardsset' <=> u \in cardsset
        BY <1>u, <1>w, <1>c, <2>s
      <3>2. \A c \in cards' : c[1] \in cardsset'
        BY <1>u, <1>c DEF CardFlags
      <3>3. o \in cardsset' => place = "young" /\ where'[o] = "young" /\ ~Stays(o)'
        BY <1>u, <1>w, <1>c, <2>n, <2>s
      <3>4. place = "young" /\ o \in Cards => o \in cardsset'
        BY <1>c
      <3>5. where'[o] = place
        BY <1>u, <1>w
      <3> QED BY <1>u, <3>1, <3>2, <3>3, <3>4, <3>5, <2>n DEF CardFlags
    <2>4. Prebuilts'
      BY <1>u, <1>c DEF Prebuilts, NoHeapPtrs, Targets, Ptrs
    <2>5. Pointers'
      <3>1. \A q \in Root : Whole(root[q])'
        <4>1. Whole(v)'
          BY <1>u, <1>w, <1>c, MadePtrs DEF Whole
        <4>2. \A q \in Root : q # r => root'[q] = root[q] /\ root[q] \in Ptr /\ Whole(root[q])
          BY <1>u DEF TypeOK, Pointers
        <4>3. root'[r] = v
          BY <1>u DEF TypeOK
        <4>4. \A q \in Root : q # r => Whole(root[q])'
          BY <4>2, <2>p DEF Whole
        <4> QED BY <4>1, <4>2, <4>3, <4>4
      <3>2. ASSUME NEW u \in Obj, NEW s \in Slots(u) PROVE Whole(slots[u][s])'
        <4> DEFINE p == slots[u][s]
        <4>1. p \in Ptr /\ Whole(p) /\ p' = p
          BY <1>u DEF TypeOK, Pointers
        <4> HIDE DEF p
        <4>2. Whole(p)'
          BY <4>1, <2>p DEF Whole
        <4> QED BY <4>2 DEF p
      <3>3. \A u \in Obj : \A s \in Slots(u) : where'[u] = "free" => slots'[u][s] = NULL
        BY <1>u, <1>w DEF Pointers
      <3> QED BY <3>1, <3>2, <3>3, <1>u DEF Pointers
    <2>6. Barrier'
      <3> SUFFICES ASSUME NEW u \in Obj, NEW s \in Slots(u)
                   PROVE  \/ Done(slots[u][s])'
                          \/ /\ Stays(u)' => SlotRemembered(u, s)'
                             /\ where'[u] = "young" /\ u \notin visited' /\ u \in track'
                                  => <<u, Card(s)>> \in cards'
        BY DEF Barrier
      <3>1. CASE u = o
        <4>1. slots'[o][s] = NULL
          BY <1>u, <3>1 DEF Pointers
        <4> QED BY <3>1, <4>1 DEF Done
      <3>2. CASE u # o
        <4>1. slots'[u][s] = slots[u][s] /\ slots[u][s] \in Ptr
          BY <1>u DEF TypeOK
        <4>2. where'[u] = where[u] /\ (u \in track' <=> u \in track) /\ (Stays(u)' => Stays(u))
          BY <3>2, <1>u, <1>w, <1>c, <2>s
        <4>3. SlotRemembered(u, s) => SlotRemembered(u, s)'
          BY <4>2, <1>u DEF SlotRemembered
        <4>4. Done(slots[u][s]) => Done(slots[u][s])'
          <5> DEFINE p == slots[u][s]
          <5>1. p \in Ptr /\ p' = p
            BY <4>1
          <5> HIDE DEF p
          <5>2. Done(p) => Done(p)'
            BY <5>1, <2>p DEF Done
          <5> QED BY <5>2 DEF p
        <4> QED BY <4>2, <4>3, <4>4, <1>u DEF Barrier
      <3> QED BY <3>1, <3>2
    <2>7. Marking'
      BY <1>u, <1>v DEF Marking
    <2>8. Weakrefs'
      <3> SUFFICES ASSUME NEW u \in Weak
            PROVE  /\ where'[u] = "free" => weak'[u] = NULL
                   /\ where'[u] = "nursery" => u \in young_objects_with_weakrefs'
                   /\ u \in young_objects_with_weakrefs' =>
                        /\ where'[u] = "nursery" /\ weak'[u] # NULL /\ Whole(weak[u])'
                        /\ u \notin old_objects_with_weakrefs'
                   /\ where'[u] = "old" /\ u \notin young_objects_with_weakrefs' =>
                        \/ weak'[u] = NULL
                        \/ /\ weak'[u].in = "outside"
                           /\ \/ where'[weak'[u].to] = "prebuilt"
                              \/ where'[weak'[u].to] = "old" /\ u \in old_objects_with_weakrefs'
                   /\ u \in old_objects_with_weakrefs' =>
                        where'[u] = "old" /\ weak'[u] # NULL /\ weak'[u].to \notin noheap'
        BY <1>u DEF Weakrefs
      <3>t. u \in Obj /\ weak[u] \in Ptr
        BY HeapConstants DEF TypeOK
      <3>1. CASE u = o
        <4>1. /\ place = "nursery" /\ u \in young_objects_with_weakrefs'
              /\ where'[u] = "nursery"
          BY <3>1, <3>t, <1>u, <1>w DEF AllocStep
        <4>2. PICK p \in Held : weak'[u] = p
          BY <3>1 DEF AllocStep, TypeOK
        <4>3. p \in Ptr /\ p # NULL /\ Whole(p)
          BY <1>u, HeldPtr, HeldWhole
        <4>4. Whole(weak[u])'
          <5>1. Whole(p)'
            BY <4>3, <2>p
          <5> QED BY <5>1, <4>2 DEF Whole
        <4>5. u \notin old_objects_with_weakrefs
          BY <3>1, <1>u DEF Weakrefs
        <4> QED BY <4>1, <4>2, <4>3, <4>4, <4>5, <1>u
      <3>2. CASE u # o
        <4>1. /\ weak'[u] = weak[u] /\ where'[u] = where[u]
              /\ u \in young_objects_with_weakrefs' <=> u \in young_objects_with_weakrefs
          BY <3>2, <3>t, <1>u, <1>w DEF AllocStep, TypeOK
        <4>2. Whole(weak[u]) => Whole(weak[u])'
          <5> DEFINE p == weak[u]
          <5>1. p \in Ptr /\ p' = p
            BY <3>t, <4>1
          <5> HIDE DEF p
          <5>2. Whole(p) => Whole(p)'
            BY <5>1, <2>p DEF Whole
          <5> QED BY <5>2 DEF p
        <4>3. \A t \in Obj : where[t] \in {"old", "prebuilt"} => where'[t] = where[t]
          BY <1>u, <1>w
        <4>4. weak[u] # NULL => weak[u].to \in Obj
          BY <3>t, PtrForms
        <4> QED BY <4>1, <4>2, <4>3, <4>4, <1>u DEF Weakrefs
      <3> QED BY <3>1, <3>2
    <2> QED BY <2>1, <2>2, <2>3, <2>4, <2>5, <2>6, <2>7, <2>8
  <1> QED BY <1>c DEF AllocStep

LEMMA AllocInv == ASSUME IInv, Sound, Allocate PROVE IInv'
  <1> USE DEF remembered, prebuilts, marking, weakrefs
  <1>t. TypeOK
    BY DEF IInv
  <1>1. ASSUME NEW r \in Root, NEW o \in Obj, malloc_fixedsize_clear(o, r) PROVE IInv'
    <2>1. AllocStep(o, Nursery(o), r, "nursery")
      BY <1>1 DEF malloc_fixedsize_clear, AllocStep
    <2>2. TypeOK'
      BY <1>t, <1>1, AllocateTyped
    <2> QED BY <2>1, <2>2, AllocateInv
  <1>2. ASSUME NEW r \in Root, NEW o \in Obj, external_malloc(o, r) PROVE IInv'
    <2>1. o \notin Weak /\ recent_mallocs' = {}
      BY <1>2, HeapConstants DEF external_malloc, Sound
    <2>2. AllocStep(o, Outside(o), r, "young")
      BY <1>2, <2>1 DEF external_malloc, AllocStep
    <2>3. TypeOK'
      BY <1>t, <1>2, AllocateTyped
    <2> QED BY <2>2, <2>3, AllocateInv
  <1>3. ASSUME NEW r \in Root, NEW o \in Obj, malloc_nonmovable(o, r) PROVE IInv'
    <2>1. AllocStep(o, Outside(o), r, "old")
      BY <1>3 DEF malloc_nonmovable, AllocStep
    <2>2. TypeOK'
      BY <1>t, <1>3, AllocateTyped
    <2> QED BY <2>1, <2>2, AllocateInv
  <1>4. ASSUME NEW r \in Root, NEW o \in Obj, NEW p \in Held, malloc_weakref(o, r, p)
        PROVE  IInv'
    <2>1. o \notin Large
      BY <1>4, HeapConstants DEF malloc_weakref
    <2>2. AllocStep(o, Nursery(o), r, "nursery")
      BY <1>4, <2>1 DEF malloc_weakref, AllocStep
    <2>3. TypeOK'
      BY <1>t, <1>4, AllocateTyped
    <2> QED BY <2>2, <2>3, AllocateInv
  <1> QED BY <1>1, <1>2, <1>3, <1>4 DEF Allocate

LEMMA InitInv == ASSUME Init PROVE IInv
  <1>1. TypeOK
    BY TypeInit
  <1>2. /\ phase = "run" /\ visited = {} /\ cards = {} /\ cardsset = {} /\ track = Prebuilt
        /\ noheap = Prebuilt /\ prebuilt_root_objects = {} /\ objects_to_trace = {}
        /\ old_objects_pointing_to_young = {} /\ old_objects_with_cards_set = {}
        /\ young_objects_with_weakrefs = {} /\ old_objects_with_weakrefs = {}
        /\ \A o \in Obj : where[o] = IF o \in Prebuilt THEN "prebuilt" ELSE "free"
        /\ \A r \in Root : root[r] = NULL
        /\ \A o \in Obj : \A s \in Slots(o) : slots[o][s] = NULL
        /\ \A o \in Weak : weak[o] = NULL
    BY DEF Init, Cleared
  <1>3. Places /\ Tracked /\ CardFlags
    BY <1>2, HeapConstants DEF Places, Tracked, CardFlags, Stays
  <1>4. Prebuilts
    BY <1>2, HeapConstants, MadePtrs DEF Prebuilts, NoHeapPtrs, Targets, Ptrs
  <1>5. Pointers /\ Barrier
    BY <1>2 DEF Pointers, Barrier, Whole, Done
  <1>6. Weakrefs /\ Marking
    BY <1>2, HeapConstants DEF Weakrefs, Marking
  <1> QED BY <1>1, <1>3, <1>4, <1>5, <1>6 DEF IInv, Fresh, Init

-----------------------------------------------------------------------------
(* A minor collection keeps the invariant                                  *)

(* A step that drags the objects of the pointers P out of the nursery, and *)
(* updates the slots whose pointers were in P.                             *)
DragStep(P, pointing, withcards) ==
    /\ phase \in {"run", "cards", "oldrefs"} /\ phase' \in {"cards", "oldrefs"}
    /\ DragOut(P, pointing, withcards)
    /\ \A p \in P : p \in Ptr /\ Whole(p)
    /\ \A u \in Obj : \A s \in Slots(u) :
          \/ slots'[u][s] = slots[u][s]
          \/ slots[u][s] \in P /\ slots'[u][s] = Forwarded(slots[u][s])
    /\ recent_mallocs' = {}
    /\ UNCHANGED <<weak, prebuilts, objects_to_trace, weakrefs>>

(* What is left in the lists, and the flags and cards, still agree.        *)
Remembering(P, pointing, withcards) ==
    /\ \A u \in Obj :
        /\ u \in pointing => u \notin track' /\ Stays(u)
        /\ Stays(u) => u \in track' \cup pointing
        /\ u \in track => u \in track'
        /\ u \in track' => u \in track \/ Stays(u)
        /\ u \in withcards => Stays(u) /\ u \in cardsset'
        /\ u \in cardsset' => u \in cardsset /\ (Stays(u) => u \in withcards)
        /\ ~Stays(u) /\ u \in cardsset => u \in cardsset'
        /\ \A c : ~Stays(u) /\ <<u, c>> \in cards => <<u, c>> \in cards'
        /\ \A s \in Slots(u) :
              Stays(u) /\ SlotRemembered(u, s) =>
                  \/ u \in pointing
                  \/ u \in withcards \cap track' /\ <<u, Card(s)>> \in cards'
                  \/ slots[u][s] \in P /\ slots'[u][s] = Forwarded(slots[u][s])
    /\ \A c \in cards' : c[1] \in cardsset'

(* Objects only move out of the nursery, and pointers get done.            *)
LEMMA DragFacts ==
    ASSUME IInv, NEW P, NEW pointing, NEW withcards, DragStep(P, pointing, withcards)
    PROVE  /\ \A o \in Obj :
                /\ o \in Moved(P) => where[o] = "nursery" /\ where'[o] = "old"
                /\ o \notin Moved(P) => where'[o] = where[o]
                /\ o \in Seen(P) => where[o] = "young" /\ o \notin visited
                                    /\ o \notin Moved(P)
                /\ Stays(o)' <=> (Stays(o) \/ o \in Moved(P) \/ o \in Seen(P))
           /\ \A p \in Ptr : /\ Done(p) => (p.to # NoObj => Stays(p.to)')
                             /\ p \in P => (p.to # NoObj => Stays(p.to)')
  <1> USE DEF IInv
  <1>1. /\ where' = [o \in Obj |-> IF o \in Moved(P) THEN "old" ELSE where[o]]
        /\ visited' = visited \cup Seen(P)
    BY DEF DragStep, DragOut
  <1>2. \A o \in Obj :
                /\ o \in Moved(P) => where[o] = "nursery" /\ where'[o] = "old"
                /\ o \notin Moved(P) => where'[o] = where[o]
                /\ o \in Seen(P) => where[o] = "young" /\ o \notin visited
                                    /\ o \notin Moved(P)
    BY <1>1 DEF Moved, Seen
  <1>3. \A o \in Obj : Stays(o)' <=> (Stays(o) \/ o \in Moved(P) \/ o \in Seen(P))
    BY <1>1, <1>2 DEF Stays
  <1>4. ASSUME NEW p \in Ptr, p.to # NoObj
        PROVE  /\ Done(p) => Stays(p.to)'
               /\ p \in P => Stays(p.to)'
    <2>1. p # NULL /\ p.to \in Obj /\ p.in \in {"nursery", "outside"}
      BY <1>4, PtrForms
    <2>2. Done(p) => Stays(p.to)'
      BY <2>1, <1>3 DEF Done
    <2>3. ASSUME p \in P PROVE Stays(p.to)'
      <3>1. Whole(p)
        BY <2>3 DEF DragStep
      <3>2. CASE p.in = "nursery"
        <4>1. p = Nursery(p.to)
          BY <3>2, PtrForms
        <4>2. where[p.to] \in {"nursery", "old"}
          BY <2>1, <3>1, <3>2 DEF Whole
        <4>3. where[p.to] = "nursery" => p.to \in Moved(P)
          BY <2>1, <2>3, <4>1 DEF Moved
        <4> QED BY <2>1, <4>2, <4>3, <1>3 DEF Stays
      <3>3. CASE p.in = "outside"
        <4>1. p = Outside(p.to)
          BY <3>3, PtrForms
        <4>2. where[p.to] \in {"young", "old", "prebuilt"}
          BY <2>1, <3>1, <3>3 DEF Whole, TypeOK
        <4>3. where[p.to] = "young" /\ p.to \notin visited => p.to \in Seen(P)
          BY <2>1, <2>3, <4>1 DEF Seen
        <4> QED BY <2>1, <4>2, <4>3, <1>3 DEF Stays
      <3> QED BY <2>1, <3>2, <3>3
    <2> QED BY <2>2, <2>3
  <1> QED BY <1>2, <1>3, <1>4

LEMMA DragPtrs ==
    ASSUME IInv, NEW P, NEW pointing, NEW withcards, DragStep(P, pointing, withcards),
           NEW p \in Ptr
    PROVE  /\ Whole(p) => Whole(p)' /\ (Done(p) => Done(p)')
           /\ p \in P => Whole(Forwarded(p))' /\ Done(Forwarded(p))'
  <1> USE DEF IInv
  <1>1. p = NULL <=> p.to = NoObj
    BY PtrForms
  <1>2. CASE p = NULL
    BY <1>2, PtrForms DEF Whole, Done
  <1>3. CASE p # NULL
    <2> DEFINE f == Forwarded(p)
    <2>1. /\ p.to \in Obj /\ p.to # NoObj /\ p.in \in {"nursery", "outside"}
          /\ f # NULL /\ f.to = p.to /\ f.in = "outside"
      BY <1>3, PtrForms
    <2> HIDE DEF f
    <2>2. phase' # "run"
      BY DEF DragStep
    <2>3. ASSUME Whole(p) PROVE Whole(p)'
      BY <1>3, <2>1, <2>2, <2>3, DragFacts DEF Whole
    <2>4. ASSUME Done(p) PROVE Done(p)'
      BY <1>3, <2>1, <2>4, DragFacts DEF Done
    <2>5. ASSUME p \in P PROVE Whole(f)' /\ Done(f)'
      <3>1. Stays(p.to)'
        BY <2>1, <2>5, DragFacts
      <3>2. where'[p.to] \in {"old", "prebuilt", "young"}
        BY <3>1 DEF Stays
      <3> QED BY <2>1, <3>1, <3>2 DEF Whole, Done
    <2> QED BY <2>3, <2>4, <2>5 DEF f
  <1> QED BY <1>2, <1>3

LEMMA DragInv ==
    ASSUME IInv, TypeOK', NEW P, NEW pointing, NEW withcards,
           DragStep(P, pointing, withcards), Remembering(P, pointing, withcards),
           \A r \in Root : Whole(root[r])' /\ Done(root[r])'
    PROVE  IInv'
  <1> USE DEF IInv
  <1>u. /\ phase \in {"run", "cards", "oldrefs"} /\ phase' \in {"cards", "oldrefs"}
        /\ visited' = visited \cup Seen(P)
        /\ old_objects_pointing_to_young' = pointing \cup Moved(P) \cup (Seen(P) \ track)
        /\ old_objects_with_cards_set' = withcards \cup (Seen(P) \cap Cards)
        /\ UNCHANGED <<weak, noheap, prebuilt_root_objects, objects_to_trace,
                       young_objects_with_weakrefs, old_objects_with_weakrefs>>
        /\ recent_mallocs' = {}
    BY DEF DragStep, DragOut, prebuilts, weakrefs
  <1>f. \A o \in Obj :
          /\ o \in Moved(P) => where[o] = "nursery" /\ where'[o] = "old"
          /\ o \notin Moved(P) => where'[o] = where[o]
          /\ o \in Seen(P) => where[o] = "young" /\ o \notin visited /\ o \notin Moved(P)
          /\ Stays(o)' <=> (Stays(o) \/ o \in Moved(P) \/ o \in Seen(P))
    BY DragFacts
  <1>n. \A o \in Obj : /\ Stays(o) => o \notin Moved(P) /\ o \notin Seen(P)
                       /\ o \in visited \/ o \in Seen(P) <=> o \in visited'
    BY <1>f, <1>u DEF Stays
  <1>s. \A u \in Obj : \A s \in Slots(u) :
          /\ slots[u][s] \in Ptr
          /\ \/ slots'[u][s] = slots[u][s]
             \/ slots[u][s] \in P /\ slots'[u][s] = Forwarded(slots[u][s])
    BY DEF DragStep, TypeOK
  <1>1. Places' /\ Fresh'
    BY <1>u, <1>f DEF Places, Fresh
  <1>2. Tracked'
    <2> SUFFICES ASSUME NEW u \in Obj
                 PROVE  /\ u \in old_objects_pointing_to_young' =>
                              u \notin track' /\ Stays(u)'
                        /\ Stays(u)' => u \in track' \cup old_objects_pointing_to_young'
                        /\ u \in track' => /\ where'[u] \in {"young", "old", "prebuilt"}
                                           /\ where'[u] = "young" => u \in Cards \cup visited'
      BY <1>u DEF Tracked, Stays
    <2>1. u \in Moved(P) => u \notin track /\ u \notin track' /\ ~Stays(u)
      BY <1>f, <1>n DEF Remembering, Tracked
    <2>2. u \in Seen(P) => ~Stays(u) /\ (u \in track <=> u \in track')
      BY <1>n DEF Remembering
    <2>3. u \in track' => u \in track \/ Stays(u)
      BY DEF Remembering
    <2>4. where[u] \in {"old", "prebuilt"} \/ (where[u] = "young" /\ u \in visited) <=> Stays(u)
      BY DEF Stays
    <2>5. u \in old_objects_pointing_to_young' => u \notin track' /\ Stays(u)'
      BY <2>1, <2>2, <1>u, <1>f DEF Remembering
    <2>6. Stays(u)' => u \in track' \cup old_objects_pointing_to_young'
      BY <2>1, <2>2, <1>u, <1>f DEF Remembering
    <2>7. u \in track' => /\ where'[u] \in {"young", "old", "prebuilt"}
                          /\ where'[u] = "young" => u \in Cards \cup visited'
      BY <2>1, <2>3, <2>4, <1>n, <1>f DEF Tracked
    <2> QED BY <2>5, <2>6, <2>7
  <1>3. CardFlags'
    <2>1. ASSUME NEW u \in Obj
          PROVE  /\ u \in old_objects_with_cards_set' => Stays(u)' /\ u \in cardsset'
                 /\ u \in cardsset' => /\ where'[u] \in {"young", "old"}
                                       /\ Stays(u)' => u \in old_objects_with_cards_set'
                 /\ where'[u] = "young" /\ u \in Cards /\ u \notin visited' => u \in cardsset'
      <3>1. u \in Moved(P) => u \notin cardsset
        BY <1>f DEF CardFlags
      <3>2. u \in Seen(P) => ~Stays(u) /\ (u \in Cards => u \in cardsset)
        BY <1>f, <1>n DEF CardFlags
      <3>3. ~Stays(u) => (u \in cardsset <=> u \in cardsset')
        BY DEF Remembering
      <3>4. u \in cardsset' => u \in cardsset /\ u \in Cards
        BY DEF Remembering, TypeOK
      <3>5. u \in old_objects_with_cards_set' => Stays(u)' /\ u \in cardsset'
        BY <3>2, <3>3, <1>u, <1>f DEF Remembering
      <3>6. u \in cardsset' => where'[u] \in {"young", "old"}
        BY <3>4, <1>f DEF CardFlags
      <3>7. u \in cardsset' /\ Stays(u)' => u \in old_objects_with_cards_set'
        BY <3>1, <3>4, <1>u, <1>f DEF Remembering
      <3>8. where'[u] = "young" /\ u \in Cards /\ u \notin visited' => u \in cardsset'
        <4> SUFFICES ASSUME where'[u] = "young", u \in Cards, u \notin visited'
                     PROVE  u \in cardsset'
          OBVIOUS
        <4>1. where[u] = "young" /\ u \notin visited
          BY <1>f, <1>n
        <4> QED BY <4>1, <3>3 DEF CardFlags, Stays
      <3> QED BY <3>5, <3>6, <3>7, <3>8
    <2>2. \A c \in cards' : c[1] \in cardsset'
      BY DEF Remembering
    <2> QED BY <2>1, <2>2 DEF CardFlags
  <1>4. Prebuilts'
    <2>1. noheap' \subseteq track'
      BY <1>u, HeapConstants DEF Prebuilts, Remembering, TypeOK
    <2>2. \A u \in Obj : \A s \in Slots(u) : slots'[u][s].to = slots[u][s].to
      BY <1>s, PtrForms
    <2>3. noheap \subseteq Obj
      BY HeapConstants DEF TypeOK
    <2> QED BY <2>1, <2>2, <2>3, <1>u DEF Prebuilts, NoHeapPtrs, Targets, Ptrs
  <1>5. ASSUME NEW u \in Obj, NEW s \in Slots(u)
        PROVE  /\ Whole(slots[u][s])'
               /\ slots'[u][s] = slots[u][s] /\ Done(slots[u][s]) => Done(slots[u][s])'
               /\ slots[u][s] \in P /\ slots'[u][s] = Forwarded(slots[u][s])
                     => Done(slots[u][s])'
    <2> DEFINE p == slots[u][s]
    <2>1. p \in Ptr /\ Whole(p) /\ (p' = p \/ (p \in P /\ p' = Forwarded(p)))
      BY <1>s DEF Pointers
    <2> HIDE DEF p
    <2>2. /\ Whole(p) => (p' = p => Whole(p)') /\ (Done(p) => (p' = p => Done(p)'))
          /\ p \in P /\ p' = Forwarded(p) => Whole(p)' /\ Done(p)'
      <3> HIDE DEF IInv
      <3>1. PICK x \in Ptr : x = p
        BY <2>1
      <3>2. /\ Whole(x) => Whole(x)' /\ (Done(x) => Done(x)')
            /\ x \in P => Whole(Forwarded(x))' /\ Done(Forwarded(x))'
        BY DragPtrs
      <3>3. ASSUME p' = p PROVE (Whole(x)' => Whole(p)') /\ (Done(x)' => Done(p)')
        BY <3>1, <3>3 DEF Whole, Done
      <3>4. ASSUME p' = Forwarded(p)
            PROVE  Whole(Forwarded(x))' /\ Done(Forwarded(x))' => Whole(p)' /\ Done(p)'
        BY <3>1, <3>4 DEF Whole, Done
      <3> QED BY <3>1, <3>2, <3>3, <3>4 DEF Whole, Done
    <2>3. Whole(p)' /\ (p' = p /\ Done(p) => Done(p)')
          /\ (p \in P /\ p' = Forwarded(p) => Done(p)')
      BY <2>1, <2>2
    <2> QED BY <2>3 DEF p
  <1>6. Pointers'
    <2>1. \A u \in Obj : \A s \in Slots(u) : where'[u] = "free" => slots'[u][s] = NULL
      BY <1>f, <1>s, MadePtrs, PtrForms DEF Pointers
    <2> QED BY <2>1, <1>5 DEF Pointers
  <1>7. Barrier'
    <2> SUFFICES ASSUME NEW u \in Obj, NEW s \in Slots(u), ~Done(slots[u][s])'
                 PROVE  /\ Stays(u)' => SlotRemembered(u, s)'
                        /\ where'[u] = "young" /\ u \notin visited' /\ u \in track'
                               => <<u, Card(s)>> \in cards'
      BY DEF Barrier
    <2>1. slots'[u][s] = slots[u][s] /\ ~Done(slots[u][s])
          /\ ~(slots[u][s] \in P /\ slots'[u][s] = Forwarded(slots[u][s]))
      BY <1>5, <1>s
    <2>2. /\ Stays(u) => SlotRemembered(u, s)
          /\ where[u] = "young" /\ u \notin visited /\ u \in track => <<u, Card(s)>> \in cards
      BY <2>1 DEF Barrier
    <2>3. /\ ~Stays(u) => (u \in track <=> u \in track')
          /\ ~Stays(u) /\ <<u, Card(s)>> \in cards => <<u, Card(s)>> \in cards'
      BY DEF Remembering
    <2>4. CASE Stays(u)
      <3>1. \/ u \in pointing
            \/ u \in withcards \cap track' /\ <<u, Card(s)>> \in cards'
        BY <2>1, <2>2, <2>4 DEF Remembering
      <3> QED BY <3>1, <2>4, <1>u, <1>f DEF SlotRemembered, Stays
    <2>5. CASE u \in Moved(P)
      BY <2>5, <1>u, <1>f DEF SlotRemembered
    <2>6. CASE u \in Seen(P)
      <3>1. u \notin track => SlotRemembered(u, s)'
        BY <2>6, <1>u DEF SlotRemembered
      <3>2. u \in track => SlotRemembered(u, s)'
        <4> SUFFICES ASSUME u \in track PROVE SlotRemembered(u, s)'
          OBVIOUS
        <4>1. where[u] = "young" /\ u \notin visited /\ ~Stays(u)
          BY <2>6, <1>f, <1>n
        <4>2. u \in Cards
          BY <4>1 DEF Tracked
        <4> QED BY <2>2, <2>3, <2>6, <4>1, <4>2, <1>u DEF SlotRemembered
      <3> QED BY <3>1, <3>2, <2>6, <1>n, <1>u
    <2>7. CASE ~Stays(u) /\ u \notin Moved(P) /\ u \notin Seen(P)
      BY <2>2, <2>3, <2>7, <1>f, <1>n
    <2> QED BY <2>4, <2>5, <2>6, <2>7
  <1>8. Weakrefs'
    <2> SUFFICES ASSUME NEW u \in Weak
          PROVE  /\ where'[u] = "free" => weak'[u] = NULL
                 /\ where'[u] = "nursery" => u \in young_objects_with_weakrefs'
                 /\ u \in young_objects_with_weakrefs' =>
                      /\ where'[u] \in {"nursery", "old"}
                      /\ weak'[u] # NULL /\ Whole(weak[u])'
                      /\ u \notin old_objects_with_weakrefs'
                 /\ where'[u] = "old" /\ u \notin young_objects_with_weakrefs' =>
                      \/ weak'[u] = NULL
                      \/ /\ weak'[u].in = "outside"
                         /\ \/ where'[weak'[u].to] = "prebuilt"
                            \/ where'[weak'[u].to] = "old" /\ u \in old_objects_with_weakrefs'
                 /\ u \in old_objects_with_weakrefs' =>
                      where'[u] = "old" /\ weak'[u] # NULL /\ weak'[u].to \notin noheap'
      BY <1>u DEF Weakrefs
    <2>1. u \in Obj /\ weak[u] \in Ptr /\ weak'[u] = weak[u]
      BY <1>u, HeapConstants DEF TypeOK
    <2>2. Whole(weak[u]) => Whole(weak[u])'
      <3> DEFINE p == weak[u]
      <3>1. p \in Ptr /\ p' = p
        BY <2>1
      <3> HIDE DEF p, IInv
      <3>2. PICK x \in Ptr : x = p
        BY <3>1
      <3>3. Whole(x) => Whole(x)'
        BY DragPtrs
      <3>4. Whole(x)' => Whole(p)'
        BY <3>1, <3>2 DEF Whole
      <3>5. Whole(p) => Whole(p)'
        BY <3>2, <3>3, <3>4
      <3> QED BY <3>5 DEF p
    <2>3. weak[u] # NULL => weak[u].to \in Obj
      BY <2>1, PtrForms
    <2> QED BY <2>1, <2>2, <2>3, <1>u, <1>f DEF Weakrefs
  <1>9. Marking'
    <2>1. \A o \in visited' : where'[o] = "young"
      <3> SUFFICES ASSUME NEW o \in visited' PROVE where'[o] = "young"
        OBVIOUS
      <3>1. o \in Obj
        BY DEF TypeOK
      <3>2. where[o] = "young" /\ o \notin Moved(P)
        BY <3>1, <1>n, <1>f, <1>u DEF Marking
      <3> QED BY <3>1, <3>2, <1>f
    <2> QED BY <2>1, <1>u DEF Marking
  <1> QED BY <1>1, <1>2, <1>3, <1>4, <1>6, <1>7, <1>8, <1>9

(* The roots after a step: forwarded, or unchanged and done already.       *)
LEMMA DragRoots ==
    ASSUME IInv, NEW P, NEW pointing, NEW withcards, DragStep(P, pointing, withcards),
           \/ \A r \in Root : root[r] \in P /\ root'[r] = Forwarded(root[r])
           \/ phase # "run" /\ UNCHANGED root
    PROVE  \A r \in Root : Whole(root[r])' /\ Done(root[r])'
  <1> SUFFICES ASSUME NEW r \in Root PROVE Whole(root[r])' /\ Done(root[r])'
    OBVIOUS
  <1> DEFINE p == root[r]
  <1>1. p \in Ptr /\ Whole(p) /\ (phase # "run" => Done(p))
    BY DEF IInv, TypeOK, Pointers
  <1>2. (p \in P /\ p' = Forwarded(p)) \/ (phase # "run" /\ p' = p)
    OBVIOUS
  <1> HIDE DEF p
  <1>3. PICK x \in Ptr : x = p
    BY <1>1
  <1>4. /\ Whole(x) => Whole(x)' /\ (Done(x) => Done(x)')
        /\ x \in P => Whole(Forwarded(x))' /\ Done(Forwarded(x))'
    BY DragPtrs
  <1>5. CASE p \in P /\ p' = Forwarded(p)
    <2>1. Whole(Forwarded(x))' /\ Done(Forwarded(x))'
      BY <1>3, <1>4, <1>5
    <2>2. Whole(p)' /\ Done(p)'
      BY <1>3, <1>5, <2>1 DEF Whole, Done
    <2> QED BY <2>2 DEF p
  <1>6. CASE phase # "run" /\ p' = p
    <2>1. Whole(x)' /\ Done(x)'
      BY <1>1, <1>3, <1>4, <1>6
    <2>2. Whole(p)' /\ Done(p)'
      BY <1>3, <1>6, <2>1 DEF Whole, Done
    <2> QED BY <2>2 DEF p
  <1> QED BY <1>2, <1>5, <1>6

LEMMA MinorStartInv == ASSUME IInv, minor_collection PROVE IInv'
  <1> DEFINE pointing == {o \in old_objects_pointing_to_young : where[o] # "young"}
  <1>1. TypeOK'
    BY CollectTyped DEF IInv, Collect
  <1>2. /\ phase = "run" /\ phase' = "cards"
        /\ DragOut(RootPtrs, pointing, old_objects_with_cards_set)
        /\ root' = [r \in Root |-> Forwarded(root[r])] /\ recent_mallocs' = {}
        /\ UNCHANGED <<slots, weak, track, cardsset, cards, noheap, prebuilt_root_objects,
                       objects_to_trace, young_objects_with_weakrefs,
                       old_objects_with_weakrefs>>
    BY DEF minor_collection, prebuilts, weakrefs
  <1>3. DragStep(RootPtrs, pointing, old_objects_with_cards_set)
    <2>1. \A p \in RootPtrs : p \in Ptr /\ Whole(p)
      BY DEF RootPtrs, IInv, TypeOK, Pointers
    <2> HIDE DEF pointing
    <2> QED BY <1>2, <2>1 DEF DragStep, prebuilts, weakrefs
  <1>4. Remembering(RootPtrs, pointing, old_objects_with_cards_set)
    <2>1. visited = {} /\ \A o \in Obj : Stays(o) <=> where[o] \in {"old", "prebuilt"}
      BY <1>2, RunFacts
    <2>2. \A u \in Obj : u \in pointing <=> u \in old_objects_pointing_to_young /\ Stays(u)
      BY <2>1 DEF IInv, Tracked
    <2> HIDE DEF pointing
    <2> QED BY <1>2, <2>1, <2>2 DEF Remembering, IInv, Tracked, CardFlags, SlotRemembered
  <1>5. \A r \in Root : root[r] \in RootPtrs /\ root'[r] = Forwarded(root[r])
    BY <1>2 DEF RootPtrs
  <1> HIDE DEF pointing
  <1>6. \A r \in Root : Whole(root[r])' /\ Done(root[r])'
    BY <1>3, <1>5, DragRoots
  <1> QED BY <1>1, <1>3, <1>4, <1>6, DragInv

LEMMA CardRefsInv ==
    ASSUME IInv, NEW o \in Obj, collect_cardrefs_to_nursery(o) PROVE IInv'
  <1> DEFINE S == IF o \in track THEN {s \in Slots(o) : <<o, Card(s)>> \in cards} ELSE {}
             P == {slots[o][s] : s \in S}
             withcards == old_objects_with_cards_set \ {o}
  <1>1. TypeOK' /\ TypeOK
    BY CollectTyped DEF IInv, Collect
  <1>2. /\ phase = "cards" /\ o \in old_objects_with_cards_set
        /\ cardsset' = cardsset \ {o}
        /\ cards' = {c \in cards : c[1] # o}
        /\ TraceAndDragOut(o, S, old_objects_pointing_to_young, withcards)
        /\ UNCHANGED <<phase, root, weak, track, noheap, prebuilt_root_objects,
                       objects_to_trace, young_objects_with_weakrefs,
                       old_objects_with_weakrefs, recent_mallocs>>
    BY DEF collect_cardrefs_to_nursery, prebuilts, weakrefs
  <1>3. S \subseteq Slots(o)
    OBVIOUS
  <1>4. \A s \in S : slots[o][s] \in P
    OBVIOUS
  <1>5. Stays(o) /\ (o \notin track => o \in old_objects_pointing_to_young)
        /\ (o \in track => o \notin old_objects_pointing_to_young)
    BY <1>2 DEF IInv, Tracked, CardFlags
  <1>6. \A s \in Slots(o) : o \in track /\ <<o, Card(s)>> \in cards => s \in S
    OBVIOUS
  <1>7. DragOut(P, old_objects_pointing_to_young, withcards)
    BY <1>2 DEF TraceAndDragOut
  <1>8. \A u \in withcards : u \in old_objects_with_cards_set /\ u # o
    OBVIOUS
  <1>9. \A u \in old_objects_with_cards_set : u # o => u \in withcards
    OBVIOUS
  <1>10. \A p \in P : p \in Ptr /\ Whole(p)
    <2>1. \A s \in Slots(o) : slots[o][s] \in Ptr /\ Whole(slots[o][s])
      BY DEF IInv, TypeOK, Pointers
    <2> HIDE DEF S
    <2> QED BY <1>3, <2>1
  <1> HIDE DEF S, P, withcards
  <1>11. \A u \in Obj : \A s \in Slots(u) :
           slots'[u][s] = IF u = o /\ s \in S THEN Forwarded(slots[o][s]) ELSE slots[u][s]
    BY <1>1, <1>2, TraceTyped
  <1>12. DragStep(P, old_objects_pointing_to_young, withcards)
    <2>1. \A u \in Obj : \A s \in Slots(u) :
            \/ slots'[u][s] = slots[u][s]
            \/ slots[u][s] \in P /\ slots'[u][s] = Forwarded(slots[u][s])
      BY <1>4, <1>11
    <2>2. recent_mallocs' = {}
      BY <1>2 DEF IInv, Fresh
    <2> QED BY <1>2, <1>7, <1>10, <2>1, <2>2 DEF DragStep, prebuilts, weakrefs
  <1>13. Remembering(P, old_objects_pointing_to_young, withcards)
    <2>1. ASSUME NEW u \in Obj
          PROVE  /\ u \in old_objects_pointing_to_young => u \notin track' /\ Stays(u)
                 /\ Stays(u) => u \in track' \cup old_objects_pointing_to_young
                 /\ u \in track <=> u \in track'
                 /\ u \in withcards => Stays(u) /\ u \in cardsset'
                 /\ u \in cardsset' => u \in cardsset /\ (Stays(u) => u \in withcards)
                 /\ ~Stays(u) /\ u \in cardsset => u \in cardsset'
                 /\ \A c : ~Stays(u) /\ <<u, c>> \in cards => <<u, c>> \in cards'
      <3>1. /\ u \in old_objects_pointing_to_young => u \notin track' /\ Stays(u)
            /\ Stays(u) => u \in track' \cup old_objects_pointing_to_young
            /\ u \in track <=> u \in track'
        BY <1>2 DEF IInv, Tracked
      <3>2. /\ u \in withcards => Stays(u) /\ u \in cardsset'
            /\ u \in cardsset' => u \in cardsset /\ (Stays(u) => u \in withcards)
            /\ ~Stays(u) /\ u \in cardsset => u \in cardsset'
        BY <1>2, <1>5, <1>8, <1>9 DEF IInv, CardFlags
      <3>3. \A c : ~Stays(u) /\ <<u, c>> \in cards => <<u, c>> \in cards'
        BY <1>2, <1>5
      <3> QED BY <3>1, <3>2, <3>3
    <2>2. ASSUME NEW u \in Obj, NEW s \in Slots(u), SlotRemembered(u, s)
          PROVE  \/ u \in old_objects_pointing_to_young
                 \/ u \in withcards \cap track' /\ <<u, Card(s)>> \in cards'
                 \/ slots[u][s] \in P /\ slots'[u][s] = Forwarded(slots[u][s])
      <3>1. CASE u = o
        BY <2>2, <3>1, <1>4, <1>6, <1>11 DEF SlotRemembered
      <3>2. CASE u # o
        BY <2>2, <3>2, <1>2, <1>9 DEF SlotRemembered
      <3> QED BY <3>1, <3>2
    <2>3. \A c \in cards' : c[1] \in cardsset'
      BY <1>2 DEF IInv, CardFlags
    <2> QED BY <2>1, <2>2, <2>3 DEF Remembering
  <1>14. \A r \in Root : Whole(root[r])' /\ Done(root[r])'
    BY <1>2, <1>12, DragRoots
  <1> QED BY <1>1, <1>12, <1>13, <1>14, DragInv

LEMMA OldRefsInv ==
    ASSUME IInv, NEW o \in Obj, collect_oldrefs_to_nursery(o) PROVE IInv'
  <1> DEFINE P == {slots[o][s] : s \in Slots(o)}
             pointing == old_objects_pointing_to_young \ {o}
  <1>1. TypeOK' /\ TypeOK
    BY CollectTyped DEF IInv, Collect
  <1>2. /\ phase = "oldrefs" /\ o \in old_objects_pointing_to_young
        /\ track' = track \cup {o}
        /\ TraceAndDragOut(o, Slots(o), pointing, old_objects_with_cards_set)
        /\ UNCHANGED <<phase, root, weak, cardsset, cards, noheap, prebuilt_root_objects,
                       objects_to_trace, young_objects_with_weakrefs,
                       old_objects_with_weakrefs, recent_mallocs>>
    BY DEF collect_oldrefs_to_nursery, prebuilts, weakrefs
  <1>3. \A s \in Slots(o) : slots[o][s] \in P
    OBVIOUS
  <1>4. Stays(o)
    BY <1>2 DEF IInv, Tracked
  <1>5. DragOut(P, pointing, old_objects_with_cards_set)
    BY <1>2 DEF TraceAndDragOut
  <1>6. \A u : u \in pointing <=> u \in old_objects_pointing_to_young /\ u # o
    OBVIOUS
  <1>7. \A p \in P : p \in Ptr /\ Whole(p)
    BY DEF IInv, TypeOK, Pointers
  <1> HIDE DEF P, pointing
  <1>8. \A u \in Obj : \A s \in Slots(u) :
           slots'[u][s] = IF u = o THEN Forwarded(slots[o][s]) ELSE slots[u][s]
    BY <1>1, <1>2, TraceTyped
  <1>9. DragStep(P, pointing, old_objects_with_cards_set)
    <2>1. \A u \in Obj : \A s \in Slots(u) :
            \/ slots'[u][s] = slots[u][s]
            \/ slots[u][s] \in P /\ slots'[u][s] = Forwarded(slots[u][s])
      BY <1>3, <1>8
    <2>2. recent_mallocs' = {}
      BY <1>2 DEF IInv, Fresh
    <2> QED BY <1>2, <1>5, <1>7, <2>1, <2>2 DEF DragStep, prebuilts, weakrefs
  <1>10. Remembering(P, pointing, old_objects_with_cards_set)
    <2>1. ASSUME NEW u \in Obj
          PROVE  /\ u \in pointing => u \notin track' /\ Stays(u)
                 /\ Stays(u) => u \in track' \cup pointing
                 /\ u \in track => u \in track'
                 /\ u \in track' => u \in track \/ Stays(u)
      BY <1>2, <1>4, <1>6 DEF IInv, Tracked
    <2>2. ASSUME NEW u \in Obj
          PROVE  /\ u \in old_objects_with_cards_set => Stays(u) /\ u \in cardsset'
                 /\ u \in cardsset' =>
                       u \in cardsset /\ (Stays(u) => u \in old_objects_with_cards_set)
      BY <1>2 DEF IInv, CardFlags
    <2>3. ASSUME NEW u \in Obj, NEW s \in Slots(u), SlotRemembered(u, s)
          PROVE  \/ u \in pointing
                 \/ u \in old_objects_with_cards_set \cap track' /\ <<u, Card(s)>> \in cards'
                 \/ slots[u][s] \in P /\ slots'[u][s] = Forwarded(slots[u][s])
      BY <2>3, <1>2, <1>3, <1>6, <1>8 DEF SlotRemembered
    <2>4. \A c \in cards' : c[1] \in cardsset'
      BY <1>2 DEF IInv, CardFlags
    <2> QED BY <1>2, <2>1, <2>2, <2>3, <2>4 DEF Remembering
  <1>11. \A r \in Root : Whole(root[r])' /\ Done(root[r])'
    BY <1>2, <1>9, DragRoots
  <1> QED BY <1>1, <1>9, <1>10, <1>11, DragInv

LEMMA LoopInv == ASSUME IInv, minor_loop PROVE IInv'
  <1> USE DEF IInv
  <1>u. /\ phase \in {"cards", "oldrefs"} /\ phase' \in {"cards", "oldrefs"}
        /\ UNCHANGED <<root, slots, weak, where, noheap, prebuilt_root_objects, visited,
                       objects_to_trace, young_objects_with_weakrefs,
                       old_objects_with_weakrefs, recent_mallocs,
                       old_objects_pointing_to_young, old_objects_with_cards_set, track,
                       cardsset, cards>>
    BY DEF minor_loop, pointers, remembered, prebuilts, marking, weakrefs
  <1>1. TypeOK'
    BY <1>u DEF TypeOK
  <1>2. Places' /\ Tracked' /\ CardFlags' /\ Fresh'
    BY <1>u DEF Places, Tracked, CardFlags, Stays, Fresh
  <1>3. Prebuilts'
    BY <1>u DEF Prebuilts, NoHeapPtrs, Ptrs, Targets
  <1>4. Pointers'
    BY <1>u DEF Pointers, Whole, Done, Stays
  <1>5. Barrier'
    BY <1>u DEF Barrier, Done, Stays, SlotRemembered
  <1>6. Weakrefs' /\ Marking'
    BY <1>u DEF Weakrefs, Marking, Whole
  <1> QED BY <1>1, <1>2, <1>3, <1>4, <1>5, <1>6

(* The end of a collection, in which the objects that are dead are not     *)
(* referred to by the others.                                              *)
SweepStep(dead) ==
    /\ phase \in {"oldrefs", "mark"} /\ phase' \in {"run", "major"}
    /\ old_objects_pointing_to_young = {} /\ old_objects_with_cards_set = {}
    /\ \A o \in Obj : where'[o] = IF o \in dead THEN "free"
                                  ELSE IF where[o] = "young" THEN "old" ELSE where[o]
    /\ Freed(dead) /\ track' = track \ dead
    /\ visited' = {} /\ objects_to_trace' = {} /\ recent_mallocs' = {}
    /\ \A o \in dead : where[o] # "prebuilt"
    /\ \A o \in Obj \ dead :
          where[o] # "free" => Stays(o) /\ \A s \in Slots(o) : slots[o][s].to \notin dead
    /\ \A r \in Root : root[r].to \notin dead
    /\ UNCHANGED <<root, prebuilts, old_objects_pointing_to_young,
                   old_objects_with_cards_set>>

LEMMA SweepInv ==
    ASSUME IInv, TypeOK', NEW dead \in SUBSET Obj, SweepStep(dead), Weakrefs' PROVE IInv'
  <1> USE DEF IInv
  <1>u. /\ phase \in {"oldrefs", "mark"} /\ phase' \in {"run", "major"}
        /\ old_objects_pointing_to_young = {} /\ old_objects_with_cards_set = {}
        /\ \A o \in Obj : where'[o] = IF o \in dead THEN "free"
                                      ELSE IF where[o] = "young" THEN "old" ELSE where[o]
        /\ track' = track \ dead
        /\ visited' = {} /\ objects_to_trace' = {} /\ recent_mallocs' = {}
        /\ \A o \in dead : where[o] # "prebuilt"
        /\ \A o \in Obj \ dead :
              where[o] # "free" => Stays(o) /\ \A s \in Slots(o) : slots[o][s].to \notin dead
        /\ \A r \in Root : root[r].to \notin dead
        /\ UNCHANGED <<root, noheap, prebuilt_root_objects, old_objects_pointing_to_young,
                       old_objects_with_cards_set>>
    BY DEF SweepStep, prebuilts
  <1>d. /\ slots' = [o \in Obj |-> IF o \in dead THEN Cleared(o) ELSE slots[o]]
        /\ cards' = {c \in cards : c[1] \notin dead}
        /\ cardsset' = cardsset \ dead
    BY DEF SweepStep, Freed
  <1>w. \A o \in Obj : /\ where[o] \in {"free", "nursery", "young", "old", "prebuilt"}
                       /\ where'[o] \in {"free", "old", "prebuilt"}
                       /\ where'[o] # "free" <=> o \notin dead /\ where[o] # "free"
                       /\ where'[o] # "free" => Stays(o)
                       /\ Stays(o)' <=> where'[o] # "free"
                       /\ where'[o] = "prebuilt" <=> where[o] = "prebuilt"
    <2> SUFFICES ASSUME NEW o \in Obj
          PROVE  /\ where[o] \in {"free", "nursery", "young", "old", "prebuilt"}
                 /\ where'[o] \in {"free", "old", "prebuilt"}
                 /\ where'[o] # "free" <=> o \notin dead /\ where[o] # "free"
                 /\ where'[o] # "free" => Stays(o)
                 /\ Stays(o)' <=> where'[o] # "free"
                 /\ where'[o] = "prebuilt" <=> where[o] = "prebuilt"
      OBVIOUS
    <2>1. where[o] \in {"free", "nursery", "young", "old", "prebuilt"}
      BY DEF TypeOK
    <2>2. where'[o] # "free" => Stays(o)
      BY <1>u
    <2>3. where'[o] \in {"free", "old", "prebuilt"}
      BY <1>u, <2>1, <2>2 DEF Stays
    <2>4. Stays(o)' <=> where'[o] # "free"
      BY <1>u, <2>3 DEF Stays
    <2> QED BY <1>u, <2>1, <2>2, <2>3, <2>4
  <1>c. cardsset' = {} /\ cards' = {}
    <2>1. \A o \in cardsset : o \in Obj /\ where[o] \in {"young", "old"} /\ ~Stays(o)
      BY <1>u, HeapConstants DEF CardFlags, TypeOK, Cards
    <2>2. \A o \in cardsset : o \in dead
      BY <1>u, <2>1
    <2>3. \A c \in cards : c[1] \in cardsset
      BY DEF CardFlags
    <2> QED BY <1>d, <2>2, <2>3
  <1>s. \A o \in Obj : \A s \in Slots(o) :
          slots'[o][s] = IF o \in dead THEN NULL ELSE slots[o][s]
    BY <1>d DEF Cleared
  <1>p. ASSUME NEW p \in Ptr, Done(p), p.to \notin dead PROVE Whole(p)' /\ Done(p)'
    <2>1. CASE p = NULL
      BY <2>1 DEF Whole, Done
    <2>2. CASE p # NULL
      <3>1. p.to \in Obj /\ p.in = "outside" /\ Stays(p.to)
        BY <2>2, <1>p, PtrForms DEF Done
      <3>2. where'[p.to] \in {"old", "prebuilt"}
        BY <3>1, <1>p, <1>w DEF Stays
      <3> QED BY <3>1, <3>2 DEF Whole, Done, Stays
    <2> QED BY <2>1, <2>2
  <1>q. \A o \in Obj : \A s \in Slots(o) : Whole(slots[o][s])' /\ Done(slots[o][s])'
    <2> SUFFICES ASSUME NEW o \in Obj, NEW s \in Slots(o)
                 PROVE  Whole(slots[o][s])' /\ Done(slots[o][s])'
      OBVIOUS
    <2>1. CASE slots'[o][s] = NULL
      BY <2>1 DEF Whole, Done
    <2>2. CASE slots'[o][s] # NULL
      <3> DEFINE p == slots[o][s]
      <3>1. o \notin dead /\ where[o] # "free" /\ p' = p
        BY <2>2, <1>s DEF Pointers
      <3>2. Stays(o) /\ p.to \notin dead
        BY <3>1, <1>u
      <3>3. p \in Ptr /\ Done(p)
        <4>1. slots[o][s] \in Ptr
          BY DEF TypeOK
        <4>2. ~SlotRemembered(o, s)
          BY <1>u DEF SlotRemembered
        <4>3. Done(slots[o][s])
          BY <3>2, <4>2 DEF Barrier
        <4> QED BY <4>1, <4>3
      <3> HIDE DEF p
      <3>4. PICK x \in Ptr : x = p
        BY <3>3
      <3>5. Whole(x)' /\ Done(x)'
        BY <3>2, <3>3, <3>4, <1>p
      <3>6. Whole(p)' /\ Done(p)'
        BY <3>1, <3>4, <3>5 DEF Whole, Done
      <3> QED BY <3>6 DEF p
    <2> QED BY <2>1, <2>2
  <1>1. Places' /\ Fresh'
    BY <1>u, <1>w DEF Places, Fresh
  <1>2. Tracked'
    BY <1>u, <1>w DEF Tracked
  <1>3. CardFlags'
    BY <1>u, <1>w, <1>c DEF CardFlags
  <1>4. Prebuilts'
    <2>1. \A o \in noheap : o \in Obj /\ o \in Prebuilt /\ where[o] = "prebuilt"
      BY HeapConstants DEF TypeOK, Places
    <2>2. \A o \in noheap : o \in Obj /\ o \notin dead
      BY <2>1, <1>u
    <2>3. noheap' \subseteq track'
      BY <2>2, <1>u DEF Prebuilts
    <2> QED BY <2>2, <2>3, <1>s, <1>u DEF Prebuilts, NoHeapPtrs, Targets, Ptrs
  <1>5. Pointers'
    <2>1. ASSUME NEW r \in Root PROVE Whole(root[r])' /\ Done(root[r])'
      <3> DEFINE p == root[r]
      <3>1. p \in Ptr /\ Done(p) /\ p' = p /\ p.to \notin dead
        BY <1>u DEF TypeOK, Pointers
      <3> HIDE DEF p
      <3>2. PICK x \in Ptr : x = p
        BY <3>1
      <3>3. Whole(x)' /\ Done(x)'
        BY <3>1, <3>2, <1>p
      <3>4. Whole(p)' /\ Done(p)'
        BY <3>1, <3>2, <3>3 DEF Whole, Done
      <3> QED BY <3>4 DEF p
    <2>2. \A o \in Obj : \A s \in Slots(o) : where'[o] = "free" => slots'[o][s] = NULL
      BY <1>s, <1>w DEF Pointers
    <2> QED BY <2>1, <2>2, <1>q DEF Pointers
  <1>6. Barrier'
    BY <1>q DEF Barrier
  <1>7. Marking'
    BY <1>u DEF Marking
  <1> QED BY <1>1, <1>2, <1>3, <1>4, <1>5, <1>6, <1>7

(* The end of a minor collection, with its definitions at hand.            *)
LEMMA MinorEndFacts ==
    ASSUME IInv, minor_end
    PROVE  \E dead \in SUBSET Obj :
              /\ \A o \in Obj : o \in dead <=>
                       where[o] = "nursery" \/ (where[o] = "young" /\ o \notin visited)
              /\ \A o \in Obj : Stays(o) <=> o \notin dead /\ where[o] # "free"
              /\ SweepStep(dead)
              /\ weak' = [o \in Weak |->
                    IF o \in young_objects_with_weakrefs /\ where[o] = "old" /\ WeakKept(weak[o])
                      THEN Forwarded(weak[o])
                    ELSE IF (o \in young_objects_with_weakrefs /\ where[o] = "old") \/ o \in dead
                      THEN NULL ELSE weak[o]]
              /\ young_objects_with_weakrefs' = {}
              /\ \A o : o \in old_objects_with_weakrefs' <=>
                    \/ o \in old_objects_with_weakrefs
                    \/ /\ o \in young_objects_with_weakrefs /\ where[o] = "old"
                       /\ WeakRegistered(weak[o])
  <1> USE DEF IInv
  <1> DEFINE alive == {o \in young_objects_with_weakrefs : where[o] = "old"}
             kept == {o \in alive : WeakKept(weak[o])}
             dead == {o \in Obj : where[o] = "nursery" \/ (where[o] = "young" /\ o \notin visited)}
  <1>1. /\ phase = "oldrefs" /\ Finished
        /\ phase' \in {"run", "major"}
        /\ weak' = [o \in Weak |-> IF o \in kept THEN Forwarded(weak[o])
                                   ELSE IF o \in alive \cup dead THEN NULL ELSE weak[o]]
        /\ young_objects_with_weakrefs' = {}
        /\ old_objects_with_weakrefs' =
              old_objects_with_weakrefs \cup {o \in alive : WeakRegistered(weak[o])}
        /\ where' = [o \in Obj |-> IF o \in dead THEN "free"
                                   ELSE IF where[o] = "young" THEN "old" ELSE where[o]]
        /\ visited' = {o \in visited : where[o] # "young"}
        /\ track' = track \ dead
        /\ Freed(dead)
        /\ UNCHANGED <<root, prebuilts, old_objects_pointing_to_young,
                       old_objects_with_cards_set, objects_to_trace, recent_mallocs>>
    BY DEF minor_end
  <1>2. \A o \in Obj : o \in dead <=>
            where[o] = "nursery" \/ (where[o] = "young" /\ o \notin visited)
    OBVIOUS
  <1>3. \A o : /\ o \in alive <=> o \in young_objects_with_weakrefs /\ where[o] = "old"
               /\ o \in kept <=> /\ o \in young_objects_with_weakrefs /\ where[o] = "old"
                                 /\ WeakKept(weak[o])
    OBVIOUS
  <1>4. dead \in SUBSET Obj
    OBVIOUS
  <1> HIDE DEF dead
  <1>5. \A o \in Obj : Stays(o) <=> o \notin dead /\ where[o] # "free"
    BY <1>2 DEF Stays, TypeOK
  <1>6. ASSUME NEW p \in Ptr, Done(p) PROVE p.to \notin dead
    <2>1. p = NULL => p.to \notin dead
      BY <1>4, PtrForms, HeapConstants
    <2>2. p # NULL => p.to \in Obj /\ Stays(p.to)
      BY <1>6, PtrForms DEF Done
    <2> QED BY <2>1, <2>2, <1>5
  <1>7. SweepStep(dead)
    <2>1. visited' = {} /\ objects_to_trace' = {} /\ recent_mallocs' = {}
      BY <1>1 DEF Marking, Fresh
    <2>2. \A o \in dead : where[o] # "prebuilt"
      BY <1>2, <1>4
    <2>3. ASSUME NEW o \in Obj \ dead, where[o] # "free"
          PROVE  Stays(o) /\ \A s \in Slots(o) : slots[o][s].to \notin dead
      <3>1. Stays(o)
        BY <2>3, <1>5
      <3>2. ASSUME NEW s \in Slots(o) PROVE slots[o][s].to \notin dead
        <4>1. slots[o][s] \in Ptr
          BY DEF TypeOK
        <4>2. ~SlotRemembered(o, s)
          BY <1>1 DEF SlotRemembered, Finished
        <4>3. Done(slots[o][s])
          BY <3>1, <4>2 DEF Barrier
        <4> QED BY <4>1, <4>3, <1>6
      <3> QED BY <3>1, <3>2
    <2>4. ASSUME NEW r \in Root PROVE root[r].to \notin dead
      <3>1. root[r] \in Ptr /\ Done(root[r])
        BY <1>1 DEF TypeOK, Pointers
      <3> QED BY <3>1, <1>6
    <2> HIDE DEF alive, kept
    <2>5. \A o \in Obj : where'[o] = IF o \in dead THEN "free"
                                     ELSE IF where[o] = "young" THEN "old" ELSE where[o]
      BY <1>1
    <2> QED BY <1>1, <2>1, <2>2, <2>3, <2>4, <2>5 DEF SweepStep, Finished
  <1> HIDE DEF alive, kept
  <1>8. weak' = [o \in Weak |->
                    IF o \in young_objects_with_weakrefs /\ where[o] = "old" /\ WeakKept(weak[o])
                      THEN Forwarded(weak[o])
                    ELSE IF (o \in young_objects_with_weakrefs /\ where[o] = "old") \/ o \in dead
                      THEN NULL ELSE weak[o]]
    BY <1>1, <1>3
  <1>9. \A o : o \in old_objects_with_weakrefs' <=>
                    \/ o \in old_objects_with_weakrefs
                    \/ /\ o \in young_objects_with_weakrefs /\ where[o] = "old"
                       /\ WeakRegistered(weak[o])
    BY <1>1, <1>3
  <1> QED BY <1>1, <1>2, <1>4, <1>5, <1>7, <1>8, <1>9

LEMMA MinorEndInv == ASSUME IInv, minor_end PROVE IInv'
  <1> USE DEF IInv
  <1>t. TypeOK'
    BY CollectTyped DEF Collect
  <1>1. PICK dead \in SUBSET Obj :
              /\ \A o \in Obj : o \in dead <=>
                       where[o] = "nursery" \/ (where[o] = "young" /\ o \notin visited)
              /\ \A o \in Obj : Stays(o) <=> o \notin dead /\ where[o] # "free"
              /\ SweepStep(dead)
              /\ weak' = [o \in Weak |->
                    IF o \in young_objects_with_weakrefs /\ where[o] = "old" /\ WeakKept(weak[o])
                      THEN Forwarded(weak[o])
                    ELSE IF (o \in young_objects_with_weakrefs /\ where[o] = "old") \/ o \in dead
                      THEN NULL ELSE weak[o]]
              /\ young_objects_with_weakrefs' = {}
              /\ \A o : o \in old_objects_with_weakrefs' <=>
                    \/ o \in old_objects_with_weakrefs
                    \/ /\ o \in young_objects_with_weakrefs /\ where[o] = "old"
                       /\ WeakRegistered(weak[o])
    BY MinorEndFacts
  <1>2. /\ phase = "oldrefs"
        /\ \A o \in Obj : where'[o] = IF o \in dead THEN "free"
                                      ELSE IF where[o] = "young" THEN "old" ELSE where[o]
        /\ UNCHANGED noheap
    BY <1>1 DEF SweepStep, minor_end, prebuilts
  <1>3. Weakrefs'
    <2> SUFFICES ASSUME NEW u \in Weak
          PROVE  /\ where'[u] = "free" => weak'[u] = NULL
                 /\ where'[u] # "nursery"
                 /\ where'[u] = "old" =>
                      \/ weak'[u] = NULL
                      \/ /\ weak'[u].in = "outside"
                         /\ \/ where'[weak'[u].to] = "prebuilt"
                            \/ where'[weak'[u].to] = "old" /\ u \in old_objects_with_weakrefs'
                 /\ u \in old_objects_with_weakrefs' =>
                      where'[u] = "old" /\ weak'[u] # NULL /\ weak'[u].to \notin noheap'
      BY <1>1 DEF Weakrefs
    <2>1. u \in Obj /\ weak[u] \in Ptr /\ where[u] \in {"free", "nursery", "old"}
      BY HeapConstants DEF TypeOK, Places
    <2>2. u \in dead <=> where[u] = "nursery"
      BY <1>1, <2>1
    <2>3. where'[u] # "nursery" /\ (where'[u] = "old" <=> where[u] = "old")
      BY <1>2, <2>1, <2>2
    <2>4. where'[u] = "free" => weak'[u] = NULL
      BY <1>1, <1>2, <2>1, <2>2 DEF Weakrefs
    <2>5. CASE u \in young_objects_with_weakrefs /\ where[u] = "old" /\ WeakKept(weak[u])
      <3> DEFINE p == weak[u]
                 f == weak'[u]
      <3>1. f = Forwarded(p) /\ p \in Ptr /\ Whole(p) /\ p # NULL /\ WeakKept(p)
        BY <1>1, <2>1, <2>5 DEF Weakrefs
      <3>2. u \in old_objects_with_weakrefs' <=> WeakRegistered(p)
        BY <1>1, <2>5 DEF Weakrefs
      <3> HIDE DEF p, f
      <3>3. p.to \in Obj /\ f # NULL /\ f.in = "outside" /\ f.to = p.to
            /\ p.in \in {"nursery", "outside"}
        BY <3>1, PtrForms
      <3>4. Stays(p.to)
        BY <3>1, <3>3 DEF WeakKept, Whole, Stays, TypeOK
      <3>5. where'[p.to] \in {"old", "prebuilt"}
        BY <1>1, <1>2, <3>3, <3>4 DEF Stays
      <3>6. where'[p.to] = "old" => p.to \notin noheap
        <4>1. p.to \in noheap => p.to \in Prebuilt
          BY DEF TypeOK
        <4>2. p.to \in Prebuilt => where[p.to] = "prebuilt"
          BY <3>3 DEF Places
        <4> QED BY <1>1, <1>2, <3>3, <3>4, <4>1, <4>2
      <3>7. WeakRegistered(p) <=> p.to \notin noheap
        BY <3>1 DEF WeakRegistered
      <3> QED BY <1>2, <2>3, <2>4, <2>5, <3>2, <3>3, <3>5, <3>6, <3>7 DEF f
    <2>6. CASE u \in young_objects_with_weakrefs /\ where[u] = "old" /\ ~WeakKept(weak[u])
      <3>1. weak'[u] = NULL
        BY <1>1, <2>6
      <3>2. u \notin old_objects_with_weakrefs'
        BY <1>1, <2>6 DEF Weakrefs, WeakRegistered
      <3> QED BY <2>3, <2>4, <3>1, <3>2
    <2>7. CASE u \notin young_objects_with_weakrefs /\ where[u] = "old"
      <3>1. weak'[u] = weak[u]
            /\ (u \in old_objects_with_weakrefs' <=> u \in old_objects_with_weakrefs)
        BY <1>1, <2>2, <2>7
      <3>2. weak[u] # NULL => weak[u].to \in Obj
        BY <2>1, PtrForms
      <3>3. \A t \in Obj : where[t] \in {"old", "prebuilt"} => where'[t] = where[t]
        BY <1>1, <1>2
      <3> QED BY <1>2, <2>3, <2>4, <2>7, <3>1, <3>2, <3>3 DEF Weakrefs
    <2>8. CASE where[u] # "old"
      <3>1. u \notin old_objects_with_weakrefs'
        BY <1>1, <2>8 DEF Weakrefs
      <3> QED BY <2>3, <2>4, <2>8, <3>1
    <2> QED BY <2>5, <2>6, <2>7, <2>8
  <1> QED BY <1>t, <1>1, <1>3, SweepInv

-----------------------------------------------------------------------------
(* What can be reached                                                     *)

LEMMA HeapTargets ==
    ASSUME TypeOK
    PROVE  /\ H!Held = Targets(RootPtrs) \cup Prebuilt
           /\ \A o \in Obj : H!Slots(o) = Slots(o) /\ H!Targets(o) = Targets(Ptrs(o))
           /\ Targets(RootPtrs) \cup Prebuilt \subseteq Obj
           /\ \A o \in Obj : Targets(Ptrs(o)) \subseteq Obj
  <1>1. \A o \in Obj : H!Slots(o) = Slots(o)
    BY DEF H!Slots, Slots, H!Field, Field
  <1>2. \A r \in Root : To(root)[r] = root[r].to
    BY DEF To, TypeOK
  <1>3. H!Held = Targets(RootPtrs) \cup Prebuilt
    BY <1>2 DEF H!Held, Targets, RootPtrs
  <1>4. ASSUME NEW o \in Obj PROVE H!Targets(o) = Targets(Ptrs(o))
    <2>1. \A s \in Slots(o) : To(slots[o])[s] = slots[o][s].to
      BY DEF To, TypeOK
    <2> QED BY <1>1, <2>1 DEF H!Targets, Targets, Ptrs
  <1>5. Targets(RootPtrs) \cup Prebuilt \subseteq Obj
    BY PtrForms, HeapConstants DEF TypeOK, Targets, RootPtrs
  <1>6. \A o \in Obj : Targets(Ptrs(o)) \subseteq Obj
    BY PtrForms DEF TypeOK, Targets, Ptrs
  <1> QED BY <1>1, <1>3, <1>4, <1>5, <1>6

(* The roots are reachable, and what a reachable object points to.         *)
LEMMA Reached ==
    ASSUME TypeOK
    PROVE  /\ Targets(RootPtrs) \cup Prebuilt \subseteq H!Reachable
           /\ \A o \in H!Reachable : Targets(Ptrs(o)) \subseteq H!Reachable
  <1>1. Targets(RootPtrs) \cup Prebuilt \subseteq H!Reachable
    BY HeapTargets DEF H!Reachable
  <1>2. ASSUME NEW o \in H!Reachable, NEW t \in Targets(Ptrs(o)) PROVE t \in H!Reachable
    <2>1. o \in Obj
      BY DEF H!Reachable
    <2>2. t \in Obj /\ t \in H!Targets(o)
      BY <2>1, HeapTargets
    <2>3. ASSUME NEW S \in SUBSET Obj, H!Held \subseteq S, H!Closed(S) PROVE t \in S
      <3>1. o \in S
        BY <2>3 DEF H!Reachable
      <3> QED BY <3>1, <2>2, <2>3 DEF H!Closed
    <2> QED BY <2>2, <2>3 DEF H!Reachable
  <1> QED BY <1>1, <1>2

(* Nothing outside of a closed set that has the roots is reachable.        *)
LEMMA NotReached ==
    ASSUME TypeOK, NEW S \in SUBSET Obj, Targets(RootPtrs) \cup Prebuilt \subseteq S,
           \A o \in S : Targets(Ptrs(o)) \subseteq S
    PROVE  H!Reachable \subseteq S
  <1>1. H!Held \subseteq S /\ H!Closed(S)
    BY HeapTargets DEF H!Closed
  <1> QED BY <1>1 DEF H!Reachable

-----------------------------------------------------------------------------
(* A major collection keeps the invariant                                  *)

(* Which of the objects are marked does not change what is reachable.      *)
LEMMA SameReachable ==
    ASSUME UNCHANGED <<root, slots>> PROVE H!Reachable' = H!Reachable
  BY DEF H!Reachable, H!Held, H!Closed, H!Targets, H!Slots, H!Field, To

(* What is unchanged while objects are marked.                             *)
LEMMA MarkingStep ==
    ASSUME IInv, TypeOK', phase \in {"major", "mark"}, phase' = "mark",
           UNCHANGED <<pointers, where, remembered, prebuilts, weakrefs, recent_mallocs>>,
           Marking'
    PROVE  IInv'
  <1> USE DEF IInv
  <1>u. UNCHANGED <<root, slots, weak, where, noheap, prebuilt_root_objects,
                    young_objects_with_weakrefs, old_objects_with_weakrefs, recent_mallocs,
                    old_objects_pointing_to_young, old_objects_with_cards_set, track,
                    cardsset, cards>>
    BY DEF pointers, remembered, prebuilts, weakrefs
  <1>w. \A o \in Obj : where[o] \in {"free", "old", "prebuilt"}
    BY DEF Places
  <1>s. \A o \in Obj : Stays(o)' <=> Stays(o)
    BY <1>u, <1>w DEF Stays
  <1>d. ASSUME NEW p \in Ptr PROVE (Whole(p) => Whole(p)') /\ (Done(p) => Done(p)')
    <2>1. p = NULL \/ p.to \in Obj
      BY PtrForms
    <2> QED BY <2>1, <1>u, <1>s DEF Whole, Done
  <1>1. Places' /\ Fresh'
    BY <1>u, <1>w DEF Places, Fresh
  <1>2. Tracked'
    BY <1>u, <1>w, <1>s DEF Tracked
  <1>3. CardFlags'
    BY <1>u, <1>w, <1>s DEF CardFlags
  <1>4. Prebuilts'
    BY <1>u DEF Prebuilts, NoHeapPtrs, Ptrs, Targets
  <1>5. Pointers'
    <2>1. ASSUME NEW r \in Root PROVE Whole(root[r])' /\ Done(root[r])'
      <3> DEFINE p == root[r]
      <3>1. p \in Ptr /\ Whole(p) /\ Done(p) /\ p' = p
        BY <1>u DEF TypeOK, Pointers
      <3> HIDE DEF p, IInv
      <3>2. PICK x \in Ptr : x = p
        BY <3>1
      <3>3. Whole(x)' /\ Done(x)'
        BY <3>1, <3>2, <1>d
      <3>4. Whole(p)' /\ Done(p)'
        BY <3>1, <3>2, <3>3 DEF Whole, Done
      <3> QED BY <3>4 DEF p
    <2>2. ASSUME NEW o \in Obj, NEW s \in Slots(o) PROVE Whole(slots[o][s])'
      <3> DEFINE p == slots[o][s]
      <3>1. p \in Ptr /\ Whole(p) /\ p' = p
        BY <1>u DEF TypeOK, Pointers
      <3> HIDE DEF p, IInv
      <3>2. PICK x \in Ptr : x = p
        BY <3>1
      <3>3. Whole(x)'
        BY <3>1, <3>2, <1>d
      <3>4. Whole(p)'
        BY <3>1, <3>2, <3>3 DEF Whole
      <3> QED BY <3>4 DEF p
    <2> QED BY <2>1, <2>2, <1>u DEF Pointers
  <1>6. Barrier'
    <2> SUFFICES ASSUME NEW o \in Obj, NEW s \in Slots(o)
                 PROVE  \/ Done(slots[o][s])'
                        \/ Stays(o)' => SlotRemembered(o, s)'
      BY <1>u, <1>w DEF Barrier
    <2> DEFINE p == slots[o][s]
    <2>1. p \in Ptr /\ p' = p
      BY <1>u DEF TypeOK
    <2>2. Done(p) \/ (Stays(o) => SlotRemembered(o, s))
      BY DEF Barrier
    <2>3. SlotRemembered(o, s)' <=> SlotRemembered(o, s)
      BY <1>u DEF SlotRemembered
    <2> HIDE DEF p, IInv
    <2>4. PICK x \in Ptr : x = p
      BY <2>1
    <2>5. Done(x) => Done(x)'
      BY <1>d
    <2>6. Done(p) => Done(p)'
      BY <2>1, <2>4, <2>5 DEF Done
    <2> QED BY <2>2, <2>3, <2>6, <1>s DEF p
  <1>7. Weakrefs'
    <2>1. young_objects_with_weakrefs = {}
      BY DEF Weakrefs, TypeOK
    <2>2. \A o \in Weak : where[o] # "nursery"
      BY <1>w, HeapConstants
    <2> QED BY <2>1, <2>2, <1>u DEF Weakrefs
  <1> QED BY <1>1, <1>2, <1>3, <1>4, <1>5, <1>6, <1>7

(* No pointer of a root, nor of an object that exists, is to a free object.*)
LEMMA TargetsExist ==
    ASSUME IInv
    PROVE  /\ \A t \in Targets(RootPtrs) : t \in Obj /\ where[t] # "free"
           /\ \A o \in Obj : \A t \in Targets(Ptrs(o)) : t \in Obj /\ where[t] # "free"
  <1>1. ASSUME NEW p \in Ptr, Whole(p), p.to # NoObj PROVE p.to \in Obj /\ where[p.to] # "free"
    BY <1>1, PtrForms DEF Whole
  <1>2. \A p \in RootPtrs : p \in Ptr /\ Whole(p)
    BY DEF IInv, TypeOK, Pointers, RootPtrs
  <1>3. \A o \in Obj : \A p \in Ptrs(o) : p \in Ptr /\ Whole(p)
    BY DEF IInv, TypeOK, Pointers, Ptrs
  <1> HIDE DEF IInv
  <1> QED BY <1>1, <1>2, <1>3 DEF Targets

LEMMA MarkStartInv == ASSUME IInv, major_collection PROVE IInv'
  <1> USE DEF IInv
  <1>1. TypeOK'
    BY CollectTyped DEF Collect
  <1>2. /\ phase = "major" /\ phase' = "mark"
        /\ objects_to_trace' = prebuilt_root_objects \cup Targets(RootPtrs)
        /\ UNCHANGED <<root, slots, where, noheap, prebuilt_root_objects, visited>>
        /\ UNCHANGED <<pointers, where, remembered, prebuilts, weakrefs, recent_mallocs>>
    BY DEF major_collection, pointers, prebuilts
  <1>3. visited = {} /\ visited' = {}
    BY <1>2 DEF Marking
  <1>4. prebuilt_root_objects \subseteq Prebuilt
        /\ \A o \in Prebuilt : o \in Obj /\ where[o] = "prebuilt"
    BY HeapConstants DEF TypeOK, Places
  <1>5. objects_to_trace' \subseteq H!Reachable'
    BY <1>2, <1>4, Reached, SameReachable
  <1>6. \A o \in objects_to_trace' : where[o] # "free"
    BY <1>2, <1>4, TargetsExist
  <1>7. Targets(RootPtrs)' = Targets(RootPtrs)
    BY <1>2 DEF Targets, RootPtrs
  <1>8. Marking'
    BY <1>2, <1>3, <1>5, <1>6, <1>7 DEF Marking
  <1> QED BY <1>1, <1>2, <1>8, MarkingStep

LEMMA VisitInv == ASSUME IInv, NEW o \in Obj, visit(o) PROVE IInv'
  <1> USE DEF IInv
  <1>1. TypeOK'
    BY CollectTyped DEF Collect
  <1>2. /\ phase = "mark" /\ phase' = "mark" /\ o \in objects_to_trace
        /\ UNCHANGED <<root, slots, where, noheap, prebuilt_root_objects>>
        /\ UNCHANGED <<pointers, where, remembered, prebuilts, weakrefs, recent_mallocs>>
    BY DEF visit, pointers, prebuilts
  <1>m. /\ \A u \in visited : where[u] # "free" /\ u \notin noheap
        /\ \A u \in objects_to_trace : where[u] # "free"
        /\ prebuilt_root_objects \subseteq visited \cup objects_to_trace
        /\ Targets(RootPtrs) \subseteq visited \cup objects_to_trace \cup noheap
        /\ \A u \in visited :
              Targets(Ptrs(u)) \subseteq visited \cup objects_to_trace \cup noheap
        /\ visited \cup objects_to_trace \subseteq H!Reachable
    BY <1>2 DEF Marking
  <1>s. /\ Targets(RootPtrs)' = Targets(RootPtrs)
        /\ \A u : Targets(Ptrs(u))' = Targets(Ptrs(u))
        /\ H!Reachable' = H!Reachable
    BY <1>2, SameReachable DEF Targets, RootPtrs, Ptrs
  <1>3. Marking'
    <2>1. CASE o \in visited \cup noheap
      <3>1. objects_to_trace' = objects_to_trace \ {o} /\ visited' = visited
        BY <2>1 DEF visit
      <3>2. o \in noheap => o \notin prebuilt_root_objects
        BY DEF Prebuilts, NoHeapPtrs
      <3> QED BY <2>1, <3>1, <3>2, <1>2, <1>m, <1>s DEF Marking
    <2>2. CASE o \notin visited \cup noheap
      <3>1. /\ visited' = visited \cup {o}
            /\ objects_to_trace' = (objects_to_trace \ {o}) \cup Targets(Ptrs(o))
        BY <2>2 DEF visit
      <3>2. \A t \in Targets(Ptrs(o)) : where[t] # "free" /\ t \in H!Reachable
        BY <1>2, <1>m, TargetsExist, Reached
      <3>3. /\ \A u \in visited' : where'[u] # "free" /\ u \notin noheap'
            /\ \A u \in objects_to_trace' : where'[u] # "free"
            /\ prebuilt_root_objects' \subseteq visited' \cup objects_to_trace'
            /\ Targets(RootPtrs) \subseteq visited' \cup objects_to_trace' \cup noheap'
            /\ \A u \in visited' :
                  Targets(Ptrs(u)) \subseteq visited' \cup objects_to_trace' \cup noheap'
            /\ visited' \cup objects_to_trace' \subseteq H!Reachable
        BY <2>2, <3>1, <3>2, <1>2, <1>m
      <3> QED BY <3>3, <1>2, <1>s DEF Marking
    <2> QED BY <2>1, <2>2
  <1> QED BY <1>1, <1>2, <1>3, MarkingStep

(* When nothing is left to trace, what was visited, and the prebuilt       *)
(* objects, are a closed set that has the roots.                           *)
LEMMA AllMarked ==
    ASSUME IInv, phase = "mark", objects_to_trace = {}
    PROVE  /\ Targets(RootPtrs) \subseteq visited \cup Prebuilt
           /\ \A o \in visited \cup Prebuilt : Targets(Ptrs(o)) \subseteq visited \cup Prebuilt
           /\ visited \subseteq H!Reachable /\ visited \cap noheap = {}
           /\ prebuilt_root_objects \subseteq visited
  <1> USE DEF IInv
  <1>1. noheap \subseteq Prebuilt
    BY DEF TypeOK
  <1>2. \A o \in Prebuilt : o \in noheap \/ o \in visited
    BY DEF Prebuilts, NoHeapPtrs, Marking
  <1>3. \A o \in noheap : Targets(Ptrs(o)) \subseteq Prebuilt
    BY DEF Prebuilts, NoHeapPtrs
  <1> QED BY <1>1, <1>2, <1>3 DEF Marking

LEMMA MajorEndFacts ==
    ASSUME IInv, major_end
    PROVE  \E dead \in SUBSET Obj :
              /\ \A o \in Obj : o \in dead <=> where[o] = "old" /\ o \notin visited
              /\ dead \cap (visited \cup Prebuilt) = {}
              /\ SweepStep(dead)
              /\ weak' = [o \in Weak |->
                    IF \/ /\ o \in old_objects_with_weakrefs \cap visited
                          /\ weak[o].to \notin visited
                       \/ o \in dead
                      THEN NULL ELSE weak[o]]
              /\ \A o : o \in old_objects_with_weakrefs' <=>
                    o \in old_objects_with_weakrefs \cap visited /\ weak[o].to \in visited
              /\ UNCHANGED young_objects_with_weakrefs
  <1> USE DEF IInv
  <1> DEFINE alive == old_objects_with_weakrefs \cap visited
             kept == {o \in alive : weak[o].to \in visited}
             dead == {o \in Obj : where[o] = "old" /\ o \notin visited}
  <1>1. /\ phase = "mark" /\ objects_to_trace = {} /\ phase' = "run"
        /\ weak' = [o \in Weak |-> IF o \in (alive \ kept) \cup dead THEN NULL ELSE weak[o]]
        /\ old_objects_with_weakrefs' = kept
        /\ where' = [o \in Obj |-> IF o \in dead THEN "free" ELSE where[o]]
        /\ visited' = Unvisited
        /\ track' = track \ dead
        /\ Freed(dead)
        /\ UNCHANGED <<root, prebuilts, old_objects_pointing_to_young,
                       old_objects_with_cards_set, objects_to_trace,
                       young_objects_with_weakrefs, recent_mallocs>>
    BY DEF major_end
  <1>2. \A o \in Obj : o \in dead <=> where[o] = "old" /\ o \notin visited
    OBVIOUS
  <1>3. \A o : /\ o \in alive <=> o \in old_objects_with_weakrefs \cap visited
               /\ o \in kept <=> /\ o \in old_objects_with_weakrefs \cap visited
                                 /\ weak[o].to \in visited
    OBVIOUS
  <1>4. dead \in SUBSET Obj
    OBVIOUS
  <1> HIDE DEF dead, alive, kept
  <1>5. \A o \in Obj : where[o] = "prebuilt" <=> o \in Prebuilt
    BY DEF Places
  <1>6. dead \cap (visited \cup Prebuilt) = {}
    BY <1>2, <1>4, <1>5
  <1>w. \A o \in Obj : where[o] \in {"free", "old", "prebuilt"}
    BY <1>1 DEF Places
  <1>m. /\ Targets(RootPtrs) \subseteq visited \cup Prebuilt
        /\ \A o \in visited \cup Prebuilt : Targets(Ptrs(o)) \subseteq visited \cup Prebuilt
        /\ visited \cap noheap = {} /\ prebuilt_root_objects \subseteq visited
    BY <1>1, AllMarked
  <1>7. SweepStep(dead)
    <2>1. visited' = {} /\ objects_to_trace' = {} /\ recent_mallocs' = {}
      <3>1. \A o \in visited : o \in Obj /\ where[o] \in {"old", "prebuilt"} /\ o \notin noheap
        BY <1>1, <1>w DEF Marking, TypeOK
      <3>2. \A o \in visited : where[o] # "old" => o \in prebuilt_root_objects
        BY <3>1, <1>5 DEF Prebuilts, NoHeapPtrs
      <3> QED BY <3>2, <1>1 DEF Unvisited, Fresh
    <2>2. \A o \in dead : where[o] # "prebuilt"
      BY <1>2, <1>4
    <2>3. ASSUME NEW o \in Obj \ dead, where[o] # "free"
          PROVE  Stays(o) /\ \A s \in Slots(o) : slots[o][s].to \notin dead
      <3>1. Stays(o) /\ o \in visited \cup Prebuilt
        BY <2>3, <1>2, <1>5, <1>w DEF Stays
      <3>2. ASSUME NEW s \in Slots(o) PROVE slots[o][s].to \notin dead
        <4>1. slots[o][s].to \in Targets(Ptrs(o)) \/ slots[o][s].to = NoObj
          BY DEF Targets, Ptrs
        <4> QED BY <4>1, <3>1, <1>m, <1>4, <1>6, HeapConstants
      <3> QED BY <3>1, <3>2
    <2>4. ASSUME NEW r \in Root PROVE root[r].to \notin dead
      <3>1. root[r].to \in Targets(RootPtrs) \/ root[r].to = NoObj
        BY DEF Targets, RootPtrs
      <3> QED BY <3>1, <1>m, <1>4, <1>6, HeapConstants
    <2>5. \A o \in Obj : where'[o] = IF o \in dead THEN "free"
                                     ELSE IF where[o] = "young" THEN "old" ELSE where[o]
      BY <1>1, <1>w
    <2>6. old_objects_pointing_to_young = {} /\ old_objects_with_cards_set = {}
      BY <1>1 DEF Tracked
    <2> QED BY <1>1, <2>1, <2>2, <2>3, <2>4, <2>5, <2>6 DEF SweepStep
  <1>8. weak' = [o \in Weak |->
                    IF \/ /\ o \in old_objects_with_weakrefs \cap visited
                          /\ weak[o].to \notin visited
                       \/ o \in dead
                      THEN NULL ELSE weak[o]]
    BY <1>1, <1>3
  <1>9. \A o : o \in old_objects_with_weakrefs' <=>
                    o \in old_objects_with_weakrefs \cap visited /\ weak[o].to \in visited
    BY <1>1, <1>3
  <1> QED BY <1>1, <1>2, <1>4, <1>6, <1>7, <1>8, <1>9

LEMMA MajorEndInv == ASSUME IInv, major_end PROVE IInv'
  <1> USE DEF IInv
  <1>t. TypeOK'
    BY CollectTyped DEF Collect
  <1>1. PICK dead \in SUBSET Obj :
              /\ \A o \in Obj : o \in dead <=> where[o] = "old" /\ o \notin visited
              /\ dead \cap (visited \cup Prebuilt) = {}
              /\ SweepStep(dead)
              /\ weak' = [o \in Weak |->
                    IF \/ /\ o \in old_objects_with_weakrefs \cap visited
                          /\ weak[o].to \notin visited
                       \/ o \in dead
                      THEN NULL ELSE weak[o]]
              /\ \A o : o \in old_objects_with_weakrefs' <=>
                    o \in old_objects_with_weakrefs \cap visited /\ weak[o].to \in visited
              /\ UNCHANGED young_objects_with_weakrefs
    BY MajorEndFacts
  <1>2. /\ phase = "mark" /\ phase' = "run"
        /\ \A o \in Obj : where'[o] = IF o \in dead THEN "free"
                                      ELSE IF where[o] = "young" THEN "old" ELSE where[o]
        /\ UNCHANGED noheap
    BY <1>1 DEF SweepStep, major_end, prebuilts
  <1>w. \A o \in Obj : where[o] \in {"free", "old", "prebuilt"}
    BY <1>2 DEF Places
  <1>y. young_objects_with_weakrefs = {}
    BY <1>2 DEF Weakrefs, TypeOK
  <1>3. Weakrefs'
    <2> SUFFICES ASSUME NEW u \in Weak
          PROVE  /\ where'[u] = "free" => weak'[u] = NULL
                 /\ where'[u] # "nursery"
                 /\ where'[u] = "old" =>
                      \/ weak'[u] = NULL
                      \/ /\ weak'[u].in = "outside"
                         /\ \/ where'[weak'[u].to] = "prebuilt"
                            \/ where'[weak'[u].to] = "old" /\ u \in old_objects_with_weakrefs'
                 /\ u \in old_objects_with_weakrefs' =>
                      where'[u] = "old" /\ weak'[u] # NULL /\ weak'[u].to \notin noheap'
      BY <1>1, <1>y DEF Weakrefs
    <2>1. u \in Obj /\ (weak[u] # NULL => weak[u].to \in Obj)
      BY HeapConstants, PtrForms DEF TypeOK
    <2>2. where'[u] # "nursery" /\ (where'[u] = "free" => where[u] = "free" \/ u \in dead)
          /\ (where'[u] = "old" => where[u] = "old" /\ u \notin dead /\ u \in visited)
      BY <1>1, <1>2, <1>w, <2>1
    <2>3. where'[u] = "free" => weak'[u] = NULL
      BY <1>1, <2>2 DEF Weakrefs
    <2>4. u \in old_objects_with_weakrefs' =>
             /\ u \in old_objects_with_weakrefs /\ u \in visited /\ weak[u].to \in visited
             /\ u \notin dead /\ weak'[u] = weak[u]
      BY <1>1
    <2>5. u \in old_objects_with_weakrefs' =>
                      where'[u] = "old" /\ weak'[u] # NULL /\ weak'[u].to \notin noheap'
      BY <2>1, <2>4, <1>2 DEF Weakrefs
    <2>6. ASSUME where'[u] = "old", weak'[u] # NULL
          PROVE  /\ weak'[u].in = "outside"
                 /\ \/ where'[weak'[u].to] = "prebuilt"
                    \/ where'[weak'[u].to] = "old" /\ u \in old_objects_with_weakrefs'
      <3>1. where[u] = "old" /\ u \notin dead /\ u \in visited
        BY <2>2, <2>6
      <3>2. weak'[u] = weak[u] /\ weak[u] # NULL
            /\ (u \in old_objects_with_weakrefs => weak[u].to \in visited)
        BY <1>1, <2>6, <3>1
      <3>3. /\ weak[u].in = "outside"
            /\ \/ where[weak[u].to] = "prebuilt"
               \/ where[weak[u].to] = "old" /\ u \in old_objects_with_weakrefs
        BY <3>1, <3>2, <1>y DEF Weakrefs
      <3>4. CASE where[weak[u].to] = "prebuilt"
        <4>1. where'[weak[u].to] = "prebuilt"
          BY <3>2, <3>4, <1>1, <1>2, <2>1
        <4> QED BY <4>1, <3>2, <3>3
      <3>5. CASE where[weak[u].to] = "old" /\ u \in old_objects_with_weakrefs
        <4>1. weak[u].to \in visited /\ weak[u].to \notin dead
          BY <3>2, <3>5, <1>1
        <4>2. where'[weak[u].to] = "old"
          BY <4>1, <3>2, <3>5, <1>2, <2>1
        <4>3. u \in old_objects_with_weakrefs'
          BY <4>1, <3>1, <3>5, <1>1
        <4> QED BY <4>2, <4>3, <3>2, <3>3
      <3> QED BY <3>3, <3>4, <3>5
    <2> QED BY <2>2, <2>3, <2>5, <2>6
  <1> QED BY <1>t, <1>1, <1>3, SweepInv

(* The invariant is inductive.                                             *)
LEMMA StepInv == ASSUME IInv, Sound, [Next]_vars PROVE IInv'
  <1>1. CASE UNCHANGED vars
    <2> USE <1>1 DEF vars
    <2>1. TypeOK' /\ Places' /\ Tracked' /\ CardFlags' /\ Fresh'
      BY DEF IInv, TypeOK, Places, Tracked, CardFlags, Stays, Fresh
    <2>2. Prebuilts' /\ Pointers'
      BY DEF IInv, Prebuilts, NoHeapPtrs, Ptrs, Targets, Pointers, Whole, Done, Stays
    <2>3. Barrier' /\ Weakrefs'
      BY DEF IInv, Barrier, Done, Stays, SlotRemembered, Weakrefs, Whole
    <2>4. Marking'
      <3>1. H!Reachable' = H!Reachable
        BY SameReachable
      <3> QED BY <3>1 DEF IInv, Marking, Targets, Ptrs, RootPtrs
    <2> QED BY <2>1, <2>2, <2>3, <2>4 DEF IInv
  <1>2. CASE Collect
    BY <1>2, MinorStartInv, LoopInv, MinorEndInv, MarkStartInv, MajorEndInv, CardRefsInv,
       OldRefsInv, VisitInv DEF Collect
  <1>3. CASE \E r \in Root : drop(r)
    BY <1>3, DropInv
  <1> QED BY <1>1, <1>2, <1>3, AllocInv, MutateInv DEF Next

-----------------------------------------------------------------------------
(* What follows from the invariant                                         *)

LEMMA Inductive == Sound /\ Spec => []IInv
  <1>1. CASE ~Sound
    BY <1>1
  <1>2. CASE Sound
    <2>1. IInv /\ [Next]_vars => IInv'
      BY <1>2, StepInv
    <2>2. Init => IInv
      BY InitInv
    <2> QED BY <2>1, <2>2, PTL DEF Spec
  <1> QED BY <1>1, <1>2

(* No pointer that the program can follow dangles: what it can reach is    *)
(* never freed, and never moved without the pointer being updated.         *)
THEOREM PointersValid == Sound /\ Spec => []NoDangling
  <1>1. ASSUME IInv PROVE NoDangling
    <2> USE <1>1 DEF IInv
    <2>1. ASSUME NEW p \in Ptr, Whole(p), phase = "run" PROVE Valid(p)
      <3>1. p = NULL \/ p.in \in {"nursery", "outside"}
        BY PtrForms
      <3> QED BY <2>1, <3>1 DEF Valid, Whole
    <2>2. ASSUME phase = "run", NEW p \in RootPtrs PROVE Valid(p)
      <3>1. p \in Ptr /\ Whole(p)
        BY DEF Pointers, RootPtrs, TypeOK
      <3> QED BY <2>1, <2>2, <3>1
    <2>3. ASSUME phase = "run", NEW o \in Obj, NEW p \in Ptrs(o) PROVE Valid(p)
      <3>1. p \in Ptr /\ Whole(p)
        BY DEF Pointers, Ptrs, TypeOK
      <3> QED BY <2>1, <2>3, <3>1
    <2>4. ASSUME phase = "run", NEW o \in Weak, where[o] # "free" PROVE Valid(weak[o])
      <3>1. o \in Obj /\ where[o] \in {"nursery", "old"} /\ weak[o] \in Ptr
        BY <2>4, HeapConstants DEF Places, TypeOK
      <3>2. Whole(weak[o])
        BY <2>4, <3>1 DEF Weakrefs, Whole
      <3> QED BY <2>1, <2>4, <3>1, <3>2
    <2> QED BY <2>2, <2>3, <2>4 DEF NoDangling
  <1>2. IInv => NoDangling
    BY <1>1
  <1> QED BY <1>2, Inductive, PTL

(* An old object that points to a young one will be found by the next      *)
(* minor collection, whichever barriers the program went through.          *)
THEOREM BarrierEnough == Sound /\ Spec => []BarrierKept
  <1>1. ASSUME IInv, phase = "run", NEW o \in Obj, where[o] \in {"old", "prebuilt"},
               NEW s \in Slots(o), appears_to_be_young(slots[o][s])
        PROVE  SlotRemembered(o, s)
    <2>1. Stays(o) /\ visited = {}
      BY <1>1, RunFacts DEF Stays
    <2>2. ~Done(slots[o][s])
      BY <1>1, <2>1, MadePtrs DEF Done, Stays, appears_to_be_young, Young
    <2> QED BY <1>1, <2>1, <2>2 DEF IInv, Barrier
  <1>2. IInv => BarrierKept
    BY <1>1 DEF BarrierKept
  <1> QED BY <1>2, Inductive, PTL

(* GCFLAG_NO_HEAP_PTRS is never wrong: major collections may skip the      *)
(* prebuilt objects that have it.                                          *)
THEOREM NoHeapPtrsRight == Sound /\ Spec => []NoHeapPtrs
  <1>1. IInv => NoHeapPtrs
    BY DEF IInv, Prebuilts
  <1> QED BY <1>1, Inductive, PTL

(* A major collection starts from objects that pass debug_check_object.    *)
THEOREM ConsistencyCheck == Sound /\ Spec => []Consistent
  <1>1. ASSUME IInv, phase = "major" PROVE Consistent
    <2> USE <1>1 DEF IInv
    <2>1. visited = {} /\ \A o \in Obj : where[o] \in {"free", "old", "prebuilt"}
      BY DEF Places, Marking
    <2>2. old_objects_pointing_to_young = {} /\ old_objects_with_cards_set = {}
      BY DEF Tracked
    <2>3. \A o \in Obj : where[o] # "free" => o \in track
      BY <2>1, <2>2 DEF Tracked, Stays
    <2>4. cardsset = {}
      <3>1. \A o \in cardsset : o \in Obj
        BY HeapConstants DEF TypeOK, Cards
      <3> QED BY <2>1, <2>2, <3>1 DEF CardFlags, Stays
    <2> QED BY <2>1, <2>3, <2>4 DEF Consistent, CardFlags
  <1>2. IInv => Consistent
    BY <1>1 DEF Consistent
  <1> QED BY <1>2, Inductive, PTL

(* A major collection keeps what can be reached, and nothing else.         *)
THEOREM MajorCollectsAll == Sound /\ Spec => MajorExact
  <1>1. ASSUME IInv, major_end, NEW o \in Obj PROVE where'[o] # "free" <=> o \in H!Reachable
    <2> USE <1>1 DEF IInv
    <2>1. phase = "mark" /\ objects_to_trace = {}
      BY DEF major_end
    <2>2. where'[o] # "free" <=> where[o] # "free" /\ ~(where[o] = "old" /\ o \notin visited)
      BY DEF major_end, TypeOK
    <2>3. where[o] \in {"free", "old", "prebuilt"} /\ (where[o] = "prebuilt" <=> o \in Prebuilt)
      BY <2>1 DEF Places
    <2>4. o \in visited => where[o] # "free"
      BY <2>1 DEF Marking
    <2>5. where'[o] # "free" <=> o \in visited \cup Prebuilt
      BY <2>2, <2>3, <2>4
    <2>6. visited \cup Prebuilt \in SUBSET Obj
      BY HeapConstants DEF TypeOK
    <2>7. /\ Targets(RootPtrs) \subseteq visited \cup Prebuilt
          /\ \A u \in visited \cup Prebuilt : Targets(Ptrs(u)) \subseteq visited \cup Prebuilt
          /\ visited \subseteq H!Reachable
      BY <2>1, AllMarked
    <2>8. H!Reachable \subseteq visited \cup Prebuilt
      BY <2>6, <2>7, NotReached
    <2>9. Prebuilt \subseteq H!Reachable
      BY Reached
    <2> QED BY <2>5, <2>7, <2>8, <2>9
  <1>2. IInv => [major_end => \A o \in Obj : where'[o] # "free" <=> o \in H!Reachable]_vars
    BY <1>1
  <1> QED BY <1>2, Inductive, PTL DEF MajorExact

-----------------------------------------------------------------------------
(* The refinement                                                          *)

(* What Heap sees of the variables, now and after a step.                  *)
LEMMA HeapView ==
    ASSUME TypeOK, TypeOK'
    PROVE  /\ To(root) = [r \in Root |-> root[r].to]
           /\ To(root)' = [r \in Root |-> root'[r].to]
           /\ To(weak) = [o \in Weak |-> weak[o].to]
           /\ To(weak)' = [o \in Weak |-> weak'[o].to]
           /\ \A o \in Obj : To(slots[o]) = [s \in Slots(o) |-> slots[o][s].to]
           /\ \A o \in Obj : To(slots[o])' = [s \in Slots(o) |-> slots'[o][s].to]
  BY DEF To, TypeOK

(* A step in which no object appears or disappears, and every pointer is   *)
(* still to the same object.                                               *)
LEMMA SameHeap ==
    ASSUME TypeOK, TypeOK',
           \A r \in Root : root'[r].to = root[r].to,
           \A o \in Weak : weak'[o].to = weak[o].to,
           \A o \in Obj : \A s \in Slots(o) : slots'[o][s].to = slots[o][s].to,
           \A o \in Obj : where'[o] = "free" <=> where[o] = "free"
    PROVE  UNCHANGED H!vars
  <1>1. To(root)' = To(root) /\ To(weak)' = To(weak)
        /\ \A o \in Obj : To(slots[o])' = To(slots[o])
    <2>1. [r \in Root |-> root'[r].to] = [r \in Root |-> root[r].to]
      OBVIOUS
    <2>2. [o \in Weak |-> weak'[o].to] = [o \in Weak |-> weak[o].to]
      OBVIOUS
    <2>3. ASSUME NEW o \in Obj PROVE To(slots[o])' = To(slots[o])
      <3>1. DOMAIN slots[o] = Slots(o) /\ DOMAIN slots'[o] = Slots(o)
        BY DEF TypeOK
      <3> QED BY <3>1 DEF To
    <2> QED BY <2>1, <2>2, <2>3, HeapView
  <1>2. {o \in Obj : where[o] # "free"}' = {o \in Obj : where[o] # "free"}
    OBVIOUS
  <1>3. [o \in Obj |-> To(slots[o])]' = [o \in Obj |-> To(slots[o])]
    BY <1>1
  <1> QED BY <1>1, <1>2, <1>3 DEF H!vars

(* What is held is held in Heap.                                           *)
LEMMA HeldThere ==
    ASSUME TypeOK
    PROVE  /\ \A p \in Held : p.to \in H!Held /\ p.to \in Obj
           /\ NULL.to = NoObj
  <1>1. ASSUME NEW p \in Held PROVE p.to \in H!Held /\ p.to \in Obj
    <2>1. p.to \in Obj
      BY HeldPtr
    <2>2. p.to \in Targets(RootPtrs) \cup Prebuilt
      <3>1. CASE p \in RootPtrs
        BY <2>1, <3>1, HeapConstants DEF Targets
      <3>2. CASE \E o \in Prebuilt : p = Outside(o)
        BY <3>2, MadePtrs, HeapConstants
      <3> QED BY <3>1, <3>2 DEF Held
    <2> QED BY <2>1, <2>2, HeapTargets
  <1> QED BY <1>1, MadePtrs

LEMMA RootRefines ==
    ASSUME TypeOK, TypeOK', NEW r \in Root, NEW v \in Ptr, RootStep(r, v)
    PROVE  H!Set(r, v.to)
  <1>1. \A q \in Root : root'[q] = IF q = r THEN v ELSE root[q]
    BY DEF RootStep, TypeOK
  <1>2. To(root)' = [To(root) EXCEPT ![r] = v.to]
    BY <1>1, HeapView
  <1>3. UNCHANGED <<where, slots, weak>>
    BY DEF RootStep, Unmoved
  <1>4. UNCHANGED <<{o \in Obj : where[o] # "free"}, [o \in Obj |-> To(slots[o])], To(weak)>>
    BY <1>3 DEF To
  <1> QED BY <1>2, <1>4 DEF H!Set

(* Writing one slot.                                                       *)
LEMMA WriteRefines ==
    ASSUME TypeOK, TypeOK', NEW b, NEW s, NEW v, WriteStep(b, {s}), slots'[b][s] = v
    PROVE  H!Put(b, s, v.to)
  <1>1. b \in Obj /\ s \in Slots(b) /\ UNCHANGED <<where, root, weak>>
    BY DEF WriteStep, Unmoved
  <1>2. \A u \in Obj : \A t \in Slots(u) :
          slots'[u][t] = IF u = b /\ t = s THEN v ELSE slots[u][t]
    BY <1>1 DEF WriteStep
  <1>3. ASSUME NEW u \in Obj \ {b} PROVE To(slots[u])' = To(slots[u])
    <2>1. DOMAIN slots[u] = Slots(u) /\ DOMAIN slots'[u] = Slots(u)
      BY DEF TypeOK
    <2> QED BY <2>1, <1>2 DEF To
  <1>4. To(slots[b])' = [To(slots[b]) EXCEPT ![s] = v.to]
    <2>1. [t \in Slots(b) |-> slots'[b][t].to] =
             [[t \in Slots(b) |-> slots[b][t].to] EXCEPT ![s] = v.to]
      BY <1>1, <1>2
    <2> QED BY <1>1, <2>1, HeapView
  <1>5. [o \in Obj |-> To(slots[o])]' = [[o \in Obj |-> To(slots[o])] EXCEPT ![b][s] = v.to]
    BY <1>1, <1>3, <1>4
  <1>6. UNCHANGED <<{o \in Obj : where[o] # "free"}, To(root), To(weak)>>
    BY <1>1 DEF To
  <1> QED BY <1>5, <1>6 DEF H!Put

(* Copying items of an array.                                              *)
LEMMA CopyRefines ==
    ASSUME TypeOK, TypeOK', NEW a \in Array, NEW b \in Array, NEW i, NEW j, NEW n,
           i + n <= length[a], j + n <= length[b],
           WriteStep(b, j..j + n - 1),
           \A s \in j..j + n - 1 : /\ s - j + i \in Slots(a)
                                   /\ slots'[b][s] = slots[a][s - j + i]
    PROVE  H!Copy(a, b, i, j, n)
  <1>1. a \in Obj /\ b \in Obj /\ UNCHANGED <<where, root, weak>>
    BY HeapConstants DEF WriteStep, Unmoved
  <1>2. \A u \in Obj \ {b} : \A t \in Slots(u) : slots'[u][t] = slots[u][t]
    BY DEF WriteStep
  <1>3. \A t \in Slots(b) : t \notin j..j + n - 1 => slots'[b][t] = slots[b][t]
    BY DEF WriteStep
  <1>4. ASSUME NEW u \in Obj \ {b} PROVE To(slots[u])' = To(slots[u])
    <2>1. DOMAIN slots[u] = Slots(u) /\ DOMAIN slots'[u] = Slots(u)
      BY DEF TypeOK
    <2> QED BY <2>1, <1>2 DEF To
  <1> DEFINE S == [o \in Obj |-> To(slots[o])]
  <1>5. To(slots[b])' = [s \in Slots(b) |->
                           IF s \in j..j + n - 1 THEN S[a][s - j + i] ELSE S[b][s]]
    <2>1. To(slots[b])' = [s \in Slots(b) |-> slots'[b][s].to]
      BY <1>1, HeapView
    <2>2. ASSUME NEW s \in Slots(b)
          PROVE  slots'[b][s].to = IF s \in j..j + n - 1 THEN S[a][s - j + i] ELSE S[b][s]
      <3>1. \A t \in Slots(a) : S[a][t] = slots[a][t].to
        BY <1>1, HeapView
      <3>2. \A t \in Slots(b) : S[b][t] = slots[b][t].to
        BY <1>1, HeapView
      <3> QED BY <3>1, <3>2, <1>3
    <2> QED BY <2>1, <2>2
  <1>6. S' = [S EXCEPT ![b] = [s \in Slots(b) |->
                 IF s \in j..j + n - 1 THEN S[a][s - j + i] ELSE @[s]]]
    <2>1. S' = [o \in Obj |-> To(slots[o])']
      OBVIOUS
    <2>2. \A u \in Obj \ {b} : To(slots[u])' = S[u]
      BY <1>4
    <2>3. S[b] = To(slots[b])
      BY <1>1
    <2> QED BY <1>1, <1>5, <2>1, <2>2, <2>3
  <1>7. H!Slots(b) = Slots(b)
    BY <1>1, HeapTargets
  <1>8. UNCHANGED <<{o \in Obj : where[o] # "free"}, To(root), To(weak)>>
    BY <1>1 DEF To
  <1> QED BY <1>6, <1>7, <1>8 DEF H!Copy

(* Allocating an object.                                                   *)
LEMMA AllocRefines ==
    ASSUME TypeOK, TypeOK', NEW o \in Obj, NEW v, v.to = o, NEW r \in Root,
           NEW place \in {"nursery", "young", "old"}, AllocStep(o, v, r, place)
    PROVE  H!New(o, r)
  <1>1. /\ where[o] = "free" /\ where' = [where EXCEPT ![o] = place]
        /\ root' = [root EXCEPT ![r] = v] /\ UNCHANGED slots
        /\ \/ o \notin Weak /\ UNCHANGED weak
           \/ o \in Weak /\ \E p \in Held : weak' = [weak EXCEPT ![o] = p]
    BY DEF AllocStep
  <1>2. \A u \in Obj : where'[u] = IF u = o THEN place ELSE where[u]
    BY <1>1 DEF TypeOK
  <1>3. {u \in Obj : where[u] # "free"}' = {u \in Obj : where[u] # "free"} \cup {o}
        /\ o \notin {u \in Obj : where[u] # "free"}
    BY <1>1, <1>2
  <1>4. To(root)' = [To(root) EXCEPT ![r] = o]
    <2>1. \A q \in Root : root'[q] = IF q = r THEN v ELSE root[q]
      BY <1>1 DEF TypeOK
    <2>2. [q \in Root |-> root'[q].to] = [[q \in Root |-> root[q].to] EXCEPT ![r] = o]
      BY <2>1
    <2> QED BY <2>2, HeapView
  <1>5. UNCHANGED [u \in Obj |-> To(slots[u])]
    BY <1>1 DEF To
  <1>6. IF o \in Weak THEN \E h \in H!Held : To(weak)' = [To(weak) EXCEPT ![o] = h]
        ELSE UNCHANGED To(weak)
    <2>1. CASE o \notin Weak
      BY <1>1, <2>1 DEF To
    <2>2. CASE o \in Weak
      <3>1. PICK p \in Held : weak' = [weak EXCEPT ![o] = p]
        BY <1>1, <2>2
      <3>2. \A u \in Weak : weak'[u] = IF u = o THEN p ELSE weak[u]
        BY <3>1 DEF TypeOK
      <3>3. [u \in Weak |-> weak'[u].to] = [[u \in Weak |-> weak[u].to] EXCEPT ![o] = p.to]
        BY <3>2
      <3>4. p.to \in H!Held
        BY HeldThere
      <3>5. To(weak)' = [To(weak) EXCEPT ![o] = p.to]
        BY <3>3, HeapView
      <3> QED BY <2>2, <3>4, <3>5
    <2> QED BY <2>1, <2>2
  <1> QED BY <1>3, <1>4, <1>5, <1>6 DEF H!New

LEMMA AllocateRefines == ASSUME IInv, IInv', Sound, Allocate PROVE H!Next
  <1> USE DEF remembered, prebuilts, marking, weakrefs
  <1>t. TypeOK /\ TypeOK'
    BY DEF IInv
  <1>0. ASSUME NEW r \in Root, NEW o \in Obj, H!New(o, r) PROVE H!Next
    BY <1>0 DEF H!Next
  <1>1. ASSUME NEW r \in Root, NEW o \in Obj, malloc_fixedsize_clear(o, r) PROVE H!Next
    <2>1. AllocStep(o, Nursery(o), r, "nursery") /\ Nursery(o).to = o
      BY <1>1, MadePtrs DEF malloc_fixedsize_clear, AllocStep
    <2> QED BY <1>t, <1>0, <2>1, AllocRefines
  <1>2. ASSUME NEW r \in Root, NEW o \in Obj, external_malloc(o, r) PROVE H!Next
    <2>1. o \notin Weak /\ recent_mallocs' = {}
      BY <1>2, HeapConstants DEF external_malloc, Sound
    <2>2. AllocStep(o, Outside(o), r, "young") /\ Outside(o).to = o
      BY <1>2, <2>1, MadePtrs DEF external_malloc, AllocStep
    <2> QED BY <1>t, <1>0, <2>2, AllocRefines
  <1>3. ASSUME NEW r \in Root, NEW o \in Obj, malloc_nonmovable(o, r) PROVE H!Next
    <2>1. AllocStep(o, Outside(o), r, "old") /\ Outside(o).to = o
      BY <1>3, MadePtrs DEF malloc_nonmovable, AllocStep
    <2> QED BY <1>t, <1>0, <2>1, AllocRefines
  <1>4. ASSUME NEW r \in Root, NEW o \in Obj, NEW p \in Held, malloc_weakref(o, r, p)
        PROVE  H!Next
    <2>1. o \notin Large
      BY <1>4, HeapConstants DEF malloc_weakref
    <2>2. AllocStep(o, Nursery(o), r, "nursery") /\ Nursery(o).to = o
      BY <1>4, <2>1, MadePtrs DEF malloc_weakref, AllocStep
    <2> QED BY <1>t, <1>0, <2>2, AllocRefines
  <1> QED BY <1>1, <1>2, <1>3, <1>4 DEF Allocate

LEMMA DropRefines == ASSUME IInv, IInv', NEW r \in Root, drop(r) PROVE H!Next
  <1>1. RootStep(r, NULL) /\ NULL \in Ptr /\ NULL.to = NoObj
    BY MadePtrs DEF drop, RootStep
  <1>2. H!Set(r, NoObj)
    BY <1>1, RootRefines DEF IInv
  <1> QED BY <1>2 DEF H!Next

LEMMA MutateRefines == ASSUME IInv, IInv', Mutate PROVE [H!Next]_(H!vars)
  <1>t. TypeOK /\ TypeOK'
    BY DEF IInv
  <1>h. \A p \in Held : p.to \in H!Held /\ p.to \in Obj
    BY <1>t, HeldThere
  <1>s. \A o \in Obj : H!Slots(o) = Slots(o)
    BY <1>t, HeapTargets
  <1>1. ASSUME NEW p \in Held, NEW r \in Root, deref(r, p) PROVE H!Next
    <2>1. RootStep(r, weak[p.to]) /\ weak[p.to] \in Ptr /\ p.to \in Weak
      BY <1>1, <1>t, LoadedPtr DEF deref, RootStep
    <2>2. H!Set(r, weak[p.to].to) /\ To(weak)[p.to] = weak[p.to].to
      BY <2>1, <1>t, RootRefines, HeapView
    <2>3. H!Get(r, p.to)
      BY <2>1, <2>2 DEF H!Get
    <2> QED BY <2>3, <1>h DEF H!Next
  <1>2. ASSUME NEW p \in Held, NEW r \in Root, NEW s \in Slots(p.to), getslot(r, p, s)
        PROVE  H!Next
    <2>1. RootStep(r, slots[p.to][s]) /\ slots[p.to][s] \in Ptr
      BY <1>2, <1>t, LoadedPtr DEF getslot, RootStep
    <2>2. H!Set(r, slots[p.to][s].to)
      BY <2>1, <1>t, RootRefines
    <2>3. [o \in Obj |-> To(slots[o])][p.to][s] = slots[p.to][s].to
      BY <1>t, <1>h, HeapView
    <2>4. H!Get(r, p.to)
      BY <1>h, <1>s, <2>2, <2>3 DEF H!Get
    <2> QED BY <2>4, <1>h DEF H!Next
  <1>3. ASSUME NEW p \in Held, NEW v \in Held \cup {NULL}, NEW s, H!Put(p.to, s, v.to),
               s \in Slots(p.to)
        PROVE  H!Next
    <2>1. v.to \in H!Held \cup {NoObj}
      BY <1>t, HeldThere
    <2> QED BY <2>1, <1>3, <1>h, <1>s DEF H!Next
  <1>4. ASSUME NEW p \in Held, NEW v \in Held \cup {NULL}, setfield(p, v) PROVE H!Next
    <2>1. v \in Ptr
      BY <1>t, HeldPtr, MadePtrs
    <2>2. WriteStep(p.to, {Field}) /\ slots'[p.to][Field] = v /\ Field \in Slots(p.to)
      BY <1>4, <1>t, <2>1, SetFieldStep DEF setfield
    <2>3. H!Put(p.to, Field, v.to)
      BY <2>2, <1>t, WriteRefines
    <2> QED BY <2>2, <2>3, <1>3
  <1>5. ASSUME NEW p \in Held, NEW v \in Held \cup {NULL}, NEW i \in Slots(p.to),
               setarrayitem(p, i, v)
        PROVE  H!Next
    <2>1. v \in Ptr
      BY <1>t, HeldPtr, MadePtrs
    <2>2. WriteStep(p.to, {i}) /\ slots'[p.to][i] = v
      BY <1>5, <1>t, <2>1, SetItemStep
    <2>3. H!Put(p.to, i, v.to)
      BY <2>2, <1>t, WriteRefines
    <2> QED BY <2>3, <1>3
  <1>6. ASSUME NEW p \in Held, assume_young_pointers(p) PROVE UNCHANGED H!vars
    <2>1. UNCHANGED <<root, slots, weak, where>>
      BY <1>6 DEF assume_young_pointers, Unmoved
    <2> QED BY <2>1, <1>t, SameHeap
  <1>7. ASSUME NEW p \in Held, NEW q \in Held, p.to \in Array, q.to \in Array,
               NEW i \in Slots(p.to), NEW j \in Slots(q.to), NEW n \in 2..length[q.to],
               ll_arraycopy(p, q, i, j, n)
        PROVE  H!Next
    <2>1. n \in Nat /\ n \in 1..length[q.to]
      BY <1>7, HeapConstants
    <2>2. /\ WriteStep(q.to, j..j + n - 1)
          /\ \A s \in j..j + n - 1 : /\ s - j + i \in Slots(p.to)
                                     /\ slots'[q.to][s] = slots[p.to][s - j + i]
      BY <1>7, <1>t, <2>1, ArrayCopyStep
    <2>3. i + n <= length[p.to] /\ j + n <= length[q.to]
      BY <1>7 DEF ll_arraycopy
    <2>4. H!Copy(p.to, q.to, i, j, n)
      BY <1>7, <1>t, <2>2, <2>3, CopyRefines
    <2>5. p.to \in H!Held \cap Array /\ q.to \in H!Held \cap Array
          /\ i \in H!Slots(p.to) /\ j \in H!Slots(q.to)
      BY <1>7, <1>h, <1>s
    <2> QED BY <2>1, <2>4, <2>5 DEF H!Next
  <1> QED BY <1>1, <1>2, <1>4, <1>5, <1>6, <1>7 DEF Mutate

(* Objects that are moved are the same to Heap.                            *)
LEMMA DragRefines ==
    ASSUME TypeOK, TypeOK', NEW P, NEW pointing, NEW withcards,
           DragOut(P, pointing, withcards), UNCHANGED weak,
           \A r \in Root : root'[r] \in {root[r], Forwarded(root[r])},
           \A o \in Obj : \A s \in Slots(o) :
               slots'[o][s] \in {slots[o][s], Forwarded(slots[o][s])}
    PROVE  UNCHANGED H!vars
  <1>1. \A p \in Ptr : Forwarded(p).to = p.to
    BY PtrForms
  <1>2. \A r \in Root : root[r] \in Ptr
    BY DEF TypeOK
  <1>3. \A o \in Obj : \A s \in Slots(o) : slots[o][s] \in Ptr
    BY DEF TypeOK
  <1>4. \A r \in Root : root'[r].to = root[r].to
    BY <1>1, <1>2
  <1>5. \A o \in Obj : \A s \in Slots(o) : slots'[o][s].to = slots[o][s].to
    BY <1>1, <1>3
  <1>6. \A o \in Obj : where'[o] = "free" <=> where[o] = "free"
    BY DEF DragOut, Moved, TypeOK
  <1> QED BY <1>4, <1>5, <1>6, SameHeap

(* Objects that are swept disappear, with the weakrefs to them.            *)
LEMMA SweepRefines ==
    ASSUME IInv, IInv', NEW dead \in SUBSET Obj, SweepStep(dead),
           \A o \in dead : where[o] # "free",
           \A o \in Weak : weak'[o].to = IF o \in dead \/ weak[o].to \in dead THEN NoObj
                                         ELSE weak[o].to
    PROVE  H!Next
  <1> DEFINE live == {o \in Obj : where[o] # "free"}
  <1>t. TypeOK /\ TypeOK'
    BY DEF IInv
  <1>d. /\ slots' = [o \in Obj |-> IF o \in dead THEN Cleared(o) ELSE slots[o]]
        /\ \A o \in Obj : where'[o] = IF o \in dead THEN "free"
                                      ELSE IF where[o] = "young" THEN "old" ELSE where[o]
        /\ UNCHANGED root
        /\ \A o \in dead : where[o] # "prebuilt"
        /\ \A o \in Obj \ dead :
              where[o] # "free" => \A s \in Slots(o) : slots[o][s].to \notin dead
        /\ \A r \in Root : root[r].to \notin dead
    BY DEF SweepStep, Freed
  <1>1. live' = live \ dead
    BY <1>d
  <1>2. H!Reachable \subseteq live \ dead
    <2>1. Targets(RootPtrs) \subseteq live \ dead
      <3>1. \A t \in Targets(RootPtrs) : t \notin dead
        BY <1>d DEF Targets, RootPtrs
      <3> QED BY <3>1, TargetsExist
    <2>2. Prebuilt \subseteq live \ dead
      BY <1>d, HeapConstants DEF IInv, Places
    <2>3. ASSUME NEW o \in live \ dead PROVE Targets(Ptrs(o)) \subseteq live \ dead
      <3>1. \A t \in Targets(Ptrs(o)) : t \notin dead
        BY <2>3, <1>d DEF Targets, Ptrs
      <3> QED BY <2>3, <3>1, TargetsExist
    <2>4. live \ dead \in SUBSET Obj
      OBVIOUS
    <2> HIDE DEF live
    <2> QED BY <1>t, <2>1, <2>2, <2>3, <2>4, NotReached
  <1>3. dead \in SUBSET (live \ H!Reachable)
    BY <1>2
  <1>4. [o \in Obj |-> To(slots[o])]' =
           [o \in Obj |-> IF o \in dead THEN H!Cleared(o) ELSE [u \in Obj |-> To(slots[u])][o]]
    <2>1. ASSUME NEW o \in Obj
          PROVE  To(slots[o])' = IF o \in dead THEN H!Cleared(o) ELSE To(slots[o])
      <3>1. CASE o \in dead
        <4>1. slots'[o] = [s \in Slots(o) |-> NULL]
          BY <3>1, <1>d DEF Cleared
        <4>2. H!Cleared(o) = [s \in Slots(o) |-> NoObj]
          BY <1>t, HeapTargets DEF H!Cleared
        <4>3. NULL.to = NoObj
          BY MadePtrs
        <4> QED BY <3>1, <4>1, <4>2, <4>3 DEF To
      <3>2. CASE o \notin dead
        BY <3>2, <1>d DEF To
      <3> QED BY <3>1, <3>2
    <2> QED BY <2>1
  <1>5. To(weak)' = [o \in Weak |-> IF o \in dead \/ To(weak)[o] \in dead THEN NoObj
                                    ELSE To(weak)[o]]
    <2>1. \A o \in Weak : To(weak)[o] = weak[o].to
      BY <1>t, HeapView
    <2>2. To(weak)' = [o \in Weak |-> weak'[o].to]
      BY <1>t, HeapView
    <2> QED BY <2>1, <2>2
  <1>6. UNCHANGED To(root)
    BY <1>d DEF To
  <1>7. H!Disappear(dead)
    BY <1>1, <1>4, <1>5, <1>6 DEF H!Disappear
  <1> QED BY <1>3, <1>7 DEF H!Next

LEMMA MinorEndRefines == ASSUME IInv, IInv', minor_end PROVE H!Next
  <1>1. PICK dead \in SUBSET Obj :
              /\ \A o \in Obj : o \in dead <=>
                     where[o] = "nursery" \/ (where[o] = "young" /\ o \notin visited)
              /\ \A o \in Obj : Stays(o) <=> o \notin dead /\ where[o] # "free"
              /\ SweepStep(dead)
              /\ weak' = [o \in Weak |->
                    IF o \in young_objects_with_weakrefs /\ where[o] = "old" /\ WeakKept(weak[o])
                      THEN Forwarded(weak[o])
                    ELSE IF (o \in young_objects_with_weakrefs /\ where[o] = "old") \/ o \in dead
                      THEN NULL ELSE weak[o]]
              /\ young_objects_with_weakrefs' = {}
              /\ \A o : o \in old_objects_with_weakrefs' <=>
                    \/ o \in old_objects_with_weakrefs
                    \/ /\ o \in young_objects_with_weakrefs /\ where[o] = "old"
                       /\ WeakRegistered(weak[o])
    BY MinorEndFacts
  <1>2. \A o \in dead : where[o] # "free"
    BY <1>1
  <1>3. ASSUME NEW o \in Weak
        PROVE  weak'[o].to = IF o \in dead \/ weak[o].to \in dead THEN NoObj ELSE weak[o].to
    <2> USE DEF IInv
    <2> DEFINE p == weak[o]
               q == weak'[o]
    <2>1. /\ o \in Obj /\ p \in Ptr /\ where[o] \in {"free", "nursery", "old"}
          /\ NULL.to = NoObj /\ NoObj \notin dead
      BY MadePtrs, HeapConstants DEF TypeOK, Places
    <2>2. CASE o \in dead
      <3>1. where[o] = "nursery"
        BY <1>1, <2>1, <2>2
      <3> QED BY <1>1, <2>1, <2>2, <3>1
    <2>3. CASE o \notin dead /\ o \in young_objects_with_weakrefs /\ where[o] = "old"
      <3>1. p # NULL /\ Whole(p)
        BY <2>3 DEF Weakrefs
      <3>2. q = IF WeakKept(p) THEN Forwarded(p) ELSE NULL
        BY <1>1, <2>3
      <3> HIDE DEF p, q
      <3>3. p.to \in Obj /\ Forwarded(p).to = p.to /\ p.in \in {"nursery", "outside"}
        BY <2>1, <3>1, PtrForms
      <3>4. WeakKept(p) <=> p.to \notin dead
        <4>1. p.to \in dead <=>
                where[p.to] = "nursery" \/ (where[p.to] = "young" /\ p.to \notin visited)
          BY <1>1, <3>3
        <4>2. p.in = "nursery" => where[p.to] \in {"nursery", "old"}
          BY <3>1 DEF Whole
        <4>3. p.in = "outside" => where[p.to] # "nursery"
          BY <3>1 DEF Whole
        <4> QED BY <3>1, <3>3, <4>1, <4>2, <4>3 DEF WeakKept
      <3>5. q.to = IF p.to \in dead THEN NoObj ELSE p.to
        BY <2>1, <3>2, <3>3, <3>4
      <3> QED BY <2>3, <3>5 DEF p, q
    <2>4. CASE o \notin dead /\ ~(o \in young_objects_with_weakrefs /\ where[o] = "old")
      <3>1. q = p
        BY <1>1, <2>4
      <3>2. p.to \notin dead
        <4>1. where[o] \in {"free", "old"}
          BY <1>1, <2>1, <2>4
        <4>2. p = NULL \/ where[p.to] \in {"old", "prebuilt"}
          BY <2>4, <4>1 DEF Weakrefs
        <4>3. p # NULL => p.to \in Obj
          BY <2>1, PtrForms
        <4> QED BY <1>1, <2>1, <4>2, <4>3
      <3> QED BY <2>4, <3>1, <3>2
    <2> QED BY <2>2, <2>3, <2>4
  <1> QED BY <1>1, <1>2, <1>3, SweepRefines

LEMMA MajorEndRefines == ASSUME IInv, IInv', major_end PROVE H!Next
  <1>1. PICK dead \in SUBSET Obj :
              /\ \A o \in Obj : o \in dead <=> where[o] = "old" /\ o \notin visited
              /\ dead \cap (visited \cup Prebuilt) = {}
              /\ SweepStep(dead)
              /\ weak' = [o \in Weak |->
                    IF \/ /\ o \in old_objects_with_weakrefs \cap visited
                          /\ weak[o].to \notin visited
                       \/ o \in dead
                      THEN NULL ELSE weak[o]]
              /\ \A o : o \in old_objects_with_weakrefs' <=>
                    o \in old_objects_with_weakrefs \cap visited /\ weak[o].to \in visited
              /\ UNCHANGED young_objects_with_weakrefs
    BY MajorEndFacts
  <1>2. \A o \in dead : where[o] # "free"
    BY <1>1
  <1>3. ASSUME NEW o \in Weak
        PROVE  weak'[o].to = IF o \in dead \/ weak[o].to \in dead THEN NoObj ELSE weak[o].to
    <2> USE DEF IInv
    <2>1. /\ o \in Obj /\ weak[o] \in Ptr /\ NULL.to = NoObj /\ NoObj \notin dead
          /\ phase = "mark" /\ objects_to_trace = {}
      BY MadePtrs, HeapConstants DEF TypeOK, major_end
    <2>2. /\ where[o] \in {"free", "old"} /\ o \notin young_objects_with_weakrefs
          /\ \A t \in Obj : where[t] = "prebuilt" <=> t \in Prebuilt
      BY <2>1, HeapConstants DEF Places, Weakrefs
    <2>3. CASE o \in dead
      BY <1>1, <2>1, <2>3
    <2>4. CASE o \notin dead /\ o \in old_objects_with_weakrefs
      <3>1. where[o] = "old" /\ o \in visited /\ weak[o] # NULL
            /\ weak[o].to \notin noheap /\ weak[o].to \in Obj
            /\ where[weak[o].to] \in {"old", "prebuilt"}
        BY <1>1, <2>1, <2>2, <2>4, PtrForms DEF Weakrefs
      <3>2. weak[o].to \notin visited => weak[o].to \in dead
        <4>1. where[weak[o].to] = "prebuilt" => weak[o].to \in prebuilt_root_objects
          BY <2>2, <3>1 DEF Prebuilts, NoHeapPtrs
        <4>2. prebuilt_root_objects \subseteq visited
          BY <2>1, AllMarked
        <4> QED BY <1>1, <3>1, <4>1, <4>2
      <3>3. weak'[o] = IF weak[o].to \notin visited THEN NULL ELSE weak[o]
        BY <1>1, <2>4, <3>1
      <3>4. weak[o].to \in visited => weak[o].to \notin dead
        BY <1>1
      <3> QED BY <2>1, <2>4, <3>2, <3>3, <3>4
    <2>5. CASE o \notin dead /\ o \notin old_objects_with_weakrefs
      <3>1. weak'[o] = weak[o]
        BY <1>1, <2>5
      <3>2. weak[o] = NULL \/ where[weak[o].to] = "prebuilt"
        BY <2>2, <2>5 DEF Weakrefs
      <3>3. weak[o].to \notin dead
        BY <1>1, <2>1, <2>2, <3>2
      <3> QED BY <2>5, <3>1, <3>3
    <2> QED BY <2>3, <2>4, <2>5
  <1> QED BY <1>1, <1>2, <1>3, SweepRefines

LEMMA CollectRefines == ASSUME IInv, IInv', Collect PROVE [H!Next]_(H!vars)
  <1>t. TypeOK /\ TypeOK'
    BY DEF IInv
  <1>1. CASE minor_collection
    <2>1. /\ DragOut(RootPtrs, {o \in old_objects_pointing_to_young : where[o] # "young"},
                     old_objects_with_cards_set)
          /\ root' = [r \in Root |-> Forwarded(root[r])] /\ UNCHANGED <<slots, weak>>
      BY <1>1 DEF minor_collection
    <2> QED BY <2>1, <1>t, DragRefines
  <1>2. ASSUME NEW o \in Obj, NEW S, NEW pointing, NEW withcards,
               TraceAndDragOut(o, S, pointing, withcards), UNCHANGED <<root, weak>>
        PROVE  UNCHANGED H!vars
    <2>1. DragOut({slots[o][s] : s \in S}, pointing, withcards)
      BY <1>2 DEF TraceAndDragOut
    <2>2. \A u \in Obj : \A s \in Slots(u) :
             slots'[u][s] \in {slots[u][s], Forwarded(slots[u][s])}
      BY <1>t, <1>2, TraceTyped
    <2> QED BY <1>t, <1>2, <2>1, <2>2, DragRefines
  <1>3. ASSUME NEW o \in Obj, collect_cardrefs_to_nursery(o) PROVE UNCHANGED H!vars
    BY <1>2, <1>3 DEF collect_cardrefs_to_nursery
  <1>4. ASSUME NEW o \in Obj, collect_oldrefs_to_nursery(o) PROVE UNCHANGED H!vars
    BY <1>2, <1>4 DEF collect_oldrefs_to_nursery
  <1>5. CASE minor_loop \/ major_collection \/ \E o \in Obj : visit(o)
    <2>1. UNCHANGED <<root, slots, weak, where>>
      BY <1>5 DEF minor_loop, major_collection, visit, pointers
    <2> QED BY <2>1, <1>t, SameHeap
  <1> QED BY <1>1, <1>3, <1>4, <1>5, MinorEndRefines, MajorEndRefines DEF Collect

LEMMA InitRefines == ASSUME Init PROVE H!Init
  <1>1. /\ root = [r \in Root |-> NULL] /\ weak = [o \in Weak |-> NULL]
        /\ slots = [o \in Obj |-> [s \in Slots(o) |-> NULL]]
        /\ where = [o \in Obj |-> IF o \in Prebuilt THEN "prebuilt" ELSE "free"]
    BY DEF Init, Cleared
  <1>2. NULL.to = NoObj
    BY MadePtrs
  <1>3. {o \in Obj : where[o] # "free"} = Prebuilt
    BY <1>1, HeapConstants
  <1>4. To(root) = [r \in Root |-> NoObj] /\ To(weak) = [o \in Weak |-> NoObj]
    BY <1>1, <1>2 DEF To
  <1>5. [o \in Obj |-> To(slots[o])] = [o \in Obj |-> H!Cleared(o)]
    <2>1. ASSUME NEW o \in Obj PROVE To(slots[o]) = H!Cleared(o)
      <3>1. H!Cleared(o) = [s \in Slots(o) |-> NoObj]
        BY TypeInit, HeapTargets DEF H!Cleared
      <3>2. slots[o] = [s \in Slots(o) |-> NULL]
        BY <1>1
      <3> QED BY <3>1, <3>2, <1>2 DEF To
    <2> QED BY <2>1
  <1> QED BY <1>3, <1>4, <1>5 DEF H!Init

(* The collector is a memory in which objects stay in place and disappear  *)
(* only when they cannot be reached, and then from the weakrefs too.       *)
THEOREM Refinement == Sound /\ Spec => ImplementsHeap
  <1>1. CASE ~Sound
    BY <1>1
  <1>2. CASE Sound
    <2>1. IInv /\ IInv' /\ [Next]_vars => [H!Next]_(H!vars)
      <3>1. ASSUME IInv, IInv', Next PROVE [H!Next]_(H!vars)
        BY <1>2, <3>1, AllocateRefines, MutateRefines, DropRefines, CollectRefines DEF Next
      <3>2. ASSUME IInv, IInv', UNCHANGED vars PROVE UNCHANGED H!vars
        BY <3>2, SameHeap DEF IInv, vars
      <3> QED BY <3>1, <3>2
    <2>2. Init => H!Init
      BY InitRefines
    <2>3. Spec => []IInv
      BY <1>2, Inductive
    <2> QED BY <2>1, <2>2, <2>3, PTL DEF Spec, ImplementsHeap, H!Spec
  <1> QED BY <1>1, <1>2
=============================================================================
