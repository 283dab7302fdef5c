----------------------------- MODULE ImportLock -----------------------------
(***************************************************************************)
(* Importing modules from several threads: the lookup in sys.modules that  *)
(* takes no lock, the recursive import lock around everything else, the    *)
(* modules that are in sys.modules while their code still runs, and fork,  *)
(* whose hooks hold the lock around the system call and reset it in the    *)
(* child.                                                                  *)
(*                                                                         *)
(* stack[t] holds what thread t does under the import lock, innermost      *)
(* last: [doing, todo], where todo is what is left of the dotted name and  *)
(* doing is                                                                *)
(*   "finding", "reading", "executing"   the module Head(todo)             *)
(*   "holding"        imp.acquire_lock() was called by the program         *)
(*   "forking"        os.fork() is between its hooks                       *)
(* pc[t] is "off" (not started, ended, or not copied by a fork), "run",    *)
(* "acquiring", "got" (in the C function that takes the lock, with the GIL *)
(* released), "releasing" or "released" (in the one that releases it).     *)
(* The execution context of a thread stands for its identity.              *)
(***************************************************************************)
EXTENDS Integers, Sequences, Functions

CONSTANTS Thread, Main,
          Module,
          Path,          \* the parts of a module's dotted name, packages first
          MaxDepth,      \* bound on the depth of a stack
          ForkWithLock   \* fork is called by a thread that holds the lock

NoOne == "no one"

ASSUME ImportConstants ==
    /\ Main \in Thread /\ NoOne \notin Thread
    /\ Path \in [Module -> Seq(Module) \ {<<>>}]
    /\ MaxDepth \in Nat \ {0}
    /\ ForkWithLock \in BOOLEAN

VARIABLES
    cur,            \* the thread that holds the GIL
    pc, stack,
    lock,           \* the system's lock is taken
    lockowner, lockcounter,
    modules         \* sys.modules: "absent", "partial" or "loaded"

vars == <<cur, pc, stack, lock, lockowner, lockcounter, modules>>
counts == <<lock, lockowner, lockcounter>>

Init ==
    /\ cur = Main
    /\ pc = [t \in Thread |-> IF t = Main THEN "run" ELSE "off"]
    /\ stack = [t \in Thread |-> <<>>]
    /\ lock = FALSE /\ lockowner = NoOne /\ lockcounter = 0
    /\ modules = [m \in Module |-> "absent"]

Doing == {"finding", "reading", "executing", "holding", "forking"}
Frame(doing, todo) == [doing |-> doing, todo |-> todo]
Depth(t) == Len(stack[t])
Top(t) == stack[t][Depth(t)]

Runs(t) == cur = t /\ pc[t] = "run"
Does(t, doing) == Runs(t) /\ Depth(t) > 0 /\ Top(t).doing = doing

(* Bytecode of the program, or of a module, is what runs.                  *)
InCode(t) == Runs(t) /\ (Depth(t) > 0 => Top(t).doing \in {"executing", "holding"})

Pushed(t, frame) == stack' = [stack EXCEPT ![t] = Append(@, frame)]
Popped(t) == stack' = [stack EXCEPT ![t] = SubSeq(@, 1, Len(@) - 1)]
Replaced(t, frame) == stack' = [stack EXCEPT ![t] = [@ EXCEPT ![Depth(t)] = frame]]

-----------------------------------------------------------------------------
(* The GIL, between two bytecodes and around calls of the system           *)

LeaveGil(t) ==
    /\ Runs(t)
    /\ cur' = NoOne
    /\ UNCHANGED <<pc, stack, lock, lockowner, lockcounter, modules>>

EnterGil(t) ==
    /\ cur = NoOne /\ pc[t] \in {"run", "released"}
    /\ cur' = t
    /\ pc' = [pc EXCEPT ![t] = "run"]
    /\ UNCHANGED <<stack, lock, lockowner, lockcounter, modules>>

-----------------------------------------------------------------------------
(* ImportRLock                                                             *)

lock_held_by_someone_else(t) == lockowner # NoOne /\ lockowner # t

(* The frame is pushed at once; it begins when the lock is there.          *)
acquire_lock(t, frame) ==
    /\ Depth(t) < MaxDepth
    /\ Pushed(t, frame)
    /\ IF lockowner = t
         THEN lockcounter' = lockcounter + 1 /\ UNCHANGED <<cur, pc>>
         ELSE /\ cur' = NoOne /\ pc' = [pc EXCEPT ![t] = "acquiring"]
              /\ UNCHANGED lockcounter
    /\ UNCHANGED <<lock, lockowner, modules>>

(* The system gives the lock to one of the threads that wait for it; that  *)
(* thread then has to take the GIL before it is the owner.                 *)
c_thread_acquirelock(t) ==
    /\ pc[t] = "acquiring" /\ ~lock
    /\ lock' = TRUE
    /\ pc' = [pc EXCEPT ![t] = "got"]
    /\ UNCHANGED <<cur, stack, lockowner, lockcounter, modules>>

(* Defect: only the recursive calls are counted.                           *)
acquired_Uncounted(t) ==
    /\ pc[t] = "got" /\ cur = NoOne
    /\ cur' = t /\ pc' = [pc EXCEPT ![t] = "run"]
    /\ lockowner' = t
    /\ UNCHANGED <<stack, lock, lockcounter, modules>>

acquired(t) ==
    /\ pc[t] = "got" /\ cur = NoOne
    /\ cur' = t /\ pc' = [pc EXCEPT ![t] = "run"]
    /\ lockowner' = t /\ lockcounter' = lockcounter + 1
    /\ UNCHANGED <<stack, lock, modules>>

FreeLock(t) ==
    /\ lockowner' = NoOne
    /\ cur' = NoOne /\ pc' = [pc EXCEPT ![t] = "releasing"]

(* Defect: each release frees the lock.                                    *)
release_lock_Flat(t) ==
    /\ Popped(t)
    /\ IF lockowner # t THEN UNCHANGED <<cur, pc, lockowner, lockcounter>>
       ELSE lockcounter' = 0 /\ FreeLock(t)
    /\ UNCHANGED lock

(* Defect: the owner is left as it is.                                     *)
release_lock_KeepsOwner(t) ==
    /\ Popped(t)
    /\ IF lockowner # t THEN UNCHANGED <<cur, pc, lockowner, lockcounter>>
       ELSE /\ lockcounter' = lockcounter - 1
            /\ IF lockcounter = 1
                 THEN /\ cur' = NoOne /\ pc' = [pc EXCEPT ![t] = "releasing"]
                      /\ UNCHANGED lockowner
                 ELSE UNCHANGED <<cur, pc, lockowner>>
    /\ UNCHANGED lock

(* A release by a thread that is not the owner raises, and changes         *)
(* nothing but the frame that the exception leaves.                        *)
release_lock(t) ==
    /\ Popped(t)
    /\ IF lockowner # t THEN UNCHANGED <<cur, pc, lockowner, lockcounter>>
       ELSE /\ lockcounter' = lockcounter - 1
            /\ IF lockcounter = 1 THEN FreeLock(t) ELSE UNCHANGED <<cur, pc, lockowner>>
    /\ UNCHANGED lock

(* Lock.release: its sanity check, then the release.  The GIL is released  *)
(* around both.                                                            *)
c_thread_releaselock(t) ==
    /\ pc[t] = "releasing"
    /\ lock' = FALSE
    /\ pc' = [pc EXCEPT ![t] = "released"]
    /\ UNCHANGED <<cur, stack, lockowner, lockcounter, modules>>

-----------------------------------------------------------------------------
(* The import statement                                                    *)

absolute_import_try(m) == \A p \in Range(Path[m]) : modules[p] # "absent"

(* Defect: the lookup does not care about the lock.                        *)
FastPath_Unchecked(t, m) == absolute_import_try(m)

FastPath(t, m) == ~lock_held_by_someone_else(t) /\ absolute_import_try(m)

(* With the fast path nothing changes.                                     *)
absolute_import(t, m) ==
    /\ InCode(t) /\ ~FastPath(t, m)
    /\ acquire_lock(t, Frame("finding", Path[m]))

(* What follows a part of the name: the next one, or the end of the        *)
(* import.                                                                 *)
NextPart(t) ==
    LET rest == Tail(Top(t).todo)
    IN  IF rest = <<>> THEN release_lock(t)
        ELSE Replaced(t, Frame("finding", rest)) /\ UNCHANGED <<cur, pc, counts>>

load_part(t) ==
    /\ Does(t, "finding")
    /\ IF modules[Head(Top(t).todo)] # "absent" THEN NextPart(t)
       ELSE /\ Replaced(t, Frame("reading", Top(t).todo))
            /\ UNCHANGED <<cur, pc, counts>>
    /\ UNCHANGED modules

ImportError(t) ==
    /\ Does(t, "reading")
    /\ release_lock(t)
    /\ UNCHANGED modules

load_module(t) ==
    /\ Does(t, "reading")
    /\ modules' = [modules EXCEPT ![Head(Top(t).todo)] = "partial"]
    /\ Replaced(t, Frame("executing", Top(t).todo))
    /\ UNCHANGED <<cur, pc, counts>>

(* The module's code comes to its end, or raises: a module that raised     *)
(* does not stay in sys.modules, and the whole import fails.               *)
executed(t) ==
    /\ Does(t, "executing")
    /\ modules' = [modules EXCEPT ![Head(Top(t).todo)] = "loaded"]
    /\ NextPart(t)

raised(t) ==
    /\ Does(t, "executing")
    /\ modules' = [modules EXCEPT ![Head(Top(t).todo)] = "absent"]
    /\ release_lock(t)

-----------------------------------------------------------------------------
(* imp.acquire_lock, imp.release_lock, and fork                            *)

imp_acquire_lock(t) == InCode(t) /\ acquire_lock(t, Frame("holding", <<>>))

imp_release_lock(t) ==
    /\ Does(t, "holding")
    /\ release_lock(t)
    /\ UNCHANGED modules

fork(t) ==
    /\ InCode(t) /\ (ForkWithLock \/ stack[t] = <<>>)
    /\ acquire_lock(t, Frame("forking", <<>>))

(* Defect: no hook releases the lock in the parent.                        *)
fork_parent_Keeps(t) ==
    /\ Does(t, "forking")
    /\ Popped(t)
    /\ UNCHANGED <<cur, pc, lock, lockowner, lockcounter, modules>>

(* The parent, or the one process there is when the system call failed.    *)
fork_parent(t) ==
    /\ Does(t, "forking")
    /\ release_lock(t)
    /\ UNCHANGED modules

(* Defect: the child does not reset the owner.                             *)
fork_child_KeepsOwner(t) ==
    /\ Does(t, "forking")
    /\ pc' = [u \in Thread |-> IF u = t THEN "run" ELSE "off"]
    /\ stack' = [u \in Thread |->
                    IF u = t THEN SubSeq(stack[t], 1, Depth(t) - 1) ELSE <<>>]
    /\ lock' = FALSE /\ lockcounter' = 0
    /\ UNCHANGED <<cur, lockowner, modules>>

(* The child has the one thread, which keeps the GIL.                      *)
fork_child(t) ==
    /\ Does(t, "forking")
    /\ pc' = [u \in Thread |-> IF u = t THEN "run" ELSE "off"]
    /\ stack' = [u \in Thread |->
                    IF u = t THEN SubSeq(stack[t], 1, Depth(t) - 1) ELSE <<>>]
    /\ lock' = FALSE /\ lockowner' = NoOne /\ lockcounter' = 0
    /\ UNCHANGED <<cur, modules>>

-----------------------------------------------------------------------------
(* Threads, and the specification                                          *)

start(t, u) ==
    /\ InCode(t) /\ pc[u] = "off"
    /\ pc' = [pc EXCEPT ![u] = "run"]
    /\ UNCHANGED <<cur, stack, lock, lockowner, lockcounter, modules>>

end(t) ==
    /\ Runs(t) /\ stack[t] = <<>>
    /\ cur' = NoOne /\ pc' = [pc EXCEPT ![t] = "off"]
    /\ UNCHANGED <<stack, lock, lockowner, lockcounter, modules>>

exited == (\A t \in Thread : pc[t] = "off") /\ UNCHANGED vars

GilStep(t) == LeaveGil(t) \/ EnterGil(t)
LockStep(t) == c_thread_acquirelock(t) \/ acquired(t) \/ c_thread_releaselock(t)
Enters(t) == (\E m \in Module : absolute_import(t, m)) \/ imp_acquire_lock(t) \/ fork(t)
Advances(t) == load_part(t) \/ ImportError(t) \/ load_module(t) \/ executed(t) \/ raised(t)
               \/ imp_release_lock(t) \/ fork_parent(t) \/ fork_child(t)

ThreadStep(t) ==
    \/ GilStep(t) \/ LockStep(t) \/ Enters(t) \/ Advances(t)
    \/ end(t)
    \/ \E u \in Thread : start(t, u)

Next == exited \/ \E t \in Thread : ThreadStep(t)

Spec == Init /\ [][Next]_vars

(* The running thread lets the GIL go now and then (check_interval), a     *)
(* thread that asks for it gets it (module Gil), calls of the system that  *)
(* do not wait return, and the code of a module, a fork or the program     *)
(* between acquire_lock and release_lock comes to its end at each depth of *)
(* the stack.  Which of the waiting threads gets the lock is left to the   *)
(* system.                                                                 *)
Fairness ==
    /\ WF_vars(\E t \in Thread : LeaveGil(t))
    /\ \A t \in Thread : SF_vars(EnterGil(t) \/ acquired(t))
    /\ WF_vars(\E t \in Thread : c_thread_acquirelock(t))
    /\ WF_vars(\E t \in Thread : c_thread_releaselock(t))
    /\ \A d \in 1..MaxDepth : SF_vars(\E t \in Thread : Depth(t) = d /\ Advances(t))

FairSpec == Spec /\ Fairness

-----------------------------------------------------------------------------
(* Properties                                                              *)

Executes(t, m) ==
    \E i \in DOMAIN stack[t] :
        stack[t][i].doing = "executing" /\ Head(stack[t][i].todo) = m
Importing(t) == \E m \in Module : Executes(t, m)

TypeOK ==
    /\ cur \in Thread \cup {NoOne}
    /\ pc \in [Thread -> {"off", "run", "acquiring", "got", "releasing", "released"}]
    /\ stack \in [Thread -> Seq([doing : Doing, todo : Seq(Module)])]
    /\ lock \in BOOLEAN
    /\ lockowner \in Thread \cup {NoOne} /\ lockcounter \in Nat
    /\ modules \in [Module -> {"absent", "partial", "loaded"}]

(* The assertions of acquire_lock and Lock.release: whoever is given the   *)
(* system's lock finds no owner and a count of zero, although the owner is *)
(* reset before the lock is released and set after it is taken, each with  *)
(* the GIL let go in between; and whoever releases it holds it.            *)
AcquiredFree ==
    /\ \A t \in Thread : pc[t] = "got" => lockowner = NoOne /\ lockcounter = 0
    /\ \A t \in Thread : pc[t] \in {"got", "releasing"} => lock
    /\ lock => lockowner # NoOne \/ \E t \in Thread : pc[t] \in {"got", "releasing"}

(* A thread that is past its acquire_lock calls is the owner as often as   *)
(* it has frames, so that no release in a finally clause or in a hook of   *)
(* fork raises "not holding the import lock", and the lock becomes free    *)
(* with the last of them.                                                  *)
HeldWhileImporting ==
    \A t \in Thread :
        IF pc[t] = "run" /\ Depth(t) > 0
          THEN lockowner = t /\ lockcounter = Depth(t)
          ELSE lockowner # t

(* Two threads do not run the code of modules in parallel, in a parent and *)
(* in a child alike.                                                       *)
OneImporter == \A t, u \in Thread : Importing(t) /\ Importing(u) => t = u

(* Imports behave like steps on a table of modules under one lock: a       *)
(* module's code is begun only by the owner, and only while sys.modules    *)
(* does not have the module; it ends in sys.modules or out of it; and the  *)
(* lock is given back, by the last release or by fork in the child, only   *)
(* when no module's code is left half run.                                 *)
Table == INSTANCE ModuleTable WITH
    holder  <- lockowner,
    running <- {p \in Thread \X Module : Executes(p[1], p[2])},
    table   <- modules

ImportsAsTable == Table!Spec

(* No import statement, by the fast path or under the lock, finds a module *)
(* in sys.modules whose code another thread is still running, or one that  *)
(* nobody is going to finish.                                              *)
Finished(t, m) == modules[m] = "partial" => Executes(t, m)
NoPartialSeen ==
    \A t \in Thread :
        /\ InCode(t) => \A m \in Module :
               FastPath(t, m) => \A p \in Range(Path[m]) : Finished(t, p)
        /\ Does(t, "finding") => Finished(t, Head(Top(t).todo))

(* The lock becomes free again and again, so the threads that wait for it  *)
(* go on, also in a child that was forked while they waited.               *)
LockReleased == lock ~> ~lock
=============================================================================
