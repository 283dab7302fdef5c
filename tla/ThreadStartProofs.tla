------------------------- MODULE ThreadStartProofs -------------------------
(***************************************************************************)
(* Start-up data, execution contexts, the main thread and thread-local     *)
(* dictionaries, for every set of threads, identifiers and thread._local   *)
(* objects; at the end, that ThreadStart implements ThreadLife.            *)
(***************************************************************************)
EXTENDS ThreadStart, SequenceTheorems, TLAPS

(* The part of the state that starting and ending threads is about.        *)
PC == {"unborn", "created", "run", "gone", "locking", "locked",
       "launching", "failed", "releasing", "lost"}

ThreadTypes ==
    /\ cur \in Thread \cup {NoOne}
    /\ pc \in [Thread -> PC]
    /\ ident \in [Thread -> Ident \cup {0}]
    /\ bootlock \in BOOLEAN
    /\ callable \in Thread \cup {NoOne}
    /\ started \in [Thread -> Thread \cup {NoOne}]
    /\ took \in [Thread -> Thread \cup {NoOne}]

(* A thread has an identifier while it lives, and it is its own.           *)
Living ==
    /\ \A t \in Thread : ident[t] = 0 <=>
          pc[t] \in {"unborn", "gone"} \/ (pc[t] = "lost" /\ IdentsReused)
    /\ \A t, u \in Thread : ident[t] = ident[u] /\ ident[t] # 0 => t = u
    /\ pc[Main] \notin {"unborn", "gone", "created"}

(* start_new_thread is for one thread, which has not been born.            *)
Starting ==
    /\ \A t \in Thread :
          IF pc[t] \in {"locking", "locked", "launching"}
          THEN started[t] \in Thread /\ pc[started[t]] = "unborn"
          ELSE started[t] = NoOne
    /\ \A t, u \in Thread : started[t] = started[u] /\ started[t] # NoOne => t = u

(* Whoever is between taking the bootstrap lock and releasing it, starter  *)
(* or new thread, is alone there, and the callable is the one in transit.  *)
Booting(t) == pc[t] \in {"locked", "launching", "failed", "created", "releasing"}

Handing ==
    /\ \A t \in Thread : Booting(t) => bootlock
    /\ \A t, u \in Thread : Booting(t) /\ Booting(u) => t = u
    /\ \A t \in Thread : pc[t] = "launching" => callable = started[t]
    /\ \A t \in Thread : pc[t] = "created" => callable = t

BootInv == ThreadTypes /\ Living /\ Starting /\ Handing /\ RightCallable

(* Identifiers lead to the context of the thread that has them, one nobody *)
(* has leads to none, and the minimal cache says what the dictionary says. *)
Contexts ==
    /\ valuedict \in [Ident -> Thread \cup {NoOne}]
    /\ recentkey \in Ident /\ recentvalue = valuedict[recentkey]
    /\ \A t \in Thread : ident[t] # 0 => valuedict[ident[t]] \in {NoOne, t}
    /\ \A i \in Ident : (\A t \in Thread : ident[t] # i) => valuedict[i] = NoOne
    /\ mainident \in Ident /\ mainident = ident[Main] /\ valuedict[mainident] = Main

-----------------------------------------------------------------------------
(* The main thread is alone when the program starts.                       *)
LEMMA InitBoot == Init => BootInv /\ Contexts
<1> SUFFICES ASSUME Init PROVE BootInv /\ Contexts
  OBVIOUS
<1>1. /\ ident = [t \in Thread |-> IF t = Main THEN MainIdent ELSE 0]
      /\ valuedict = [j \in Ident |-> IF j = MainIdent THEN Main ELSE NoOne]
      /\ mainident = MainIdent /\ recentkey = MainIdent /\ recentvalue = Main
  BY DEF Init
<1>2. /\ cur = Main /\ bootlock = FALSE /\ callable = NoOne
      /\ pc = [t \in Thread |-> IF t = Main THEN "run" ELSE "unborn"]
      /\ started = [t \in Thread |-> NoOne] /\ took = [t \in Thread |-> NoOne]
  BY DEF Init
<1>3. ThreadTypes
  BY <1>1, <1>2, ThreadConstants DEF ThreadTypes, PC
<1>4. Living /\ Starting
  BY <1>1, <1>2, ThreadConstants DEF Living, Starting
<1>5. Handing /\ RightCallable
  BY <1>2 DEF Handing, Booting, RightCallable
<1>6. Contexts
  BY <1>1, ThreadConstants DEF Contexts
<1> QED
  BY <1>3, <1>4, <1>5, <1>6 DEF BootInv

(* Steps of a thread that runs the program leave the start-up data alone.  *)
LEMMA BootKept ==
    ASSUME BootInv, UNCHANGED <<threads, boot>>, cur' \in Thread \cup {NoOne}
    PROVE  BootInv'
BY DEF BootInv, ThreadTypes, PC, Living, Starting, Handing, Booting, RightCallable, threads, boot

(* One step per step of a start, and the end of a thread.                  *)
LEMMA StartKeepsBoot ==
    ASSUME BootInv, NEW t \in Thread,
           Start(t) \/ \E u \in Thread : start_new_thread(t, u)
    PROVE  BootInv'
<1> USE ThreadConstants DEF BootInv
<1>1. ASSUME NEW u \in Thread, start_new_thread(t, u) PROVE BootInv'
  <2>1. ThreadTypes'
    BY <1>1 DEF start_new_thread, Goto, ThreadTypes, PC
  <2>2. Living'
    BY <1>1 DEF start_new_thread, Goto, ThreadTypes, Living
  <2>3. Starting'
    BY <1>1 DEF start_new_thread, Goto, ThreadTypes, Starting
  <2>4. Handing' /\ RightCallable'
    BY <1>1 DEF start_new_thread, Goto, ThreadTypes, Starting, Handing, Booting, RightCallable
  <2> QED BY <2>1, <2>2, <2>3, <2>4
<1>2. CASE lock_acquired(t)
  <2>1. ThreadTypes'
    BY <1>2 DEF lock_acquired, Goto, ThreadTypes, PC
  <2>2. Living'
    BY <1>2 DEF lock_acquired, Goto, ThreadTypes, Living
  <2>3. Starting'
    BY <1>2 DEF lock_acquired, Goto, ThreadTypes, Starting
  <2>4. Handing'
    BY <1>2 DEF lock_acquired, Goto, ThreadTypes, Starting, Handing, Booting
  <2>5. RightCallable'
    BY <1>2 DEF lock_acquired, Goto, ThreadTypes, Handing, RightCallable
  <2> QED BY <2>1, <2>2, <2>3, <2>4, <2>5
<1>3. CASE launch(t)
  <2>1. ThreadTypes'
    BY <1>3 DEF launch, Goto, ThreadTypes, PC
  <2>2. Living'
    BY <1>3 DEF launch, Goto, ThreadTypes, Living
  <2>3. Starting'
    BY <1>3 DEF launch, Goto, ThreadTypes, Starting
  <2>4. Handing'
    BY <1>3 DEF launch, Goto, ThreadTypes, Starting, Handing, Booting
  <2>5. RightCallable'
    BY <1>3 DEF launch, Goto, ThreadTypes, Handing, RightCallable
  <2> QED BY <2>1, <2>2, <2>3, <2>4, <2>5
<1>4. CASE RPyThreadStart(t)
  <2> DEFINE u == started[t]
  <2>1. /\ pc[t] = "launching" /\ u \in Thread /\ pc[u] = "unborn" /\ u # t
        /\ callable = u /\ u # Main
    BY <1>4 DEF RPyThreadStart, Starting, Handing, Living
  <2>2. CASE \E i \in Ident : /\ \A v \in Thread : ident[v] # i
                              /\ ident' = [ident EXCEPT ![u] = i]
                              /\ pc' = [pc EXCEPT ![u] = "created", ![t] = "run"]
    <3>1. \A v \in Thread : pc'[v] = IF v = t THEN "run" ELSE IF v = u THEN "created" ELSE pc[v]
      BY <2>1, <2>2 DEF ThreadTypes
    <3>2. ThreadTypes'
      BY <1>4, <2>1, <2>2 DEF RPyThreadStart, ThreadTypes, PC
    <3>3. Living'
      BY <2>1, <2>2, <3>1 DEF ThreadTypes, Living
    <3>4. started' = [started EXCEPT ![t] = NoOne] /\ UNCHANGED <<bootlock, callable, took>>
      BY <1>4 DEF RPyThreadStart
    <3>5. Starting'
      BY <2>1, <3>1, <3>4 DEF ThreadTypes, Starting
    <3>6. Handing' /\ RightCallable'
      BY <2>1, <3>1, <3>4 DEF ThreadTypes, Handing, Booting, RightCallable
    <3> QED BY <3>2, <3>3, <3>5, <3>6
  <2>3. CASE Goto(t, "failed") /\ UNCHANGED ident
    <3>1. /\ pc' = [pc EXCEPT ![t] = "failed"] /\ started' = [started EXCEPT ![t] = NoOne]
          /\ UNCHANGED <<cur, ident, bootlock, callable, took>>
      BY <1>4, <2>3 DEF RPyThreadStart, Goto
    <3>2. ThreadTypes'
      BY <3>1 DEF ThreadTypes, PC
    <3>3. Living' /\ Starting'
      BY <2>1, <3>1 DEF ThreadTypes, Living, Starting
    <3>4. Handing' /\ RightCallable'
      BY <2>1, <3>1 DEF ThreadTypes, Handing, Booting, RightCallable
    <3> QED BY <3>2, <3>3, <3>4
  <2> QED BY <1>4, <2>2, <2>3 DEF RPyThreadStart
<1>5. CASE bootstrap(t)
  <2>1. ThreadTypes'
    BY <1>5 DEF bootstrap, Goto, ThreadTypes, PC
  <2>2. Living'
    BY <1>5 DEF bootstrap, Goto, ThreadTypes, Living
  <2>3. Starting'
    BY <1>5 DEF bootstrap, Goto, ThreadTypes, Starting
  <2>4. Handing'
    BY <1>5 DEF bootstrap, Goto, ThreadTypes, Starting, Handing, Booting
  <2>5. RightCallable'
    BY <1>5 DEF bootstrap, Goto, ThreadTypes, Handing, RightCallable
  <2> QED BY <2>1, <2>2, <2>3, <2>4, <2>5
<1>6. CASE lock_released(t)
  <2>1. ThreadTypes'
    BY <1>6 DEF lock_released, Goto, ThreadTypes, PC
  <2>2. Living'
    BY <1>6 DEF lock_released, Goto, ThreadTypes, Living
  <2>3. Starting'
    BY <1>6 DEF lock_released, Goto, ThreadTypes, Starting
  <2>4. Handing'
    BY <1>6 DEF lock_released, Goto, ThreadTypes, Starting, Handing, Booting
  <2>5. RightCallable'
    BY <1>6 DEF lock_released, Goto, ThreadTypes, Handing, RightCallable
  <2> QED BY <2>1, <2>2, <2>3, <2>4, <2>5
<1> QED
  BY <1>1, <1>2, <1>3, <1>4, <1>5, <1>6 DEF Start

(* A thread ends: it is in no start, and its identifier is free again.     *)
LEMMA LeaveKeepsBoot ==
    ASSUME BootInv, NEW t \in Thread, leave_thread(t)
    PROVE  BootInv'
<1> USE ThreadConstants DEF BootInv
<1>1. /\ pc[t] = "run" /\ t # Main /\ cur' = NoOne
      /\ pc' = [pc EXCEPT ![t] = "gone"] /\ ident' = [ident EXCEPT ![t] = 0]
      /\ UNCHANGED <<bootlock, callable, started, took>>
  BY DEF leave_thread, Runs, Goto, boot
<1>2. ThreadTypes'
  BY <1>1 DEF ThreadTypes, PC
<1>3. Living'
  BY <1>1 DEF ThreadTypes, Living
<1>4. Starting'
  BY <1>1 DEF ThreadTypes, Starting
<1>5. Handing' /\ RightCallable'
  BY <1>1 DEF ThreadTypes, Handing, Booting, RightCallable
<1> QED BY <1>2, <1>3, <1>4, <1>5

(* A fork: whoever was in a start is lost, and the forking thread was not. *)
LEMMA ForkKeepsBoot ==
    ASSUME BootInv, NEW t \in Thread, fork(t)
    PROVE  BootInv'
<1> USE ThreadConstants DEF BootInv
<1>1. /\ pc[t] = "run" /\ UNCHANGED <<cur, took>>
      /\ pc' = [u \in Thread |-> IF u = t \/ pc[u] \in {"unborn", "gone"} THEN pc[u] ELSE "lost"]
      /\ ident' = [u \in Thread |-> IF pc'[u] = "lost" /\ IdentsReused THEN 0 ELSE ident[u]]
      /\ bootlock' = FALSE /\ callable' = NoOne /\ started' = [u \in Thread |-> NoOne]
  BY DEF fork, Runs
<1>2. \A u \in Thread : /\ pc'[u] \in {"run", "unborn", "gone", "lost"}
                        /\ pc'[u] \in {"unborn", "gone"} <=> pc[u] \in {"unborn", "gone"}
  BY <1>1
<1>3. ThreadTypes'
  BY <1>1, <1>2 DEF ThreadTypes, PC
<1>4. Living'
  BY <1>1, <1>2 DEF ThreadTypes, Living
<1>5. Starting' /\ Handing' /\ RightCallable'
  BY <1>1, <1>2 DEF Starting, Handing, Booting, RightCallable
<1> QED BY <1>3, <1>4, <1>5

-----------------------------------------------------------------------------
(* space.getexecutioncontext returns the thread's own context.             *)
LEMMA OwnLookup ==
    ASSUME BootInv, Contexts, NEW t \in Thread, ident[t] # 0
    PROVE  /\ ident[t] \in Ident
           /\ getvalue(t) = valuedict[ident[t]]
           /\ getvalue(t) \in {NoOne, t}
BY DEF BootInv, ThreadTypes, Contexts, getvalue

(* setvalue, by a living thread, of its context or of none at its end.     *)
LEMMA SetvalueKeeps ==
    ASSUME BootInv, Contexts, NEW t \in Thread, ident[t] # 0,
           NEW value \in {NoOne, t}, setvalue(t, value), value = NoOne => t # Main
    PROVE  /\ valuedict' = [valuedict EXCEPT ![ident[t]] = value]
           /\ recentkey' = ident[t] /\ recentvalue' = value
           /\ mainident' = mainident
           /\ valuedict'[mainident] = Main
<1>1. mainident \in Ident /\ valuedict[mainident] # NoOne
  BY ThreadConstants DEF BootInv, ThreadTypes, Living, Contexts
<1>2. ident[t] \in Ident /\ (t # Main => ident[t] # mainident)
  BY ThreadConstants DEF BootInv, ThreadTypes, Living, Contexts
<1> QED
  BY <1>1, <1>2, ThreadConstants DEF setvalue, Contexts

(* A lookup returns the thread's own context, made on the first one.      *)
LEMMA LookupKeeps ==
    ASSUME BootInv, Contexts, NEW t \in Thread, Runs(t), NEW ec \in Thread,
           getexecutioncontext(t, ec), UNCHANGED threads
    PROVE  ec = t /\ Contexts'
<1>1. ident[t] # 0
  BY DEF Runs, BootInv, Living
<1>2. CASE getvalue(t) # NoOne
  BY <1>1, <1>2, OwnLookup DEF getexecutioncontext, Contexts, threads
<1>3. CASE getvalue(t) = NoOne
  <2>1. ec = t /\ setvalue(t, t)
    BY <1>3 DEF getexecutioncontext
  <2>2. /\ valuedict' = [valuedict EXCEPT ![ident[t]] = t]
        /\ recentkey' = ident[t] /\ recentvalue' = t
        /\ mainident' = mainident
        /\ valuedict'[mainident] = Main
    BY <1>1, <2>1, SetvalueKeeps, ThreadConstants
  <2> QED
    BY <1>1, <2>1, <2>2, OwnLookup DEF BootInv, ThreadTypes, Living, Contexts, threads
<1> QED BY <1>2, <1>3

(* Births and steps that do not look up a context keep every entry.        *)
LEMMA ContextsKept ==
    ASSUME BootInv, Contexts, UNCHANGED values,
           \A t \in Thread : ident'[t] = ident[t]
              \/ /\ t # Main /\ ident[t] = 0 /\ ident'[t] \in Ident
                 /\ \A u \in Thread : ident[u] # ident'[t]
    PROVE  Contexts'
<1>1. ident'[Main] = ident[Main]
  BY ThreadConstants DEF BootInv, Living
<1>2. UNCHANGED <<valuedict, recentkey, recentvalue, mainident>>
  BY DEF values
<1>3. ASSUME NEW i \in Ident, \A t \in Thread : ident'[t] # i PROVE valuedict[i] = NoOne
  <2>1. \A t \in Thread : ident[t] # i
    BY <1>3, ThreadConstants
  <2> QED BY <2>1 DEF Contexts
<1>4. ASSUME NEW t \in Thread, ident'[t] # 0 PROVE valuedict[ident'[t]] \in {NoOne, t}
  BY <1>4 DEF Contexts
<1> QED
  BY <1>1, <1>2, <1>3, <1>4 DEF Contexts

(* The entry of a thread that ends goes before its identifier does.        *)
LEMMA LeaveKeepsContexts ==
    ASSUME BootInv, Contexts, NEW t \in Thread, leave_thread(t)
    PROVE  Contexts'
<1>1. ident[t] # 0 /\ t # Main /\ setvalue(t, NoOne) /\ ident' = [ident EXCEPT ![t] = 0]
  BY DEF leave_thread, Runs, BootInv, Living
<1>2. /\ valuedict' = [valuedict EXCEPT ![ident[t]] = NoOne]
      /\ recentkey' = ident[t] /\ recentvalue' = NoOne
      /\ mainident' = mainident
      /\ valuedict'[mainident] = Main
  BY <1>1, SetvalueKeeps
<1>3. ident[t] \in Ident /\ ident[Main] = ident'[Main]
  BY <1>1, OwnLookup, ThreadConstants DEF BootInv, ThreadTypes
<1>4. \A u \in Thread : ident'[u] # 0 => u # t /\ ident'[u] = ident[u] /\ ident[u] # ident[t]
  BY <1>1 DEF BootInv, ThreadTypes, Living
<1>5. ASSUME NEW i \in Ident, \A u \in Thread : ident'[u] # i PROVE valuedict'[i] = NoOne
  BY <1>1, <1>2, <1>5 DEF BootInv, ThreadTypes, Contexts
<1> QED
  BY <1>2, <1>3, <1>4, <1>5 DEF Contexts, BootInv, ThreadTypes

-----------------------------------------------------------------------------
(* One step per group of actions.                                          *)
LEMMA NextBoot == BootInv /\ [Next]_vars => BootInv'
<1> SUFFICES ASSUME BootInv, [Next]_vars PROVE BootInv'
  OBVIOUS
<1>1. CASE UNCHANGED vars \/ exited
  <2>1. UNCHANGED <<threads, boot, cur>>
    BY <1>1 DEF vars, exited, threads, boot
  <2> QED BY <2>1, BootKept DEF BootInv, ThreadTypes
<1>2. ASSUME NEW t \in Thread, take_gil(t) \/ release_gil(t) PROVE BootInv'
  <2>1. UNCHANGED <<threads, boot>> /\ cur' \in Thread \cup {NoOne}
    BY <1>2 DEF take_gil, release_gil
  <2> QED BY <2>1, BootKept
<1>3. ASSUME NEW t \in Thread,
             \/ execute(t) \/ init_returns(t) \/ init_raises(t)
             \/ \E l \in Local : new_local(t, l) \/ getdict(t, l)
      PROVE BootInv'
  <2>1. UNCHANGED <<cur, threads, boot>>
    BY <1>3 DEF execute, new_local, getdict, init_returns, init_raises
  <2> QED BY <2>1, BootKept DEF BootInv, ThreadTypes
<1> QED
  BY <1>1, <1>2, <1>3, StartKeepsBoot, LeaveKeepsBoot, ForkKeepsBoot DEF Next, ThreadStep

LEMMA BootAlways == Spec => []BootInv
<1>1. Init => BootInv
  BY InitBoot
<1> QED BY <1>1, NextBoot, PTL DEF Spec

(* Every entry of OSThreadLocals stays true, in forked children too, if    *)
(* these do not use the identifiers of the threads they have lost.         *)
LEMMA NextContexts ==
    ASSUME ~IdentsReused, BootInv, Contexts, [Next]_vars
    PROVE  Contexts'
<1>0. BootInv'
  BY NextBoot
<1>1. CASE UNCHANGED vars \/ exited
  <2>1. UNCHANGED <<threads, values>>
    BY <1>1 DEF vars, exited, threads, values
  <2> QED BY <2>1, ContextsKept DEF threads
<1>2. ASSUME NEW t \in Thread,
             take_gil(t) \/ release_gil(t) \/ init_returns(t) \/ init_raises(t)
      PROVE Contexts'
  <2>1. UNCHANGED <<threads, values>>
    BY <1>2 DEF take_gil, release_gil, init_returns, init_raises
  <2> QED BY <2>1, ContextsKept DEF threads
<1>3. ASSUME NEW t \in Thread, Start(t) \/ \E u \in Thread : start_new_thread(t, u)
      PROVE Contexts'
  <2>2. UNCHANGED values
    BY <1>3 DEF Start, start_new_thread, lock_acquired, launch, RPyThreadStart, bootstrap, lock_released
  <2>3. CASE RPyThreadStart(t)
    <3>1. started[t] \in Thread /\ started[t] # Main /\ ident[started[t]] = 0
      BY <2>3 DEF RPyThreadStart, BootInv, Starting, Living
    <3>2. CASE UNCHANGED ident
      BY <2>2, <3>2, ContextsKept
    <3>3. CASE \E i \in Ident : /\ \A v \in Thread : ident[v] # i
                                /\ ident' = [ident EXCEPT ![started[t]] = i]
      BY <2>2, <3>1, <3>3, ContextsKept DEF BootInv, ThreadTypes
    <3> QED BY <2>3, <3>2, <3>3 DEF RPyThreadStart
  <2>4. CASE ~RPyThreadStart(t)
    <3>1. UNCHANGED ident
      BY <1>3, <2>4 DEF Start, start_new_thread, lock_acquired, launch, bootstrap, lock_released
    <3> QED BY <2>2, <3>1, ContextsKept
  <2> QED BY <2>3, <2>4
<1>4. ASSUME NEW t \in Thread,
             execute(t) \/ \E l \in Local : new_local(t, l) \/ getdict(t, l)
      PROVE Contexts'
  <2>1. UNCHANGED threads
    BY <1>4 DEF execute, new_local, getdict
  <2>2. Runs(t) /\ \E ec \in Thread : getexecutioncontext(t, ec)
    BY <1>4 DEF execute, new_local, getdict
  <2> QED BY <2>1, <2>2, LookupKeeps
<1>5. ASSUME NEW t \in Thread, fork(t) PROVE Contexts'
  <2>1. UNCHANGED ident
    BY <1>5 DEF fork, BootInv, ThreadTypes
  <2> QED BY <1>5, <2>1, ContextsKept DEF fork
<1> QED
  BY <1>1, <1>2, <1>3, <1>4, <1>5, LeaveKeepsContexts DEF Next, ThreadStep

(* BootInv and Contexts together are inductive then.                       *)
LEMMA ContextsAlways == ~IdentsReused /\ Spec => [](BootInv /\ Contexts)
<1> SUFFICES ASSUME ~IdentsReused PROVE Spec => [](BootInv /\ Contexts)
  OBVIOUS
<1>1. BootInv /\ Contexts /\ [Next]_vars => (BootInv /\ Contexts)'
  BY NextBoot, NextContexts
<1> QED BY <1>1, InitBoot, PTL DEF Spec

(* Two threads that start threads at once never swap the callables.        *)
THEOREM StartUpData == Spec => []RightCallable
<1>1. BootInv => RightCallable
  BY DEF BootInv
<1> QED BY <1>1, BootAlways, PTL

(* A taken bootstrap lock is kept by a thread that does not wait for it,   *)
(* the starter or the thread it has started, and that needs at most the    *)
(* GIL to go on; and whoever has the GIL does not wait in a call of the    *)
(* system.                                                                 *)
BootLockKept ==
    /\ bootlock => \E t \in Thread : Booting(t)
    /\ \A t \in Thread : cur = t => pc[t] \in {"created", "run", "locked", "failed"}

LEMMA NextKept ==
    ASSUME BootInv, BootLockKept, [Next]_vars
    PROVE  BootLockKept'
<1> USE ThreadConstants DEF BootLockKept, Booting
<1>1. ThreadTypes /\ Starting /\ Handing
  BY DEF BootInv
<1>2. CASE UNCHANGED vars \/ exited
  BY <1>2 DEF vars, exited
<1>3. ASSUME NEW t \in Thread,
             \/ take_gil(t) \/ release_gil(t)
             \/ execute(t) \/ init_returns(t) \/ init_raises(t)
             \/ \E l \in Local : new_local(t, l) \/ getdict(t, l)
      PROVE  BootLockKept'
  <2>1. UNCHANGED <<pc, bootlock>>
    BY <1>3 DEF take_gil, release_gil, execute, init_returns, init_raises, new_local, getdict,
                threads, boot
  <2>2. cur' \in {cur, NoOne} \/ (cur' = t /\ pc[t] \in {"created", "run", "locked", "failed"})
    BY <1>3 DEF take_gil, release_gil, execute, init_returns, init_raises, new_local, getdict
  <2> QED
    BY <2>1, <2>2
<1>4. ASSUME NEW t \in Thread, NEW now \in PC,
             pc' = [pc EXCEPT ![t] = now],
             cur' = NoOne \/ (cur' = cur /\ cur # t) \/ now \in {"created", "run", "locked", "failed"},
             cur' \in {cur, NoOne},
             bootlock' => bootlock \/ now \in {"locked", "launching", "failed", "created", "releasing"},
             Booting(t) /\ bootlock' => now \in {"locked", "launching", "failed", "created", "releasing"}
      PROVE  BootLockKept'
  <2>1. pc'[t] = now /\ \A u \in Thread \ {t} : pc'[u] = pc[u]
    BY <1>1, <1>4 DEF ThreadTypes
  <2> QED
    BY <1>4, <2>1
<1>5. ASSUME NEW t \in Thread, NEW u \in Thread, start_new_thread(t, u)
      PROVE  BootLockKept'
  BY <1>4, <1>5 DEF start_new_thread, Goto, PC
<1>6. ASSUME NEW t \in Thread, lock_acquired(t) PROVE BootLockKept'
  BY <1>4, <1>6 DEF lock_acquired, Goto, PC
<1>7. ASSUME NEW t \in Thread, launch(t) PROVE BootLockKept'
  BY <1>4, <1>7 DEF launch, Goto, PC
<1>8. ASSUME NEW t \in Thread, RPyThreadStart(t) PROVE BootLockKept'
  <2>1. /\ pc[t] = "launching" /\ started[t] \in Thread /\ started[t] # t
        /\ UNCHANGED <<cur, bootlock>>
    BY <1>1, <1>8 DEF RPyThreadStart, Starting
  <2>2. CASE pc' = [pc EXCEPT ![started[t]] = "created", ![t] = "run"]
    <3>1. /\ pc'[t] = "run" /\ pc'[started[t]] = "created"
          /\ \A v \in Thread \ {t, started[t]} : pc'[v] = pc[v]
      BY <1>1, <2>1, <2>2 DEF ThreadTypes
    <3> QED
      BY <2>1, <3>1
  <2>3. CASE Goto(t, "failed")
    BY <1>4, <2>1, <2>3 DEF Goto, PC
  <2> QED
    BY <1>8, <2>2, <2>3 DEF RPyThreadStart
<1>9. ASSUME NEW t \in Thread, bootstrap(t) PROVE BootLockKept'
  BY <1>4, <1>9 DEF bootstrap, Goto, PC
<1>10. ASSUME NEW t \in Thread, lock_released(t) PROVE BootLockKept'
  BY <1>4, <1>10 DEF lock_released, Goto, PC
<1>11. ASSUME NEW t \in Thread, leave_thread(t) PROVE BootLockKept'
  BY <1>4, <1>11 DEF leave_thread, Runs, Goto, PC, boot
<1>12. ASSUME NEW t \in Thread, fork(t) PROVE BootLockKept'
  <2>1. bootlock' = FALSE /\ cur' = t /\ pc'[t] = "run"
    BY <1>12 DEF fork, Runs
  <2> QED
    BY <2>1
<1> QED
  BY <1>2, <1>3, <1>5, <1>6, <1>7, <1>8, <1>9, <1>10, <1>11, <1>12 DEF Next, ThreadStep, Start

(* So no start of a thread waits for a thread that is lost or itself       *)
(* waits, nor does it in a child that was forked during a start.           *)
THEOREM BootLockAlwaysKept == Spec => []BootLockKept
<1>1. Init => BootInv /\ BootLockKept
  <2>1. Init => BootLockKept
    BY ThreadConstants DEF Init, BootLockKept, Booting
  <2> QED
    BY <2>1, InitBoot
<1>2. BootInv /\ BootLockKept /\ [Next]_vars => (BootInv /\ BootLockKept)'
  BY NextBoot, NextKept
<1> QED
  BY <1>1, <1>2, PTL DEF Spec

(* A reused identifier never leads to the context of the thread before.    *)
THEOREM ContextsOwn == ~IdentsReused /\ Spec => []OwnContext
<1>1. BootInv /\ Contexts => OwnContext
  <2> SUFFICES ASSUME BootInv, Contexts, NEW t \in Thread, pc[t] \in {"run", "created"}
               PROVE  getvalue(t) \in {NoOne, t}
    BY DEF OwnContext
  <2>1. ident[t] # 0
    BY DEF BootInv, Living
  <2> QED BY <2>1, OwnLookup
<1> QED BY <1>1, ContextsAlways, PTL

(* No other thread is ever taken for the main thread.                      *)
THEOREM OneMain == ~IdentsReused /\ Spec => []OnlyMain
<1>1. BootInv /\ Contexts => OnlyMain
  BY ThreadConstants DEF BootInv, Living, Contexts, OnlyMain, ismainthread
<1> QED BY <1>1, ContextsAlways, PTL

-----------------------------------------------------------------------------
(***************************************************************************)
(* thread._local.  In(t, l, kind): t is in an __init__ of l, called by the *)
(* creation of l or by an access.                                          *)
(***************************************************************************)
Entry == [local : Local, kind : {"new", "access"}]

In(t, l, kind) == \E n \in 1..Len(init[t]) : init[t][n] = [local |-> l, kind |-> kind]

InitOK == /\ init \in [Thread -> Seq(Entry)]
          /\ \A t \in Thread : \A n, m \in 1..Len(init[t]) : init[t][n] = init[t][m] => n = m

LocalTypes ==
    /\ dicts \in [Local -> [Thread -> 0..MaxTries]]
    /\ tries \in [Local -> [Thread -> 0..MaxTries]]
    /\ last \in [Local -> [ec : Thread \cup {NoOne}, of : Thread \cup {NoOne}, dict : 0..MaxTries]]
    /\ ready \subseteq Local \X Thread \X (1..MaxTries)
    /\ registered \in [Thread -> SUBSET Local]

(* A dictionary is registered or still in its __init__, and never both;    *)
(* it is the last one made; once registered and past the creation of the   *)
(* object it is initialised; no dictionary outlives its thread.            *)
Registered(t, l) ==
    /\ \A kind \in {"new", "access"} : In(t, l, kind) => tries[l][t] # 0
    /\ In(t, l, "new") => l \in registered[t]
    /\ In(t, l, "access") => l \notin registered[t] /\ dicts[l][t] # 0
    /\ l \in registered[t] => dicts[l][t] # 0
    /\ dicts[l][t] # 0 => l \in registered[t] \/ In(t, l, "access")
    /\ dicts[l][t] \in {0, tries[l][t]}
    /\ l \in registered[t] /\ ~In(t, l, "new") => <<l, t, dicts[l][t]>> \in ready
    /\ pc[t] = "gone" => dicts[l][t] = 0

(* The cache points to the dictionary of the thread it is for.             *)
CacheTrue(l) == \A t \in Thread :
    last[l].ec = t => last[l].of = t /\ last[l].dict = dicts[l][t] /\ dicts[l][t] # 0

LocalInv ==
    /\ InitOK /\ LocalTypes
    /\ \A t \in Thread, l \in Local : Registered(t, l)
    /\ "cached" \notin InitRaises => \A l \in Local : CacheTrue(l)

Kind == {"new", "access"}

(* Entering an __init__ that t is not in adds that one.                    *)
LEMMA EnterInit ==
    ASSUME InitOK, NEW t \in Thread, NEW l \in Local, NEW kind \in Kind,
           Enter(t, l, kind), ~In(t, l, kind)
    PROVE  /\ InitOK'
           /\ \A u \in Thread, x \in Local, k \in Kind :
                 In(u, x, k)' <=> In(u, x, k) \/ (u = t /\ x = l /\ k = kind)
<1> DEFINE e == [local |-> l, kind |-> kind]
           s == Append(init[t], e)
<1>1. e \in Entry /\ init[t] \in Seq(Entry)
  BY DEF Entry, Kind, InitOK
<1>2. /\ s \in Seq(Entry) /\ Len(s) = Len(init[t]) + 1
      /\ \A n \in 1..Len(init[t]) : s[n] = init[t][n]
      /\ s[Len(init[t]) + 1] = e
  BY <1>1, AppendProperties
<1>3. \A u \in Thread : init'[u] = IF u = t THEN s ELSE init[u]
  BY DEF Enter, InitOK
<1>4. init' \in [Thread -> Seq(Entry)]
  BY <1>2 DEF Enter, InitOK
<1>5. Len(init[t]) \in Nat /\ \A n \in 1..Len(init[t]) : init[t][n] # e
  BY <1>1 DEF In
<1>6. \A n, m \in 1..Len(s) : s[n] = s[m] => n = m
  <2>1. \A n \in 1..Len(s) : n \in 1..Len(init[t]) \/ n = Len(init[t]) + 1
    BY <1>2, <1>5
  <2> QED BY <1>2, <1>5, <2>1 DEF InitOK
<1>7. InitOK'
  BY <1>3, <1>4, <1>6 DEF InitOK
<1>8. ASSUME NEW u \in Thread, NEW x \in Local, NEW k \in Kind
      PROVE  In(u, x, k)' <=> In(u, x, k) \/ (u = t /\ x = l /\ k = kind)
  <2>1. CASE u # t
    BY <1>3, <2>1 DEF In
  <2>2. CASE u = t
    <3>1. In(t, x, k)' <=> \E n \in 1..Len(s) : s[n] = [local |-> x, kind |-> k]
      BY <1>3 DEF In
    <3>2. (\E n \in 1..Len(s) : s[n] = [local |-> x, kind |-> k])
          <=> (\E n \in 1..Len(init[t]) : init[t][n] = [local |-> x, kind |-> k])
              \/ e = [local |-> x, kind |-> k]
      <4>1. \A n \in 1..Len(s) : n \in 1..Len(init[t]) \/ n = Len(init[t]) + 1
        BY <1>2, <1>5
      <4>2. \A n \in 1..Len(init[t]) : n \in 1..Len(s)
        BY <1>2, <1>5
      <4>3. Len(init[t]) + 1 \in 1..Len(s)
        BY <1>2, <1>5
      <4> QED BY <1>2, <4>1, <4>2, <4>3
    <3>3. e = [local |-> x, kind |-> k] <=> x = l /\ k = kind
      OBVIOUS
    <3> QED BY <2>2, <3>1, <3>2, <3>3 DEF In
  <2> QED BY <2>1, <2>2
<1> QED BY <1>7, <1>8

(* Leaving the innermost one removes that one.                             *)
LEMMA LeaveInit ==
    ASSUME InitOK, NEW t \in Thread, init[t] # <<>>, Leave(t)
    PROVE  /\ InitOK' /\ Innermost(t) \in Entry
           /\ In(t, Innermost(t).local, Innermost(t).kind)
           /\ \A u \in Thread, x \in Local, k \in Kind :
                 In(u, x, k)' <=> In(u, x, k) /\ ~(u = t /\ Innermost(t) = [local |-> x, kind |-> k])
<1> DEFINE e == Innermost(t)
           top == Len(init[t])
           s == SubSeq(init[t], 1, top - 1)
<1>1. init[t] \in Seq(Entry) /\ top \in Nat /\ top \in 1..top
  BY DEF InitOK
<1>2. e = init[t][top] /\ e \in Entry
  BY <1>1 DEF Innermost
<1>3. /\ s \in Seq(Entry) /\ Len(s) = top - 1
      /\ \A n \in 1..top - 1 : s[n] = init[t][n]
  BY <1>1
<1>4. \A u \in Thread : init'[u] = IF u = t THEN s ELSE init[u]
  BY DEF Leave, InitOK
<1>5. init' \in [Thread -> Seq(Entry)]
  BY <1>3 DEF Leave, InitOK
<1>6. \A n, m \in 1..Len(s) : s[n] = s[m] => n = m
  BY <1>1, <1>3 DEF InitOK
<1>7. InitOK'
  BY <1>4, <1>5, <1>6 DEF InitOK
<1>8. In(t, e.local, e.kind)
  <2>1. e = [local |-> e.local, kind |-> e.kind]
    BY <1>2 DEF Entry
  <2> QED BY <1>1, <1>2, <2>1 DEF In
<1>9. ASSUME NEW u \in Thread, NEW x \in Local, NEW k \in Kind
      PROVE  In(u, x, k)' <=> In(u, x, k) /\ ~(u = t /\ e = [local |-> x, kind |-> k])
  <2>1. CASE u # t
    BY <1>4, <2>1 DEF In
  <2>2. CASE u = t
    <3>1. In(t, x, k)' <=> \E n \in 1..top - 1 : init[t][n] = [local |-> x, kind |-> k]
      BY <1>3, <1>4 DEF In
    <3>2. \A n \in 1..top : init[t][n] = e => n = top
      BY <1>1, <1>2 DEF InitOK
    <3> DEFINE f == [local |-> x, kind |-> k]
    <3> HIDE DEF f
    <3>3. (\E n \in 1..top - 1 : init[t][n] = f) <=> (\E n \in 1..top : init[t][n] = f) /\ e # f
      <4>1. \A n \in 1..top : n \in 1..top - 1 \/ n = top
        BY <1>1
      <4>2. \A n \in 1..top - 1 : n \in 1..top /\ n # top
        BY <1>1
      <4> QED BY <1>2, <3>2, <4>1, <4>2
    <3> QED BY <2>2, <3>1, <3>3 DEF In, f
  <2> QED BY <2>1, <2>2
<1> QED BY <1>2, <1>7, <1>8, <1>9

-----------------------------------------------------------------------------
(* No object exists when the program starts.                               *)
LEMMA InitLocals == Init => LocalInv
<1> SUFFICES ASSUME Init PROVE LocalInv
  OBVIOUS
<1>1. /\ init = [t \in Thread |-> <<>>] /\ registered = [t \in Thread |-> {}]
      /\ ready = {} /\ last = [l \in Local |-> NoLast]
      /\ dicts = [l \in Local |-> [t \in Thread |-> 0]]
      /\ tries = [l \in Local |-> [t \in Thread |-> 0]]
      /\ \A t \in Thread : pc[t] # "gone"
  BY DEF Init
<1>2. InitOK /\ \A t \in Thread, l \in Local, kind \in Kind : ~In(t, l, kind)
  BY <1>1 DEF InitOK, In
<1>3. LocalTypes
  BY <1>1, ThreadConstants DEF LocalTypes, NoLast
<1>4. \A t \in Thread, l \in Local : Registered(t, l)
  BY <1>1, <1>2 DEF Registered, Kind
<1>5. \A l \in Local : CacheTrue(l)
  BY <1>1, ThreadConstants DEF CacheTrue, NoLast
<1> QED BY <1>2, <1>3, <1>4, <1>5 DEF LocalInv

(* Steps outside of thread._local; none of them is the end of a thread.    *)
LEMMA LocalsKept ==
    ASSUME LocalInv, UNCHANGED locals, \A t \in Thread : pc'[t] = "gone" => pc[t] = "gone"
    PROVE  LocalInv'
<1>1. UNCHANGED <<dicts, last, tries, ready, registered, init>>
  BY DEF locals
<1>2. InitOK' /\ LocalTypes'
  BY <1>1 DEF LocalInv, InitOK, LocalTypes
<1>3. \A t \in Thread, l \in Local, kind \in Kind : In(t, l, kind)' <=> In(t, l, kind)
  BY <1>1 DEF In
<1>4. \A t \in Thread, l \in Local : Registered(t, l)'
  BY <1>1, <1>3 DEF LocalInv, Registered, Kind
<1>5. "cached" \notin InitRaises => \A l \in Local : CacheTrue(l)'
  BY <1>1 DEF LocalInv, CacheTrue
<1> QED BY <1>2, <1>4, <1>5 DEF LocalInv

(* A new object: the creator's dictionary is made, registered and cached.  *)
LEMMA NewLocalKeeps ==
    ASSUME BootInv, Contexts, LocalInv, NEW t \in Thread, NEW l \in Local, new_local(t, l)
    PROVE  LocalInv'
<1>1. /\ Runs(t) /\ tries[l][t] < MaxTries /\ UNCHANGED <<pc, ready>>
      /\ tries' = [tries EXCEPT ![l][t] = @ + 1]
      /\ dicts' = [dicts EXCEPT ![l][t] = tries[l][t] + 1]
      /\ registered' = [registered EXCEPT ![t] = @ \cup {l}]
      /\ last' = [last EXCEPT ![l] = [ec |-> t, of |-> t, dict |-> tries[l][t] + 1]]
      /\ Enter(t, l, "new")
  <2>1. PICK ec \in Thread : /\ getexecutioncontext(t, ec) /\ NewDict(ec, l)
                             /\ Register(ec, l) /\ Cache(ec, l, tries[l][ec] + 1)
    BY DEF new_local
  <2>2. ec = t
    BY <2>1, LookupKeeps DEF new_local
  <2> QED BY <2>1, <2>2 DEF new_local, NewDict, Register, Cache, threads
<1>2. \A u \in Thread : tries[l][u] = 0
  BY DEF new_local, Exists, LocalInv, LocalTypes
<1>3. \A u \in Thread : /\ \A kind \in Kind : ~In(u, l, kind)
                        /\ l \notin registered[u] /\ dicts[l][u] = 0
  BY <1>2 DEF LocalInv, Registered, Kind
<1>4. /\ InitOK'
      /\ \A u \in Thread, x \in Local, k \in Kind :
            In(u, x, k)' <=> In(u, x, k) \/ (u = t /\ x = l /\ k = "new")
  BY <1>1, <1>3, EnterInit DEF LocalInv, Kind
<1>5. LocalTypes'
  BY <1>1, ThreadConstants DEF LocalInv, LocalTypes
<1>6. ASSUME NEW u \in Thread, NEW x \in Local PROVE Registered(u, x)'
  <2>1. CASE x = l /\ u = t
    BY <1>1, <1>2, <1>3, <1>4, <2>1, ThreadConstants DEF LocalInv, LocalTypes, Registered, Kind, Runs
  <2>2. CASE ~(x = l /\ u = t)
    <3>1. /\ tries'[x][u] = tries[x][u] /\ dicts'[x][u] = dicts[x][u]
          /\ x \in registered'[u] <=> x \in registered[u]
      BY <1>1, <2>2 DEF LocalInv, LocalTypes
    <3> QED BY <1>1, <1>4, <2>2, <3>1 DEF LocalInv, Registered, Kind
  <2> QED BY <2>1, <2>2
<1>7. ASSUME "cached" \notin InitRaises, NEW x \in Local PROVE CacheTrue(x)'
  <2>1. CASE x = l
    BY <1>1, <1>2, <2>1, ThreadConstants DEF LocalInv, LocalTypes, CacheTrue
  <2>2. CASE x # l
    <3>1. last'[x] = last[x] /\ dicts'[x] = dicts[x]
      BY <1>1, <2>2 DEF LocalInv, LocalTypes
    <3> QED BY <1>7, <3>1 DEF LocalInv, CacheTrue
  <2> QED BY <2>1, <2>2
<1> QED BY <1>4, <1>5, <1>6, <1>7 DEF LocalInv

(* An access: the cache is used or set, or a dictionary is made.           *)
LEMMA GetdictKeeps ==
    ASSUME BootInv, Contexts, LocalInv, NEW t \in Thread, NEW l \in Local, getdict(t, l)
    PROVE  LocalInv'
<1>1. /\ UNCHANGED <<pc, ready, registered>> /\ Runs(t)
      /\ \/ UNCHANGED <<dicts, last, tries, init>>
         \/ /\ dicts[l][t] # 0 /\ Cache(t, l, dicts[l][t])
            /\ UNCHANGED <<dicts, tries, init>>
         \/ /\ last[l].ec # t /\ dicts[l][t] = 0
            /\ NewDict(t, l) /\ Enter(t, l, "access")
            /\ UNCHANGED last
  <2>1. PICK ec \in Thread : /\ getexecutioncontext(t, ec)
         /\ \/ last[l].ec = ec /\ UNCHANGED <<dicts, last, tries, init>>
            \/ /\ last[l].ec # ec /\ dicts[l][ec] # 0
               /\ Cache(ec, l, dicts[l][ec])
               /\ UNCHANGED <<dicts, tries, init>>
            \/ /\ last[l].ec # ec /\ dicts[l][ec] = 0
               /\ NewDict(ec, l)
               /\ Enter(t, l, "access")
               /\ UNCHANGED last
    BY DEF getdict
  <2>2. ec = t
    BY <2>1, LookupKeeps DEF getdict
  <2> QED BY <2>1, <2>2 DEF getdict, threads
<1>2. CASE UNCHANGED <<dicts, last, tries, init>>
  BY <1>1, <1>2, LocalsKept DEF locals
<1>3. CASE /\ dicts[l][t] # 0 /\ Cache(t, l, dicts[l][t])
           /\ UNCHANGED <<dicts, tries, init>>
  <2>1. InitOK' /\ LocalTypes'
    BY <1>1, <1>3 DEF Cache, LocalInv, InitOK, LocalTypes
  <2>2. \A u \in Thread, x \in Local, kind \in Kind : In(u, x, kind)' <=> In(u, x, kind)
    BY <1>3 DEF In
  <2>3. \A u \in Thread, x \in Local : Registered(u, x)'
    BY <1>1, <1>3, <2>2 DEF LocalInv, Registered, Kind
  <2>4. ASSUME "cached" \notin InitRaises, NEW x \in Local PROVE CacheTrue(x)'
    BY <1>3, <2>4, ThreadConstants DEF Cache, LocalInv, LocalTypes, CacheTrue
  <2> QED BY <2>1, <2>3, <2>4 DEF LocalInv
<1>4. CASE /\ last[l].ec # t /\ dicts[l][t] = 0
           /\ NewDict(t, l) /\ Enter(t, l, "access")
           /\ UNCHANGED last
  <2>1. /\ tries[l][t] < MaxTries
        /\ tries' = [tries EXCEPT ![l][t] = @ + 1]
        /\ dicts' = [dicts EXCEPT ![l][t] = tries[l][t] + 1]
    BY <1>4 DEF NewDict
  <2>2. ~In(t, l, "access") /\ l \notin registered[t]
    BY <1>4 DEF LocalInv, Registered
  <2>3. /\ InitOK'
        /\ \A u \in Thread, x \in Local, k \in Kind :
              In(u, x, k)' <=> In(u, x, k) \/ (u = t /\ x = l /\ k = "access")
    BY <1>4, <2>2, EnterInit DEF LocalInv, Kind
  <2>4. LocalTypes'
    BY <1>1, <1>4, <2>1, ThreadConstants DEF LocalInv, LocalTypes
  <2>5. ASSUME NEW u \in Thread, NEW x \in Local PROVE Registered(u, x)'
    <3>1. CASE x = l /\ u = t
      <4>1. ~In(t, l, "new") /\ ~In(t, l, "new")' /\ In(t, l, "access")'
        BY <2>2, <2>3 DEF LocalInv, Registered, Kind
      <4>2. dicts'[l][t] = tries[l][t] + 1 /\ tries'[l][t] = tries[l][t] + 1 /\ dicts'[l][t] # 0
        BY <2>1 DEF LocalInv, LocalTypes
      <4>3. l \notin registered'[t] /\ pc'[t] # "gone"
        BY <1>1, <2>2 DEF Runs
      <4> QED BY <3>1, <4>1, <4>2, <4>3 DEF Registered
    <3>2. CASE ~(x = l /\ u = t)
      <4>1. tries'[x][u] = tries[x][u] /\ dicts'[x][u] = dicts[x][u]
        BY <2>1, <3>2 DEF LocalInv, LocalTypes
      <4> QED BY <1>1, <2>3, <3>2, <4>1 DEF LocalInv, Registered, Kind
    <3> QED BY <3>1, <3>2
  <2>6. ASSUME "cached" \notin InitRaises, NEW x \in Local PROVE CacheTrue(x)'
    BY <1>4, <2>1, <2>6, ThreadConstants DEF LocalInv, LocalTypes, CacheTrue
  <2> QED BY <2>3, <2>4, <2>5, <2>6 DEF LocalInv
<1> QED BY <1>1, <1>2, <1>3, <1>4

(* __init__ returns: the dictionary is initialised, and registered if it   *)
(* was not.                                                                *)
LEMMA ReturnKeeps ==
    ASSUME LocalInv, NEW t \in Thread, init_returns(t)
    PROVE  LocalInv'
<1>0. /\ init[t] # <<>> /\ Leave(t)
  BY DEF init_returns
<1>a. /\ InitOK' /\ Innermost(t) \in Entry
      /\ In(t, Innermost(t).local, Innermost(t).kind)
      /\ \A u \in Thread, x \in Local, k \in Kind :
            In(u, x, k)' <=> In(u, x, k) /\ ~(u = t /\ Innermost(t) = [local |-> x, kind |-> k])
  BY <1>0, LeaveInit DEF LocalInv
<1>b. PICK l \in Local, kind \in Kind : Innermost(t) = [local |-> l, kind |-> kind]
  BY <1>a DEF Entry, Kind
<1>c. Innermost(t).local = l /\ Innermost(t).kind = kind
  BY <1>b
<1> DEFINE n == tries[l][t]
<1>1. /\ Runs(t) /\ UNCHANGED <<pc, dicts, tries>>
      /\ ready' = ready \cup {<<l, t, n>>}
  BY <1>c DEF init_returns, threads
<1>2. /\ InitOK' /\ In(t, l, kind)
      /\ \A u \in Thread, x \in Local, k \in Kind :
            In(u, x, k)' <=> In(u, x, k) /\ ~(u = t /\ x = l /\ k = kind)
  <2>1. \A x \in Local, k \in Kind : Innermost(t) = [local |-> x, kind |-> k] <=> x = l /\ k = kind
    BY <1>b
  <2> QED BY <1>a, <1>c, <2>1
<1>4. n \in 1..MaxTries
  <2>1. n # 0
    BY <1>2 DEF LocalInv, Registered, Kind
  <2>2. n \in 0..MaxTries
    BY DEF LocalInv, LocalTypes
  <2> QED BY <2>1, <2>2, ThreadConstants
<1>5. CASE kind = "new" /\ UNCHANGED <<last, registered>>
  <2>1. LocalTypes'
    BY <1>1, <1>4, <1>5 DEF LocalInv, LocalTypes
  <2>2. ASSUME NEW u \in Thread, NEW x \in Local PROVE Registered(u, x)'
    <3>1. CASE u = t /\ x = l
      BY <1>1, <1>2, <1>5, <3>1 DEF LocalInv, Registered, Kind, Runs
    <3>2. CASE ~(u = t /\ x = l)
      <4>1. \A k \in Kind : In(u, x, k)' <=> In(u, x, k)
        BY <1>2, <3>2
      <4> QED BY <1>1, <1>5, <4>1 DEF LocalInv, Registered, Kind
    <3> QED BY <3>1, <3>2
  <2>3. "cached" \notin InitRaises => \A x \in Local : CacheTrue(x)'
    BY <1>1, <1>5 DEF LocalInv, CacheTrue
  <2> QED BY <1>2, <2>1, <2>2, <2>3 DEF LocalInv
<1>6. CASE kind = "access" /\ Register(t, l) /\ Cache(t, l, n)
  <2>1. /\ registered' = [registered EXCEPT ![t] = @ \cup {l}]
        /\ last' = [last EXCEPT ![l] = [ec |-> t, of |-> t, dict |-> n]]
    BY <1>6 DEF Register, Cache
  <2>2. l \notin registered[t] /\ dicts[l][t] = n /\ n # 0
    BY <1>2, <1>4, <1>6 DEF LocalInv, Registered
  <2>3. LocalTypes'
    BY <1>1, <1>4, <2>1 DEF LocalInv, LocalTypes
  <2>4. ASSUME NEW u \in Thread, NEW x \in Local PROVE Registered(u, x)'
    <3>1. \A k \in Kind : In(u, x, k)' => In(u, x, k)
      BY <1>2
    <3>2. CASE u = t /\ x = l
      <4>1. ~In(t, l, "access")'
        BY <1>2, <1>6 DEF Kind
      <4>2. l \in registered'[t] /\ <<l, t, dicts[l][t]>> \in ready'
        BY <1>1, <2>1, <2>2 DEF LocalInv, LocalTypes
      <4>3. tries'[l][t] # 0 /\ dicts'[l][t] = tries'[l][t] /\ pc'[t] # "gone"
        BY <1>1, <2>2 DEF Runs
      <4> QED BY <1>1, <2>2, <3>2, <4>1, <4>2, <4>3 DEF Registered
    <3>3. CASE ~(u = t /\ x = l)
      <4>1. \A k \in Kind : In(u, x, k)' <=> In(u, x, k)
        BY <1>2, <3>3
      <4>2. x \in registered'[u] <=> x \in registered[u]
        BY <2>1, <3>3 DEF LocalInv, LocalTypes
      <4> QED BY <1>1, <4>1, <4>2 DEF LocalInv, Registered, Kind
    <3> QED BY <3>2, <3>3
  <2>5. ASSUME "cached" \notin InitRaises, NEW x \in Local PROVE CacheTrue(x)'
    BY <1>1, <2>1, <2>2, <2>5, ThreadConstants DEF LocalInv, LocalTypes, CacheTrue
  <2> QED BY <1>2, <2>3, <2>4, <2>5 DEF LocalInv
<1> QED BY <1>5, <1>6, <1>c DEF init_returns

(* __init__ raises: the dictionary, not registered yet, is deleted.        *)
LEMMA RaiseKeeps ==
    ASSUME LocalInv, NEW t \in Thread, init_raises(t)
    PROVE  LocalInv'
<1>0. init[t] # <<>> /\ Leave(t) /\ Innermost(t).kind = "access"
  BY DEF init_raises
<1>a. /\ InitOK' /\ Innermost(t) \in Entry
      /\ In(t, Innermost(t).local, Innermost(t).kind)
      /\ \A u \in Thread, x \in Local, k \in Kind :
            In(u, x, k)' <=> In(u, x, k) /\ ~(u = t /\ Innermost(t) = [local |-> x, kind |-> k])
  BY <1>0, LeaveInit DEF LocalInv
<1>b. PICK l \in Local : Innermost(t) = [local |-> l, kind |-> "access"]
  BY <1>0, <1>a DEF Entry
<1>c. Innermost(t).local = l
  BY <1>b
<1>1. /\ Runs(t) /\ UNCHANGED <<pc, tries, last, ready, registered>>
      /\ dicts' = [dicts EXCEPT ![l][t] = 0]
      /\ (IF last[l].ec = t THEN "cached" ELSE "uncached") \in InitRaises
  BY <1>c DEF init_raises, threads
<1>2. /\ InitOK' /\ In(t, l, "access")
      /\ \A u \in Thread, x \in Local, k \in Kind :
            In(u, x, k)' <=> In(u, x, k) /\ ~(u = t /\ x = l /\ k = "access")
  <2>1. \A x \in Local, k \in Kind :
           Innermost(t) = [local |-> x, kind |-> k] <=> x = l /\ k = "access"
    BY <1>b
  <2> QED BY <1>0, <1>a, <1>c, <2>1
<1>4. l \notin registered[t] /\ ~In(t, l, "access")'
  BY <1>1, <1>2 DEF LocalInv, Registered, Kind
<1>5. LocalTypes'
  BY <1>1, ThreadConstants DEF LocalInv, LocalTypes
<1>6. ASSUME NEW u \in Thread, NEW x \in Local PROVE Registered(u, x)'
  <2>1. CASE u = t /\ x = l
    <3>1. ~In(t, l, "new") /\ ~In(t, l, "new")' /\ ~In(t, l, "access")'
      BY <1>2, <1>4 DEF LocalInv, Registered, Kind
    <3>2. dicts'[l][t] = 0 /\ tries'[l][t] = tries[l][t] /\ l \notin registered'[t]
      BY <1>1, <1>4 DEF LocalInv, LocalTypes
    <3> QED BY <2>1, <3>1, <3>2 DEF Registered
  <2>2. CASE ~(u = t /\ x = l)
    <3>1. \A k \in Kind : In(u, x, k)' <=> In(u, x, k)
      BY <1>2, <2>2
    <3>2. dicts'[x][u] = dicts[x][u]
      BY <1>1, <2>2 DEF LocalInv, LocalTypes
    <3> QED BY <1>1, <3>1, <3>2 DEF LocalInv, Registered, Kind
  <2> QED BY <2>1, <2>2
<1>7. ASSUME "cached" \notin InitRaises, NEW x \in Local PROVE CacheTrue(x)'
  BY <1>1, <1>7 DEF LocalInv, LocalTypes, CacheTrue
<1> QED BY <1>2, <1>5, <1>6, <1>7 DEF LocalInv

(* thread_is_stopping: what is registered is everything there is.          *)
LEMMA LeaveKeepsLocals ==
    ASSUME BootInv, Contexts, LocalInv, NEW t \in Thread, leave_thread(t)
    PROVE  LocalInv'
<1>1. ident[t] # 0 /\ getvalue(t) # NoOne
  BY DEF leave_thread, Runs, BootInv, Living
<1>2. getvalue(t) = t
  BY <1>1, OwnLookup
<1>3. /\ init[t] = <<>> /\ UNCHANGED <<tries, ready, init>>
      /\ dicts' = [l \in Local |-> IF l \in registered[t] THEN [dicts[l] EXCEPT ![t] = 0] ELSE dicts[l]]
      /\ last' = [l \in Local |-> IF l \in registered[t] THEN NoLast ELSE last[l]]
      /\ registered' = [registered EXCEPT ![t] = {}]
      /\ pc' = [pc EXCEPT ![t] = "gone"]
  BY <1>2 DEF leave_thread, Goto
<1>4. InitOK'
  BY <1>3 DEF LocalInv, InitOK
<1>5. LocalTypes'
  BY <1>3, ThreadConstants DEF LocalInv, LocalTypes, NoLast
<1>6. \A u \in Thread, x \in Local, k \in Kind : In(u, x, k)' <=> In(u, x, k)
  BY <1>3 DEF In
<1>7. \A x \in Local, k \in Kind : ~In(t, x, k)
  BY <1>3 DEF In
<1>8. ASSUME NEW u \in Thread, NEW x \in Local PROVE Registered(u, x)'
  <2>1. CASE u = t
    <3>1. dicts'[x][t] = 0 /\ registered'[t] = {}
      BY <1>3, <1>7 DEF LocalInv, LocalTypes, Registered, Kind
    <3> QED BY <1>3, <1>6, <1>7, <2>1, <3>1 DEF LocalInv, LocalTypes, Registered, Kind
  <2>2. CASE u # t
    <3>1. /\ dicts'[x][u] = dicts[x][u] /\ registered'[u] = registered[u]
          /\ pc'[u] = "gone" => pc[u] = "gone"
      BY <1>3, <2>2 DEF LocalInv, LocalTypes, BootInv, ThreadTypes
    <3> QED BY <1>3, <1>6, <3>1 DEF LocalInv, Registered, Kind
  <2> QED BY <2>1, <2>2
<1>9. ASSUME "cached" \notin InitRaises, NEW x \in Local PROVE CacheTrue(x)'
  <2>1. CASE x \in registered[t]
    BY <1>3, <2>1, ThreadConstants DEF CacheTrue, NoLast
  <2>2. CASE x \notin registered[t]
    <3>1. last'[x] = last[x] /\ dicts'[x] = dicts[x]
      BY <1>3, <2>2
    <3> QED BY <1>9, <3>1 DEF LocalInv, CacheTrue
  <2> QED BY <2>1, <2>2
<1> QED BY <1>4, <1>5, <1>8, <1>9 DEF LocalInv

-----------------------------------------------------------------------------
Inv == BootInv /\ Contexts /\ LocalInv

(* One step per action.                                                    *)
LEMMA NextInv == ASSUME ~IdentsReused, Inv, [Next]_vars PROVE Inv'
<1> USE DEF Inv
<1>0. SUFFICES LocalInv'
  BY NextBoot, NextContexts
<1>1. CASE UNCHANGED vars \/ exited
  BY <1>1, LocalsKept DEF vars, exited, locals
<1>2. ASSUME NEW t \in Thread,
             \/ take_gil(t) \/ release_gil(t) \/ Start(t) \/ execute(t)
             \/ \E u \in Thread : start_new_thread(t, u)
      PROVE LocalInv'
  <2>1. UNCHANGED locals
    BY <1>2 DEF take_gil, release_gil, Start, execute, start_new_thread, lock_acquired, launch,
       RPyThreadStart, bootstrap, lock_released
  <2>2. \A u \in Thread : pc'[u] = "gone" => pc[u] = "gone"
    BY <1>2 DEF take_gil, release_gil, Start, execute, start_new_thread, lock_acquired, launch,
       RPyThreadStart, bootstrap, lock_released, Goto, threads, BootInv, ThreadTypes
  <2> QED BY <2>1, <2>2, LocalsKept
<1>3. ASSUME NEW t \in Thread, NEW l \in Local, new_local(t, l) PROVE LocalInv'
  BY <1>3, NewLocalKeeps
<1>4. ASSUME NEW t \in Thread, NEW l \in Local, getdict(t, l) PROVE LocalInv'
  BY <1>4, GetdictKeeps
<1>5. ASSUME NEW t \in Thread, init_returns(t) PROVE LocalInv'
  BY <1>5, ReturnKeeps
<1>6. ASSUME NEW t \in Thread, init_raises(t) PROVE LocalInv'
  BY <1>6, RaiseKeeps
<1>7. ASSUME NEW t \in Thread, leave_thread(t) PROVE LocalInv'
  BY <1>7, LeaveKeepsLocals
<1>8. ASSUME NEW t \in Thread, fork(t) PROVE LocalInv'
  <2>1. UNCHANGED locals /\ \A u \in Thread : pc'[u] = "gone" => pc[u] = "gone"
    BY <1>8 DEF fork
  <2> QED BY <2>1, LocalsKept
<1> QED BY <1>1, <1>2, <1>3, <1>4, <1>5, <1>6, <1>7, <1>8 DEF Next, ThreadStep

(* With LocalInv they are the inductive invariant of the module.           *)
LEMMA Invariance == ~IdentsReused /\ Spec => []Inv
<1> SUFFICES ASSUME ~IdentsReused PROVE Spec => []Inv
  OBVIOUS
<1>1. Init => Inv
  BY InitBoot, InitLocals DEF Inv
<1>2. Inv /\ [Next]_vars => Inv'
  BY NextInv
<1> QED BY <1>1, <1>2, PTL DEF Spec

(* Every variable has its type.                                            *)
THEOREM TypeCorrect == ~IdentsReused /\ Spec => []TypeOK
<1>1. Inv => TypeOK
  <2> SUFFICES ASSUME Inv PROVE TypeOK
    OBVIOUS
  <2>1. ThreadTypes /\ Contexts /\ LocalTypes
    BY DEF Inv, BootInv, LocalInv
  <2>2. init \in [Thread -> Seq([local : Local, kind : {"new", "access"}])]
    BY DEF Inv, LocalInv, InitOK, Entry
  <2>3. mainident \in Ident
    BY ThreadConstants DEF Inv, BootInv, ThreadTypes, Living, Contexts
  <2>4. recentkey \in Ident /\ recentvalue \in Thread \cup {NoOne}
    BY <2>1 DEF Contexts
  <2> QED
    BY <2>1, <2>2, <2>3, <2>4 DEF ThreadTypes, PC, Contexts, LocalTypes, TypeOK
<1> QED BY <1>1, Invariance, PTL

(* The current dictionary of a thread that is in no __init__ of the object *)
(* has been initialised, unless an __init__ raises after using the object. *)
THEOREM LocalsInitialised == ~IdentsReused /\ "cached" \notin InitRaises /\ Spec => []LocalInitialised
<1>1. ASSUME "cached" \notin InitRaises, Inv PROVE LocalInitialised
  <2> SUFFICES ASSUME NEW t \in Thread, NEW l \in Local,
                      last[l].ec = t \/ dicts[l][t] # 0, ~InInit(t, l)
               PROVE  Seen(t, l) \in ready /\ Seen(t, l)[2] = t
    BY DEF LocalInitialised
  <2>1. ~In(t, l, "new") /\ ~In(t, l, "access")
    BY DEF In, InInit
  <2>2. last[l].ec = t => last[l].of = t /\ last[l].dict = dicts[l][t] /\ dicts[l][t] # 0
    BY <1>1 DEF Inv, LocalInv, CacheTrue
  <2>3. <<l, t, dicts[l][t]>> \in ready
    BY <1>1, <2>1, <2>2 DEF Inv, LocalInv, Registered
  <2>4. Seen(t, l) = <<l, t, dicts[l][t]>>
    BY <2>2 DEF Seen
  <2> QED BY <2>3, <2>4
<1>2. SUFFICES ASSUME ~IdentsReused, "cached" \notin InitRaises PROVE Spec => []LocalInitialised
  OBVIOUS
<1>3. Inv => LocalInitialised
  BY <1>1, <1>2
<1> QED BY <1>2, <1>3, Invariance, PTL

(* thread_is_stopping finds every dictionary it deletes and leaves none.   *)
THEOREM LocalsCleaned == ~IdentsReused /\ "cached" \notin InitRaises /\ Spec => []LocalCleaned
<1>1. ASSUME "cached" \notin InitRaises, Inv PROVE LocalCleaned
  BY <1>1 DEF Inv, LocalInv, Registered, CacheTrue, LocalCleaned
<1>2. SUFFICES ASSUME ~IdentsReused, "cached" \notin InitRaises PROVE Spec => []LocalCleaned
  OBVIOUS
<1>3. Inv => LocalCleaned
  BY <1>1, <1>2
<1> QED BY <1>2, <1>3, Invariance, PTL

-----------------------------------------------------------------------------
(***************************************************************************)
(* ThreadStart implements ThreadLife.                                      *)
(***************************************************************************)

(* A thread that has got as far as the program has its own callable.       *)
Launched == \A t \in Thread \ {Main} :
    pc[t] \notin {"unborn", "created", "lost"} => took[t] = t

LEMMA NextLaunched ==
    ASSUME BootInv, Launched, [Next]_vars
    PROVE  Launched'
<1> USE ThreadConstants DEF Launched, BootInv, ThreadTypes
<1>1. CASE UNCHANGED vars \/ exited
  BY <1>1 DEF vars, exited
<1>2. ASSUME NEW t \in Thread,
             \/ take_gil(t) \/ release_gil(t) \/ execute(t)
             \/ init_returns(t) \/ init_raises(t)
             \/ \E l \in Local : new_local(t, l) \/ getdict(t, l)
      PROVE  Launched'
  <2>1. UNCHANGED <<pc, took>>
    BY <1>2 DEF take_gil, release_gil, execute, init_returns, init_raises, new_local, getdict,
       threads, boot
  <2> QED BY <2>1
<1>3. ASSUME NEW t \in Thread, NEW u \in Thread, start_new_thread(t, u) PROVE Launched'
  BY <1>3 DEF start_new_thread, Goto
<1>4. ASSUME NEW t \in Thread, lock_acquired(t) \/ launch(t) \/ lock_released(t) PROVE Launched'
  BY <1>4 DEF lock_acquired, launch, lock_released, Goto
<1>5. ASSUME NEW t \in Thread, RPyThreadStart(t) PROVE Launched'
  <2>1. /\ UNCHANGED took /\ pc[t] = "launching"
        /\ \A u \in Thread : u # t => pc'[u] \in {pc[u], "created"}
    BY <1>5 DEF RPyThreadStart, Goto
  <2> QED BY <2>1
<1>6. ASSUME NEW t \in Thread, bootstrap(t) PROVE Launched'
  <2>1. pc[t] = "created" => callable = t
    BY DEF Handing
  <2> QED BY <1>6, <2>1 DEF bootstrap, Goto
<1>7. ASSUME NEW t \in Thread, leave_thread(t) PROVE Launched'
  BY <1>7 DEF leave_thread, Runs, Goto, boot
<1>8. ASSUME NEW t \in Thread, fork(t) PROVE Launched'
  BY <1>8 DEF fork
<1> QED
  BY <1>1, <1>2, <1>3, <1>4, <1>5, <1>6, <1>7, <1>8 DEF Next, ThreadStep, Start

(* Where a thread is, and which dictionary it has, in so many words.       *)
Asked(t) == \E u \in Thread : started[u] = t

Stage(t) ==
    IF pc[t] = "unborn" THEN (IF Asked(t) THEN "asked" ELSE "none")
    ELSE IF pc[t] = "created" THEN "asked"
    ELSE IF pc[t] = "gone" THEN "ended"
    ELSE IF pc[t] = "lost" THEN "lost"
    ELSE "running"

Stored(t, l) ==
    IF dicts[l][t] = 0 THEN Life!Absent
    ELSE IF InInit(t, l) THEN Life!Raw(dicts[l][t])
    ELSE Life!Ready(dicts[l][t])

LifeInv == Inv /\ Launched

LEMMA StageNow ==
    ASSUME Launched, NEW t \in Thread
    PROVE  LifeOf(t) = Stage(t)
<1>1. pc[t] \notin {"unborn", "created", "gone", "lost"} => t = Main \/ took[t] = t
  BY DEF Launched
<1> QED BY <1>1 DEF LifeOf, Stage, Asked

LEMMA StageThen ==
    ASSUME Launched', NEW t \in Thread
    PROVE  LifeOf(t)' = Stage(t)'
<1>1. pc'[t] \notin {"unborn", "created", "gone", "lost"} => t = Main \/ took'[t] = t
  BY DEF Launched
<1> QED BY <1>1 DEF LifeOf, Stage, Asked

LEMMA InsideIs ==
    ASSUME InitOK, NEW t \in Thread, NEW l \in Local
    PROVE  InInit(t, l) <=> \E kind \in Kind : In(t, l, kind)
<1>1. \A n \in 1..Len(init[t]) : init[t][n] \in Entry
  BY DEF InitOK
<1>2. \A n \in 1..Len(init[t]) : init[t][n].local = l
         <=> \E kind \in Kind : init[t][n] = [local |-> l, kind |-> kind]
  BY <1>1 DEF Entry, Kind
<1> HIDE DEF Kind
<1> QED BY <1>2 DEF InInit, In

LEMMA InsideThen ==
    ASSUME InitOK', NEW t \in Thread, NEW l \in Local
    PROVE  InInit(t, l)' <=> \E kind \in Kind : In(t, l, kind)'
<1>1. \A n \in 1..Len(init'[t]) : init'[t][n] \in Entry
  BY DEF InitOK
<1>2. \A n \in 1..Len(init'[t]) : init'[t][n].local = l
         <=> \E kind \in Kind : init'[t][n] = [local |-> l, kind |-> kind]
  BY <1>1 DEF Entry, Kind
<1> HIDE DEF Kind
<1> QED BY <1>2 DEF InInit, In

LEMMA StoredNow ==
    ASSUME LocalInv, "cached" \notin InitRaises, NEW t \in Thread, NEW l \in Local
    PROVE  DataOf(t, l) = Stored(t, l)
<1>1. Seen(t, l) = <<l, t, dicts[l][t]>>
  BY DEF Seen, LocalInv, CacheTrue
<1>2. dicts[l][t] # 0 /\ ~InInit(t, l) => <<l, t, dicts[l][t]>> \in ready
  BY InsideIs DEF LocalInv, Registered, Kind
<1>3. Seen(t, l)[2] = t /\ Seen(t, l)[3] = dicts[l][t]
  BY <1>1
<1>4. CASE dicts[l][t] = 0
  BY <1>3, <1>4 DEF DataOf, Stored, Life!Absent
<1>5. CASE dicts[l][t] # 0 /\ InInit(t, l)
  BY <1>3, <1>5 DEF DataOf, Stored, Life!Raw
<1>6. CASE dicts[l][t] # 0 /\ ~InInit(t, l)
  BY <1>1, <1>2, <1>3, <1>6 DEF DataOf, Stored, Life!Ready
<1> QED BY <1>4, <1>5, <1>6

LEMMA StoredThen ==
    ASSUME LocalInv', "cached" \notin InitRaises, NEW t \in Thread, NEW l \in Local
    PROVE  DataOf(t, l)' = Stored(t, l)'
<1>1. Seen(t, l)' = <<l, t, dicts'[l][t]>>
  BY DEF Seen, LocalInv, CacheTrue
<1>2. dicts'[l][t] # 0 /\ ~InInit(t, l)' => <<l, t, dicts'[l][t]>> \in ready'
  BY InsideThen DEF LocalInv, Registered, Kind
<1>3. Seen(t, l)'[2] = t /\ Seen(t, l)'[3] = dicts'[l][t]
  BY <1>1
<1>4. CASE dicts'[l][t] = 0
  BY <1>3, <1>4 DEF DataOf, Stored, Life!Absent
<1>5. CASE dicts'[l][t] # 0 /\ InInit(t, l)'
  BY <1>3, <1>5 DEF DataOf, Stored, Life!Raw
<1>6. CASE dicts'[l][t] # 0 /\ ~InInit(t, l)'
  BY <1>1, <1>2, <1>3, <1>6 DEF DataOf, Stored, Life!Ready
<1> QED BY <1>4, <1>5, <1>6

Stages == [t \in Thread |-> LifeOf(t)]
Store == [l \in Local |-> [t \in Thread |-> DataOf(t, l)]]

LEMMA LifeVars == /\ Life!vars = <<Stages, Store>>
                  /\ Life!vars' = <<Stages', Store'>>
BY DEF Life!vars, Stages, Store

LEMMA StageBecomes ==
    ASSUME Launched, Launched', NEW u \in Thread,
           \A v \in Thread : v # u => Stage(v)' = Stage(v)
    PROVE  Stages' = [Stages EXCEPT ![u] = Stage(u)']
<1>1. \A v \in Thread : LifeOf(v) = Stage(v) /\ LifeOf(v)' = Stage(v)'
  BY StageNow, StageThen
<1> QED BY <1>1 DEF Stages

LEMMA StagesSame ==
    ASSUME Launched, Launched', \A v \in Thread : Stage(v)' = Stage(v)
    PROVE  Stages' = Stages
<1>1. \A v \in Thread : LifeOf(v) = Stage(v) /\ LifeOf(v)' = Stage(v)'
  BY StageNow, StageThen
<1> QED BY <1>1 DEF Stages

LEMMA StoreBecomes ==
    ASSUME LocalInv, LocalInv', "cached" \notin InitRaises, NEW t \in Thread, NEW l \in Local,
           \A u \in Thread, x \in Local : (u = t /\ x = l) \/ Stored(u, x)' = Stored(u, x)
    PROVE  Store' = [Store EXCEPT ![l][t] = Stored(t, l)']
<1>1. \A u \in Thread, x \in Local : DataOf(u, x) = Stored(u, x) /\ DataOf(u, x)' = Stored(u, x)'
  BY StoredNow, StoredThen
<1>2. \A u \in Thread, x \in Local :
         DataOf(u, x)' = IF u = t /\ x = l THEN Stored(t, l)' ELSE DataOf(u, x)
  BY <1>1
<1> QED BY <1>2 DEF Store

LEMMA StoreSame ==
    ASSUME LocalInv, LocalInv', "cached" \notin InitRaises,
           UNCHANGED dicts, \A u \in Thread, x \in Local : InInit(u, x)' <=> InInit(u, x)
    PROVE  Store' = Store
<1>1. \A u \in Thread, x \in Local : DataOf(u, x) = Stored(u, x) /\ DataOf(u, x)' = Stored(u, x)'
  BY StoredNow, StoredThen
<1>2. \A u \in Thread, x \in Local : Stored(u, x)' = Stored(u, x)
  BY DEF Stored, Life!Absent, Life!Raw, Life!Ready
<1> QED BY <1>1, <1>2 DEF Store

LEMMA LocalsSame == ASSUME UNCHANGED locals PROVE Store' = Store
<1>1. UNCHANGED <<dicts, last, ready, init>>
  BY DEF locals
<1>2. \A u \in Thread, x \in Local : DataOf(u, x)' = DataOf(u, x)
  BY <1>1 DEF DataOf, Seen, InInit
<1> QED BY <1>2 DEF Store

(* A thread that does anything runs.                                       *)
LEMMA RunningNow ==
    ASSUME Launched, NEW t \in Thread, pc[t] \in {"run", "locking", "locked", "launching",
                                                 "failed", "releasing"}
    PROVE  Life!Running(t)
<1>1. Stages[t] = "running"
  BY StageNow DEF Stages, Stage
<1> QED BY <1>1 DEF Life!Running, Stages

-----------------------------------------------------------------------------
(* The steps of a start.                                                   *)
LEMMA StartRefines ==
    ASSUME LifeInv, LifeInv', NEW t \in Thread,
           Start(t) \/ \E u \in Thread : start_new_thread(t, u)
    PROVE  Life!Next \/ UNCHANGED Life!vars
<1> USE DEF LifeInv, Inv, BootInv, ThreadTypes
<1>1. UNCHANGED locals
  BY DEF Start, start_new_thread, lock_acquired, launch, RPyThreadStart, bootstrap, lock_released
<1>2. Store' = Store
  BY <1>1, LocalsSame
<1>3. ASSUME \A v \in Thread : Stage(v)' = Stage(v)
      PROVE  UNCHANGED Life!vars
  BY <1>2, <1>3, StagesSame, LifeVars
<1>4. ASSUME NEW u \in Thread, start_new_thread(t, u)
      PROVE  Life!Next
  <2>1. Life!Running(t)
    BY <1>4, RunningNow DEF start_new_thread
  <2>2. Stage(u) = "none" /\ Stage(u)' = "asked" /\ \A v \in Thread : v # u => Stage(v)' = Stage(v)
    BY <1>4, ThreadConstants DEF start_new_thread, Goto, Stage, Asked, Starting
  <2>3. Stages' = [Stages EXCEPT ![u] = "asked"] /\ Stages[u] = "none"
    BY <2>2, StageBecomes, StageNow DEF Stages
  <2>4. Life!Ask(t, u)
    BY <1>2, <2>1, <2>3 DEF Life!Ask, Life!Becomes, Stages, Store
  <2> QED BY <2>4 DEF Life!Next
<1>5. CASE lock_acquired(t) \/ launch(t) \/ lock_released(t)
  <2>1. \A v \in Thread : Stage(v)' = Stage(v)
    BY <1>5 DEF lock_acquired, launch, lock_released, Goto, Stage, Asked
  <2> QED BY <1>3, <2>1
<1>6. CASE RPyThreadStart(t)
  <2>0. PICK u \in Thread : u = started[t]
    BY <1>6 DEF RPyThreadStart, Starting
  <2>1. /\ pc[u] = "unborn" /\ u # t /\ pc[t] = "launching"
        /\ \A v \in Thread : started[v] = u => v = t
        /\ started' = [started EXCEPT ![t] = NoOne]
        /\ \/ pc' = [pc EXCEPT ![u] = "created", ![t] = "run"]
           \/ pc' = [pc EXCEPT ![t] = "failed"]
    BY <1>6, <2>0, ThreadConstants DEF RPyThreadStart, Goto, Starting
  <2>2. \A v \in Thread : v # u => (Asked(v)' <=> Asked(v))
    BY <2>0, <2>1, ThreadConstants DEF Asked
  <2>3. \A v \in Thread : v # u => Stage(v)' = Stage(v)
    BY <2>1, <2>2 DEF Stage
  <2>4. Stage(u) = "asked" /\ ~Asked(u)'
    BY <2>0, <2>1, ThreadConstants DEF Stage, Asked
  <2>5. CASE pc' = [pc EXCEPT ![u] = "created", ![t] = "run"]
    <3>1. Stage(u)' = "asked"
      BY <2>1, <2>5 DEF Stage
    <3> QED BY <1>3, <2>3, <2>4, <3>1
  <2>6. CASE pc' = [pc EXCEPT ![t] = "failed"]
    <3>1. Stage(u)' = "none"
      BY <2>1, <2>4, <2>6 DEF Stage
    <3>2. Stages' = [Stages EXCEPT ![u] = "none"] /\ Stages[u] = "asked"
      BY <2>1, <2>3, <2>4, <3>1, StageBecomes, StageNow DEF Stages
    <3>3. Life!Refuse(u)
      BY <1>2, <3>2 DEF Life!Refuse, Life!Becomes, Stages, Store
    <3> QED BY <2>1, <3>3 DEF Life!Next
  <2> QED BY <2>1, <2>5, <2>6
<1>7. CASE bootstrap(t)
  <2>1. /\ pc[t] \in {"created", "failed"} /\ pc' = [pc EXCEPT ![t] = "releasing"]
        /\ UNCHANGED started
    BY <1>7 DEF bootstrap, Goto
  <2>2. \A v \in Thread : v # t => Stage(v)' = Stage(v)
    BY <2>1 DEF Stage, Asked
  <2>3. Stage(t)' = "running"
    BY <2>1 DEF Stage
  <2>4. CASE pc[t] = "failed"
    BY <1>3, <2>2, <2>3, <2>4 DEF Stage
  <2>5. CASE pc[t] = "created"
    <3>1. Stages' = [Stages EXCEPT ![t] = "running"] /\ Stages[t] = "asked"
      BY <2>2, <2>3, <2>5, StageBecomes, StageNow DEF Stages, Stage
    <3>2. Life!Begin(t)
      BY <1>2, <3>1 DEF Life!Begin, Life!Becomes, Stages, Store
    <3> QED BY <3>2 DEF Life!Next
  <2> QED BY <2>1, <2>4, <2>5
<1> QED BY <1>4, <1>5, <1>6, <1>7 DEF Start

LEMMA ForkRefines ==
    ASSUME LifeInv, LifeInv', NEW t \in Thread, fork(t)
    PROVE  Life!Fork(t)
<1> USE DEF LifeInv, Inv, BootInv, ThreadTypes
<1>1. Store' = Store
  BY LocalsSame DEF fork
<1>2. pc[t] = "run"
  BY DEF fork, Runs
<1>3. /\ \A v \in Thread : pc'[v] = IF v = t \/ pc[v] \in {"unborn", "gone"} THEN pc[v] ELSE "lost"
      /\ \A v \in Thread : ~Asked(v)'
  BY ThreadConstants DEF fork, Asked
<1>4. \A v \in Thread \ {t} :
         \/ Stage(v) \in {"asked", "running"} /\ Stage(v)' = "lost"
         \/ Stage(v) = "asked" /\ Stage(v)' = "none"
         \/ Stage(v) \in {"none", "ended", "lost"} /\ Stage(v)' = Stage(v)
  BY <1>3 DEF Stage
<1>5. Stage(t)' = "running"
  BY <1>2, <1>3 DEF Stage
<1>6. \A v \in Thread : Stages[v] = Stage(v) /\ Stages'[v] = Stage(v)'
  BY StageNow, StageThen DEF Stages
<1>7. Stages' \in [Thread -> Life!Lives]
  <2>1. \A v \in Thread : Stage(v)' \in Life!Lives
    BY DEF Stage, Life!Lives
  <2> QED BY <2>1, StageThen DEF Stages
<1>8. Life!Running(t)
  BY <1>2, RunningNow
<1> QED
  BY <1>1, <1>4, <1>5, <1>6, <1>7, <1>8 DEF Life!Fork, Stages, Store

LEMMA LeaveRefines ==
    ASSUME LifeInv, LifeInv', "cached" \notin InitRaises, NEW t \in Thread, leave_thread(t)
    PROVE  Life!End(t)
<1> USE DEF LifeInv, Inv, BootInv, ThreadTypes
<1>1. ident[t] # 0 /\ getvalue(t) = t
  <2>1. ident[t] # 0 /\ getvalue(t) # NoOne
    BY DEF leave_thread, Runs, Living
  <2> QED BY <2>1, OwnLookup
<1>2. /\ pc[t] = "run" /\ t # Main /\ init[t] = <<>> /\ UNCHANGED <<init, started>>
      /\ pc' = [pc EXCEPT ![t] = "gone"]
      /\ dicts' = [l \in Local |-> IF l \in registered[t] THEN [dicts[l] EXCEPT ![t] = 0] ELSE dicts[l]]
  BY <1>1 DEF leave_thread, Runs, Goto, boot
<1>3. Stage(t)' = "ended" /\ \A v \in Thread : v # t => Stage(v)' = Stage(v)
  BY <1>2 DEF Stage, Asked
<1>4. Stages' = [Stages EXCEPT ![t] = "ended"]
  BY <1>3, StageBecomes
<1>5. ASSUME NEW l \in Local PROVE Store[l][t].is # "raw"
  <2>1. ~InInit(t, l)
    BY <1>2 DEF InInit
  <2>2. Store[l][t] = Stored(t, l)
    BY StoredNow DEF Store
  <2> QED BY <2>1, <2>2 DEF Stored, Life!Absent, Life!Ready
<1>6. \A l \in Local : dicts'[l][t] = 0 /\ \A u \in Thread : u # t => dicts'[l][u] = dicts[l][u]
  <2>1. \A l \in Local : pc'[t] = "gone" => dicts'[l][t] = 0
    BY DEF LocalInv, Registered
  <2> QED BY <1>2, <2>1 DEF LocalInv, LocalTypes
<1>7. \A l \in Local, u \in Thread : Stored(u, l)' = IF u = t THEN Life!Absent ELSE Stored(u, l)
  BY <1>2, <1>6 DEF Stored, InInit, Life!Absent, Life!Raw, Life!Ready
<1>8. Store' = [l \in Local |-> [Store[l] EXCEPT ![t] = Life!Absent]]
  <2>1. \A l \in Local, u \in Thread : DataOf(u, l) = Stored(u, l) /\ DataOf(u, l)' = Stored(u, l)'
    BY StoredNow, StoredThen
  <2>2. \A l \in Local, u \in Thread :
           DataOf(u, l)' = IF u = t THEN Life!Absent ELSE DataOf(u, l)
    BY <1>7, <2>1
  <2> QED BY <2>2 DEF Store
<1>9. Life!Running(t)
  BY <1>2, RunningNow
<1> QED
  BY <1>2, <1>4, <1>5, <1>8, <1>9 DEF Life!End, Life!Becomes, Stages, Store

-----------------------------------------------------------------------------
(* The steps of a dictionary, each taken by the thread it belongs to.      *)
LEMMA MakeRefines ==
    ASSUME LifeInv, LifeInv', "cached" \notin InitRaises,
           NEW t \in Thread, NEW l \in Local, NEW n \in 1..MaxTries, NEW kind \in Kind,
           pc[t] = "run", UNCHANGED <<pc, started>>,
           dicts[l][t] = 0, dicts' = [dicts EXCEPT ![l][t] = n],
           Enter(t, l, kind), ~In(t, l, kind)
    PROVE  Life!Make(t, l)
<1> USE DEF LifeInv, Inv
<1>1. \A u \in Thread, x \in Local, k \in Kind :
         In(u, x, k)' <=> In(u, x, k) \/ (u = t /\ x = l /\ k = kind)
  BY EnterInit DEF LocalInv
<1>2. \A u \in Thread, x \in Local : InInit(u, x)' <=> InInit(u, x) \/ (u = t /\ x = l)
  BY <1>1, InsideIs, InsideThen DEF LocalInv
<1>3. /\ dicts'[l][t] = n
      /\ \A u \in Thread, x \in Local : (u = t /\ x = l) \/ dicts'[x][u] = dicts[x][u]
  BY DEF LocalInv, LocalTypes
<1>4. \A u \in Thread, x \in Local : (u = t /\ x = l) \/ Stored(u, x)' = Stored(u, x)
  BY <1>2, <1>3 DEF Stored, Life!Absent, Life!Raw, Life!Ready
<1>5. Stored(t, l) = Life!Absent /\ Stored(t, l)' = Life!Raw(n)
  BY <1>2, <1>3, ThreadConstants DEF Stored, Life!Absent, Life!Raw
<1>6. Store' = [Store EXCEPT ![l][t] = Life!Raw(n)] /\ Store[l][t] = Life!Absent
  BY <1>4, <1>5, StoreBecomes, StoredNow DEF Store
<1>7. Stages' = Stages
  BY StagesSame DEF Stage, Asked
<1>8. Life!Running(t)
  BY RunningNow
<1> QED
  BY <1>6, <1>7, <1>8 DEF Life!Make, Life!Has, Stages, Store

LEMMA NewLocalRefines ==
    ASSUME LifeInv, LifeInv', "cached" \notin InitRaises,
           NEW t \in Thread, NEW l \in Local, new_local(t, l)
    PROVE  Life!Make(t, l)
<1> USE DEF LifeInv, Inv
<1>1. /\ pc[t] = "run" /\ UNCHANGED <<pc, started>>
      /\ tries[l][t] < MaxTries
      /\ dicts' = [dicts EXCEPT ![l][t] = tries[l][t] + 1]
      /\ Enter(t, l, "new")
  <2>1. PICK ec \in Thread : getexecutioncontext(t, ec) /\ NewDict(ec, l)
    BY DEF new_local
  <2>2. ec = t
    BY <2>1, LookupKeeps DEF new_local
  <2> QED BY <2>1, <2>2 DEF new_local, NewDict, threads, boot, Runs
<1>2. tries[l][t] = 0
  BY DEF new_local, Exists, LocalInv, LocalTypes
<1>3. dicts[l][t] = 0 /\ ~In(t, l, "new")
  BY <1>2 DEF LocalInv, Registered
<1>4. tries[l][t] + 1 \in 1..MaxTries
  BY <1>1, <1>2, ThreadConstants
<1> QED
  BY <1>1, <1>3, <1>4, MakeRefines DEF Kind

LEMMA GetdictRefines ==
    ASSUME LifeInv, LifeInv', "cached" \notin InitRaises,
           NEW t \in Thread, NEW l \in Local, getdict(t, l)
    PROVE  Life!Make(t, l) \/ UNCHANGED Life!vars
<1> USE DEF LifeInv, Inv
<1>1. /\ pc[t] = "run" /\ UNCHANGED <<pc, started>>
      /\ \/ UNCHANGED <<dicts, init>>
         \/ dicts[l][t] = 0 /\ NewDict(t, l) /\ Enter(t, l, "access")
  <2>1. PICK ec \in Thread : /\ getexecutioncontext(t, ec)
         /\ \/ UNCHANGED <<dicts, init>>
            \/ dicts[l][ec] = 0 /\ NewDict(ec, l) /\ Enter(t, l, "access")
    BY DEF getdict
  <2>2. ec = t
    BY <2>1, LookupKeeps DEF getdict
  <2> QED BY <2>1, <2>2 DEF getdict, threads, boot, Runs
<1>2. CASE UNCHANGED <<dicts, init>>
  <2>1. Store' = Store
    BY <1>2, StoreSame DEF InInit
  <2>2. Stages' = Stages
    BY <1>1, StagesSame DEF Stage, Asked
  <2> QED BY <2>1, <2>2, LifeVars
<1>3. CASE dicts[l][t] = 0 /\ NewDict(t, l) /\ Enter(t, l, "access")
  <2>1. /\ dicts' = [dicts EXCEPT ![l][t] = tries[l][t] + 1]
        /\ tries[l][t] + 1 \in 1..MaxTries
    BY <1>3, ThreadConstants DEF NewDict, LocalInv, LocalTypes
  <2>2. ~In(t, l, "access")
    BY <1>3 DEF LocalInv, Registered
  <2> QED BY <1>1, <1>3, <2>1, <2>2, MakeRefines DEF Kind
<1> QED BY <1>1, <1>2, <1>3

(* What the innermost __init__ is of, and that it is the only one of it.   *)
LEMMA InitEnds ==
    ASSUME LocalInv, NEW t \in Thread, init[t] # <<>>, Leave(t)
    PROVE  \E l \in Local :
              /\ Innermost(t).local = l
              /\ In(t, l, Innermost(t).kind) /\ Innermost(t).kind \in Kind
              /\ dicts[l][t] # 0 /\ dicts[l][t] = tries[l][t] /\ tries[l][t] \in 1..MaxTries
              /\ \A u \in Thread, x \in Local :
                    InInit(u, x)' <=> InInit(u, x) /\ ~(u = t /\ x = l)
<1>1. /\ InitOK' /\ Innermost(t) \in Entry
      /\ In(t, Innermost(t).local, Innermost(t).kind)
      /\ \A u \in Thread, x \in Local, k \in Kind :
            In(u, x, k)' <=> In(u, x, k) /\ ~(u = t /\ Innermost(t) = [local |-> x, kind |-> k])
  BY LeaveInit DEF LocalInv
<1>2. PICK l \in Local, kind \in Kind : Innermost(t) = [local |-> l, kind |-> kind]
  BY <1>1 DEF Entry, Kind
<1>3. \A x \in Local, k \in Kind :
         Innermost(t) = [local |-> x, kind |-> k] <=> x = l /\ k = kind
  BY <1>2
<1>4. In(t, l, kind) /\ \A k \in Kind : In(t, l, k) => k = kind
  <2>1. Innermost(t).local = l /\ Innermost(t).kind = kind
    BY <1>2
  <2>2. ~(In(t, l, "new") /\ In(t, l, "access"))
    BY DEF LocalInv, Registered
  <2> QED BY <1>1, <2>1, <2>2 DEF Kind
<1>5. dicts[l][t] # 0 /\ dicts[l][t] = tries[l][t]
  BY <1>4 DEF LocalInv, Registered, Kind
<1>6. tries[l][t] \in 1..MaxTries
  BY <1>5, ThreadConstants DEF LocalInv, LocalTypes
<1>7. \A u \in Thread, x \in Local : InInit(u, x)' <=> InInit(u, x) /\ ~(u = t /\ x = l)
  <2> SUFFICES ASSUME NEW u \in Thread, NEW x \in Local
               PROVE  InInit(u, x)' <=> InInit(u, x) /\ ~(u = t /\ x = l)
    OBVIOUS
  <2>1. InInit(u, x) <=> \E k \in Kind : In(u, x, k)
    BY InsideIs DEF LocalInv
  <2>2. InInit(u, x)' <=> \E k \in Kind : In(u, x, k)'
    BY <1>1, InsideThen
  <2>3. \A k \in Kind : In(u, x, k)' <=> In(u, x, k) /\ ~(u = t /\ x = l /\ k = kind)
    BY <1>1, <1>3
  <2> QED BY <1>4, <2>1, <2>2, <2>3
<1> QED BY <1>2, <1>4, <1>5, <1>6, <1>7

LEMMA ReturnRefines ==
    ASSUME LifeInv, LifeInv', "cached" \notin InitRaises, NEW t \in Thread, init_returns(t)
    PROVE  \E l \in Local : Life!Initialise(t, l)
<1> USE DEF LifeInv, Inv
<1>1. /\ pc[t] = "run" /\ init[t] # <<>> /\ Leave(t) /\ UNCHANGED <<pc, started, dicts>>
  BY DEF init_returns, Runs, threads, boot
<1>2. PICK l \in Local :
              /\ In(t, l, Innermost(t).kind) /\ Innermost(t).kind \in Kind
              /\ dicts[l][t] # 0 /\ dicts[l][t] \in 1..MaxTries
              /\ \A u \in Thread, x \in Local :
                    InInit(u, x)' <=> InInit(u, x) /\ ~(u = t /\ x = l)
  BY <1>1, InitEnds
<1> DEFINE n == dicts[l][t]
<1>3. InInit(t, l)
  BY <1>2, InsideIs DEF LocalInv
<1>4. \A u \in Thread, x \in Local : (u = t /\ x = l) \/ Stored(u, x)' = Stored(u, x)
  BY <1>1, <1>2 DEF Stored, Life!Absent, Life!Raw, Life!Ready
<1>5. Stored(t, l) = Life!Raw(dicts[l][t]) /\ Stored(t, l)' = Life!Ready(dicts[l][t])
  BY <1>1, <1>2, <1>3 DEF Stored, Life!Raw, Life!Ready
<1>6. /\ Store' = [Store EXCEPT ![l][t] = Life!Ready(dicts[l][t])]
      /\ Store[l][t] = Life!Raw(dicts[l][t])
  BY <1>4, <1>5, StoreBecomes, StoredNow DEF Store
<1>7. Stages' = Stages
  BY <1>1, StagesSame DEF Stage, Asked
<1>8. Life!Running(t)
  BY <1>1, RunningNow
<1>9. Life!Initialise(t, l)
  BY <1>2, <1>6, <1>7, <1>8 DEF Life!Initialise, Life!Has, Stages, Store
<1> QED BY <1>9

LEMMA RaiseRefines ==
    ASSUME LifeInv, LifeInv', "cached" \notin InitRaises, NEW t \in Thread, init_raises(t)
    PROVE  \E l \in Local : Life!Fail(t, l)
<1> USE DEF LifeInv, Inv
<1>1. /\ pc[t] = "run" /\ init[t] # <<>> /\ Leave(t) /\ UNCHANGED <<pc, started>>
      /\ dicts' = [dicts EXCEPT ![Innermost(t).local][t] = 0]
  BY DEF init_raises, Runs, threads, boot
<1>2. PICK l \in Local :
              /\ Innermost(t).local = l
              /\ In(t, l, Innermost(t).kind) /\ Innermost(t).kind \in Kind
              /\ dicts[l][t] # 0
              /\ \A u \in Thread, x \in Local :
                    InInit(u, x)' <=> InInit(u, x) /\ ~(u = t /\ x = l)
  BY <1>1, InitEnds
<1>3. InInit(t, l)
  BY <1>2, InsideIs DEF LocalInv
<1>4. /\ dicts'[l][t] = 0
      /\ \A u \in Thread, x \in Local : (u = t /\ x = l) \/ dicts'[x][u] = dicts[x][u]
  BY <1>1, <1>2 DEF LocalInv, LocalTypes
<1>5. \A u \in Thread, x \in Local : (u = t /\ x = l) \/ Stored(u, x)' = Stored(u, x)
  BY <1>2, <1>4 DEF Stored, Life!Absent, Life!Raw, Life!Ready
<1>6. Stored(t, l).is = "raw" /\ Stored(t, l)' = Life!Absent
  BY <1>2, <1>3, <1>4 DEF Stored, Life!Raw, Life!Absent
<1>7. Store' = [Store EXCEPT ![l][t] = Life!Absent] /\ Store[l][t].is = "raw"
  BY <1>5, <1>6, StoreBecomes, StoredNow DEF Store
<1>8. Stages' = Stages
  BY <1>1, StagesSame DEF Stage, Asked
<1>9. Life!Running(t)
  BY <1>1, RunningNow
<1>10. Life!Fail(t, l)
  BY <1>7, <1>8, <1>9 DEF Life!Fail, Life!Has, Stages, Store
<1> QED BY <1>10

-----------------------------------------------------------------------------
LEMMA NextLife ==
    ASSUME LifeInv, LifeInv', "cached" \notin InitRaises, [Next]_vars
    PROVE  [Life!Next]_(Life!vars)
<1>1. ASSUME UNCHANGED <<pc, started, took, dicts, last, ready, init>>
      PROVE  UNCHANGED Life!vars
  <2>1. \A t \in Thread : LifeOf(t)' = LifeOf(t)
    BY <1>1 DEF LifeOf
  <2>2. \A t \in Thread, l \in Local : DataOf(t, l)' = DataOf(t, l)
    BY <1>1 DEF DataOf, Seen, InInit
  <2> QED BY <2>1, <2>2 DEF Life!vars
<1>2. CASE UNCHANGED vars \/ exited
  BY <1>1, <1>2 DEF vars, exited
<1>3. ASSUME NEW t \in Thread, take_gil(t) \/ release_gil(t) \/ execute(t)
      PROVE  UNCHANGED Life!vars
  BY <1>1, <1>3 DEF take_gil, release_gil, execute, threads, boot, locals
<1>4. ASSUME NEW t \in Thread, Start(t) \/ \E u \in Thread : start_new_thread(t, u)
      PROVE  [Life!Next]_(Life!vars)
  BY <1>4, StartRefines
<1>5. ASSUME NEW t \in Thread, leave_thread(t) PROVE Life!Next
  BY <1>5, LeaveRefines DEF Life!Next
<1>6. ASSUME NEW t \in Thread, NEW l \in Local, new_local(t, l) PROVE Life!Next
  BY <1>6, NewLocalRefines DEF Life!Next
<1>7. ASSUME NEW t \in Thread, NEW l \in Local, getdict(t, l) PROVE [Life!Next]_(Life!vars)
  BY <1>7, GetdictRefines DEF Life!Next
<1>8. ASSUME NEW t \in Thread, init_returns(t) PROVE Life!Next
  BY <1>8, ReturnRefines DEF Life!Next
<1>9. ASSUME NEW t \in Thread, init_raises(t) PROVE Life!Next
  BY <1>9, RaiseRefines DEF Life!Next
<1>10. ASSUME NEW t \in Thread, fork(t) PROVE Life!Next
  BY <1>10, ForkRefines DEF Life!Next
<1> QED
  BY <1>2, <1>3, <1>4, <1>5, <1>6, <1>7, <1>8, <1>9, <1>10 DEF Next, ThreadStep

LEMMA InitLife ==
    ASSUME Init, "cached" \notin InitRaises
    PROVE  LifeInv /\ Life!Init
<1>1. Inv
  BY InitBoot, InitLocals DEF Inv
<1>2. Launched
  BY DEF Init, Launched
<1>3. \A t \in Thread : LifeOf(t) = IF t = Main THEN "running" ELSE "none"
  <2>1. \A t \in Thread : Stage(t) = IF t = Main THEN "running" ELSE "none"
    BY ThreadConstants DEF Init, Stage, Asked
  <2> QED BY <1>2, <2>1, StageNow
<1>4. \A t \in Thread, l \in Local : DataOf(t, l) = Life!Absent
  <2>1. \A t \in Thread, l \in Local : Stored(t, l) = Life!Absent
    BY DEF Init, Stored
  <2> QED BY <1>1, <2>1, StoredNow DEF Inv
<1> QED
  BY <1>1, <1>2, <1>3, <1>4 DEF LifeInv, Life!Init

(* Threads and thread-local dictionaries are what ThreadLife promises, for *)
(* any threads, identifiers and objects: each thread runs its own callable *)
(* once, its dictionaries are made, initialised and given up by nobody     *)
(* else, and the one it has got stays the same until it ends.              *)
THEOREM ThreadsLive ==
    ~IdentsReused /\ "cached" \notin InitRaises /\ Spec => ThreadsAsLives
<1> SUFFICES ASSUME ~IdentsReused, "cached" \notin InitRaises PROVE Spec => ThreadsAsLives
  OBVIOUS
<1>1. Init => LifeInv /\ Life!Init
  BY InitLife
<1>2. LifeInv /\ [Next]_vars => LifeInv'
  BY NextInv, NextLaunched DEF LifeInv, Inv
<1>3. LifeInv /\ LifeInv' /\ [Next]_vars => [Life!Next]_(Life!vars)
  BY NextLife
<1> QED
  BY <1>1, <1>2, <1>3, PTL DEF Spec, ThreadsAsLives, Life!Spec
=============================================================================
